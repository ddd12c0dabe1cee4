--------------------------- MODULE ServiceTreeProofs ---------------------------
(***************************************************************************)
(* Proofs about the service tree of HW2 for any number of services and     *)
(* commands, trees of any depth, and users that wait for a new service's   *)
(* name or do not.                                                         *)
(***************************************************************************)
EXTENDS ServiceTree, Recursion, FiniteSetTheorems, SequenceTheorems

-----------------------------------------------------------------------------
(* The inductive invariant, part by part.                                  *)

Ending   == {"telling", "waiting"}
Gone     == {"leaving", "exited"}
Born(p)  == pc[p] # "unborn"
ReqOps   == {"spawn", "find", "kill", "exchange"}
Messages == [op : ReqOps \union {"nothing", "dead"}, a : Processes, b : Processes]
Letters  == [op : ReqOps \union {"name", "dead"}, a : Processes, b : Processes]
News     == [op : {"none", "spawn_missing", "kill_missing", "exchanged", "killed"},
             a : Processes, b : Processes]
ChildRec == [svc : Services, fd : Fds, killed : BOOLEAN]

(* TypeOK, with the sets of functions spelled out.                         *)
Types ==
  /\ pc \in [Processes -> {"unborn", "naming", "idle", "search", "asking", "found",
                           "telling", "waiting", "leaving", "exited"}]
  /\ msg \in [Processes -> Messages]
  /\ at \in [Processes -> Nat]
  /\ kids \in [Processes -> Seq(ChildRec)]
  /\ conn \in [Processes -> [Fds -> Services \union {Closed}]]
  /\ above \in [Processes -> SUBSET Processes]
  /\ down \in [Services -> Seq(Letters)]
  /\ up \in [Services -> Seq({"yes", "yesn", "not"})]
  /\ reaped \subseteq Services /\ doomed \subseteq Services
  /\ said \in News
  /\ commands \in 0..MaxCommands

(* On the way down to s, or s itself.                                      *)
Line(s) == above[s] \union {s}

(* The tree: above is the line of parents, and a service is in one list of *)
(* children, at one place.                                                 *)
TreeInv ==
  /\ Born(Manager) /\ above[Manager] = {}
  /\ \A p \in Processes : ~Born(p) => above[p] = {} /\ kids[p] = << >>
  /\ \A s \in Services : Born(s) => Manager \in above[s]
  /\ \A s \in Processes : s \notin above[s]
  /\ \A s \in Processes : \A a \in above[s] :
       /\ Born(a) /\ above[a] \subseteq above[s]
       /\ \E k \in DOMAIN kids[a] : Child(a, k) \in Line(s)
       /\ \A j, k \in DOMAIN kids[a] : Child(a, j) \in Line(s) /\ Child(a, k) \in Line(s) => j = k
  /\ \A p \in Processes : \A k \in DOMAIN kids[p] :
       Born(Child(p, k)) /\ above[Child(p, k)] = above[p] \union {p}

(* An open pair of descriptors leads to the child it was made for, and the *)
(* pair of a child that is not marked killed is open until the loop that   *)
(* tells the children to die.                                              *)
ConnInv ==
  \A p \in Processes :
    /\ \A fd \in Fds : conn[p][fd] # Closed =>
         \E k \in DOMAIN kids[p] :
           conn[p][fd] = Child(p, k) /\ kids[p][k].fd = fd /\ ~kids[p][k].killed
    /\ \A k \in DOMAIN kids[p] : ~kids[p][k].killed /\ pc[p] \notin Ending \union Gone =>
         Peer(p, k) = Child(p, k)

(* Where tmp of the loops is.                                              *)
LoopInv ==
  \A p \in Processes :
    /\ at[p] <= Len(kids[p]) + 1
    /\ pc[p] = "search" => at[p] <= Len(kids[p])
    /\ pc[p] = "asking" => at[p] \in DOMAIN kids[p] /\ ~kids[p][at[p]].killed
    /\ pc[p] \in Ending => at[p] > 0
    /\ pc[p] = "waiting" => at[p] <= Len(kids[p])

(* The messages in the pipe down to a service, behind the name or not.     *)
Holds(s, m) == down[s] \in {<<m>>, <<Name, m>>}
Quiet(s)    == down[s] = IF pc[s] = "naming" THEN <<Name>> ELSE << >>

PipeInv ==
  \A s \in Services :
    /\ \/ Quiet(s)
       \/ /\ pc[s] = "naming"
          /\ down[s] = <<Name, Request>> \/ down[s] = <<Name, Dead>>
       \/ /\ pc[s] = "idle"
          /\ down[s] = <<Request>> \/ down[s] = <<Dead>>
    /\ up[s] # << >> =>
         /\ pc[s] \in {"idle", "leaving", "exited"} /\ down[s] = << >>
         /\ \E r \in {"yes", "yesn", "not"} : up[s] = <<r>>
         /\ pc[s] \in Gone => up[s] = <<"yesn">>

(* The request is at s, or has been answered by s and not yet read.        *)
Asked(s) ==
  \/ pc[s] \in {"search", "found", "asking"}
  \/ pc[s] \in Ending /\ msg[s].op # "dead"
  \/ Holds(s, Request)
  \/ up[s] # << >>

(* s was told to die by its parent.                                        *)
Told(s) == Holds(s, Dead) \/ (pc[s] \in Ending /\ msg[s].op = "dead")

(* p asks the child on the way to s.                                       *)
AsksToward(p, s) == pc[p] = "asking" /\ Child(p, at[p]) \in Line(s)

(* A process that tells its children to die; the Manager may end before    *)
(* they have.                                                              *)
Kills(p) == pc[p] \in Ending \/ (p = Manager /\ pc[p] = "exited")

(* The request is in one place: all services above it wait for its answer. *)
(* Only services under one that is dying are told to die.                  *)
PathInv ==
  \A s \in Services :
    /\ Asked(s) => \A p \in above[s] : AsksToward(p, s)
    /\ Told(s)  => \A p \in above[s] : AsksToward(p, s) \/ Kills(p)
    /\ ~(Asked(s) /\ Told(s))

(* Whose turn it is to be told: children whose pipes are still open have   *)
(* not been told; those that have were told by their parent.               *)
TurnInv ==
  \A p \in Processes :
    /\ \A fd \in Fds : conn[p][fd] # Closed =>
         /\ Kills(p) => ~Asked(conn[p][fd]) /\ ~Told(conn[p][fd])
         /\ pc[conn[p][fd]] \in Gone => up[conn[p][fd]] # << >>
    /\ \A k \in DOMAIN kids[p] : Told(Child(p, k)) => Kills(p)

(* What the request is and how far it has come.                            *)
RequestInv ==
  /\ Request.op \in ReqOps \union {"nothing"}
  /\ pc[Manager] \notin {"naming", "leaving"}
  /\ pc[Manager] # "idle" => Request.op \in ReqOps
  /\ pc[Manager] = "found" => Request.op = "spawn" /\ Request.a = Manager
  /\ pc[Manager] \in {"search", "asking"} => Request.op = "exchange" \/ Request.a \in Services
  /\ pc[Manager] \in Ending \union {"exited"} => Request.op = "kill" /\ Request.a = Manager
  /\ \A s \in Services :
       /\ pc[s] \in {"search", "found", "asking"} => msg[s] = Request
       /\ pc[s] \in {"search", "asking"} => For(Request) # s
       /\ pc[s] = "found" => For(Request) = s /\ Request.op # "kill"
       /\ pc[s] \in Ending =>
            msg[s].op = "dead" \/ (msg[s] = Request /\ Request.op = "kill" /\ Request.a = s)

(* A spawn names a service not born, and comes to its parent only once.    *)
SpawnInv ==
  Request.op = "spawn" =>
    /\ Request.b \in Services
    /\ Request.a = Request.b \/ Cardinality(above[Request.a]) < MaxDepth
    /\ Born(Request.b) =>
         \A p \in Processes :
           /\ pc[p] # "found"
           /\ p \in Services /\ Holds(p, Request) => p \notin Line(Request.a)
           /\ pc[p] \in {"search", "asking"} =>
                \A k \in DOMAIN kids[p] : k > at[p] => Child(p, k) \notin Line(Request.a)

(* The services that are to die, and those that do.                        *)
KillInv ==
  /\ \A s \in Services : pc[s] \in Ending \/ Told(s) => s \in doomed /\ Request.op = "kill"
  /\ Request.op \in {"find", "kill"} =>
       /\ Subtree(Request.a) \subseteq doomed
       /\ \A s \in doomed : Request.a \in Line(s)
  /\ \A s \in Services : up[s] # << >> =>
       /\ up[s] = <<"yesn">> => Request.op = "kill" /\ Request.a = s
       /\ Request.op = "kill" /\ up[s] # <<"not">> =>
            Request.a \in Services /\ pc[Request.a] \in Gone
  /\ said.op # "none" => pc[Manager] \in {"idle", "exited"}
  /\ said.op = "killed" => Request.op = "kill" /\ said.a = Request.a
  /\ said.op = "killed" /\ said.a # Manager => pc[said.a] \in Gone
  /\ said.op = "killed" /\ said.a = Manager => pc[Manager] = "exited"

(* The children that were waited for.                                      *)
Waited(p) == {k \in DOMAIN kids[p] : Child(p, k) \in reaped}

(* Each wait has taken a child that had exited; so who leaves has waited   *)
(* for all, and nobody under it lives.                                     *)
ReapInv ==
  /\ \A s \in reaped : pc[s] = "exited"
  /\ \A p \in Processes :
       Kills(p) =>
         \/ at[p] - 1 <= Cardinality(Waited(p))
         \/ p = Manager /\ \E k \in DOMAIN kids[p] : kids[p][k].killed
  /\ \A s \in Services : \A p \in above[s] : p # Manager /\ pc[p] \in Gone => pc[s] = "exited"
  /\ pc[Manager] = "exited" => at[Manager] > Len(kids[Manager])

IInv ==
  /\ Types /\ TreeInv /\ ConnInv /\ LoopInv /\ PipeInv /\ PathInv /\ TurnInv
  /\ RequestInv /\ SpawnInv /\ KillInv /\ ReapInv

-----------------------------------------------------------------------------
(* Facts about the constants, about minima and about short sequences.      *)

(* Who is who: the Manager is no service, and nothing is Closed.           *)
LEMMA WhoIsWho ==
  /\ Manager \in Processes /\ Manager \notin Services
  /\ Processes = Services \union {Manager}
  /\ Closed \notin Services
  /\ Services \subseteq Nat /\ Fds \subseteq Nat
  /\ IsFiniteSet(Services) /\ IsFiniteSet(Processes)
  /\ IsFiniteSet(Fds) /\ Cardinality(Fds) = Cardinality(Services)
  /\ MaxServices \in Nat /\ MaxDepth \in Nat /\ MaxCommands \in Nat
<1>1. MaxServices \in Nat /\ MaxDepth \in Nat /\ MaxCommands \in Nat
  BY TreeAssumption
<1>2. IsFiniteSet(1..MaxServices)
  BY <1>1, FS_Interval
<1>3. IsFiniteSet(1..MaxServices \union {0})
  BY <1>2, FS_AddElement
<1>4. {0} \union 1..MaxServices = 1..MaxServices \union {0}
  OBVIOUS
<1> QED BY <1>1, <1>2, <1>3, <1>4 DEF Manager, Services, Processes, Closed, Fds

(* The minimum of a set is in it and below the rest.                       *)
LEMMA MinIs ==
  ASSUME NEW S, S \subseteq Nat, S # {}
  PROVE  Min(S) \in S /\ \A n \in S : Min(S) <= n
<1>1. \E m \in S : \A n \in S : m <= n
  BY LeastNumber
<1> QED BY <1>1 DEF Min

(* A message behind another one.                                           *)
LEMMA AppendTwo ==
  ASSUME NEW m, NEW n
  PROVE  Append(<<m>>, n) = <<m, n>>
<1> DEFINE S == {m, n}
           s == <<m>>
           t == <<m, n>>
           u == Append(s, n)
<1>1. m \in S /\ n \in S /\ s \in Seq(S) /\ t \in Seq(S)
  OBVIOUS
<1>2. Len(s) = 1 /\ Len(t) = 2 /\ s[1] = m /\ t[1] = m /\ t[2] = n
  OBVIOUS
<1> HIDE DEF S, s, t
<1>3. /\ u \in Seq(S) /\ Len(u) = Len(s) + 1
      /\ \A j \in 1..Len(s) : u[j] = s[j]
      /\ u[Len(s) + 1] = n
  BY <1>1, AppendProperties
<1>4. u[1] = m /\ u[2] = n /\ Len(u) = 2
  <2>1. 1 \in 1..Len(s) /\ Len(s) + 1 = 2
    BY <1>2
  <2> HIDE DEF u
  <2> QED BY <1>2, <1>3, <2>1
<1> HIDE DEF u
<1>5. \A j \in 1..Len(u) : u[j] = t[j]
  BY <1>2, <1>4
<1>6. u = t
  BY <1>1, <1>2, <1>3, <1>4, <1>5, SeqEqual
<1> QED BY <1>6 DEF u, s, t

(* What the short sequences in the pipes become.                           *)
LEMMA Pipes ==
  /\ \A m : Append(<< >>, m) = <<m>> /\ Head(<<m>>) = m /\ Tail(<<m>>) = << >>
  /\ \A m, n : Append(<<m>>, n) = <<m, n>>
  /\ \A m : <<m>> # << >> /\ << >> # <<m>>
  /\ \A m, n : <<m>> = <<n>> => m = n
  /\ \A m, n, k : <<m, n>> # << >> /\ << >> # <<m, n>> /\ <<m, n>> # <<k>> /\ <<k>> # <<m, n>>
  /\ \A m, n, k, l : <<m, n>> = <<k, l>> => m = k /\ n = l
<1>1. \A m : Append(<< >>, m) = <<m>> /\ Head(<<m>>) = m /\ Tail(<<m>>) = << >>
  OBVIOUS
<1>2. \A m, n : Append(<<m>>, n) = <<m, n>>
  BY AppendTwo, Zenon
<1>3. \A m : <<m>> # << >> /\ << >> # <<m>>
  OBVIOUS
<1>4. \A m, n : <<m>> = <<n>> => m = n
  OBVIOUS
<1>5. \A m, n, k : <<m, n>> # << >> /\ << >> # <<m, n>> /\ <<m, n>> # <<k>> /\ <<k>> # <<m, n>>
  OBVIOUS
<1>6. \A m, n, k, l : <<m, n>> = <<k, l>> => m = k /\ n = l
  OBVIOUS
<1> QED BY <1>1, <1>2, <1>3, <1>4, <1>5, <1>6

(* What a message is called, and that requests are not the others.         *)
LEMMA Names ==
  /\ Name.op = "name" /\ Dead.op = "dead" /\ NoNews.op = "none" /\ Nothing.op = "nothing"
  /\ Name # Dead
  /\ \A m \in Messages : m.op \in ReqOps \union {"nothing", "dead"}
  /\ \A m \in Messages : m.op \in ReqOps \union {"nothing"} => m # Name /\ m # Dead
  /\ \A op, a, b : Msg(op, a, b).op = op /\ Msg(op, a, b).a = a /\ Msg(op, a, b).b = b
  BY DEF Name, Dead, NoNews, Nothing, Msg, Messages, ReqOps

(* A message in a pipe, alone or behind the name.                          *)
LEMMA HoldsWhat ==
  ASSUME NEW s, NEW m, NEW n
  PROVE  /\ down[s] = << >> => ~Holds(s, m)
         /\ down[s] = <<n>> => (Holds(s, m) <=> m = n)
         /\ down[s] = <<Name, n>> => (Holds(s, m) <=> m = n)
<1>1. Holds(s, m) <=> down[s] = <<m>> \/ down[s] = <<Name, m>>
  BY DEF Holds
<1>2. down[s] = << >> => ~Holds(s, m)
  BY <1>1, Pipes, Zenon
<1>3. down[s] = <<n>> => (Holds(s, m) <=> m = n)
  <2>1. <<n>> # <<Name, m>> /\ (<<n>> = <<m>> => n = m)
    BY Pipes, Zenon
  <2> QED BY <1>1, <2>1
<1>4. down[s] = <<Name, n>> => (Holds(s, m) <=> m = n)
  <2>1. <<Name, n>> # <<m>> /\ (<<Name, n>> = <<Name, m>> => n = m)
    BY Pipes, Zenon
  <2> QED BY <1>1, <2>1
<1> QED BY <1>2, <1>3, <1>4

-----------------------------------------------------------------------------
(* What the type invariant says of one process.                            *)
LEMMA Typed ==
  ASSUME Types
  PROVE  /\ \A p \in Processes :
              /\ at[p] \in Nat /\ Len(kids[p]) \in Nat
              /\ DOMAIN kids[p] = 1..Len(kids[p])
              /\ above[p] \subseteq Processes
              /\ msg[p] \in Messages
              /\ \A k \in DOMAIN kids[p] :
                   /\ Child(p, k) \in Services /\ kids[p][k].fd \in Fds
                   /\ kids[p][k].killed \in BOOLEAN
         /\ Request \in Messages
         /\ \A p \in Processes : \A fd \in Fds :
              conn[p][fd] # Closed => conn[p][fd] \in Services
<1>1. ASSUME NEW p \in Processes
      PROVE  /\ at[p] \in Nat /\ Len(kids[p]) \in Nat
             /\ DOMAIN kids[p] = 1..Len(kids[p])
             /\ above[p] \subseteq Processes
             /\ msg[p] \in Messages
             /\ \A k \in DOMAIN kids[p] :
                  /\ Child(p, k) \in Services /\ kids[p][k].fd \in Fds
                  /\ kids[p][k].killed \in BOOLEAN
  <2>1. kids[p] \in Seq(ChildRec)
    BY DEF Types
  <2>2. Len(kids[p]) \in Nat /\ DOMAIN kids[p] = 1..Len(kids[p])
    BY <2>1
  <2>3. \A k \in DOMAIN kids[p] : kids[p][k] \in ChildRec
    BY <2>1
  <2>4. at[p] \in Nat /\ above[p] \subseteq Processes /\ msg[p] \in Messages
    BY DEF Types
  <2> QED BY <2>2, <2>3, <2>4 DEF ChildRec, Child
<1>2. \A p \in Processes : \A fd \in Fds :
        conn[p][fd] # Closed => conn[p][fd] \in Services
  BY DEF Types
<1> QED BY <1>1, <1>2, WhoIsWho DEF Request

-----------------------------------------------------------------------------
(* What the invariant says of a process and its children.                  *)

(* A child is a service that was born, and its line goes on from its       *)
(* parent's.                                                               *)
LEMMA ChildFacts ==
  ASSUME Types, TreeInv, NEW p \in Processes, NEW k \in DOMAIN kids[p], NEW c, c = Child(p, k)
  PROVE  /\ c \in Services /\ c \in Processes /\ c # p /\ c # Manager
         /\ Born(c) /\ Born(p)
         /\ above[c] = above[p] \union {p} /\ p \in above[c]
         /\ Line(p) = above[c]
<1>1. c \in Services /\ c \in Processes /\ c # Manager
  BY Typed, WhoIsWho
<1>2. Born(c) /\ above[c] = above[p] \union {p}
  BY DEF TreeInv
<1>3. p \notin above[p]
  BY DEF TreeInv
<1>4. Born(p)
  BY <1>1, <1>2 DEF TreeInv
<1> QED BY <1>1, <1>2, <1>3, <1>4 DEF Line

(* Lines are nested.                                                       *)
LEMMA Nested ==
  ASSUME TreeInv, NEW s \in Processes, NEW a \in Line(s)
  PROVE  Line(a) \subseteq Line(s) /\ (a # s => a \in above[s])
  BY DEF TreeInv, Line

(* A service under a process, on the line through one child only.          *)
LEMMA ThroughOneChild ==
  ASSUME TreeInv, NEW s \in Processes, NEW p \in above[s]
  PROVE  /\ \E k \in DOMAIN kids[p] : Child(p, k) \in Line(s)
         /\ \A j, k \in DOMAIN kids[p] :
              Child(p, j) \in Line(s) /\ Child(p, k) \in Line(s) => j = k
  BY DEF TreeInv

(* Who has a child on the line to s is above s.                            *)
LEMMA ChildOnLine ==
  ASSUME Types, TreeInv, NEW s \in Processes, NEW p \in Processes,
         NEW k \in DOMAIN kids[p], Child(p, k) \in Line(s)
  PROVE  p \in above[s]
<1> DEFINE c == Child(p, k)
<1>1. p \in above[c] /\ c \in Processes
  BY ChildFacts
<1>2. above[c] \subseteq above[s]
  <2>1. CASE c = s
    BY <2>1
  <2>2. CASE c # s
    <3>1. c \in above[s]
      BY <2>2 DEF Line
    <3> QED BY <3>1 DEF TreeInv
  <2> QED BY <2>1, <2>2
<1> QED BY <1>1, <1>2

(* A service is in one list of children, at one place.                     *)
LEMMA OneParent ==
  ASSUME Types, TreeInv, NEW p \in Processes, NEW j \in DOMAIN kids[p],
         NEW q \in Processes, NEW k \in DOMAIN kids[q], Child(p, j) = Child(q, k)
  PROVE  p = q /\ j = k
<1> DEFINE c == Child(p, j)
<1>1. above[c] = above[p] \union {p} /\ above[c] = above[q] \union {q} /\ c \in Processes
  BY ChildFacts
<1>2. p = q
  <2> SUFFICES ASSUME p # q
               PROVE  FALSE
    OBVIOUS
  <2>1. p \in above[q] /\ q \in above[p]
    BY <1>1
  <2>2. above[p] \subseteq above[q] /\ q \notin above[q]
    BY <2>1 DEF TreeInv
  <2> QED BY <2>1, <2>2
<1>3. p \in above[c]
  BY <1>1
<1>4. c \in Line(c)
  BY DEF Line
<1> QED BY <1>1, <1>2, <1>3, <1>4, ThroughOneChild

(* Where an open pair of descriptors leads to.                             *)
LEMMA OpenLeadsTo ==
  ASSUME Types, TreeInv, ConnInv, NEW p \in Processes, NEW fd \in Fds, conn[p][fd] # Closed
  PROVE  /\ conn[p][fd] \in Services /\ conn[p][fd] \in Processes
         /\ \E k \in DOMAIN kids[p] :
              conn[p][fd] = Child(p, k) /\ kids[p][k].fd = fd /\ ~kids[p][k].killed
  BY Typed, WhoIsWho DEF ConnInv

(* One pair of descriptors leads to a service.                             *)
LEMMA OnePair ==
  ASSUME Types, TreeInv, ConnInv, NEW p \in Processes, NEW f \in Fds,
         NEW q \in Processes, NEW g \in Fds, conn[p][f] # Closed, conn[q][g] = conn[p][f]
  PROVE  p = q /\ f = g
<1>1. PICK j \in DOMAIN kids[p] : conn[p][f] = Child(p, j) /\ kids[p][j].fd = f
  BY OpenLeadsTo
<1>2. PICK k \in DOMAIN kids[q] : conn[q][g] = Child(q, k) /\ kids[q][k].fd = g
  BY OpenLeadsTo
<1> QED BY <1>1, <1>2, OneParent

-----------------------------------------------------------------------------
(* What the invariant says of who is busy.                                 *)

(* Who is not busy has read all there is to read, and no answer of it is   *)
(* left to be read.                                                        *)
LEMMA NotBusy ==
  ASSUME Types, PipeInv, NEW s \in Services, ~Asked(s), ~Told(s)
  PROVE  /\ Quiet(s) /\ up[s] = << >>
         /\ pc[s] \in {"unborn", "naming", "idle", "leaving", "exited"}
<1>1. up[s] = << >>
  BY DEF Asked
<1>2. pc[s] \notin {"search", "found", "asking", "telling", "waiting"}
  BY DEF Asked, Told, Ending
<1>3. pc[s] \in {"unborn", "naming", "idle", "leaving", "exited"}
  BY <1>2, WhoIsWho DEF Types
<1>4. Quiet(s)
  BY DEF PipeInv, Asked, Told, Holds
<1> QED BY <1>1, <1>3, <1>4

(* And whoever is like this is not busy.                                   *)
LEMMA NotBusyIf ==
  ASSUME NEW s \in Services, Quiet(s), up[s] = << >>, Request # Name,
         pc[s] \in {"unborn", "naming", "idle", "leaving", "exited"}
  PROVE  ~Asked(s) /\ ~Told(s)
<1>1. ~Holds(s, Request) /\ ~Holds(s, Dead)
  BY HoldsWhat, Names DEF Quiet
<1> QED BY <1>1 DEF Asked, Told, Ending

(* Who is busy lives or has answered.                                      *)
LEMMA BusyBorn ==
  ASSUME Types, PipeInv, NEW s \in Services, Asked(s) \/ Told(s), Request # Name
  PROVE  Born(s)
<1> SUFFICES ASSUME ~Born(s)
             PROVE  FALSE
  OBVIOUS
<1>1. pc[s] = "unborn"
  BY DEF Born
<1>2. up[s] = << >> /\ Quiet(s)
  BY <1>1 DEF PipeInv, Gone
<1> QED BY <1>1, <1>2, NotBusyIf

(* Nobody is busy under a process that asks nobody and tells nobody.       *)
LEMMA NobodyBelow ==
  ASSUME PathInv, NEW p, pc[p] # "asking", ~Kills(p), NEW s \in Services, p \in above[s]
  PROVE  ~Asked(s) /\ ~Told(s)
  BY DEF PathInv, AsksToward

(* The request is nowhere while the Manager asks nobody.                   *)
LEMMA NobodyBusy ==
  ASSUME Types, TreeInv, PipeInv, PathInv, Request # Name,
         pc[Manager] \in {"idle", "search", "found"}, NEW s \in Services
  PROVE  ~Asked(s) /\ ~Told(s)
<1> SUFFICES ASSUME Asked(s) \/ Told(s)
             PROVE  FALSE
  OBVIOUS
<1>1. Born(s)
  BY BusyBorn
<1>2. Manager \in above[s]
  BY <1>1 DEF TreeInv
<1>3. pc[Manager] # "asking" /\ ~Kills(Manager)
  BY DEF Kills, Ending
<1> QED BY <1>2, <1>3, NobodyBelow

(* The request is not a name.                                              *)
LEMMA RequestIsNoName ==
  ASSUME RequestInv
  PROVE  Request # Name /\ Request # Dead
<1>1. Request.op \in ReqOps \union {"nothing"}
  BY DEF RequestInv
<1>2. Name.op = "name" /\ Dead.op = "dead"
  BY Names
<1> QED BY <1>1, <1>2 DEF ReqOps

(* The request of a process that passes it on is the Manager's.            *)
LEMMA SameRequest ==
  ASSUME RequestInv, NEW p \in Processes, pc[p] \in {"search", "found", "asking"}
  PROVE  msg[p] = Request
<1>1. CASE p = Manager
  BY <1>1 DEF Request
<1>2. CASE p \in Services
  BY <1>2 DEF RequestInv
<1> QED BY <1>1, <1>2, WhoIsWho

(* And it is a request indeed.                                             *)
LEMMA SearchOp ==
  ASSUME Types, TreeInv, PipeInv, PathInv, RequestInv, NEW p \in Processes,
         pc[p] \in {"search", "found", "asking"}
  PROVE  msg[p] = Request /\ Request.op \in ReqOps
<1>1. pc[Manager] # "idle"
  <2>1. CASE p = Manager
    BY <2>1
  <2>2. CASE p \in Services
    BY <2>2, NobodyBusy, RequestIsNoName DEF Asked
  <2> QED BY <2>1, <2>2, WhoIsWho
<1> QED BY <1>1, SameRequest DEF RequestInv

-----------------------------------------------------------------------------
(* What the steps find when they are taken.                                *)

(* A pair of descriptors is free for each service not born: every open     *)
(* pair leads to a service of its own that was born.                       *)
LEMMA FreeFd ==
  ASSUME Types, TreeInv, ConnInv, NEW p \in Processes, NEW b \in Services, ~Born(b),
         NEW fd, fd = Min({f \in Fds : conn[p][f] = Closed})
  PROVE  fd \in Fds /\ conn[p][fd] = Closed
<1> DEFINE free == {f \in Fds : conn[p][f] = Closed}
<1>1. ASSUME free = {}
      PROVE  FALSE
  <2> DEFINE g == [f \in Fds |-> conn[p][f]]
  <2>1. \A f \in Fds : conn[p][f] # Closed /\ conn[p][f] \in Services
    BY <1>1, OpenLeadsTo
  <2>2. \A f1, f2 \in Fds : conn[p][f1] = conn[p][f2] => f1 = f2
    BY <2>1, OnePair
  <2>3. g \in Injection(Fds, Services)
    BY <2>1, <2>2 DEF Injection, IsInjective
  <2> HIDE DEF g
  <2>4. g \in Surjection(Fds, Services)
    BY <2>3, FS_Injection, WhoIsWho
  <2>5. PICK f \in Fds : g[f] = b
    BY <2>4 DEF Surjection
  <2>6. conn[p][f] = b
    BY <2>5 DEF g
  <2>7. PICK k \in DOMAIN kids[p] : b = Child(p, k)
    BY <2>1, <2>6, OpenLeadsTo
  <2> QED BY <2>7, ChildFacts
<1>2. free \subseteq Nat
  BY WhoIsWho
<1> HIDE DEF free
<1>3. Min(free) \in free
  BY <1>1, <1>2, MinIs
<1> QED BY <1>3 DEF free

(* The service that a spawn names is not born when its parent is found.    *)
LEMMA SpawnUnborn ==
  ASSUME SpawnInv, NEW p \in Processes, pc[p] = "found", Request.op = "spawn"
  PROVE  Request.b \in Services /\ ~Born(Request.b)
  BY DEF SpawnInv

(* The child a loop turns to next has nothing to do: nobody is busy under  *)
(* a process that searches, and a child that left is marked killed.        *)
LEMMA NextChild ==
  ASSUME Types, TreeInv, ConnInv, PipeInv, PathInv, TurnInv, NEW p \in Processes,
         pc[p] = "search", ToAsk(p, at[p]) # {},
         NEW k, k = Min(ToAsk(p, at[p])), NEW c, c = Child(p, k)
  PROVE  /\ k \in DOMAIN kids[p] /\ k > at[p] /\ ~kids[p][k].killed
         /\ \A j \in DOMAIN kids[p] : j > at[p] /\ j < k => kids[p][j].killed
         /\ Peer(p, k) = c
         /\ Quiet(c) /\ up[c] = << >> /\ pc[c] \in {"naming", "idle"}
         /\ ~Asked(c) /\ ~Told(c)
<1>1. at[p] \in Nat /\ Len(kids[p]) \in Nat /\ DOMAIN kids[p] = 1..Len(kids[p])
  BY Typed
<1>2. ToAsk(p, at[p]) \subseteq Nat
  BY <1>1 DEF ToAsk
<1>3. k \in ToAsk(p, at[p]) /\ \A j \in ToAsk(p, at[p]) : k <= j
  BY <1>2, MinIs
<1>4. k \in DOMAIN kids[p] /\ k > at[p] /\ ~kids[p][k].killed
  BY <1>1, <1>3 DEF ToAsk
<1>5. ASSUME NEW j \in DOMAIN kids[p], j > at[p], j < k
      PROVE  kids[p][j].killed
  <2>1. j \in at[p] + 1..Len(kids[p]) /\ ~(k <= j)
    BY <1>1, <1>4, <1>5
  <2>2. j \notin ToAsk(p, at[p])
    BY <1>3, <2>1
  <2> QED BY <2>1, <2>2, Zenon DEF ToAsk
<1>6. Peer(p, k) = c
  BY <1>4 DEF ConnInv, Ending, Gone
<1>7. c \in Services /\ Born(c) /\ p \in above[c]
  BY <1>4, ChildFacts
<1>8. ~Asked(c) /\ ~Told(c)
  BY <1>7, NobodyBelow DEF Kills, Ending
<1>9. Quiet(c) /\ up[c] = << >> /\ pc[c] \in {"naming", "idle", "leaving", "exited"}
  BY <1>7, <1>8, NotBusy DEF Born
<1>10. pc[c] \notin Gone
  <2>1. kids[p][k].fd \in Fds
    BY <1>4, Typed
  <2>2. conn[p][kids[p][k].fd] = c /\ c # Closed
    BY <1>6, <1>7, WhoIsWho DEF Peer
  <2> QED BY <1>9, <2>1, <2>2 DEF TurnInv
<1> QED BY <1>4, <1>5, <1>6, <1>8, <1>9, <1>10 DEF Gone

(* The only answer there is under a process that has one to read is the    *)
(* one of the child it asked.                                              *)
LEMMA TheAnswer ==
  ASSUME Types, TreeInv, ConnInv, LoopInv, PipeInv, PathInv, NEW p \in Processes, HasAnswer(p),
         NEW k, k = at[p], NEW c, c = Child(p, k)
  PROVE  /\ k \in DOMAIN kids[p] /\ ~kids[p][k].killed /\ Peer(p, k) = c
         /\ kids[p][k].fd \in Fds /\ conn[p][kids[p][k].fd] = c
         /\ up[c] = <<Answer(p)>> /\ Answer(p) \in {"yes", "yesn", "not"}
         /\ pc[c] \in {"idle", "leaving", "exited"} /\ down[c] = << >>
         /\ pc[c] \in Gone => Answer(p) = "yesn"
         /\ Tail(up[c]) = << >>
         /\ Asked(c) /\ ~Told(c)
         /\ \A s \in Services : p \in above[s] /\ s # c => ~Asked(s) /\ ~Told(s)
<1>1. pc[p] = "asking" /\ up[Peer(p, k)] # << >>
  BY DEF HasAnswer
<1>2. k \in DOMAIN kids[p] /\ ~kids[p][k].killed
  BY <1>1 DEF LoopInv
<1>3. Peer(p, k) = c
  BY <1>1, <1>2 DEF ConnInv, Ending, Gone
<1>4. c \in Services /\ p \in above[c] /\ c # Manager
  BY <1>2, ChildFacts
<1>5. /\ pc[c] \in {"idle", "leaving", "exited"} /\ down[c] = << >>
      /\ pc[c] \in Gone => up[c] = <<"yesn">>
  BY <1>1, <1>3, <1>4 DEF PipeInv
<1>6. PICK r \in {"yes", "yesn", "not"} : up[c] = <<r>>
  BY <1>1, <1>3, <1>4 DEF PipeInv
<1>7. Answer(p) = r /\ Tail(up[c]) = << >>
  <2>1. Answer(p) = Head(<<r>>)
    BY <1>3, <1>6 DEF Answer
  <2> QED BY <1>6, <2>1, Pipes
<1>8. pc[c] \in Gone => Answer(p) = "yesn"
  BY <1>5, <1>6, <1>7, Pipes
<1>9. Asked(c) /\ ~Told(c)
  BY <1>1, <1>3, <1>4 DEF Asked, PathInv
<1>10. ASSUME NEW s \in Services, p \in above[s], s # c, Asked(s) \/ Told(s)
       PROVE  FALSE
  <2>1. ~Kills(p)
    BY <1>1, WhoIsWho DEF Kills, Ending
  <2>2. AsksToward(p, s)
    BY <1>10, <2>1 DEF PathInv
  <2>3. c \in above[s]
    BY <1>10, <2>2 DEF AsksToward, Line
  <2>4. AsksToward(c, s) \/ Kills(c)
    BY <1>10, <2>3 DEF PathInv
  <2> QED BY <1>4, <1>5, <2>4 DEF AsksToward, Kills, Ending
<1>11. kids[p][k].fd \in Fds /\ conn[p][kids[p][k].fd] = c
  BY <1>2, <1>3, Typed DEF Peer
<1> QED BY <1>2, <1>3, <1>5, <1>6, <1>7, <1>8, <1>9, <1>10, <1>11

(* Whoever is told to die has nothing else to do.                          *)
LEMMA ToldChild ==
  ASSUME Types, TreeInv, ConnInv, PipeInv, TurnInv, NEW p \in Processes, Kills(p),
         NEW f \in Fds, NEW c, c = conn[p][f], c # Closed
  PROVE  /\ c \in Services
         /\ Quiet(c) /\ up[c] = << >> /\ pc[c] \in {"naming", "idle"}
         /\ ~Asked(c) /\ ~Told(c)
         /\ above[c] = above[p] \union {p} /\ c # p /\ Line(p) = above[c]
<1>1. PICK k \in DOMAIN kids[p] : c = Child(p, k)
  BY OpenLeadsTo
<1>2. /\ c \in Services /\ Born(c) /\ above[c] = above[p] \union {p} /\ c # p
      /\ Line(p) = above[c]
  BY <1>1, ChildFacts
<1>3. ~Asked(c) /\ ~Told(c) /\ (pc[c] \in Gone => up[c] # << >>)
  BY DEF TurnInv
<1>4. Quiet(c) /\ up[c] = << >> /\ pc[c] \in {"naming", "idle", "leaving", "exited"}
  BY <1>2, <1>3, NotBusy DEF Born
<1> QED BY <1>2, <1>3, <1>4 DEF Gone

-----------------------------------------------------------------------------
(* What the steps do to the lists of children.                             *)

(* The tree has the same processes in the same places.                     *)
SameTree ==
  /\ above' = above
  /\ \A p \in Processes :
       /\ kids[p] = << >> => kids'[p] = << >>
       /\ DOMAIN kids'[p] = DOMAIN kids[p] /\ Len(kids'[p]) = Len(kids[p])
       /\ \A k \in DOMAIN kids[p] :
            kids'[p][k].svc = kids[p][k].svc /\ kids'[p][k].fd = kids[p][k].fd
       /\ pc'[p] = "unborn" <=> pc[p] = "unborn"

(* Then children and lines are the same, and so is what the invariant says *)
(* of them.                                                                *)
LEMMA TreeSame ==
  ASSUME Types, SameTree
  PROVE  /\ \A p \in Processes : \A k \in DOMAIN kids[p] : Child(p, k)' = Child(p, k)
         /\ \A s : Line(s)' = Line(s)
         /\ \A p \in Processes : Born(p)' <=> Born(p)
         /\ TreeInv => TreeInv'
<1>1. \A p \in Processes : \A k \in DOMAIN kids[p] : Child(p, k)' = Child(p, k)
  BY DEF SameTree, Child
<1>2. \A s : Line(s)' = Line(s)
  BY DEF SameTree, Line
<1>3. \A p \in Processes : Born(p)' <=> Born(p)
  BY DEF SameTree, Born
<1>4. ASSUME TreeInv
      PROVE  TreeInv'
  <2>1. Born(Manager)' /\ above'[Manager] = {}
    BY <1>3, <1>4, WhoIsWho DEF TreeInv, SameTree
  <2>2. \A p \in Processes : ~Born(p)' => above'[p] = {} /\ kids'[p] = << >>
    BY <1>3, <1>4 DEF TreeInv, SameTree
  <2>3. \A s \in Services : Born(s)' => Manager \in above'[s]
    BY <1>3, <1>4, WhoIsWho DEF TreeInv, SameTree
  <2>4. \A s \in Processes : s \notin above'[s]
    BY <1>4 DEF TreeInv, SameTree
  <2>5. ASSUME NEW s \in Processes, NEW a \in above'[s]
        PROVE  /\ Born(a)' /\ above'[a] \subseteq above'[s]
               /\ \E k \in DOMAIN kids'[a] : Child(a, k)' \in Line(s)'
               /\ \A j, k \in DOMAIN kids'[a] :
                    Child(a, j)' \in Line(s)' /\ Child(a, k)' \in Line(s)' => j = k
    <3>1. a \in above[s]
      BY <2>5 DEF SameTree
    <3>2. Born(a) /\ above[a] \subseteq above[s]
      BY <1>4, <3>1 DEF TreeInv
    <3>3. a \in Processes
      BY <3>1, Typed
    <3>4. DOMAIN kids'[a] = DOMAIN kids[a] /\ above' = above
      BY <3>3 DEF SameTree
    <3> QED BY <1>1, <1>2, <1>3, <1>4, <3>1, <3>2, <3>3, <3>4, ThroughOneChild
  <2>6. ASSUME NEW p \in Processes, NEW k \in DOMAIN kids'[p]
        PROVE  Born(Child(p, k))' /\ above'[Child(p, k)'] = above'[p] \union {p}
    <3>1. k \in DOMAIN kids[p] /\ Child(p, k)' = Child(p, k) /\ above' = above
      BY <1>1, <2>6 DEF SameTree
    <3>2. Child(p, k) \in Processes
      BY <3>1, Typed, WhoIsWho
    <3> QED BY <1>3, <1>4, <3>1, <3>2 DEF TreeInv
  <2> QED BY <2>1, <2>2, <2>3, <2>4, <2>5, <2>6 DEF TreeInv
<1> QED BY <1>1, <1>2, <1>3, <1>4

(* have_killed is set for the child that was asked, and nothing else       *)
(* becomes of the list.                                                    *)
LEMMA Marks ==
  ASSUME Types, NEW p \in Processes, NEW k, k = at[p], k \in DOMAIN kids[p], MarkKilled(p),
         above' = above, \A q \in Processes : pc'[q] = "unborn" <=> pc[q] = "unborn"
  PROVE  /\ SameTree
         /\ kids' \in [Processes -> Seq(ChildRec)]
         /\ conn' \in [Processes -> [Fds -> Services \union {Closed}]]
         /\ \A q \in Processes : q # p => kids'[q] = kids[q] /\ conn'[q] = conn[q]
         /\ kids'[p][k].killed
         /\ \A j \in DOMAIN kids[p] : j # k => kids'[p][j] = kids[p][j]
         /\ \A f \in Fds : conn'[p][f] = IF f = kids[p][k].fd THEN Closed ELSE conn[p][f]
<1> DEFINE rec == [kids[p][k] EXCEPT !.killed = TRUE]
           list == [kids[p] EXCEPT ![k] = rec]
           fd == kids[p][k].fd
<1>1. /\ kids \in [Processes -> Seq(ChildRec)] /\ kids[p] \in Seq(ChildRec)
      /\ conn \in [Processes -> [Fds -> Services \union {Closed}]]
  BY DEF Types
<1>2. k \in 1..Len(kids[p]) /\ kids[p][k] \in ChildRec
  BY <1>1, Typed, ElementOfSeq
<1>3. rec \in ChildRec /\ rec.killed /\ rec.svc = kids[p][k].svc /\ rec.fd = kids[p][k].fd
  BY <1>2 DEF ChildRec
<1> HIDE DEF rec
<1>4. /\ list \in Seq(ChildRec) /\ Len(list) = Len(kids[p])
      /\ \A j \in 1..Len(kids[p]) : list[j] = IF j = k THEN rec ELSE kids[p][j]
  BY <1>1, <1>2, <1>3, ExceptSeq
<1>5. kids' = [kids EXCEPT ![p] = list]
  BY <1>1 DEF MarkKilled, rec
<1>6. conn' = [conn EXCEPT ![p][fd] = Closed]
  BY DEF MarkKilled
<1> HIDE DEF list, fd
<1>7. DOMAIN list = DOMAIN kids[p] /\ DOMAIN kids[p] = 1..Len(kids[p])
  BY <1>1, <1>4
<1>8. kids'[p] = list /\ \A q \in Processes : q # p => kids'[q] = kids[q]
  BY <1>1, <1>5
<1>9. kids' \in [Processes -> Seq(ChildRec)]
  BY <1>1, <1>4, <1>5
<1>10. /\ \A q \in Processes : q # p => conn'[q] = conn[q]
       /\ \A f \in Fds : conn'[p][f] = IF f = fd THEN Closed ELSE conn[p][f]
       /\ conn' \in [Processes -> [Fds -> Services \union {Closed}]]
  BY <1>1, <1>6
<1>11. SameTree
  <2> SUFFICES ASSUME NEW q \in Processes
               PROVE  /\ kids[q] = << >> => kids'[q] = << >>
                      /\ DOMAIN kids'[q] = DOMAIN kids[q] /\ Len(kids'[q]) = Len(kids[q])
                      /\ \A j \in DOMAIN kids[q] :
                           kids'[q][j].svc = kids[q][j].svc /\ kids'[q][j].fd = kids[q][j].fd
    BY DEF SameTree
  <2>1. CASE q # p
    BY <1>8, <2>1
  <2>2. CASE q = p
    <3>1. kids[p] # << >>
      BY <1>2
    <3> QED BY <1>3, <1>4, <1>7, <1>8, <2>2, <3>1
  <2> QED BY <2>1, <2>2
<1> QED BY <1>2, <1>3, <1>4, <1>7, <1>8, <1>9, <1>10, <1>11 DEF fd

(* Where a new child is put.                                               *)
End(p) == Len(kids[p]) + 1

(* A new child b stands at the end n of the list, behind the pair of       *)
(* descriptors that was free, and its line goes on from its parent's.      *)
Created(p, b, n) ==
  /\ kids' \in [Processes -> Seq(ChildRec)]
  /\ DOMAIN kids'[p] = 1..n /\ n \notin DOMAIN kids[p] /\ Len(kids'[p]) = n
  /\ \A k \in 1..n : k = n \/ k \in DOMAIN kids[p]
  /\ \A k \in DOMAIN kids[p] : kids'[p][k] = kids[p][k] /\ k \in 1..n
  /\ \A q \in Processes : q # p => kids'[q] = kids[q]
  /\ kids'[p][n].svc = b /\ ~kids'[p][n].killed
  /\ conn' \in [Processes -> [Fds -> Services \union {Closed}]]
  /\ \A q \in Processes : q # p => conn'[q] = conn[q]
  /\ kids'[p][n].fd \in Fds /\ conn[p][kids'[p][n].fd] = Closed
  /\ \A f \in Fds : conn'[p][f] = IF f = kids'[p][n].fd THEN b ELSE conn[p][f]
  /\ above' \in [Processes -> SUBSET Processes]
  /\ \A q \in Processes : above'[q] = IF q = b THEN above[p] \union {p} ELSE above[q]
  /\ down' = [down EXCEPT ![b] = <<Name>>]
  /\ pc' = [pc EXCEPT ![p] = "idle", ![b] = "naming"]

(* And this is what create_service does.                                   *)
LEMMA Creates ==
  ASSUME Types, TreeInv, ConnInv, NEW p \in Processes, Born(p),
         NEW b \in Services, ~Born(b), Create(p, b)
  PROVE  Created(p, b, End(p))
<1> DEFINE n == End(p)
<1> DEFINE fd == Min({f \in Fds : conn[p][f] = Closed})
           rec == [svc |-> b, fd |-> fd, killed |-> FALSE]
           list == Append(kids[p], rec)
<1>1. /\ kids \in [Processes -> Seq(ChildRec)] /\ kids[p] \in Seq(ChildRec)
      /\ conn \in [Processes -> [Fds -> Services \union {Closed}]]
      /\ above \in [Processes -> SUBSET Processes]
      /\ b \in Processes
  BY WhoIsWho DEF Types
<1>2. fd \in Fds /\ conn[p][fd] = Closed
  BY FreeFd
<1>3. /\ kids' = [kids EXCEPT ![p] = list]
      /\ conn' = [conn EXCEPT ![p][fd] = b]
      /\ above' = [above EXCEPT ![b] = above[p] \union {p}]
      /\ down' = [down EXCEPT ![b] = <<Name>>]
      /\ pc' = [pc EXCEPT ![p] = "idle", ![b] = "naming"]
  BY DEF Create
<1> HIDE DEF fd
<1>4. rec \in ChildRec /\ rec.svc = b /\ rec.fd = fd /\ ~rec.killed
  BY <1>2 DEF ChildRec
<1> HIDE DEF rec
<1>n. n = Len(kids[p]) + 1
  BY DEF End
<1> HIDE DEF n
<1>5. /\ list \in Seq(ChildRec) /\ Len(list) = n
      /\ \A k \in 1..Len(kids[p]) : list[k] = kids[p][k]
      /\ list[n] = rec
  BY <1>1, <1>4, <1>n, AppendProperties
<1> HIDE DEF list
<1>6. Len(kids[p]) \in Nat /\ DOMAIN kids[p] = 1..Len(kids[p]) /\ DOMAIN list = 1..n
  BY <1>1, <1>5, <1>n
<1>7. kids'[p] = list /\ \A q \in Processes : q # p => kids'[q] = kids[q]
  BY <1>1, <1>3
<1>8. kids' \in [Processes -> Seq(ChildRec)]
  BY <1>1, <1>3, <1>5
<1>9. /\ conn' \in [Processes -> [Fds -> Services \union {Closed}]]
      /\ \A q \in Processes : q # p => conn'[q] = conn[q]
      /\ \A f \in Fds : conn'[p][f] = IF f = fd THEN b ELSE conn[p][f]
  BY <1>1, <1>2, <1>3
<1>10. /\ above' \in [Processes -> SUBSET Processes]
       /\ \A q \in Processes : above'[q] = IF q = b THEN above[p] \union {p} ELSE above[q]
  BY <1>1, <1>3
<1>11. /\ n \notin DOMAIN kids[p]
       /\ \A k \in 1..n : k = n \/ k \in DOMAIN kids[p]
       /\ \A k \in DOMAIN kids[p] : k \in 1..n
  BY <1>6, <1>n
<1> QED BY <1>2, <1>3, <1>4, <1>5, <1>6, <1>7, <1>8, <1>9, <1>10, <1>11 DEF Created, n

-----------------------------------------------------------------------------
(* Every variable keeps its type.                                          *)

(* What is a letter, a request and an answer to the user.                  *)
LEMMA LettersAre ==
  /\ \A m \in Messages : m.op # "nothing" => m \in Letters
  /\ Name \in Letters /\ Dead \in Letters /\ NoNews \in News
  /\ Dead \in Messages
  /\ \A a \in Processes, b \in Processes :
       /\ Msg("killed", a, b) \in News
       /\ Msg("spawn_missing", a, b) \in News /\ Msg("kill_missing", a, b) \in News
       /\ Msg("spawn", a, b) \in Messages /\ Msg("kill", a, b) \in Messages
       /\ Msg("exchange", a, b) \in Messages
  /\ \A m \in Messages : [m EXCEPT !.op = "exchanged"] \in News
<1>1. \A m \in Messages : m.op # "nothing" => m \in Letters
  BY DEF Messages, Letters, ReqOps
<1>2. Name \in Letters /\ Dead \in Letters /\ NoNews \in News
  BY WhoIsWho DEF Letters, News, ReqOps, Name, Dead, NoNews, Msg
<1>3. Dead \in Messages
  BY WhoIsWho DEF Messages, Dead, Msg
<1>4. ASSUME NEW a \in Processes, NEW b \in Processes
      PROVE  /\ Msg("killed", a, b) \in News
             /\ Msg("spawn_missing", a, b) \in News /\ Msg("kill_missing", a, b) \in News
  BY DEF News, Msg
<1>5. ASSUME NEW a \in Processes, NEW b \in Processes
      PROVE  /\ Msg("spawn", a, b) \in Messages /\ Msg("kill", a, b) \in Messages
             /\ Msg("exchange", a, b) \in Messages
  BY DEF Messages, ReqOps, Msg
<1>6. ASSUME NEW m \in Messages
      PROVE  [m EXCEPT !.op = "exchanged"] \in News
  <2>1. [m EXCEPT !.op = "exchanged"] = [op |-> "exchanged", a |-> m.a, b |-> m.b]
    BY DEF Messages
  <2>2. m.a \in Processes /\ m.b \in Processes
    BY DEF Messages
  <2> QED BY <2>1, <2>2 DEF News
<1> QED BY <1>1, <1>2, <1>3, <1>4, <1>5, <1>6

(* The commands that the user may give.                                    *)
LEMMA RequestsAre ==
  ASSUME Types, NEW m \in Requests
  PROVE  /\ m \in Messages /\ m.op \in {"spawn", "kill", "exchange"}
         /\ m.op = "spawn" =>
              m.b \in Services /\ ~Born(m.b) /\ Cardinality(above[m.a]) < MaxDepth
         /\ m.op = "kill" => m.b = m.a
<1> DEFINE new == {s \in Services : pc[s] = "unborn"}
<1>1. new # {} => Min(new) \in new
  <2>1. new \subseteq Nat
    BY WhoIsWho
  <2> HIDE DEF new
  <2> QED BY <2>1, MinIs
<1>2. CASE \E p \in Processes : new # {} /\ Cardinality(above[p]) < MaxDepth
                               /\ m = Msg("spawn", p, Min(new))
  <2>1. PICK p \in Processes : new # {} /\ Cardinality(above[p]) < MaxDepth
                               /\ m = Msg("spawn", p, Min(new))
    BY <1>2
  <2>2. Min(new) \in Services /\ ~Born(Min(new)) /\ Min(new) \in Processes
    BY <1>1, <2>1, WhoIsWho DEF Born
  <2> HIDE DEF new
  <2>3. m \in Messages /\ m.op = "spawn" /\ m.a = p /\ m.b = Min(new)
    BY <2>1, <2>2, LettersAre, Names
  <2> QED BY <2>1, <2>2, <2>3
<1>3. CASE \E t \in Processes : m = Msg("kill", t, t)
  BY <1>3, LettersAre, Names
<1>4. CASE \E p, q \in Processes : m = Msg("exchange", p, q)
  BY <1>4, LettersAre, Names
<1> HIDE DEF new
<1>5. \/ \E p \in Processes : new # {} /\ Cardinality(above[p]) < MaxDepth
                               /\ m = Msg("spawn", p, Min(new))
      \/ \E t \in Processes : m = Msg("kill", t, t)
      \/ \E p, q \in Processes : m = Msg("exchange", p, q)
  BY DEF Requests, new
<1> QED BY <1>2, <1>3, <1>4, <1>5

(* The first letter in a pipe that is not empty.                           *)
LEMMA FirstLetter ==
  ASSUME Types, PipeInv, RequestInv, NEW s \in Services, pc[s] = "idle", down[s] # << >>
  PROVE  /\ Head(down[s]) \in {Request, Dead}
         /\ down[s] = <<Head(down[s])>>
         /\ Holds(s, Head(down[s]))
         /\ Head(down[s]) \in Messages
<1>1. down[s] = <<Request>> \/ down[s] = <<Dead>>
  BY DEF PipeInv, Quiet
<1>2. Head(down[s]) \in {Request, Dead} /\ down[s] = <<Head(down[s])>>
  BY <1>1, Pipes
<1> QED BY <1>2, Typed, LettersAre, HoldsWhat

LEMMA TypesNext ==
  ASSUME IInv, [Next]_vars
  PROVE  Types'
<1> USE DEF IInv
<1> DEFINE PCs == {"unborn", "naming", "idle", "search", "asking", "found",
                   "telling", "waiting", "leaving", "exited"}
<1>1. ASSUME Command
      PROVE  Types'
  <2>1. PICK m \in Requests :
       /\ msg' = [msg EXCEPT ![Manager] =
                    IF m.op = "kill" /\ m.a # Manager THEN [m EXCEPT !.op = "find"]
                    ELSE m]
       /\ doomed' = IF m.op = "kill" THEN Subtree(m.a) ELSE {}
       /\ pc' = [pc EXCEPT ![Manager] =
                   IF m.a # Manager \/ m.op = "exchange" THEN "search"
                   ELSE IF m.op = "spawn" THEN "found" ELSE "telling"]
       /\ at' = [at EXCEPT ![Manager] =
                   IF m.op = "kill" /\ m.a = Manager THEN 1 ELSE 0]
    BY <1>1 DEF Command
  <2>2. m \in Messages /\ [m EXCEPT !.op = "find"] \in Messages
    BY RequestsAre DEF Messages, ReqOps
  <2>3. msg' \in [Processes -> Messages]
    BY <2>1, <2>2 DEF Types
  <2>4. pc' \in [Processes -> PCs] /\ at' \in [Processes -> Nat]
    BY <2>1 DEF Types
  <2>5. doomed' \subseteq Services
    BY <2>1 DEF Subtree, Alive
  <2>6. commands' \in 0..MaxCommands /\ said' \in News
    BY <1>1, LettersAre, WhoIsWho DEF Types, Command
  <2> QED BY <1>1, <2>3, <2>4, <2>5, <2>6 DEF Types, Command, tree, pipes
<1>2. ASSUME NEW p \in Processes, pc[p] = "found", Request.op = "spawn", Create(p, Request.b)
      PROVE  /\ kids' \in [Processes -> Seq(ChildRec)]
             /\ conn' \in [Processes -> [Fds -> Services \union {Closed}]]
             /\ above' \in [Processes -> SUBSET Processes]
             /\ down' \in [Services -> Seq(Letters)]
             /\ pc' \in [Processes -> PCs]
  <2>1. Request.b \in Services /\ ~Born(Request.b) /\ Born(p)
    BY <1>2, SpawnUnborn DEF Born
  <2>2. /\ kids' \in [Processes -> Seq(ChildRec)]
        /\ conn' \in [Processes -> [Fds -> Services \union {Closed}]]
        /\ above' \in [Processes -> SUBSET Processes]
        /\ down' = [down EXCEPT ![Request.b] = <<Name>>]
        /\ pc' = [pc EXCEPT ![p] = "idle", ![Request.b] = "naming"]
    <3> DEFINE b == Request.b
    <3>1. Types /\ TreeInv /\ ConnInv /\ b \in Services /\ ~Born(b) /\ Born(p) /\ Create(p, b)
      BY <1>2, <2>1
    <3> HIDE DEF b, IInv
    <3>2. /\ kids' \in [Processes -> Seq(ChildRec)]
          /\ conn' \in [Processes -> [Fds -> Services \union {Closed}]]
          /\ above' \in [Processes -> SUBSET Processes]
          /\ down' = [down EXCEPT ![b] = <<Name>>]
          /\ pc' = [pc EXCEPT ![p] = "idle", ![b] = "naming"]
      BY <3>1, Creates DEF Created
    <3> QED BY <3>2 DEF b
  <2>3. pc' \in [Processes -> PCs]
    BY <2>2 DEF Types
  <2>4. down' \in [Services -> Seq(Letters)]
    <3>1. <<Name>> \in Seq(Letters)
      BY LettersAre
    <3> QED BY <2>2, <3>1 DEF Types
  <2> QED BY <2>2, <2>3, <2>4
<1>3. ASSUME ManagerSpawns
      PROVE  Types'
  <2>1. pc[Manager] = "found" /\ Request.op = "spawn" /\ Create(Manager, Request.b)
    BY <1>3 DEF ManagerSpawns, RequestInv
  <2> QED BY <1>2, <1>3, <2>1, WhoIsWho DEF Types, ManagerSpawns, user
<1>4. ASSUME NEW p \in Processes, pc[p] = "search", Ask(p)
      PROVE  Types'
  <2> DEFINE k == Min(ToAsk(p, at[p]))
  <2>1. k \in DOMAIN kids[p]
    BY <1>4, NextChild DEF Ask
  <2>2. k \in Nat
    BY <2>1, Typed
  <2>3. at' \in [Processes -> Nat] /\ pc' \in [Processes -> PCs]
    BY <1>4, <2>2 DEF Ask, Types
  <2>4. down' \in [Services -> Seq(Letters)]
    <3>1. msg[p] \in Letters
      <4>1. msg[p] = Request /\ Request.op \in ReqOps
        BY <1>4, SearchOp
      <4> QED BY <4>1, Typed, LettersAre DEF ReqOps
    <3>2. \A s \in Services : Append(down[s], msg[p]) \in Seq(Letters)
      BY <3>1, AppendProperties DEF Types
    <3>3. down' = [down EXCEPT ![Peer(p, k)] = Append(@, msg[p])]
      BY <1>4 DEF Ask
    <3>4. down \in [Services -> Seq(Letters)]
      BY DEF Types
    <3> QED BY <3>2, <3>3, <3>4
  <2> QED BY <1>4, <2>3, <2>4 DEF Ask, Types, tree, user
<1>5. ASSUME ManagerGivesUp
      PROVE  Types'
  <2>1. pc' \in [Processes -> PCs]
    BY <1>5 DEF ManagerGivesUp, Types
  <2>2. said' \in News
    <3>1. Request.op \in ReqOps
      BY <1>5, WhoIsWho DEF ManagerGivesUp, RequestInv
    <3>2. Request.a \in Processes /\ Request \in Messages
      BY Typed DEF Messages
    <3>3. [Request EXCEPT !.op = "exchanged"] \in News
      BY <3>2, LettersAre
    <3> QED BY <1>5, <3>1, <3>2, <3>3, LettersAre, WhoIsWho DEF ManagerGivesUp, ReqOps
  <2> QED BY <1>5, <2>1, <2>2 DEF ManagerGivesUp, Types, tree, pipes
<1>6. ASSUME NEW p \in Processes, HasAnswer(p), above' = above,
             pc' \in [Processes -> PCs], \A q \in Processes : pc'[q] = "unborn" <=> pc[q] = "unborn",
             MarkKilled(p) \/ UNCHANGED <<kids, conn>>
      PROVE  /\ kids' \in [Processes -> Seq(ChildRec)]
             /\ conn' \in [Processes -> [Fds -> Services \union {Closed}]]
  <2>1. at[p] \in DOMAIN kids[p]
    BY <1>6, TheAnswer
  <2>2. CASE MarkKilled(p)
    BY <1>6, <2>1, <2>2, Marks
  <2>3. CASE UNCHANGED <<kids, conn>>
    BY <2>3 DEF Types
  <2> QED BY <1>6, <2>2, <2>3
<1>7. ASSUME NEW p \in Processes, HasAnswer(p), NEW c, c = Peer(p, at[p])
      PROVE  /\ [up EXCEPT ![c] = Tail(@)] \in [Services -> Seq({"yes", "yesn", "not"})]
             /\ c \in Services /\ c # p /\ Tail(up[c]) = << >>
  <2>1. c \in Services /\ Tail(up[c]) = << >> /\ c # p
    BY <1>7, TheAnswer, ChildFacts
  <2>2. up \in [Services -> Seq({"yes", "yesn", "not"})]
    BY DEF Types
  <2>3. << >> \in Seq({"yes", "yesn", "not"})
    OBVIOUS
  <2> QED BY <2>1, <2>2, <2>3
<1>8. ASSUME ManagerHears
      PROVE  Types'
  <2>1. PICK yes \in BOOLEAN :
          /\ msg' = IF yes /\ Request.op = "find"
                      THEN [msg EXCEPT ![Manager].op = "kill"] ELSE msg
          /\ at' = IF yes /\ Request.op = "find" THEN [at EXCEPT ![Manager] = 0] ELSE at
          /\ pc' = [pc EXCEPT ![Manager] =
                      IF yes /\ Request.op # "find" THEN "idle" ELSE "search"]
          /\ said' = CASE yes /\ Request.op = "kill" ->
                            Msg("killed", Request.a, Request.a)
                       [] yes /\ Request.op = "exchange" -> [Request EXCEPT !.op = "exchanged"]
                       [] OTHER -> said
    BY <1>8 DEF ManagerHears, Recognised
  <2>2. HasAnswer(Manager) /\ TakeAnswer(Manager)
    BY <1>8 DEF ManagerHears
  <2>3. pc' \in [Processes -> PCs] /\ at' \in [Processes -> Nat]
    BY <2>1 DEF Types
  <2>4. Request \in Messages /\ Request.a \in Processes
    BY Typed DEF Messages
  <2>5. msg' \in [Processes -> Messages]
    <3>1. [Request EXCEPT !.op = "kill"] \in Messages
      BY <2>4 DEF Messages, ReqOps
    <3>2. msg' = msg \/ msg' = [msg EXCEPT ![Manager] = [Request EXCEPT !.op = "kill"]]
      BY <2>1 DEF Request
    <3> QED BY <3>1, <3>2 DEF Types
  <2>6. said' \in News
    <3>1. [Request EXCEPT !.op = "exchanged"] \in News
      BY <2>4, LettersAre
    <3>2. said \in News
      BY DEF Types
    <3> QED BY <2>1, <2>4, <3>1, <3>2, LettersAre
  <2>7. up' \in [Services -> Seq({"yes", "yesn", "not"})]
    BY <1>7, <2>2, WhoIsWho DEF TakeAnswer
  <2>8. /\ kids' \in [Processes -> Seq(ChildRec)]
        /\ conn' \in [Processes -> [Fds -> Services \union {Closed}]]
    <3>1. MarkKilled(Manager) \/ UNCHANGED <<kids, conn>>
      BY <1>8 DEF ManagerHears
    <3>2. \A q \in Processes : pc'[q] = "unborn" <=> pc[q] = "unborn"
      BY <2>1, <2>2 DEF Types, HasAnswer
    <3>3. above' = above
      BY <1>8 DEF ManagerHears
    <3> QED BY <1>6, <2>2, <2>3, <3>1, <3>2, <3>3, WhoIsWho
  <2> QED BY <1>8, <2>3, <2>5, <2>6, <2>7, <2>8 DEF ManagerHears, Types
<1>9. ASSUME NEW p \in Processes, NEW skip \in BOOLEAN, Tell(p, skip)
      PROVE  Types'
  <2>1. /\ at \in [Processes -> Nat] /\ pc \in [Processes -> PCs]
        /\ conn \in [Processes -> [Fds -> Services \union {Closed}]]
        /\ at[p] + 1 \in Nat
    BY Typed DEF Types
  <2>a. \/ at' = [at EXCEPT ![p] = at[p] + 1] /\ pc' = pc /\ conn' = conn
        \/ /\ at' = at /\ pc' = [pc EXCEPT ![p] = "waiting"]
           /\ conn' = [conn EXCEPT ![p][kids[p][at[p]].fd] = Closed]
    BY <1>9 DEF Tell
  <2>b. at' \in [Processes -> Nat] /\ pc' \in [Processes -> PCs]
    BY <2>1, <2>a
  <2>2. conn' \in [Processes -> [Fds -> Services \union {Closed}]]
    <3>1. [conn[p] EXCEPT ![kids[p][at[p]].fd] = Closed] \in [Fds -> Services \union {Closed}]
      BY <2>1
    <3>2. \/ conn' = conn
          \/ conn' = [conn EXCEPT ![p] = [conn[p] EXCEPT ![kids[p][at[p]].fd] = Closed]]
      BY <2>1, <2>a
    <3> QED BY <2>1, <3>1, <3>2
  <2>3. down' \in [Services -> Seq(Letters)]
    <3>1. down \in [Services -> Seq(Letters)]
      BY DEF Types
    <3>2. \A s \in Services : Append(down[s], Dead) \in Seq(Letters)
      BY <3>1, LettersAre, AppendProperties
    <3>3. down' = down \/ down' = [down EXCEPT ![Peer(p, at[p])] = Append(@, Dead)]
      BY <1>9 DEF Tell
    <3> QED BY <3>1, <3>2, <3>3
  <2> QED BY <1>9, <2>b, <2>2, <2>3 DEF Tell, Types, user
<1>10. ASSUME NEW p \in Processes, WaitNull(p)
       PROVE  Types'
  <2>1. at' \in [Processes -> Nat] /\ pc' \in [Processes -> PCs]
    BY <1>10, Typed DEF WaitNull, Types
  <2>2. Unreaped(p) \subseteq Services
    BY Typed DEF Unreaped
  <2>3. reaped' \subseteq Services
    BY <1>10, <2>2 DEF WaitNull, Types
  <2> QED BY <1>10, <2>1, <2>3 DEF WaitNull, Types, user, tree, pipes
<1>11. ASSUME ManagerEnds
       PROVE  Types'
  <2>1. said' \in News
    BY <1>11, LettersAre, WhoIsWho DEF ManagerEnds
  <2> QED BY <1>11, <2>1 DEF ManagerEnds, Types, tree, pipes
<1>12. ASSUME NEW s \in Services, ReadName(s)
       PROVE  Types'
  <2>1. down' \in [Services -> Seq(Letters)] /\ pc' \in [Processes -> PCs]
    <3>1. down \in [Services -> Seq(Letters)] /\ << >> \in Seq(Letters)
      BY DEF Types
    <3>2. pc' = [pc EXCEPT ![s] = "idle"] /\ down' = [down EXCEPT ![s] = << >>]
      BY <1>12 DEF ReadName
    <3>3. pc \in [Processes -> PCs]
      BY DEF Types
    <3> QED BY <3>1, <3>2, <3>3
  <2> QED BY <1>12, <2>1 DEF ReadName, Types, tree, user
<1>13. ASSUME NEW s \in Services, Receive(s)
       PROVE  Types'
  <2>1. Head(down[s]) \in Messages
    BY <1>13, FirstLetter DEF Receive
  <2>2. down' \in [Services -> Seq(Letters)]
    <3>1. down \in [Services -> Seq(Letters)] /\ << >> \in Seq(Letters)
      BY DEF Types
    <3>2. down' = [down EXCEPT ![s] = << >>]
      BY <1>13 DEF Receive
    <3> QED BY <3>1, <3>2
  <2>3. /\ msg' \in [Processes -> Messages] /\ pc' \in [Processes -> PCs]
        /\ at' \in [Processes -> Nat]
    <3>1. /\ msg \in [Processes -> Messages] /\ pc \in [Processes -> PCs]
          /\ at \in [Processes -> Nat]
      BY DEF Types
    <3>2. /\ msg' = [msg EXCEPT ![s] = Head(down[s])]
          /\ \E l \in {"telling", "found", "search"} : pc' = [pc EXCEPT ![s] = l]
          /\ at' = [at EXCEPT ![s] = 0] \/ at' = [at EXCEPT ![s] = 1]
      BY <1>13 DEF Receive
    <3>3. msg' \in [Processes -> Messages]
      BY <2>1, <3>1, <3>2
    <3>4. pc' \in [Processes -> PCs]
      BY <3>1, <3>2
    <3>5. at' \in [Processes -> Nat]
      BY <3>1, <3>2
    <3> QED BY <3>3, <3>4, <3>5
  <2> QED BY <1>13, <2>2, <2>3 DEF Receive, Types, tree, user
<1>14. ASSUME NEW s \in Services, NEW r \in {"yes", "yesn", "not"}, Reply(s, r)
       PROVE  up' \in [Services -> Seq({"yes", "yesn", "not"})]
  BY <1>14 DEF Reply, Types
<1>15. ASSUME NEW s \in Services, Found(s)
       PROVE  Types'
  <2>1. pc[s] = "found" /\ msg[s] = Request /\ up' \in [Services -> Seq({"yes", "yesn", "not"})]
    BY <1>14, <1>15, SameRequest, WhoIsWho DEF Found
  <2>2. CASE Request.op = "spawn"
    <3>1. Create(s, Request.b)
      BY <1>15, <2>1, <2>2 DEF Found
    <3> QED BY <1>2, <1>15, <2>1, <2>2, <3>1, WhoIsWho DEF Found, Types, user
  <2>3. CASE Request.op # "spawn"
    BY <1>15, <2>1, <2>3 DEF Found, Types, user
  <2> QED BY <2>2, <2>3
<1>16. ASSUME NEW s \in Services, GiveUp(s)
       PROVE  Types'
  <2>1. up' \in [Services -> Seq({"yes", "yesn", "not"})]
    BY <1>14, <1>16 DEF GiveUp
  <2> QED BY <1>16, <2>1 DEF GiveUp, Types, tree, user
<1>17. ASSUME NEW s \in Services, Hear(s)
       PROVE  Types'
  <2> DEFINE c == Peer(s, at[s])
  <2>1. HasAnswer(s) /\ s \in Processes /\ pc[s] = "asking"
    BY <1>17, WhoIsWho DEF Hear, HasAnswer
  <2>2. pc' \in [Processes -> PCs] /\ \A q \in Processes : pc'[q] = "unborn" <=> pc[q] = "unborn"
    BY <1>17, <2>1 DEF Hear, Types
  <2>3. /\ kids' \in [Processes -> Seq(ChildRec)]
        /\ conn' \in [Processes -> [Fds -> Services \union {Closed}]]
    <3>1. MarkKilled(s) \/ UNCHANGED <<kids, conn>>
      BY <1>17 DEF Hear
    <3>2. above' = above
      BY <1>17 DEF Hear
    <3> QED BY <1>6, <2>1, <2>2, <3>1, <3>2
  <2>4. up' \in [Services -> Seq({"yes", "yesn", "not"})]
    <3>1. [up EXCEPT ![c] = Tail(@)] \in [Services -> Seq({"yes", "yesn", "not"})] /\ c # s
      BY <1>7, <2>1
    <3>2. up \in [Services -> Seq({"yes", "yesn", "not"})]
      BY DEF Types
    <3>3. Append(up[s], "yes") \in Seq({"yes", "yesn", "not"})
      BY <3>2
    <3>4. \/ up' = [up EXCEPT ![c] = Tail(@)]
          \/ up' = [up EXCEPT ![c] = Tail(@), ![s] = Append(@, "yes")]
      BY <1>17 DEF Hear, TakeAnswer
    <3>5. [up EXCEPT ![c] = Tail(@), ![s] = Append(@, "yes")] =
            [[up EXCEPT ![c] = Tail(@)] EXCEPT ![s] = Append(up[s], "yes")]
      BY <3>1, <3>2
    <3> QED BY <3>1, <3>3, <3>4, <3>5
  <2> QED BY <1>17, <2>2, <2>3, <2>4 DEF Hear, Types, user
<1>18. ASSUME NEW s \in Services, Leave(s)
       PROVE  Types'
  <2>1. up' \in [Services -> Seq({"yes", "yesn", "not"})]
    BY <1>14, <1>18 DEF Leave, Types
  <2> QED BY <1>18, <2>1 DEF Leave, Types, tree, user
<1>19. ASSUME NEW s \in Services, ExitProcess(s)
       PROVE  Types'
  BY <1>19 DEF ExitProcess, Types, tree, pipes, user
<1>20. ASSUME UNCHANGED vars
       PROVE  Types'
  BY <1>20 DEF vars, Types, tree, pipes, user
<1>21. CASE ManagerStep
  BY <1>3, <1>4, <1>5, <1>8, <1>9, <1>10, <1>11, <1>21, WhoIsWho
     DEF ManagerStep, ManagerAsks, ManagerTells
<1>22. ASSUME NEW s \in Services, ServiceStep(s)
       PROVE  Types'
  <2>1. s \in Processes
    BY WhoIsWho
  <2> QED BY <1>4, <1>9, <1>10, <1>12, <1>13, <1>15, <1>16, <1>17, <1>18, <1>19, <1>22, <2>1
             DEF ServiceStep, Forward, TellKids
<1> QED BY <1>1, <1>20, <1>21, <1>22 DEF Next

-----------------------------------------------------------------------------
(* What stays when a step changes little.                                  *)

(* Who is not touched is as busy as before.                                *)
LEMMA BusySame ==
  ASSUME NEW s, pc'[s] = pc[s], msg'[s] = msg[s], down'[s] = down[s], up'[s] = up[s],
         Request' = Request
  PROVE  /\ Asked(s)' <=> Asked(s)
         /\ Told(s)' <=> Told(s)
         /\ Quiet(s)' <=> Quiet(s)
         /\ Holds(s, Request)' <=> Holds(s, Request)
  BY DEF Asked, Told, Quiet, Holds

(* Who stays in its loop asks whom it asked.                               *)
LEMMA AskSame ==
  ASSUME Types, SameTree, LoopInv, NEW p \in Processes, pc'[p] = pc[p], at'[p] = at[p]
  PROVE  /\ \A s : AsksToward(p, s)' <=> AsksToward(p, s)
         /\ Kills(p)' <=> Kills(p)
<1>1. Kills(p)' <=> Kills(p)
  BY DEF Kills
<1>2. ASSUME NEW s
      PROVE  AsksToward(p, s)' <=> AsksToward(p, s)
  <2>1. CASE pc[p] # "asking"
    BY <2>1 DEF AsksToward
  <2>2. CASE pc[p] = "asking"
    <3>1. at[p] \in DOMAIN kids[p]
      BY <2>2 DEF LoopInv
    <3>2. kids'[p][at[p]].svc = kids[p][at[p]].svc /\ above' = above
      BY <3>1 DEF SameTree
    <3> QED BY <3>2 DEF AsksToward, Child, Line
  <2> QED BY <2>1, <2>2
<1> QED BY <1>1, <1>2

(* The descriptors and the marks are the same and nobody starts again.     *)
LEMMA ConnSame ==
  ASSUME Types, ConnInv, SameTree, conn' = conn, kids' = kids,
         \A p \in Processes : pc'[p] \notin Ending \union Gone => pc[p] \notin Ending \union Gone
  PROVE  ConnInv'
  BY DEF ConnInv, Peer, Child

(* Nobody becomes busy under the others, and who asks goes on asking.      *)
LEMMA PathSame ==
  ASSUME PathInv, above' = above,
         \A s \in Services :
           /\ Asked(s)' => Asked(s)
           /\ Told(s)' => Told(s)
           /\ Asked(s)' \/ Told(s)' =>
                \A p \in above[s] :
                  /\ AsksToward(p, s) => AsksToward(p, s)'
                  /\ Kills(p) => Kills(p)'
  PROVE  PathInv'
  BY DEF PathInv

(* No pair of descriptors leads to somebody new, nobody becomes busy, and  *)
(* nobody whose answer was read leaves.                                    *)
LEMMA TurnSame ==
  ASSUME Types, TreeInv, ConnInv, TurnInv, SameTree,
         \A p \in Processes : \A fd \in Fds :
           conn'[p][fd] # Closed => conn'[p][fd] = conn[p][fd] /\ conn[p][fd] \in Services,
         \A p \in Processes : Kills(p)' =>
           Kills(p) \/ \A s \in Services : p \in above[s] => ~Asked(s) /\ ~Told(s),
         \A s \in Services :
           /\ Asked(s)' => Asked(s)
           /\ Told(s)' => Told(s)
           /\ pc'[s] \in Gone /\ up'[s] = << >> => pc[s] \in Gone /\ up[s] = << >>,
         \A p \in Processes : \A k \in DOMAIN kids[p], c \in Services :
           c = Child(p, k) /\ Told(c)' /\ Kills(p) => Kills(p)'
  PROVE  TurnInv'
<1>1. ASSUME NEW p \in Processes, NEW fd \in Fds, conn'[p][fd] # Closed
      PROVE  /\ Kills(p)' => ~Asked(conn[p][fd])' /\ ~Told(conn[p][fd])'
             /\ pc'[conn'[p][fd]] \in Gone => up'[conn'[p][fd]] # << >>
  <2>1. PICK c \in Services : conn'[p][fd] = c /\ conn[p][fd] = c /\ c # Closed
    BY <1>1
  <2>2. /\ Kills(p) => ~Asked(c) /\ ~Told(c)
        /\ pc[c] \in Gone => up[c] # << >>
    BY <2>1 DEF TurnInv
  <2>5. p \in above[c]
    BY <2>1, OpenLeadsTo, ChildFacts
  <2>3. /\ Kills(p)' => ~Asked(c)' /\ ~Told(c)'
        /\ pc'[c] \in Gone => up'[c] # << >>
    BY <2>2, <2>5
  <2>4. /\ Asked(conn[p][fd])' <=> Asked(c)'
        /\ Told(conn[p][fd])' <=> Told(c)'
    BY <2>1 DEF Asked, Told, Holds
  <2> QED BY <2>1, <2>3, <2>4
<1>2. ASSUME NEW p \in Processes, NEW k \in DOMAIN kids'[p], Told(Child(p, k))'
      PROVE  Kills(p)'
  <2>1. PICK c \in Services : k \in DOMAIN kids[p] /\ Child(p, k)' = c /\ Child(p, k) = c
    BY <1>2, TreeSame, Typed DEF SameTree
  <2>2. Told(c)'
    BY <1>2, <2>1 DEF Told, Holds
  <2>3. Told(c)
    BY <2>2
  <2>4. Kills(p)
    BY <2>1, <2>3 DEF TurnInv
  <2> QED BY <2>1, <2>2, <2>4
<1> QED BY <1>1, <1>2 DEF TurnInv

(* No process comes nearer to spawning a service again.                    *)
LEMMA SpawnSame ==
  ASSUME Types, SpawnInv, SameTree, Request' = Request,
         \A p \in Processes :
           /\ pc'[p] = "found" => pc[p] = "found"
           /\ pc'[p] \in {"search", "asking"} => pc[p] \in {"search", "asking"} /\ at'[p] = at[p],
         \A p \in Services : Holds(p, Request)' => Holds(p, Request)
  PROVE  SpawnInv'
<1> SUFFICES ASSUME Request.op = "spawn"
             PROVE  /\ Request.b \in Services
                    /\ Request.a = Request.b \/ Cardinality(above[Request.a]) < MaxDepth
                    /\ Born(Request.b)' =>
                       \A p \in Processes :
                         /\ pc'[p] # "found"
                         /\ p \in Services /\ Holds(p, Request)' => p \notin Line(Request.a)'
                         /\ pc'[p] \in {"search", "asking"} =>
                              \A k \in DOMAIN kids'[p] : k > at'[p] =>
                                Child(p, k)' \notin Line(Request.a)'
  BY DEF SpawnInv, SameTree
<1>1. /\ Request.b \in Services
      /\ Request.a = Request.b \/ Cardinality(above[Request.a]) < MaxDepth
  BY DEF SpawnInv
<1>2. ASSUME Born(Request.b)', NEW p \in Processes
      PROVE  /\ pc'[p] # "found"
             /\ p \in Services /\ Holds(p, Request)' => p \notin Line(Request.a)'
             /\ pc'[p] \in {"search", "asking"} =>
                  \A k \in DOMAIN kids'[p] : k > at'[p] => Child(p, k)' \notin Line(Request.a)'
  <2> DEFINE a == Request.a
  <2>1. Born(Request.b)
    <3>1. Request.b \in Processes
      BY <1>1, WhoIsWho
    <3>2. pc'[Request'.b] # "unborn"
      BY <1>2 DEF Born
    <3> QED BY <3>1, <3>2 DEF Born, SameTree
  <2>2. /\ pc[p] # "found"
        /\ p \in Services /\ Holds(p, Request) => p \notin Line(a)
        /\ pc[p] \in {"search", "asking"} =>
             \A k \in DOMAIN kids[p] : k > at[p] => Child(p, k) \notin Line(a)
    BY <2>1 DEF SpawnInv
  <2>3. Line(Request.a)' = Line(a)
    BY DEF Line, SameTree
  <2>4. /\ \A k \in DOMAIN kids[p] : Child(p, k)' = Child(p, k)
        /\ DOMAIN kids'[p] = DOMAIN kids[p]
    BY TreeSame DEF SameTree
  <2> QED BY <2>2, <2>3, <2>4
<1> QED BY <1>1, <1>2

(* Nobody else is to die or dies, and an answer to a kill is right.        *)
LEMMA KillSame ==
  ASSUME Types, KillInv, SameTree, Request' = Request, doomed' = doomed, said' = said,
         said.op # "none" => pc'[Manager] = pc[Manager],
         \A p \in Processes : pc[p] \in Gone => pc'[p] \in Gone,
         \A s \in Services :
           /\ pc'[s] \in Ending \/ Told(s)' =>
                pc[s] \in Ending \/ Told(s) \/ (s \in doomed /\ Request.op = "kill")
           /\ up'[s] # << >> /\ up'[s] # up[s] =>
                /\ up'[s] = <<"yesn">> => Request.op = "kill" /\ Request.a = s
                /\ Request.op = "kill" /\ up'[s] # <<"not">> =>
                     Request.a \in Services /\ pc'[Request.a] \in Gone
  PROVE  KillInv'
<1>1. \A s \in Services : pc'[s] \in Ending \/ Told(s)' => s \in doomed /\ Request.op = "kill"
  BY DEF KillInv
<1>2. Subtree(Request.a)' \subseteq Subtree(Request.a)
  <2>1. Alive' \subseteq Alive
    BY WhoIsWho DEF Alive, SameTree, Gone
  <2> QED BY <2>1 DEF Subtree, SameTree
<1>3. Request.op \in {"find", "kill"} =>
        /\ Subtree(Request.a)' \subseteq doomed
        /\ \A s \in doomed : Request.a \in Line(s)'
  BY <1>2 DEF KillInv, Line, SameTree
<1>4. \A s \in Services : up'[s] # << >> =>
        /\ up'[s] = <<"yesn">> => Request.op = "kill" /\ Request.a = s
        /\ Request.op = "kill" /\ up'[s] # <<"not">> =>
             Request.a \in Services /\ pc'[Request.a] \in Gone
  BY WhoIsWho DEF KillInv
<1>5. /\ said.op # "none" => pc'[Manager] \in {"idle", "exited"}
      /\ said.op = "killed" => Request.op = "kill" /\ said.a = Request.a
      /\ said.op = "killed" /\ said.a # Manager => pc'[said.a] \in Gone
      /\ said.op = "killed" /\ said.a = Manager => pc'[Manager] = "exited"
  <2>1. said.a \in Processes
    BY DEF Types, News
  <2> QED BY <2>1 DEF KillInv
<1> QED BY <1>1, <1>3, <1>4, <1>5 DEF KillInv

(* The children that were waited for are the same ones.                    *)
LEMMA WaitedSame ==
  ASSUME Types, SameTree, NEW p \in Processes, reaped' = reaped
  PROVE  Waited(p)' = Waited(p)
  BY TreeSame DEF Waited, SameTree

(* The children that were waited for can be counted.                       *)
LEMMA CountWaited ==
  ASSUME Types, NEW p \in Processes
  PROVE  IsFiniteSet(Waited(p)) /\ Cardinality(Waited(p)) \in Nat
<1> DEFINE n == Len(kids[p])
<1>1. 1 \in Int /\ n \in Int /\ DOMAIN kids[p] = 1..n
  BY Typed
<1>2. Waited(p) \in SUBSET (1..n)
  BY <1>1 DEF Waited
<1> HIDE DEF n
<1>3. IsFiniteSet(1..n)
  BY <1>1, FS_Interval
<1> QED BY <1>2, <1>3, FS_Subset, FS_CardinalityType

(* Nobody waits or leaves.                                                 *)
LEMMA ReapSame ==
  ASSUME Types, ReapInv, SameTree, reaped' = reaped,
         \A p \in Processes :
           /\ Kills(p)' => (Kills(p) /\ at'[p] = at[p]) \/ at'[p] = 1
           /\ pc[p] = "exited" => pc'[p] = "exited",
         \A s \in Services : pc'[s] \in Gone => pc[s] \in Gone,
         \A k \in DOMAIN kids[Manager] : kids[Manager][k].killed => kids'[Manager][k].killed,
         pc'[Manager] = "exited" => pc[Manager] = "exited" /\ at'[Manager] = at[Manager]
  PROVE  ReapInv'
<1>1. \A s \in reaped : pc'[s] = "exited"
  BY WhoIsWho DEF ReapInv, Types
<1>2. ASSUME NEW p \in Processes, Kills(p)'
      PROVE  \/ at'[p] - 1 <= Cardinality(Waited(p))'
             \/ p = Manager /\ \E k \in DOMAIN kids'[p] : kids'[p][k].killed
  <2>1. Waited(p)' = Waited(p) /\ DOMAIN kids'[p] = DOMAIN kids[p]
    BY WaitedSame DEF SameTree
  <2>2. CASE at'[p] = at[p] /\ Kills(p)
    <3>1. \/ at[p] - 1 <= Cardinality(Waited(p))
          \/ p = Manager /\ \E k \in DOMAIN kids[p] : kids[p][k].killed
      BY <2>2 DEF ReapInv
    <3> QED BY <2>1, <2>2, <3>1
  <2>3. CASE at'[p] = 1
    <3>1. Cardinality(Waited(p)) \in Nat
      BY CountWaited
    <3> QED BY <2>1, <2>3, <3>1
  <2> QED BY <1>2, <2>2, <2>3
<1>3. ASSUME NEW s \in Services, NEW p \in above'[s], p # Manager, pc'[p] \in Gone
      PROVE  pc'[s] = "exited"
  <2>1. p \in Services /\ p \in above[s] /\ s \in Processes
    BY <1>3, Typed, WhoIsWho DEF SameTree
  <2> QED BY <1>3, <2>1 DEF ReapInv
<1>4. pc'[Manager] = "exited" => at'[Manager] > Len(kids'[Manager])
  BY WhoIsWho DEF ReapInv, SameTree, Kills
<1> QED BY <1>1, <1>2, <1>3, <1>4 DEF ReapInv

-----------------------------------------------------------------------------
(* The steps, one by one.                                                  *)

(* A process that has left exits.                                          *)
LEMMA ExitKeeps ==
  ASSUME IInv, NEW x \in Services, ExitProcess(x), Types'
  PROVE  IInv'
<1>a. Types /\ TreeInv /\ ConnInv /\ LoopInv /\ PipeInv /\ PathInv /\ TurnInv
      /\ RequestInv /\ SpawnInv /\ KillInv /\ ReapInv
  BY DEF IInv
<1>1. /\ x \in Processes /\ x # Manager /\ pc[x] = "leaving" /\ pc'[x] = "exited"
      /\ \A q \in Processes : q # x => pc'[q] = pc[q]
  BY <1>a, WhoIsWho DEF ExitProcess, Types
<1>2. UNCHANGED <<msg, at, kids, conn, above, down, up, reaped, doomed, said, commands>>
  BY DEF ExitProcess, tree, pipes, user
<1>3. Request' = Request
  BY <1>2 DEF Request
<1>4. SameTree
  BY <1>1, <1>2 DEF SameTree
<1>5. \A s \in Services : s # x =>
        /\ Asked(s)' <=> Asked(s)
        /\ Told(s)' <=> Told(s)
        /\ Quiet(s)' <=> Quiet(s)
  BY <1>1, <1>2, <1>3, BusySame, WhoIsWho
<1>6. /\ Asked(x)' <=> Asked(x)
      /\ Told(x)' <=> Told(x)
      /\ Quiet(x)' <=> Quiet(x)
  BY <1>1, <1>2, <1>3 DEF Asked, Told, Quiet, Holds, Ending
<1>7. \A p \in Processes : p # x =>
        /\ \A s : AsksToward(p, s)' <=> AsksToward(p, s)
        /\ Kills(p)' <=> Kills(p)
  BY <1>a, <1>1, <1>2, <1>4, AskSame
<1>8. ~Kills(x) /\ ~Kills(x)' /\ \A s : ~AsksToward(x, s)
  BY <1>1 DEF Kills, AsksToward, Ending
<1>9. \A s \in Services : \A p \in above[s] : p \in Processes
  BY <1>a, Typed, WhoIsWho
<1>10. TreeInv'
  BY <1>a, <1>4, TreeSame
<1>11. ConnInv'
  BY <1>a, <1>1, <1>2, <1>4, ConnSame DEF Ending, Gone
<1>12. LoopInv'
  BY <1>a, <1>1, <1>2 DEF LoopInv, Ending
<1>13. PipeInv'
  BY <1>a, <1>1, <1>2, <1>3, <1>5, <1>6, WhoIsWho DEF PipeInv, Gone
<1>14. PathInv'
  BY <1>a, <1>2, <1>5, <1>6, <1>7, <1>8, <1>9, PathSame
<1>15. TurnInv'
  BY <1>a, <1>1, <1>2, <1>4, <1>5, <1>6, <1>7, <1>8, Typed, WhoIsWho, TurnSame DEF Gone
<1>16. RequestInv'
  BY <1>a, <1>1, <1>2, <1>3, WhoIsWho DEF RequestInv, Ending
<1>17. SpawnInv'
  BY <1>a, <1>1, <1>2, <1>3, <1>4, SpawnSame DEF Holds
<1>18. KillInv'
  BY <1>a, <1>1, <1>2, <1>3, <1>4, <1>5, <1>6, WhoIsWho, KillSame DEF Ending, Gone
<1>19. ReapInv'
  BY <1>a, <1>1, <1>2, <1>4, <1>7, <1>8, WhoIsWho, ReapSame DEF Gone
<1> QED BY <1>10, <1>11, <1>12, <1>13, <1>14, <1>15, <1>16, <1>17, <1>18, <1>19 DEF IInv

(* A service answers "not" when no child is left to be asked, and "yes" to *)
(* a request for itself.                                                   *)
LEMMA AnswerKeeps ==
  ASSUME IInv, NEW x \in Services, NEW r \in {"yes", "not"},
         \/ pc[x] = "search" /\ r = "not"
         \/ pc[x] = "found" /\ r = "yes" /\ Request.op # "spawn",
         Reply(x, r), pc' = [pc EXCEPT ![x] = "idle"],
         UNCHANGED <<msg, at, tree, down, reaped, user>>, Types'
  PROVE  IInv'
<1>a. Types /\ TreeInv /\ ConnInv /\ LoopInv /\ PipeInv /\ PathInv /\ TurnInv
      /\ RequestInv /\ SpawnInv /\ KillInv /\ ReapInv
  BY DEF IInv
<1>b. down[x] = << >> /\ up[x] = << >>
  BY <1>a DEF PipeInv, Quiet
<1>1. /\ x \in Processes /\ x # Manager /\ pc[x] \in {"search", "found"} /\ pc'[x] = "idle"
      /\ \A q \in Processes : q # x => pc'[q] = pc[q]
  BY <1>a, WhoIsWho DEF Types
<1>2. UNCHANGED <<msg, at, kids, conn, above, down, reaped, doomed, said, commands>>
  BY DEF tree, user
<1>c. up'[x] = <<r>> /\ \A q \in Services : q # x => up'[q] = up[q]
  <2>1. up' = [up EXCEPT ![x] = Append(up[x], r)]
    BY DEF Reply
  <2>2. up' = [up EXCEPT ![x] = <<r>>]
    BY <1>b, <2>1, Pipes
  <2> QED BY <1>a, <2>2 DEF Types
<1>d. <<r>> # << >> /\ <<r>> # <<"yesn">> /\ (r = "not" => <<r>> = <<"not">>)
  BY Pipes
<1>3. Request' = Request
  BY <1>2 DEF Request
<1>4. SameTree
  BY <1>1, <1>2 DEF SameTree
<1>5. \A s \in Services : s # x =>
        /\ Asked(s)' <=> Asked(s)
        /\ Told(s)' <=> Told(s)
        /\ Quiet(s)' <=> Quiet(s)
  BY <1>1, <1>2, <1>3, <1>c, BusySame, WhoIsWho
<1>6. Asked(x) /\ Asked(x)' /\ ~Told(x)' /\ ~Told(x)
  <2>1. Asked(x)
    BY <1>1 DEF Asked
  <2>2. ~Told(x)
    BY <1>a, <2>1 DEF PathInv
  <2>3. Asked(x)'
    BY <1>c, <1>d DEF Asked
  <2>4. ~Told(x)'
    <3>1. ~Holds(x, Dead)'
      BY <1>b, <1>2, HoldsWhat, Pipes DEF Holds
    <3> QED BY <1>1, <3>1 DEF Told, Ending
  <2> QED BY <2>1, <2>2, <2>3, <2>4
<1>7. \A p \in Processes : p # x =>
        /\ \A s : AsksToward(p, s)' <=> AsksToward(p, s)
        /\ Kills(p)' <=> Kills(p)
  BY <1>a, <1>1, <1>2, <1>4, AskSame
<1>8. ~Kills(x) /\ ~Kills(x)' /\ \A s : ~AsksToward(x, s)
  BY <1>1 DEF Kills, AsksToward, Ending
<1>9. \A s \in Services : \A p \in above[s] : p \in Processes
  BY <1>a, Typed, WhoIsWho
<1>10. TreeInv'
  BY <1>a, <1>4, TreeSame
<1>11. ConnInv'
  BY <1>a, <1>1, <1>2, <1>4, ConnSame DEF Ending, Gone
<1>12. LoopInv'
  BY <1>a, <1>1, <1>2 DEF LoopInv, Ending
<1>13. PipeInv'
  <2>1. Quiet(x)'
    BY <1>b, <1>1, <1>2 DEF Quiet
  <2> QED BY <1>a, <1>b, <1>c, <1>1, <1>2, <1>3, <1>5, <2>1, WhoIsWho DEF PipeInv, Gone
<1>14. PathInv'
  BY <1>a, <1>2, <1>5, <1>6, <1>7, <1>8, <1>9, PathSame
<1>15. TurnInv'
  BY <1>a, <1>c, <1>1, <1>2, <1>4, <1>5, <1>6, <1>7, <1>8, Typed, WhoIsWho, TurnSame DEF Gone
<1>16. RequestInv'
  BY <1>a, <1>1, <1>2, <1>3, WhoIsWho DEF RequestInv, Ending
<1>17. SpawnInv'
  BY <1>a, <1>1, <1>2, <1>3, <1>4, SpawnSame DEF Holds
<1>18. KillInv'
  <2>1. r = "yes" => Request.op # "kill"
    BY <1>a DEF RequestInv
  <2>2. said.op # "none" => pc'[Manager] = pc[Manager]
    BY <1>1, WhoIsWho
  <2> QED BY <1>a, <1>c, <1>d, <1>1, <1>2, <1>3, <1>4, <1>5, <1>6, <2>1, <2>2, KillSame DEF Ending, Gone
<1>19. ReapInv'
  BY <1>a, <1>1, <1>2, <1>4, <1>7, <1>8, WhoIsWho, ReapSame DEF Gone
<1> QED BY <1>10, <1>11, <1>12, <1>13, <1>14, <1>15, <1>16, <1>17, <1>18, <1>19 DEF IInv

(* A service takes its parent's name, and a request behind it is lost.     *)
LEMMA ReadNameKeeps ==
  ASSUME IInv, NEW x \in Services, ReadName(x), Types'
  PROVE  IInv'
<1>a. Types /\ TreeInv /\ ConnInv /\ LoopInv /\ PipeInv /\ PathInv /\ TurnInv
      /\ RequestInv /\ SpawnInv /\ KillInv /\ ReapInv
  BY DEF IInv
<1>1. /\ x \in Processes /\ x # Manager /\ pc[x] = "naming" /\ pc'[x] = "idle"
      /\ \A q \in Processes : q # x => pc'[q] = pc[q]
  BY <1>a, WhoIsWho DEF ReadName, Types
<1>2. UNCHANGED <<msg, at, kids, conn, above, up, reaped, doomed, said, commands>>
  BY DEF ReadName, tree, user
<1>c. down'[x] = << >> /\ \A q \in Services : q # x => down'[q] = down[q]
  BY <1>a DEF ReadName, Types
<1>3. Request' = Request
  BY <1>2 DEF Request
<1>b. up[x] = << >> /\ ~Holds(x, Request)' /\ ~Asked(x)' /\ ~Told(x)'
  <2>1. up[x] = << >>
    BY <1>a, <1>1 DEF PipeInv
  <2>2. ~Holds(x, Request)' /\ ~Holds(x, Dead)'
    BY <1>c, Pipes DEF Holds
  <2> QED BY <1>1, <1>2, <2>1, <2>2 DEF Asked, Told, Ending
<1>4. SameTree
  BY <1>1, <1>2 DEF SameTree
<1>5. \A s \in Services : s # x =>
        /\ Asked(s)' <=> Asked(s)
        /\ Told(s)' <=> Told(s)
        /\ Quiet(s)' <=> Quiet(s)
        /\ Holds(s, Request)' <=> Holds(s, Request)
  BY <1>1, <1>2, <1>3, <1>c, BusySame, WhoIsWho
<1>7. \A p \in Processes : p # x =>
        /\ \A s : AsksToward(p, s)' <=> AsksToward(p, s)
        /\ Kills(p)' <=> Kills(p)
  BY <1>a, <1>1, <1>2, <1>4, AskSame
<1>8. ~Kills(x) /\ ~Kills(x)' /\ \A s : ~AsksToward(x, s)
  BY <1>1 DEF Kills, AsksToward, Ending
<1>9. \A s \in Services : \A p \in above[s] : p \in Processes
  BY <1>a, Typed, WhoIsWho
<1>10. TreeInv'
  BY <1>a, <1>4, TreeSame
<1>11. ConnInv'
  BY <1>a, <1>1, <1>2, <1>4, ConnSame DEF Ending, Gone
<1>12. LoopInv'
  BY <1>a, <1>1, <1>2 DEF LoopInv, Ending
<1>13. PipeInv'
  <2>1. Quiet(x)'
    BY <1>c, <1>1 DEF Quiet
  <2> QED BY <1>a, <1>b, <1>c, <1>1, <1>2, <1>3, <1>5, <2>1, WhoIsWho DEF PipeInv, Gone
<1>14. PathInv'
  BY <1>a, <1>b, <1>2, <1>5, <1>7, <1>8, <1>9, PathSame
<1>15. TurnInv'
  BY <1>a, <1>b, <1>c, <1>1, <1>2, <1>4, <1>5, <1>7, <1>8, Typed, WhoIsWho, TurnSame DEF Gone
<1>16. RequestInv'
  BY <1>a, <1>1, <1>2, <1>3, WhoIsWho DEF RequestInv, Ending
<1>17. SpawnInv'
  BY <1>a, <1>b, <1>1, <1>2, <1>3, <1>4, <1>5, SpawnSame
<1>18. KillInv'
  <2>2. said.op # "none" => pc'[Manager] = pc[Manager]
    BY <1>1, WhoIsWho
  <2> QED BY <1>a, <1>b, <1>c, <1>1, <1>2, <1>3, <1>4, <1>5, <2>2, WhoIsWho, KillSame DEF Ending, Gone
<1>19. ReapInv'
  BY <1>a, <1>1, <1>2, <1>4, <1>7, <1>8, WhoIsWho, ReapSame DEF Gone
<1> QED BY <1>10, <1>11, <1>12, <1>13, <1>14, <1>15, <1>16, <1>17, <1>18, <1>19 DEF IInv

(* As many waits as children have taken them all.                          *)
LEMMA AllReaped ==
  ASSUME Types, ReapInv, NEW p \in Processes, Kills(p), at[p] > Len(kids[p]),
         p = Manager => \A k \in DOMAIN kids[p] : ~kids[p][k].killed
  PROVE  \A k \in DOMAIN kids[p] : Child(p, k) \in reaped
<1>1. at[p] \in Nat /\ Len(kids[p]) \in Nat /\ DOMAIN kids[p] = 1..Len(kids[p])
  BY Typed
<1>2. at[p] - 1 <= Cardinality(Waited(p))
  BY DEF ReapInv
<1>3. Waited(p) \in SUBSET (1..Len(kids[p]))
  BY <1>1 DEF Waited
<1>4. IsFiniteSet(1..Len(kids[p])) /\ Cardinality(1..Len(kids[p])) = Len(kids[p])
  <2>1. /\ IsFiniteSet(1..Len(kids[p]))
        /\ Cardinality(1..Len(kids[p])) =
             IF 1 > Len(kids[p]) THEN 0 ELSE Len(kids[p]) - 1 + 1
    <3> DEFINE n == Len(kids[p])
    <3>1. 1 \in Int /\ n \in Int
      BY <1>1
    <3> HIDE DEF n
    <3>2. /\ IsFiniteSet(1..n)
          /\ Cardinality(1..n) = IF 1 > n THEN 0 ELSE n - 1 + 1
      BY <3>1, FS_Interval
    <3> QED BY <3>2 DEF n
  <2> QED BY <1>1, <2>1
<1>5. /\ Cardinality(Waited(p)) <= Len(kids[p]) /\ IsFiniteSet(Waited(p))
      /\ Cardinality(Waited(p)) = Len(kids[p]) => Waited(p) = 1..Len(kids[p])
  BY <1>3, <1>4, FS_Subset
<1>6. Cardinality(Waited(p)) \in Nat
  BY <1>5, FS_CardinalityType
<1>7. Waited(p) = DOMAIN kids[p]
  BY <1>1, <1>2, <1>5, <1>6
<1> QED BY <1>7 DEF Waited

(* So nobody is left under who has waited for all.                         *)
LEMMA AllBelowExited ==
  ASSUME Types, TreeInv, ReapInv, NEW p \in Processes, Kills(p), at[p] > Len(kids[p]),
         p = Manager => \A k \in DOMAIN kids[p] : ~kids[p][k].killed
  PROVE  \A s \in Services : p \in above[s] => pc[s] = "exited"
<1> SUFFICES ASSUME NEW s \in Services, p \in above[s]
             PROVE  pc[s] = "exited"
  OBVIOUS
<1>1. s \in Processes
  BY WhoIsWho
<1>2. PICK k \in DOMAIN kids[p] : Child(p, k) \in Line(s)
  BY <1>1, ThroughOneChild
<1>3. Child(p, k) \in reaped /\ Child(p, k) # Manager
  BY AllReaped, ChildFacts
<1>4. pc[Child(p, k)] = "exited"
  BY <1>3 DEF ReapInv
<1>5. CASE Child(p, k) = s
  BY <1>4, <1>5
<1>6. CASE Child(p, k) \in above[s]
  BY <1>3, <1>4, <1>6 DEF ReapInv, Gone
<1> QED BY <1>2, <1>5, <1>6 DEF Line

(* A service leaves when it has waited for all its children, and answers   *)
(* if it was the target of the kill.                                       *)
LEMMA LeaveKeeps ==
  ASSUME IInv, NEW x \in Services, Leave(x), Types'
  PROVE  IInv'
<1>a. Types /\ TreeInv /\ ConnInv /\ LoopInv /\ PipeInv /\ PathInv /\ TurnInv
      /\ RequestInv /\ SpawnInv /\ KillInv /\ ReapInv
  BY DEF IInv
<1>1. /\ x \in Processes /\ x # Manager /\ pc[x] = "telling" /\ pc'[x] = "leaving"
      /\ at[x] > Len(kids[x])
      /\ \A q \in Processes : q # x => pc'[q] = pc[q]
  BY <1>a, WhoIsWho DEF Leave, Types
<1>2. UNCHANGED <<msg, at, kids, conn, above, down, reaped, doomed, said, commands>>
  BY DEF Leave, tree, user
<1>b. down[x] = << >> /\ up[x] = << >>
  BY <1>a, <1>1 DEF PipeInv, Quiet
<1>c. /\ \A q \in Services : q # x => up'[q] = up[q]
      /\ msg[x].op = "kill" => up'[x] = <<"yesn">>
      /\ msg[x].op # "kill" => up'[x] = << >>
  <2>1. CASE msg[x].op = "kill"
    <3>1. up' = [up EXCEPT ![x] = Append(up[x], "yesn")]
      BY <2>1 DEF Leave, Reply
    <3>2. up' = [up EXCEPT ![x] = <<"yesn">>]
      BY <1>b, <3>1, Pipes
    <3> QED BY <1>a, <2>1, <3>2 DEF Types
  <2>2. CASE msg[x].op # "kill"
    BY <1>b, <2>2 DEF Leave
  <2> QED BY <2>1, <2>2
<1>d. <<"yesn">> # << >>
  BY Pipes
<1>e. msg[x].op = "dead" \/ (msg[x] = Request /\ Request.op = "kill" /\ Request.a = x)
  BY <1>a, <1>1 DEF RequestInv, Ending
<1>f. \A s \in Services : x \in above[s] => pc[s] = "exited" /\ s # x
  BY <1>a, <1>1, AllBelowExited DEF Kills, Ending, TreeInv
<1>3. Request' = Request
  BY <1>2 DEF Request
<1>4. SameTree
  BY <1>1, <1>2 DEF SameTree
<1>5. \A s \in Services : s # x =>
        /\ Asked(s)' <=> Asked(s)
        /\ Told(s)' <=> Told(s)
        /\ Quiet(s)' <=> Quiet(s)
  BY <1>1, <1>2, <1>3, <1>c, BusySame, WhoIsWho
<1>6. /\ Asked(x)' => Asked(x)
      /\ msg[x].op # "kill" => Told(x)
      /\ ~Told(x)'
  <2>1. ~Holds(x, Request)' /\ ~Holds(x, Dead)'
    BY <1>b, <1>2, Pipes DEF Holds
  <2>2. Asked(x)' => msg[x].op = "kill"
    BY <1>1, <1>c, <2>1 DEF Asked, Ending
  <2> QED BY <1>1, <1>e, <2>1, <2>2 DEF Asked, Told, Ending
<1>7. \A p \in Processes : p # x =>
        /\ \A s : AsksToward(p, s)' <=> AsksToward(p, s)
        /\ Kills(p)' <=> Kills(p)
  BY <1>a, <1>1, <1>2, <1>4, AskSame
<1>8. Kills(x) /\ ~Kills(x)' /\ \A s : ~AsksToward(x, s)
  BY <1>1 DEF Kills, AsksToward, Ending
<1>9. \A s \in Services : \A p \in above[s] : p \in Processes
  BY <1>a, Typed, WhoIsWho
<1>g. \A s \in Services : x \in above[s] => ~Asked(s)' /\ ~Told(s)'
  <2> SUFFICES ASSUME NEW s \in Services, x \in above[s]
               PROVE  ~Asked(s) /\ ~Told(s)
    BY <1>5, <1>f
  <2>1. pc[s] = "exited"
    BY <1>f
  <2>2. ~Asked(s)
    BY <1>a, <1>8 DEF PathInv
  <2>3. ~Told(s)
    <3>1. down[s] = << >>
      BY <1>a, <2>1 DEF PipeInv, Quiet
    <3> QED BY <2>1, <3>1, HoldsWhat DEF Told, Ending
  <2> QED BY <2>2, <2>3
<1>h. \A p \in Processes : \A fd \in Fds : conn[p][fd] = x => msg[x].op = "kill"
  <2> SUFFICES ASSUME NEW p \in Processes, NEW fd \in Fds, conn[p][fd] = x, msg[x].op # "kill"
               PROVE  FALSE
    OBVIOUS
  <2>1. Told(x) /\ x # Closed
    BY <1>6, WhoIsWho
  <2>2. PICK k \in DOMAIN kids[p] : x = Child(p, k)
    BY <1>a, <2>1, OpenLeadsTo
  <2>3. Kills(p)
    BY <1>a, <2>1, <2>2 DEF TurnInv
  <2> QED BY <1>a, <2>1, <2>3 DEF TurnInv
<1>10. TreeInv'
  BY <1>a, <1>4, TreeSame
<1>11. ConnInv'
  BY <1>a, <1>1, <1>2, <1>4, ConnSame DEF Ending, Gone
<1>12. LoopInv'
  BY <1>a, <1>1, <1>2 DEF LoopInv, Ending
<1>13. PipeInv'
  <2>1. Quiet(x)'
    BY <1>b, <1>1, <1>2 DEF Quiet
  <2> QED BY <1>a, <1>b, <1>c, <1>1, <1>2, <1>3, <1>5, <2>1, WhoIsWho DEF PipeInv, Gone
<1>14. PathInv'
  BY <1>a, <1>2, <1>5, <1>6, <1>7, <1>8, <1>9, <1>g, PathSame
<1>15. TurnInv'
  <2>1. \A p \in Processes : \A fd \in Fds :
          conn'[p][fd] # Closed => conn'[p][fd] \in Services
    BY <1>a, <1>2, Typed
  <2>2. ASSUME NEW p \in Processes, NEW fd \in Fds, conn'[p][fd] # Closed
        PROVE  /\ Kills(p)' => ~Asked(conn[p][fd])' /\ ~Told(conn[p][fd])'
               /\ pc'[conn'[p][fd]] \in Gone => up'[conn'[p][fd]] # << >>
    <3>1. PICK c \in Services : c = conn[p][fd] /\ conn'[p][fd] = c /\ c # Closed
      BY <1>2, <2>1, <2>2
    <3>2. Kills(p)' => ~Asked(c)' /\ ~Told(c)'
      BY <1>a, <1>5, <1>6, <1>7, <1>8, <3>1 DEF TurnInv
    <3>3. pc'[c] \in Gone => up'[c] # << >>
      <4>1. CASE c = x
        BY <1>c, <1>d, <1>h, <3>1, <4>1
      <4>2. CASE c # x
        <5>1. pc[c] \in Gone => up[c] # << >>
          BY <1>a, <3>1 DEF TurnInv
        <5>2. pc'[c] = pc[c] /\ up'[c] = up[c]
          BY <1>1, <1>c, <4>2, WhoIsWho
        <5> QED BY <5>1, <5>2
      <4> QED BY <4>1, <4>2
    <3>4. /\ Asked(conn[p][fd])' <=> Asked(c)'
          /\ Told(conn[p][fd])' <=> Told(c)'
      BY <3>1 DEF Asked, Told, Holds
    <3> QED BY <3>1, <3>2, <3>3, <3>4
  <2>3. ASSUME NEW p \in Processes, NEW k \in DOMAIN kids'[p], Told(Child(p, k))'
        PROVE  Kills(p)'
    <3>1. PICK c \in Services : k \in DOMAIN kids[p] /\ Child(p, k)' = c /\ Child(p, k) = c
      BY <1>a, <1>2, <2>3, Typed DEF Child
    <3>2. Told(c)'
      BY <2>3, <3>1 DEF Told, Holds
    <3>3. Kills(p)
      BY <1>a, <1>5, <1>6, <3>1, <3>2 DEF TurnInv
    <3>4. p # x
      BY <1>a, <1>g, <3>1, <3>2, ChildFacts
    <3> QED BY <1>7, <3>3, <3>4
  <2> QED BY <2>2, <2>3 DEF TurnInv
<1>16. RequestInv'
  BY <1>a, <1>1, <1>2, <1>3, WhoIsWho DEF RequestInv, Ending
<1>17. SpawnInv'
  BY <1>a, <1>1, <1>2, <1>3, <1>4, SpawnSame DEF Holds
<1>18. KillInv'
  <2>2. said.op # "none" => pc'[Manager] = pc[Manager]
    BY <1>1, WhoIsWho
  <2>3. msg[x].op = "kill" => Request.op = "kill" /\ Request.a = x /\ pc'[Request.a] \in Gone
    BY <1>e, <1>1 DEF Gone
  <2> QED BY <1>a, <1>b, <1>c, <1>1, <1>2, <1>3, <1>4, <1>5, <1>6, <2>2, <2>3, WhoIsWho, KillSame DEF Ending, Gone
<1>19. ReapInv'
  <2>1. \A s \in reaped : pc'[s] = "exited"
    BY <1>a, <1>1, <1>2, WhoIsWho DEF ReapInv, Types
  <2>2. ASSUME NEW p \in Processes, Kills(p)'
        PROVE  \/ at'[p] - 1 <= Cardinality(Waited(p))'
               \/ p = Manager /\ \E k \in DOMAIN kids'[p] : kids'[p][k].killed
    <3>1. Waited(p)' = Waited(p)
      BY <1>a, <1>2, <1>4, WaitedSame
    <3>2. Kills(p)
      BY <2>2, <1>7, <1>8
    <3> QED BY <1>a, <1>2, <3>1, <3>2 DEF ReapInv
  <2>3. ASSUME NEW s \in Services, NEW p \in above'[s], p # Manager, pc'[p] \in Gone
        PROVE  pc'[s] = "exited"
    <3>1. p \in above[s] /\ p \in Processes /\ s \in Processes
      BY <1>2, <1>9, <2>3, WhoIsWho
    <3>2. pc[s] = "exited"
      BY <1>a, <1>1, <1>f, <2>3, <3>1 DEF ReapInv
    <3> QED BY <1>1, <3>1, <3>2
  <2>4. pc'[Manager] = "exited" => at'[Manager] > Len(kids'[Manager])
    BY <1>a, <1>1, <1>2, WhoIsWho DEF ReapInv
  <2>5. \A p \in Processes : Kills(p)' =>
          \/ at'[p] - 1 <= Cardinality(Waited(p))'
          \/ p = Manager /\ \E k \in DOMAIN kids'[p] : kids'[p][k].killed
    BY <2>2
  <2>6. \A s \in Services : \A p \in above'[s] :
          p # Manager /\ pc'[p] \in Gone => pc'[s] = "exited"
    BY <2>3
  <2>7. \A s \in reaped' : pc'[s] = "exited"
    BY <1>2, <2>1
  <2> HIDE DEF Gone
  <2> QED BY <2>4, <2>5, <2>6, <2>7 DEF ReapInv
<1> QED BY <1>10, <1>11, <1>12, <1>13, <1>14, <1>15, <1>16, <1>17, <1>18, <1>19 DEF IInv

(* A wait takes a child that has exited, or there is none to wait for.     *)
LEMMA WaitKeeps ==
  ASSUME IInv, NEW x \in Processes, WaitNull(x), Types'
  PROVE  IInv'
<1>a. Types /\ TreeInv /\ ConnInv /\ LoopInv /\ PipeInv /\ PathInv /\ TurnInv
      /\ RequestInv /\ SpawnInv /\ KillInv /\ ReapInv
  BY DEF IInv
<1>1. /\ pc[x] = "waiting" /\ pc'[x] = "telling" /\ at'[x] = at[x] + 1
      /\ \A q \in Processes : q # x => pc'[q] = pc[q] /\ at'[q] = at[q]
  BY <1>a DEF WaitNull, Types
<1>2. UNCHANGED <<msg, kids, conn, above, down, up, doomed, said, commands>>
  BY DEF WaitNull, tree, pipes, user
<1>b. /\ at[x] \in Nat /\ Len(kids[x]) \in Nat /\ DOMAIN kids[x] = 1..Len(kids[x])
      /\ at[x] > 0 /\ at[x] <= Len(kids[x])
  BY <1>a, <1>1, Typed DEF LoopInv, Ending
<1>c. /\ \A s \in reaped' : s \in reaped \/ pc[s] = "exited"
      /\ reaped \subseteq reaped'
      /\ Unreaped(x) # {} => \E k \in DOMAIN kids[x] : Child(x, k) \in reaped' \ reaped
  <2>1. CASE Unreaped(x) = {}
    BY <2>1 DEF WaitNull
  <2>2. CASE Unreaped(x) # {}
    <3>1. PICK s \in Unreaped(x) : pc[s] = "exited" /\ reaped' = reaped \union {s}
      BY <2>2 DEF WaitNull
    <3>2. PICK k \in DOMAIN kids[x] : s = Child(x, k) /\ s \notin reaped
      BY <1>b DEF Unreaped
    <3> QED BY <3>1, <3>2
  <2> QED BY <2>1, <2>2
<1>3. Request' = Request
  BY <1>2 DEF Request
<1>4. SameTree
  BY <1>1, <1>2 DEF SameTree
<1>5. \A s \in Services :
        /\ Asked(s)' <=> Asked(s)
        /\ Told(s)' <=> Told(s)
        /\ Quiet(s)' <=> Quiet(s)
  <2> SUFFICES ASSUME NEW s \in Services
               PROVE  /\ Asked(s)' <=> Asked(s)
                      /\ Told(s)' <=> Told(s)
                      /\ Quiet(s)' <=> Quiet(s)
    OBVIOUS
  <2>1. CASE s # x
    BY <1>1, <1>2, <1>3, <2>1, BusySame, WhoIsWho
  <2>2. CASE s = x
    BY <1>1, <1>2, <1>3, <2>2 DEF Asked, Told, Quiet, Holds, Ending
  <2> QED BY <2>1, <2>2
<1>7. \A p \in Processes :
        /\ \A s : AsksToward(p, s)' <=> AsksToward(p, s)
        /\ Kills(p)' <=> Kills(p)
  <2>1. \A p \in Processes : p # x =>
          /\ \A s : AsksToward(p, s)' <=> AsksToward(p, s)
          /\ Kills(p)' <=> Kills(p)
    BY <1>a, <1>1, <1>2, <1>4, AskSame
  <2>2. Kills(x) /\ Kills(x)' /\ \A s : ~AsksToward(x, s) /\ ~AsksToward(x, s)'
    BY <1>1 DEF Kills, AsksToward, Ending
  <2> QED BY <2>1, <2>2
<1>8. Kills(x)
  BY <1>1 DEF Kills, Ending
<1>9. \A s \in Services : \A p \in above[s] : p \in Processes
  BY <1>a, Typed, WhoIsWho
<1>10. TreeInv'
  BY <1>a, <1>4, TreeSame
<1>11. ConnInv'
  BY <1>a, <1>1, <1>2, <1>4, ConnSame DEF Ending, Gone
<1>12. LoopInv'
  BY <1>a, <1>b, <1>1, <1>2 DEF LoopInv, Ending
<1>13. PipeInv'
  BY <1>a, <1>1, <1>2, <1>3, <1>5, WhoIsWho DEF PipeInv, Gone
<1>14. PathInv'
  BY <1>a, <1>2, <1>5, <1>7, <1>9, PathSame
<1>15. TurnInv'
  BY <1>a, <1>1, <1>2, <1>4, <1>5, <1>7, Typed, WhoIsWho, TurnSame DEF Gone
<1>16. RequestInv'
  BY <1>a, <1>1, <1>2, <1>3, WhoIsWho DEF RequestInv, Ending
<1>17. SpawnInv'
  BY <1>a, <1>1, <1>2, <1>3, <1>4, SpawnSame DEF Holds
<1>18. KillInv'
  <2>1. said.op # "none" => pc[Manager] \notin {"waiting"}
    BY <1>a DEF KillInv
  <2>2. said.op # "none" => pc'[Manager] = pc[Manager]
    BY <1>1, <2>1, WhoIsWho
  <2> QED BY <1>a, <1>1, <1>2, <1>3, <1>4, <1>5, <2>2, WhoIsWho, KillSame DEF Ending, Gone
<1>19. ReapInv'
  <2>1. \A s \in reaped' : pc'[s] = "exited"
    BY <1>a, <1>c, <1>1, WhoIsWho DEF ReapInv, Types
  <2>2. ASSUME NEW p \in Processes, Kills(p)'
        PROVE  \/ at'[p] - 1 <= Cardinality(Waited(p))'
               \/ p = Manager /\ \E k \in DOMAIN kids'[p] : kids'[p][k].killed
    <3>1. Waited(p)' = {k \in DOMAIN kids[p] : Child(p, k) \in reaped'}
      BY <1>2 DEF Waited, Child
    <3> DEFINE W == Waited(p)
               V == {k \in DOMAIN kids[p] : Child(p, k) \in reaped'}
    <3>2. W \in SUBSET V /\ V \in SUBSET (DOMAIN kids[p])
      BY <1>c DEF Waited
    <3>3. DOMAIN kids[p] = 1..Len(kids[p]) /\ Len(kids[p]) \in Nat /\ at[p] \in Nat
      BY <1>a, Typed
    <3>4. /\ IsFiniteSet(DOMAIN kids[p])
          /\ Cardinality(DOMAIN kids[p]) = Len(kids[p])
      <4> DEFINE n == Len(kids[p])
      <4>1. 1 \in Int /\ n \in Int
        BY <3>3
      <4> HIDE DEF n
      <4>2. IsFiniteSet(1..n) /\ Cardinality(1..n) = IF 1 > n THEN 0 ELSE n - 1 + 1
        BY <4>1, FS_Interval
      <4> QED BY <3>3, <4>2 DEF n
    <3> HIDE DEF V, W
    <3>5. IsFiniteSet(V) /\ Cardinality(V) \in Nat
      BY <3>2, <3>4, FS_Subset, FS_CardinalityType
    <3>6. /\ IsFiniteSet(W) /\ Cardinality(W) \in Nat /\ Cardinality(W) <= Cardinality(V)
          /\ Cardinality(V) = Cardinality(W) => V = W
      BY <3>2, <3>5, FS_Subset, FS_CardinalityType
    <3>7. Kills(p)
      BY <1>7, <2>2
    <3>8. \/ at[p] - 1 <= Cardinality(W)
          \/ p = Manager /\ \E k \in DOMAIN kids[p] : kids[p][k].killed
      BY <1>a, <3>7 DEF ReapInv, W
    <3>9. CASE p = Manager /\ \E k \in DOMAIN kids[p] : kids[p][k].killed
      BY <1>2, <3>9
    <3>10. CASE at[p] - 1 <= Cardinality(W)
      <4>1. CASE p # x
        <5>1. at'[p] - 1 <= Cardinality(V)
          BY <1>1, <3>3, <3>5, <3>6, <3>10, <4>1
        <5> QED BY <3>1, <5>1 DEF V
      <4>2. CASE p = x /\ Unreaped(x) = {}
        <5>1. V = DOMAIN kids[p]
          BY <1>b, <1>c, <4>2 DEF V, Unreaped
        <5>2. at'[p] - 1 <= Cardinality(V)
          BY <1>b, <1>1, <3>4, <4>2, <5>1
        <5> QED BY <3>1, <5>2 DEF V
      <4>3. CASE p = x /\ Unreaped(x) # {}
        <5>1. V # W
          BY <1>c, <4>3 DEF V, W, Waited
        <5>2. at'[p] - 1 <= Cardinality(V)
          BY <1>b, <1>1, <3>5, <3>6, <3>10, <4>3, <5>1
        <5> QED BY <3>1, <5>2 DEF V
      <4> QED BY <4>1, <4>2, <4>3
    <3> QED BY <3>8, <3>9, <3>10
  <2>3. \A s \in Services : \A p \in above'[s] :
          p # Manager /\ pc'[p] \in Gone => pc'[s] = "exited"
    <3> SUFFICES ASSUME NEW s \in Services, NEW p \in above'[s], p # Manager, pc'[p] \in Gone
                 PROVE  pc'[s] = "exited"
      OBVIOUS
    <3>1. p \in above[s] /\ p \in Processes /\ s \in Processes
      BY <1>2, <1>9, WhoIsWho
    <3>2. pc[p] \in Gone
      BY <1>1, <3>1 DEF Gone
    <3>3. pc[s] = "exited"
      BY <1>a, <3>1, <3>2 DEF ReapInv
    <3> QED BY <1>1, <3>1, <3>3
  <2>4. pc'[Manager] = "exited" => at'[Manager] > Len(kids'[Manager])
    BY <1>a, <1>1, <1>2, WhoIsWho DEF ReapInv
  <2>5. \A p \in Processes : Kills(p)' =>
          \/ at'[p] - 1 <= Cardinality(Waited(p))'
          \/ p = Manager /\ \E k \in DOMAIN kids'[p] : kids'[p][k].killed
    BY <2>2
  <2> HIDE DEF Gone
  <2> QED BY <2>1, <2>3, <2>4, <2>5 DEF ReapInv
<1> QED BY <1>10, <1>11, <1>12, <1>13, <1>14, <1>15, <1>16, <1>17, <1>18, <1>19 DEF IInv

(* A service takes the request, or the word that it is to die.             *)
LEMMA ReceiveKeeps ==
  ASSUME IInv, NEW x \in Services, Receive(x), Types'
  PROVE  IInv'
<1>a. Types /\ TreeInv /\ ConnInv /\ LoopInv /\ PipeInv /\ PathInv /\ TurnInv
      /\ RequestInv /\ SpawnInv /\ KillInv /\ ReapInv
  BY DEF IInv
<1>b. PICK m \in {Request, Dead} : m = Head(down[x]) /\ down[x] = <<m>> /\ Holds(x, m)
  BY <1>a, FirstLetter DEF Receive
<1>c. Request # Dead /\ Request # Name /\ Dead.op = "dead" /\ Request.op # "dead"
  BY <1>a, RequestIsNoName, Names DEF RequestInv, ReqOps
<1>1. /\ x \in Processes /\ x # Manager /\ pc[x] = "idle"
      /\ pc'[x] = IF MustDie(x, m) THEN "telling" ELSE IF For(m) = x THEN "found" ELSE "search"
      /\ at'[x] = IF MustDie(x, m) THEN 1 ELSE 0
      /\ msg'[x] = m /\ down'[x] = << >>
      /\ \A q \in Processes : q # x => pc'[q] = pc[q] /\ at'[q] = at[q] /\ msg'[q] = msg[q]
      /\ \A q \in Services : q # x => down'[q] = down[q]
  <2>1. /\ down' = [down EXCEPT ![x] = << >>]
        /\ msg' = [msg EXCEPT ![x] = m]
        /\ pc' = [pc EXCEPT ![x] = IF MustDie(x, m) THEN "telling"
                                   ELSE IF For(m) = x THEN "found" ELSE "search"]
        /\ at' = [at EXCEPT ![x] = IF MustDie(x, m) THEN 1 ELSE 0]
        /\ pc[x] = "idle"
    BY <1>b DEF Receive
  <2> QED BY <1>a, <2>1, WhoIsWho DEF Types
<1>2. UNCHANGED <<kids, conn, above, up, reaped, doomed, said, commands>>
  BY DEF Receive, tree, user
<1>3. Request' = Request
  BY <1>1, WhoIsWho DEF Request
<1>d. up[x] = << >> /\ <<m>> # << >>
  BY <1>a, <1>b, Pipes DEF PipeInv
<1>4. SameTree
  BY <1>1, <1>2 DEF SameTree
<1>e. ~Holds(x, Request)' /\ ~Holds(x, Dead)' /\ Quiet(x)'
  BY <1>1, Pipes DEF Holds, Quiet
<1>5. \A s \in Services : s # x =>
        /\ Asked(s)' <=> Asked(s)
        /\ Told(s)' <=> Told(s)
        /\ Quiet(s)' <=> Quiet(s)
        /\ Holds(s, Request)' <=> Holds(s, Request)
  BY <1>1, <1>2, <1>3, BusySame, WhoIsWho
<1>6. /\ Asked(x)' <=> Asked(x)
      /\ Told(x)' <=> Told(x)
      /\ pc'[x] = "telling" => /\ at'[x] = 1 /\ x \in doomed /\ Request.op = "kill"
                               /\ m.op = "dead" \/ (m = Request /\ Request.a = x)
      /\ pc'[x] \in {"search", "found"} => m = Request
      /\ pc'[x] = "found" => For(Request) = x /\ Request.op # "kill"
      /\ pc'[x] = "search" => For(Request) # x /\ at'[x] = 0
      /\ pc'[x] \in {"telling", "search", "found"}
  <2>1. CASE m = Request
    <3>1. Asked(x) /\ ~Told(x)
      BY <1>a, <1>b, <2>1 DEF Asked, PathInv
    <3>2. Asked(x)' /\ ~Told(x)'
      BY <1>1, <1>c, <1>e, <2>1 DEF Asked, Told, Ending
    <3>3. Request.op = "kill" /\ Request.a = x => x \in doomed
      <4>1. x \in Subtree(Request.a) \/ x # Request.a
        BY <1>1 DEF Subtree, Alive
      <4> QED BY <1>a, <4>1 DEF KillInv
    <3>4. MustDie(x, m) <=> Request.op = "kill" /\ Request.a = x
      BY <1>c, <2>1 DEF MustDie
    <3> QED BY <1>1, <2>1, <3>1, <3>2, <3>3, <3>4 DEF For
  <2>2. CASE m = Dead
    <3>1. Told(x) /\ ~Asked(x)
      BY <1>a, <1>b, <2>2 DEF Told, PathInv
    <3>2. MustDie(x, m)
      BY <1>c, <2>2 DEF MustDie
    <3>3. Told(x)' /\ ~Asked(x)'
      BY <1>1, <1>2, <1>c, <1>d, <1>e, <2>2, <3>2 DEF Asked, Told, Ending
    <3>4. x \in doomed /\ Request.op = "kill"
      BY <1>a, <3>1 DEF KillInv
    <3> QED BY <1>1, <1>c, <2>2, <3>1, <3>2, <3>3, <3>4
  <2> QED BY <2>1, <2>2
<1>7. \A p \in Processes : p # x =>
        /\ \A s : AsksToward(p, s)' <=> AsksToward(p, s)
        /\ Kills(p)' <=> Kills(p)
  BY <1>a, <1>1, <1>2, <1>4, AskSame
<1>8. ~Kills(x) /\ \A s : ~AsksToward(x, s) /\ ~AsksToward(x, s)'
  BY <1>1, <1>6 DEF Kills, AsksToward, Ending
<1>9. \A s \in Services : \A p \in above[s] : p \in Processes
  BY <1>a, Typed, WhoIsWho
<1>f. \A s \in Services : x \in above[s] => ~Asked(s) /\ ~Told(s)
  BY <1>a, <1>1, <1>8, NobodyBelow
<1>10. TreeInv'
  BY <1>a, <1>4, TreeSame
<1>11. ConnInv'
  BY <1>a, <1>1, <1>2, <1>4, ConnSame DEF Ending, Gone
<1>12. LoopInv'
  <2>1. Len(kids[x]) \in Nat
    BY <1>a, <1>1, Typed
  <2> QED BY <1>a, <1>1, <1>2, <1>6, <2>1 DEF LoopInv, Ending
<1>13. PipeInv'
  BY <1>a, <1>d, <1>e, <1>1, <1>2, <1>3, <1>5, WhoIsWho DEF PipeInv, Gone
<1>14. PathInv'
  BY <1>a, <1>2, <1>5, <1>6, <1>7, <1>8, <1>9, PathSame
<1>15. TurnInv'
  BY <1>a, <1>f, <1>1, <1>2, <1>4, <1>5, <1>6, <1>7, <1>8, Typed, WhoIsWho, TurnSame DEF Gone
<1>16. RequestInv'
  <2>1. For(Request)' = For(Request)
    BY <1>3 DEF For
  <2> QED BY <1>a, <1>1, <1>2, <1>3, <1>6, <2>1, WhoIsWho DEF RequestInv, Ending
<1>17. SpawnInv'
  <2> SUFFICES ASSUME Request.op = "spawn", Born(Request.b)'
               PROVE  \A p \in Processes :
                         /\ pc'[p] # "found"
                         /\ p \in Services /\ Holds(p, Request)' => p \notin Line(Request.a)'
                         /\ pc'[p] \in {"search", "asking"} =>
                              \A k \in DOMAIN kids'[p] : k > at'[p] =>
                                Child(p, k)' \notin Line(Request.a)'
    BY <1>a, <1>2, <1>3 DEF SpawnInv
  <2>1. Born(Request.b)
    <3>1. Request.b \in Processes
      BY <1>a, WhoIsWho DEF SpawnInv
    <3> QED BY <1>1, <1>3, <3>1 DEF Born
  <2>2. \A p \in Processes :
          /\ pc[p] # "found"
          /\ p \in Services /\ Holds(p, Request) => p \notin Line(Request.a)
          /\ pc[p] \in {"search", "asking"} =>
               \A k \in DOMAIN kids[p] : k > at[p] => Child(p, k) \notin Line(Request.a)
    BY <1>a, <2>1 DEF SpawnInv
  <2>3. Line(Request.a)' = Line(Request.a)
    BY <1>2, <1>3 DEF Line
  <2>4. \A p \in Processes : \A k \in DOMAIN kids[p] : Child(p, k)' = Child(p, k)
    BY <1>2 DEF Child
  <2>5. pc'[x] # "telling"
    BY <1>6
  <2>6. x \notin Line(Request.a)
    BY <1>1, <1>b, <1>6, <2>2, <2>5
  <2>7. pc'[x] # "found"
    BY <1>6, <2>6 DEF For, Line
  <2>8. \A k \in DOMAIN kids[x] : Child(x, k) \notin Line(Request.a)
    <3>1. Request.a \in Processes
      BY <1>a, Typed DEF Messages
    <3> QED BY <1>a, <1>1, <2>6, <3>1, ChildOnLine DEF Line
  <2>9. ASSUME NEW p \in Processes
        PROVE  /\ pc'[p] # "found"
               /\ p \in Services /\ Holds(p, Request)' => p \notin Line(Request.a)
               /\ pc'[p] \in {"search", "asking"} =>
                    \A k \in DOMAIN kids[p] : k > at'[p] => Child(p, k) \notin Line(Request.a)
    <3>1. CASE p = x
      BY <1>e, <2>7, <2>8, <3>1
    <3>2. CASE p # x
      BY <1>1, <1>5, <2>2, <3>2
    <3> QED BY <3>1, <3>2
  <2> QED BY <1>2, <2>3, <2>4, <2>9
<1>18. KillInv'
  <2>2. said.op # "none" => pc'[Manager] = pc[Manager]
    BY <1>1, WhoIsWho
  <2>3. \A p \in Processes : pc[p] \in Gone => pc'[p] \in Gone
    BY <1>1 DEF Gone
  <2>4. \A s \in Services : pc'[s] \in Ending \/ Told(s)' =>
          pc[s] \in Ending \/ Told(s) \/ (s \in doomed /\ Request.op = "kill")
    BY <1>1, <1>5, <1>6, WhoIsWho DEF Ending
  <2> QED BY <1>a, <1>2, <1>3, <1>4, <2>2, <2>3, <2>4, KillSame
<1>19. ReapInv'
  BY <1>a, <1>1, <1>2, <1>4, <1>6, <1>7, <1>8, WhoIsWho, ReapSame DEF Gone, Kills, Ending
<1> QED BY <1>10, <1>11, <1>12, <1>13, <1>14, <1>15, <1>16, <1>17, <1>18, <1>19 DEF IInv

(* The request goes down to the next child.                                *)
LEMMA AskKeeps ==
  ASSUME IInv, NEW x \in Processes, pc[x] = "search", Ask(x), Types'
  PROVE  IInv'
<1>a. Types /\ TreeInv /\ ConnInv /\ LoopInv /\ PipeInv /\ PathInv /\ TurnInv
      /\ RequestInv /\ SpawnInv /\ KillInv /\ ReapInv
  BY DEF IInv
<1>b. PICK k \in DOMAIN kids[x] :
        /\ k = Min(ToAsk(x, at[x])) /\ k > at[x] /\ ~kids[x][k].killed
        /\ Peer(x, k) = Child(x, k)
        /\ Quiet(Child(x, k)) /\ up[Child(x, k)] = << >>
        /\ pc[Child(x, k)] \in {"naming", "idle"}
        /\ ~Asked(Child(x, k)) /\ ~Told(Child(x, k))
  <2> DEFINE k == Min(ToAsk(x, at[x]))
             c == Child(x, k)
  <2>1. ToAsk(x, at[x]) # {} /\ k = Min(ToAsk(x, at[x])) /\ c = Child(x, k)
    BY DEF Ask
  <2> HIDE DEF k, c
  <2>2. /\ k \in DOMAIN kids[x] /\ k > at[x] /\ ~kids[x][k].killed
        /\ Peer(x, k) = c
        /\ Quiet(c) /\ up[c] = << >> /\ pc[c] \in {"naming", "idle"}
        /\ ~Asked(c) /\ ~Told(c)
    BY <1>a, <2>1, NextChild
  <2> QED BY <2>1, <2>2
<1>c. PICK c \in Services : c = Child(x, k)
  BY <1>a, Typed
<1>d. /\ c \in Processes /\ c # x /\ c # Manager /\ above[c] = above[x] \union {x}
      /\ Line(x) = above[c]
      /\ Quiet(c) /\ up[c] = << >> /\ pc[c] \in {"naming", "idle"} /\ ~Asked(c) /\ ~Told(c)
  BY <1>a, <1>b, <1>c, ChildFacts
<1>e. Request # Dead /\ Request # Name /\ msg[x] = Request
  BY <1>a, RequestIsNoName, SearchOp
<1>f. k \in Nat /\ at[x] \in Nat
  BY <1>a, <1>b, Typed
<1>1. /\ pc'[x] = "asking" /\ at'[x] = k
      /\ \A q \in Processes : q # x => pc'[q] = pc[q] /\ at'[q] = at[q]
      /\ down'[c] = Append(down[c], Request)
      /\ \A q \in Services : q # c => down'[q] = down[q]
  <2>1. /\ at' = [at EXCEPT ![x] = k]
        /\ pc' = [pc EXCEPT ![x] = "asking"]
        /\ down' = [down EXCEPT ![c] = Append(@, Request)]
    BY <1>b, <1>c, <1>e DEF Ask
  <2> QED BY <1>a, <2>1 DEF Types
<1>2. UNCHANGED <<msg, kids, conn, above, up, reaped, doomed, said, commands>>
  BY DEF Ask, tree, user
<1>3. Request' = Request
  BY <1>2 DEF Request
<1>4. SameTree
  BY <1>1, <1>2 DEF SameTree
<1>g. /\ pc[c] = "naming" => down'[c] = <<Name, Request>>
      /\ pc[c] = "idle" => down'[c] = <<Request>>
  <2>1. CASE pc[c] = "naming"
    <3>1. down[c] = <<Name>>
      BY <1>d, <2>1 DEF Quiet
    <3> QED BY <1>1, <2>1, <3>1, Pipes
  <2>2. CASE pc[c] = "idle"
    <3>1. down[c] = << >>
      BY <1>d, <2>2 DEF Quiet
    <3> QED BY <1>1, <2>2, <3>1, Pipes
  <2> QED BY <2>1, <2>2
<1>h. Holds(c, Request)' /\ ~Holds(c, Dead)'
  <2>1. pc[c] = "naming" \/ pc[c] = "idle"
    BY <1>d
  <2>2. down'[c] = <<Name, Request>> \/ down'[c] = <<Request>>
    BY <1>g, <2>1
  <2> QED BY <1>3, <1>e, <2>2, Pipes DEF Holds
<1>5. \A s \in Services : s # x /\ s # c =>
        /\ Asked(s)' <=> Asked(s)
        /\ Told(s)' <=> Told(s)
        /\ Quiet(s)' <=> Quiet(s)
        /\ Holds(s, Request)' <=> Holds(s, Request)
  BY <1>1, <1>2, <1>3, BusySame, WhoIsWho
<1>6. /\ Asked(c)' /\ ~Told(c)'
      /\ x \in Services =>
           /\ Asked(x) /\ Asked(x)' /\ ~Told(x) /\ ~Told(x)' /\ (Quiet(x)' <=> Quiet(x))
           /\ Holds(x, Request)' <=> Holds(x, Request)
  <2>1. Asked(c)' /\ ~Told(c)'
    BY <1>d, <1>h, <1>1 DEF Asked, Told, Ending
  <2>2. ASSUME x \in Services
        PROVE  /\ Asked(x) /\ Asked(x)' /\ ~Told(x) /\ ~Told(x)' /\ (Quiet(x)' <=> Quiet(x))
               /\ Holds(x, Request)' <=> Holds(x, Request)
    <3>1. Asked(x) /\ ~Told(x)
      BY <1>a, <2>2 DEF Asked, PathInv
    <3>2. down'[x] = down[x]
      BY <1>d, <1>1, <2>2
    <3> QED BY <1>1, <1>2, <1>3, <3>1, <3>2 DEF Asked, Told, Quiet, Holds, Ending
  <2> QED BY <2>1, <2>2
<1>7. \A p \in Processes : p # x =>
        /\ \A s : AsksToward(p, s)' <=> AsksToward(p, s)
        /\ Kills(p)' <=> Kills(p)
  BY <1>a, <1>1, <1>2, <1>4, AskSame
<1>8. ~Kills(x) /\ ~Kills(x)' /\ \A s : ~AsksToward(x, s)
  BY <1>1 DEF Kills, AsksToward, Ending
<1>9. \A s \in Services : \A p \in above[s] : p \in Processes
  BY <1>a, Typed, WhoIsWho
<1>10. TreeInv'
  BY <1>a, <1>4, TreeSame
<1>11. ConnInv'
  BY <1>a, <1>1, <1>2, <1>4, ConnSame DEF Ending, Gone
<1>12. LoopInv'
  BY <1>a, <1>b, <1>f, <1>1, <1>2, Typed DEF LoopInv, Ending
<1>13. PipeInv'
  <2>1. ASSUME NEW s \in Services
        PROVE  /\ \/ Quiet(s)'
                  \/ /\ pc'[s] = "naming"
                     /\ down'[s] = <<Name, Request>> \/ down'[s] = <<Name, Dead>>
                  \/ /\ pc'[s] = "idle"
                     /\ down'[s] = <<Request>> \/ down'[s] = <<Dead>>
               /\ up'[s] # << >> =>
                    /\ pc'[s] \in {"idle", "leaving", "exited"} /\ down'[s] = << >>
                    /\ \E r \in {"yes", "yesn", "not"} : up'[s] = <<r>>
                    /\ pc'[s] \in Gone => up'[s] = <<"yesn">>
    <3>1. CASE s = c
      BY <1>d, <1>g, <1>1, <1>2, <3>1
    <3>2. CASE s = x /\ s # c
      <4>1. up[x] = << >> /\ Quiet(x)
        BY <1>a, <3>2 DEF PipeInv
      <4> QED BY <1>2, <1>6, <3>2, <4>1
    <3>3. CASE s # x /\ s # c
      <4>1. pc'[s] = pc[s] /\ down'[s] = down[s] /\ up'[s] = up[s]
        BY <1>1, <1>2, <3>3, WhoIsWho
      <4> QED BY <1>a, <1>5, <3>3, <4>1 DEF PipeInv
    <3> QED BY <3>1, <3>2, <3>3
  <2> QED BY <1>3, <2>1 DEF PipeInv
<1>14. PathInv'
  <2> SUFFICES ASSUME NEW s \in Services
               PROVE  /\ Asked(s)' => \A p \in above[s] : AsksToward(p, s)'
                      /\ Told(s)'  => \A p \in above[s] : AsksToward(p, s)' \/ Kills(p)'
                      /\ ~(Asked(s)' /\ Told(s)')
    BY <1>2 DEF PathInv
  <2>1. CASE s = c
    <3>1. AsksToward(x, c)'
      BY <1>b, <1>c, <1>1, <1>2 DEF AsksToward, Child, Line
    <3>2. ASSUME NEW p \in above[x]
          PROVE  AsksToward(p, c)'
      <4>1. x \in Services
        BY <1>a, <3>2, WhoIsWho DEF TreeInv
      <4>2. AsksToward(p, x) /\ p \in Processes
        BY <1>a, <1>6, <1>9, <3>2, <4>1 DEF PathInv
      <4>3. AsksToward(p, c)
        BY <1>d, <4>2 DEF AsksToward, Line
      <4>4. p # x
        BY <1>a, <3>2 DEF TreeInv
      <4> QED BY <1>7, <4>2, <4>3, <4>4
    <3> QED BY <1>d, <1>6, <2>1, <3>1, <3>2
  <2>2. CASE s # c
    <3>1. (Asked(s)' <=> Asked(s)) /\ (Told(s)' <=> Told(s))
      BY <1>5, <1>6, <2>2
    <3>2. Asked(s) \/ Told(s) => x \notin above[s]
      BY <1>a, <1>8 DEF PathInv
    <3>3. \A p \in above[s] : p # x =>
            (AsksToward(p, s)' <=> AsksToward(p, s)) /\ (Kills(p)' <=> Kills(p))
      BY <1>7, <1>9
    <3>4. /\ Asked(s) => \A p \in above[s] : AsksToward(p, s)
          /\ Told(s)  => \A p \in above[s] : AsksToward(p, s) \/ Kills(p)
          /\ ~(Asked(s) /\ Told(s))
      BY <1>a DEF PathInv
    <3> QED BY <3>1, <3>2, <3>3, <3>4
  <2> QED BY <2>1, <2>2
<1>15. TurnInv'
  <2>1. ASSUME NEW p \in Processes, NEW fd \in Fds, conn'[p][fd] # Closed
        PROVE  /\ Kills(p)' => ~Asked(conn[p][fd])' /\ ~Told(conn[p][fd])'
               /\ pc'[conn'[p][fd]] \in Gone => up'[conn'[p][fd]] # << >>
    <3>1. PICK s \in Services : s = conn[p][fd] /\ conn'[p][fd] = s /\ s # Closed
      BY <1>a, <1>2, <2>1, Typed
    <3>2. /\ Kills(p) => ~Asked(s) /\ ~Told(s)
          /\ pc[s] \in Gone => up[s] # << >>
      BY <1>a, <3>1 DEF TurnInv
    <3>3. /\ Asked(conn[p][fd])' <=> Asked(s)'
          /\ Told(conn[p][fd])' <=> Told(s)'
      BY <3>1 DEF Asked, Told, Holds
    <3>4. s = c => p = x
      <4>1. PICK j \in DOMAIN kids[p] : s = Child(p, j)
        BY <1>a, <3>1, OpenLeadsTo
      <4> QED BY <1>a, <1>b, <1>c, <4>1, OneParent
    <3>5. pc'[s] \in Gone => pc[s] \in Gone
      BY <1>1, WhoIsWho DEF Gone
    <3>6. Kills(p)' => Kills(p) /\ p # x
      BY <1>7, <1>8
    <3>7. s # c => (Asked(s)' <=> Asked(s)) /\ (Told(s)' <=> Told(s))
      BY <1>5, <1>6
    <3> QED BY <1>2, <3>1, <3>2, <3>3, <3>4, <3>5, <3>6, <3>7
  <2>2. ASSUME NEW p \in Processes, NEW j \in DOMAIN kids'[p], Told(Child(p, j))'
        PROVE  Kills(p)'
    <3>1. PICK s \in Services : j \in DOMAIN kids[p] /\ Child(p, j)' = s /\ Child(p, j) = s
      BY <1>a, <1>2, <2>2, Typed DEF Child
    <3>2. Told(s)'
      BY <2>2, <3>1 DEF Told, Holds
    <3>3. Told(s)
      BY <1>5, <1>6, <3>2
    <3>4. Kills(p)
      BY <1>a, <3>1, <3>3 DEF TurnInv
    <3> QED BY <1>7, <1>8, <3>4
  <2> QED BY <2>1, <2>2 DEF TurnInv
<1>16. RequestInv'
  <2>1. For(Request)' = For(Request)
    BY <1>3 DEF For
  <2> QED BY <1>a, <1>1, <1>2, <1>3, <2>1, WhoIsWho DEF RequestInv, Ending
<1>17. SpawnInv'
  <2> SUFFICES ASSUME Request.op = "spawn", Born(Request.b)'
               PROVE  \A p \in Processes :
                         /\ pc'[p] # "found"
                         /\ p \in Services /\ Holds(p, Request)' => p \notin Line(Request.a)'
                         /\ pc'[p] \in {"search", "asking"} =>
                              \A j \in DOMAIN kids'[p] : j > at'[p] =>
                                Child(p, j)' \notin Line(Request.a)'
    BY <1>a, <1>2, <1>3 DEF SpawnInv
  <2>1. Born(Request.b)
    <3>1. Request.b \in Processes
      BY <1>a, WhoIsWho DEF SpawnInv
    <3> QED BY <1>1, <1>3, <3>1 DEF Born
  <2>2. \A p \in Processes :
          /\ pc[p] # "found"
          /\ p \in Services /\ Holds(p, Request) => p \notin Line(Request.a)
          /\ pc[p] \in {"search", "asking"} =>
               \A j \in DOMAIN kids[p] : j > at[p] => Child(p, j) \notin Line(Request.a)
    BY <1>a, <2>1 DEF SpawnInv
  <2>3. Line(Request.a)' = Line(Request.a)
    BY <1>2, <1>3 DEF Line
  <2>4. \A p \in Processes : \A j \in DOMAIN kids[p] : Child(p, j)' = Child(p, j)
    BY <1>2 DEF Child
  <2>5. c \notin Line(Request.a)
    BY <1>b, <1>c, <2>2
  <2>6. \A j \in DOMAIN kids[x] : j > k => j > at[x]
    BY <1>a, <1>b, <1>f, Typed
  <2>7. ASSUME NEW p \in Processes
        PROVE  /\ pc'[p] # "found"
               /\ p \in Services /\ Holds(p, Request)' => p \notin Line(Request.a)
               /\ pc'[p] \in {"search", "asking"} =>
                    \A j \in DOMAIN kids[p] : j > at'[p] => Child(p, j) \notin Line(Request.a)
    <3>1. CASE p = x
      BY <1>1, <1>6, <2>2, <2>6, <3>1
    <3>2. CASE p = c
      BY <1>d, <1>1, <2>2, <2>5, <3>2
    <3>3. CASE p # x /\ p # c
      BY <1>1, <1>5, <2>2, <3>3
    <3> QED BY <3>1, <3>2, <3>3
  <2> QED BY <1>2, <2>3, <2>4, <2>7
<1>18. KillInv'
  <2>1. said.op # "none" => x # Manager
    BY <1>a DEF KillInv
  <2>2. said.op # "none" => pc'[Manager] = pc[Manager]
    BY <1>1, <2>1, WhoIsWho
  <2>3. \A p \in Processes : pc[p] \in Gone => pc'[p] \in Gone
    BY <1>1 DEF Gone
  <2>4. \A s \in Services : pc'[s] \in Ending \/ Told(s)' => pc[s] \in Ending \/ Told(s)
    BY <1>1, <1>5, <1>6, WhoIsWho DEF Ending
  <2> QED BY <1>a, <1>2, <1>3, <1>4, <2>2, <2>3, <2>4, KillSame
<1>19. ReapInv'
  BY <1>a, <1>1, <1>2, <1>4, <1>7, <1>8, WhoIsWho, ReapSame DEF Gone
<1> QED BY <1>10, <1>11, <1>12, <1>13, <1>14, <1>15, <1>16, <1>17, <1>18, <1>19 DEF IInv

(* The Manager passes over a child that is marked killed, or the word to   *)
(* die is lost since the pipe is closed.                                   *)
LEMMA TellNobodyKeeps ==
  ASSUME IInv, NEW x \in Processes, pc[x] = "telling", at[x] <= Len(kids[x]),
         \/ x = Manager /\ kids[x][at[x]].killed /\ at' = [at EXCEPT ![x] = @ + 1] /\ pc' = pc
         \/ at' = at /\ pc' = [pc EXCEPT ![x] = "waiting"],
         UNCHANGED <<msg, kids, conn, above, down, up, reaped, user>>, Types'
  PROVE  IInv'
<1>a. Types /\ TreeInv /\ ConnInv /\ LoopInv /\ PipeInv /\ PathInv /\ TurnInv
      /\ RequestInv /\ SpawnInv /\ KillInv /\ ReapInv
  BY DEF IInv
<1>b. /\ at[x] \in Nat /\ Len(kids[x]) \in Nat /\ DOMAIN kids[x] = 1..Len(kids[x])
      /\ at[x] > 0 /\ at[x] \in DOMAIN kids[x]
  <2>1. /\ at[x] \in Nat /\ Len(kids[x]) \in Nat /\ DOMAIN kids[x] = 1..Len(kids[x])
    BY <1>a, Typed
  <2>2. at[x] > 0
    BY <1>a DEF LoopInv, Ending
  <2> QED BY <2>1, <2>2
<1>1. /\ \/ pc'[x] = "telling" /\ at'[x] = at[x] + 1 /\ x = Manager /\ kids[x][at[x]].killed
         \/ pc'[x] = "waiting" /\ at'[x] = at[x]
      /\ \A q \in Processes : q # x => pc'[q] = pc[q] /\ at'[q] = at[q]
  BY <1>a DEF Types
<1>2. UNCHANGED <<msg, kids, conn, above, down, up, reaped, doomed, said, commands>>
  BY DEF user
<1>3. Request' = Request
  BY <1>2 DEF Request
<1>4. SameTree
  BY <1>1, <1>2 DEF SameTree
<1>5. \A s \in Services :
        /\ Asked(s)' <=> Asked(s)
        /\ Told(s)' <=> Told(s)
        /\ Quiet(s)' <=> Quiet(s)
  <2> SUFFICES ASSUME NEW s \in Services
               PROVE  /\ Asked(s)' <=> Asked(s)
                      /\ Told(s)' <=> Told(s)
                      /\ Quiet(s)' <=> Quiet(s)
    OBVIOUS
  <2>1. CASE s # x
    BY <1>1, <1>2, <1>3, <2>1, BusySame, WhoIsWho
  <2>2. CASE s = x
    BY <1>1, <1>2, <1>3, <2>2 DEF Asked, Told, Quiet, Holds, Ending
  <2> QED BY <2>1, <2>2
<1>7. \A p \in Processes :
        /\ \A s : AsksToward(p, s)' <=> AsksToward(p, s)
        /\ Kills(p)' <=> Kills(p)
  <2>1. \A p \in Processes : p # x =>
          /\ \A s : AsksToward(p, s)' <=> AsksToward(p, s)
          /\ Kills(p)' <=> Kills(p)
    BY <1>a, <1>1, <1>2, <1>4, AskSame
  <2>2. Kills(x) /\ Kills(x)' /\ \A s : ~AsksToward(x, s) /\ ~AsksToward(x, s)'
    BY <1>1 DEF Kills, AsksToward, Ending
  <2> QED BY <2>1, <2>2
<1>9. \A s \in Services : \A p \in above[s] : p \in Processes
  BY <1>a, Typed, WhoIsWho
<1>10. TreeInv'
  BY <1>a, <1>4, TreeSame
<1>11. ConnInv'
  BY <1>a, <1>1, <1>2, <1>4, ConnSame DEF Ending, Gone
<1>12. LoopInv'
  BY <1>a, <1>b, <1>1, <1>2 DEF LoopInv, Ending
<1>13. PipeInv'
  BY <1>a, <1>1, <1>2, <1>3, <1>5, WhoIsWho DEF PipeInv, Gone
<1>14. PathInv'
  BY <1>a, <1>2, <1>5, <1>7, <1>9, PathSame
<1>15. TurnInv'
  BY <1>a, <1>1, <1>2, <1>4, <1>5, <1>7, Typed, WhoIsWho, TurnSame DEF Gone
<1>16. RequestInv'
  BY <1>a, <1>1, <1>2, <1>3, WhoIsWho DEF RequestInv, Ending
<1>17. SpawnInv'
  BY <1>a, <1>1, <1>2, <1>3, <1>4, SpawnSame DEF Holds
<1>18. KillInv'
  <2>1. said.op # "none" => x # Manager
    BY <1>a DEF KillInv
  <2>2. said.op # "none" => pc'[Manager] = pc[Manager]
    BY <1>1, <2>1, WhoIsWho
  <2> QED BY <1>a, <1>1, <1>2, <1>3, <1>4, <1>5, <2>2, WhoIsWho, KillSame DEF Ending, Gone
<1>19. ReapInv'
  <2>1. \A s \in reaped' : pc'[s] = "exited"
    BY <1>a, <1>1, <1>2, WhoIsWho DEF ReapInv, Types
  <2>2. \A p \in Processes : Kills(p)' =>
          \/ at'[p] - 1 <= Cardinality(Waited(p))'
          \/ p = Manager /\ \E k \in DOMAIN kids'[p] : kids'[p][k].killed
    <3> SUFFICES ASSUME NEW p \in Processes, Kills(p)'
                 PROVE  \/ at'[p] - 1 <= Cardinality(Waited(p))'
                        \/ p = Manager /\ \E k \in DOMAIN kids'[p] : kids'[p][k].killed
      OBVIOUS
    <3>1. Waited(p)' = Waited(p) /\ Kills(p)
      BY <1>a, <1>2, <1>4, <1>7, WaitedSame
    <3>2. \/ at[p] - 1 <= Cardinality(Waited(p))
          \/ p = Manager /\ \E k \in DOMAIN kids[p] : kids[p][k].killed
      BY <1>a, <3>1 DEF ReapInv
    <3> QED BY <1>b, <1>1, <1>2, <3>1, <3>2
  <2>3. \A s \in Services : \A p \in above'[s] :
          p # Manager /\ pc'[p] \in Gone => pc'[s] = "exited"
    <3> SUFFICES ASSUME NEW s \in Services, NEW p \in above'[s], p # Manager, pc'[p] \in Gone
                 PROVE  pc'[s] = "exited"
      OBVIOUS
    <3>1. p \in above[s] /\ p \in Processes /\ s \in Processes
      BY <1>2, <1>9, WhoIsWho
    <3>2. pc[p] \in Gone
      BY <1>1, <3>1 DEF Gone
    <3>3. pc[s] = "exited"
      BY <1>a, <3>1, <3>2 DEF ReapInv
    <3> QED BY <1>1, <3>1, <3>3
  <2>4. pc'[Manager] = "exited" => at'[Manager] > Len(kids'[Manager])
    BY <1>a, <1>1, <1>2, WhoIsWho DEF ReapInv
  <2> HIDE DEF Gone
  <2> QED BY <2>1, <2>2, <2>3, <2>4 DEF ReapInv
<1> QED BY <1>10, <1>11, <1>12, <1>13, <1>14, <1>15, <1>16, <1>17, <1>18, <1>19 DEF IInv

(* A process tells the child that a pair of descriptors leads to, and      *)
(* closes the pair.                                                        *)
TellsChild(x, f, c) ==
  /\ down' = [down EXCEPT ![c] = Append(@, Dead)]
  /\ conn' = [conn EXCEPT ![x][f] = Closed]
  /\ pc' = [pc EXCEPT ![x] = "waiting"]

LEMMA TellChildKeeps ==
  ASSUME IInv, NEW x \in Processes, pc[x] = "telling", at[x] <= Len(kids[x]),
         NEW f \in Fds, NEW c \in Services, c = conn[x][f], TellsChild(x, f, c),
         UNCHANGED <<msg, at, kids, above, up, reaped, user>>, Types'
  PROVE  IInv'
<1>a. Types /\ TreeInv /\ ConnInv /\ LoopInv /\ PipeInv /\ PathInv /\ TurnInv
      /\ RequestInv /\ SpawnInv /\ KillInv /\ ReapInv
  BY DEF IInv
<1>b. Kills(x)
  BY DEF Kills, Ending
<1>c. c = conn[x][f] /\ c # Closed /\ conn[x][f] # Closed
  BY <1>a, WhoIsWho
<1>d. /\ c \in Processes /\ c # x /\ c # Manager /\ above[c] = above[x] \union {x}
      /\ Line(x) = above[c]
      /\ Quiet(c) /\ up[c] = << >> /\ pc[c] \in {"naming", "idle"} /\ ~Asked(c) /\ ~Told(c)
  BY <1>a, <1>b, <1>c, ToldChild, WhoIsWho
<1>e. Request # Dead /\ Request # Name
  BY <1>a, RequestIsNoName
<1>1. /\ pc'[x] = "waiting"
      /\ \A q \in Processes : q # x => pc'[q] = pc[q]
      /\ down'[c] = Append(down[c], Dead)
      /\ \A q \in Services : q # c => down'[q] = down[q]
      /\ \A p \in Processes : \A g \in Fds :
           conn'[p][g] = IF p = x /\ g = f THEN Closed ELSE conn[p][g]
  BY <1>a DEF Types, TellsChild
<1>2. UNCHANGED <<msg, at, kids, above, up, reaped, doomed, said, commands>>
  BY DEF user
<1>3. Request' = Request
  BY <1>2 DEF Request
<1>4. SameTree
  BY <1>1, <1>2 DEF SameTree
<1>g. /\ pc[c] = "naming" => down'[c] = <<Name, Dead>>
      /\ pc[c] = "idle" => down'[c] = <<Dead>>
  <2>1. CASE pc[c] = "naming"
    <3>1. down[c] = <<Name>>
      BY <1>d, <2>1 DEF Quiet
    <3> QED BY <1>1, <2>1, <3>1, Pipes
  <2>2. CASE pc[c] = "idle"
    <3>1. down[c] = << >>
      BY <1>d, <2>2 DEF Quiet
    <3> QED BY <1>1, <2>2, <3>1, Pipes
  <2> QED BY <2>1, <2>2
<1>h. ~Holds(c, Request)' /\ Holds(c, Dead)'
  <2>1. pc[c] = "naming" \/ pc[c] = "idle"
    BY <1>d
  <2>2. down'[c] = <<Name, Dead>> \/ down'[c] = <<Dead>>
    BY <1>g, <2>1
  <2>3. Holds(c, Dead)'
    BY <2>2 DEF Holds
  <2>4. ~Holds(c, Request)'
    <3>1. <<Name, Dead>> # <<Request>> /\ <<Dead>> # <<Name, Request>>
      BY Pipes
    <3>2. <<Name, Dead>> # <<Name, Request>> /\ <<Dead>> # <<Request>>
      BY <1>e, Pipes
    <3> QED BY <1>3, <2>2, <3>1, <3>2 DEF Holds
  <2> QED BY <2>3, <2>4
<1>5. \A s \in Services : s # c =>
        /\ Asked(s)' <=> Asked(s)
        /\ Told(s)' <=> Told(s)
        /\ Quiet(s)' <=> Quiet(s)
        /\ Holds(s, Request)' <=> Holds(s, Request)
  <2> SUFFICES ASSUME NEW s \in Services, s # c
               PROVE  /\ Asked(s)' <=> Asked(s)
                      /\ Told(s)' <=> Told(s)
                      /\ Quiet(s)' <=> Quiet(s)
                      /\ Holds(s, Request)' <=> Holds(s, Request)
    OBVIOUS
  <2>1. CASE s # x
    BY <1>1, <1>2, <1>3, <2>1, BusySame, WhoIsWho
  <2>2. CASE s = x
    <3>1. down'[x] = down[x] /\ pc[x] = "telling"
      BY <1>1, <2>2
    <3> QED BY <1>1, <1>2, <1>3, <2>2, <3>1 DEF Asked, Told, Quiet, Holds, Ending
  <2> QED BY <2>1, <2>2
<1>6. ~Asked(c)' /\ Told(c)'
  <2>1. pc'[c] = pc[c] /\ up'[c] = << >>
    BY <1>d, <1>1, <1>2
  <2>2. Told(c)'
    BY <1>h DEF Told
  <2>3. ~Asked(c)'
    BY <1>d, <1>h, <2>1 DEF Asked, Ending
  <2> QED BY <2>2, <2>3
<1>7. \A p \in Processes :
        /\ \A s : AsksToward(p, s)' <=> AsksToward(p, s)
        /\ Kills(p)' <=> Kills(p)
  <2>1. \A p \in Processes : p # x =>
          /\ \A s : AsksToward(p, s)' <=> AsksToward(p, s)
          /\ Kills(p)' <=> Kills(p)
    BY <1>a, <1>1, <1>2, <1>4, AskSame
  <2>2. Kills(x) /\ Kills(x)' /\ \A s : ~AsksToward(x, s) /\ ~AsksToward(x, s)'
    BY <1>1 DEF Kills, AsksToward, Ending
  <2> QED BY <2>1, <2>2
<1>9. \A s \in Services : \A p \in above[s] : p \in Processes
  BY <1>a, Typed, WhoIsWho
<1>10. TreeInv'
  BY <1>a, <1>4, TreeSame
<1>11. ConnInv'
  <2>1. ASSUME NEW p \in Processes, NEW g \in Fds, conn'[p][g] # Closed
        PROVE  \E k \in DOMAIN kids'[p] :
                 conn'[p][g] = Child(p, k)' /\ kids'[p][k].fd = g /\ ~kids'[p][k].killed
    <3>1. conn'[p][g] = conn[p][g] /\ conn[p][g] # Closed
      BY <1>1, <2>1
    <3> QED BY <1>a, <1>2, <3>1 DEF ConnInv, Child
  <2>2. ASSUME NEW p \in Processes, NEW k \in DOMAIN kids'[p], ~kids'[p][k].killed,
               pc'[p] \notin Ending \union Gone
        PROVE  Peer(p, k)' = Child(p, k)'
    <3>1. p # x
      BY <1>1, <2>2 DEF Ending
    <3>2. Peer(p, k) = Child(p, k) /\ kids[p][k].fd \in Fds
      BY <1>a, <1>1, <1>2, <2>2, <3>1, Typed DEF ConnInv
    <3> QED BY <1>1, <1>2, <3>1, <3>2 DEF Peer, Child
  <2> QED BY <2>1, <2>2 DEF ConnInv
<1>12. LoopInv'
  BY <1>a, <1>1, <1>2 DEF LoopInv, Ending
<1>13. PipeInv'
  <2>1. ASSUME NEW s \in Services
        PROVE  /\ \/ Quiet(s)'
                  \/ /\ pc'[s] = "naming"
                     /\ down'[s] = <<Name, Request>> \/ down'[s] = <<Name, Dead>>
                  \/ /\ pc'[s] = "idle"
                     /\ down'[s] = <<Request>> \/ down'[s] = <<Dead>>
               /\ up'[s] # << >> =>
                    /\ pc'[s] \in {"idle", "leaving", "exited"} /\ down'[s] = << >>
                    /\ \E r \in {"yes", "yesn", "not"} : up'[s] = <<r>>
                    /\ pc'[s] \in Gone => up'[s] = <<"yesn">>
    <3>1. CASE s = c
      BY <1>d, <1>g, <1>1, <1>2, <3>1
    <3>2. CASE s = x /\ s # c
      <4>1. up[x] = << >> /\ Quiet(x)
        BY <1>a, <3>2 DEF PipeInv, Gone
      <4> QED BY <1>2, <1>5, <3>2, <4>1
    <3>3. CASE s # x /\ s # c
      <4>1. pc'[s] = pc[s] /\ down'[s] = down[s] /\ up'[s] = up[s]
        BY <1>1, <1>2, <3>3, WhoIsWho
      <4> QED BY <1>a, <1>5, <3>3, <4>1 DEF PipeInv
    <3> QED BY <3>1, <3>2, <3>3
  <2> QED BY <1>3, <2>1 DEF PipeInv
<1>14. PathInv'
  <2> SUFFICES ASSUME NEW s \in Services
               PROVE  /\ Asked(s)' => \A p \in above[s] : AsksToward(p, s)'
                      /\ Told(s)'  => \A p \in above[s] : AsksToward(p, s)' \/ Kills(p)'
                      /\ ~(Asked(s)' /\ Told(s)')
    BY <1>2 DEF PathInv
  <2>1. CASE s = c
    <3>1. ASSUME NEW p \in above[x]
          PROVE  AsksToward(p, c)' \/ Kills(p)'
      <4>1. x \in Services
        BY <1>a, <3>1, WhoIsWho DEF TreeInv
      <4>2. Asked(x) \/ Told(x)
        BY DEF Asked, Told, Ending
      <4>3. (AsksToward(p, x) \/ Kills(p)) /\ p \in Processes
        BY <1>a, <1>9, <3>1, <4>1, <4>2 DEF PathInv
      <4>4. AsksToward(p, c) \/ Kills(p)
        BY <1>d, <4>3 DEF AsksToward, Line
      <4> QED BY <1>7, <4>3, <4>4
    <3> QED BY <1>b, <1>d, <1>6, <1>7, <2>1, <3>1
  <2>2. CASE s # c
    <3>1. (Asked(s)' <=> Asked(s)) /\ (Told(s)' <=> Told(s))
      BY <1>5, <2>2
    <3>2. \A p \in above[s] :
            (AsksToward(p, s)' <=> AsksToward(p, s)) /\ (Kills(p)' <=> Kills(p))
      BY <1>7, <1>9
    <3>3. /\ Asked(s) => \A p \in above[s] : AsksToward(p, s)
          /\ Told(s)  => \A p \in above[s] : AsksToward(p, s) \/ Kills(p)
          /\ ~(Asked(s) /\ Told(s))
      BY <1>a DEF PathInv
    <3> QED BY <3>1, <3>2, <3>3
  <2> QED BY <2>1, <2>2
<1>15. TurnInv'
  <2>1. ASSUME NEW p \in Processes, NEW g \in Fds, conn'[p][g] # Closed
        PROVE  /\ Kills(p)' => ~Asked(conn[p][g])' /\ ~Told(conn[p][g])'
               /\ pc'[conn'[p][g]] \in Gone => up'[conn'[p][g]] # << >>
    <3>1. PICK s \in Services : s = conn[p][g] /\ conn'[p][g] = s /\ s # Closed
      BY <1>a, <1>1, <2>1, Typed
    <3>2. /\ Kills(p) => ~Asked(s) /\ ~Told(s)
          /\ pc[s] \in Gone => up[s] # << >>
      BY <1>a, <3>1 DEF TurnInv
    <3>3. /\ Asked(conn[p][g])' <=> Asked(s)'
          /\ Told(conn[p][g])' <=> Told(s)'
      BY <3>1 DEF Asked, Told, Holds
    <3>4. s # c
      <4> SUFFICES ASSUME s = c
                   PROVE  FALSE
        OBVIOUS
      <4>1. conn[x][f] # Closed /\ conn[p][g] = conn[x][f]
        BY <1>c, <3>1
      <4>2. p = x /\ g = f
        BY <1>a, <4>1, OnePair
      <4> QED BY <1>1, <2>1, <4>2
    <3>5. pc'[s] \in Gone => pc[s] \in Gone
      BY <1>1, WhoIsWho DEF Gone
    <3> QED BY <1>2, <1>5, <1>7, <3>1, <3>2, <3>3, <3>4, <3>5
  <2>2. ASSUME NEW p \in Processes, NEW j \in DOMAIN kids'[p], Told(Child(p, j))'
        PROVE  Kills(p)'
    <3>1. PICK s \in Services : j \in DOMAIN kids[p] /\ Child(p, j)' = s /\ Child(p, j) = s
      BY <1>a, <1>2, <2>2, Typed DEF Child
    <3>2. Told(s)'
      BY <2>2, <3>1 DEF Told, Holds
    <3>3. CASE s = c
      <4>1. PICK k \in DOMAIN kids[x] : c = Child(x, k)
        BY <1>a, <1>c, OpenLeadsTo
      <4>2. p = x
        BY <1>a, <3>1, <3>3, <4>1, OneParent
      <4> QED BY <1>b, <1>7, <4>2
    <3>4. CASE s # c
      <4>1. Told(s)
        BY <1>5, <3>2, <3>4
      <4>2. Kills(p)
        BY <1>a, <3>1, <4>1 DEF TurnInv
      <4> QED BY <1>7, <4>2
    <3> QED BY <3>3, <3>4
  <2> QED BY <2>1, <2>2 DEF TurnInv
<1>16. RequestInv'
  BY <1>a, <1>1, <1>2, <1>3, WhoIsWho DEF RequestInv, Ending
<1>17. SpawnInv'
  <2>1. \A p \in Processes :
          /\ pc'[p] = "found" => pc[p] = "found"
          /\ pc'[p] \in {"search", "asking"} => pc[p] \in {"search", "asking"} /\ at'[p] = at[p]
    BY <1>1, <1>2
  <2>2. \A p \in Services : Holds(p, Request)' => Holds(p, Request)
    BY <1>5, <1>h
  <2> QED BY <1>a, <1>3, <1>4, <2>1, <2>2, SpawnSame
<1>18. KillInv'
  <2>1. said.op # "none" => x # Manager
    BY <1>a DEF KillInv
  <2>2. said.op # "none" => pc'[Manager] = pc[Manager]
    BY <1>1, <2>1, WhoIsWho
  <2>3. \A p \in Processes : pc[p] \in Gone => pc'[p] \in Gone
    BY <1>1 DEF Gone
  <2>4. c \in doomed /\ Request.op = "kill"
    <3>1. Request.op = "kill" /\ Request.a \in Line(x)
      <4>1. CASE x = Manager
        BY <1>a, <4>1 DEF RequestInv, Ending, Line
      <4>2. CASE x \in Services
        <5>1. x \in doomed /\ Request.op = "kill"
          BY <1>a, <4>2 DEF KillInv, Ending
        <5> QED BY <1>a, <5>1 DEF KillInv
      <4> QED BY <4>1, <4>2, WhoIsWho
    <3>2. c \in Subtree(Request.a)
      BY <1>d, <3>1 DEF Subtree, Alive
    <3> QED BY <1>a, <3>1, <3>2 DEF KillInv
  <2>5. \A s \in Services : pc'[s] \in Ending \/ Told(s)' =>
          pc[s] \in Ending \/ Told(s) \/ (s \in doomed /\ Request.op = "kill")
    BY <1>1, <1>5, <2>4, WhoIsWho DEF Ending
  <2> QED BY <1>a, <1>2, <1>3, <1>4, <2>2, <2>3, <2>5, KillSame
<1>19. ReapInv'
  BY <1>a, <1>1, <1>2, <1>4, <1>7, WhoIsWho, ReapSame DEF Gone
<1> QED BY <1>10, <1>11, <1>12, <1>13, <1>14, <1>15, <1>16, <1>17, <1>18, <1>19 DEF IInv

(* A step of the loop that tells the children to die.                      *)
LEMMA TellKeeps ==
  ASSUME IInv, NEW x \in Processes, NEW skip \in BOOLEAN, skip => x = Manager, Tell(x, skip), Types'
  PROVE  IInv'
<1>a. Types /\ TreeInv /\ ConnInv /\ LoopInv
  BY DEF IInv
<1>1. pc[x] = "telling" /\ at[x] <= Len(kids[x])
  BY DEF Tell
<1>2. UNCHANGED <<msg, kids, above, up, reaped, user>>
  BY DEF Tell
<1>3. at[x] \in DOMAIN kids[x] /\ kids[x][at[x]].fd \in Fds
  <2>1. at[x] > 0
    BY <1>a, <1>1 DEF LoopInv, Ending
  <2>2. at[x] \in DOMAIN kids[x]
    BY <1>a, <1>1, <2>1, Typed
  <2> QED BY <1>a, <2>2, Typed
<1>4. PICK f \in Fds : f = kids[x][at[x]].fd
  BY <1>3
<1>5. PICK c \in Services \union {Closed} : c = conn[x][f] /\ c = Peer(x, at[x])
  BY <1>a, <1>4 DEF Types, Peer
<1>6. CASE skip /\ kids[x][at[x]].killed
  <2>1. /\ x = Manager /\ at' = [at EXCEPT ![x] = @ + 1]
        /\ pc' = pc /\ conn' = conn /\ down' = down
    BY <1>6 DEF Tell
  <2> QED BY <1>1, <1>2, <1>6, <2>1, TellNobodyKeeps
<1>7. CASE ~(skip /\ kids[x][at[x]].killed)
  <2>1. /\ down' = IF c = Closed THEN down ELSE [down EXCEPT ![c] = Append(@, Dead)]
        /\ conn' = [conn EXCEPT ![x][f] = Closed]
        /\ pc' = [pc EXCEPT ![x] = "waiting"] /\ at' = at
    BY <1>4, <1>5, <1>7 DEF Tell
  <2>2. CASE c = Closed
    <3>1. down' = down
      BY <2>1, <2>2
    <3>2. conn' = conn
      <4>1. conn \in [Processes -> [Fds -> Services \union {Closed}]]
        BY <1>a DEF Types
      <4>2. \A p \in Processes : \A g \in Fds : conn'[p][g] = conn[p][g]
        BY <1>5, <2>1, <2>2, <4>1
      <4>3. conn' \in [Processes -> [Fds -> Services \union {Closed}]]
        BY DEF Types
      <4>4. \A p \in Processes : conn'[p] = conn[p]
        BY <4>1, <4>2, <4>3
      <4> QED BY <4>1, <4>3, <4>4
    <3> QED BY <1>1, <1>2, <2>1, <3>1, <3>2, TellNobodyKeeps
  <2>3. CASE c # Closed
    <3>1. c \in Services
      BY <2>3
    <3>2. TellsChild(x, f, c)
      BY <2>1, <2>3 DEF TellsChild
    <3> QED BY <1>1, <1>2, <1>5, <2>1, <3>1, <3>2, TellChildKeeps
  <2> QED BY <2>2, <2>3
<1> QED BY <1>6, <1>7


(* A process that has read an answer marks the child that gave it killed,  *)
(* or does not: the pairs that stay open lead where they did, and none to  *)
(* a child that is marked.                                                 *)
LEMMA HeardConn ==
  ASSUME Types, TreeInv, ConnInv, LoopInv, PipeInv, PathInv, NEW x \in Processes, HasAnswer(x),
         UNCHANGED <<kids, conn>> \/ MarkKilled(x), above' = above,
         \A p \in Processes : pc'[p] = "unborn" <=> pc[p] = "unborn",
         \A p \in Processes : pc'[p] \notin Ending \union Gone => pc[p] \notin Ending \union Gone
  PROVE  /\ SameTree /\ ConnInv'
         /\ \A p \in Processes : p # x => kids'[p] = kids[p]
         /\ \A p \in Processes : \A k \in DOMAIN kids[p] : kids[p][k].killed => kids'[p][k].killed
         /\ \A p \in Processes : \A g \in Fds : conn'[p][g] # Closed =>
              /\ conn'[p][g] = conn[p][g] /\ conn[p][g] \in Services
              /\ MarkKilled(x) => conn[p][g] # Child(x, at[x])
<1>1. CASE UNCHANGED <<kids, conn>> /\ ~MarkKilled(x)
  <2>1. SameTree
    BY <1>1 DEF SameTree
  <2>2. ConnInv'
    BY <1>1, <2>1, ConnSame
  <2> QED BY <1>1, <2>1, <2>2, Typed
<1>2. CASE MarkKilled(x)
  <2>1. PICK k \in DOMAIN kids[x] : k = at[x]
    BY TheAnswer
  <2>2. PICK c \in Services : c = Child(x, k)
    BY Typed
  <2>3. PICK fd \in Fds : fd = kids[x][k].fd /\ conn[x][fd] = c
    BY <2>1, <2>2, TheAnswer
  <2>4. c # Closed
    BY <2>2, WhoIsWho
  <2>5. /\ SameTree
        /\ \A q \in Processes : q # x => kids'[q] = kids[q] /\ conn'[q] = conn[q]
        /\ kids'[x][k].killed
        /\ \A j \in DOMAIN kids[x] : j # k => kids'[x][j] = kids[x][j]
        /\ \A f \in Fds : conn'[x][f] = IF f = fd THEN Closed ELSE conn[x][f]
    BY <1>2, <2>1, <2>3, Marks
  <2>6. ASSUME NEW p \in Processes, NEW g \in Fds, conn'[p][g] # Closed
        PROVE  /\ conn'[p][g] = conn[p][g] /\ conn[p][g] \in Services
               /\ conn[p][g] # c
    <3>1. conn'[p][g] = conn[p][g] /\ ~(p = x /\ g = fd)
      BY <2>5, <2>6
    <3>2. conn[p][g] \in Services
      BY <2>6, <3>1, Typed
    <3>3. conn[p][g] # c
      <4> SUFFICES ASSUME conn[p][g] = c
                   PROVE  FALSE
        OBVIOUS
      <4>1. conn[x][fd] # Closed /\ conn[p][g] = conn[x][fd]
        BY <2>3, <2>4
      <4>2. p = x /\ g = fd
        BY <4>1, OnePair
      <4> QED BY <3>1, <4>2
    <3> QED BY <3>1, <3>2, <3>3
  <2>7. ASSUME NEW p \in Processes, NEW g \in Fds, conn'[p][g] # Closed
        PROVE  \E j \in DOMAIN kids'[p] :
                 conn'[p][g] = Child(p, j)' /\ kids'[p][j].fd = g /\ ~kids'[p][j].killed
    <3>1. conn'[p][g] = conn[p][g] /\ conn[p][g] # c
      BY <2>6, <2>7
    <3>2. PICK j \in DOMAIN kids[p] :
            conn[p][g] = Child(p, j) /\ kids[p][j].fd = g /\ ~kids[p][j].killed
      BY <2>7, <3>1 DEF ConnInv
    <3>3. ~(p = x /\ j = k)
      BY <2>2, <3>1, <3>2
    <3>4. kids'[p][j] = kids[p][j] /\ j \in DOMAIN kids'[p]
      BY <2>5, <3>3 DEF SameTree
    <3> QED BY <3>1, <3>2, <3>4 DEF Child
  <2>8. ASSUME NEW p \in Processes, NEW j \in DOMAIN kids'[p], ~kids'[p][j].killed,
               pc'[p] \notin Ending \union Gone
        PROVE  Peer(p, j)' = Child(p, j)'
    <3>1. j \in DOMAIN kids[p]
      BY <2>5 DEF SameTree
    <3>2. ~(p = x /\ j = k)
      BY <2>5, <2>8
    <3>3. kids'[p][j] = kids[p][j]
      BY <2>5, <3>1, <3>2
    <3>4. Peer(p, j) = Child(p, j)
      BY <2>8, <3>1, <3>3 DEF ConnInv
    <3>5. kids[p][j].fd \in Fds
      BY <3>1, Typed
    <3>6. conn'[p][kids[p][j].fd] = conn[p][kids[p][j].fd]
      <4>1. CASE p # x
        BY <2>5, <4>1
      <4>2. CASE p = x
        <5>1. kids[x][j].fd # fd
          <6> SUFFICES ASSUME kids[x][j].fd = fd
                       PROVE  FALSE
            OBVIOUS
          <6>1. Child(x, j) = Child(x, k)
            BY <2>2, <2>3, <3>4, <4>2 DEF Peer
          <6>2. j = k
            BY <3>1, <4>2, <6>1, OneParent
          <6> QED BY <3>2, <4>2, <6>2
        <5> QED BY <2>5, <3>5, <4>2, <5>1
      <4> QED BY <4>1, <4>2
    <3> QED BY <3>3, <3>4, <3>6 DEF Peer, Child
  <2>9. ConnInv'
    BY <2>7, <2>8 DEF ConnInv
  <2>10. \A p \in Processes : \A j \in DOMAIN kids[p] : kids[p][j].killed => kids'[p][j].killed
    BY <2>5
  <2> QED BY <2>1, <2>2, <2>5, <2>6, <2>9, <2>10
<1> QED BY <1>1, <1>2

(* A service reads the answer of the child it asked: it goes on with the   *)
(* next child, or passes a yes on and marks the child of a kill.           *)
LEMMA HearKeeps ==
  ASSUME IInv, NEW x \in Services, Hear(x), Types'
  PROVE  IInv'
<1>a. Types /\ TreeInv /\ ConnInv /\ LoopInv /\ PipeInv /\ PathInv /\ TurnInv
      /\ RequestInv /\ SpawnInv /\ KillInv /\ ReapInv
  BY DEF IInv
<1>b. x \in Processes /\ x # Manager /\ pc[x] = "asking" /\ HasAnswer(x)
  BY WhoIsWho DEF Hear, HasAnswer
<1>c. PICK k \in DOMAIN kids[x] : k = at[x]
  BY <1>a, <1>b, TheAnswer
<1>d. PICK c \in Services : c = Child(x, k)
  BY <1>a, <1>b, Typed
<1>e. PICK a \in {"yes", "yesn", "not"} : a = Answer(x)
  BY <1>a, <1>b, <1>c, <1>d, TheAnswer
<1>f. /\ ~kids[x][k].killed /\ Peer(x, k) = c
      /\ up[c] = <<a>> /\ down[c] = << >> /\ Tail(up[c]) = << >>
      /\ pc[c] \in {"idle", "leaving", "exited"}
      /\ pc[c] \in Gone => a = "yesn"
      /\ Asked(c) /\ ~Told(c)
      /\ \A s \in Services : x \in above[s] /\ s # c => ~Asked(s) /\ ~Told(s)
  BY <1>a, <1>b, <1>c, <1>d, <1>e, TheAnswer
<1>g. c \in Processes /\ c # x /\ x \in above[c]
  BY <1>a, <1>b, <1>d, ChildFacts
<1>h. msg[x] = Request /\ Request.op \in ReqOps /\ Request # Name /\ Request # Dead
  BY <1>a, <1>b, SearchOp, RequestIsNoName
<1>i. up[x] = << >> /\ down[x] = << >>
  BY <1>a, <1>b DEF PipeInv, Quiet, Gone
<1>1. /\ \A q \in Processes : q # x => pc'[q] = pc[q]
      /\ \A q \in Services : q # x /\ q # c => up'[q] = up[q]
      /\ up'[c] = << >>
      /\ \/ a = "not" /\ pc'[x] = "search" /\ up'[x] = << >> /\ UNCHANGED <<kids, conn>>
         \/ /\ a # "not" /\ pc'[x] = "idle" /\ up'[x] = <<"yes">>
            /\ IF Request.op = "kill" THEN MarkKilled(x) ELSE UNCHANGED <<kids, conn>>
  <2>1. CASE a = "not"
    <3>1. /\ up' = [up EXCEPT ![c] = << >>] /\ pc' = [pc EXCEPT ![x] = "search"]
          /\ UNCHANGED <<kids, conn>>
      BY <1>c, <1>e, <1>f, <2>1 DEF Hear, TakeAnswer
    <3> QED BY <1>a, <1>b, <1>i, <1>g, <2>1, <3>1 DEF Types
  <2>2. CASE a # "not"
    <3>1. /\ up' = [up EXCEPT ![Peer(x, at[x])] = Tail(@), ![x] = Append(@, "yes")]
          /\ pc' = [pc EXCEPT ![x] = "idle"]
          /\ IF Request.op = "kill" THEN MarkKilled(x) ELSE UNCHANGED <<kids, conn>>
      BY <1>e, <1>h, <2>2 DEF Hear
    <3>2. /\ up'[c] = Tail(up[c]) /\ up'[x] = Append(up[x], "yes")
          /\ \A q \in Services : q # x /\ q # c => up'[q] = up[q]
      BY <1>a, <1>c, <1>f, <1>g, <3>1 DEF Types
    <3>3. up'[c] = << >> /\ up'[x] = <<"yes">>
      BY <1>f, <1>i, <3>2, Pipes
    <3> QED BY <1>a, <1>b, <2>2, <3>1, <3>2, <3>3 DEF Types
  <2> QED BY <2>1, <2>2
<1>j. pc'[x] \in {"search", "idle"}
  BY <1>1
<1>2. UNCHANGED <<msg, at, above, down, reaped, doomed, said, commands>>
  BY DEF Hear, user
<1>3. Request' = Request
  BY <1>2 DEF Request
<1>4. /\ SameTree /\ ConnInv'
      /\ \A p \in Processes : p # x => kids'[p] = kids[p]
      /\ \A p \in Processes : \A j \in DOMAIN kids[p] : kids[p][j].killed => kids'[p][j].killed
      /\ \A p \in Processes : \A g \in Fds : conn'[p][g] # Closed =>
           /\ conn'[p][g] = conn[p][g] /\ conn[p][g] \in Services
           /\ MarkKilled(x) => conn[p][g] # c
  <2>1. UNCHANGED <<kids, conn>> \/ MarkKilled(x)
    BY <1>1
  <2>2. \A p \in Processes : pc'[p] = "unborn" <=> pc[p] = "unborn"
    BY <1>b, <1>1, <1>j
  <2>3. \A p \in Processes : pc'[p] \notin Ending \union Gone => pc[p] \notin Ending \union Gone
    BY <1>b, <1>1 DEF Ending, Gone
  <2> QED BY <1>a, <1>b, <1>c, <1>d, <1>2, <2>1, <2>2, <2>3, HeardConn
<1>5. \A s \in Services : s # x /\ s # c =>
        /\ Asked(s)' <=> Asked(s)
        /\ Told(s)' <=> Told(s)
        /\ Quiet(s)' <=> Quiet(s)
        /\ Holds(s, Request)' <=> Holds(s, Request)
  BY <1>1, <1>2, <1>3, BusySame, WhoIsWho
<1>6. /\ ~Asked(c)' /\ ~Told(c)' /\ Quiet(c)'
      /\ Asked(x) /\ ~Told(x) /\ ~Told(x)' /\ Quiet(x)'
      /\ ~Holds(c, Request)' /\ ~Holds(x, Request)'
  <2>1. pc'[c] = pc[c] /\ down'[c] = << >> /\ down'[x] = << >>
    BY <1>f, <1>g, <1>i, <1>1, <1>2
  <2>2. Asked(x) /\ ~Told(x)
    BY <1>a, <1>b DEF Asked, PathInv
  <2>3. \A m : ~Holds(c, m)' /\ ~Holds(x, m)'
    BY <2>1, Pipes DEF Holds
  <2>4. Quiet(c)' /\ Quiet(x)'
    BY <1>f, <1>j, <2>1 DEF Quiet
  <2>5. pc'[c] \notin {"search", "found", "asking"} \union Ending /\ pc'[x] \notin Ending
    BY <1>f, <1>j, <2>1 DEF Ending
  <2>6. ~Holds(c, Request)' /\ ~Holds(x, Request)' /\ ~Holds(c, Dead)' /\ ~Holds(x, Dead)'
    BY <1>3, <2>3 DEF Holds
  <2>7. ~Asked(c)' /\ ~Told(c)' /\ ~Told(x)'
    BY <1>1, <2>5, <2>6 DEF Asked, Told
  <2> QED BY <2>2, <2>4, <2>6, <2>7
<1>7. \A p \in Processes : p # x =>
        /\ \A s : AsksToward(p, s)' <=> AsksToward(p, s)
        /\ Kills(p)' <=> Kills(p)
  BY <1>a, <1>1, <1>2, <1>4, AskSame
<1>8. ~Kills(x) /\ ~Kills(x)'
  BY <1>b, <1>j DEF Kills, Ending
<1>9. \A s \in Services : \A p \in above[s] : p \in Processes
  BY <1>a, Typed, WhoIsWho
<1>k. \A s \in Services : (Asked(s)' => Asked(s)) /\ (Told(s)' => Told(s))
  BY <1>5, <1>6
<1>10. TreeInv'
  BY <1>a, <1>4, TreeSame
<1>12. LoopInv'
  <2>1. ASSUME NEW p \in Processes
        PROVE  /\ at'[p] <= Len(kids'[p]) + 1
               /\ pc'[p] = "search" => at'[p] <= Len(kids'[p])
               /\ pc'[p] = "asking" => at'[p] \in DOMAIN kids'[p] /\ ~kids'[p][at'[p]].killed
               /\ pc'[p] \in Ending => at'[p] > 0
               /\ pc'[p] = "waiting" => at'[p] <= Len(kids'[p])
    <3>1. at'[p] = at[p] /\ Len(kids'[p]) = Len(kids[p])
      BY <1>2, <1>4 DEF SameTree
    <3>2. CASE p = x
      <4>1. at[x] <= Len(kids[x])
        BY <1>a, <1>b, <1>c, Typed
      <4> QED BY <1>a, <1>j, <3>1, <3>2, <4>1 DEF LoopInv, Ending
    <3>3. CASE p # x
      BY <1>a, <1>1, <1>4, <3>1, <3>3 DEF LoopInv
    <3> QED BY <3>2, <3>3
  <2> QED BY <2>1 DEF LoopInv
<1>13. PipeInv'
  <2>1. ASSUME NEW s \in Services
        PROVE  /\ \/ Quiet(s)'
                  \/ /\ pc'[s] = "naming"
                     /\ down'[s] = <<Name, Request>> \/ down'[s] = <<Name, Dead>>
                  \/ /\ pc'[s] = "idle"
                     /\ down'[s] = <<Request>> \/ down'[s] = <<Dead>>
               /\ up'[s] # << >> =>
                    /\ pc'[s] \in {"idle", "leaving", "exited"} /\ down'[s] = << >>
                    /\ \E r \in {"yes", "yesn", "not"} : up'[s] = <<r>>
                    /\ pc'[s] \in Gone => up'[s] = <<"yesn">>
    <3>1. CASE s = c
      BY <1>1, <1>6, <3>1
    <3>2. CASE s = x
      BY <1>i, <1>1, <1>2, <1>6, <3>2 DEF Gone
    <3>3. CASE s # x /\ s # c
      <4>1. pc'[s] = pc[s] /\ down'[s] = down[s] /\ up'[s] = up[s]
        BY <1>1, <1>2, <3>3, WhoIsWho
      <4> QED BY <1>a, <1>5, <3>3, <4>1 DEF PipeInv
    <3> QED BY <3>1, <3>2, <3>3
  <2> QED BY <1>3, <2>1 DEF PipeInv
<1>14. PathInv'
  <2>1. ASSUME NEW s \in Services, Asked(s)' \/ Told(s)', NEW p \in above[s]
        PROVE  (AsksToward(p, s) => AsksToward(p, s)') /\ (Kills(p) => Kills(p)')
    <3>1. s # c
      BY <1>6, <2>1
    <3>2. p # x
      BY <1>f, <1>k, <2>1, <3>1
    <3> QED BY <1>7, <1>9, <3>2
  <2> QED BY <1>a, <1>2, <1>k, <2>1, PathSame
<1>15. TurnInv'
  <2>1. ASSUME NEW p \in Processes, NEW g \in Fds, conn'[p][g] # Closed
        PROVE  /\ Kills(p)' => ~Asked(conn[p][g])' /\ ~Told(conn[p][g])'
               /\ pc'[conn'[p][g]] \in Gone => up'[conn'[p][g]] # << >>
    <3>1. PICK s \in Services : s = conn[p][g] /\ conn'[p][g] = s /\ s # Closed
      BY <1>4, <2>1
    <3>2. /\ Kills(p) => ~Asked(s) /\ ~Told(s)
          /\ pc[s] \in Gone => up[s] # << >>
      BY <1>a, <3>1 DEF TurnInv
    <3>3. /\ Asked(conn[p][g])' <=> Asked(s)'
          /\ Told(conn[p][g])' <=> Told(s)'
      BY <3>1 DEF Asked, Told, Holds
    <3>4. Kills(p)' => ~Asked(s)' /\ ~Told(s)'
      BY <1>7, <1>8, <1>k, <3>2
    <3>5. ASSUME pc'[s] \in Gone
          PROVE  up'[s] # << >>
      <4>1. s # x /\ pc[s] \in Gone
        BY <1>1, <1>j, <3>5, WhoIsWho DEF Gone
      <4>2. CASE s = c
        <5>1. a = "yesn" /\ up[c] # << >>
          BY <1>f, <4>1, <4>2, Pipes
        <5>2. Request.op = "kill"
          BY <1>a, <1>f, <5>1 DEF KillInv
        <5>3. MarkKilled(x)
          BY <1>1, <5>1, <5>2
        <5> QED BY <1>4, <2>1, <3>1, <4>2, <5>3
      <4>3. CASE s # c
        BY <1>1, <3>2, <4>1, <4>3
      <4> QED BY <4>2, <4>3
    <3> QED BY <3>1, <3>3, <3>4, <3>5
  <2>2. ASSUME NEW p \in Processes, NEW j \in DOMAIN kids'[p], Told(Child(p, j))'
        PROVE  Kills(p)'
    <3>1. PICK s \in Services : j \in DOMAIN kids[p] /\ Child(p, j)' = s /\ Child(p, j) = s
      BY <1>a, <1>4, <2>2, Typed, TreeSame DEF SameTree
    <3>2. Told(s)'
      BY <2>2, <3>1 DEF Told, Holds
    <3>3. Told(s)
      BY <1>k, <3>2
    <3>4. Kills(p)
      BY <1>a, <3>1, <3>3 DEF TurnInv
    <3> QED BY <1>7, <1>8, <3>4
  <2> QED BY <2>1, <2>2 DEF TurnInv
<1>16. RequestInv'
  <2>1. For(Request)' = For(Request)
    BY <1>3 DEF For
  <2>2. pc'[Manager] = pc[Manager]
    BY <1>b, <1>1, WhoIsWho
  <2> QED BY <1>a, <1>b, <1>h, <1>j, <1>1, <1>2, <1>3, <2>1, <2>2, WhoIsWho DEF RequestInv, Ending
<1>17. SpawnInv'
  <2>1. \A p \in Processes :
          /\ pc'[p] = "found" => pc[p] = "found"
          /\ pc'[p] \in {"search", "asking"} => pc[p] \in {"search", "asking"} /\ at'[p] = at[p]
    BY <1>b, <1>j, <1>1, <1>2
  <2>2. \A p \in Services : Holds(p, Request)' => Holds(p, Request)
    BY <1>5, <1>6
  <2> QED BY <1>a, <1>3, <1>4, <2>1, <2>2, SpawnSame
<1>18. KillInv'
  <2>1. pc'[Manager] = pc[Manager]
    BY <1>b, <1>1, WhoIsWho
  <2>2. \A p \in Processes : pc[p] \in Gone => pc'[p] \in Gone
    BY <1>b, <1>1 DEF Gone
  <2>3. \A s \in Services : pc'[s] \in Ending \/ Told(s)' => pc[s] \in Ending \/ Told(s)
    BY <1>b, <1>j, <1>1, <1>k, WhoIsWho DEF Ending
  <2>4. ASSUME NEW s \in Services, up'[s] # << >>, up'[s] # up[s]
        PROVE  /\ up'[s] = <<"yesn">> => Request.op = "kill" /\ Request.a = s
               /\ Request.op = "kill" /\ up'[s] # <<"not">> =>
                    Request.a \in Services /\ pc'[Request.a] \in Gone
    <3>1. s = x /\ up'[x] = <<"yes">> /\ a # "not"
      BY <1>i, <1>1, <2>4
    <3>2. <<"yes">> # <<"yesn">> /\ <<a>> # <<"not">> /\ <<a>> # << >>
      BY <3>1, Pipes
    <3>3. Request.op = "kill" => Request.a \in Services /\ pc[Request.a] \in Gone
      BY <1>a, <1>f, <3>2 DEF KillInv
    <3> QED BY <2>2, <3>1, <3>2, <3>3, WhoIsWho
  <2> QED BY <1>a, <1>2, <1>3, <1>4, <2>1, <2>2, <2>3, <2>4, KillSame
<1>19. ReapInv'
  <2>1. \A p \in Processes :
          /\ Kills(p)' => Kills(p) /\ at'[p] = at[p]
          /\ pc[p] = "exited" => pc'[p] = "exited"
    BY <1>b, <1>1, <1>2, <1>7, <1>8
  <2>2. \A s \in Services : pc'[s] \in Gone => pc[s] \in Gone
    BY <1>j, <1>1, WhoIsWho DEF Gone
  <2>3. pc'[Manager] = pc[Manager]
    BY <1>b, <1>1, WhoIsWho
  <2> QED BY <1>a, <1>2, <1>4, <2>1, <2>2, <2>3, WhoIsWho, ReapSame
<1> QED BY <1>4, <1>10, <1>12, <1>13, <1>14, <1>15, <1>16, <1>17, <1>18, <1>19 DEF IInv

(* The Manager reads the answer of the child it asked: nobody is busy any  *)
(* more.  It goes on with the next child, or with the kill after the       *)
(* search, or is done.                                                     *)
LEMMA ManagerHearsKeeps ==
  ASSUME IInv, ManagerHears, Types'
  PROVE  IInv'
<1> DEFINE x == Manager
<1>a. Types /\ TreeInv /\ ConnInv /\ LoopInv /\ PipeInv /\ PathInv /\ TurnInv
      /\ RequestInv /\ SpawnInv /\ KillInv /\ ReapInv
  BY DEF IInv
<1>b. x \in Processes /\ pc[x] = "asking" /\ HasAnswer(x)
  BY WhoIsWho DEF ManagerHears, HasAnswer
<1>c. PICK k \in DOMAIN kids[x] : k = at[x]
  BY <1>a, <1>b, TheAnswer
<1>d. PICK c \in Services : c = Child(x, k)
  BY <1>a, <1>b, Typed
<1>e. PICK a \in {"yes", "yesn", "not"} : a = Answer(x)
  BY <1>a, <1>b, <1>c, <1>d, TheAnswer
<1>f. /\ ~kids[x][k].killed /\ Peer(x, k) = c
      /\ up[c] = <<a>> /\ down[c] = << >> /\ Tail(up[c]) = << >>
      /\ pc[c] \in {"idle", "leaving", "exited"}
      /\ pc[c] \in Gone => a = "yesn"
      /\ Asked(c) /\ ~Told(c)
      /\ \A s \in Services : x \in above[s] /\ s # c => ~Asked(s) /\ ~Told(s)
  <2> HIDE DEF x
  <2> QED BY <1>a, <1>b, <1>c, <1>d, <1>e, TheAnswer
<1>h. Request \in Messages /\ Request.op \in ReqOps /\ Request # Name
  BY <1>a, <1>b, SearchOp, RequestIsNoName, Typed DEF Request
<1>i. Request.op = "exchange" \/ Request.a \in Services
  BY <1>a, <1>b DEF RequestInv
<1>j. said.op = "none"
  BY <1>a, <1>b DEF KillInv
<1>k. PICK yes \in BOOLEAN :
        /\ Request.op # "spawn" => yes = (a # "not")
        /\ msg' = IF yes /\ Request.op = "find"
                    THEN [msg EXCEPT ![Manager].op = "kill"] ELSE msg
        /\ at' = IF yes /\ Request.op = "find" THEN [at EXCEPT ![Manager] = 0] ELSE at
        /\ pc' = [pc EXCEPT ![Manager] =
                    IF yes /\ Request.op # "find" THEN "idle" ELSE "search"]
        /\ said' = CASE yes /\ Request.op = "kill" ->
                          Msg("killed", Request.a, Request.a)
                     [] yes /\ Request.op = "exchange" -> [Request EXCEPT !.op = "exchanged"]
                     [] OTHER -> said
  BY <1>e DEF ManagerHears, Recognised
<1>1. /\ pc'[x] = IF yes /\ Request.op # "find" THEN "idle" ELSE "search"
      /\ \A q \in Processes : q # x => pc'[q] = pc[q] /\ at'[q] = at[q] /\ msg'[q] = msg[q]
      /\ \A s \in Services : pc'[s] = pc[s] /\ s # x
      /\ at'[x] \in {0, at[x]}
  BY <1>a, <1>b, <1>k, WhoIsWho DEF Types
<1>l. pc'[x] \in {"search", "idle"}
  BY <1>1
<1>2. UNCHANGED <<above, down, reaped, doomed, commands>>
  BY DEF ManagerHears
<1>3. /\ yes /\ Request.op = "find" => Request' = [Request EXCEPT !.op = "kill"]
      /\ ~(yes /\ Request.op = "find") => Request' = Request /\ msg' = msg /\ at' = at
  BY <1>a, <1>b, <1>k DEF Types, Request
<1>m. /\ Request'.a = Request.a
      /\ Request'.op = IF yes /\ Request.op = "find" THEN "kill" ELSE Request.op
      /\ Request'.op \in ReqOps
  <2>1. [Request EXCEPT !.op = "kill"].a = Request.a /\ [Request EXCEPT !.op = "kill"].op = "kill"
    BY <1>h DEF Messages
  <2> QED BY <1>h, <1>3, <2>1 DEF ReqOps
<1>n. Request' # Name
  BY <1>m, Names DEF ReqOps
<1>o. /\ \A q \in Services : q # c => up'[q] = up[q]
      /\ up'[c] = << >>
  BY <1>a, <1>c, <1>f DEF ManagerHears, TakeAnswer, Types
<1>p. /\ MarkKilled(x) \/ UNCHANGED <<kids, conn>>
      /\ Request.op = "kill" /\ a = "yesn" => MarkKilled(x)
  BY <1>e DEF ManagerHears, IsGone
<1>4. /\ SameTree /\ ConnInv'
      /\ \A p \in Processes : p # x => kids'[p] = kids[p]
      /\ \A p \in Processes : \A j \in DOMAIN kids[p] : kids[p][j].killed => kids'[p][j].killed
      /\ \A p \in Processes : \A g \in Fds : conn'[p][g] # Closed =>
           /\ conn'[p][g] = conn[p][g] /\ conn[p][g] \in Services
           /\ MarkKilled(x) => conn[p][g] # c
  <2>1. UNCHANGED <<kids, conn>> \/ MarkKilled(x)
    BY <1>p
  <2>2. \A p \in Processes : pc'[p] = "unborn" <=> pc[p] = "unborn"
    BY <1>b, <1>l, <1>1
  <2>3. \A p \in Processes : pc'[p] \notin Ending \union Gone => pc[p] \notin Ending \union Gone
    BY <1>b, <1>1 DEF Ending, Gone
  <2> HIDE DEF x
  <2> QED BY <1>a, <1>b, <1>c, <1>d, <1>2, <2>1, <2>2, <2>3, HeardConn
<1>5. \A s \in Services :
        /\ Quiet(s) /\ pc[s] \in {"unborn", "naming", "idle", "leaving", "exited"}
        /\ s # c => up[s] = << >>
        /\ up'[s] = << >>
  <2> SUFFICES ASSUME NEW s \in Services
               PROVE  /\ Quiet(s) /\ pc[s] \in {"unborn", "naming", "idle", "leaving", "exited"}
                      /\ s # c => up[s] = << >>
                      /\ up'[s] = << >>
    OBVIOUS
  <2>1. CASE s = c
    BY <1>f, <1>o, <2>1 DEF Quiet
  <2>2. CASE s # c
    <3>1. ~Asked(s) /\ ~Told(s)
      <4>1. CASE Born(s)
        BY <1>a, <1>f, <2>2, <4>1 DEF TreeInv
      <4>2. CASE ~Born(s)
        BY <1>a, <1>h, <4>2, BusyBorn
      <4> QED BY <4>1, <4>2
    <3> QED BY <1>a, <1>o, <2>2, <3>1, NotBusy
  <2> QED BY <2>1, <2>2
<1>6. \A s \in Services : Quiet(s)' /\ \A m : m # Name => ~Holds(s, m)'
  <2> SUFFICES ASSUME NEW s \in Services
               PROVE  Quiet(s)' /\ \A m : m # Name => ~Holds(s, m)'
    OBVIOUS
  <2>1. pc'[s] = pc[s] /\ down'[s] = down[s]
    BY <1>1, <1>2
  <2>2. Quiet(s)' /\ (down'[s] = << >> \/ down'[s] = <<Name>>)
    BY <1>5, <2>1 DEF Quiet
  <2>3. ASSUME NEW m, m # Name
        PROVE  ~Holds(s, m)'
    <3>1. /\ << >> # <<m>> /\ << >> # <<Name, m>>
          /\ <<Name>> # <<m>> /\ <<Name>> # <<Name, m>>
      BY <2>3, Pipes, Zenon
    <3> QED BY <2>2, <3>1 DEF Holds
  <2> QED BY <2>2, <2>3
<1>7. \A s \in Services : ~Asked(s)' /\ ~Told(s)' /\ ~Holds(s, Request)'
  <2> SUFFICES ASSUME NEW s \in Services
               PROVE  ~Asked(s)' /\ ~Told(s)' /\ ~Holds(s, Request)'
    OBVIOUS
  <2>1. /\ pc'[s] \in {"unborn", "naming", "idle", "leaving", "exited"}
        /\ up'[s] = << >>
    BY <1>1, <1>5
  <2>2. ~Holds(s, Request)' /\ ~Holds(s, Dead)'
    BY <1>6, <1>n, Names DEF Holds
  <2> QED BY <2>1, <2>2 DEF Asked, Told, Ending
<1>8. \A p \in Processes : p # x => (Kills(p)' <=> Kills(p))
  BY <1>1 DEF Kills
<1>9. ~Kills(x) /\ ~Kills(x)'
  BY <1>b, <1>l DEF Kills, Ending
<1>10. TreeInv'
  BY <1>a, <1>4, TreeSame
<1>12. LoopInv'
  <2>1. ASSUME NEW p \in Processes
        PROVE  /\ at'[p] <= Len(kids'[p]) + 1
               /\ pc'[p] = "search" => at'[p] <= Len(kids'[p])
               /\ pc'[p] = "asking" => at'[p] \in DOMAIN kids'[p] /\ ~kids'[p][at'[p]].killed
               /\ pc'[p] \in Ending => at'[p] > 0
               /\ pc'[p] = "waiting" => at'[p] <= Len(kids'[p])
    <3>1. Len(kids'[p]) = Len(kids[p])
      BY <1>4 DEF SameTree
    <3>2. CASE p = x
      <4>1. at[x] <= Len(kids[x]) /\ at[x] \in Nat /\ Len(kids[x]) \in Nat
        BY <1>a, <1>b, <1>c, Typed
      <4>2. at'[x] <= Len(kids[x]) /\ at'[x] <= Len(kids[x]) + 1
        <5> HIDE DEF x
        <5> QED BY <1>1, <4>1
      <4> QED BY <1>l, <3>1, <3>2, <4>2 DEF Ending
    <3>3. CASE p # x
      BY <1>a, <1>1, <1>4, <3>1, <3>3 DEF LoopInv
    <3> QED BY <3>2, <3>3
  <2> QED BY <2>1 DEF LoopInv
<1>13. PipeInv'
  BY <1>5, <1>6 DEF PipeInv
<1>14. PathInv'
  BY <1>7 DEF PathInv
<1>15. TurnInv'
  <2>1. ASSUME NEW p \in Processes, NEW g \in Fds, conn'[p][g] # Closed
        PROVE  /\ Kills(p)' => ~Asked(conn[p][g])' /\ ~Told(conn[p][g])'
               /\ pc'[conn'[p][g]] \in Gone => up'[conn'[p][g]] # << >>
    <3>1. PICK s \in Services : s = conn[p][g] /\ conn'[p][g] = s /\ s # Closed
      BY <1>4, <2>1
    <3>2. pc[s] \in Gone => up[s] # << >>
      BY <1>a, <3>1 DEF TurnInv
    <3>3. /\ Asked(conn[p][g])' <=> Asked(s)'
          /\ Told(conn[p][g])' <=> Told(s)'
      BY <3>1 DEF Asked, Told, Holds
    <3>4. pc'[s] \notin Gone
      <4> SUFFICES ASSUME pc'[s] \in Gone
                   PROVE  FALSE
        OBVIOUS
      <4>1. pc[s] \in Gone
        BY <1>1
      <4>2. s = c
        BY <1>5, <3>2, <4>1
      <4>3. a = "yesn" /\ up[c] # << >>
        BY <1>f, <4>1, <4>2, Pipes
      <4>4. Request.op = "kill"
        BY <1>a, <1>f, <4>3 DEF KillInv
      <4>5. MarkKilled(x)
        BY <1>p, <4>3, <4>4
      <4> QED BY <1>4, <2>1, <3>1, <4>2, <4>5
    <3> QED BY <1>7, <3>1, <3>3, <3>4
  <2>2. ASSUME NEW p \in Processes, NEW j \in DOMAIN kids'[p], Told(Child(p, j))'
        PROVE  Kills(p)'
    <3>1. PICK s \in Services : j \in DOMAIN kids[p] /\ Child(p, j)' = s
      BY <1>a, <1>4, <2>2, Typed, TreeSame DEF SameTree
    <3>2. Told(s)'
      BY <2>2, <3>1 DEF Told, Holds
    <3> QED BY <1>7, <3>2
  <2> QED BY <2>1, <2>2 DEF TurnInv
<1>16. RequestInv'
  <2>1. \A s \in Services :
          pc'[s] \notin {"search", "found", "asking"} /\ pc'[s] \notin Ending
    BY <1>1, <1>5 DEF Ending
  <2>2. Request'.op \in ReqOps
    BY <1>m
  <2>3. Request'.op = "exchange" \/ Request'.a \in Services
    <3>1. Request.op = "exchange" => Request'.op = "exchange"
      BY <1>m
    <3> QED BY <1>i, <1>m, <3>1
  <2> QED BY <1>l, <2>1, <2>2, <2>3 DEF RequestInv, Ending
<1>17. SpawnInv'
  <2>1. CASE yes /\ Request.op = "find"
    BY <1>m, <2>1 DEF SpawnInv
  <2>2. CASE ~(yes /\ Request.op = "find")
    <3>1. Request' = Request /\ at' = at
      BY <1>3, <2>2
    <3>2. \A p \in Processes :
            /\ pc'[p] = "found" => pc[p] = "found"
            /\ pc'[p] \in {"search", "asking"} => pc[p] \in {"search", "asking"} /\ at'[p] = at[p]
      BY <1>b, <1>l, <1>1, <3>1
    <3>3. \A p \in Services : Holds(p, Request)' => Holds(p, Request)
      BY <1>7
    <3> QED BY <1>a, <1>4, <3>1, <3>2, <3>3, SpawnSame
  <2> QED BY <2>1, <2>2
<1>18. KillInv'
  <2>1. \A s \in Services : ~(pc'[s] \in Ending) /\ ~Told(s)' /\ up'[s] = << >>
    BY <1>1, <1>5, <1>7 DEF Ending
  <2>2. Request'.op \in {"find", "kill"} =>
          /\ Subtree(Request.a)' \subseteq doomed'
          /\ \A s \in doomed' : Request'.a \in Line(s)'
    <3> SUFFICES ASSUME Request'.op \in {"find", "kill"}
                 PROVE  /\ Subtree(Request.a)' \subseteq doomed
                        /\ \A s \in doomed : Request.a \in Line(s)'
      BY <1>2, <1>m
    <3>1. Request.op \in {"find", "kill"}
      BY <1>m
    <3>2. Subtree(Request.a)' = Subtree(Request.a)
      <4>1. Alive' = Alive
        BY <1>1 DEF Alive
      <4> QED BY <1>2, <1>m, <4>1 DEF Subtree
    <3>3. \A s : Line(s)' = Line(s)
      BY <1>2 DEF Line
    <3> QED BY <1>a, <3>1, <3>2, <3>3 DEF KillInv
  <2>3. CASE yes /\ Request.op = "kill"
    <3>1. said' = Msg("killed", Request.a, Request.a) /\ pc'[x] = "idle"
      BY <1>k, <1>1, <2>3
    <3>2. said'.op = "killed" /\ said'.a = Request.a /\ Request.a \in Services
      BY <1>i, <2>3, <3>1 DEF Msg
    <3>3. pc'[Request.a] \in Gone
      <4>1. a # "not"
        BY <1>k, <2>3
      <4>2. <<a>> # <<"not">> /\ <<a>> # << >>
        BY <4>1, Pipes
      <4>3. pc[Request.a] \in Gone
        BY <1>a, <1>f, <2>3, <4>2 DEF KillInv
      <4> QED BY <1>1, <3>2, <4>3
    <3> QED BY <1>m, <2>1, <2>2, <2>3, <3>1, <3>2, <3>3, WhoIsWho DEF KillInv
  <2>4. CASE yes /\ Request.op = "exchange"
    <3>1. said' = [Request EXCEPT !.op = "exchanged"] /\ pc'[x] = "idle"
      BY <1>k, <1>1, <2>4
    <3>2. said'.op = "exchanged"
      BY <1>h, <3>1 DEF Messages
    <3> QED BY <2>1, <2>2, <3>1, <3>2 DEF KillInv
  <2>5. CASE ~(yes /\ Request.op = "kill") /\ ~(yes /\ Request.op = "exchange")
    <3>1. said' = said
      BY <1>k, <2>5
    <3> QED BY <1>j, <2>1, <2>2, <3>1 DEF KillInv
  <2> QED BY <2>3, <2>4, <2>5
<1>19. ReapInv'
  <2>1. \A p \in Processes :
          /\ Kills(p)' => Kills(p) /\ at'[p] = at[p]
          /\ pc[p] = "exited" => pc'[p] = "exited"
    BY <1>b, <1>1, <1>8, <1>9
  <2>2. \A s \in Services : pc'[s] \in Gone => pc[s] \in Gone
    BY <1>1
  <2>3. pc'[Manager] # "exited"
    BY <1>l
  <2> QED BY <1>a, <1>2, <1>4, <2>1, <2>2, <2>3, WhoIsWho, ReapSame
<1> QED BY <1>4, <1>10, <1>12, <1>13, <1>14, <1>15, <1>16, <1>17, <1>18, <1>19 DEF IInv

(* The service or the Manager that a spawn is for makes its new child: the *)
(* child reads its name first, and no other process is nearer to it.       *)
LEMMA CreateKeeps ==
  ASSUME IInv, NEW x \in Processes, pc[x] = "found", Request.op = "spawn",
         NEW b \in Services, b = Request.b, Create(x, b),
         x = Manager => up' = up, x \in Services => Reply(x, "yes"),
         UNCHANGED <<msg, at, reaped, user>>, Types'
  PROVE  IInv'
<1>a. Types /\ TreeInv /\ ConnInv /\ LoopInv /\ PipeInv /\ PathInv /\ TurnInv
      /\ RequestInv /\ SpawnInv /\ KillInv /\ ReapInv
  BY DEF IInv
<1>b. b \in Processes /\ b # Manager /\ ~Born(b) /\ Born(x) /\ x # b
  BY <1>a, SpawnUnborn, WhoIsWho DEF Born
<1>c. x = Request.a
  <2>1. For(Request) = Request.a
    BY DEF For
  <2> QED BY <1>a, <2>1, WhoIsWho DEF RequestInv
<1>d. /\ above[b] = {} /\ kids[b] = << >>
      /\ \A q \in Processes : b \notin above[q]
      /\ \A p \in Processes : \A k \in DOMAIN kids[p] : Child(p, k) # b
  BY <1>a, <1>b DEF TreeInv
<1>e. PICK e \in Nat : e = End(x)
  BY <1>a, Typed DEF End
<1>1. /\ DOMAIN kids'[x] = 1..e /\ e \in 1..e /\ e \notin DOMAIN kids[x] /\ Len(kids'[x]) = e
      /\ \A k \in 1..e : k = e \/ k \in DOMAIN kids[x]
      /\ \A k \in DOMAIN kids[x] : kids'[x][k] = kids[x][k] /\ k \in 1..e
      /\ \A q \in Processes : q # x => kids'[q] = kids[q]
      /\ kids'[x][e].svc = b /\ ~kids'[x][e].killed
      /\ \A q \in Processes : q # x => conn'[q] = conn[q]
      /\ kids'[x][e].fd \in Fds /\ conn[x][kids'[x][e].fd] = Closed
      /\ \A f \in Fds : conn'[x][f] = IF f = kids'[x][e].fd THEN b ELSE conn[x][f]
      /\ \A q \in Processes : above'[q] = IF q = b THEN above[x] \union {x} ELSE above[q]
      /\ down' = [down EXCEPT ![b] = <<Name>>]
      /\ pc' = [pc EXCEPT ![x] = "idle", ![b] = "naming"]
  <2>1. e \in 1..e
    BY <1>a, <1>e, Typed DEF End
  <2>2. Created(x, b, End(x))
    BY <1>a, <1>b, Creates
  <2> QED BY <1>e, <2>1, <2>2 DEF Created
<1>f. PICK fd \in Fds : fd = kids'[x][e].fd
  BY <1>1
<1>2. /\ pc'[x] = "idle" /\ pc'[b] = "naming"
      /\ \A q \in Processes : q # x /\ q # b => pc'[q] = pc[q]
      /\ down'[b] = <<Name>>
      /\ \A q \in Services : q # b => down'[q] = down[q]
  BY <1>a, <1>b, <1>1 DEF Types
<1>3. UNCHANGED <<msg, at, reaped, doomed, said, commands>>
  BY DEF user
<1>4. Request' = Request
  BY <1>3 DEF Request
<1>g. x \in Services => up[x] = << >> /\ down[x] = << >>
  BY <1>a DEF PipeInv, Quiet, Gone
<1>h. /\ \A q \in Services : q # x => up'[q] = up[q]
      /\ x \in Services => up'[x] = <<"yes">>
      /\ up[b] = << >> /\ up'[b] = << >>
  <2>1. \A q \in Services : q # x => up'[q] = up[q]
    <3>1. CASE x = Manager
      BY <3>1
    <3>2. CASE x \in Services
      BY <1>a, <3>2 DEF Reply, Types
    <3> QED BY <3>1, <3>2, WhoIsWho
  <2>2. ASSUME x \in Services
        PROVE  up'[x] = <<"yes">>
    <3>1. up'[x] = Append(up[x], "yes")
      BY <1>a, <2>2 DEF Reply, Types
    <3> QED BY <1>g, <2>2, <3>1, Pipes
  <2>3. up[b] = << >>
    BY <1>a, <1>b DEF PipeInv, Born
  <2> QED BY <1>b, <2>1, <2>2, <2>3
(* Old children and lines are the same.                                    *)
<1>5. /\ \A p \in Processes : \A k \in DOMAIN kids[p] :
           k \in DOMAIN kids'[p] /\ kids'[p][k] = kids[p][k] /\ Child(p, k)' = Child(p, k)
      /\ \A p \in Processes : \A k \in DOMAIN kids'[p] :
           k \in DOMAIN kids[p] \/ (p = x /\ k = e)
      /\ Child(x, e)' = b
  <2>1. \A p \in Processes : \A k \in DOMAIN kids[p] :
           k \in DOMAIN kids'[p] /\ kids'[p][k] = kids[p][k]
    BY <1>1
  <2>2. \A p \in Processes : \A k \in DOMAIN kids'[p] :
           k \in DOMAIN kids[p] \/ (p = x /\ k = e)
    BY <1>1
  <2> QED BY <1>1, <2>1, <2>2 DEF Child
<1>6. /\ \A s \in Processes : s # b => above'[s] = above[s]
      /\ above'[b] = above[x] \union {x}
      /\ \A s \in Processes : s # b => Line(s)' = Line(s)
      /\ Line(b)' = above[x] \union {x, b}
  BY <1>b, <1>1 DEF Line
<1>7. \A p \in Processes : Born(p)' <=> (Born(p) \/ p = b)
  BY <1>b, <1>2 DEF Born
<1>8. \A s \in Services : s # x /\ s # b =>
        /\ Asked(s)' <=> Asked(s)
        /\ Told(s)' <=> Told(s)
        /\ Quiet(s)' <=> Quiet(s)
        /\ Holds(s, Request)' <=> Holds(s, Request)
  BY <1>2, <1>3, <1>4, <1>h, BusySame, WhoIsWho
<1>9. /\ Quiet(b)' /\ ~Asked(b)' /\ ~Told(b)' /\ ~Holds(b, Request)'
      /\ x \in Services =>
           Asked(x) /\ Asked(x)' /\ ~Told(x) /\ ~Told(x)' /\ Quiet(x)' /\ ~Holds(x, Request)'
  <2>1. Quiet(b)'
    BY <1>2 DEF Quiet
  <2>2. Request # Name /\ Dead # Name
    BY <1>a, RequestIsNoName, Names
  <2>3. ~Holds(b, Request)' /\ ~Holds(b, Dead)'
    <3>1. /\ <<Name>> # <<Request>> /\ <<Name>> # <<Name, Request>>
          /\ <<Name>> # <<Dead>> /\ <<Name>> # <<Name, Dead>>
      BY <2>2, Pipes, Zenon
    <3> QED BY <1>2, <1>4, <3>1 DEF Holds
  <2>4. ~Asked(b)' /\ ~Told(b)'
    BY <1>2, <1>h, <2>3 DEF Asked, Told, Ending
  <2>5. ASSUME x \in Services
        PROVE  Asked(x) /\ Asked(x)' /\ ~Told(x) /\ ~Told(x)' /\ Quiet(x)' /\ ~Holds(x, Request)'
    <3>1. Asked(x) /\ ~Told(x)
      BY <1>a, <2>5 DEF Asked, PathInv
    <3>2. down'[x] = << >> /\ up'[x] = <<"yes">>
      BY <1>b, <1>g, <1>h, <1>2, <2>5
    <3>3. Asked(x)'
      BY <3>2, Pipes DEF Asked
    <3>4. \A m : ~Holds(x, m)'
      BY <3>2, Pipes DEF Holds
    <3>5. ~Holds(x, Request)' /\ ~Holds(x, Dead)'
      BY <3>4 DEF Holds
    <3>6. ~Told(x)'
      BY <1>2, <3>5 DEF Told, Ending
    <3>7. Quiet(x)'
      BY <1>2, <3>2 DEF Quiet
    <3> QED BY <3>1, <3>3, <3>5, <3>6, <3>7
  <2> QED BY <2>1, <2>3, <2>4, <2>5
<1>i. \A s \in Services : (Asked(s)' => Asked(s)) /\ (Told(s)' => Told(s))
  BY <1>8, <1>9
<1>j. \A p \in Processes : \A s \in Processes : AsksToward(p, s) /\ s # b => AsksToward(p, s)'
  <2> SUFFICES ASSUME NEW p \in Processes, NEW s \in Processes, AsksToward(p, s), s # b
               PROVE  AsksToward(p, s)'
    OBVIOUS
  <2>1. pc[p] = "asking" /\ p # x /\ p # b
    BY <1>b DEF AsksToward, Born
  <2>2. pc'[p] = "asking" /\ at'[p] = at[p] /\ at[p] \in DOMAIN kids[p]
    BY <1>a, <1>2, <1>3, <2>1 DEF LoopInv
  <2>3. kids'[p] = kids[p] /\ Line(s)' = Line(s)
    BY <1>1, <1>6, <2>1
  <2> QED BY <2>2, <2>3 DEF AsksToward, Child
<1>k. /\ \A p \in Processes : Kills(p)' <=> Kills(p)
      /\ ~Kills(x) /\ \A s : ~AsksToward(x, s)
  <2>1. \A p \in Processes : p # x /\ p # b => (Kills(p)' <=> Kills(p))
    BY <1>2 DEF Kills
  <2>2. ~Kills(x) /\ ~Kills(x)' /\ ~Kills(b) /\ ~Kills(b)' /\ \A s : ~AsksToward(x, s)
    BY <1>b, <1>2 DEF Kills, Ending, Born, AsksToward
  <2> QED BY <2>1, <2>2
<1>l. \A s \in Services : \A p \in above[s] : p \in Processes
  BY <1>a, Typed, WhoIsWho
<1>10. TreeInv'
  <2>1. Born(Manager)' /\ above'[Manager] = {}
    BY <1>a, <1>b, <1>6, <1>7, WhoIsWho DEF TreeInv
  <2>2. \A p \in Processes : ~Born(p)' => above'[p] = {} /\ kids'[p] = << >>
    BY <1>a, <1>b, <1>1, <1>6, <1>7 DEF TreeInv
  <2>3. \A s \in Services : Born(s)' => Manager \in above'[s]
    BY <1>a, <1>b, <1>6, <1>7, WhoIsWho DEF TreeInv
  <2>4. \A s \in Processes : s \notin above'[s]
    BY <1>a, <1>b, <1>d, <1>6 DEF TreeInv
  <2>5. ASSUME NEW s \in Processes, NEW a \in above'[s]
        PROVE  /\ Born(a)' /\ above'[a] \subseteq above'[s]
               /\ \E k \in DOMAIN kids'[a] : Child(a, k)' \in Line(s)'
               /\ \A j, k \in DOMAIN kids'[a] :
                    Child(a, j)' \in Line(s)' /\ Child(a, k)' \in Line(s)' => j = k
    <3>1. CASE s # b
      <4>1. a \in above[s] /\ a \in Processes /\ a # b /\ Line(s)' = Line(s)
        BY <1>a, <1>d, <1>6, <3>1, Typed
      <4>2. /\ Born(a) /\ above[a] \subseteq above[s]
            /\ \E k \in DOMAIN kids[a] : Child(a, k) \in Line(s)
            /\ \A j, k \in DOMAIN kids[a] : Child(a, j) \in Line(s) /\ Child(a, k) \in Line(s) => j = k
        BY <1>a, <4>1 DEF TreeInv
      <4>3. b \notin Line(s)
        BY <1>d, <3>1 DEF Line
      <4>4. \A k \in DOMAIN kids'[a] : Child(a, k)' \in Line(s) =>
              k \in DOMAIN kids[a] /\ Child(a, k) \in Line(s)
        BY <1>5, <4>1, <4>3
      <4>5. \E k \in DOMAIN kids'[a] : Child(a, k)' \in Line(s)'
        BY <1>5, <4>1, <4>2
      <4> QED BY <1>6, <1>7, <3>1, <4>1, <4>2, <4>4, <4>5
    <3>2. CASE s = b
      <4>1. a \in above[x] \union {x} /\ a \in Processes /\ a # b
        BY <1>a, <1>b, <1>d, <1>6, <3>2, Typed
      <4>2. Line(s)' = Line(x) \union {b}
        BY <1>6, <3>2 DEF Line
      <4>3. Born(a)' /\ above'[a] \subseteq above'[s]
        BY <1>a, <1>b, <1>6, <1>7, <3>2, <4>1 DEF TreeInv
      <4>4. \A k \in DOMAIN kids'[a] : Child(a, k)' \in Line(s)' =>
              (a = x /\ k = e) \/ (k \in DOMAIN kids[a] /\ Child(a, k) \in Line(x))
        BY <1>d, <1>5, <4>1, <4>2
      <4>5. CASE a = x
        <5>1. \A k \in DOMAIN kids[x] : Child(x, k) \notin Line(x)
          BY <1>a, ChildOnLine DEF TreeInv
        <5>2. e \in DOMAIN kids'[a] /\ Child(a, e)' \in Line(s)'
          BY <1>1, <1>5, <4>2, <4>5
        <5> QED BY <4>3, <4>4, <4>5, <5>1, <5>2
      <4>6. CASE a # x
        <5>1. a \in above[x]
          BY <4>1, <4>6
        <5>2. /\ \E k \in DOMAIN kids[a] : Child(a, k) \in Line(x)
              /\ \A j, k \in DOMAIN kids[a] : Child(a, j) \in Line(x) /\ Child(a, k) \in Line(x) => j = k
          BY <1>a, <5>1 DEF TreeInv
        <5>3. \E k \in DOMAIN kids'[a] : Child(a, k)' \in Line(s)'
          BY <1>5, <4>1, <4>2, <5>2
        <5> QED BY <4>3, <4>4, <4>6, <5>2, <5>3
      <4> QED BY <4>5, <4>6
    <3> QED BY <3>1, <3>2
  <2>6. ASSUME NEW p \in Processes, NEW k \in DOMAIN kids'[p]
        PROVE  Born(Child(p, k))' /\ above'[Child(p, k)'] = above'[p] \union {p}
    <3>1. CASE p = x /\ k = e
      BY <1>b, <1>2, <1>5, <1>6, <3>1 DEF Born
    <3>2. CASE ~(p = x /\ k = e)
      <4>1. k \in DOMAIN kids[p] /\ Child(p, k)' = Child(p, k)
        BY <1>5, <3>2
      <4>2. PICK c \in Processes : c = Child(p, k) /\ c # b /\ Born(c) /\ above[c] = above[p] \union {p}
        BY <1>a, <1>d, <4>1, ChildFacts
      <4>3. p # b
        BY <1>d, <4>1
      <4>4. above'[c] = above'[p] \union {p} /\ pc'[c] # "unborn"
        BY <1>6, <1>7, <4>2, <4>3 DEF Born
      <4> QED BY <4>1, <4>2, <4>4 DEF Born
    <3> QED BY <3>1, <3>2
  <2> QED BY <2>1, <2>2, <2>3, <2>4, <2>5, <2>6 DEF TreeInv
<1>11. ConnInv'
  <2>1. ASSUME NEW p \in Processes, NEW g \in Fds, conn'[p][g] # Closed
        PROVE  \E k \in DOMAIN kids'[p] :
                 conn'[p][g] = Child(p, k)' /\ kids'[p][k].fd = g /\ ~kids'[p][k].killed
    <3>1. CASE p = x /\ g = fd
      <4>1. /\ e \in DOMAIN kids'[x] /\ conn'[x][fd] = Child(x, e)'
            /\ kids'[x][e].fd = fd /\ ~kids'[x][e].killed
        BY <1>f, <1>1, <1>5
      <4> QED BY <3>1, <4>1
    <3>2. CASE ~(p = x /\ g = fd)
      <4>1. conn'[p][g] = conn[p][g]
        BY <1>f, <1>1, <3>2
      <4>2. PICK k \in DOMAIN kids[p] :
              conn[p][g] = Child(p, k) /\ kids[p][k].fd = g /\ ~kids[p][k].killed
        BY <1>a, <2>1, <4>1 DEF ConnInv
      <4> QED BY <1>5, <4>1, <4>2
    <3> QED BY <3>1, <3>2
  <2>2. ASSUME NEW p \in Processes, NEW k \in DOMAIN kids'[p], ~kids'[p][k].killed,
               pc'[p] \notin Ending \union Gone
        PROVE  Peer(p, k)' = Child(p, k)'
    <3>1. CASE p = x /\ k = e
      BY <1>1, <1>5, <3>1 DEF Peer
    <3>2. CASE ~(p = x /\ k = e)
      <4>1. k \in DOMAIN kids[p] /\ kids'[p][k] = kids[p][k] /\ Child(p, k)' = Child(p, k) /\ p # b
        BY <1>d, <1>5, <3>2
      <4>2. pc[p] \notin Ending \union Gone
        BY <1>2, <2>2, <4>1 DEF Ending, Gone
      <4>3. conn[p][kids[p][k].fd] = Child(p, k)
        BY <1>a, <2>2, <4>1, <4>2 DEF ConnInv, Peer
      <4>4. kids[p][k].fd \in Fds /\ Child(p, k) # Closed
        BY <1>a, <4>1, Typed, WhoIsWho
      <4>5. conn'[p][kids[p][k].fd] = conn[p][kids[p][k].fd]
        BY <1>1, <4>3, <4>4
      <4> QED BY <4>1, <4>3, <4>5 DEF Peer
    <3> QED BY <3>1, <3>2
  <2> QED BY <2>1, <2>2 DEF ConnInv
<1>12. LoopInv'
  <2>1. ASSUME NEW p \in Processes
        PROVE  /\ at'[p] <= Len(kids'[p]) + 1
               /\ pc'[p] = "search" => at'[p] <= Len(kids'[p])
               /\ pc'[p] = "asking" => at'[p] \in DOMAIN kids'[p] /\ ~kids'[p][at'[p]].killed
               /\ pc'[p] \in Ending => at'[p] > 0
               /\ pc'[p] = "waiting" => at'[p] <= Len(kids'[p])
    <3>1. CASE p = x
      <4>1. at[x] <= Len(kids[x]) + 1 /\ at[x] \in Nat /\ Len(kids[x]) \in Nat
        BY <1>a, Typed DEF LoopInv
      <4>2. Len(kids'[x]) = Len(kids[x]) + 1
        BY <1>e, <1>1 DEF End
      <4>3. at'[x] <= Len(kids'[x]) + 1
        BY <1>3, <4>1, <4>2
      <4> QED BY <1>2, <3>1, <4>3 DEF Ending
    <3>2. CASE p # x
      BY <1>a, <1>1, <1>2, <1>3, <3>2 DEF LoopInv, Ending
    <3> QED BY <3>1, <3>2
  <2> QED BY <2>1 DEF LoopInv
<1>13. PipeInv'
  <2>1. ASSUME NEW s \in Services
        PROVE  /\ \/ Quiet(s)'
                  \/ /\ pc'[s] = "naming"
                     /\ down'[s] = <<Name, Request>> \/ down'[s] = <<Name, Dead>>
                  \/ /\ pc'[s] = "idle"
                     /\ down'[s] = <<Request>> \/ down'[s] = <<Dead>>
               /\ up'[s] # << >> =>
                    /\ pc'[s] \in {"idle", "leaving", "exited"} /\ down'[s] = << >>
                    /\ \E r \in {"yes", "yesn", "not"} : up'[s] = <<r>>
                    /\ pc'[s] \in Gone => up'[s] = <<"yesn">>
    <3>1. CASE s = b
      BY <1>h, <1>9, <3>1
    <3>2. CASE s = x
      BY <1>b, <1>g, <1>h, <1>2, <1>9, <3>2 DEF Gone
    <3>3. CASE s # x /\ s # b
      <4>1. pc'[s] = pc[s] /\ down'[s] = down[s] /\ up'[s] = up[s]
        BY <1>2, <1>h, <3>3, WhoIsWho
      <4> QED BY <1>a, <1>8, <3>3, <4>1 DEF PipeInv
    <3> QED BY <3>1, <3>2, <3>3
  <2> QED BY <1>4, <2>1 DEF PipeInv
<1>14. PathInv'
  <2> SUFFICES ASSUME NEW s \in Services
               PROVE  /\ Asked(s)' => \A p \in above'[s] : AsksToward(p, s)'
                      /\ Told(s)'  => \A p \in above'[s] : AsksToward(p, s)' \/ Kills(p)'
                      /\ ~(Asked(s)' /\ Told(s)')
    BY DEF PathInv
  <2>1. CASE s = b
    BY <1>9, <2>1
  <2>2. CASE s # b
    <3>1. above'[s] = above[s] /\ s \in Processes
      BY <1>6, <2>2, WhoIsWho
    <3>2. /\ Asked(s) => \A p \in above[s] : AsksToward(p, s)
          /\ Told(s)  => \A p \in above[s] : AsksToward(p, s) \/ Kills(p)
          /\ ~(Asked(s) /\ Told(s))
      BY <1>a DEF PathInv
    <3> QED BY <1>i, <1>j, <1>k, <1>l, <2>2, <3>1, <3>2
  <2> QED BY <2>1, <2>2
<1>15. TurnInv'
  <2>1. ASSUME NEW p \in Processes, NEW g \in Fds, conn'[p][g] # Closed
        PROVE  /\ Kills(p)' => ~Asked(conn[p][g])' /\ ~Told(conn[p][g])'
               /\ pc'[conn'[p][g]] \in Gone => up'[conn'[p][g]] # << >>
    <3>1. CASE p = x /\ g = fd
      <4>1. conn'[p][g] = b
        BY <1>f, <1>1, <3>1
      <4> QED BY <1>2, <1>k, <3>1, <4>1 DEF Gone
    <3>2. CASE ~(p = x /\ g = fd)
      <4>1. conn'[p][g] = conn[p][g]
        BY <1>f, <1>1, <3>2
      <4>2. PICK s \in Services : s = conn[p][g] /\ s # b
        <5>1. conn[p][g] # Closed
          BY <2>1, <4>1
        <5> QED BY <1>a, <1>d, <5>1, OpenLeadsTo
      <4>3. /\ Kills(p) => ~Asked(s) /\ ~Told(s)
            /\ pc[s] \in Gone => up[s] # << >>
        BY <1>a, <2>1, <4>1, <4>2 DEF TurnInv
      <4>4. /\ Asked(conn[p][g])' <=> Asked(s)'
            /\ Told(conn[p][g])' <=> Told(s)'
        BY <4>1, <4>2 DEF Asked, Told, Holds
      <4>5. pc'[s] \in Gone => s # x /\ pc[s] \in Gone /\ up'[s] = up[s]
        BY <1>2, <1>h, <4>2, WhoIsWho DEF Gone
      <4> QED BY <1>i, <1>k, <4>1, <4>2, <4>3, <4>4, <4>5
    <3> QED BY <3>1, <3>2
  <2>2. ASSUME NEW p \in Processes, NEW j \in DOMAIN kids'[p], Told(Child(p, j))'
        PROVE  Kills(p)'
    <3>1. CASE p = x /\ j = e
      <4>1. Told(b)'
        BY <1>5, <2>2, <3>1 DEF Told, Holds
      <4> QED BY <1>9, <4>1
    <3>2. CASE ~(p = x /\ j = e)
      <4>1. PICK s \in Services : j \in DOMAIN kids[p] /\ Child(p, j)' = s /\ Child(p, j) = s
        BY <1>a, <1>5, <3>2, Typed
      <4>2. Told(s)'
        BY <2>2, <4>1 DEF Told, Holds
      <4>3. Told(s)
        BY <1>i, <4>2
      <4>4. Kills(p)
        BY <1>a, <4>1, <4>3 DEF TurnInv
      <4> QED BY <1>k, <4>4
    <3> QED BY <3>1, <3>2
  <2> QED BY <2>1, <2>2 DEF TurnInv
<1>16. RequestInv'
  <2>1. For(Request)' = For(Request)
    BY <1>4 DEF For
  <2> QED BY <1>a, <1>b, <1>2, <1>3, <1>4, <2>1, WhoIsWho DEF RequestInv, Ending
<1>17. SpawnInv'
  <2>1. \A p \in Processes : pc'[p] # "found"
    <3>1. \A p \in Processes : pc[p] = "found" => p = x
      <4>1. For(Request) = Request.a
        BY DEF For
      <4> QED BY <1>a, <1>c, <4>1, WhoIsWho DEF RequestInv
    <3> QED BY <1>2, <3>1
  <2>2. ASSUME NEW p \in Services, Holds(p, Request)'
        PROVE  p \notin Line(x)
    <3>1. p # b /\ p # x /\ Holds(p, Request)
      BY <1>8, <1>9, <2>2
    <3>2. p \in above[x] => pc[p] = "asking"
      <4> SUFFICES ASSUME p \in above[x]
                   PROVE  pc[p] = "asking"
        OBVIOUS
      <4>1. x \in Services
        BY <1>a, WhoIsWho DEF TreeInv
      <4> QED BY <1>a, <1>9, <4>1 DEF PathInv, AsksToward
    <3>3. pc[p] # "asking"
      <4> SUFFICES ASSUME pc[p] = "asking"
                   PROVE  FALSE
        OBVIOUS
      <4>1. down[p] = << >>
        BY <1>a DEF PipeInv, Quiet
      <4> QED BY <3>1, <4>1, HoldsWhat
    <3> QED BY <3>1, <3>2, <3>3 DEF Line
  <2>3. ASSUME NEW p \in Processes, pc'[p] \in {"search", "asking"},
               NEW k \in DOMAIN kids'[p], k > at'[p]
        PROVE  Child(p, k)' \notin Line(x)
    <3>1. p # x /\ p # b /\ pc[p] \in {"search", "asking"}
      BY <1>2, <2>3
    <3>2. k \in DOMAIN kids[p] /\ Child(p, k)' = Child(p, k) /\ k > at[p]
      BY <1>3, <1>5, <2>3, <3>1
    <3>3. ASSUME Child(p, k) \in Line(x)
          PROVE  FALSE
      <4>1. p \in above[x]
        BY <1>a, <3>2, <3>3, ChildOnLine
      <4>2. x \in Services
        BY <1>a, <4>1, WhoIsWho DEF TreeInv
      <4>3. AsksToward(p, x)
        BY <1>a, <1>9, <4>1, <4>2 DEF PathInv
      <4>4. at[p] \in DOMAIN kids[p] /\ Child(p, at[p]) \in Line(x)
        BY <1>a, <4>3 DEF AsksToward, LoopInv
      <4>5. at[p] = k
        BY <1>a, <3>2, <3>3, <4>1, <4>4 DEF TreeInv
      <4> QED BY <1>a, <3>2, <4>5, Typed
    <3> QED BY <3>2, <3>3
  <2>4. Request.a = b \/ Cardinality(above'[Request.a]) < MaxDepth
    BY <1>a, <1>b, <1>c, <1>6 DEF SpawnInv
  <2>5. Line(Request.a)' = Line(x)
    <3>1. Line(Request.a)' = Line(x)'
      BY <1>c, <1>4 DEF Line
    <3> QED BY <1>b, <1>6, <3>1
  <2> QED BY <1>4, <2>1, <2>2, <2>3, <2>4, <2>5 DEF SpawnInv
<1>18. KillInv'
  <2>1. \A s \in Services : pc'[s] \in Ending \/ Told(s)' => s \in doomed /\ Request.op = "kill"
    <3>1. \A s \in Services : pc'[s] \in Ending => pc[s] \in Ending
      BY <1>2, WhoIsWho DEF Ending
    <3> QED BY <1>a, <1>i, <3>1 DEF KillInv
  <2>2. \A s \in Services : up'[s] # <<"yesn">>
    <3>1. <<"yes">> # <<"yesn">> /\ << >> # <<"yesn">>
      BY Pipes
    <3>2. \A s \in Services : up[s] # <<"yesn">>
      BY <1>a, Pipes DEF KillInv
    <3> QED BY <1>h, <3>1, <3>2
  <2>3. said.op # "none" => pc'[Manager] \in {"idle", "exited"}
    BY <1>a, <1>b, <1>2, WhoIsWho DEF KillInv
  <2>4. said.op # "killed"
    BY <1>a DEF KillInv
  <2> QED BY <1>3, <1>4, <2>1, <2>2, <2>3, <2>4 DEF KillInv
<1>19. ReapInv'
  <2>1. \A s \in reaped' : pc'[s] = "exited"
    <3> SUFFICES ASSUME NEW s \in reaped
                 PROVE  pc'[s] = "exited"
      BY <1>3
    <3>1. s \in Processes /\ pc[s] = "exited"
      BY <1>a, WhoIsWho DEF ReapInv, Types
    <3> QED BY <1>b, <1>2, <3>1 DEF Born
  <2>2. \A p \in Processes : Kills(p)' =>
          \/ at'[p] - 1 <= Cardinality(Waited(p))'
          \/ p = Manager /\ \E k \in DOMAIN kids'[p] : kids'[p][k].killed
    <3> SUFFICES ASSUME NEW p \in Processes, Kills(p)'
                 PROVE  \/ at'[p] - 1 <= Cardinality(Waited(p))'
                        \/ p = Manager /\ \E k \in DOMAIN kids'[p] : kids'[p][k].killed
      OBVIOUS
    <3>1. Kills(p) /\ p # x
      BY <1>k
    <3>2. kids'[p] = kids[p] /\ at' = at /\ reaped' = reaped
      BY <1>1, <1>3, <3>1
    <3>3. Waited(p)' = Waited(p)
      BY <3>2 DEF Waited, Child
    <3> QED BY <1>a, <3>1, <3>2, <3>3 DEF ReapInv
  <2>3. \A s \in Services : \A p \in above'[s] :
          p # Manager /\ pc'[p] \in Gone => pc'[s] = "exited"
    <3> SUFFICES ASSUME NEW s \in Services, NEW p \in above'[s], p # Manager, pc'[p] \in Gone
                 PROVE  pc'[s] = "exited"
      OBVIOUS
    <3>1. p \in Processes
      BY <1>a, <1>6, Typed, WhoIsWho
    <3>2. p # x /\ p # b /\ pc[p] \in Gone
      BY <1>2, <3>1 DEF Gone
    <3>3. CASE s = b
      <4>1. p \in above[x] /\ x \in Services
        BY <1>a, <1>6, <3>2, <3>3, WhoIsWho DEF TreeInv
      <4>2. pc[x] = "exited"
        BY <1>a, <3>2, <4>1 DEF ReapInv
      <4> QED BY <4>2
    <3>4. CASE s # b
      <4>1. pc[s] = "exited"
        BY <1>a, <1>6, <3>2, <3>4, WhoIsWho DEF ReapInv
      <4> QED BY <1>2, <3>4, <4>1, WhoIsWho
    <3> QED BY <3>3, <3>4
  <2>4. pc'[Manager] = "exited" => at'[Manager] > Len(kids'[Manager])
    BY <1>a, <1>b, <1>1, <1>2, <1>3, WhoIsWho DEF ReapInv
  <2> HIDE DEF Gone
  <2> QED BY <2>1, <2>2, <2>3, <2>4 DEF ReapInv
<1> QED BY <1>10, <1>11, <1>12, <1>13, <1>14, <1>15, <1>16, <1>17, <1>18, <1>19 DEF IInv

(* The Manager has asked all its children and is done.                     *)
LEMMA ManagerGivesUpKeeps ==
  ASSUME IInv, ManagerGivesUp, Types'
  PROVE  IInv'
<1>a. Types /\ TreeInv /\ ConnInv /\ LoopInv /\ PipeInv /\ PathInv /\ TurnInv
      /\ RequestInv /\ SpawnInv /\ KillInv /\ ReapInv
  BY DEF IInv
<1>b. pc[Manager] = "search" /\ Manager \in Processes
  BY WhoIsWho DEF ManagerGivesUp
<1>1. /\ pc'[Manager] = "idle"
      /\ \A q \in Processes : q # Manager => pc'[q] = pc[q]
      /\ \A s \in Services : pc'[s] = pc[s]
  BY <1>a, <1>b, WhoIsWho DEF ManagerGivesUp, Types
<1>2. UNCHANGED <<msg, at, kids, conn, above, down, up, reaped, doomed, commands>>
  BY DEF ManagerGivesUp, tree, pipes
<1>3. Request' = Request
  BY <1>2 DEF Request
<1>4. SameTree
  BY <1>b, <1>1, <1>2 DEF SameTree
<1>5. \A s \in Services :
        /\ Asked(s)' <=> Asked(s)
        /\ Told(s)' <=> Told(s)
        /\ Quiet(s)' <=> Quiet(s)
        /\ Holds(s, Request)' <=> Holds(s, Request)
  BY <1>1, <1>2, <1>3, BusySame
<1>6. Request # Name /\ Request.op \in ReqOps /\ Request \in Messages
  BY <1>a, <1>b, RequestIsNoName, SearchOp, Typed
<1>7. \A s \in Services : ~Asked(s) /\ ~Told(s)
  BY <1>a, <1>b, <1>6, NobodyBusy
<1>8. \A p \in Processes : (Kills(p)' <=> Kills(p)) /\ (p # Manager \/ ~Kills(p))
  BY <1>b, <1>1 DEF Kills, Ending
<1>10. TreeInv'
  BY <1>a, <1>4, TreeSame
<1>11. ConnInv'
  BY <1>a, <1>b, <1>1, <1>2, <1>4, ConnSame DEF Ending, Gone
<1>12. LoopInv'
  BY <1>a, <1>1, <1>2 DEF LoopInv, Ending
<1>13. PipeInv'
  BY <1>a, <1>1, <1>2, <1>3, <1>5 DEF PipeInv, Gone
<1>14. PathInv'
  BY <1>5, <1>7 DEF PathInv
<1>15. TurnInv'
  <2>1. \A p \in Processes : \A fd \in Fds :
          conn'[p][fd] # Closed => conn'[p][fd] = conn[p][fd] /\ conn[p][fd] \in Services
    BY <1>a, <1>2, Typed
  <2>2. \A s \in Services :
          /\ Asked(s)' => Asked(s)
          /\ Told(s)' => Told(s)
          /\ pc'[s] \in Gone /\ up'[s] = << >> => pc[s] \in Gone /\ up[s] = << >>
    BY <1>1, <1>2, <1>5
  <2>3. \A p \in Processes : \A k \in DOMAIN kids[p], c \in Services :
          c = Child(p, k) /\ Told(c)' /\ Kills(p) => Kills(p)'
    BY <1>8
  <2>4. \A p \in Processes : Kills(p)' => Kills(p)
    BY <1>8
  <2> QED BY <1>a, <1>4, <2>1, <2>2, <2>3, <2>4, TurnSame
<1>16. RequestInv'
  <2>1. For(Request)' = For(Request)
    BY <1>3 DEF For
  <2> QED BY <1>a, <1>b, <1>1, <1>2, <1>3, <1>6, <2>1 DEF RequestInv, Ending
<1>17. SpawnInv'
  <2>1. \A p \in Processes :
          /\ pc'[p] = "found" => pc[p] = "found"
          /\ pc'[p] \in {"search", "asking"} => pc[p] \in {"search", "asking"} /\ at'[p] = at[p]
    BY <1>1, <1>2
  <2> QED BY <1>a, <1>3, <1>4, <1>5, <2>1, SpawnSame
<1>18. KillInv'
  <2>1. said'.op # "killed"
    <3>1. [Request EXCEPT !.op = "exchanged"].op = "exchanged"
      BY <1>6 DEF Messages
    <3> QED BY <1>6, <3>1, Names DEF ManagerGivesUp, ReqOps
  <2>2. \A s \in Services : up'[s] = << >> /\ pc'[s] \notin Ending /\ ~Told(s)'
    BY <1>a, <1>1, <1>2, <1>5, <1>7, NotBusy DEF Ending
  <2>3. Request.op \in {"find", "kill"} =>
          /\ Subtree(Request.a)' \subseteq doomed
          /\ \A s \in doomed : Request.a \in Line(s)'
    <3>1. Subtree(Request.a)' = Subtree(Request.a)
      BY <1>1, <1>2, <1>3 DEF Subtree, Alive
    <3>2. \A s : Line(s)' = Line(s)
      BY <1>2 DEF Line
    <3> QED BY <1>a, <3>1, <3>2 DEF KillInv
  <2> QED BY <1>1, <1>2, <1>3, <2>1, <2>2, <2>3 DEF KillInv
<1>19. ReapInv'
  BY <1>a, <1>b, <1>1, <1>2, <1>4, <1>8, ReapSame DEF Gone
<1> QED BY <1>10, <1>11, <1>12, <1>13, <1>14, <1>15, <1>16, <1>17, <1>18, <1>19 DEF IInv

(* The Manager has told all its children to die, and exits.                *)
LEMMA ManagerEndsKeeps ==
  ASSUME IInv, ManagerEnds, Types'
  PROVE  IInv'
<1>a. Types /\ TreeInv /\ ConnInv /\ LoopInv /\ PipeInv /\ PathInv /\ TurnInv
      /\ RequestInv /\ SpawnInv /\ KillInv /\ ReapInv
  BY DEF IInv
<1>b. pc[Manager] = "telling" /\ Manager \in Processes /\ at[Manager] > Len(kids[Manager])
  BY WhoIsWho DEF ManagerEnds
<1>1. /\ pc'[Manager] = "exited"
      /\ \A q \in Processes : q # Manager => pc'[q] = pc[q]
      /\ \A s \in Services : pc'[s] = pc[s]
  BY <1>a, <1>b, WhoIsWho DEF ManagerEnds, Types
<1>2. UNCHANGED <<msg, at, kids, conn, above, down, up, reaped, doomed, commands>>
  BY DEF ManagerEnds, tree, pipes
<1>c. said'.op = "killed" /\ said'.a = Manager
  BY Names DEF ManagerEnds
<1>3. Request' = Request
  BY <1>2 DEF Request
<1>4. SameTree
  BY <1>b, <1>1, <1>2 DEF SameTree
<1>5. \A s \in Services :
        /\ Asked(s)' <=> Asked(s)
        /\ Told(s)' <=> Told(s)
        /\ Quiet(s)' <=> Quiet(s)
        /\ Holds(s, Request)' <=> Holds(s, Request)
  BY <1>1, <1>2, <1>3, BusySame
<1>6. Request.op = "kill" /\ Request.a = Manager
  BY <1>a, <1>b DEF RequestInv, Ending
<1>7. \A p \in Processes :
        /\ \A s : AsksToward(p, s)' <=> AsksToward(p, s)
        /\ Kills(p)' <=> Kills(p)
  <2>1. \A p \in Processes : p # Manager =>
          /\ \A s : AsksToward(p, s)' <=> AsksToward(p, s)
          /\ Kills(p)' <=> Kills(p)
    BY <1>a, <1>1, <1>2, <1>4, AskSame
  <2>2. /\ Kills(Manager) /\ Kills(Manager)'
        /\ \A s : ~AsksToward(Manager, s) /\ ~AsksToward(Manager, s)'
    BY <1>b, <1>1 DEF Kills, AsksToward, Ending
  <2> QED BY <2>1, <2>2
<1>9. \A s \in Services : \A p \in above[s] : p \in Processes
  BY <1>a, Typed, WhoIsWho
<1>10. TreeInv'
  BY <1>a, <1>4, TreeSame
<1>11. ConnInv'
  BY <1>a, <1>b, <1>1, <1>2, <1>4, ConnSame DEF Ending, Gone
<1>12. LoopInv'
  BY <1>a, <1>1, <1>2 DEF LoopInv, Ending
<1>13. PipeInv'
  BY <1>a, <1>1, <1>2, <1>3, <1>5 DEF PipeInv, Gone
<1>14. PathInv'
  BY <1>a, <1>2, <1>5, <1>7, <1>9, PathSame
<1>15. TurnInv'
  <2>1. \A p \in Processes : \A fd \in Fds :
          conn'[p][fd] # Closed => conn'[p][fd] = conn[p][fd] /\ conn[p][fd] \in Services
    BY <1>a, <1>2, Typed
  <2>2. \A s \in Services :
          /\ Asked(s)' => Asked(s)
          /\ Told(s)' => Told(s)
          /\ pc'[s] \in Gone /\ up'[s] = << >> => pc[s] \in Gone /\ up[s] = << >>
    BY <1>1, <1>2, <1>5
  <2>3. \A p \in Processes : \A k \in DOMAIN kids[p], c \in Services :
          c = Child(p, k) /\ Told(c)' /\ Kills(p) => Kills(p)'
    BY <1>7
  <2>4. \A p \in Processes : Kills(p)' => Kills(p)
    BY <1>7
  <2> QED BY <1>a, <1>4, <2>1, <2>2, <2>3, <2>4, TurnSame
<1>16. RequestInv'
  <2>1. For(Request)' = For(Request)
    BY <1>3 DEF For
  <2> QED BY <1>a, <1>b, <1>1, <1>2, <1>3, <1>6, <2>1 DEF RequestInv, Ending, ReqOps
<1>17. SpawnInv'
  BY <1>3, <1>6 DEF SpawnInv
<1>18. KillInv'
  <2>1. \A s \in Services :
          pc'[s] \in Ending \/ Told(s)' => s \in doomed /\ Request.op = "kill"
    BY <1>a, <1>1, <1>5 DEF KillInv
  <2>2. Request.op \in {"find", "kill"} =>
          /\ Subtree(Request.a)' \subseteq doomed
          /\ \A s \in doomed : Request.a \in Line(s)'
    <3>1. Subtree(Request.a)' = Subtree(Request.a)
      BY <1>1, <1>2, <1>3 DEF Subtree, Alive
    <3>2. \A s : Line(s)' = Line(s)
      BY <1>2 DEF Line
    <3> QED BY <1>a, <3>1, <3>2 DEF KillInv
  <2>3. \A s \in Services : up[s] # << >> =>
          /\ up[s] = <<"yesn">> => Request.op = "kill" /\ Request.a = s
          /\ Request.op = "kill" /\ up[s] # <<"not">> =>
               Request.a \in Services /\ pc'[Request.a] \in Gone
    BY <1>a, <1>6, WhoIsWho DEF KillInv
  <2> QED BY <1>c, <1>1, <1>2, <1>3, <1>6, <2>1, <2>2, <2>3 DEF KillInv
<1>19. ReapInv'
  <2>1. \A s \in reaped' : pc'[s] = "exited"
    BY <1>a, <1>1, <1>2 DEF ReapInv, Types
  <2>2. \A p \in Processes : Kills(p)' =>
          \/ at'[p] - 1 <= Cardinality(Waited(p))'
          \/ p = Manager /\ \E k \in DOMAIN kids'[p] : kids'[p][k].killed
    BY <1>a, <1>2, <1>4, <1>7, WaitedSame DEF ReapInv
  <2>3. \A s \in Services : \A p \in above'[s] :
          p # Manager /\ pc'[p] \in Gone => pc'[s] = "exited"
    BY <1>a, <1>1, <1>2, <1>9 DEF ReapInv
  <2>4. pc'[Manager] = "exited" => at'[Manager] > Len(kids'[Manager])
    BY <1>b, <1>2
  <2> HIDE DEF Gone
  <2> QED BY <2>1, <2>2, <2>3, <2>4 DEF ReapInv
<1> QED BY <1>10, <1>11, <1>12, <1>13, <1>14, <1>15, <1>16, <1>17, <1>18, <1>19 DEF IInv

(* The Manager reads a command: nobody is busy, and whoever is to die for  *)
(* it is doomed.                                                           *)
LEMMA CommandKeeps ==
  ASSUME IInv, Command, Types'
  PROVE  IInv'
<1>a. Types /\ TreeInv /\ ConnInv /\ LoopInv /\ PipeInv /\ PathInv /\ TurnInv
      /\ RequestInv /\ SpawnInv /\ KillInv /\ ReapInv
  BY DEF IInv
<1>b. pc[Manager] = "idle" /\ Manager \in Processes
  BY WhoIsWho DEF Command
<1>c. PICK m \in Requests :
       /\ msg' = [msg EXCEPT ![Manager] =
                    IF m.op = "kill" /\ m.a # Manager THEN [m EXCEPT !.op = "find"]
                    ELSE m]
       /\ doomed' = IF m.op = "kill" THEN Subtree(m.a) ELSE {}
       /\ pc' = [pc EXCEPT ![Manager] =
                   IF m.a # Manager \/ m.op = "exchange" THEN "search"
                   ELSE IF m.op = "spawn" THEN "found" ELSE "telling"]
       /\ at' = [at EXCEPT ![Manager] =
                   IF m.op = "kill" /\ m.a = Manager THEN 1 ELSE 0]
  BY DEF Command
<1>d. /\ m \in Messages /\ m.op \in {"spawn", "kill", "exchange"}
      /\ m.op = "spawn" =>
           m.b \in Services /\ ~Born(m.b) /\ Cardinality(above[m.a]) < MaxDepth
  BY <1>a, RequestsAre
<1>e. /\ Request'.a = m.a /\ Request'.b = m.b
      /\ Request'.op = IF m.op = "kill" /\ m.a # Manager THEN "find" ELSE m.op
      /\ m.a \in Processes
  <2>1. Request' = IF m.op = "kill" /\ m.a # Manager THEN [m EXCEPT !.op = "find"] ELSE m
    BY <1>a, <1>b, <1>c DEF Types, Request
  <2> QED BY <1>d, <2>1 DEF Messages
<1>1. /\ pc'[Manager] = IF m.a # Manager \/ m.op = "exchange" THEN "search"
                        ELSE IF m.op = "spawn" THEN "found" ELSE "telling"
      /\ at'[Manager] = IF m.op = "kill" /\ m.a = Manager THEN 1 ELSE 0
      /\ \A q \in Processes : q # Manager => pc'[q] = pc[q] /\ at'[q] = at[q]
      /\ \A s \in Services : pc'[s] = pc[s]
  BY <1>a, <1>b, <1>c, WhoIsWho DEF Types
<1>f. pc'[Manager] \in {"search", "found", "telling"}
  BY <1>1
<1>2. UNCHANGED <<kids, conn, above, down, up, reaped>> /\ said'.op = "none"
  BY Names DEF Command, tree, pipes
<1>4. SameTree
  BY <1>b, <1>f, <1>1, <1>2 DEF SameTree
<1>g. Request' # Name /\ Request # Name
  BY <1>a, <1>d, <1>e, RequestIsNoName, Names
<1>5. \A s \in Services :
        /\ Quiet(s) /\ up[s] = << >>
        /\ pc[s] \in {"unborn", "naming", "idle", "leaving", "exited"}
  BY <1>a, <1>b, <1>g, NobodyBusy, NotBusy
<1>6. \A s \in Services : Quiet(s)' /\ ~Asked(s)' /\ ~Told(s)'
  <2> SUFFICES ASSUME NEW s \in Services
               PROVE  Quiet(s)' /\ ~Asked(s)' /\ ~Told(s)'
    OBVIOUS
  <2>1. pc'[s] = pc[s] /\ down'[s] = down[s] /\ up'[s] = << >>
    BY <1>1, <1>2, <1>5
  <2>2. Quiet(s)' /\ (down'[s] = << >> \/ down'[s] = <<Name>>)
    BY <1>5, <2>1 DEF Quiet
  <2>3. ASSUME NEW r, r # Name
        PROVE  ~Holds(s, r)'
    <3>1. /\ << >> # <<r>> /\ << >> # <<Name, r>>
          /\ <<Name>> # <<r>> /\ <<Name>> # <<Name, r>>
      BY <2>3, Pipes, Zenon
    <3> QED BY <2>2, <3>1 DEF Holds
  <2>4. ~Holds(s, Request)' /\ ~Holds(s, Dead)'
    BY <1>g, <2>3, Names DEF Holds
  <2> QED BY <1>5, <2>1, <2>2, <2>4 DEF Asked, Told, Ending
<1>7. \A p \in Processes : p # Manager => (Kills(p)' <=> Kills(p))
  BY <1>1 DEF Kills
<1>10. TreeInv'
  BY <1>a, <1>4, TreeSame
<1>11. ConnInv'
  BY <1>a, <1>b, <1>1, <1>2, <1>4, ConnSame DEF Ending, Gone
<1>12. LoopInv'
  <2>1. ASSUME NEW p \in Processes
        PROVE  /\ at'[p] <= Len(kids'[p]) + 1
               /\ pc'[p] = "search" => at'[p] <= Len(kids'[p])
               /\ pc'[p] = "asking" => at'[p] \in DOMAIN kids'[p] /\ ~kids'[p][at'[p]].killed
               /\ pc'[p] \in Ending => at'[p] > 0
               /\ pc'[p] = "waiting" => at'[p] <= Len(kids'[p])
    <3>1. CASE p = Manager
      <4>1. Len(kids'[Manager]) \in Nat
        BY <1>a, <1>b, <1>2, Typed
      <4>2. /\ at'[Manager] <= Len(kids'[Manager]) + 1
            /\ at'[Manager] # 0 => at'[Manager] > 0
            /\ at'[Manager] = 0 => at'[Manager] <= Len(kids'[Manager])
        BY <1>1, <4>1
      <4>3. /\ pc'[Manager] = "search" => at'[Manager] = 0
            /\ pc'[Manager] = "telling" => at'[Manager] # 0
        BY <1>d, <1>1
      <4> QED BY <1>f, <3>1, <4>2, <4>3 DEF Ending
    <3>2. CASE p # Manager
      BY <1>a, <1>1, <1>2, <3>2 DEF LoopInv
    <3> QED BY <3>1, <3>2
  <2> QED BY <2>1 DEF LoopInv
<1>13. PipeInv'
  BY <1>2, <1>5, <1>6 DEF PipeInv
<1>14. PathInv'
  BY <1>6 DEF PathInv
<1>15. TurnInv'
  <2>1. ASSUME NEW p \in Processes, NEW g \in Fds, conn'[p][g] # Closed
        PROVE  /\ Kills(p)' => ~Asked(conn[p][g])' /\ ~Told(conn[p][g])'
               /\ pc'[conn'[p][g]] \in Gone => up'[conn'[p][g]] # << >>
    <3>1. PICK s \in Services : s = conn[p][g] /\ conn'[p][g] = s /\ s # Closed
      BY <1>a, <1>2, <2>1, Typed
    <3>2. pc[s] \in Gone => up[s] # << >>
      BY <1>a, <3>1 DEF TurnInv
    <3>3. /\ Asked(conn[p][g])' <=> Asked(s)'
          /\ Told(conn[p][g])' <=> Told(s)'
      BY <3>1 DEF Asked, Told, Holds
    <3> QED BY <1>1, <1>2, <1>6, <3>1, <3>2, <3>3
  <2>2. ASSUME NEW p \in Processes, NEW j \in DOMAIN kids'[p], Told(Child(p, j))'
        PROVE  Kills(p)'
    <3>1. PICK s \in Services : Child(p, j)' = s
      BY <1>a, <1>2, Typed DEF Child
    <3>2. Told(s)'
      BY <2>2, <3>1 DEF Told, Holds
    <3> QED BY <1>6, <3>2
  <2> QED BY <2>1, <2>2 DEF TurnInv
<1>16. RequestInv'
  <2>1. \A s \in Services :
          pc'[s] \notin {"search", "found", "asking"} /\ pc'[s] \notin Ending
    BY <1>1, <1>5 DEF Ending
  <2>2. Request'.op \in ReqOps
    BY <1>d, <1>e DEF ReqOps
  <2>3. /\ pc'[Manager] = "found" => Request'.op = "spawn" /\ Request'.a = Manager
        /\ pc'[Manager] = "search" => Request'.op = "exchange" \/ Request'.a \in Services
        /\ pc'[Manager] = "telling" => Request'.op = "kill" /\ Request'.a = Manager
    <3>1. m.op = "exchange" \/ (m.a # Manager /\ m.a \in Services) \/ m.a = Manager
      BY <1>e, WhoIsWho
    <3> QED BY <1>d, <1>e, <1>1, <3>1
  <2> QED BY <1>f, <2>1, <2>2, <2>3 DEF RequestInv, Ending
<1>17. SpawnInv'
  <2> SUFFICES ASSUME Request'.op = "spawn"
               PROVE  /\ m.b \in Services
                      /\ Cardinality(above'[m.a]) < MaxDepth
                      /\ pc'[m.b] = "unborn"
    BY <1>e DEF SpawnInv, Born
  <2>1. m.op = "spawn"
    BY <1>e
  <2> QED BY <1>d, <1>1, <1>2, <2>1 DEF Born
<1>18. KillInv'
  <2>1. \A s \in Services : pc'[s] \notin Ending /\ ~Told(s)' /\ up'[s] = << >>
    BY <1>1, <1>2, <1>5, <1>6 DEF Ending
  <2>2. Request'.op \in {"find", "kill"} =>
          /\ Subtree(Request.a)' \subseteq doomed'
          /\ \A s \in doomed' : Request'.a \in Line(s)'
    <3> SUFFICES ASSUME Request'.op \in {"find", "kill"}
                 PROVE  /\ Subtree(Request.a)' \subseteq doomed'
                        /\ \A s \in doomed' : Request'.a \in Line(s)'
      OBVIOUS
    <3>1. doomed' = Subtree(m.a)
      BY <1>c, <1>d, <1>e
    <3>2. Subtree(Request.a)' = Subtree(m.a)
      BY <1>e, <1>1, <1>2 DEF Subtree, Alive
    <3>3. \A s \in Subtree(m.a) : m.a \in Line(s)'
      BY <1>2 DEF Subtree, Line
    <3> QED BY <1>e, <3>1, <3>2, <3>3
  <2> QED BY <1>2, <2>1, <2>2 DEF KillInv
<1>19. ReapInv'
  <2>1. \A p \in Processes :
          /\ Kills(p)' => (Kills(p) /\ at'[p] = at[p]) \/ at'[p] = 1
          /\ pc[p] = "exited" => pc'[p] = "exited"
    <3>1. Kills(Manager)' => at'[Manager] = 1
      <4>1. Kills(Manager)' => pc'[Manager] = "telling"
        BY <1>f DEF Kills, Ending
      <4> QED BY <1>d, <1>1, <4>1
    <3> QED BY <1>b, <1>1, <1>7, <3>1
  <2>2. \A s \in Services : pc'[s] \in Gone => pc[s] \in Gone
    BY <1>1
  <2>3. pc'[Manager] # "exited"
    BY <1>f
  <2> QED BY <1>a, <1>2, <1>4, <2>1, <2>2, <2>3, ReapSame
<1> QED BY <1>10, <1>11, <1>12, <1>13, <1>14, <1>15, <1>16, <1>17, <1>18, <1>19 DEF IInv

-----------------------------------------------------------------------------
(* The invariant holds at the start and every step keeps it.               *)

LEMMA InitInv ==
  ASSUME Init
  PROVE  IInv
<1>1. /\ pc[Manager] = "idle" /\ \A s \in Services : pc[s] = "unborn"
      /\ \A p \in Processes :
           /\ msg[p] = Nothing /\ at[p] = 0 /\ kids[p] = << >> /\ above[p] = {}
           /\ \A fd \in Fds : conn[p][fd] = Closed
      /\ \A s \in Services : down[s] = << >> /\ up[s] = << >>
      /\ reaped = {} /\ doomed = {} /\ said = NoNews /\ commands = 0
  BY WhoIsWho DEF Init
<1>2. /\ Request = Nothing /\ Request.op = "nothing" /\ Nothing \in Messages
      /\ said.op = "none" /\ NoNews \in News
  BY <1>1, WhoIsWho DEF Request, Nothing, NoNews, Msg, Messages, News
<1>3. \A p \in Processes : DOMAIN kids[p] = {} /\ Len(kids[p]) = 0
  BY <1>1
<1>4. \A s \in Services : Quiet(s)
  BY <1>1 DEF Quiet
<1>5. \A s \in Services : ~Asked(s) /\ ~Told(s)
  BY <1>1, <1>2, <1>4, Names, NotBusyIf
<1>6. Types
  <2>1. << >> \in Seq(ChildRec) /\ << >> \in Seq(Letters) /\ << >> \in Seq({"yes", "yesn", "not"})
    OBVIOUS
  <2>2. 0 \in 0..MaxCommands
    BY WhoIsWho
  <2>3. /\ msg \in [Processes -> Messages] /\ kids \in [Processes -> Seq(ChildRec)]
        /\ down \in [Services -> Seq(Letters)]
        /\ up \in [Services -> Seq({"yes", "yesn", "not"})]
    BY <1>2, <2>1 DEF Init
  <2> QED BY <1>2, <2>2, <2>3, WhoIsWho DEF Init, Types
<1>7. TreeInv
  BY <1>1, <1>3, WhoIsWho DEF TreeInv, Born
<1>8. ConnInv
  BY <1>1, <1>3 DEF ConnInv
<1>9. LoopInv
  <2>1. \A p \in Processes : pc[p] \in {"idle", "unborn"} /\ at[p] = 0 /\ Len(kids[p]) = 0
    BY <1>1, <1>3, WhoIsWho
  <2>2. \A p \in Processes : at[p] <= Len(kids[p]) + 1 /\ at[p] <= Len(kids[p])
    BY <2>1
  <2> QED BY <2>1, <2>2 DEF LoopInv, Ending
<1>10. PipeInv
  BY <1>1, <1>4 DEF PipeInv
<1>11. PathInv
  BY <1>5 DEF PathInv
<1>12. TurnInv
  BY <1>1, <1>3 DEF TurnInv
<1>13. RequestInv
  BY <1>1, <1>2 DEF RequestInv, Ending
<1>14. SpawnInv
  BY <1>2 DEF SpawnInv
<1>15. KillInv
  BY <1>1, <1>2, <1>5 DEF KillInv, Ending
<1>16. ReapInv
  BY <1>1, WhoIsWho DEF ReapInv, Kills, Ending
<1> QED BY <1>6, <1>7, <1>8, <1>9, <1>10, <1>11, <1>12, <1>13, <1>14, <1>15, <1>16 DEF IInv

(* A step of a service.                                                    *)
LEMMA ServiceStepKeeps ==
  ASSUME IInv, NEW s \in Services, ServiceStep(s), Types'
  PROVE  IInv'
<1>a. s \in Processes /\ s # Manager
  BY WhoIsWho
<1>b. pc[s] \in {"search", "found"} => msg[s] = Request
  BY <1>a, SameRequest DEF IInv
<1>1. CASE ReadName(s)
  BY <1>1, ReadNameKeeps
<1>2. CASE Receive(s)
  BY <1>2, ReceiveKeeps
<1>3. CASE Found(s)
  <2>1. pc[s] = "found" /\ msg[s] = Request /\ Reply(s, "yes")
    BY <1>b, <1>3 DEF Found
  <2>2. CASE Request.op = "spawn"
    <3>1. Create(s, Request.b) /\ UNCHANGED <<msg, at, reaped, user>>
      BY <1>3, <2>1, <2>2 DEF Found
    <3>2. Request.b \in Services
      BY <2>2 DEF IInv, SpawnInv
    <3> QED BY <1>a, <2>1, <2>2, <3>1, <3>2, CreateKeeps
  <2>3. CASE Request.op # "spawn"
    <3>1. /\ pc' = [pc EXCEPT ![s] = "idle"]
          /\ UNCHANGED <<msg, at, tree, down, reaped, user>>
      BY <1>3, <2>1, <2>3 DEF Found, tree
    <3> QED BY <2>1, <2>3, <3>1, AnswerKeeps
  <2> QED BY <2>2, <2>3
<1>4. CASE Forward(s)
  BY <1>a, <1>4, AskKeeps DEF Forward
<1>5. CASE GiveUp(s)
  BY <1>5, AnswerKeeps DEF GiveUp
<1>6. CASE Hear(s)
  BY <1>6, HearKeeps
<1>7. CASE TellKids(s)
  BY <1>a, <1>7, TellKeeps DEF TellKids
<1>8. CASE WaitNull(s)
  BY <1>a, <1>8, WaitKeeps
<1>9. CASE Leave(s)
  BY <1>9, LeaveKeeps
<1>10. CASE ExitProcess(s)
  BY <1>10, ExitKeeps
<1> QED BY <1>1, <1>2, <1>3, <1>4, <1>5, <1>6, <1>7, <1>8, <1>9, <1>10 DEF ServiceStep

(* A step of the Manager.                                                  *)
LEMMA ManagerStepKeeps ==
  ASSUME IInv, ManagerStep, Types'
  PROVE  IInv'
<1>a. Manager \in Processes /\ Manager \notin Services
  BY WhoIsWho
<1>1. CASE ManagerSpawns
  <2>1. /\ pc[Manager] = "found" /\ Create(Manager, Request.b)
        /\ UNCHANGED <<msg, at, up, reaped, user>>
    BY <1>1 DEF ManagerSpawns
  <2>2. Request.op = "spawn"
    BY <2>1 DEF IInv, RequestInv
  <2>3. Request.b \in Services
    BY <2>2 DEF IInv, SpawnInv
  <2> QED BY <1>a, <2>1, <2>2, <2>3, CreateKeeps
<1>2. CASE ManagerAsks
  BY <1>a, <1>2, AskKeeps DEF ManagerAsks
<1>3. CASE ManagerGivesUp
  BY <1>3, ManagerGivesUpKeeps
<1>4. CASE ManagerHears
  BY <1>4, ManagerHearsKeeps
<1>5. CASE ManagerTells
  BY <1>a, <1>5, TellKeeps DEF ManagerTells
<1>6. CASE WaitNull(Manager)
  BY <1>a, <1>6, WaitKeeps
<1>7. CASE ManagerEnds
  BY <1>7, ManagerEndsKeeps
<1> QED BY <1>1, <1>2, <1>3, <1>4, <1>5, <1>6, <1>7 DEF ManagerStep

(* Nothing changes in a stuttering step.                                   *)
LEMMA StutterKeeps ==
  ASSUME IInv, UNCHANGED vars
  PROVE  IInv'
<1>1. UNCHANGED <<pc, msg, at, kids, conn, above, down, up, reaped, doomed, said, commands>>
  BY DEF vars, tree, pipes, user
<1>2. Types'
  BY <1>1 DEF IInv, Types
<1>3. TreeInv' /\ ConnInv' /\ LoopInv'
  BY <1>1 DEF IInv, TreeInv, Born, Child, Line, ConnInv, Peer, LoopInv
<1>4. Request' = Request
  BY <1>1 DEF Request
<1>5. \A s \in Services :
        /\ Asked(s)' <=> Asked(s)
        /\ Told(s)' <=> Told(s)
        /\ Quiet(s)' <=> Quiet(s)
        /\ Holds(s, Request)' <=> Holds(s, Request)
  BY <1>1, <1>4, BusySame
<1>6. SameTree
  BY <1>1 DEF SameTree
<1>7. \A p \in Processes :
        /\ \A s : AsksToward(p, s)' <=> AsksToward(p, s)
        /\ Kills(p)' <=> Kills(p)
  BY <1>1, <1>6, AskSame DEF IInv
<1>8. \A s \in Services : \A p \in above[s] : p \in Processes
  BY Typed, WhoIsWho DEF IInv
<1>9. PipeInv'
  BY <1>1, <1>4, <1>5 DEF IInv, PipeInv
<1>10. PathInv'
  BY <1>1, <1>5, <1>7, <1>8, PathSame DEF IInv
<1>11. TurnInv'
  <2>1. \A p \in Processes : \A fd \in Fds :
          conn'[p][fd] # Closed => conn'[p][fd] = conn[p][fd] /\ conn[p][fd] \in Services
    BY <1>1, Typed DEF IInv
  <2>2. \A s \in Services :
          /\ Asked(s)' => Asked(s)
          /\ Told(s)' => Told(s)
          /\ pc'[s] \in Gone /\ up'[s] = << >> => pc[s] \in Gone /\ up[s] = << >>
    BY <1>1, <1>5
  <2>3. \A p \in Processes : \A k \in DOMAIN kids[p], c \in Services :
          c = Child(p, k) /\ Told(c)' /\ Kills(p) => Kills(p)'
    BY <1>7
  <2>4. \A p \in Processes : Kills(p)' => Kills(p)
    BY <1>7
  <2> QED BY <1>6, <2>1, <2>2, <2>3, <2>4, TurnSame DEF IInv
<1>12. RequestInv'
  <2>1. For(Request)' = For(Request)
    BY <1>4 DEF For
  <2> QED BY <1>1, <1>4, <2>1 DEF IInv, RequestInv
<1>13. SpawnInv'
  BY <1>1, <1>4, <1>5, <1>6, SpawnSame DEF IInv
<1>14. KillInv'
  BY <1>1, <1>4, <1>5, <1>6, KillSame DEF IInv
<1>15. ReapInv'
  BY <1>1, <1>6, <1>7, ReapSame DEF IInv
<1> QED BY <1>2, <1>3, <1>9, <1>10, <1>11, <1>12, <1>13, <1>14, <1>15 DEF IInv

LEMMA IInvNext ==
  ASSUME IInv, [Next]_vars
  PROVE  IInv'
<1>1. Types'
  BY TypesNext
<1>2. CASE Command
  BY <1>1, <1>2, CommandKeeps
<1>3. CASE ManagerStep
  BY <1>1, <1>3, ManagerStepKeeps
<1>4. CASE \E s \in Services : ServiceStep(s)
  BY <1>1, <1>4, ServiceStepKeeps
<1>5. CASE UNCHANGED vars
  BY <1>5, StutterKeeps
<1> QED BY <1>2, <1>3, <1>4, <1>5 DEF Next

-----------------------------------------------------------------------------
(* The invariant of the tree, for any number of services and commands,     *)
(* and any depth: a request is in one place of the tree and everybody      *)
(* above waits for its answer, open pairs of descriptors lead to the child *)
(* they were made for, and only doomed services are told to die (the loops *)
(* of service.c:185-235, 365-460 and create_service).                      *)
THEOREM TreeInductive == Spec => []IInv
<1>1. Init => IInv
  BY InitInv
<1>2. IInv /\ [Next]_vars => IInv'
  BY IInvNext
<1> QED BY <1>1, <1>2, PTL DEF Spec

(* Every variable keeps its range: no service takes the name of its parent *)
(* for a request (read_parent_name), and no loop runs past the end of its  *)
(* list of children.                                                       *)
THEOREM TreeTypeCorrect == Spec => []TypeOK
<1>1. IInv => TypeOK
  <2> SUFFICES ASSUME IInv
               PROVE  TypeOK
    OBVIOUS
  <2>1. /\ pc \in [Processes -> {"unborn", "naming", "idle", "search", "asking", "found",
                                 "telling", "waiting", "leaving", "exited"}]
        /\ conn \in [Processes -> [Fds -> Services \union {Closed}]]
        /\ reaped \union doomed \subseteq Services
        /\ said \in [op : {"none", "spawn_missing", "kill_missing", "exchanged", "killed"},
                     a : Processes, b : Processes]
        /\ commands \in 0..MaxCommands
    BY DEF IInv, Types, News
  <2>2. ASSUME NEW p \in Processes
        PROVE  /\ msg[p].op \in {"nothing", "spawn", "find", "kill", "exchange", "dead"}
               /\ {msg[p].a, msg[p].b} \union above[p] \subseteq Processes
               /\ at[p] \in 0..Len(kids[p]) + 1
               /\ kids[p] \in Seq([svc : Services, fd : Fds, killed : BOOLEAN])
    <3>1. msg[p] \in Messages /\ above[p] \subseteq Processes
      BY Typed DEF IInv
    <3>2. at[p] \in Nat /\ Len(kids[p]) \in Nat /\ at[p] <= Len(kids[p]) + 1
      BY Typed DEF IInv, LoopInv
    <3>3. kids[p] \in Seq([svc : Services, fd : Fds, killed : BOOLEAN])
      BY DEF IInv, Types, ChildRec
    <3> QED BY <3>1, <3>2, <3>3 DEF Messages, ReqOps
  <2>3. ASSUME NEW s \in Services
        PROVE  /\ \A i \in DOMAIN down[s] :
                    down[s][i] \in [op : {"name", "spawn", "find", "kill", "exchange", "dead"},
                                    a : Processes, b : Processes]
               /\ up[s] \in Seq({"yes", "yesn", "not"})
    <3>1. down[s] \in Seq(Letters) /\ up[s] \in Seq({"yes", "yesn", "not"})
      BY DEF IInv, Types
    <3>2. \A i \in DOMAIN down[s] : down[s][i] \in Letters
      BY <3>1
    <3>3. Letters \subseteq [op : {"name", "spawn", "find", "kill", "exchange", "dead"},
                             a : Processes, b : Processes]
      BY DEF Letters, ReqOps
    <3> QED BY <3>1, <3>2, <3>3
  <2> QED BY <2>1, <2>2, <2>3 DEF TypeOK
<1> QED BY <1>1, TreeInductive, PTL

(* Between two commands no request, no answer and no word to die is left   *)
(* in any pipe, and no service is in a loop: every request is answered     *)
(* once, by the service that was asked (service.c:196-214, 301-321).       *)
THEOREM QuietBetweenCommands == Spec => []Quiescent
<1>1. IInv => Quiescent
  <2> SUFFICES ASSUME IInv, pc[Manager] = "idle", NEW s \in Services
               PROVE  /\ pc[s] \in {"unborn", "naming", "idle", "leaving", "exited"}
                      /\ up[s] = << >>
                      /\ down[s] = IF pc[s] = "naming" THEN <<Name>> ELSE << >>
    BY DEF Quiescent
  <2>1. ~Asked(s) /\ ~Told(s)
    BY RequestIsNoName, NobodyBusy DEF IInv
  <2> QED BY <2>1, NotBusy DEF IInv, Quiet
<1> QED BY <1>1, TreeInductive, PTL

(* Only the target of a kill and the services under it die: no other       *)
(* service is told "dead", not even over descriptors that were handed out  *)
(* again (service.c:398, 427-431, 448).                                    *)
THEOREM OnlyDoomedDie == Spec => []DiesOnlyIfDoomed
<1>1. IInv => DiesOnlyIfDoomed
  BY DEF IInv, KillInv, DiesOnlyIfDoomed, Ending
<1> QED BY <1>1, TreeInductive, PTL

(* When the Manager says that a service and its children are killed, all   *)
(* of them have exited, or the target is about to: as many wait(NULL) as   *)
(* children take them all, in whatever order (service.c:402-408, 452-458). *)
THEOREM KilledIsExited == Spec => []KilledMeansExited
<1>1. IInv => KilledMeansExited
  <2> SUFFICES ASSUME IInv, said.op = "killed",
                      said.a = Manager => \A k \in DOMAIN kids[Manager] : ~kids[Manager][k].killed,
                      NEW s \in doomed
               PROVE  pc[s] = "exited" \/ (s = said.a /\ pc[s] = "leaving")
    BY DEF KilledMeansExited
  <2>1. Request.op = "kill" /\ said.a = Request.a /\ said.a \in Line(s)
    BY DEF IInv, KillInv
  <2>2. s \in Services
    BY DEF IInv, Types
  <2>3. CASE said.a = Manager
    <3>1. pc[Manager] = "exited" /\ at[Manager] > Len(kids[Manager])
      BY <2>3 DEF IInv, KillInv, ReapInv
    <3>2. Kills(Manager) /\ Manager \in Processes
      BY <3>1, WhoIsWho DEF Kills
    <3>3. Manager \in above[s]
      BY <2>1, <2>2, <2>3, WhoIsWho DEF Line
    <3> QED BY <2>2, <2>3, <3>1, <3>2, <3>3, AllBelowExited DEF IInv
  <2>4. CASE said.a # Manager
    <3>1. pc[said.a] \in Gone
      BY <2>4 DEF IInv, KillInv
    <3>2. CASE s = said.a
      BY <3>1, <3>2 DEF Gone
    <3>3. CASE s # said.a
      <4>1. said.a \in above[s]
        BY <2>1, <3>3 DEF Line
      <4> QED BY <2>2, <2>4, <3>1, <4>1 DEF IInv, ReapInv
    <3> QED BY <3>2, <3>3
  <2> QED BY <2>3, <2>4
<1> QED BY <1>1, TreeInductive, PTL
================================================================================
