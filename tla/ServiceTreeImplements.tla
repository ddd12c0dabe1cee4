------------------------ MODULE ServiceTreeImplements ------------------------
(***************************************************************************)
(* Proofs that the service tree of HW2, whatever its depth, implements     *)
(* ProcessTree, and that it stays connected.  The answer to a kill marks   *)
(* services killed on its way up that live, so that the invariant is not   *)
(* about who lives, but about whom the Manager reaches: nobody on the line *)
(* to it dies or is marked.                                                *)
(***************************************************************************)
EXTENDS ServiceTreeProofs

-----------------------------------------------------------------------------
(* The inductive invariant, part by part.                                  *)

(* A service that was born is in somebody's list of children.              *)
ParentInv ==
  \A s \in Services : Born(s) => \E p \in Processes : \E k \in DOMAIN kids[p] : Child(p, k) = s

(* Whoever is marked killed is gone, or somebody under it is.  Whoever is  *)
(* gone is marked killed when its answer has been read, as long as its     *)
(* parent does not die itself.                                             *)
MarkInv ==
  \A p \in Processes : \A k \in DOMAIN kids[p] :
    /\ kids[p][k].killed => \E t \in Services : pc[t] \in Gone /\ Child(p, k) \in Line(t)
    /\ pc[Child(p, k)] \in Gone =>
         kids[p][k].killed \/ up[Child(p, k)] # << >> \/ pc[p] \in Ending \union Gone

(* The children of p that the loop has done with.                          *)
Done(p) == {k \in DOMAIN kids[p] :
              (pc[p] = "search" /\ k <= at[p]) \/ (pc[p] = "asking" /\ k < at[p])}

(* The request looks for a service that can be reached, and the search has *)
(* not passed it by.                                                       *)
Seeks  == Request.op \in {"find", "kill"} \/ (Request.op = "spawn" /\ ~Born(Request.b))
Sought == Seeks /\ Request.a \in Reached

FindInv ==
  Sought =>
    /\ \A p \in Processes : \A k \in Done(p) : Child(p, k) \notin Line(Request.a)
    /\ \A s \in Services : up[s] = <<"not">> => s \notin Line(Request.a)

(* What a yes means: the service was found, or there is a new one, or one  *)
(* was killed, and the yes comes up the line from it.                      *)
Yes(s) == up[s] # << >> /\ up[s] # <<"not">>

AnswerInv ==
  /\ \A s \in Services : Yes(s) =>
       /\ Request.op = "find" => Request.a \in Reached
       /\ Request.op = "spawn" => Born(Request.b)
       /\ Request.op = "kill" => s \in Line(Request.a)
  /\ Request.op = "kill" /\ pc[Manager] \in {"search", "asking"} =>
       Request.a \in Reached \/ pc[Request.a] \in Ending \/ \E s \in Services : Yes(s)

ReachInv == IInv /\ ParentInv /\ MarkInv /\ FindInv /\ AnswerInv

-----------------------------------------------------------------------------
(* Who can be reached.                                                     *)

(* Nobody on the line to it dies or is marked.                             *)
Dies(p) == pc[p] \in Ending \union Gone

LEMMA WhoIsReached ==
  \A s : s \in Reached <=>
    s \in Services /\ Born(s) /\ \A p \in Line(s) : (p \notin Processes \/ ~Dies(p)) /\ p \notin Marked
BY DEF Reached, Dying, Born, Line, Dies, Ending, Gone

(* Who is marked is a child that was found in a list.                      *)
LEMMA WhoIsMarked ==
  \A s : s \in Marked <=>
    s \in Services /\ \E p \in Processes : \E k \in DOMAIN kids[p] :
                        kids[p][k].killed /\ Child(p, k) = s
BY DEF Marked

LEMMA MarkedChild ==
  ASSUME Types, NEW p \in Processes, NEW k \in DOMAIN kids[p], kids[p][k].killed
  PROVE  Child(p, k) \in Marked
BY Typed, WhoIsMarked

(* Steps after which nobody can be reached who could not be before.        *)
LEMMA FewerReached ==
  ASSUME Types, above' = above, Marked \subseteq Marked',
         \A p \in Processes : (pc'[p] = "unborn" <=> pc[p] = "unborn") /\ (Dies(p) => Dies(p)')
  PROVE  Reached' \subseteq Reached
<1> SUFFICES ASSUME NEW s \in Reached'
             PROVE  s \in Reached
  OBVIOUS
<1>1. /\ s \in Services /\ Born(s)' /\ s \in Processes
      /\ \A p \in Line(s)' : (p \notin Processes \/ ~Dies(p)') /\ p \notin Marked'
  BY WhoIsWho DEF Reached, Dying, Born, Line, Dies, Ending, Gone
<1>2. Line(s)' = Line(s)
  BY DEF Line
<1>3. \A p \in Line(s) : (p \notin Processes \/ ~Dies(p)) /\ p \notin Marked
  BY <1>1, <1>2
<1>4. Born(s)
  BY <1>1 DEF Born
<1> QED BY <1>1, <1>3, <1>4, WhoIsReached

(* Steps after which the same services can be reached.                     *)
LEMMA SameReached ==
  ASSUME above' = above, Marked' = Marked,
         \A p \in Processes : (pc'[p] = "unborn" <=> pc[p] = "unborn") /\ (Dies(p)' <=> Dies(p))
  PROVE  Reached' = Reached
BY WhoIsWho DEF Reached, Dying, Dies, Ending, Gone

(* Marks are kept in the lists of children.                                *)
LEMMA SameMarked ==
  ASSUME kids' = kids
  PROVE  Marked' = Marked
BY DEF Marked, Child

LEMMA MoreMarked ==
  ASSUME Types, SameTree,
         \A p \in Processes : \A k \in DOMAIN kids[p] : kids[p][k].killed => kids'[p][k].killed
  PROVE  Marked \subseteq Marked'
<1> SUFFICES ASSUME NEW s \in Marked
             PROVE  s \in Marked'
  OBVIOUS
<1>1. PICK p \in Processes : \E k \in DOMAIN kids[p] : kids[p][k].killed /\ Child(p, k) = s
  BY WhoIsMarked
<1>2. PICK k \in DOMAIN kids[p] : kids[p][k].killed /\ Child(p, k) = s
  BY <1>1
<1>3. k \in DOMAIN kids'[p] /\ kids'[p][k].killed /\ Child(p, k)' = s
  BY <1>2, TreeSame DEF SameTree
<1> QED BY <1>3, WhoIsMarked DEF Marked

(* A service that the request has come to can be reached until it is told  *)
(* to die: those above it ask it or one another through open pipes.        *)
LEMMA AskedReached ==
  ASSUME IInv, NEW s \in Services, Asked(s), ~Dies(s)
  PROVE  s \in Reached /\ pc[Manager] = "asking"
<1>a. Types /\ TreeInv /\ PipeInv /\ PathInv /\ RequestInv /\ LoopInv
  BY DEF IInv
<1>b. s \in Processes
  BY WhoIsWho
<1>1. Born(s) /\ Manager \in above[s]
  BY <1>a, BusyBorn, RequestIsNoName DEF TreeInv
<1>2. \A p \in above[s] : AsksToward(p, s)
  BY <1>a DEF PathInv
<1>3. \A p \in Line(s) : ~Dies(p)
  BY <1>2 DEF Line, Dies, Ending, Gone, AsksToward
<1>4. ASSUME NEW p \in Line(s), p \in Marked
      PROVE  FALSE
  <2>1. PICK q \in Processes : \E k \in DOMAIN kids[q] : kids[q][k].killed /\ Child(q, k) = p
    BY <1>4, WhoIsMarked
  <2>2. PICK k \in DOMAIN kids[q] : kids[q][k].killed /\ Child(q, k) = p
    BY <2>1
  <2>3. q \in above[s]
    BY <1>a, <1>b, <1>4, <2>2, ChildOnLine
  <2>4. pc[q] = "asking" /\ Child(q, at[q]) \in Line(s)
    BY <1>2, <2>3 DEF AsksToward
  <2>5. at[q] \in DOMAIN kids[q] /\ ~kids[q][at[q]].killed
    BY <1>a, <2>4 DEF LoopInv
  <2>6. k = at[q]
    BY <1>a, <1>b, <1>4, <2>2, <2>3, <2>4, <2>5, ThroughOneChild
  <2> QED BY <2>2, <2>5, <2>6
<1> QED BY <1>1, <1>2, <1>3, <1>4, WhoIsReached DEF AsksToward

-----------------------------------------------------------------------------
(* Steps that change little.                                               *)

LEMMA SeeksSame ==
  ASSUME Types, SameTree, Request' = Request
  PROVE  Seeks' <=> Seeks
<1>1. Request.b \in Processes
  BY Typed DEF Messages
<1>2. Born(Request.b)' <=> Born(Request.b)
  BY <1>1, TreeSame DEF Born
<1> QED BY <1>2 DEF Seeks

(* The search has not come further than to services that are not on the    *)
(* line of the one it looks for.                                           *)
LEMMA FindSame ==
  ASSUME Types, FindInv, SameTree, Reached' \subseteq Reached, Request' = Request,
         Sought =>
           /\ \A p \in Processes : \A k \in Done(p)' :
                k \in Done(p) \/ Child(p, k) \notin Line(Request.a)
           /\ \A s \in Services : up'[s] = <<"not">> =>
                up[s] = <<"not">> \/ s \notin Line(Request.a)
  PROVE  FindInv'
<1>1. Sought' => Sought
  BY SeeksSame DEF Sought
<1>2. Line(Request.a)' = Line(Request.a)
  BY DEF Line, SameTree
<1> SUFFICES ASSUME Sought
             PROVE  /\ \A p \in Processes : \A k \in Done(p)' :
                         Child(p, k)' \notin Line(Request.a)
                    /\ \A s \in Services : up'[s] = <<"not">> => s \notin Line(Request.a)
  BY <1>1, <1>2 DEF FindInv
<1>3. \A s \in Services : up'[s] = <<"not">> => s \notin Line(Request.a)
  BY DEF FindInv
<1>4. ASSUME NEW p \in Processes, NEW k \in Done(p)'
      PROVE  Child(p, k)' \notin Line(Request.a)
  <2>1. k \in DOMAIN kids[p]
    BY DEF Done, SameTree
  <2>2. Child(p, k)' = Child(p, k)
    BY <2>1, TreeSame
  <2> QED BY <2>2 DEF FindInv
<1> QED BY <1>3, <1>4

(* Whoever is marked killed was marked before, or somebody under it is     *)
(* gone.                                                                   *)
LEMMA MarkSame ==
  ASSUME Types, ParentInv, MarkInv, SameTree,
         \A p \in Processes : pc[p] \in Ending \union Gone => pc'[p] \in Ending \union Gone,
         \A s \in Services : pc[s] \in Gone => pc'[s] \in Gone,
         \A p \in Processes : \A k \in DOMAIN kids[p] : \A c \in Services : c = Child(p, k) =>
           /\ kids'[p][k].killed =>
                kids[p][k].killed \/ \E t \in Services : pc'[t] \in Gone /\ c \in Line(t)
           /\ kids[p][k].killed => kids'[p][k].killed
           /\ pc'[c] \in Gone =>
                \/ pc[c] \in Gone
                \/ up'[c] # << >>
                \/ pc'[p] \in Ending \union Gone
           /\ pc'[c] \in Gone /\ up[c] # << >> => up'[c] # << >> \/ kids'[p][k].killed
  PROVE  ParentInv' /\ MarkInv'
<1>1. ParentInv'
  <2> SUFFICES ASSUME NEW s \in Services, Born(s)'
               PROVE  \E p \in Processes : \E k \in DOMAIN kids'[p] : Child(p, k)' = s
    BY DEF ParentInv
  <2>1. Born(s)
    BY WhoIsWho DEF SameTree, Born
  <2>2. PICK p \in Processes : \E k \in DOMAIN kids[p] : Child(p, k) = s
    BY <2>1 DEF ParentInv
  <2>3. PICK k \in DOMAIN kids[p] : Child(p, k) = s
    BY <2>2
  <2>4. k \in DOMAIN kids'[p] /\ Child(p, k)' = s
    BY <2>3, TreeSame DEF SameTree
  <2> QED BY <2>4
<1>2. ASSUME NEW p \in Processes, NEW k \in DOMAIN kids'[p]
      PROVE  /\ kids'[p][k].killed =>
                  \E t \in Services : pc'[t] \in Gone /\ Child(p, k)' \in Line(t)'
             /\ pc'[Child(p, k)'] \in Gone =>
                  \/ kids'[p][k].killed
                  \/ up'[Child(p, k)'] # << >>
                  \/ pc'[p] \in Ending \union Gone
  <2>1. k \in DOMAIN kids[p]
    BY DEF SameTree
  <2>2. PICK c \in Services : c = Child(p, k) /\ Child(p, k)' = c
    BY <2>1, Typed, TreeSame
  <2>3. /\ kids[p][k].killed => \E t \in Services : pc[t] \in Gone /\ c \in Line(t)
        /\ pc[c] \in Gone =>
             kids[p][k].killed \/ up[c] # << >> \/ pc[p] \in Ending \union Gone
    BY <2>1, <2>2 DEF MarkInv
  <2>4. \A t : Line(t)' = Line(t)
    BY TreeSame
  <2> QED BY <2>1, <2>2, <2>3, <2>4
<1> QED BY <1>1, <1>2 DEF MarkInv

(* What a yes meant it still means.                                        *)
LEMMA AnswerSame ==
  ASSUME AnswerInv, Request' = Request, above' = above,
         Request.op = "spawn" /\ Born(Request.b) => Born(Request.b)',
         pc'[Manager] \in {"search", "asking"} => pc[Manager] \in {"search", "asking"},
         Request.op = "find" => Reached \subseteq Reached',
         \A s \in Services : Yes(s)' =>
           /\ \/ \E t \in Services : Yes(t)
              \/ /\ Request.op = "find" => Request.a \in Reached
                 /\ Request.op = "spawn" => Born(Request.b)'
           /\ Request.op = "kill" => s \in Line(Request.a),
         Request.op = "kill" /\ pc'[Manager] \in {"search", "asking"} =>
           /\ Request.a \in Reached =>
                \/ Request.a \in Reached' \/ pc'[Request.a] \in Ending
                \/ \E s \in Services : Yes(s)'
           /\ pc[Request.a] \in Ending =>
                pc'[Request.a] \in Ending \/ \E s \in Services : Yes(s)'
           /\ (\E s \in Services : Yes(s)) => \E s \in Services : Yes(s)'
  PROVE  AnswerInv'
<1>0. Line(Request.a)' = Line(Request.a)
  BY DEF Line
<1>1. ASSUME NEW s \in Services, Yes(s)'
      PROVE  /\ Request.op = "find" => Request.a \in Reached'
             /\ Request.op = "spawn" => Born(Request.b)'
             /\ Request.op = "kill" => s \in Line(Request.a)
  BY <1>1 DEF AnswerInv
<1>2. ASSUME Request.op = "kill", pc'[Manager] \in {"search", "asking"}
      PROVE  \/ Request.a \in Reached' \/ pc'[Request.a] \in Ending
             \/ \E s \in Services : Yes(s)'
  BY <1>2 DEF AnswerInv
<1>3. \A s \in Services : Yes(s)' =>
           /\ Request.op = "find" => Request.a \in Reached'
           /\ Request.op = "spawn" => Born(Request.b)'
           /\ Request.op = "kill" => s \in Line(Request.a)
  BY <1>1
<1> QED BY <1>0, <1>2, <1>3 DEF AnswerInv

(* Whoever begins to die during a kill is its target or under it, so that  *)
(* the target can be reached until it dies itself.                         *)
LEMMA ReachedTillItDies ==
  ASSUME IInv, NEW x \in Processes, above' = above, Marked' = Marked,
         \A q \in Processes : q # x => pc'[q] = pc[q],
         pc[x] # "unborn", pc'[x] # "unborn",
         NEW t \in Reached, t \in Line(x), pc'[x] \in Ending
  PROVE  t \in Reached' \/ pc'[t] \in Ending
<1> SUFFICES ASSUME t # x
             PROVE  t \in Reached'
  OBVIOUS
<1>a. TreeInv
  BY DEF IInv
<1>1. t \in Services /\ t \in Processes
  BY WhoIsReached, WhoIsWho
<1>2. t \in above[x]
  BY DEF Line
<1>3. x \notin Line(t)
  BY <1>a, <1>2 DEF TreeInv, Line
<1>4. \A p \in Line(t) : (p \notin Processes \/ ~Dies(p)) /\ p \notin Marked
  BY WhoIsReached
<1>5. Born(t)' <=> Born(t)
  BY <1>1 DEF Born
<1>6. \A p \in Line(t) : (p \notin Processes \/ ~Dies(p)') /\ p \notin Marked'
  BY <1>3, <1>4 DEF Dies
<1>7. Line(t)' = Line(t)
  BY DEF Line
<1>8. Born(t)
  BY WhoIsReached
<1> QED BY <1>1, <1>5, <1>6, <1>7, <1>8 DEF Reached, Dying, Born, Line, Dies, Ending, Gone

(* What one process does without a word to its parent.                     *)
LEMMA PlainKeeps ==
  ASSUME ReachInv, NEW x \in Processes, UNCHANGED <<kids, above, up>>, Request' = Request,
         pc'[Manager] \in {"search", "asking"} => pc[Manager] \in {"search", "asking"},
         \A q \in Processes : q # x => pc'[q] = pc[q] /\ at'[q] = at[q],
         pc'[x] # "unborn" /\ pc[x] # "unborn",
         x # Manager => (pc[x] \in Gone <=> pc'[x] \in Gone),
         pc[x] \in Ending \union Gone => pc'[x] \in Ending \union Gone,
         Dies(x)' /\ ~Dies(x) =>
           /\ pc'[x] \in Ending /\ Request.op # "find"
           /\ Request.op = "kill" => Request.a \in Line(x),
         Sought => \A k \in Done(x)' :
           k \in Done(x) \/ Child(x, k) \notin Line(Request.a)
  PROVE  ParentInv' /\ MarkInv' /\ FindInv' /\ AnswerInv'
<1>a. IInv /\ Types /\ TreeInv /\ ParentInv /\ MarkInv /\ FindInv /\ AnswerInv
  BY DEF ReachInv, IInv
<1>1. SameTree
  BY DEF SameTree
<1>2. Marked' = Marked
  BY SameMarked
<1>3. \A s \in Services : pc[s] \in Gone <=> pc'[s] \in Gone
  BY WhoIsWho
<1>4. ParentInv' /\ MarkInv'
  <2>1. \A p \in Processes : pc[p] \in Ending \union Gone => pc'[p] \in Ending \union Gone
    OBVIOUS
  <2> QED BY <1>a, <1>1, <1>3, <2>1, MarkSame
<1>5. \A p \in Processes : /\ pc'[p] = "unborn" <=> pc[p] = "unborn"
                           /\ Dies(p) => Dies(p)'
                           /\ p # x => (Dies(p)' <=> Dies(p))
  BY DEF Dies
<1>6. Reached' \subseteq Reached
  BY <1>a, <1>2, <1>5, FewerReached
<1>7. FindInv'
  <2>1. \A p \in Processes : p # x => Done(p)' = Done(p)
    BY DEF Done
  <2> QED BY <1>a, <1>1, <1>6, <2>1, FindSame
<1>8. ~(Dies(x)' /\ ~Dies(x)) => Reached' = Reached
  BY <1>2, <1>5, SameReached
<1>9. AnswerInv'
  <2>1. \A s \in Services : Yes(s)' <=> Yes(s)
    BY DEF Yes
  <2>2. Born(Request.b)' <=> Born(Request.b)
    <3>1. Request.b \in Processes
      BY <1>a, Typed DEF Messages
    <3> QED BY <1>a, <1>1, <3>1, TreeSame DEF Born
  <2>3. Request.op = "find" => Reached \subseteq Reached'
    BY <1>8
  <2>4. ASSUME Request.op = "kill", Request.a \in Reached
        PROVE  Request.a \in Reached' \/ pc'[Request.a] \in Ending
    <3>1. CASE Dies(x)' /\ ~Dies(x)
      <4>1. PICK t \in Reached : t = Request.a
        BY <2>4
      <4>2. t \in Line(x) /\ pc'[x] \in Ending
        BY <2>4, <3>1, <4>1
      <4>3. t \in Reached' \/ pc'[t] \in Ending
        BY <1>a, <1>2, <4>2, ReachedTillItDies
      <4> QED BY <4>1, <4>3
    <3>2. CASE ~(Dies(x)' /\ ~Dies(x))
      BY <1>8, <2>4, <3>2
    <3> QED BY <3>1, <3>2
  <2>5. ASSUME pc'[Manager] \in {"search", "asking"}, pc[Request.a] \in Ending
        PROVE  pc'[Request.a] \in Ending
    <3>1. Request.a \in Processes
      BY <1>a, Typed DEF Messages
    <3>2. Request.a # Manager
      BY <2>5 DEF Ending
    <3>3. CASE x = Request.a
      <4>1. pc[x] \notin Gone /\ pc'[x] \notin Gone /\ pc'[x] \in Ending \union Gone
        BY <2>5, <3>2, <3>3 DEF Ending, Gone
      <4> QED BY <3>3, <4>1
    <3>4. CASE x # Request.a
      BY <2>5, <3>1, <3>4
    <3> QED BY <3>3, <3>4
  <2>6. \A s \in Services : Yes(s)' =>
           /\ \E t \in Services : Yes(t)
           /\ Request.op = "kill" => s \in Line(Request.a)
    BY <1>a, <2>1 DEF AnswerInv
  <2> QED BY <1>a, <2>1, <2>2, <2>3, <2>4, <2>5, <2>6, AnswerSame
<1> QED BY <1>4, <1>7, <1>9

-----------------------------------------------------------------------------
(* The steps that read or write no answer.                                 *)

(* The loop passes over children that are marked, and no service that can  *)
(* be reached is under them.                                               *)
LEMMA AskReach ==
  ASSUME ReachInv, NEW x \in Processes, pc[x] = "search", Ask(x)
  PROVE  ParentInv' /\ MarkInv' /\ FindInv' /\ AnswerInv'
<1>a. Types
  BY DEF ReachInv, IInv
<1>b. PICK k \in Nat : k = Min(ToAsk(x, at[x])) /\ k \in ToAsk(x, at[x])
                       /\ \A j \in ToAsk(x, at[x]) : k <= j
  <2>1. ToAsk(x, at[x]) # {} /\ ToAsk(x, at[x]) \subseteq Nat
    BY <1>a, Typed DEF Ask, ToAsk
  <2> QED BY <2>1, MinIs
<1>1. /\ pc'[x] = "asking" /\ at'[x] = k
      /\ \A q \in Processes : q # x => pc'[q] = pc[q] /\ at'[q] = at[q]
  BY <1>a, <1>b DEF Types, Ask
<1>2. UNCHANGED <<kids, above, up>> /\ Request' = Request
  BY DEF Ask, tree, Request
<1>3. ASSUME Sought, NEW j \in Done(x)'
      PROVE  j \in Done(x) \/ Child(x, j) \notin Line(Request.a)
  <2>1. j \in DOMAIN kids[x] /\ j < k
    BY <1>1, <1>2 DEF Done
  <2>2. CASE j <= at[x]
    BY <2>1, <2>2 DEF Done
  <2>3. CASE ~(j <= at[x])
    <3>1. j \in Nat /\ at[x] \in Nat /\ DOMAIN kids[x] = 1..Len(kids[x]) /\ Len(kids[x]) \in Nat
      BY <1>a, <2>1, Typed
    <3>2. j \notin ToAsk(x, at[x])
      BY <1>b, <2>1, <3>1
    <3>3. j \in at[x] + 1..Len(kids[x])
      BY <2>1, <2>3, <3>1
    <3>4. kids[x][j].killed
      BY <3>2, <3>3 DEF ToAsk
    <3>5. Child(x, j) \in Marked
      BY <1>a, <2>1, <3>4, MarkedChild
    <3> QED BY <1>3, <3>5, WhoIsReached DEF Sought
  <2> QED BY <2>2, <2>3
<1>4. x # Manager => (pc[x] \in Gone <=> pc'[x] \in Gone)
  BY <1>1 DEF Gone
<1>5. pc[x] \notin Ending \union Gone /\ ~Dies(x)'
  BY <1>1 DEF Ending, Gone, Dies
<1>6. pc'[Manager] \in {"search", "asking"} => pc[Manager] \in {"search", "asking"}
  BY <1>1, WhoIsWho
<1> QED BY <1>1, <1>2, <1>3, <1>4, <1>5, <1>6, PlainKeeps

(* A step to a place that is no loop.                                      *)
LEMMA NoLoopReach ==
  ASSUME ReachInv, NEW x \in Processes,
         UNCHANGED <<kids, above, up>>, Request' = Request,
         \A q \in Processes : q # x => pc'[q] = pc[q] /\ at'[q] = at[q],
         \/ pc'[x] \notin {"search", "asking"}
         \/ pc'[x] = "search" /\ at'[x] = 0 /\ x # Manager,
         pc'[x] # "unborn" /\ pc[x] # "unborn",
         x # Manager => (pc[x] \in Gone <=> pc'[x] \in Gone),
         pc[x] \in Ending \union Gone => pc'[x] \in Ending \union Gone,
         Dies(x)' /\ ~Dies(x) =>
           /\ pc'[x] \in Ending /\ Request.op # "find"
           /\ Request.op = "kill" => Request.a \in Line(x)
  PROVE  ParentInv' /\ MarkInv' /\ FindInv' /\ AnswerInv'
<1>a. Types
  BY DEF ReachInv, IInv
<1>1. \A k \in DOMAIN kids[x] : k \in Nat /\ ~(k <= 0)
  BY <1>a, Typed
<1>2. Done(x)' = {}
  BY <1>1 DEF Done
<1>3. pc'[Manager] \in {"search", "asking"} => pc[Manager] \in {"search", "asking"}
  BY WhoIsWho
<1> QED BY <1>2, <1>3, PlainKeeps

(* Whoever is told to die is the target of the kill or under it.           *)
LEMMA DiesUnderTarget ==
  ASSUME IInv, NEW s \in Services, Receive(s), MustDie(s, Head(down[s]))
  PROVE  Request.op = "kill" /\ Request.a \in Line(s)
<1>a. Types /\ PipeInv /\ RequestInv /\ KillInv
  BY DEF IInv
<1>1. pc[s] = "idle" /\ down[s] # << >>
  BY DEF Receive
<1>2. Head(down[s]) \in {Request, Dead} /\ Holds(s, Head(down[s]))
  BY <1>a, <1>1, FirstLetter
<1>3. CASE Head(down[s]) = Dead
  <2>1. Told(s)
    BY <1>2, <1>3 DEF Told
  <2> QED BY <1>a, <2>1 DEF KillInv
<1>4. CASE Head(down[s]) = Request
  BY <1>a, <1>4 DEF MustDie, RequestInv, ReqOps, Line
<1> QED BY <1>2, <1>3, <1>4

(* All steps of this sort.                                                 *)
LEMMA PlainReach ==
  ASSUME ReachInv, NEW x \in Processes,
         \/ pc[x] = "search" /\ Ask(x)
         \/ \E skip \in BOOLEAN : Tell(x, skip)
         \/ WaitNull(x)
         \/ x \in Services /\ (ReadName(x) \/ Receive(x) \/ ExitProcess(x))
         \/ x = Manager /\ (ManagerGivesUp \/ ManagerEnds)
  PROVE  ParentInv' /\ MarkInv' /\ FindInv' /\ AnswerInv'
<1>a. IInv /\ Types
  BY DEF ReachInv, IInv
<1>1. CASE pc[x] = "search" /\ Ask(x)
  BY <1>1, AskReach
<1>2. CASE \E skip \in BOOLEAN : Tell(x, skip)
  <2>1. PICK skip \in BOOLEAN : Tell(x, skip)
    BY <1>2
  <2>2. /\ pc[x] = "telling" /\ UNCHANGED <<kids, above, up, msg>>
        /\ \/ pc' = pc /\ at' = [at EXCEPT ![x] = @ + 1]
           \/ pc' = [pc EXCEPT ![x] = "waiting"] /\ at' = at
    BY <2>1 DEF Tell
  <2>3. /\ pc'[x] \in {"telling", "waiting"}
        /\ \A q \in Processes : q # x => pc'[q] = pc[q] /\ at'[q] = at[q]
        /\ Request' = Request
    BY <1>a, <2>2 DEF Types, Request
  <2> QED BY <2>2, <2>3, NoLoopReach DEF Ending, Gone, Dies
<1>3. CASE WaitNull(x)
  <2>1. /\ pc[x] = "waiting" /\ UNCHANGED <<kids, above, up, msg>>
        /\ pc' = [pc EXCEPT ![x] = "telling"] /\ at' = [at EXCEPT ![x] = @ + 1]
    BY <1>3 DEF WaitNull, tree, pipes
  <2>2. /\ pc'[x] = "telling"
        /\ \A q \in Processes : q # x => pc'[q] = pc[q] /\ at'[q] = at[q]
        /\ Request' = Request
    BY <1>a, <2>1 DEF Types, Request
  <2> QED BY <2>1, <2>2, NoLoopReach DEF Ending, Gone, Dies
<1>4. CASE x \in Services /\ ReadName(x)
  <2>1. /\ pc[x] = "naming" /\ UNCHANGED <<kids, above, up, msg, at>>
        /\ pc' = [pc EXCEPT ![x] = "idle"]
    BY <1>4 DEF ReadName, tree
  <2>2. /\ pc'[x] = "idle"
        /\ \A q \in Processes : q # x => pc'[q] = pc[q] /\ at'[q] = at[q]
        /\ Request' = Request
    BY <1>a, <2>1 DEF Types, Request
  <2> QED BY <2>1, <2>2, NoLoopReach DEF Ending, Gone, Dies
<1>5. CASE x \in Services /\ Receive(x)
  <2> DEFINE m == Head(down[x])
  <2>1. /\ pc[x] = "idle" /\ UNCHANGED <<kids, above, up>>
        /\ msg' = [msg EXCEPT ![x] = m]
        /\ pc' = [pc EXCEPT ![x] =
                    IF MustDie(x, m) THEN "telling"
                    ELSE IF For(m) = x THEN "found" ELSE "search"]
        /\ at' = [at EXCEPT ![x] = IF MustDie(x, m) THEN 1 ELSE 0]
    BY <1>5 DEF Receive, tree
  <2>2. x # Manager /\ Manager \in Processes
    BY <1>5, WhoIsWho
  <2>3. /\ \/ pc'[x] \in {"telling", "found"}
           \/ pc'[x] = "search" /\ at'[x] = 0 /\ x # Manager
        /\ \A q \in Processes : q # x => pc'[q] = pc[q] /\ at'[q] = at[q]
        /\ Request' = Request
        /\ pc'[x] = "telling" => MustDie(x, m)
    BY <1>a, <2>1, <2>2 DEF Types, Request
  <2>4. pc'[x] = "telling" => Request.op = "kill" /\ Request.a \in Line(x)
    BY <1>a, <1>5, <2>3, DiesUnderTarget
  <2> QED BY <2>1, <2>3, <2>4, NoLoopReach DEF Ending, Gone, Dies
<1>6. CASE x \in Services /\ ExitProcess(x)
  <2>1. /\ pc[x] = "leaving" /\ UNCHANGED <<kids, above, up, msg, at>>
        /\ pc' = [pc EXCEPT ![x] = "exited"]
    BY <1>6 DEF ExitProcess, tree, pipes
  <2>2. /\ pc'[x] = "exited"
        /\ \A q \in Processes : q # x => pc'[q] = pc[q] /\ at'[q] = at[q]
        /\ Request' = Request
    BY <1>a, <2>1 DEF Types, Request
  <2> QED BY <2>1, <2>2, NoLoopReach DEF Ending, Gone, Dies
<1>7. CASE x = Manager /\ (ManagerGivesUp \/ ManagerEnds)
  <2>1. /\ pc[x] \in {"search", "telling"} /\ UNCHANGED <<kids, above, up, msg, at>>
        /\ \/ pc' = [pc EXCEPT ![x] = "idle"] /\ pc[x] = "search"
           \/ pc' = [pc EXCEPT ![x] = "exited"] /\ pc[x] = "telling"
    BY <1>7 DEF ManagerGivesUp, ManagerEnds, tree, pipes
  <2>2. /\ \/ pc'[x] = "exited" /\ pc[x] = "telling"
           \/ pc'[x] = "idle" /\ pc[x] = "search"
        /\ \A q \in Processes : q # x => pc'[q] = pc[q] /\ at'[q] = at[q]
        /\ Request' = Request
    BY <1>a, <2>1 DEF Types, Request
  <2> QED BY <1>7, <2>1, <2>2, NoLoopReach DEF Ending, Gone, Dies
<1> QED BY <1>1, <1>2, <1>3, <1>4, <1>5, <1>6, <1>7

-----------------------------------------------------------------------------
(* The steps that write an answer.                                         *)

(* A process whose loop has come to its end is not on the line to the      *)
(* service that is looked for.                                             *)
LEMMA SearchedAll ==
  ASSUME ReachInv, NEW p \in Processes, pc[p] = "search",
         ToAsk(p, at[p]) = {}, Sought, Request.a # p
  PROVE  p \notin Line(Request.a)
<1>a. Types /\ TreeInv /\ FindInv
  BY DEF ReachInv, IInv
<1>1. ASSUME NEW k \in DOMAIN kids[p]
      PROVE  Child(p, k) \notin Line(Request.a)
  <2>1. /\ k \in Nat /\ at[p] \in Nat /\ DOMAIN kids[p] = 1..Len(kids[p]) /\ Len(kids[p]) \in Nat
    BY <1>a, Typed
  <2>2. CASE k <= at[p]
    BY <1>a, <2>2 DEF FindInv, Done
  <2>3. CASE ~(k <= at[p])
    <3>1. k \in at[p] + 1..Len(kids[p])
      BY <2>1, <2>3
    <3>2. kids[p][k].killed
      BY <3>1 DEF ToAsk
    <3>3. Child(p, k) \in Marked
      BY <1>a, <3>2, MarkedChild
    <3> QED BY <3>3, WhoIsReached DEF Sought
  <2> QED BY <2>2, <2>3
<1>2. Request.a \in Processes
  BY WhoIsReached, WhoIsWho DEF Sought
<1>3. p \notin above[Request.a]
  BY <1>a, <1>1, <1>2, ThroughOneChild
<1> QED BY <1>3 DEF Line

(* A service answers "not" when no child is left to be asked, and "yes" to *)
(* a request for itself.                                                   *)
LEMMA AnswerReach ==
  ASSUME ReachInv, NEW x \in Services, NEW r \in {"yes", "not"},
         \/ pc[x] = "search" /\ r = "not" /\ ToAsk(x, at[x]) = {}
         \/ pc[x] = "found" /\ r = "yes" /\ Request.op # "spawn",
         Reply(x, r), pc' = [pc EXCEPT ![x] = "idle"],
         UNCHANGED <<msg, at, kids, above>>
  PROVE  ParentInv' /\ MarkInv' /\ FindInv' /\ AnswerInv'
<1>a. /\ IInv /\ Types /\ PipeInv /\ RequestInv
      /\ ParentInv /\ MarkInv /\ FindInv /\ AnswerInv
  BY DEF ReachInv, IInv
<1>b. x \in Processes /\ x # Manager
  BY WhoIsWho
<1>c. up[x] = << >>
  BY <1>a DEF PipeInv, Gone
<1>1. /\ pc'[x] = "idle" /\ \A q \in Processes : q # x => pc'[q] = pc[q]
      /\ Request' = Request
  BY <1>a, <1>b DEF Types, Request
<1>2. \A s \in Services : s # x => up'[s] = up[s]
  BY <1>a DEF Reply, Types
<1>3. up'[x] = <<r>>
  <2>1. up'[x] = Append(up[x], r)
    BY <1>a DEF Reply, Types
  <2> QED BY <1>c, <2>1, Pipes
<1>4. SameTree
  BY <1>b, <1>1 DEF SameTree
<1>d. <<"yes">> # <<"not">> /\ <<"not">> # <<"yes">>
  BY Pipes, Zenon
<1>5. Reached' = Reached
  <2>1. \A p \in Processes : (pc'[p] = "unborn" <=> pc[p] = "unborn") /\ (Dies(p)' <=> Dies(p))
    BY <1>1 DEF Dies, Ending, Gone
  <2> QED BY <2>1, SameMarked, SameReached
<1>6. ParentInv' /\ MarkInv'
  <2>1. \A s \in Services : (pc'[s] \in Gone <=> pc[s] \in Gone) /\ (up[s] # << >> => up'[s] # << >>)
    <3>1. \A s \in Services : pc'[s] \in Gone <=> pc[s] \in Gone
      BY <1>b, <1>1, WhoIsWho DEF Gone
    <3> QED BY <1>2, <1>c, <3>1
  <2>2. \A p \in Processes : pc[p] \in Ending \union Gone => pc'[p] \in Ending \union Gone
    BY <1>1 DEF Ending, Gone
  <2> QED BY <1>a, <1>4, <2>1, <2>2, MarkSame
<1>7. FindInv'
  <2>1. \A p \in Processes : Done(p)' \subseteq Done(p)
    BY <1>1 DEF Done
  <2>2. ASSUME Sought, up'[x] = <<"not">>
        PROVE  x \notin Line(Request.a)
    <3>1. pc[x] = "search" /\ ToAsk(x, at[x]) = {}
      BY <1>3, <1>d, <2>2
    <3>2. Request.a # x
      BY <1>a, <2>2, <3>1 DEF RequestInv, For, Seeks, Sought
    <3> QED BY <1>b, <2>2, <3>1, <3>2, SearchedAll
  <2> QED BY <1>a, <1>1, <1>2, <1>4, <1>5, <2>1, <2>2, FindSame
<1>8. AnswerInv'
  <2>1. \A s \in Services : Yes(s) => Yes(s)'
    BY <1>2, <1>c DEF Yes
  <2>2. ASSUME NEW s \in Services, Yes(s)', ~Yes(s)
        PROVE  /\ Request.op \notin {"spawn", "kill"}
               /\ Request.op = "find" => Request.a \in Reached
    <3>1. s = x /\ r = "yes"
      BY <1>2, <1>3, <2>2 DEF Yes
    <3>2. For(Request) = x /\ pc[x] = "found" /\ Request.op \notin {"spawn", "kill"}
      BY <1>a, <3>1 DEF RequestInv
    <3>3. x \in Reached
      BY <1>a, <3>2, AskedReached DEF Asked, Dies, Ending, Gone
    <3> QED BY <3>2, <3>3 DEF For
  <2>3. Born(Request.b) => Born(Request.b)'
    BY <1>1, WhoIsWho, Typed, <1>a DEF Born, Messages
  <2>4. pc'[Manager] = pc[Manager]
    BY <1>b, <1>1, WhoIsWho
  <2>5. \A s \in Services : Yes(s)' =>
           /\ \/ \E t \in Services : Yes(t)
              \/ (Request.op = "find" => Request.a \in Reached) /\ Request.op # "spawn"
           /\ Request.op = "kill" => s \in Line(Request.a)
    BY <1>a, <2>2 DEF AnswerInv
  <2>6. pc[Request.a] \in Ending => pc'[Request.a] \in Ending
    BY <1>1, <1>a, Typed DEF Ending, Messages
  <2> QED BY <1>1, <1>5, <1>a, <2>1, <2>3, <2>4, <2>5, <2>6, AnswerSame
<1> QED BY <1>6, <1>7, <1>8

(* Whoever was told to die has a parent that dies.                         *)
LEMMA ToldByParent ==
  ASSUME IInv, ParentInv, NEW s \in Services, Told(s)
  PROVE  \E p \in above[s] : Kills(p)
<1>a. Types /\ TreeInv /\ PipeInv /\ TurnInv /\ RequestInv
  BY DEF IInv
<1>1. Born(s)
  BY <1>a, BusyBorn, RequestIsNoName
<1>2. PICK p \in Processes : \E k \in DOMAIN kids[p] : Child(p, k) = s
  BY <1>1 DEF ParentInv
<1>3. PICK k \in DOMAIN kids[p] : Child(p, k) = s
  BY <1>2
<1>4. Kills(p)
  BY <1>a, <1>3 DEF TurnInv
<1>5. p \in above[s]
  BY <1>a, <1>3, ChildFacts
<1> QED BY <1>4, <1>5

(* Whoever leaves has the pipes closed by a parent that dies, or answers.  *)
LEMMA LeaveReach ==
  ASSUME ReachInv, NEW x \in Services, Leave(x)
  PROVE  ParentInv' /\ MarkInv' /\ FindInv' /\ AnswerInv'
<1>a. /\ IInv /\ Types /\ TreeInv /\ PipeInv /\ RequestInv /\ TurnInv /\ KillInv
      /\ ParentInv /\ MarkInv /\ FindInv /\ AnswerInv
  BY DEF ReachInv, IInv
<1>b. x \in Processes /\ x # Manager /\ pc[x] = "telling"
  BY WhoIsWho DEF Leave
<1>c. up[x] = << >>
  BY <1>a, <1>b DEF PipeInv, Gone
<1>0. UNCHANGED <<msg, at, kids, above>>
  BY DEF Leave, tree
<1>1. /\ pc'[x] = "leaving" /\ \A q \in Processes : q # x => pc'[q] = pc[q]
      /\ Request' = Request
  BY <1>a, <1>b, <1>0 DEF Leave, Types, Request
<1>2. \A s \in Services : s # x => up'[s] = up[s]
  BY <1>a DEF Leave, Reply, Types
<1>3. \/ msg[x].op = "kill" /\ up'[x] = <<"yesn">>
      \/ msg[x].op = "dead" /\ up'[x] = << >>
  <2>1. CASE msg[x].op = "kill"
    <3>1. up'[x] = Append(up[x], "yesn")
      BY <1>a, <2>1 DEF Leave, Reply, Types
    <3> QED BY <1>c, <2>1, <3>1, Pipes
  <2>2. CASE msg[x].op # "kill"
    BY <1>a, <1>b, <1>c, <2>2 DEF Leave, RequestInv, Ending
  <2> QED BY <2>1, <2>2
<1>4. SameTree
  BY <1>0, <1>b, <1>1 DEF SameTree
<1>5. Reached' = Reached
  <2>1. \A p \in Processes : (pc'[p] = "unborn" <=> pc[p] = "unborn") /\ (Dies(p)' <=> Dies(p))
    BY <1>b, <1>1 DEF Dies, Ending, Gone
  <2> QED BY <1>0, <2>1, SameMarked, SameReached
<1>d. << >> # <<"not">> /\ <<"yesn">> # <<"not">> /\ <<"yesn">> # << >>
  BY Pipes, Zenon
<1>6. ParentInv' /\ MarkInv'
  <2>1. \A s \in Services : up[s] # << >> => up'[s] # << >>
    BY <1>2, <1>c
  <2>2. \A p \in Processes : pc[p] \in Ending \union Gone => pc'[p] \in Ending \union Gone
    BY <1>1 DEF Ending, Gone
  <2>3. \A s \in Services : pc[s] \in Gone => pc'[s] \in Gone
    BY <1>1, WhoIsWho DEF Gone
  <2>4. ASSUME NEW p \in Processes, NEW k \in DOMAIN kids[p], NEW c \in Services, c = Child(p, k),
               pc'[c] \in Gone
        PROVE  \/ pc[c] \in Gone
               \/ up'[c] # << >>
               \/ pc'[p] \in Ending \union Gone
    <3>1. CASE c # x
      BY <1>1, <2>4, <3>1, WhoIsWho
    <3>2. CASE c = x /\ msg[x].op = "kill"
      BY <1>3, <1>d, <3>2
    <3>3. CASE c = x /\ msg[x].op = "dead"
      <4>1. Told(c)
        BY <1>b, <3>3 DEF Told, Ending
      <4>2. Kills(p)
        BY <1>a, <2>4, <4>1 DEF TurnInv
      <4>3. pc[p] \in Ending \union Gone
        BY <4>2 DEF Kills, Gone
      <4> QED BY <2>2, <4>3
    <3> QED BY <1>3, <3>1, <3>2, <3>3
  <2>5. \A p \in Processes : \A k \in DOMAIN kids[p] : kids'[p][k].killed <=> kids[p][k].killed
    BY <1>0
  <2> QED BY <1>a, <1>4, <2>1, <2>2, <2>3, <2>4, <2>5, MarkSame
<1>7. FindInv'
  <2>1. \A p \in Processes : Done(p)' \subseteq Done(p)
    BY <1>0, <1>1 DEF Done
  <2>2. \A s \in Services : up'[s] = <<"not">> => up[s] = <<"not">>
    BY <1>2, <1>3, <1>d
  <2> QED BY <1>a, <1>1, <1>4, <1>5, <2>1, <2>2, FindSame
<1>8. AnswerInv'
  <2>1. \A s \in Services : Yes(s) => Yes(s)'
    BY <1>2, <1>c DEF Yes
  <2>2. Request.op = "kill"
    BY <1>a, <1>b DEF KillInv, Ending
  <2>3. pc'[Manager] = pc[Manager]
    BY <1>b, <1>1, WhoIsWho
  <2>4. ASSUME pc'[Manager] \in {"search", "asking"}, pc[Request.a] \in Ending
        PROVE  pc'[Request.a] \in Ending \/ \E s \in Services : Yes(s)'
    <3>1. CASE Request.a # x
      BY <1>1, <1>a, <2>4, <3>1, Typed DEF Messages
    <3>2. CASE Request.a = x /\ msg[x].op = "kill"
      BY <1>3, <1>d, <3>2 DEF Yes
    <3>3. CASE Request.a = x /\ msg[x].op = "dead"
      <4>1. Told(x)
        BY <1>b, <3>3 DEF Told, Ending
      <4>2. PICK p \in above[x] : Kills(p)
        BY <1>a, <4>1, ToldByParent
      <4>3. p \in Processes /\ p # Manager
        BY <1>a, <1>b, <2>3, <2>4, <4>2, Typed DEF Kills, Ending
      <4>4. p \in Services /\ p \in doomed
        BY <1>a, <4>2, <4>3, WhoIsWho DEF Kills, KillInv
      <4>5. x \in Line(p)
        BY <1>a, <2>2, <3>3, <4>4 DEF KillInv
      <4>6. Line(p) \subseteq above[x]
        BY <1>a, <1>b, <4>2 DEF TreeInv, Line
      <4> QED BY <1>a, <1>b, <4>5, <4>6 DEF TreeInv
    <3> QED BY <1>3, <3>1, <3>2, <3>3
  <2>5. \A s \in Services : Yes(s)' =>
          ((\E t \in Services : Yes(t)) \/ Request.op = "kill") /\ s \in Line(Request.a)
    <3> SUFFICES ASSUME NEW s \in Services, Yes(s)'
                 PROVE  s \in Line(Request.a)
      BY <2>2
    <3>1. CASE s # x
      BY <1>2, <1>a, <2>2, <3>1 DEF Yes, AnswerInv
    <3>2. CASE s = x
      <4>1. msg[x].op # "dead"
        BY <1>3, <1>d, <3>2 DEF Yes
      <4>2. Request.a = x
        BY <1>a, <1>b, <4>1 DEF RequestInv, Ending
      <4> QED BY <3>2, <4>2 DEF Line
    <3> QED BY <3>1, <3>2
  <2> QED BY <1>0, <1>1, <1>5, <1>a, <2>1, <2>2, <2>3, <2>4, <2>5, AnswerSame
<1> QED BY <1>6, <1>7, <1>8

-----------------------------------------------------------------------------
(* The steps that read an answer.                                          *)

(* An answer that is not "not".                                            *)
LEMMA ReadYes ==
  ASSUME NEW c, NEW a, up[c] = <<a>>, a # "not"
  PROVE  Yes(c)
BY Pipes, Zenon DEF Yes

(* What is heard: "yesn" from whoever was killed, a yes to a kill from     *)
(* those above it, and "not" to a search when the service is not there.    *)
LEMMA WhatIsHeard ==
  ASSUME ReachInv, NEW x \in Processes, HasAnswer(x),
         NEW k, k = at[x], NEW c, c = Child(x, k), NEW a, a = Answer(x)
  PROVE  /\ k \in DOMAIN kids[x] /\ c \in Services /\ c # x /\ Peer(x, k) = c
         /\ up[c] = <<a>> /\ Tail(up[c]) = << >> /\ a \in {"yes", "yesn", "not"}
         /\ a = "not" /\ Sought => c \notin Line(Request.a)
         /\ pc[c] \in Gone => a = "yesn"
         /\ a = "yesn" => Request.op = "kill"
         /\ a # "not" /\ Request.op = "kill" =>
              c \in Line(Request.a) /\ Request.a \in Services /\ pc[Request.a] \in Gone
         /\ a # "not" /\ Request.op = "find" => Request.a \in Reached
         /\ a # "not" /\ Request.op = "spawn" => Born(Request.b)
<1>a. /\ Types /\ TreeInv /\ ConnInv /\ LoopInv /\ PipeInv /\ PathInv /\ KillInv
      /\ FindInv /\ AnswerInv
  BY DEF ReachInv, IInv
<1>1. /\ k \in DOMAIN kids[x] /\ Peer(x, k) = c
      /\ up[c] = <<a>> /\ a \in {"yes", "yesn", "not"}
      /\ pc[c] \in Gone => a = "yesn"
      /\ Tail(up[c]) = << >>
  BY <1>a, TheAnswer
<1>2. c \in Services /\ c # x
  BY <1>a, <1>1, ChildFacts
<1>3. a = "not" /\ Sought => c \notin Line(Request.a)
  BY <1>1, <1>2, <1>a DEF FindInv
<1>4. up[c] # << >>
  BY <1>1, Pipes, Zenon
<1>5. a = "yesn" => Request.op = "kill"
  BY <1>a, <1>1, <1>2, <1>4 DEF KillInv
<1>6. a # "not" => Yes(c)
  BY <1>1, ReadYes
<1>7. a # "not" /\ Request.op = "kill" => Request.a \in Services /\ pc[Request.a] \in Gone
  BY <1>a, <1>2, <1>6 DEF KillInv, Yes
<1> QED BY <1>a, <1>1, <1>2, <1>3, <1>5, <1>6, <1>7 DEF AnswerInv

(* Whoever hears a yes to a kill marks the child it comes from, and so     *)
(* loses those under it.                                                   *)
LEMMA HeardReach ==
  ASSUME ReachInv, NEW x \in Processes, HasAnswer(x),
         NEW k, k = at[x], NEW c, c = Child(x, k), NEW a, a = Answer(x), NEW marks \in BOOLEAN,
         above' = above, pc'[x] \in {"search", "idle"},
         \A q \in Processes : q # x => pc'[q] = pc[q],
         up'[c] = << >>, \A s \in Services : s # x /\ s # c => up'[s] = up[s],
         a = "yesn" => marks, marks => a # "not" /\ Request.op = "kill",
         IF marks THEN MarkKilled(x) ELSE kids' = kids
  PROVE  /\ SameTree /\ ParentInv' /\ MarkInv'
         /\ Marked' = IF marks THEN Marked \union {c} ELSE Marked
         /\ Reached' = IF marks THEN {s \in Reached : c \notin Line(s)} ELSE Reached
<1>a. Types /\ TreeInv /\ PipeInv /\ ParentInv /\ MarkInv
  BY DEF ReachInv, IInv
<1>b. pc[x] = "asking"
  BY DEF HasAnswer
<1>c. /\ k \in DOMAIN kids[x] /\ c \in Services /\ c # x
      /\ pc[c] \in Gone => a = "yesn"
      /\ marks => c \in Line(Request.a) /\ Request.a \in Services /\ pc[Request.a] \in Gone
  BY WhatIsHeard
<1>d. \A p \in Processes : pc'[p] = "unborn" <=> pc[p] = "unborn"
  BY <1>b
<1>1. /\ SameTree
      /\ \A q \in Processes : q # x => kids'[q] = kids[q]
      /\ \A j \in DOMAIN kids[x] : j # k => kids'[x][j] = kids[x][j]
      /\ IF marks THEN kids'[x][k].killed ELSE kids'[x][k] = kids[x][k]
  <2>1. CASE marks
    <3>1. MarkKilled(x)
      BY <2>1
    <3> QED BY <1>a, <1>c, <1>d, <2>1, <3>1, Marks
  <2>2. CASE ~marks
    BY <1>d, <2>2 DEF SameTree
  <2> QED BY <2>1, <2>2
<1>2. \A s \in Services : pc'[s] \in Gone <=> pc[s] \in Gone
  <2>1. ~(pc[x] \in Gone) /\ ~(pc'[x] \in Gone)
    BY <1>b DEF Gone
  <2> QED BY <2>1, WhoIsWho
<1>3. ASSUME NEW p \in Processes, NEW j \in DOMAIN kids[p], NEW d \in Services, d = Child(p, j)
      PROVE  /\ kids'[p][j].killed =>
                  kids[p][j].killed \/ \E t \in Services : pc'[t] \in Gone /\ d \in Line(t)
             /\ kids[p][j].killed => kids'[p][j].killed
             /\ pc'[d] \in Gone /\ up[d] # << >> => up'[d] # << >> \/ kids'[p][j].killed
             /\ kids'[p][j].killed <=> kids[p][j].killed \/ (marks /\ d = c)
  <2>1. CASE p = x /\ j = k
    BY <1>c, <1>1, <1>2, <1>3, <2>1
  <2>2. CASE ~(p = x /\ j = k)
    <3>1. d # c
      BY <1>a, <1>c, <1>3, <2>2, OneParent
    <3>2. kids'[p][j] = kids[p][j]
      BY <1>1, <2>2
    <3>3. d = x => ~(pc'[d] \in Gone)
      BY DEF Gone
    <3> QED BY <3>1, <3>2, <3>3
  <2> QED BY <2>1, <2>2
<1>4. \A p \in Processes : pc[p] \in Ending \union Gone => pc'[p] \in Ending \union Gone
  BY <1>b DEF Ending, Gone
<1>5. ParentInv' /\ MarkInv'
  BY <1>a, <1>1, <1>2, <1>3, <1>4, MarkSame
<1>6. Marked' = IF marks THEN Marked \union {c} ELSE Marked
  <2>1. ASSUME NEW s \in Services
        PROVE  s \in Marked' <=> s \in Marked \/ (marks /\ s = c)
    <3>1. ASSUME s \in Marked'
          PROVE  s \in Marked \/ (marks /\ s = c)
      <4>1. PICK p \in Processes : \E j \in DOMAIN kids'[p] : kids'[p][j].killed /\ Child(p, j)' = s
        BY <3>1 DEF Marked
      <4>2. PICK j \in DOMAIN kids'[p] : kids'[p][j].killed /\ Child(p, j)' = s
        BY <4>1
      <4>3. j \in DOMAIN kids[p] /\ Child(p, j) = s
        BY <1>a, <1>1, <4>2, TreeSame DEF SameTree
      <4> QED BY <1>3, <4>2, <4>3, WhoIsMarked
    <3>2. s \in Marked => s \in Marked'
      <4>1. Marked \subseteq Marked'
        <5>1. \A p \in Processes : \A j \in DOMAIN kids[p] : kids[p][j].killed => kids'[p][j].killed
          BY <1>a, <1>3, Typed
        <5> QED BY <1>a, <1>1, <5>1, MoreMarked
      <4> QED BY <4>1
    <3>3. marks /\ s = c => s \in Marked'
      <4>1. k \in DOMAIN kids'[x] /\ Child(x, k)' = c
        BY <1>a, <1>c, <1>1, TreeSame DEF SameTree
      <4> QED BY <1>c, <1>1, <4>1 DEF Marked
    <3> QED BY <3>1, <3>2, <3>3
  <2>2. Marked \subseteq Services /\ Marked' \subseteq Services
    BY DEF Marked
  <2> QED BY <1>c, <2>1, <2>2
<1>7. \A p \in Processes : Dies(p)' <=> Dies(p)
  BY <1>b DEF Dies, Ending, Gone
<1>8. ASSUME marks
      PROVE  Reached' = {s \in Reached : c \notin Line(s)}
  <2>1. ASSUME NEW s \in Services
        PROVE  s \in Reached' <=> s \in Reached /\ c \notin Line(s)
    <3>1. s \in Reached' <=>
            /\ Born(s)'
            /\ \A p \in Line(s)' : (p \notin Processes \/ ~Dies(p)') /\ p \notin Marked'
      BY DEF Reached, Dying, Born, Line, Dies, Ending, Gone
    <3>2. Line(s)' = Line(s) /\ (Born(s)' <=> Born(s))
      BY <1>d, WhoIsWho DEF Line, Born
    <3>3. s \in Reached' <=>
            /\ Born(s)
            /\ \A p \in Line(s) : (p \notin Processes \/ ~Dies(p)) /\ p \notin Marked /\ p # c
      BY <1>6, <1>7, <1>8, <3>1, <3>2
    <3> QED BY <3>3, WhoIsReached
  <2>2. Reached \subseteq Services /\ Reached' \subseteq Services
    BY DEF Reached
  <2> QED BY <1>8, <2>1, <2>2
<1>9. ASSUME ~marks
      PROVE  Reached' = Reached
  <2>1. Marked' = Marked
    BY <1>6, <1>9
  <2>2. Reached' = Reached
    BY <1>7, <1>d, <2>1, SameReached
  <2> QED BY <2>2
<1> QED BY <1>1, <1>5, <1>6, <1>8, <1>9

(* A service hears the answer of the child it asked.                       *)
LEMMA HearReach ==
  ASSUME ReachInv, NEW x \in Services, Hear(x),
         NEW k, k = at[x], NEW c, c = Child(x, k), NEW a, a = Answer(x),
         NEW marks \in BOOLEAN, marks <=> (a # "not" /\ Request.op = "kill")
  PROVE  /\ ParentInv' /\ MarkInv' /\ FindInv' /\ AnswerInv'
         /\ Reached' = IF marks THEN {s \in Reached : c \notin Line(s)} ELSE Reached
         /\ marks => c \in Line(Request.a) /\ pc[Request.a] \in Gone
         /\ c \in Services /\ pc'[x] \in {"idle", "search"} /\ pc[x] = "asking"
         /\ \A q \in Processes : q # x => pc'[q] = pc[q]
<1>a. /\ IInv /\ Types /\ TreeInv /\ ConnInv /\ LoopInv /\ PipeInv /\ PathInv /\ RequestInv
      /\ FindInv /\ AnswerInv
  BY DEF ReachInv, IInv
<1>b. x \in Processes /\ x # Manager /\ pc[x] = "asking" /\ HasAnswer(x)
  BY WhoIsWho DEF Hear, HasAnswer
<1>c. /\ k \in DOMAIN kids[x] /\ c \in Services /\ c # x /\ Peer(x, k) = c
      /\ up[c] = <<a>> /\ Tail(up[c]) = << >> /\ a \in {"yes", "yesn", "not"}
      /\ a = "not" /\ Sought => c \notin Line(Request.a)
      /\ pc[c] \in Gone => a = "yesn"
      /\ a = "yesn" => Request.op = "kill"
      /\ a # "not" /\ Request.op = "kill" => c \in Line(Request.a) /\ pc[Request.a] \in Gone
  BY <1>b, WhatIsHeard
<1>d. msg[x] = Request /\ up[x] = << >>
  BY <1>a, <1>b, SameRequest DEF PipeInv, Gone
<1>1. /\ UNCHANGED <<msg, at, above>> /\ Request' = Request
  BY DEF Hear, Request
<1>2. /\ \A q \in Processes : q # x => pc'[q] = pc[q]
      /\ \A s \in Services : s # x /\ s # c => up'[s] = up[s]
      /\ up'[c] = << >>
      /\ \/ a = "not" /\ pc'[x] = "search" /\ up'[x] = << >> /\ kids' = kids
         \/ /\ a # "not" /\ pc'[x] = "idle" /\ up'[x] = <<"yes">>
            /\ IF Request.op = "kill" THEN MarkKilled(x) ELSE kids' = kids
  <2>1. CASE a = "not"
    <3>1. /\ up' = [up EXCEPT ![c] = Tail(@)] /\ pc' = [pc EXCEPT ![x] = "search"]
          /\ kids' = kids
      BY <1>c, <2>1 DEF Hear, TakeAnswer
    <3> QED BY <1>a, <1>b, <1>c, <1>d, <2>1, <3>1 DEF Types
  <2>2. CASE a # "not"
    <3>1. /\ up' = [up EXCEPT ![c] = Tail(@), ![x] = Append(@, "yes")]
          /\ pc' = [pc EXCEPT ![x] = "idle"]
          /\ IF Request.op = "kill" THEN MarkKilled(x) ELSE kids' = kids
      BY <1>c, <1>d, <2>2 DEF Hear
    <3>2. /\ up'[c] = Tail(up[c]) /\ up'[x] = Append(up[x], "yes")
          /\ \A q \in Services : q # x /\ q # c => up'[q] = up[q]
      BY <1>a, <1>c, <3>1 DEF Types
    <3>3. up'[c] = << >> /\ up'[x] = <<"yes">>
      BY <1>c, <1>d, <3>2, Pipes
    <3> QED BY <1>a, <1>b, <2>2, <3>1, <3>2, <3>3 DEF Types
  <2> QED BY <2>1, <2>2
<1>3. /\ SameTree /\ ParentInv' /\ MarkInv'
      /\ Reached' = IF marks THEN {s \in Reached : c \notin Line(s)} ELSE Reached
  <2>1. IF marks THEN MarkKilled(x) ELSE kids' = kids
    BY <1>2
  <2>2. pc'[x] \in {"search", "idle"}
    BY <1>2
  <2>3. (a = "yesn" => marks) /\ (marks => a # "not" /\ Request.op = "kill")
    BY <1>c
  <2> QED BY <1>b, <1>1, <1>2, <2>1, <2>2, <2>3, HeardReach
<1>e. Reached' \subseteq Reached
  BY <1>3
<1>4. FindInv'
  <2>1. ASSUME Sought, NEW p \in Processes, NEW j \in Done(p)'
        PROVE  j \in Done(p) \/ Child(p, j) \notin Line(Request.a)
    <3>1. CASE p # x
      BY <1>1, <1>2, <1>3, <2>1, <3>1 DEF Done, SameTree
    <3>2. CASE p = x
      <4>1. j \in DOMAIN kids[x] /\ pc'[x] = "search" /\ j <= k
        BY <1>1, <1>2, <1>3, <2>1, <3>2 DEF Done, SameTree
      <4>2. j \in Nat /\ k \in Nat
        BY <1>a, <1>b, <4>1, Typed
      <4>3. CASE j = k
        BY <1>c, <1>2, <2>1, <3>2, <4>1, <4>3
      <4>4. CASE j < k
        BY <1>b, <3>2, <4>1, <4>4 DEF Done
      <4> QED BY <4>1, <4>2, <4>3, <4>4
    <3> QED BY <3>1, <3>2
  <2>2. \A s \in Services : up'[s] = <<"not">> => up[s] = <<"not">>
    <3>1. << >> # <<"not">> /\ <<"yes">> # <<"not">>
      BY Pipes, Zenon
    <3> QED BY <1>2, <3>1
  <2> QED BY <1>a, <1>1, <1>3, <1>e, <2>1, <2>2, FindSame
<1>5. AnswerInv'
  <2>1. << >> = << >> /\ <<"yes">> # << >> /\ <<"yes">> # <<"not">> /\ up[c] = <<a>>
    BY <1>c, Pipes, Zenon
  <2>2. ASSUME NEW s \in Services, Yes(s)'
        PROVE  /\ \E t \in Services : Yes(t)
               /\ Request.op = "kill" => s \in Line(Request.a)
    <3>1. CASE s = x
      <4>1. a # "not"
        BY <1>2, <2>2, <3>1 DEF Yes
      <4>2. Yes(c)
        BY <1>c, <4>1, ReadYes
      <4>3. Request.op = "kill" => x \in Line(Request.a)
        <5> SUFFICES ASSUME Request.op = "kill"
                     PROVE  x \in Line(Request.a)
          OBVIOUS
        <5>1. Request.a \in Processes /\ c \in Line(Request.a)
          BY <1>a, <1>c, <4>1, Typed DEF Messages
        <5>2. x \in above[Request.a]
          BY <1>a, <1>b, <1>c, <5>1, ChildOnLine
        <5> QED BY <5>2 DEF Line
      <4> QED BY <1>c, <3>1, <4>2, <4>3
    <3>2. CASE s # x
      <4>1. Yes(s)
        BY <1>2, <2>2, <3>2 DEF Yes
      <4> QED BY <1>a, <4>1 DEF AnswerInv
    <3> QED BY <3>1, <3>2
  <2>3. ASSUME NEW t \in Services, Yes(t)
        PROVE  \E s \in Services : Yes(s)'
    <3>1. CASE a = "not"
      <4>1. t # c /\ t # x
        BY <1>c, <1>d, <2>3, <3>1 DEF Yes
      <4> QED BY <1>2, <2>3, <4>1 DEF Yes
    <3>2. CASE a # "not"
      BY <1>2, <2>1, <3>2 DEF Yes
    <3> QED BY <3>1, <3>2
  <2>4. Request.op = "find" => Reached \subseteq Reached'
    BY <1>3
  <2>5. Request.a \in Reached => Request.a \in Reached' \/ \E s \in Services : Yes(s)'
    <3>1. CASE marks
      BY <1>2, <2>1, <3>1 DEF Yes
    <3>2. CASE ~marks
      BY <1>3, <3>2
    <3> QED BY <3>1, <3>2, <1>b
  <2>6. Born(Request.b) => Born(Request.b)'
    BY <1>a, <1>1, <1>2, Typed DEF Born, Messages
  <2>7. pc'[Manager] = pc[Manager]
    BY <1>b, <1>2, WhoIsWho
  <2>8. pc[Request.a] \in Ending => pc'[Request.a] \in Ending
    BY <1>a, <1>b, <1>2, Typed DEF Ending, Messages
  <2> QED BY <1>a, <1>1, <2>2, <2>3, <2>4, <2>5, <2>6, <2>7, <2>8, AnswerSame
<1>6. pc'[x] \in {"idle", "search"}
  BY <1>2
<1> QED BY <1>b, <1>c, <1>2, <1>3, <1>4, <1>5, <1>6

(* The Manager hears the answer of the child it asked.                     *)
LEMMA ManagerHearsReach ==
  ASSUME ReachInv, ManagerHears
  PROVE  /\ ParentInv' /\ MarkInv' /\ FindInv' /\ AnswerInv'
         /\ \/ Reached' = Reached
            \/ /\ Request.op = "kill" /\ Answer(Manager) # "not"
               /\ \E c \in Line(Request.a) :
                    c \in Services /\ Reached' = {s \in Reached : c \notin Line(s)}
<1>a. /\ IInv /\ Types /\ TreeInv /\ ConnInv /\ LoopInv /\ PipeInv /\ PathInv /\ RequestInv
      /\ FindInv /\ AnswerInv
  BY DEF ReachInv, IInv
<1>b. Manager \in Processes /\ pc[Manager] = "asking" /\ HasAnswer(Manager) /\ Manager \notin Services
  BY WhoIsWho DEF ManagerHears, HasAnswer
<1> DEFINE k == at[Manager]
           c == Child(Manager, k)
           a == Answer(Manager)
<1>c. /\ k \in DOMAIN kids[Manager] /\ c \in Services /\ Peer(Manager, k) = c
      /\ up[c] = <<a>> /\ Tail(up[c]) = << >> /\ a \in {"yes", "yesn", "not"}
      /\ a = "not" /\ Sought => c \notin Line(Request.a)
      /\ a = "yesn" => Request.op = "kill"
      /\ a # "not" /\ Request.op = "kill" => c \in Line(Request.a)
      /\ a # "not" /\ Request.op = "find" => Request.a \in Reached
      /\ a # "not" /\ Request.op = "spawn" => Born(Request.b)
  <2>1. PICK x \in Processes : x = Manager
    BY <1>b
  <2>2. k = at[x] /\ c = Child(x, k) /\ a = Answer(x) /\ HasAnswer(x)
    BY <1>b, <2>1
  <2> HIDE DEF c, a, k
  <2>3. /\ k \in DOMAIN kids[x] /\ c \in Services /\ Peer(x, k) = c
    BY <2>2, WhatIsHeard
  <2>4. up[c] = <<a>> /\ a \in {"yes", "yesn", "not"}
    BY <2>2, WhatIsHeard
  <2>5. Tail(up[c]) = << >>
    BY <2>4, Pipes
  <2>6. /\ a = "not" /\ Sought => c \notin Line(Request.a)
        /\ a = "yesn" => Request.op = "kill"
    BY <2>2, WhatIsHeard
  <2>7. /\ a # "not" /\ Request.op = "kill" => c \in Line(Request.a)
        /\ a # "not" /\ Request.op = "find" => Request.a \in Reached
        /\ a # "not" /\ Request.op = "spawn" => Born(Request.b)
    BY <2>2, WhatIsHeard
  <2> QED BY <2>1, <2>3, <2>4, <2>5, <2>6, <2>7
<1> HIDE DEF c, a, k
<1>d. PICK yes \in BOOLEAN :
        /\ Request.op # "spawn" => yes = (a # "not")
        /\ msg' = IF yes /\ Request.op = "find"
                    THEN [msg EXCEPT ![Manager].op = "kill"] ELSE msg
        /\ at' = IF yes /\ Request.op = "find" THEN [at EXCEPT ![Manager] = 0] ELSE at
        /\ pc' = [pc EXCEPT ![Manager] =
                    IF yes /\ Request.op # "find" THEN "idle" ELSE "search"]
  BY <1>c DEF ManagerHears, Recognised, a
<1>1. /\ pc'[Manager] = IF yes /\ Request.op # "find" THEN "idle" ELSE "search"
      /\ \A q \in Processes : q # Manager => pc'[q] = pc[q] /\ at'[q] = at[q]
  BY <1>a, <1>b, <1>d DEF Types
<1>e. Request \in Messages
  BY <1>a, Typed
<1>2. /\ yes /\ Request.op = "find" => Request'.op = "kill" /\ Request'.a = Request.a
      /\ ~(yes /\ Request.op = "find") => Request' = Request /\ at' = at
  BY <1>a, <1>b, <1>d, <1>e DEF Types, Request, Messages
<1>3. above' = above
  BY DEF ManagerHears
<1>4. /\ up'[c] = << >>
      /\ \A s \in Services : s # c => up'[s] = up[s]
  BY <1>a, <1>c DEF ManagerHears, TakeAnswer, Types, k
<1>5. PICK marks \in BOOLEAN :
        /\ a = "yesn" => marks
        /\ marks => a # "not" /\ Request.op = "kill"
        /\ IF marks THEN MarkKilled(Manager) ELSE kids' = kids
  <2>1. PICK gone \in IsGone(a) : IF Request.op = "kill" /\ gone THEN MarkKilled(Manager)
                                  ELSE UNCHANGED <<kids, conn>>
    BY DEF ManagerHears, a
  <2>2. /\ gone \in BOOLEAN
        /\ a = "yesn" => gone
        /\ gone => a # "not"
    BY <1>c, <2>1 DEF IsGone
  <2>3. CASE Request.op = "kill" /\ gone
    BY <2>1, <2>2, <2>3
  <2>4. CASE ~(Request.op = "kill" /\ gone)
    BY <1>c, <2>1, <2>2, <2>4
  <2> QED BY <2>3, <2>4
<1>6. \A s \in Services : up'[s] = << >> /\ pc[s] \notin {"search", "asking"}
  <2>1. \A s \in Services : s # c => ~Asked(s)
    <3>1. \A s \in Services : Manager \in above[s] /\ s # c => ~Asked(s)
      BY <1>a, <1>b, TheAnswer DEF c, k
    <3>2. \A s \in Services : Asked(s) => Born(s)
      BY <1>a, BusyBorn, RequestIsNoName
    <3> QED BY <1>a, <3>1, <3>2 DEF TreeInv
  <2>2. pc[c] \notin {"search", "asking"}
    <3>1. up[c] # << >>
      BY <1>c, Pipes, Zenon
    <3> QED BY <1>a, <1>c, <3>1 DEF PipeInv
  <2> QED BY <1>4, <2>1, <2>2 DEF Asked
<1>7. /\ SameTree /\ ParentInv' /\ MarkInv'
      /\ Reached' = IF marks THEN {s \in Reached : c \notin Line(s)} ELSE Reached
  <2>1. PICK x \in Processes : x = Manager
    BY <1>b
  <2>2. pc'[x] \in {"search", "idle"} /\ \A q \in Processes : q # x => pc'[q] = pc[q]
    BY <1>1, <2>1
  <2>3. \A s \in Services : s # x /\ s # c => up'[s] = up[s]
    BY <1>4
  <2>4. k = at[x] /\ c = Child(x, k) /\ a = Answer(x) /\ HasAnswer(x)
    BY <1>b, <2>1 DEF k, c, a
  <2>5. IF marks THEN MarkKilled(x) ELSE kids' = kids
    BY <1>5, <2>1
  <2>6. (a = "yesn" => marks) /\ (marks => a # "not" /\ Request.op = "kill") /\ up'[c] = << >>
    BY <1>4, <1>5
  <2> QED BY <1>3, <2>2, <2>3, <2>4, <2>5, <2>6, HeardReach
<1>f. Reached' \subseteq Reached
  BY <1>7
<1>8. FindInv'
  <2>1. CASE yes /\ Request.op = "find"
    <3>1. pc'[Manager] = "search" /\ at'[Manager] = 0
      BY <1>a, <1>b, <1>1, <1>d, <2>1 DEF Types
    <3>2. \A j \in DOMAIN kids[Manager] : ~(j <= 0)
      BY <1>a, <1>b, Typed
    <3>3. Done(Manager)' = {}
      BY <1>b, <1>7, <3>1, <3>2 DEF Done, SameTree
    <3>4. \A p \in Services : Done(p)' = {}
      BY <1>1, <1>6, WhoIsWho DEF Done
    <3>5. \A p \in Processes : Done(p)' = {}
      BY <3>3, <3>4, WhoIsWho
    <3>6. \A s \in Services : up'[s] # <<"not">>
      BY <1>6, Pipes, Zenon
    <3> QED BY <3>5, <3>6 DEF FindInv
  <2>2. CASE ~(yes /\ Request.op = "find")
    <3>1. Request' = Request /\ at' = at
      BY <1>2, <2>2
    <3>2. ASSUME Sought, NEW p \in Processes, NEW j \in Done(p)'
          PROVE  j \in Done(p) \/ Child(p, j) \notin Line(Request.a)
      <4>1. CASE p # Manager
        BY <1>1, <1>7, <3>2, <4>1 DEF Done, SameTree
      <4>2. CASE p = Manager
        <5>0. a = "not"
          <6>1. pc'[Manager] \in {"search", "asking"}
            BY <3>2, <4>2 DEF Done
          <6>2. yes = FALSE
            BY <1>1, <2>2, <6>1
          <6>3. CASE Request.op = "spawn"
            BY <1>c, <3>2, <6>3 DEF Sought, Seeks
          <6>4. CASE Request.op # "spawn"
            BY <1>d, <6>2, <6>4
          <6> QED BY <6>3, <6>4
        <5>1. j \in DOMAIN kids[Manager] /\ j <= k
          <6>1. at'[Manager] = k
            BY <3>1 DEF k
          <6>2. DOMAIN kids'[Manager] = DOMAIN kids[Manager]
            BY <1>b, <1>7 DEF SameTree
          <6>3. pc'[Manager] # "asking"
            BY <1>1
          <6> QED BY <3>2, <4>2, <6>1, <6>2, <6>3 DEF Done
        <5>2. j \in Nat /\ k \in Nat
          BY <1>a, <1>b, <5>1, Typed DEF k
        <5>3. CASE j = k
          BY <1>c, <3>2, <4>2, <5>0, <5>1, <5>3 DEF c
        <5>4. CASE j < k
          BY <1>b, <4>2, <5>1, <5>4 DEF Done, k
        <5> QED BY <5>1, <5>2, <5>3, <5>4
      <4> QED BY <4>1, <4>2
    <3>3. \A s \in Services : up'[s] # <<"not">>
      BY <1>6, Pipes, Zenon
    <3> QED BY <1>a, <1>7, <1>f, <3>1, <3>2, <3>3, FindSame
  <2> QED BY <2>1, <2>2
<1>9. AnswerInv'
  <2>1. \A s \in Services : ~Yes(s)'
    BY <1>6 DEF Yes
  <2>2. CASE yes /\ Request.op = "find"
    <3>1. Request.a \in Reached
      BY <1>c, <1>d, <2>2
    <3>2. ~marks
      BY <1>5, <2>2
    <3>3. Request'.a \in Reached'
      BY <1>2, <1>7, <2>2, <3>1, <3>2
    <3> QED BY <1>2, <2>1, <2>2, <3>3 DEF AnswerInv
  <2>3. CASE ~(yes /\ Request.op = "find")
    <3>1. Request' = Request
      BY <1>2, <2>3
    <3>2. ASSUME Request.op = "kill", pc'[Manager] \in {"search", "asking"}
          PROVE  Request.a \in Reached' \/ pc'[Request.a] \in Ending
      <4>1. a = "not"
        <5>1. yes = FALSE
          BY <1>1, <3>2
        <5>2. yes = (a # "not")
          BY <1>d, <3>2
        <5> QED BY <5>1, <5>2
      <4>2. \A t \in Services : ~Yes(t)
        <5>1. ~Yes(c)
          BY <1>c, <4>1 DEF Yes
        <5> QED BY <1>4, <1>6, <5>1 DEF Yes
      <4>3. Request.a \in Reached \/ pc[Request.a] \in Ending
        BY <1>a, <1>b, <3>2, <4>2 DEF AnswerInv
      <4>4. Reached' = Reached
        BY <1>5, <1>7, <4>1
      <4>5. pc[Request.a] \in Ending => pc'[Request.a] \in Ending
        BY <1>b, <1>e, <1>1 DEF Ending, Messages
      <4> QED BY <4>3, <4>4, <4>5
    <3> QED BY <2>1, <3>1, <3>2 DEF AnswerInv
  <2> QED BY <2>2, <2>3
<1>10. \/ Reached' = Reached
       \/ /\ Request.op = "kill" /\ Answer(Manager) # "not"
          /\ \E d \in Line(Request.a) :
               d \in Services /\ Reached' = {s \in Reached : d \notin Line(s)}
  <2>1. CASE marks
    <3>1. c \in Line(Request.a) /\ Request.op = "kill" /\ a # "not"
      BY <1>c, <1>5, <2>1
    <3>2. Reached' = {s \in Reached : c \notin Line(s)}
      BY <1>7, <2>1
    <3> QED BY <1>c, <3>1, <3>2 DEF a
  <2>2. CASE ~marks
    BY <1>7, <2>2
  <2> QED BY <2>1, <2>2
<1> QED BY <1>7, <1>8, <1>9, <1>10

-----------------------------------------------------------------------------
(* The steps that begin something.                                         *)

(* The Manager reads a command: nobody searches yet.                       *)
LEMMA CommandReach ==
  ASSUME ReachInv, Command
  PROVE  ParentInv' /\ MarkInv' /\ FindInv' /\ AnswerInv'
<1>a. /\ IInv /\ Types /\ TreeInv /\ PipeInv /\ PathInv /\ RequestInv
      /\ ParentInv /\ MarkInv
  BY DEF ReachInv, IInv
<1>b. pc[Manager] = "idle" /\ Manager \in Processes
  BY WhoIsWho DEF Command
<1>c. PICK m \in Requests :
       /\ msg' = [msg EXCEPT ![Manager] =
                    IF m.op = "kill" /\ m.a # Manager THEN [m EXCEPT !.op = "find"]
                    ELSE m]
       /\ pc' = [pc EXCEPT ![Manager] =
                   IF m.a # Manager \/ m.op = "exchange" THEN "search"
                   ELSE IF m.op = "spawn" THEN "found" ELSE "telling"]
       /\ at' = [at EXCEPT ![Manager] =
                   IF m.op = "kill" /\ m.a = Manager THEN 1 ELSE 0]
  BY DEF Command
<1>1. /\ pc'[Manager] \in {"search", "found", "telling"}
      /\ pc'[Manager] = "search" => at'[Manager] = 0
      /\ \A q \in Processes : q # Manager => pc'[q] = pc[q]
      /\ \A s \in Services : pc'[s] = pc[s]
  BY <1>a, <1>b, <1>c, WhoIsWho DEF Types
<1>2. UNCHANGED <<kids, above, up>>
  BY DEF Command, tree, pipes
<1>3. SameTree
  BY <1>b, <1>1, <1>2 DEF SameTree
<1>4. \A s \in Services : up[s] = << >> /\ pc[s] \notin {"search", "asking"}
  <2>1. \A s \in Services : ~Asked(s) /\ ~Told(s)
    BY <1>a, <1>b, NobodyBusy, RequestIsNoName
  <2> QED BY <1>a, <2>1, NotBusy
<1>5. ParentInv' /\ MarkInv'
  <2>1. \A p \in Processes : pc[p] \in Ending \union Gone => pc'[p] \in Ending \union Gone
    BY <1>b, <1>1 DEF Ending, Gone
  <2>2. \A p \in Processes : \A k \in DOMAIN kids[p] : kids'[p][k].killed <=> kids[p][k].killed
    BY <1>2
  <2> QED BY <1>a, <1>1, <1>2, <1>3, <2>1, <2>2, MarkSame
<1>6. \A p \in Processes : Done(p)' = {}
  <2>1. ASSUME NEW p \in Processes
        PROVE  Done(p)' = {}
    <3>1. CASE p = Manager
      <4>1. \A k \in DOMAIN kids[p] : k \in Nat /\ ~(k <= 0)
        BY <1>a, Typed
      <4> QED BY <1>1, <1>2, <3>1, <4>1 DEF Done
    <3>2. CASE p # Manager
      BY <1>1, <1>4, <3>2, WhoIsWho DEF Done
    <3> QED BY <3>1, <3>2
  <2> QED BY <2>1
<1>7. \A s \in Services : up'[s] # <<"not">>
  BY <1>2, <1>4, Pipes, Zenon
<1>8. AnswerInv'
  <2>1. \A s \in Services : ~Yes(s)'
    BY <1>2, <1>4 DEF Yes
  <2>2. m \in Messages /\ m.op \in {"spawn", "kill", "exchange"}
    BY <1>a, RequestsAre
  <2>3. Request' = IF m.op = "kill" /\ m.a # Manager THEN [m EXCEPT !.op = "find"] ELSE m
    BY <1>a, <1>b, <1>c DEF Types, Request
  <2>4. CASE m.op = "kill" /\ m.a # Manager
    <3>1. Request'.op = "find"
      BY <2>2, <2>3, <2>4 DEF Messages
    <3> QED BY <2>1, <3>1 DEF AnswerInv
  <2>5. CASE ~(m.op = "kill" /\ m.a # Manager)
    <3>1. Request' = m
      BY <2>3, <2>5
    <3>2. m.op = "kill" => pc'[Manager] \notin {"search", "asking"}
      BY <1>a, <1>b, <1>c, <2>5 DEF Types
    <3> QED BY <2>1, <3>1, <3>2 DEF AnswerInv
  <2> QED BY <2>4, <2>5
<1> QED BY <1>5, <1>6, <1>7, <1>8 DEF FindInv

(* A new child stands at the end of its parent's list and is not marked,   *)
(* and it can be reached as its parent can.                                *)
LEMMA CreateReach ==
  ASSUME ReachInv, NEW x \in Processes, pc[x] = "found", Request.op = "spawn",
         Create(x, Request.b),
         x = Manager => up' = up, x \in Services => Reply(x, "yes"), msg' = msg
  PROVE  /\ ParentInv' /\ MarkInv' /\ FindInv' /\ AnswerInv'
         /\ Request.b \in Services /\ ~Born(Request.b) /\ x = Request.a /\ x # Request.b
         /\ Marked' = Marked /\ Request.b \notin Marked
         /\ above' = [above EXCEPT ![Request.b] = above[x] \union {x}]
         /\ pc' = [pc EXCEPT ![x] = "idle", ![Request.b] = "naming"]
<1>a. /\ Types /\ TreeInv /\ ConnInv /\ PipeInv /\ RequestInv /\ SpawnInv
      /\ ParentInv /\ MarkInv
  BY DEF ReachInv, IInv
<1>b. PICK b \in Services : b = Request.b /\ ~Born(b)
  BY <1>a, SpawnUnborn
<1>c. b \in Processes /\ b # Manager /\ Born(x) /\ x # b /\ Request' = Request
  BY <1>b, WhoIsWho DEF Born, Request
<1>d. /\ x = Request.a
      /\ \A p \in Processes : \A k \in DOMAIN kids[p] : Child(p, k) # b
      /\ kids[b] = << >>
  <2>1. For(Request) = Request.a
    BY DEF For
  <2> QED BY <1>a, <1>b, <1>c, <2>1, WhoIsWho DEF RequestInv, TreeInv
<1>e. PICK e \in Nat : e = End(x)
  BY <1>a, Typed DEF End
<1>1. /\ DOMAIN kids'[x] = 1..e /\ e \in 1..e
      /\ \A k \in 1..e : k = e \/ k \in DOMAIN kids[x]
      /\ \A k \in DOMAIN kids[x] : kids'[x][k] = kids[x][k] /\ k \in 1..e
      /\ \A q \in Processes : q # x => kids'[q] = kids[q]
      /\ kids'[x][e].svc = b /\ ~kids'[x][e].killed
      /\ \A q \in Processes : above'[q] = IF q = b THEN above[x] \union {x} ELSE above[q]
      /\ pc' = [pc EXCEPT ![x] = "idle", ![b] = "naming"]
  <2>1. e \in 1..e
    BY <1>a, <1>e, Typed DEF End
  <2>2. Create(x, b)
    BY <1>b
  <2>3. Created(x, b, End(x))
    BY <1>a, <1>b, <1>c, <2>2, Creates
  <2> QED BY <1>e, <2>1, <2>3 DEF Created
<1>2. /\ pc'[x] = "idle" /\ pc'[b] = "naming"
      /\ \A q \in Processes : q # x /\ q # b => pc'[q] = pc[q]
  BY <1>a, <1>c, <1>1 DEF Types
<1>3. \A s \in Services : up[s] # << >> => up'[s] # << >>
  <2>1. CASE x = Manager
    BY <2>1
  <2>2. CASE x \in Services
    <3>1. up[x] = << >> /\ \A s \in Services : s # x => up'[s] = up[s]
      BY <1>a, <2>2 DEF PipeInv, Gone, Reply, Types
    <3> QED BY <3>1
  <2> QED BY <2>1, <2>2, WhoIsWho
<1>4. \A p \in Processes : \A k \in DOMAIN kids[p] :
        k \in DOMAIN kids'[p] /\ kids'[p][k] = kids[p][k] /\ Child(p, k)' = Child(p, k)
  BY <1>1 DEF Child
<1>5. ParentInv'
  <2> SUFFICES ASSUME NEW s \in Services, Born(s)'
               PROVE  \E p \in Processes : \E k \in DOMAIN kids'[p] : Child(p, k)' = s
    BY DEF ParentInv
  <2>1. CASE s = b
    BY <1>1, <2>1 DEF Child
  <2>2. CASE s # b
    <3>1. Born(s)
      BY <1>2, <1>c, <2>2, WhoIsWho DEF Born
    <3>2. PICK p \in Processes : \E k \in DOMAIN kids[p] : Child(p, k) = s
      BY <1>a, <3>1 DEF ParentInv
    <3>3. PICK k \in DOMAIN kids[p] : Child(p, k) = s
      BY <3>2
    <3> QED BY <1>4, <3>3
  <2> QED BY <2>1, <2>2
<1>6. \A t \in Services : pc[t] \in Gone => pc'[t] \in Gone /\ Line(t)' = Line(t)
  <2> SUFFICES ASSUME NEW t \in Services, pc[t] \in Gone
               PROVE  pc'[t] \in Gone /\ Line(t)' = Line(t)
    OBVIOUS
  <2>1. t # b /\ t # x /\ t \in Processes
    BY <1>b, WhoIsWho DEF Gone, Born
  <2> QED BY <1>1, <1>2, <2>1 DEF Line
<1>7. ASSUME NEW p \in Processes, NEW k \in DOMAIN kids'[p]
      PROVE  /\ kids'[p][k].killed =>
                  \E t \in Services : pc'[t] \in Gone /\ Child(p, k)' \in Line(t)'
             /\ pc'[Child(p, k)'] \in Gone =>
                  \/ kids'[p][k].killed
                  \/ up'[Child(p, k)'] # << >>
                  \/ pc'[p] \in Ending \union Gone
  <2>1. CASE p = x /\ k = e
    <3>1. Child(p, k)' = b /\ ~kids'[p][k].killed
      BY <1>1, <2>1 DEF Child
    <3> QED BY <1>2, <3>1 DEF Gone
  <2>2. CASE ~(p = x /\ k = e)
    <3>1. k \in DOMAIN kids[p] /\ kids'[p][k] = kids[p][k]
      BY <1>1, <2>2
    <3>0. Child(p, k)' = Child(p, k)
      BY <3>1 DEF Child
    <3>2. PICK c \in Services : c = Child(p, k) /\ Child(p, k)' = c /\ c \in Processes
      BY <1>a, <3>0, <3>1, Typed, WhoIsWho
    <3>3. c # b /\ p # b
      BY <1>a, <1>b, <1>d, <3>1, <3>2, ChildFacts
    <3>4. pc'[c] \in Gone <=> pc[c] \in Gone
      BY <1>2, <3>2, <3>3 DEF Gone
    <3>5. pc[p] \in Ending \union Gone => pc'[p] \in Ending \union Gone
      BY <1>2, <3>3 DEF Ending, Gone
    <3>6. kids[p][k].killed => \E t \in Services : pc'[t] \in Gone /\ c \in Line(t)'
      <4>1. kids[p][k].killed => \E t \in Services : pc[t] \in Gone /\ c \in Line(t)
        BY <1>a, <3>1, <3>2 DEF MarkInv
      <4> QED BY <1>6, <4>1
    <3>7. pc[c] \in Gone => kids[p][k].killed \/ up[c] # << >> \/ pc[p] \in Ending \union Gone
      BY <1>a, <3>1, <3>2 DEF MarkInv
    <3> QED BY <1>3, <3>1, <3>2, <3>4, <3>5, <3>6, <3>7
  <2> QED BY <2>1, <2>2
<1>8. MarkInv'
  BY <1>7 DEF MarkInv
<1>9. Request'.op = "spawn" /\ Born(Request.b)'
  BY <1>b, <1>c, <1>2 DEF Born
<1>10. FindInv' /\ AnswerInv'
  BY <1>9 DEF FindInv, AnswerInv, Seeks, Sought
<1>11. Marked' = Marked
  <2>1. ASSUME NEW s \in Marked'
        PROVE  s \in Marked
    <3>1. PICK p \in Processes : \E k \in DOMAIN kids'[p] : kids'[p][k].killed /\ Child(p, k)' = s
      BY DEF Marked
    <3>2. PICK k \in DOMAIN kids'[p] : kids'[p][k].killed /\ Child(p, k)' = s
      BY <3>1
    <3>3. k \in DOMAIN kids[p] /\ kids[p][k].killed
      BY <1>1, <3>2
    <3> QED BY <1>a, <1>4, <3>2, <3>3, MarkedChild
  <2>2. ASSUME NEW s \in Marked
        PROVE  s \in Marked'
    <3>1. PICK p \in Processes : \E k \in DOMAIN kids[p] : kids[p][k].killed /\ Child(p, k) = s
      BY WhoIsMarked
    <3>2. PICK k \in DOMAIN kids[p] : kids[p][k].killed /\ Child(p, k) = s
      BY <3>1
    <3>3. k \in DOMAIN kids'[p] /\ kids'[p][k].killed /\ Child(p, k)' = s
      BY <1>4, <3>2
    <3>4. s \in Services
      BY WhoIsMarked
    <3> QED BY <3>3, <3>4 DEF Marked
  <2> QED BY <2>1, <2>2
<1>12. b \notin Marked
  BY <1>d, WhoIsMarked
<1>13. above' = [above EXCEPT ![b] = above[x] \union {x}]
  BY <1>b DEF Create
<1> QED BY <1>b, <1>c, <1>d, <1>1, <1>5, <1>8, <1>10, <1>11, <1>12, <1>13

-----------------------------------------------------------------------------
(* The invariant is inductive.                                             *)

LEMMA ServiceStepReach ==
  ASSUME ReachInv, NEW s \in Services, ServiceStep(s)
  PROVE  ParentInv' /\ MarkInv' /\ FindInv' /\ AnswerInv'
<1>a. IInv
  BY DEF ReachInv
<1>b. s \in Processes /\ s # Manager
  BY WhoIsWho
<1>c. pc[s] = "found" => msg[s] = Request
  BY <1>a, <1>b, SameRequest DEF IInv
<1>1. CASE \/ ReadName(s) \/ Receive(s) \/ Forward(s) \/ TellKids(s) \/ WaitNull(s)
           \/ ExitProcess(s)
  BY <1>b, <1>1, PlainReach DEF Forward, TellKids
<1>2. CASE Found(s) /\ Request.op = "spawn"
  <2>1. pc[s] = "found" /\ Create(s, Request.b) /\ Reply(s, "yes") /\ msg' = msg
    BY <1>c, <1>2 DEF Found
  <2> QED BY <1>b, <1>2, <2>1, CreateReach
<1>3. CASE Found(s) /\ Request.op # "spawn"
  <2>1. /\ pc[s] = "found" /\ Reply(s, "yes") /\ pc' = [pc EXCEPT ![s] = "idle"]
        /\ UNCHANGED <<msg, at, kids, above>>
    BY <1>c, <1>3 DEF Found
  <2> QED BY <1>3, <2>1, AnswerReach
<1>4. CASE GiveUp(s)
  BY <1>4, AnswerReach DEF GiveUp, tree
<1>5. CASE Hear(s)
  <2>1. PICK k, c, a : k = at[s] /\ c = Child(s, k) /\ a = Answer(s)
    OBVIOUS
  <2>2. PICK marks \in BOOLEAN : marks <=> (a # "not" /\ Request.op = "kill")
    OBVIOUS
  <2> QED BY <1>5, <2>1, <2>2, HearReach
<1>6. CASE Leave(s)
  BY <1>6, LeaveReach
<1> QED BY <1>1, <1>2, <1>3, <1>4, <1>5, <1>6 DEF ServiceStep

LEMMA ManagerStepReach ==
  ASSUME ReachInv, ManagerStep
  PROVE  ParentInv' /\ MarkInv' /\ FindInv' /\ AnswerInv'
<1>b. Manager \in Processes /\ Manager \notin Services
  BY WhoIsWho
<1>1. CASE ManagerSpawns
  <2>1. /\ pc[Manager] = "found" /\ Create(Manager, Request.b) /\ UNCHANGED <<up, msg>>
    BY <1>1 DEF ManagerSpawns
  <2>2. Request.op = "spawn"
    BY <2>1 DEF ReachInv, IInv, RequestInv
  <2> QED BY <1>b, <2>1, <2>2, CreateReach
<1>2. CASE \/ ManagerAsks \/ ManagerTells \/ WaitNull(Manager) \/ ManagerGivesUp
           \/ ManagerEnds
  BY <1>b, <1>2, PlainReach DEF ManagerAsks, ManagerTells
<1>3. CASE ManagerHears
  BY <1>3, ManagerHearsReach
<1> QED BY <1>1, <1>2, <1>3 DEF ManagerStep

LEMMA ReachNext ==
  ASSUME ReachInv, [Next]_vars
  PROVE  ReachInv'
<1>1. IInv'
  BY IInvNext DEF ReachInv
<1>2. CASE Command
  BY <1>1, <1>2, CommandReach DEF ReachInv
<1>3. CASE ManagerStep
  BY <1>1, <1>3, ManagerStepReach DEF ReachInv
<1>4. CASE \E s \in Services : ServiceStep(s)
  BY <1>1, <1>4, ServiceStepReach DEF ReachInv
<1>5. CASE UNCHANGED vars
  <2>1. UNCHANGED <<pc, msg, at, kids, above, up>>
    BY <1>5 DEF vars, tree, pipes
  <2>2. ParentInv' /\ MarkInv'
    BY <2>1 DEF ReachInv, ParentInv, MarkInv, Child, Born, Line
  <2>3. Reached' = Reached /\ Request' = Request
    BY <2>1 DEF Reached, Dying, Marked, Child, Request
  <2>4. FindInv'
    BY <2>1, <2>3 DEF ReachInv, FindInv, Sought, Seeks, Done, Child, Born, Line
  <2>5. AnswerInv'
    BY <2>1, <2>3 DEF ReachInv, AnswerInv, Yes, Born, Line
  <2> QED BY <1>1, <2>2, <2>4, <2>5 DEF ReachInv
<1> QED BY <1>2, <1>3, <1>4, <1>5 DEF Next

(* At the start there are no children.                                     *)
LEMMA ReachInit ==
  ASSUME Init
  PROVE  ReachInv
<1>1. IInv
  BY InitInv
<1>2. /\ \A p \in Processes : DOMAIN kids[p] = {}
      /\ \A s \in Services : up[s] = << >> /\ ~Born(s)
      /\ Request.op = "nothing"
  BY WhoIsWho, Names DEF Init, Request, Born
<1>3. ParentInv /\ MarkInv
  BY <1>2 DEF ParentInv, MarkInv
<1>4. FindInv /\ AnswerInv
  BY <1>2 DEF FindInv, AnswerInv, Sought, Seeks, Yes
<1> QED BY <1>1, <1>3, <1>4 DEF ReachInv

-----------------------------------------------------------------------------
(* The invariant of the tree, for any number of services, commands and     *)
(* levels: the search with find and the requests that follow come to       *)
(* whoever can be reached, and have_killed is set above those that were    *)
(* killed only (service.c:217-235, 246-249, 427-431, 461-513).             *)
THEOREM ReachInductive == Spec => []ReachInv
<1>1. Init => ReachInv
  BY ReachInit
<1>2. ReachInv /\ [Next]_vars => ReachInv'
  BY ReachNext
<1> QED BY <1>1, <1>2, PTL DEF Spec

(* Between commands the children not marked killed live, and their         *)
(* descriptors lead to them, also when they were used before; and who is   *)
(* marked was killed, or a service under it was (have_killed, close and    *)
(* pipe).                                                                  *)
THEOREM TreeIsConnected == Spec => []TreeConnected
<1>1. ReachInv => TreeConnected
  <2> SUFFICES ASSUME ReachInv, pc[Manager] = "idle",
                      NEW p \in Processes, pc[p] = "idle", NEW k \in DOMAIN kids[p],
                      NEW c, c = Child(p, k)
               PROVE  IF kids[p][k].killed
                        THEN \E s \in Services : c \in above[s] \union {s} /\ pc[s] \in Gone
                        ELSE c \in Alive /\ conn[p][kids[p][k].fd] = c
    BY DEF TreeConnected, Child, Gone
  <2>a. Types /\ TreeInv /\ ConnInv /\ PipeInv /\ PathInv /\ RequestInv /\ MarkInv
    BY DEF ReachInv, IInv
  <2>1. c \in Services /\ pc[c] # "unborn"
    BY <2>a, ChildFacts DEF Born
  <2>2. CASE kids[p][k].killed
    BY <2>a, <2>2 DEF MarkInv, Line
  <2>3. CASE ~kids[p][k].killed
    <3>1. ~Asked(c)
      BY <2>a, <2>1, NobodyBusy, RequestIsNoName
    <3>2. up[c] = << >>
      BY <3>1 DEF Asked
    <3>3. pc[p] \notin Ending \union Gone
      BY DEF Ending, Gone
    <3>4. pc[c] \notin Gone
      BY <2>a, <2>3, <3>2, <3>3 DEF MarkInv
    <3>5. c \in Alive
      BY <2>1, <3>4 DEF Alive, Gone
    <3> QED BY <2>a, <2>3, <3>3, <3>5 DEF ConnInv, Peer
  <2> QED BY <2>2, <2>3
<1> QED BY <1>1, ReachInductive, PTL

-----------------------------------------------------------------------------
(* How the tree looks to its user (ProcessTree).                           *)

(* The command as the user gave it.                                        *)
LEMMA Requested ==
  ASSUME Types
  PROVE  /\ pc[Manager] = "idle" => UserRequest = Tree!NoRequest
         /\ pc[Manager] = "exited" => UserRequest = Tree!Over
         /\ pc[Manager] \notin {"idle", "exited"} =>
              /\ UserRequest.op = IF Request.op = "find" THEN "kill" ELSE Request.op
              /\ UserRequest.a = Request.a /\ UserRequest.b = Request.b
         /\ IsDone \in BOOLEAN
<1>1. Request \in Messages
  BY Typed
<1> QED BY <1>1
        DEF UserRequest, IsDone, Tree!NoRequest, Tree!Over, Tree!Cmd, Msg, Messages

(* Steps the user does not see.                                            *)
LEMMA Unseen ==
  ASSUME Types, UNCHANGED <<above, said>>, Reached' = Reached,
         pc'[Manager] = "idle" <=> pc[Manager] = "idle",
         pc'[Manager] = "exited" <=> pc[Manager] = "exited",
         \/ Request' = Request
         \/ /\ Request.op = "find" /\ Request' = [Request EXCEPT !.op = "kill"]
            /\ Request.a \in Reached,
         \A p \in Processes : pc'[p] = "unborn" <=> pc[p] = "unborn"
  PROVE  UNCHANGED Tree!vars
<1>1. Request \in Messages
  BY Typed
<1>2. Request.b \in Processes
  BY <1>1 DEF Messages
<1>3. UserRequest' = UserRequest
  BY <1>1 DEF UserRequest, Messages
<1>4. IsDone' = IsDone
  <2>1. CASE Request' = Request
    BY <1>2, <2>1 DEF IsDone
  <2>2. CASE /\ Request.op = "find" /\ Request' = [Request EXCEPT !.op = "kill"]
             /\ Request.a \in Reached
    <3>1. Request'.op = "kill" /\ Request'.a = Request.a
      BY <1>1, <2>2 DEF Messages
    <3> QED BY <2>2, <3>1 DEF IsDone
  <2> QED BY <2>1, <2>2
<1>5. Outcome' = Outcome
  BY DEF Outcome
<1> QED BY <1>3, <1>4, <1>5 DEF Tree!vars

(* A process goes on, and neither dies nor is born.                        *)
LEMMA GoesOnUnseen ==
  ASSUME Types, NEW x \in Processes, UNCHANGED <<kids, above, said>>, Request' = Request,
         \A q \in Processes : q # x => pc'[q] = pc[q],
         pc[x] # "unborn", pc'[x] # "unborn", Dies(x)' <=> Dies(x),
         x = Manager => {pc[x], pc'[x]} \intersect {"idle", "exited"} = {}
  PROVE  UNCHANGED Tree!vars
<1>1. \A p \in Processes :
        (pc'[p] = "unborn" <=> pc[p] = "unborn") /\ (Dies(p)' <=> Dies(p))
  BY DEF Dies
<1>2. Reached' = Reached
  BY <1>1, SameMarked, SameReached
<1>3. /\ pc'[Manager] = "idle" <=> pc[Manager] = "idle"
      /\ pc'[Manager] = "exited" <=> pc[Manager] = "exited"
  BY WhoIsWho
<1> QED BY <1>1, <1>2, <1>3, Unseen

(* Loops, waits, exits and what is read but not obeyed.                    *)
LEMMA PlainUnseen ==
  ASSUME IInv, NEW x \in Processes,
         \/ pc[x] = "search" /\ Ask(x)
         \/ \E skip \in BOOLEAN : Tell(x, skip)
         \/ WaitNull(x)
         \/ x \in Services /\ (ReadName(x) \/ GiveUp(x) \/ Leave(x) \/ ExitProcess(x))
         \/ x \in Services /\ Found(x) /\ Request.op # "spawn"
         \/ x \in Services /\ Receive(x) /\ ~MustDie(x, Head(down[x]))
  PROVE  UNCHANGED Tree!vars
<1>a. Types /\ RequestInv
  BY DEF IInv
<1>1. CASE pc[x] = "search" /\ Ask(x)
  <2>1. pc' = [pc EXCEPT ![x] = "asking"] /\ UNCHANGED <<msg, kids, above, said>>
    BY <1>1 DEF Ask, tree, user
  <2> QED BY <1>a, <1>1, <2>1, GoesOnUnseen DEF Types, Dies, Ending, Gone, Request
<1>2. CASE \E skip \in BOOLEAN : Tell(x, skip)
  <2>1. PICK skip \in BOOLEAN : Tell(x, skip)
    BY <1>2
  <2>2. /\ pc[x] = "telling" /\ UNCHANGED <<msg, kids, above, said>>
        /\ pc' = pc \/ pc' = [pc EXCEPT ![x] = "waiting"]
    BY <2>1 DEF Tell, user
  <2> QED BY <1>a, <2>2, GoesOnUnseen DEF Types, Dies, Ending, Request
<1>3. CASE WaitNull(x)
  <2>1. /\ pc[x] = "waiting" /\ UNCHANGED <<msg, kids, above, said>>
        /\ pc' = [pc EXCEPT ![x] = "telling"]
    BY <1>3 DEF WaitNull, tree, user
  <2> QED BY <1>a, <2>1, GoesOnUnseen DEF Types, Dies, Ending, Request
<1>4. CASE x \in Services /\ (ReadName(x) \/ GiveUp(x) \/ Leave(x) \/ ExitProcess(x))
  <2>1. /\ UNCHANGED <<msg, kids, above, said>> /\ x # Manager
        /\ \/ pc[x] = "naming" /\ pc' = [pc EXCEPT ![x] = "idle"]
           \/ pc[x] = "search" /\ pc' = [pc EXCEPT ![x] = "idle"]
           \/ pc[x] = "telling" /\ pc' = [pc EXCEPT ![x] = "leaving"]
           \/ pc[x] = "leaving" /\ pc' = [pc EXCEPT ![x] = "exited"]
    BY <1>4, WhoIsWho DEF ReadName, GiveUp, Leave, ExitProcess, tree, user
  <2>2. /\ \A q \in Processes : q # x => pc'[q] = pc[q]
        /\ pc[x] # "unborn" /\ pc'[x] # "unborn" /\ (Dies(x)' <=> Dies(x))
    BY <1>a, <2>1 DEF Types, Dies, Ending, Gone
  <2> QED BY <1>a, <2>1, <2>2, GoesOnUnseen DEF Request
<1>5. CASE x \in Services /\ Found(x) /\ Request.op # "spawn"
  <2>1. msg[x] = Request
    BY <1>a, <1>5, SameRequest DEF Found
  <2>2. /\ pc[x] = "found" /\ pc' = [pc EXCEPT ![x] = "idle"] /\ x # Manager
        /\ UNCHANGED <<msg, kids, above, said>>
    BY <1>5, <2>1, WhoIsWho DEF Found, user
  <2> QED BY <1>a, <2>2, GoesOnUnseen DEF Types, Dies, Ending, Gone, Request
<1>6. CASE x \in Services /\ Receive(x) /\ ~MustDie(x, Head(down[x]))
  <2>1. /\ pc[x] = "idle" /\ x # Manager /\ UNCHANGED <<kids, above, said>>
        /\ msg' = [msg EXCEPT ![x] = Head(down[x])]
        /\ pc' = [pc EXCEPT ![x] = IF For(Head(down[x])) = x THEN "found" ELSE "search"]
    BY <1>6, WhoIsWho DEF Receive, tree, user
  <2>2. Request' = Request
    BY <1>a, <2>1, WhoIsWho DEF Types, Request
  <2>3. /\ \A q \in Processes : q # x => pc'[q] = pc[q]
        /\ pc'[x] \in {"found", "search"}
    BY <1>a, <2>1 DEF Types
  <2> QED BY <1>a, <2>1, <2>2, <2>3, GoesOnUnseen DEF Dies, Ending, Gone
<1> QED BY <1>1, <1>2, <1>3, <1>4, <1>5, <1>6

-----------------------------------------------------------------------------
(* Steps by which a command takes effect.                                  *)

(* A spawn comes to the parent of the new service.                         *)
LEMMA SpawnStep ==
  ASSUME ReachInv, NEW x \in Processes, pc[x] = "found", Request.op = "spawn",
         Create(x, Request.b), UNCHANGED <<msg, said>>,
         x = Manager => up' = up, x \in Services => Reply(x, "yes")
  PROVE  Tree!Spawn
<1>a. IInv /\ Types /\ TreeInv
  BY DEF ReachInv, IInv
<1>b. PICK b \in Services :
        /\ b = Request.b /\ ~Born(b) /\ x = Request.a /\ x # b
        /\ Marked' = Marked /\ b \notin Marked
        /\ above' = [above EXCEPT ![b] = above[x] \union {x}]
        /\ pc' = [pc EXCEPT ![x] = "idle", ![b] = "naming"]
  BY CreateReach
<1>c. b \in Processes /\ b # Manager /\ Request' = Request /\ Manager \in Processes
  BY WhoIsWho DEF Request
<1>1. x # Manager => x \in Reached /\ pc[Manager] = "asking"
  <2> SUFFICES ASSUME x # Manager
               PROVE  x \in Reached /\ pc[Manager] = "asking"
    OBVIOUS
  <2>1. x \in Services /\ Asked(x) /\ ~Dies(x)
    BY WhoIsWho DEF Asked, Dies, Ending, Gone
  <2> QED BY <1>a, <2>1, AskedReached
<1>2. /\ pc'[x] = "idle" /\ pc'[b] = "naming" /\ \A q \in Processes \ {x, b} : pc'[q] = pc[q]
      /\ above'[b] = above[x] \union {x} /\ \A q \in Processes \ {b} : above'[q] = above[q]
  BY <1>a, <1>b, <1>c DEF Types
<1>3. Reached' = Reached \union {b}
  <2>1. Dying' = Dying
    BY <1>b, <1>2 DEF Dying, Born
  <2>2. Line(x) \intersect (Dying \union Marked) = {}
    <3>1. CASE x = Manager
      BY <1>a, <3>1, WhoIsWho DEF Line, TreeInv, Dying, Marked
    <3>2. CASE x # Manager
      BY <1>1, <3>2 DEF Reached, Line
    <3> QED BY <3>1, <3>2
  <2>3. b \in Reached'
    <3>1. b \notin Dying
      BY <1>b DEF Dying, Born
    <3> QED BY <1>b, <1>2, <2>1, <2>2, <3>1 DEF Reached, Line
  <2>4. \A s \in Services : s # b => (s \in Reached' <=> s \in Reached)
    BY <1>b, <1>c, <1>2, <2>1, WhoIsWho DEF Reached, Born
  <2>5. Reached \subseteq Services /\ Reached' \subseteq Services
    BY DEF Reached
  <2> QED BY <2>3, <2>4, <2>5
<1>4. /\ UserRequest.op = "spawn" /\ UserRequest.a = x /\ UserRequest.b = b
      /\ IsDone = FALSE
  <2>1. pc[Manager] \notin {"idle", "exited"}
    BY <1>1
  <2> QED BY <1>a, <1>b, <2>1, Requested DEF IsDone, Born
<1>5. \/ IsDone' = TRUE /\ UserRequest' = UserRequest
      \/ /\ x = Manager /\ UserRequest' = Tree!NoRequest /\ IsDone' = IsDone
  <2>1. CASE x = Manager
    <3>1. UserRequest' = Tree!NoRequest
      BY <1>2, <2>1 DEF UserRequest, Tree!NoRequest, Tree!Cmd, Msg
    <3>2. IsDone' = FALSE
      BY <1>2, <2>1 DEF IsDone
    <3> QED BY <1>4, <2>1, <3>1, <3>2
  <2>2. CASE x # Manager
    <3>1. pc'[Manager] = "asking" /\ pc[Manager] = "asking"
      BY <1>1, <1>2, <1>c, <2>2
    <3>2. UserRequest' = UserRequest
      BY <1>c, <3>1 DEF UserRequest
    <3>3. IsDone' = TRUE
      <4>1. pc'[Request'.b] # "unborn" /\ Request'.op = "spawn"
        BY <1>b, <1>c, <1>2
      <4> QED BY <3>1, <4>1 DEF IsDone
    <3> QED BY <3>2, <3>3
  <2> QED BY <2>1, <2>2
<1>6. Outcome' = Outcome
  BY DEF Outcome
<1>7. Tree!Serves(UserRequest.a)
  BY <1>1, <1>4 DEF Tree!Serves
<1> QED BY <1>b, <1>3, <1>4, <1>5, <1>6, <1>7 DEF Tree!Spawn

(* A kill comes to the service that is to die.                             *)
LEMMA KillStep ==
  ASSUME IInv, NEW s \in Services, Receive(s), MustDie(s, Head(down[s])), Head(down[s]) = Request
  PROVE  Tree!Kill
<1>a. Types /\ TreeInv /\ PipeInv /\ RequestInv
  BY DEF IInv
<1>b. s \in Processes /\ s # Manager /\ Manager \in Processes
  BY WhoIsWho
<1>1. /\ Request.op = "kill" /\ Request.a = s
  BY <1>a DEF MustDie, RequestInv, ReqOps
<1>2. /\ pc[s] = "idle" /\ down[s] # << >> /\ pc' = [pc EXCEPT ![s] = "telling"]
      /\ msg' = [msg EXCEPT ![s] = Head(down[s])]
      /\ UNCHANGED <<kids, above, said>>
  BY DEF Receive, tree, user
<1>3. /\ pc'[s] = "telling" /\ \A q \in Processes \ {s} : pc'[q] = pc[q]
      /\ Request' = Request
  BY <1>a, <1>b, <1>2 DEF Types, Request
<1>4. Holds(s, Request)
  BY <1>a, <1>2, FirstLetter
<1>5. s \in Reached /\ pc[Manager] = "asking"
  BY <1>2, <1>4, AskedReached DEF Asked, Dies, Ending, Gone
<1>6. Reached' = Reached \ Tree!Under(s)
  <2>1. Dying' = Dying \union {s} /\ Marked' = Marked
    BY <1>b, <1>2, <1>3, SameMarked DEF Dying
  <2>2. \A t \in Services : t \in Reached' <=> t \in Reached /\ s \notin above[t] /\ t # s
    BY <1>2, <1>3, <2>1, WhoIsWho DEF Reached
  <2>3. Reached' \subseteq Services /\ Reached \subseteq Services
    BY DEF Reached
  <2> QED BY <2>2, <2>3 DEF Tree!Under
<1>7. UserRequest.op = "kill" /\ UserRequest.a = s /\ UserRequest' = UserRequest
  <2>1. UserRequest.op = "kill" /\ UserRequest.a = s
    BY <1>a, <1>1, <1>5, Requested
  <2>2. UserRequest' = UserRequest
    BY <1>b, <1>3, <1>5 DEF UserRequest
  <2> QED BY <2>1, <2>2
<1>8. IsDone = FALSE
  BY <1>1, <1>5, <1>b DEF IsDone
<1>9. IsDone' = TRUE
  <2>1. s \notin Reached'
    BY <1>5, <1>6 DEF Tree!Under
  <2>2. pc'[Manager] = "asking" /\ Request'.op = "kill" /\ Request'.a = s
    BY <1>b, <1>1, <1>3, <1>5
  <2> QED BY <2>1, <2>2 DEF IsDone
<1>10. Outcome' = Outcome
  BY <1>2 DEF Outcome
<1> QED BY <1>2, <1>5, <1>6, <1>7, <1>8, <1>9, <1>10 DEF Tree!Kill

(* A service whose parent dies cannot be reached any more when it is told. *)
LEMMA DeadUnseen ==
  ASSUME IInv, ParentInv, NEW s \in Services, Receive(s), Head(down[s]) = Dead
  PROVE  UNCHANGED Tree!vars
<1>a. Types /\ TreeInv /\ PipeInv /\ RequestInv
  BY DEF IInv
<1>b. s \in Processes /\ s # Manager /\ Manager \in Processes
  BY WhoIsWho
<1>1. /\ pc[s] = "idle" /\ down[s] # << >> /\ pc' = [pc EXCEPT ![s] = "telling"]
      /\ msg' = [msg EXCEPT ![s] = Head(down[s])]
      /\ UNCHANGED <<kids, above, said>>
  BY Names DEF Receive, MustDie, tree, user
<1>2. /\ pc'[s] = "telling" /\ \A q \in Processes \ {s} : pc'[q] = pc[q]
      /\ Request' = Request
  BY <1>a, <1>b, <1>1 DEF Types, Request
<1>3. Told(s)
  <2>1. Holds(s, Dead)
    BY <1>a, <1>1, FirstLetter
  <2> QED BY <2>1 DEF Told
<1>4. PICK p \in above[s] : Kills(p)
  BY <1>3, ToldByParent
<1>5. p \in Processes /\ p \in Dying
  BY <1>a, <1>b, <1>4, Typed DEF Kills, Dying, Ending
<1>6. Reached' = Reached
  <2>1. Dying' = Dying \union {s} /\ Marked' = Marked
    BY <1>b, <1>1, <1>2, SameMarked DEF Dying
  <2>2. ASSUME NEW t \in Reached
        PROVE  s \notin above[t] /\ t # s
    <3>1. t \in Processes /\ above[t] \subseteq Processes /\ p \notin above[t]
      BY <1>a, <1>5, Typed, WhoIsWho DEF Reached
    <3>2. s \in above[t] => above[s] \subseteq above[t]
      BY <1>a, <3>1 DEF TreeInv
    <3> QED BY <1>4, <3>1, <3>2
  <2>3. \A t \in Services : t \in Reached' <=> t \in Reached /\ s \notin above[t] /\ t # s
    BY <1>1, <1>2, <2>1, WhoIsWho DEF Reached
  <2>4. Reached' \subseteq Services /\ Reached \subseteq Services
    BY DEF Reached
  <2> QED BY <2>2, <2>3, <2>4
<1>7. /\ \A q \in Processes : pc'[q] = "unborn" <=> pc[q] = "unborn"
      /\ pc'[Manager] = pc[Manager]
  BY <1>b, <1>1, <1>2
<1> QED BY <1>a, <1>1, <1>2, <1>6, <1>7, Unseen

(* Whoever receives something obeys or passes it on.                       *)
LEMMA ReceiveStep ==
  ASSUME IInv, ParentInv, NEW s \in Services, Receive(s)
  PROVE  Tree!Kill \/ UNCHANGED Tree!vars
<1>1. pc[s] = "idle" /\ down[s] # << >>
  BY DEF Receive
<1>2. Head(down[s]) \in {Request, Dead}
  BY <1>1, FirstLetter DEF IInv
<1>3. CASE MustDie(s, Head(down[s])) /\ Head(down[s]) = Request
  BY <1>3, KillStep
<1>4. CASE Head(down[s]) = Dead
  BY <1>4, DeadUnseen
<1>5. CASE ~MustDie(s, Head(down[s]))
  BY <1>5, WhoIsWho, PlainUnseen
<1> QED BY <1>2, <1>3, <1>4, <1>5

(* A service hears an answer.  A yes to a kill cuts off the child it comes *)
(* from, unless nobody reaches that child any more.                        *)
LEMMA HearStep ==
  ASSUME ReachInv, NEW x \in Services, Hear(x)
  PROVE  Tree!CutOff \/ UNCHANGED Tree!vars
<1>a. IInv /\ Types
  BY DEF ReachInv, IInv
<1>b. x \in Processes /\ x # Manager /\ Manager \in Processes /\ HasAnswer(x)
      /\ UNCHANGED <<msg, above, said>>
  BY WhoIsWho DEF Hear, user
<1>c. PICK k, c, a : k = at[x] /\ c = Child(x, k) /\ a = Answer(x)
  OBVIOUS
<1>d. PICK marks \in BOOLEAN : marks <=> (a # "not" /\ Request.op = "kill")
  OBVIOUS
<1>1. /\ Reached' = IF marks THEN {s \in Reached : c \notin Line(s)} ELSE Reached
      /\ marks => c \in Line(Request.a) /\ pc[Request.a] \in Gone
  BY <1>c, <1>d, HearReach
<1>2. marks => c \in Line(Request.a) /\ pc[Request.a] \in Gone
  BY <1>1
<1>3. /\ c \in Services /\ pc'[x] \in {"idle", "search"} /\ pc[x] = "asking"
      /\ \A q \in Processes : q # x => pc'[q] = pc[q]
  BY <1>c, <1>d, HearReach
<1>4. Request' = Request
  BY <1>b DEF Request
<1>5. Reached' = Reached => UNCHANGED Tree!vars
  BY <1>a, <1>b, <1>3, <1>4, Unseen
<1>6. CASE marks
  <2>1. Request.op = "kill" /\ Request.a \notin Reached
    BY <1>2, <1>6, <1>d, WhoIsWho, WhoIsReached DEF Line, Dies
  <2>2. pc[Manager] = "asking" /\ pc'[Manager] = "asking"
    <3>1. Asked(x) /\ ~Dies(x)
      BY <1>3 DEF Asked, Dies, Ending, Gone
    <3>2. pc[Manager] = "asking"
      BY <1>a, <3>1, AskedReached
    <3> QED BY <1>b, <1>3, <3>2
  <2>3. CASE c = Request.a
    <3>1. \A s \in Reached : c \notin Line(s)
      BY <1>2, <1>3, <1>6, <2>3, WhoIsWho, WhoIsReached DEF Dies
    <3> QED BY <1>1, <1>5, <1>6, <3>1
  <2>4. CASE c # Request.a
    <3>1. c \in above[Request.a] \ {Manager}
      BY <1>2, <1>3, <1>6, <2>4, WhoIsWho DEF Line
    <3>2. Reached' = Reached \ Tree!Under(c)
      BY <1>1, <1>6 DEF Tree!Under, Line
    <3>3. UserRequest.op = "kill" /\ UserRequest.a = Request.a /\ UserRequest' = UserRequest
      <4>1. UserRequest.op = "kill" /\ UserRequest.a = Request.a
        BY <1>a, <2>1, <2>2, Requested
      <4>2. UserRequest' = UserRequest
        BY <1>4, <2>2 DEF UserRequest
      <4> QED BY <4>1, <4>2
    <3>4. IsDone = TRUE /\ IsDone' = TRUE
      <4>1. Request.a \notin Reached'
        BY <2>1, <3>2
      <4> QED BY <1>4, <2>1, <2>2, <4>1 DEF IsDone
    <3>5. Outcome' = Outcome
      BY <1>b DEF Outcome
    <3> QED BY <1>b, <3>1, <3>2, <3>3, <3>4, <3>5 DEF Tree!CutOff, Tree!Loses
  <2> QED BY <2>3, <2>4
<1>7. CASE ~marks
  BY <1>1, <1>5, <1>7
<1> QED BY <1>6, <1>7

-----------------------------------------------------------------------------
(* Steps by which the outcome is told.                                     *)

(* The Manager goes back to the user with what was the outcome.            *)
LEMMA TellStep ==
  ASSUME Types, RequestInv, pc[Manager] \in {"search", "asking"},
         pc' = [pc EXCEPT ![Manager] = "idle"], above' = above,
         Reached' = Reached \/ Tree!Loses,
         \/ Request.op = "spawn" /\ IsDone /\ said'.op \in {"none", "spawn_missing"}
         \/ /\ Request.op = "spawn" /\ ~IsDone /\ Request.a \notin Reached
            /\ said'.op = "spawn_missing"
         \/ /\ Request.op = "find" /\ ~IsDone /\ Request.a \notin Reached
            /\ said'.op = "kill_missing"
         \/ Request.op = "kill" /\ IsDone /\ said'.op = "killed"
         \/ Request.op = "exchange" /\ said'.op = "exchanged"
  PROVE  Tree!Tell
<1>1. Manager \in Processes /\ pc'[Manager] = "idle"
  BY WhoIsWho DEF Types
<1>2. UserRequest' = Tree!NoRequest /\ IsDone' = FALSE
  BY <1>1 DEF UserRequest, IsDone, Tree!NoRequest, Tree!Cmd, Msg
<1>3. /\ UserRequest.op = IF Request.op = "find" THEN "kill" ELSE Request.op
      /\ UserRequest.a = Request.a /\ IsDone \in BOOLEAN
  BY Requested
<1>4. Request.op # "exchange" => Request.a # Manager
  BY WhoIsWho DEF RequestInv
<1>5. /\ said'.op = "none" => Outcome' = "nothing"
      /\ said'.op \in {"spawn_missing", "kill_missing"} => Outcome' = "missing"
      /\ said'.op \in {"killed", "exchanged"} => Outcome' = said'.op
  BY DEF Outcome
<1>6. /\ \/ UserRequest.op = "spawn" /\ IsDone /\ Outcome' \in {"nothing", "missing"}
         \/ /\ UserRequest.op \in {"spawn", "kill"} /\ ~IsDone
            /\ ~Tree!Serves(UserRequest.a) /\ Outcome' = "missing"
         \/ UserRequest.op = "kill" /\ IsDone /\ Outcome' = "killed"
         \/ UserRequest.op = "exchange" /\ Outcome' = "exchanged"
      /\ ~(UserRequest.op = "kill" /\ UserRequest.a = Manager)
  BY <1>3, <1>4, <1>5 DEF Tree!Serves
<1> QED BY <1>2, <1>6 DEF Tree!Tell

(* When the last child has been asked, the service cannot be reached; a    *)
(* kill has been told of before.                                           *)
LEMMA GivesUpStep ==
  ASSUME ReachInv, ManagerGivesUp
  PROVE  Tree!Tell
<1>a. Types /\ TreeInv /\ PipeInv /\ PathInv /\ RequestInv /\ AnswerInv
  BY DEF ReachInv, IInv
<1>1. /\ Manager \in Processes /\ pc[Manager] = "search" /\ ToAsk(Manager, at[Manager]) = {}
      /\ pc' = [pc EXCEPT ![Manager] = "idle"] /\ above' = above /\ kids' = kids
  BY WhoIsWho DEF ManagerGivesUp, tree
<1>2. Request.op \in ReqOps /\ (Request.op # "exchange" => Request.a \in Services)
  BY <1>a, <1>1 DEF RequestInv
<1>3. Reached' = Reached
  <2>1. \A p \in Processes :
          (pc'[p] = "unborn" <=> pc[p] = "unborn") /\ (Dies(p)' <=> Dies(p))
    BY <1>a, <1>1 DEF Types, Dies, Ending, Gone
  <2> QED BY <1>1, <2>1, SameMarked, SameReached
<1>4. ~Sought
  <2> SUFFICES ASSUME Sought
               PROVE  FALSE
    OBVIOUS
  <2>1. Request.a \in Reached
    BY DEF Sought
  <2>2. Request.a \in Services /\ Born(Request.a) /\ Request.a # Manager
    BY <2>1, WhoIsReached, WhoIsWho
  <2>3. Manager \in Line(Request.a)
    BY <1>a, <2>2 DEF TreeInv, Line
  <2> QED BY <1>1, <2>2, <2>3, SearchedAll
<1>5. /\ Request.op = "spawn" => said'.op = "spawn_missing"
      /\ Request.op = "find" => said'.op = "kill_missing"
      /\ Request.op = "exchange" => said'.op = "exchanged"
  <2>1. Request.op = "spawn" => said' = Msg("spawn_missing", Request.a, Manager)
    BY DEF ManagerGivesUp
  <2>2. Request.op = "find" => said' = Msg("kill_missing", Request.a, Manager)
    BY DEF ManagerGivesUp
  <2>3. Request.op = "exchange" => said' = [Request EXCEPT !.op = "exchanged"]
    BY DEF ManagerGivesUp
  <2> QED BY <1>a, <2>1, <2>2, <2>3, Names, Typed DEF Messages
<1>6. CASE Request.op = "spawn" /\ ~IsDone
  <2>1. ~Born(Request.b)
    BY <1>1, <1>6 DEF IsDone, Born
  <2>2. Request.a \notin Reached
    BY <1>4, <1>6, <2>1 DEF Sought, Seeks
  <2> QED BY <1>a, <1>1, <1>3, <1>5, <1>6, <2>2, TellStep
<1>7. CASE Request.op = "spawn" /\ IsDone
  BY <1>a, <1>1, <1>3, <1>5, <1>7, TellStep
<1>8. CASE Request.op = "find"
  <2>1. Request.a \notin Reached
    BY <1>4, <1>8 DEF Sought, Seeks
  <2>2. ~IsDone
    BY <1>8 DEF IsDone
  <2> QED BY <1>a, <1>1, <1>3, <1>5, <1>8, <2>1, <2>2, TellStep
<1>9. CASE Request.op = "kill"
  <2>1. \A s \in Services : ~Asked(s) /\ ~Told(s)
    BY <1>a, <1>1, NobodyBusy, RequestIsNoName
  <2>2. \A s \in Services : ~Yes(s)
    BY <2>1 DEF Asked, Yes
  <2>3. pc[Request.a] \notin Ending
    BY <1>a, <1>2, <1>9, <2>1, NotBusy DEF Ending
  <2>4. Request.a \notin Reached
    BY <1>4, <1>9 DEF Sought, Seeks
  <2> QED BY <1>a, <1>1, <1>9, <2>2, <2>3, <2>4 DEF AnswerInv
<1>10. CASE Request.op = "exchange"
  BY <1>a, <1>1, <1>3, <1>5, <1>10, TellStep
<1> QED BY <1>2, <1>6, <1>7, <1>8, <1>9, <1>10 DEF ReqOps

(* The Manager hears that the command was done, or goes on.  A yes to a    *)
(* kill may make it cut off its child.                                     *)
LEMMA HearsStep ==
  ASSUME ReachInv, ManagerHears
  PROVE  Tree!Tell \/ UNCHANGED Tree!vars
<1>a. Types /\ TreeInv /\ RequestInv /\ KillInv
  BY DEF ReachInv, IInv
<1>b. Manager \in Processes /\ pc[Manager] = "asking" /\ HasAnswer(Manager)
  BY WhoIsWho DEF ManagerHears, HasAnswer
<1>c. PICK a : a = Answer(Manager)
  OBVIOUS
<1>d. PICK yes \in BOOLEAN :
        /\ yes => a # "not"
        /\ ~yes => a = "not" \/ Request.op = "spawn"
        /\ msg' = IF yes /\ Request.op = "find"
                    THEN [msg EXCEPT ![Manager].op = "kill"] ELSE msg
        /\ pc' = [pc EXCEPT ![Manager] =
                    IF yes /\ Request.op # "find" THEN "idle" ELSE "search"]
        /\ said' = CASE yes /\ Request.op = "kill" ->
                          Msg("killed", Request.a, Request.a)
                     [] yes /\ Request.op = "exchange" -> [Request EXCEPT !.op = "exchanged"]
                     [] OTHER -> said
  BY <1>c DEF ManagerHears, Recognised
<1>1. above' = above /\ said.op = "none" /\ Request.op \in ReqOps
  BY <1>a, <1>b DEF ManagerHears, KillInv, RequestInv
<1>2. /\ a # "not" /\ Request.op = "kill" =>
           Request.a \in Services /\ pc[Request.a] \in Gone
      /\ a # "not" /\ Request.op = "find" => Request.a \in Reached
      /\ a # "not" /\ Request.op = "spawn" => Born(Request.b)
  <2>1. PICK x \in Processes : x = Manager
    BY <1>b
  <2>2. PICK k, c : k = at[x] /\ c = Child(x, k)
    OBVIOUS
  <2>3. HasAnswer(x) /\ a = Answer(x)
    BY <1>b, <1>c, <2>1
  <2> QED BY <2>2, <2>3, WhatIsHeard
<1>3. \/ Reached' = Reached
      \/ /\ Request.op = "kill" /\ a # "not"
         /\ \E c \in Line(Request.a) :
              c \in Services /\ Reached' = {s \in Reached : c \notin Line(s)}
  BY <1>c, ManagerHearsReach
<1>4. a # "not" /\ Request.op = "kill" => IsDone
  <2> SUFFICES ASSUME a # "not", Request.op = "kill"
               PROVE  IsDone
    OBVIOUS
  <2>1. Request.a \notin Reached
    BY <1>2, WhoIsWho, WhoIsReached DEF Line, Dies
  <2> QED BY <1>b, <2>1 DEF IsDone
<1>5. CASE yes /\ Request.op # "find"
  <2>1. pc' = [pc EXCEPT ![Manager] = "idle"] /\ a # "not"
    BY <1>d, <1>5
  <2>2. CASE Request.op = "spawn"
    <3>1. said' = said
      BY <1>d, <2>2
    <3>2. IsDone
      BY <1>b, <1>2, <2>1, <2>2 DEF IsDone, Born
    <3>3. Reached' = Reached
      BY <1>3, <2>2
    <3> QED BY <1>a, <1>b, <1>1, <2>1, <2>2, <3>1, <3>2, <3>3, TellStep
  <2>3. CASE Request.op = "kill"
    <3>1. said' = Msg("killed", Request.a, Request.a)
      BY <1>d, <1>5, <2>3
    <3>2. said'.op = "killed"
      BY <3>1, Names
    <3>3. IsDone
      BY <1>4, <2>1, <2>3
    <3>4. Reached' = Reached \/ Tree!Loses
      <4> SUFFICES ASSUME Reached' # Reached
                   PROVE  Tree!Loses
        OBVIOUS
      <4>1. PICK c \in Line(Request.a) :
              c \in Services /\ Reached' = {s \in Reached : c \notin Line(s)}
        BY <1>3
      <4>2. c # Request.a
        <5> SUFFICES ASSUME c = Request.a
                     PROVE  Reached' = Reached
          OBVIOUS
        <5>1. \A s \in Reached : c \notin Line(s)
          BY <1>2, <2>1, <2>3, WhoIsWho, WhoIsReached DEF Dies
        <5> QED BY <4>1, <5>1
      <4>3. c \in above[Request.a] \ {Manager}
        BY <4>1, <4>2, WhoIsWho DEF Line
      <4>4. Reached' = Reached \ Tree!Under(c)
        BY <4>1 DEF Tree!Under, Line
      <4>5. UserRequest.op = "kill" /\ UserRequest.a = Request.a
        BY <1>a, <1>b, <2>3, Requested
      <4> QED BY <3>3, <4>3, <4>4, <4>5 DEF Tree!Loses
    <3> QED BY <1>a, <1>b, <1>1, <2>1, <2>3, <3>2, <3>3, <3>4, TellStep
  <2>4. CASE Request.op = "exchange"
    <3>1. said' = [Request EXCEPT !.op = "exchanged"]
      BY <1>d, <1>5, <2>4
    <3>2. said'.op = "exchanged"
      BY <1>a, <3>1, Typed DEF Messages
    <3>3. Reached' = Reached
      BY <1>3, <2>4
    <3> QED BY <1>a, <1>b, <1>1, <2>1, <2>4, <3>2, <3>3, TellStep
  <2> QED BY <1>1, <1>5, <2>2, <2>3, <2>4 DEF ReqOps
<1>6. CASE ~(yes /\ Request.op # "find")
  <2>1. /\ pc'[Manager] = "search" /\ \A p \in Processes \ {Manager} : pc'[p] = pc[p]
    BY <1>a, <1>b, <1>d, <1>6 DEF Types
  <2>2. said' = said
    BY <1>d, <1>6
  <2>3. \/ Request' = Request
        \/ /\ Request.op = "find" /\ Request' = [Request EXCEPT !.op = "kill"]
           /\ Request.a \in Reached
    BY <1>a, <1>b, <1>d, <1>2 DEF Types, Request
  <2>4. Reached' = Reached
    BY <1>3, <1>6, <1>d
  <2>5. \A p \in Processes : pc'[p] = "unborn" <=> pc[p] = "unborn"
    BY <1>b, <2>1
  <2> QED BY <1>a, <1>b, <1>1, <2>1, <2>2, <2>3, <2>4, <2>5, Unseen
<1> QED BY <1>5, <1>6

(* The Manager ends.                                                       *)
LEMMA EndsStep ==
  ASSUME IInv, ManagerEnds
  PROVE  Tree!Tell
<1>a. Types /\ TreeInv /\ RequestInv
  BY DEF IInv
<1>1. /\ Manager \in Processes /\ pc[Manager] = "telling" /\ UNCHANGED <<above, kids>>
      /\ pc' = [pc EXCEPT ![Manager] = "exited"] /\ said' = Msg("killed", Manager, Manager)
  BY WhoIsWho DEF ManagerEnds, tree
<1>2. pc'[Manager] = "exited" /\ \A p \in Processes \ {Manager} : pc'[p] = pc[p]
  BY <1>a, <1>1 DEF Types
<1>3. Reached' = Reached
  <2>1. \A p \in Processes :
          (pc'[p] = "unborn" <=> pc[p] = "unborn") /\ (Dies(p)' <=> Dies(p))
    BY <1>1, <1>2 DEF Dies, Ending, Gone
  <2> QED BY <1>1, <2>1, SameMarked, SameReached
<1>4. Request.op = "kill" /\ Request.a = Manager
  BY <1>a, <1>1 DEF RequestInv, Ending
<1>5. UserRequest.op = "kill" /\ UserRequest.a = Manager /\ IsDone
  <2>1. UserRequest.op = "kill" /\ UserRequest.a = Manager
    BY <1>a, <1>1, <1>4, Requested
  <2>2. Manager \notin Reached
    BY WhoIsWho DEF Reached
  <2> QED BY <1>1, <1>4, <2>1, <2>2 DEF IsDone
<1>6. UserRequest' = Tree!Over /\ IsDone' = FALSE
  BY <1>2 DEF UserRequest, IsDone, Tree!Over, Tree!Cmd, Msg
<1>7. Outcome' = "killed"
  BY <1>1, Names DEF Outcome
<1> QED BY <1>1, <1>3, <1>5, <1>6, <1>7 DEF Tree!Tell

-----------------------------------------------------------------------------
(* The steps of the tree are steps of its abstraction.                     *)

(* The user gives a command.                                               *)
LEMMA CommandStep ==
  ASSUME IInv, Command
  PROVE  Tree!Command
<1>a. Types /\ TreeInv
  BY DEF IInv
<1>b. pc[Manager] = "idle" /\ Manager \in Processes
  BY WhoIsWho DEF Command
<1>c. PICK m \in Requests :
       /\ msg' = [msg EXCEPT ![Manager] =
                    IF m.op = "kill" /\ m.a # Manager THEN [m EXCEPT !.op = "find"]
                    ELSE m]
       /\ pc' = [pc EXCEPT ![Manager] =
                   IF m.a # Manager \/ m.op = "exchange" THEN "search"
                   ELSE IF m.op = "spawn" THEN "found" ELSE "telling"]
       /\ above' = above /\ kids' = kids /\ said' = NoNews
  BY DEF Command, tree
<1>1. /\ pc'[Manager] = IF m.a # Manager \/ m.op = "exchange" THEN "search"
                        ELSE IF m.op = "spawn" THEN "found" ELSE "telling"
      /\ \A p \in Processes \ {Manager} : pc'[p] = pc[p]
      /\ Request' = IF m.op = "kill" /\ m.a # Manager THEN [m EXCEPT !.op = "find"] ELSE m
      /\ UNCHANGED <<above, kids>>
  BY <1>a, <1>b, <1>c DEF Types, Request
<1>2. /\ UserRequest = Tree!NoRequest /\ Outcome' = "nothing"
      /\ pc'[Manager] \notin {"idle", "exited"}
  BY <1>a, <1>b, <1>c, <1>1, Requested, Names DEF Outcome
<1>3. pc'[Manager] # "telling" => Reached' = Reached
  <2> SUFFICES ASSUME pc'[Manager] # "telling"
               PROVE  Reached' = Reached
    OBVIOUS
  <2>1. \A p \in Processes :
          (pc'[p] = "unborn" <=> pc[p] = "unborn") /\ (Dies(p)' <=> Dies(p))
    BY <1>b, <1>1 DEF Dies, Ending, Gone
  <2> QED BY <1>1, <2>1, SameMarked, SameReached
<1>4. m \in Messages /\ m.op \in {"spawn", "kill", "exchange"}
      /\ (m.op = "spawn" => m.b \in Services /\ ~Born(m.b))
      /\ (m.op = "kill" => m.b = m.a)
  BY <1>a, RequestsAre
<1>5. /\ m = Tree!Cmd(m.op, m.a, m.b)
      /\ [[m EXCEPT !.op = "find"] EXCEPT !.op = "kill"] = [m EXCEPT !.op = "kill"]
      /\ m.op = "kill" => [m EXCEPT !.op = "kill"] = m
      /\ [m EXCEPT !.op = "find"].op = "find" /\ [m EXCEPT !.op = "find"].a = m.a
      /\ m.a \in Processes /\ m.b \in Processes
  BY <1>4 DEF Messages, Tree!Cmd
<1>6. UserRequest' = Tree!Cmd(m.op, m.a, m.b)
  <2>1. CASE m.op = "kill" /\ m.a # Manager
    BY <1>1, <1>2, <1>5, <2>1 DEF UserRequest
  <2>2. CASE ~(m.op = "kill" /\ m.a # Manager)
    BY <1>1, <1>2, <1>4, <1>5, <2>2 DEF UserRequest
  <2> QED BY <2>1, <2>2
<1>7. CASE m.op = "spawn"
  <2>1. Reached' = Reached
    BY <1>1, <1>3, <1>7
  <2>2. IsDone' = FALSE
    <3>1. Request' = m /\ pc'[m.b] = "unborn"
      BY <1>1, <1>4, <1>5, <1>7, WhoIsWho DEF Born
    <3> QED BY <1>7, <3>1 DEF IsDone
  <2>3. m.b \in Services \ Reached /\ above[m.b] = {}
    BY <1>a, <1>4, <1>5, <1>7, WhoIsReached DEF TreeInv
  <2>4. UserRequest' = Tree!Cmd("spawn", m.a, m.b)
    BY <1>6, <1>7
  <2>5. m.a \in Tree!Processes
    BY <1>5, WhoIsWho DEF Tree!Processes
  <2> QED BY <1>1, <1>2, <2>1, <2>2, <2>3, <2>4, <2>5 DEF Tree!Command
<1>8. CASE m.op = "kill" /\ m.a # Manager
  <2>1. Reached' = Reached
    BY <1>1, <1>3, <1>8
  <2>2. m.a \in Services /\ UserRequest' = Tree!Cmd("kill", m.a, m.a)
    BY <1>4, <1>5, <1>6, <1>8, WhoIsWho
  <2>3. IsDone' = FALSE
    <3>1. Request'.op = "find"
      BY <1>1, <1>5, <1>8
    <3> QED BY <3>1 DEF IsDone
  <2> QED BY <1>1, <1>2, <2>1, <2>2, <2>3 DEF Tree!Command
<1>9. CASE m.op = "kill" /\ m.a = Manager
  <2>1. pc'[Manager] = "telling" /\ Request' = m
    BY <1>1, <1>9
  <2>2. IsDone' = TRUE
    <3>1. m.a \notin Reached'
      BY <1>9, WhoIsWho DEF Reached
    <3> QED BY <1>9, <2>1, <3>1 DEF IsDone
  <2>3. Reached' = {}
    <3>1. Manager \in Dying'
      BY <1>b, <2>1 DEF Dying
    <3>2. \A s \in Services : pc'[s] # "unborn" => Manager \in above'[s]
      BY <1>a, <1>1, WhoIsWho DEF TreeInv, Born
    <3> QED BY <3>1, <3>2 DEF Reached
  <2>4. UserRequest' = Tree!Cmd("kill", Manager, Manager)
    BY <1>4, <1>6, <1>9
  <2> QED BY <1>1, <1>2, <2>2, <2>3, <2>4 DEF Tree!Command
<1>10. CASE m.op = "exchange"
  <2>1. Reached' = Reached
    BY <1>1, <1>3, <1>10
  <2>2. IsDone' = FALSE
    BY <1>1, <1>10 DEF IsDone
  <2>3. UserRequest' = Tree!Cmd("exchange", m.a, m.b)
    BY <1>6, <1>10
  <2>4. m.a \in Tree!Processes /\ m.b \in Tree!Processes
    BY <1>5, WhoIsWho DEF Tree!Processes
  <2> QED BY <1>1, <1>2, <2>1, <2>2, <2>3, <2>4 DEF Tree!Command
<1> QED BY <1>4, <1>7, <1>8, <1>9, <1>10

(* Every step.                                                             *)
LEMMA ImplementsStep ==
  ASSUME ReachInv, [Next]_vars
  PROVE  Tree!Next \/ UNCHANGED Tree!vars
<1>a. IInv /\ ParentInv /\ Types /\ RequestInv
  BY DEF ReachInv, IInv
<1>b. /\ Manager \in Processes /\ Services \subseteq Processes
      /\ \A s \in Services : s # Manager
  BY WhoIsWho
<1>1. CASE Command
  BY <1>a, <1>1, CommandStep DEF Tree!Next
<1>2. CASE ManagerStep
  <2>1. CASE ManagerSpawns
    <3>1. /\ pc[Manager] = "found" /\ Create(Manager, Request.b)
          /\ UNCHANGED <<msg, up, said>>
      BY <2>1 DEF ManagerSpawns, user
    <3>2. Request.op = "spawn" /\ Manager \notin Services
      BY <1>a, <1>b, <3>1 DEF RequestInv
    <3> QED BY <1>b, <3>1, <3>2, SpawnStep DEF Tree!Next
  <2>2. CASE ManagerAsks \/ ManagerTells \/ WaitNull(Manager)
    BY <1>a, <1>b, <2>2, PlainUnseen DEF ManagerAsks, ManagerTells
  <2>3. CASE ManagerGivesUp
    BY <2>3, GivesUpStep DEF Tree!Next
  <2>4. CASE ManagerHears
    BY <2>4, HearsStep DEF Tree!Next
  <2>5. CASE ManagerEnds
    BY <1>a, <2>5, EndsStep DEF Tree!Next
  <2> QED BY <1>2, <2>1, <2>2, <2>3, <2>4, <2>5 DEF ManagerStep
<1>3. CASE \E s \in Services : ServiceStep(s)
  <2>1. PICK s \in Services : ServiceStep(s)
    BY <1>3
  <2>2. s \in Processes /\ s # Manager
    BY <1>b
  <2>3. CASE Receive(s)
    BY <1>a, <2>3, ReceiveStep DEF Tree!Next
  <2>4. CASE Found(s) /\ Request.op = "spawn"
    <3>1. pc[s] = "found" /\ msg[s] = Request
      BY <1>a, <2>2, <2>4, SameRequest DEF Found
    <3>2. Create(s, Request.b) /\ Reply(s, "yes") /\ UNCHANGED <<msg, said>>
      BY <2>4, <3>1 DEF Found, user
    <3> QED BY <2>2, <2>4, <3>1, <3>2, SpawnStep DEF Tree!Next
  <2>5. CASE Found(s) /\ Request.op # "spawn"
    BY <1>a, <2>2, <2>5, PlainUnseen
  <2>6. CASE Hear(s)
    BY <2>6, HearStep DEF Tree!Next
  <2>7. CASE \/ ReadName(s) \/ Forward(s) \/ GiveUp(s)
             \/ TellKids(s) \/ WaitNull(s) \/ Leave(s) \/ ExitProcess(s)
    BY <1>a, <2>2, <2>7, PlainUnseen DEF Forward, TellKids
  <2> QED BY <2>1, <2>3, <2>4, <2>5, <2>6, <2>7 DEF ServiceStep
<1>4. CASE UNCHANGED vars
  <2>1. UNCHANGED <<pc, msg, kids, above, said>>
    BY <1>4 DEF vars, tree, user
  <2>2. Reached' = Reached /\ Request' = Request
    BY <2>1 DEF Reached, Dying, Marked, Child, Request
  <2> QED BY <2>1, <2>2 DEF Tree!vars, UserRequest, IsDone, Outcome
<1> QED BY <1>1, <1>2, <1>3, <1>4 DEF Next

LEMMA ImplementsInit ==
  ASSUME Init
  PROVE  Tree!Init
<1>1. pc[Manager] = "idle" /\ \A s \in Services : pc[s] = "unborn"
  BY WhoIsWho DEF Init
<1>2. Reached = {}
  BY <1>1 DEF Reached
<1>3. above = [p \in Tree!Processes |-> {}]
  <2>1. Tree!Processes = Processes
    BY WhoIsWho DEF Tree!Processes
  <2> QED BY <2>1 DEF Init
<1>4. UserRequest = Tree!NoRequest /\ IsDone = FALSE
  BY <1>1 DEF UserRequest, IsDone, Tree!NoRequest, Tree!Cmd, Msg
<1>5. Outcome = "nothing"
  BY Names DEF Init, Outcome
<1> QED BY <1>2, <1>3, <1>4, <1>5 DEF Tree!Init

(* However deep the tree is, a command takes effect once, at one instant,  *)
(* if and only if the service it is for can be reached then; a service and *)
(* all under it are dead together for the user, though they end one after  *)
(* the other; and a yes to a kill cuts off nobody but those under the      *)
(* ancestors of its target (service.c:168-513).                            *)
THEOREM TreeImplementsTree == Spec => ImplementsTree
<1>1. Init => Tree!Init
  BY ImplementsInit
<1>2. ReachInv /\ [Next]_vars => [Tree!Next]_(Tree!vars)
  BY ImplementsStep
<1> QED BY <1>1, <1>2, ReachInductive, PTL DEF Spec, ImplementsTree, Tree!Spec
================================================================================
