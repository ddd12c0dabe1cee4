-------------------------------- MODULE Board --------------------------------
(***************************************************************************)
(* What a bulletin board promises those who use it, with no connections,   *)
(* no cached copy and no handlers: a post takes the place of one record at *)
(* one instant, and a pull shows nothing but what the board held at one    *)
(* instant between the request and the answer.  Records that somebody else *)
(* has locked may be missing from the answer.  BulletinBoard (HW1) with    *)
(* one server is shown to implement this specification.                    *)
(***************************************************************************)
CONSTANTS Records, Clients, Posts, Empty

VARIABLES
  board,                 \* the post in each record, or Empty
  asked,                 \* clients whose pull has not looked at the board yet
  view,                  \* what a pull saw when it looked, until it is answered
  answer                 \* what was sent to each client, until it reads it

vars == <<board, asked, view, answer>>

None  == [seen |-> FALSE, posts |-> {}]
Seen(P) == [seen |-> TRUE, posts |-> P]
OnBoard == {board[r] : r \in Records} \ {Empty}

Init ==
  /\ board \in [Records -> Posts \union {Empty}]
  /\ asked = {}
  /\ view = [c \in Clients |-> None] /\ answer = view

Ask(c) ==
  /\ c \notin asked /\ ~view[c].seen /\ ~answer[c].seen
  /\ asked' = asked \union {c}
  /\ UNCHANGED <<board, view, answer>>

(* Several pulls may look at the same instant.                             *)
Look(C) ==
  /\ C # {} /\ C \subseteq asked
  /\ asked' = asked \ C
  /\ view' = [c \in Clients |-> IF c \in C THEN Seen(OnBoard) ELSE view[c]]
  /\ UNCHANGED <<board, answer>>

Answer(c) ==
  /\ view[c].seen
  /\ \E P \in SUBSET view[c].posts : answer' = [answer EXCEPT ![c] = Seen(P)]
  /\ view' = [view EXCEPT ![c] = None]
  /\ UNCHANGED <<board, asked>>

Show(c) ==
  /\ answer[c].seen
  /\ answer' = [answer EXCEPT ![c] = None]
  /\ UNCHANGED <<board, asked, view>>

(* Two records never hold the same post.                                   *)
Post(r, p) ==
  /\ p \notin OnBoard
  /\ board' = [board EXCEPT ![r] = p]
  /\ UNCHANGED <<asked, view, answer>>

Next ==
  \/ \E c \in Clients : Ask(c) \/ Answer(c) \/ Show(c)
  \/ \E C \in SUBSET Clients : Look(C)
  \/ \E r \in Records, p \in Posts : Post(r, p)

Spec == Init /\ [][Next]_vars
=============================================================================
