------------------------ MODULE BulletinBoardProofs ------------------------
(***************************************************************************)
(* Proofs about the bulletin board of HW1 for every number of servers, of  *)
(* clients, of records and of posts, and with any records locked by the    *)
(* other process at any time.  The inductive invariant says where each     *)
(* post and each message is; for every action there is one step that       *)
(* preserves each of its parts.                                            *)
(***************************************************************************)
EXTENDS BulletinBoard, SequenceTheorems, TLAPS

Question == {"pull", "check"}

-----------------------------------------------------------------------------
(* The inductive invariant, part by part.                                  *)

(* Where in its loop a server is, and what it has in hand there.           *)
ControlInv ==
  \A s \in Servers :
    /\ spc[s] \in {"refresh", "select", "loop", "aborted"} =>
         req[s] = NoReq /\ at[s] = 0 /\ free[s] = {}
    /\ spc[s] \in {"scan", "lock", "write", "unlock"} => req[s].client \in Clients
    /\ spc[s] \in {"refresh", "select"} => ready[s] = {}
    /\ spc[s] = "select" => offset[s] = RECORD_NUM
    /\ spc[s] \in {"lock", "write", "unlock"} => req[s].msg.op = "post"
    /\ req[s].msg.op \in Question => at[s] <= RECORD_NUM
    /\ req[s].msg.op \notin {"exit", "eof"}

(* A client belongs to one server, which has one message of it in hand at  *)
(* most, and then has gone past it in this round.                          *)
ConnInv ==
  \A c \in Clients :
    /\ cpc[c] = "off" <=> server[c] = Nobody
    /\ cpc[c] = "off" => up[c] = << >> /\ sent[c] = 0
    /\ \A s \in Servers :
         /\ c \in ready[s] => server[c] = s /\ up[c] # << >>
         /\ req[s].client = c => server[c] = s /\ c \notin ready[s]

(* What can be in a stream: one post at most, then one question, or the    *)
(* end.                                                                    *)
StreamOf(c) ==
  /\ cpc[c] = "compose" => up[c] = << >>
  /\ \A k \in 1..Len(up[c]) :
       /\ up[c][k].op = "post" =>
            k = 1 /\ up[c][k].post.by = c /\ up[c][k].post.n <= sent[c]
       /\ up[c][k].op \in Question =>
            k = Len(up[c]) /\ cpc[c] \in {"pull", "check", "gone"}
       /\ up[c][k].op = "exit" => k < Len(up[c]) /\ up[c][k + 1].op = "eof"
       /\ up[c][k].op \in {"exit", "eof"} => cpc[c] = "gone"

StreamInv == \A c \in Clients : StreamOf(c)

(* A client waits for one answer at a time.                                *)
TalkInv ==
  \A c \in Clients :
    /\ down[c] # NoReply => cpc[c] \in {"pull", "check", "gone"} /\ up[c] = << >>
    /\ \A s \in Servers :
         /\ req[s].client = c => down[c] = NoReply
         /\ req[s].client = c => cpc[c] # "compose"
         /\ req[s].client = c /\ req[s].msg.op \in Question =>
              cpc[c] \in {"pull", "check", "gone"} /\ up[c] = << >>

(* A post is in the stream, in the hands of one server, or logged.         *)
InStream(p) == up[p.by] # << >> /\ up[p.by][1].post = p
InHand(s, p) == req[s].msg.post = p

(* The number of its log lines follows from where it is.                   *)
PostOf(p) ==
  /\ InStream(p) => p.n <= sent[p.by] /\ \A s \in Servers : ~InHand(s, p)
  /\ \A s \in Servers : InHand(s, p) => req[s].client = p.by /\ p.n <= sent[p.by]
  /\ logged[p] = IF /\ p.n <= sent[p.by] /\ ~InStream(p)
                    /\ \A s \in Servers : ~InHand(s, p)
                   THEN 1 ELSE 0

PostInv == \A p \in NewPosts : PostOf(p)

(* What the loops over the records have found out.                         *)
Passed(s, j) == (last[s] + 1 + (j % RECORD_NUM)) % RECORD_NUM

LoopOf(s) ==
  /\ req[s].msg.op \in Question =>
       /\ \A r \in free[s] : r < at[s]
       /\ \A r \in steady[s] : r < at[s] => (r \in free[s] <=> ~IsLocked(s, r))
  /\ spc[s] = "scan" /\ req[s].msg.op = "post" =>
       \A j \in 0..at[s] - 1 : Passed(s, j) \in steady[s] => IsLocked(s, Passed(s, j))

LoopInv == \A s \in Servers : LoopOf(s)

(* The copy a server has is good for the posts of its own clients, but for *)
(* those it stored in this round.                                          *)
OwnInv ==
  \A s \in Servers, c \in Clients, r \in Records :
    /\ server[c] = s /\ file[r].by = c
    /\ \/ offset[s] = RECORD_NUM
       \/ c \in ready[s]
       \/ req[s].client = c /\ req[s].msg.op \in Question
    => all[s][r] = file[r]

(* A post is in one record, in the file and in the copies, once it has     *)
(* been written.                                                           *)
Stored(p) ==
  /\ p.n <= sent[p.by] /\ ~InStream(p)
  /\ \A s \in Servers : InHand(s, p) => spc[s] = "unlock"

BoardInv ==
  /\ \A r, q \in Records : file[r] = file[q] /\ file[r] # Empty => r = q
  /\ \A s \in Servers, r, q \in Records : all[s][q] = file[r] /\ file[r] # Empty => q = r
  /\ \A p \in NewPosts, r \in Records : file[r] = p => Stored(p)
  /\ \A p \in NewPosts, r \in Records, s \in Servers : all[s][r] = p => Stored(p)

(* Where users wait for their posts to be read and nobody is killed, the   *)
(* end of a stream is behind an exit.                                      *)
ExitInv ==
  Paced /\ kills = 0 =>
    /\ \A s \in Servers : spc[s] # "aborted"
    /\ \A c \in Clients : \A k \in 1..Len(up[c]) :
         up[c][k].op = "eof" => k = 2 /\ up[c][1].op = "exit"

IInv ==
  /\ TypeOK /\ ControlInv /\ ConnInv /\ StreamInv /\ TalkInv /\ PostInv
  /\ LocksForPosts /\ LoopInv /\ OwnInv /\ BoardInv

-----------------------------------------------------------------------------
(* Constants, posts and messages.                                          *)
LEMMA ConstFacts ==
  /\ Nobody \notin Servers /\ Nobody \notin Clients /\ Other \notin Servers
  /\ Nobody # Other /\ 0 \in Records
  /\ RECORD_NUM \in Nat \ {0} /\ NClients \in Nat \ {0}
  /\ MaxPosts \in Nat /\ MaxKills \in Nat
  /\ Records \subseteq Nat /\ \A r \in Records : r < RECORD_NUM
  BY BoardAssumption DEF Servers, Clients, Records, Nobody, Other

(* Remainders.                                                             *)
LEMMA ModRange ==
  ASSUME NEW a \in Nat
  PROVE  a % RECORD_NUM \in Records /\ a % RECORD_NUM <= a
  BY ConstFacts DEF Records

LEMMA ModUnique ==
  ASSUME NEW q \in Nat, NEW r \in Records
  PROVE  (RECORD_NUM * q + r) % RECORD_NUM = r
  BY ConstFacts DEF Records

LEMMA PostFacts ==
  /\ Empty \notin NewPosts /\ NewPosts \subseteq Posts
  /\ Empty.by = Nobody
  /\ \A p \in NewPosts : p.by \in Clients /\ p.n \in Nat \ {0}
  /\ \A c \in Clients, n \in 1..MaxPosts :
       Post(c, n) \in NewPosts /\ Post(c, n).by = c /\ Post(c, n).n = n
  /\ \A p, q \in NewPosts : p.by = q.by /\ p.n = q.n => p = q
  /\ \A p \in Posts : p.by \in Clients => p \in NewPosts
  <1>1. /\ Empty \notin NewPosts /\ NewPosts \subseteq Posts /\ Empty.by = Nobody
    <2>1. Empty.by = Nobody /\ \A p \in NewPosts : p.by \in Clients
      BY DEF Empty, NewPosts, Post
    <2> QED BY <2>1, ConstFacts DEF Posts
  <1>2. \A p \in NewPosts : p.by \in Clients /\ p.n \in Nat \ {0}
    BY ConstFacts DEF NewPosts, Post
  <1>3. \A c \in Clients, n \in 1..MaxPosts :
          Post(c, n) \in NewPosts /\ Post(c, n).by = c /\ Post(c, n).n = n
    BY DEF NewPosts, Post
  <1>4. \A p, q \in NewPosts : p.by = q.by /\ p.n = q.n => p = q
    BY DEF NewPosts, Post
  <1>5. \A p \in Posts : p.by \in Clients => p \in NewPosts
    BY ConstFacts DEF Posts, Old, Post
  <1> QED BY <1>1, <1>2, <1>3, <1>4, <1>5

LEMMA MessageFacts ==
  /\ \A m \in Messages :
       /\ m = Msg(m.op, m.post)
       /\ m.op \in {"pull", "check", "post", "exit", "eof"}
       /\ m.op = "post" <=> m.post \in NewPosts
       /\ m.op # "post" => m.post = Empty
  /\ \A op \in {"pull", "check", "exit", "eof"} :
       Plain(op) \in Messages /\ Plain(op).op = op /\ Plain(op).post = Empty
  /\ \A p \in NewPosts :
       Msg("post", p) \in Messages /\ Msg("post", p).op = "post" /\ Msg("post", p).post = p
  <1>1. \A op \in {"pull", "check", "exit", "eof"} :
          Plain(op) \in Messages /\ Plain(op).op = op /\ Plain(op).post = Empty
    BY DEF Messages, Plain, Msg
  <1>2. \A p \in NewPosts :
          Msg("post", p) \in Messages /\ Msg("post", p).op = "post" /\ Msg("post", p).post = p
    BY DEF Messages, Msg
  <1>3. ASSUME NEW m \in Messages
        PROVE  /\ m = Msg(m.op, m.post)
               /\ m.op \in {"pull", "check", "post", "exit", "eof"}
               /\ m.op = "post" <=> m.post \in NewPosts
               /\ m.op # "post" => m.post = Empty
    <2>1. CASE \E op \in {"pull", "check", "exit", "eof"} : m = Plain(op)
      BY <2>1, PostFacts DEF Plain, Msg
    <2>2. CASE \E p \in NewPosts : m = Msg("post", p)
      BY <2>2, PostFacts DEF Msg
    <2> QED BY <2>1, <2>2 DEF Messages
  <1> QED BY <1>1, <1>2, <1>3

LEMMA NoReqFacts ==
  /\ NoReq.client = Nobody /\ NoReq.msg.op = "none" /\ NoReq.msg.post = Empty
  /\ \A q \in [client : Clients, msg : Messages] : q.client \in Clients /\ q.msg \in Messages
  /\ \A c \in Clients, m \in Messages :
       /\ [client |-> c, msg |-> m] \in [client : Clients, msg : Messages]
       /\ [client |-> c, msg |-> m].client = c /\ [client |-> c, msg |-> m].msg = m
  BY DEF NoReq, Plain, Msg

(* What a server has in hand, in short.                                    *)
LEMMA ReqFacts ==
  ASSUME TypeOK, NEW s \in Servers
  PROVE  \/ /\ req[s] = NoReq /\ req[s].client = Nobody
            /\ req[s].msg.op = "none" /\ req[s].msg.post = Empty
         \/ /\ req[s].client \in Clients /\ req[s].msg \in Messages
            /\ req[s].msg.post \in NewPosts \union {Empty}
            /\ req[s].msg.op = "post" <=> req[s].msg.post \in NewPosts
            /\ req[s] # NoReq
  BY ConstFacts, NoReqFacts, MessageFacts DEF TypeOK

-----------------------------------------------------------------------------
(* The initial state.                                                      *)
LEMMA InitInv == Init => IInv
  <1> SUFFICES ASSUME Init PROVE IInv
    OBVIOUS
  <1>1. /\ \A s \in Servers : /\ req[s] = NoReq /\ spc[s] = "refresh"
                              /\ offset[s] = 0 /\ ready[s] = {} /\ at[s] = 0
                              /\ free[s] = {} /\ pos[s] = 0 /\ steady[s] = {}
                              /\ last[s] = -1
        /\ \A s \in Servers, r \in Records : all[s][r] = Empty
        /\ \A c \in Clients : up[c] = << >> /\ Len(up[c]) = 0 /\ down[c] = NoReply
        /\ \A c \in Clients : cpc[c] = "off" /\ server[c] = Nobody /\ sent[c] = 0
        /\ \A p \in NewPosts : logged[p] = 0
        /\ \A r \in Records : lock[r] = Nobody
        /\ \A r \in Records : file[r] = IF r \in Filled THEN Old(r) ELSE Empty
    BY EmptySeq DEF Init
  <1>2. \A r \in Records : /\ Old(r) \in Posts \ {Empty} /\ Old(r).by = Nobody
                           /\ Old(r) \notin NewPosts
                           /\ \A q \in Records : Old(r) = Old(q) => r = q
    BY ConstFacts, PostFacts DEF Old, Posts, Empty, Post
  <1>3. TypeOK
    <2>1. up \in [Clients -> Seq(Messages)]
      BY EmptySeq DEF Init
    <2>2. down \in [Clients -> [kind : {"none", "yes", "no", "board"}, posts : SUBSET Posts]]
      BY DEF Init, NoReply, Reply
    <2>3. file \in [Records -> Posts \union {Empty}]
      BY <1>2 DEF Init
    <2> QED
      BY <2>1, <2>2, <2>3, ConstFacts DEF Init, TypeOK
  <1>4. ControlInv /\ ConnInv /\ LoopInv /\ LocksForPosts
    BY <1>1, NoReqFacts, ConstFacts DEF ControlInv, ConnInv, LoopInv, LoopOf, LocksForPosts, Question
  <1>5. StreamInv /\ TalkInv
    BY <1>1, NoReqFacts, ConstFacts DEF StreamInv, StreamOf, TalkInv
  <1>6. PostInv
    BY <1>1, NoReqFacts, PostFacts DEF PostInv, PostOf, InStream, InHand
  <1>7. OwnInv /\ BoardInv
    BY <1>1, <1>2, NoReqFacts, PostFacts, ConstFacts DEF OwnInv, BoardInv, Question
  <1> QED BY <1>3, <1>4, <1>5, <1>6, <1>7 DEF IInv

-----------------------------------------------------------------------------
(* Streams: what Read takes out, and what the clients put in.              *)
Taken(c, k) ==
  /\ Len(up'[c]) = Len(up[c]) - k
  /\ \A j \in 1..Len(up'[c]) : up'[c][j] = up[c][j + k]

LEMMA ReadFacts ==
  ASSUME TypeOK, ControlInv, ConnInv, StreamInv,
         NEW s \in Servers, NEW c \in Clients, Read(s, c)
  PROVE  /\ spc[s] = "loop" /\ req[s] = NoReq /\ at[s] = 0 /\ free[s] = {}
         /\ c \in ready[s] /\ server[c] = s
         /\ up[c] # << >> /\ Len(up[c]) \in Nat \ {0} /\ up[c][1] \in Messages
         /\ up[c][1].op \in {"pull", "check", "post"}
         /\ req' = [req EXCEPT ![s] = [client |-> c, msg |-> up[c][1]]]
         /\ up' = [up EXCEPT ![c] = up'[c]] /\ up'[c] \in Seq(Messages)
         /\ up[c][1].op \in Question => up'[c] = << >>
         /\ \E k \in 1..Len(up[c]) : Taken(c, k)
  <1>1. /\ spc[s] = "loop" /\ req[s] = NoReq /\ at[s] = 0 /\ free[s] = {}
        /\ c \in ready[s] /\ server[c] = s /\ up[c] # << >>
    BY DEF Read, IsNext, ControlInv, ConnInv
  <1>2. up[c] \in Seq(Messages)
    BY DEF TypeOK
  <1>3. Len(up[c]) \in Nat \ {0} /\ \A j \in 1..Len(up[c]) : up[c][j] \in Messages
    BY <1>1, <1>2, EmptySeq
  <1>4. PICK k \in Arrived(c) :
          /\ TextOp(c, k) \in {"pull", "check", "post"}
          /\ req' = [req EXCEPT ![s] = [client |-> c, msg |-> Msg(TextOp(c, k), up[c][1].post)]]
          /\ up' = [up EXCEPT ![c] = SubSeq(up[c], k + 1, Len(up[c]))]
    BY DEF Read
  <1>5. k \in 1..Len(up[c]) /\ \A j \in 1..k : up[c][j].op # "eof"
    BY <1>4 DEF Arrived
  <1>6. k # 1 => up[c][1].op = "post"
    <2>1. SUFFICES ASSUME k # 1 PROVE up[c][1].op = "post"
      OBVIOUS
    <2>2. up[c][1].op \in {"pull", "check", "post", "exit", "eof"}
      BY <1>3, MessageFacts
    <2>3. up[c][1].op \notin Question
      BY <1>3, <1>5, <2>1 DEF StreamInv, StreamOf
    <2>4. up[c][1].op # "exit"
      BY <1>3, <1>5, <2>1 DEF StreamInv, StreamOf
    <2> QED BY <1>5, <2>1, <2>2, <2>3, <2>4 DEF Question
  <1>7. TextOp(c, k) = up[c][1].op
    BY <1>6 DEF TextOp
  <1>8. Msg(TextOp(c, k), up[c][1].post) = up[c][1]
    BY <1>3, <1>7, MessageFacts
  <1>9. /\ up'[c] = SubSeq(up[c], k + 1, Len(up[c])) /\ up' = [up EXCEPT ![c] = up'[c]]
    BY <1>4 DEF TypeOK
  <1>10. /\ up'[c] \in Seq(Messages) /\ Len(up'[c]) = Len(up[c]) - k
         /\ \A j \in 1..Len(up'[c]) : up'[c][j] = up[c][j + k]
    BY <1>2, <1>3, <1>5, <1>9
  <1>11. up[c][1].op \in Question => up'[c] = << >>
    <2>1. up[c][1].op \in Question => Len(up[c]) = 1
      <3>1. 1 \in 1..Len(up[c])
        BY <1>3
      <3> QED BY <3>1 DEF StreamInv, StreamOf
    <2> QED BY <1>3, <1>5, <1>10, <2>1, EmptySeq
  <1>12. /\ up[c][1] \in Messages /\ up[c][1].op \in {"pull", "check", "post"}
         /\ req' = [req EXCEPT ![s] = [client |-> c, msg |-> up[c][1]]]
    BY <1>3, <1>4, <1>7, <1>8
  <1>13. \E j \in 1..Len(up[c]) : Taken(c, j)
    BY <1>5, <1>10 DEF Taken
  <1> QED BY <1>1, <1>3, <1>9, <1>10, <1>11, <1>12, <1>13

LEMMA PromptFacts ==
  ASSUME TypeOK, StreamInv, NEW c \in Clients, cpc[c] \in {"prompt", "compose"}
  PROVE  /\ up[c] \in Seq(Messages) /\ Len(up[c]) \in {0, 1}
         /\ \A k \in 1..Len(up[c]) : up[c][k].op = "post"
  <1>1. up[c] \in Seq(Messages) /\ Len(up[c]) \in Nat
    BY DEF TypeOK
  <1>2. \A k \in 1..Len(up[c]) : up[c][k].op = "post" /\ k = 1
    <2> TAKE k \in 1..Len(up[c])
    <2>1. up[c][k].op \in {"pull", "check", "post", "exit", "eof"}
      BY <1>1, MessageFacts
    <2> QED BY <2>1 DEF StreamInv, StreamOf, Question
  <1>3. Len(up[c]) \in {0, 1}
    <2>1. ~(2 \in 1..Len(up[c]))
      BY <1>2
    <2>2. ASSUME NEW n \in Nat, ~(2 \in 1..n) PROVE n \in {0, 1}
      BY <2>2
    <2> QED BY <1>1, <2>1, <2>2
  <1>4. \A k \in 1..Len(up[c]) : up[c][k].op = "post"
    BY <1>2
  <1> QED BY <1>1, <1>3, <1>4

LEMMA SendFacts ==
  ASSUME TypeOK, NEW c \in Clients, NEW m \in Messages, Send(c, <<m>>)
  PROVE  /\ up' = [up EXCEPT ![c] = up'[c]] /\ up'[c] \in Seq(Messages)
         /\ Len(up'[c]) = Len(up[c]) + 1 /\ up'[c] # << >>
         /\ \A k \in 1..Len(up[c]) : up'[c][k] = up[c][k]
         /\ up'[c][Len(up[c]) + 1] = m
  BY EmptySeq DEF TypeOK, Send

LEMMA SendExitFacts ==
  ASSUME TypeOK, NEW c \in Clients, Send(c, <<Plain("exit"), Plain("eof")>>)
  PROVE  /\ up' = [up EXCEPT ![c] = up'[c]] /\ up'[c] \in Seq(Messages)
         /\ Len(up'[c]) = Len(up[c]) + 2 /\ up'[c] # << >>
         /\ \A k \in 1..Len(up[c]) : up'[c][k] = up[c][k]
         /\ up'[c][Len(up[c]) + 1] = Plain("exit")
         /\ up'[c][Len(up[c]) + 2] = Plain("eof")
  <1>1. Plain("exit") \in Messages /\ Plain("eof") \in Messages
    BY MessageFacts
  <1> QED BY <1>1, EmptySeq DEF TypeOK, Send

-----------------------------------------------------------------------------
(* Type correctness.                                                       *)
LEMMA LockTypes ==
  ASSUME TypeOK
  PROVE  /\ \A r : \A p \in Servers \union {Nobody, Other} :
              [lock EXCEPT ![r] = p] \in [Records -> Servers \union {Nobody, Other}]
         /\ UNCHANGED lock => lock' \in [Records -> Servers \union {Nobody, Other}]
         /\ UNCHANGED steady => steady' \in [Servers -> SUBSET Records]
         /\ \A s, R : Calm(s, R) => steady' \in [Servers -> SUBSET Records]
         /\ \A p, r : Disturb(p, r) => steady' \in [Servers -> SUBSET Records]
  <1>1. /\ lock \in [Records -> Servers \union {Nobody, Other}]
        /\ steady \in [Servers -> SUBSET Records]
    BY DEF TypeOK
  <1>2. \A s, R : Calm(s, R) => steady' \in [Servers -> SUBSET Records]
    BY <1>1 DEF Calm
  <1>3. \A p, r : Disturb(p, r) => steady' \in [Servers -> SUBSET Records]
    BY <1>1 DEF Disturb
  <1> QED BY <1>1, <1>2, <1>3

ProceedTypes ==
  /\ spc' \in [Servers -> {"refresh", "select", "loop", "scan", "lock", "write",
                           "unlock", "aborted"}]
  /\ ready' \in [Servers -> SUBSET Clients]
  /\ req' \in [Servers -> [client : Clients, msg : Messages] \union {NoReq}]
  /\ at' \in [Servers -> 0..2 * RECORD_NUM]
  /\ free' \in [Servers -> SUBSET Records] /\ pos' \in [Servers -> Records]

LEMMA ProceedFacts ==
  ASSUME TypeOK, NEW s \in Servers, NEW R, R \subseteq Clients, Proceed(s, R)
  PROVE  ProceedTypes
  BY ConstFacts DEF Proceed, ProceedTypes, TypeOK

LEMMA TypeNext == IInv /\ [Next]_vars => TypeOK'
  <1> SUFFICES ASSUME IInv, [Next]_vars PROVE TypeOK'
    OBVIOUS
  <1>0. TypeOK /\ ControlInv /\ ConnInv /\ StreamInv
    BY DEF IInv
  <1>1. ASSUME NEW s \in Servers, Refresh(s) PROVE TypeOK'
    BY <1>0, <1>1, ConstFacts DEF Refresh, TypeOK, board, handler, client, stream, history
  <1>2. ASSUME NEW s \in Servers, Select(s) PROVE TypeOK'
    <2>1. Readable(s) \subseteq Clients
      BY DEF Readable
    <2>2. fd' \in [Clients -> 0..NClients]
      <3>1. fd \in [Clients -> 0..NClients] /\ 1..NClients \subseteq 0..NClients
        BY <1>0, ConstFacts DEF TypeOK
      <3>2. UNCHANGED fd \/ \E c \in Clients, f \in 1..NClients : fd' = [fd EXCEPT ![c] = f]
        BY <1>2 DEF Select, Pending
      <3> QED BY <3>1, <3>2
    <2> QED BY <1>0, <1>2, <2>1, <2>2 DEF Select, TypeOK, board, handler, client, history
  <1>3. ASSUME NEW s \in Servers, NEW c \in Clients, Read(s, c) PROVE TypeOK'
    <2>0. /\ up[c][1] \in Messages
          /\ req' = [req EXCEPT ![s] = [client |-> c, msg |-> up[c][1]]]
          /\ up' = [up EXCEPT ![c] = up'[c]] /\ up'[c] \in Seq(Messages)
      BY <1>0, <1>3, ReadFacts
    <2>1. req' \in [Servers -> [client : Clients, msg : Messages] \union {NoReq}]
      BY <1>0, <2>0, NoReqFacts DEF TypeOK
    <2>2. up' \in [Clients -> Seq(Messages)]
      BY <1>0, <2>0 DEF TypeOK
    <2> QED BY <1>0, <1>3, <2>1, <2>2 DEF Read, TypeOK, board, client
  <1>4. ASSUME NEW s \in Servers, NEW c \in Clients, ReadExit(s, c) PROVE TypeOK'
    <2>1. up' \in [Clients -> Seq(Messages)]
      BY <1>0, <1>4, EmptySeq DEF ReadExit, TypeOK
    <2> QED
      BY <1>0, <1>4, <2>1, ConstFacts DEF ReadExit, Proceed, Calm, TypeOK, board, client
  <1>5. ASSUME NEW s \in Servers, NEW c \in Clients, ReadEof(s, c) PROVE TypeOK'
    BY <1>0, <1>5 DEF ReadEof, TypeOK, board, loop, handler, client, stream, history
  <1>6. ASSUME NEW s \in Servers, Test(s) PROVE TypeOK'
    <2>1. at[s] \in Records /\ at[s] + 1 \in 0..2 * RECORD_NUM
      BY <1>0, <1>6, ConstFacts DEF Test, TypeOK, Records
    <2> QED BY <1>0, <1>6, <2>1 DEF Test, TypeOK, board, loop, client, stream, history
  <1>7. ASSUME NEW s \in Servers, Answer(s) PROVE TypeOK'
    <2>1. Shown(s) \subseteq Posts
      BY <1>0, <1>7 DEF Shown, TypeOK
    <2>2. AnswerTo(s) \in [kind : {"none", "yes", "no", "board"}, posts : SUBSET Posts]
      BY <2>1 DEF AnswerTo, Reply
    <2>3. ready[s] \subseteq Clients /\ Proceed(s, ready[s])
      BY <1>0, <1>7 DEF Answer, TypeOK
    <2>4. ProceedTypes /\ steady' \in [Servers -> SUBSET Records]
      BY <1>0, <1>7, <2>3, ProceedFacts, LockTypes DEF Answer
    <2>5. down' \in [Clients -> [kind : {"none", "yes", "no", "board"}, posts : SUBSET Posts]]
      BY <1>0, <1>7, <2>2 DEF Answer, TypeOK
    <2> QED
      BY <1>0, <1>7, <2>4, <2>5 DEF Answer, ProceedTypes, TypeOK, board, client
  <1>8. ASSUME NEW s \in Servers, PassOver(s) PROVE TypeOK'
    <2>1. at[s] + 1 \in 0..2 * RECORD_NUM
      BY <1>0, <1>8, ConstFacts DEF PassOver, TypeOK
    <2> QED BY <1>0, <1>8, <2>1 DEF PassOver, TypeOK, board, loop, client, stream, history
  <1>9. ASSUME NEW s \in Servers, Choose(s) PROVE TypeOK'
    <2>1. last[s] \in Nat \union {-1} /\ at[s] \in Nat
      BY <1>0, ConstFacts DEF TypeOK
    <2>2. Candidate(s) \in Nat /\ Target(s) \in Records
      BY <2>1, ConstFacts, ModRange DEF Candidate, Target
    <2> QED BY <1>0, <1>9, <2>2 DEF Choose, TypeOK, board, loop, client, stream, history
  <1>10. ASSUME NEW s \in Servers, ChooseNone(s) PROVE TypeOK'
    BY <1>0, <1>10 DEF ChooseNone, TypeOK, board, loop, handler, client, stream, history
  <1>11. ASSUME NEW s \in Servers, DoLock(s) PROVE TypeOK'
    <2>1. lock' \in [Records -> Servers \union {Nobody, Other}]
          /\ steady' \in [Servers -> SUBSET Records]
      BY <1>0, <1>11, LockTypes DEF DoLock
    <2> QED BY <1>0, <1>11, <2>1 DEF DoLock, TypeOK, loop, handler, client, stream
  <1>12. ASSUME NEW s \in Servers, Write(s) PROVE TypeOK'
    <2>1. req[s].msg.post \in Posts \union {Empty}
      BY <1>0, ReqFacts, PostFacts
    <2> QED BY <1>0, <1>12, <2>1, ConstFacts DEF Write, TypeOK, handler, client, stream, history
  <1>13. ASSUME NEW s \in Servers, Unlock(s) PROVE TypeOK'
    <2>1. lock' \in [Records -> Servers \union {Nobody, Other}]
          /\ steady' \in [Servers -> SUBSET Records]
      BY <1>0, <1>13, LockTypes DEF Unlock
    <2>2. logged' \in [NewPosts -> Nat]
      <3>1. logged \in [NewPosts -> Nat]
        BY <1>0 DEF TypeOK
      <3>2. \E p \in NewPosts : logged' = [logged EXCEPT ![p] = @ + 1]
        BY <1>0, <1>13, ReqFacts DEF Unlock, ControlInv
      <3> QED BY <3>1, <3>2
    <2>3. ready[s] \subseteq Clients /\ Proceed(s, ready[s])
      BY <1>0, <1>13 DEF Unlock, TypeOK
    <2>4. ProceedTypes
      BY <1>0, <2>3, ProceedFacts
    <2> QED
      BY <1>0, <1>13, <2>1, <2>2, <2>4 DEF Unlock, ProceedTypes, TypeOK, client, stream
  <1>14. ASSUME NEW c \in Clients, Connect(c) PROVE TypeOK'
    <2>1. up' \in [Clients -> Seq(Messages)]
      <3>1. Plain("pull") \in Messages /\ Send(c, <<Plain("pull")>>)
        BY <1>14, MessageFacts DEF Connect
      <3>2. up' = [up EXCEPT ![c] = up'[c]] /\ up'[c] \in Seq(Messages)
        BY <1>0, <3>1, SendFacts
      <3> QED BY <1>0, <3>2 DEF TypeOK
    <2> QED
      BY <1>0, <1>14, <2>1 DEF Connect, Turn, TypeOK, board, loop, handler, history
  <1>15. ASSUME NEW c \in Clients, Pull(c) PROVE TypeOK'
    <2>1. up' \in [Clients -> Seq(Messages)]
      <3>1. Plain("pull") \in Messages /\ Send(c, <<Plain("pull")>>)
        BY <1>15, MessageFacts DEF Pull
      <3>2. up' = [up EXCEPT ![c] = up'[c]] /\ up'[c] \in Seq(Messages)
        BY <1>0, <3>1, SendFacts
      <3> QED BY <1>0, <3>2 DEF TypeOK
    <2> QED
      BY <1>0, <1>15, <2>1 DEF Pull, Turn, TypeOK, board, loop, handler, history
  <1>16. ASSUME NEW c \in Clients, Check(c) PROVE TypeOK'
    <2>1. up' \in [Clients -> Seq(Messages)]
      <3>1. Plain("check") \in Messages /\ Send(c, <<Plain("check")>>)
        BY <1>16, MessageFacts DEF Check
      <3>2. up' = [up EXCEPT ![c] = up'[c]] /\ up'[c] \in Seq(Messages)
        BY <1>0, <3>1, SendFacts
      <3> QED BY <1>0, <3>2 DEF TypeOK
    <2> QED
      BY <1>0, <1>16, <2>1 DEF Check, Turn, TypeOK, board, loop, handler, history
  <1>17. ASSUME NEW c \in Clients, Exit(c) PROVE TypeOK'
    <2>1. up' \in [Clients -> Seq(Messages)]
      <3>1. up' = [up EXCEPT ![c] = up'[c]] /\ up'[c] \in Seq(Messages)
        BY <1>0, <1>17, SendExitFacts DEF Exit
      <3> QED BY <1>0, <3>1 DEF TypeOK
    <2> QED
      BY <1>0, <1>17, <2>1 DEF Exit, Turn, TypeOK, board, loop, handler, history
  <1>18. ASSUME NEW c \in Clients, SendPost(c) PROVE TypeOK'
    <2>1. sent[c] + 1 \in 1..MaxPosts
      BY <1>0, <1>18, ConstFacts DEF SendPost, TypeOK
    <2>2. Msg("post", Post(c, sent[c] + 1)) \in Messages
      BY <2>1, PostFacts, MessageFacts
    <2>3. up' \in [Clients -> Seq(Messages)]
      <3>1. up' = [up EXCEPT ![c] = up'[c]] /\ up'[c] \in Seq(Messages)
        BY <1>0, <1>18, <2>2, SendFacts DEF SendPost
      <3> QED BY <1>0, <3>1 DEF TypeOK
    <2>4. sent' \in [Clients -> 0..MaxPosts]
      BY <1>0, <1>18, <2>1, ConstFacts DEF SendPost, TypeOK
    <2> QED
      BY <1>0, <1>18, <2>3, <2>4 DEF SendPost, Turn, TypeOK, board, loop, handler, history
  <1>19. ASSUME NEW c \in Clients, Kill(c) PROVE TypeOK'
    <2>1. up' \in [Clients -> Seq(Messages)]
      <3>1. Plain("eof") \in Messages /\ Send(c, <<Plain("eof")>>)
        BY <1>19, MessageFacts DEF Kill
      <3>2. up' = [up EXCEPT ![c] = up'[c]] /\ up'[c] \in Seq(Messages)
        BY <1>0, <3>1, SendFacts
      <3> QED BY <1>0, <3>2 DEF TypeOK
    <2>2. kills' \in 0..MaxKills
      BY <1>0, <1>19, ConstFacts DEF Kill, TypeOK
    <2> QED
      BY <1>0, <1>19, <2>1, <2>2 DEF Kill, Turn, TypeOK, board, loop, handler, history
  <1>20. ASSUME NEW c \in Clients, Hear(c) PROVE TypeOK'
    <2>1. NoReply \in [kind : {"none", "yes", "no", "board"}, posts : SUBSET Posts]
      BY DEF NoReply, Reply
    <2> QED BY <1>0, <1>20, <2>1 DEF Hear, Turn, TypeOK, board, loop, handler, history
  <1>21. ASSUME NEW c \in Clients, LoseServer(c) PROVE TypeOK'
    BY <1>0, <1>21 DEF LoseServer, Turn, TypeOK, board, loop, handler, stream, history
  <1>22. ASSUME NEW r \in Lockable, OtherLocks(r) \/ OtherUnlocks(r) PROVE TypeOK'
    <2>1. lock' \in [Records -> Servers \union {Nobody, Other}]
          /\ steady' \in [Servers -> SUBSET Records]
      BY <1>0, <1>22, LockTypes DEF OtherLocks, OtherUnlocks
    <2> QED
      BY <1>0, <1>22, <2>1 DEF OtherLocks, OtherUnlocks, TypeOK, loop, handler, client, stream
  <1>23. CASE UNCHANGED vars
    BY <1>0, <1>23 DEF TypeOK, vars, board, loop, handler, client, stream, history
  <1> QED
    BY <1>1, <1>2, <1>3, <1>4, <1>5, <1>6, <1>7, <1>8, <1>9, <1>10, <1>11, <1>12, <1>13,
       <1>14, <1>15, <1>16, <1>17, <1>18, <1>19, <1>20, <1>21, <1>22, <1>23
    DEF Next, ServerStep, User

-----------------------------------------------------------------------------
(* The loop of a server.                                                   *)
LEMMA ControlNext == IInv /\ [Next]_vars => ControlInv'
  <1> SUFFICES ASSUME IInv, [Next]_vars PROVE ControlInv'
    OBVIOUS
  <1>0. TypeOK /\ ControlInv /\ ConnInv /\ StreamInv
    BY DEF IInv
  <1>T. /\ spc \in [Servers -> {"refresh", "select", "loop", "scan", "lock", "write",
                                "unlock", "aborted"}]
        /\ req \in [Servers -> [client : Clients, msg : Messages] \union {NoReq}]
        /\ at \in [Servers -> 0..2 * RECORD_NUM] /\ free \in [Servers -> SUBSET Records]
        /\ ready \in [Servers -> SUBSET Clients] /\ offset \in [Servers -> {0, RECORD_NUM}]
    BY <1>0 DEF TypeOK
  <1>S. /\ RECORD_NUM \in Nat /\ Question = {"pull", "check"}
        /\ NoReq.msg.op = "none"
        /\ \A s \in Servers : req[s].msg.op = "post" => req[s].client \in Clients
    BY <1>0, ConstFacts, NoReqFacts, ReqFacts DEF Question
  <1>1. ASSUME NEW s \in Servers, Refresh(s) PROVE ControlInv'
    BY <1>0, <1>1, <1>T, <1>S DEF Refresh, ControlInv, handler
  <1>2. ASSUME NEW s \in Servers, Select(s) PROVE ControlInv'
    BY <1>0, <1>2, <1>T, <1>S DEF Select, ControlInv, handler
  <1>3. ASSUME NEW s \in Servers, NEW c \in Clients, Read(s, c) PROVE ControlInv'
    <2>1. /\ req[s] = NoReq /\ at[s] = 0 /\ up[c][1] \in Messages
          /\ up[c][1].op \in {"pull", "check", "post"}
          /\ req' = [req EXCEPT ![s] = [client |-> c, msg |-> up[c][1]]]
      BY <1>0, <1>3, ReadFacts
    <2> QED BY <1>0, <1>3, <1>T, <1>S, <2>1 DEF Read, ControlInv
  <1>4. ASSUME NEW s \in Servers, NEW c \in Clients, ReadExit(s, c) PROVE ControlInv'
    BY <1>0, <1>4, <1>T, <1>S DEF ReadExit, Proceed, ControlInv
  <1>5. ASSUME NEW s \in Servers, NEW c \in Clients, ReadEof(s, c) PROVE ControlInv'
    BY <1>0, <1>5, <1>T, <1>S DEF ReadEof, IsNext, ControlInv, loop, handler
  <1>6. ASSUME NEW s \in Servers, Test(s) PROVE ControlInv'
    BY <1>0, <1>6, <1>T, <1>S DEF Test, Handling, ControlInv, loop
  <1>7. ASSUME NEW s \in Servers, Answer(s) PROVE ControlInv'
    BY <1>0, <1>7, <1>T, <1>S DEF Answer, Proceed, ControlInv
  <1>8. ASSUME NEW s \in Servers, PassOver(s) PROVE ControlInv'
    BY <1>0, <1>8, <1>T, <1>S DEF PassOver, Handling, ControlInv, loop
  <1>9. ASSUME NEW s \in Servers, Choose(s) PROVE ControlInv'
    BY <1>0, <1>9, <1>T, <1>S DEF Choose, Handling, ControlInv, loop
  <1>10. ASSUME NEW s \in Servers, ChooseNone(s) PROVE ControlInv'
    BY <1>0, <1>10, <1>T, <1>S DEF ChooseNone, Handling, ControlInv, loop, handler
  <1>11. ASSUME NEW s \in Servers, DoLock(s) PROVE ControlInv'
    BY <1>0, <1>11, <1>T, <1>S DEF DoLock, ControlInv, loop, handler
  <1>12. ASSUME NEW s \in Servers, Write(s) PROVE ControlInv'
    BY <1>0, <1>12, <1>T, <1>S DEF Write, ControlInv, handler
  <1>13. ASSUME NEW s \in Servers, Unlock(s) PROVE ControlInv'
    BY <1>0, <1>13, <1>T, <1>S DEF Unlock, Proceed, ControlInv
  <1>14. CASE UNCHANGED <<spc, req, at, free, ready, offset>>
    BY <1>0, <1>14 DEF ControlInv
  <1> QED
    BY <1>1, <1>2, <1>3, <1>4, <1>5, <1>6, <1>7, <1>8, <1>9, <1>10, <1>11, <1>12, <1>13,
       <1>14
    DEF Next, ServerStep, User, Connect, Pull, Check, Exit, SendPost, Kill, Hear, LoseServer,
        OtherLocks, OtherUnlocks, vars, loop, handler

-----------------------------------------------------------------------------
(* Locks.                                                                  *)
LEMMA LocksNext == IInv /\ [Next]_vars => LocksForPosts'
  <1> SUFFICES ASSUME IInv, [Next]_vars PROVE LocksForPosts'
    OBVIOUS
  <1>0. /\ TypeOK /\ ControlInv /\ LocksForPosts
        /\ spc \in [Servers -> {"refresh", "select", "loop", "scan", "lock", "write",
                                "unlock", "aborted"}]
        /\ lock \in [Records -> Servers \union {Nobody, Other}]
        /\ pos \in [Servers -> Records]
        /\ Nobody \notin Servers /\ Other \notin Servers /\ Nobody # Other
    BY ConstFacts DEF IInv, TypeOK
  <1>1. ASSUME NEW s \in Servers, Refresh(s) \/ Select(s) PROVE LocksForPosts'
    BY <1>0, <1>1 DEF Refresh, Select, LocksForPosts, board, handler
  <1>2. ASSUME NEW s \in Servers, NEW c \in Clients, Read(s, c) PROVE LocksForPosts'
    BY <1>0, <1>2 DEF Read, IsNext, LocksForPosts, board
  <1>3. ASSUME NEW s \in Servers, NEW c \in Clients, ReadExit(s, c) PROVE LocksForPosts'
    BY <1>0, <1>3 DEF ReadExit, IsNext, Proceed, LocksForPosts, board
  <1>4. ASSUME NEW s \in Servers, NEW c \in Clients, ReadEof(s, c) PROVE LocksForPosts'
    BY <1>0, <1>4 DEF ReadEof, IsNext, LocksForPosts, board, handler
  <1>5. ASSUME NEW s \in Servers, Answer(s) PROVE LocksForPosts'
    BY <1>0, <1>5 DEF Answer, Handling, Proceed, LocksForPosts, board
  <1>6. ASSUME NEW s \in Servers, Choose(s) \/ ChooseNone(s) PROVE LocksForPosts'
    BY <1>0, <1>6 DEF Choose, ChooseNone, Handling, LocksForPosts, board, handler
  <1>7. ASSUME NEW s \in Servers, DoLock(s) PROVE LocksForPosts'
    BY <1>0, <1>7 DEF DoLock, LocksForPosts, handler
  <1>8. ASSUME NEW s \in Servers, Write(s) PROVE LocksForPosts'
    BY <1>0, <1>8 DEF Write, LocksForPosts, handler
  <1>9. ASSUME NEW s \in Servers, Unlock(s) PROVE LocksForPosts'
    BY <1>0, <1>9 DEF Unlock, Proceed, LocksForPosts
  <1>10. ASSUME NEW r \in Lockable, OtherLocks(r) \/ OtherUnlocks(r) PROVE LocksForPosts'
    BY <1>0, <1>10 DEF OtherLocks, OtherUnlocks, LocksForPosts, handler
  <1>11. CASE UNCHANGED <<spc, lock, pos>>
    BY <1>0, <1>11 DEF LocksForPosts
  <1> QED
    BY <1>1, <1>2, <1>3, <1>4, <1>5, <1>6, <1>7, <1>8, <1>9, <1>10, <1>11
    DEF Next, ServerStep, User, Test, PassOver, Connect, Pull, Check, Exit, SendPost, Kill,
        Hear, LoseServer, vars, board, handler

-----------------------------------------------------------------------------
(* Connections and streams.                                                *)
LEMMA ConnNext == IInv /\ [Next]_vars => ConnInv'
  <1> SUFFICES ASSUME IInv, [Next]_vars PROVE ConnInv'
    OBVIOUS
  <1>0. TypeOK /\ ControlInv /\ ConnInv /\ StreamInv
    BY DEF IInv
  <1>T. /\ req \in [Servers -> [client : Clients, msg : Messages] \union {NoReq}]
        /\ ready \in [Servers -> SUBSET Clients]
        /\ cpc \in [Clients -> {"off", "pull", "check", "compose", "prompt", "gone"}]
        /\ server \in [Clients -> Servers \union {Nobody}]
        /\ up \in [Clients -> Seq(Messages)] /\ sent \in [Clients -> 0..MaxPosts]
        /\ NoReq.client = Nobody /\ Nobody \notin Clients /\ Nobody \notin Servers
    BY <1>0, ConstFacts, NoReqFacts DEF TypeOK
  <1>1. ASSUME NEW s \in Servers, Refresh(s) PROVE ConnInv'
    BY <1>0, <1>1 DEF Refresh, ConnInv, handler, client, stream
  <1>2. ASSUME NEW s \in Servers, Select(s) PROVE ConnInv'
    <2>1. ready[s] = {} /\ req[s] = NoReq
      BY <1>0, <1>2 DEF Select, ControlInv
    <2> QED BY <1>0, <1>2, <1>T, <2>1 DEF Select, Readable, ConnInv, handler, client
  <1>3. ASSUME NEW s \in Servers, NEW c \in Clients, Read(s, c) PROVE ConnInv'
    <2>1. /\ server[c] = s /\ up' = [up EXCEPT ![c] = up'[c]]
          /\ req' = [req EXCEPT ![s] = [client |-> c, msg |-> up[c][1]]]
      BY <1>0, <1>3, ReadFacts
    <2>2. ready' = [ready EXCEPT ![s] = @ \ {c}] /\ UNCHANGED <<cpc, server, sent>>
      BY <1>3 DEF Read, client
    <2> QED BY <1>0, <1>T, <2>1, <2>2 DEF ConnInv
  <1>4. ASSUME NEW s \in Servers, NEW c \in Clients, ReadExit(s, c) PROVE ConnInv'
    <2>1. server[c] = s
      BY <1>0, <1>4 DEF ReadExit, IsNext, ConnInv
    <2> QED BY <1>0, <1>4, <1>T, <2>1 DEF ReadExit, Proceed, ConnInv, client
  <1>5. ASSUME NEW s \in Servers, Answer(s) PROVE ConnInv'
    BY <1>0, <1>5, <1>T DEF Answer, Proceed, ConnInv, client
  <1>6. ASSUME NEW s \in Servers, Unlock(s) PROVE ConnInv'
    BY <1>0, <1>6, <1>T DEF Unlock, Proceed, ConnInv, client, stream
  <1>7. ASSUME NEW c \in Clients, Connect(c) PROVE ConnInv'
    <2>1. up' = [up EXCEPT ![c] = up'[c]] /\ up'[c] # << >>
      BY <1>0, <1>7, SendFacts, MessageFacts DEF Connect
    <2>2. \A s \in Servers : c \notin ready[s] /\ req[s].client # c
      BY <1>0, <1>7, <1>T DEF Connect, ConnInv
    <2> QED BY <1>0, <1>7, <1>T, <2>1, <2>2 DEF Connect, Turn, ConnInv, loop, handler
  <1>8. ASSUME NEW c \in Clients, Pull(c) \/ Check(c) \/ Kill(c) PROVE ConnInv'
    <2>1. up' = [up EXCEPT ![c] = up'[c]] /\ up'[c] # << >>
      BY <1>0, <1>8, SendFacts, MessageFacts DEF Pull, Check, Kill
    <2> QED
      BY <1>0, <1>8, <1>T, <2>1 DEF Pull, Check, Kill, AtPrompt, Turn, ConnInv, loop, handler
  <1>9. ASSUME NEW c \in Clients, Exit(c) PROVE ConnInv'
    <2>1. up' = [up EXCEPT ![c] = up'[c]] /\ up'[c] # << >>
      BY <1>0, <1>9, SendExitFacts DEF Exit
    <2> QED BY <1>0, <1>9, <1>T, <2>1 DEF Exit, AtPrompt, Turn, ConnInv, loop, handler
  <1>10. ASSUME NEW c \in Clients, SendPost(c) PROVE ConnInv'
    <2>1. sent[c] + 1 \in 1..MaxPosts
      BY <1>10, <1>T, ConstFacts DEF SendPost
    <2>2. up' = [up EXCEPT ![c] = up'[c]] /\ up'[c] # << >>
      BY <1>0, <1>10, <2>1, SendFacts, PostFacts, MessageFacts DEF SendPost
    <2> QED BY <1>0, <1>10, <1>T, <2>2 DEF SendPost, Turn, ConnInv, loop, handler
  <1>11. ASSUME NEW c \in Clients, Hear(c) \/ LoseServer(c) PROVE ConnInv'
    BY <1>0, <1>11, <1>T DEF Hear, LoseServer, Turn, ConnInv, loop, handler, stream
  <1>12. CASE UNCHANGED <<req, ready, cpc, server, up, sent>>
    BY <1>0, <1>12 DEF ConnInv
  <1> QED
    BY <1>1, <1>2, <1>3, <1>4, <1>5, <1>6, <1>7, <1>8, <1>9, <1>10, <1>11, <1>12
    DEF Next, ServerStep, User, ReadEof, Test, PassOver, Choose, ChooseNone, DoLock, Write,
        OtherLocks, OtherUnlocks, vars, loop, handler, client, stream

LEMMA StreamNext == IInv /\ [Next]_vars => StreamInv'
  <1> SUFFICES ASSUME IInv, [Next]_vars PROVE StreamInv'
    OBVIOUS
  <1>0. TypeOK /\ ControlInv /\ ConnInv /\ StreamInv /\ TalkInv
    BY DEF IInv
  <1>T. /\ cpc \in [Clients -> {"off", "pull", "check", "compose", "prompt", "gone"}]
        /\ up \in [Clients -> Seq(Messages)] /\ sent \in [Clients -> 0..MaxPosts]
        /\ \A c \in Clients : Len(up[c]) \in Nat /\ sent[c] \in Nat
        /\ Len(<< >>) = 0
    BY <1>0, ConstFacts, EmptySeq DEF TypeOK
  <1>F. ASSUME NEW c \in Clients, StreamOf(c)',
               \A d \in Clients \ {c} : up'[d] = up[d] /\ cpc'[d] = cpc[d] /\ sent'[d] = sent[d]
        PROVE  StreamInv'
    <2>1. \A d \in Clients : StreamOf(d)'
      BY <1>0, <1>F DEF StreamInv, StreamOf
    <2> QED BY <2>1 DEF StreamInv
  <1>1. ASSUME NEW s \in Servers, NEW c \in Clients, Read(s, c) PROVE StreamInv'
    <2>1. up' = [up EXCEPT ![c] = up'[c]] /\ UNCHANGED <<cpc, sent>> /\ up[c] # << >>
      BY <1>0, <1>1, ReadFacts DEF Read, client
    <2>0. PICK k \in 1..Len(up[c]) : Taken(c, k)
      BY <1>0, <1>1, ReadFacts
    <2>2. /\ Len(up'[c]) = Len(up[c]) - k
          /\ \A j \in 1..Len(up'[c]) : up'[c][j] = up[c][j + k]
      BY <2>0 DEF Taken
    <2>3. StreamOf(c)'
      <3>1. \A j \in 1..Len(up'[c]) : j + k \in 1..Len(up[c]) /\ j + k # 1
        BY <1>T, <2>2
      <3>2. \A j \in 1..Len(up'[c]) :
              /\ up'[c][j].op # "post"
              /\ up'[c][j].op \in Question =>
                   j = Len(up'[c]) /\ cpc'[c] \in {"pull", "check", "gone"}
              /\ up'[c][j].op = "exit" => j < Len(up'[c]) /\ up'[c][j + 1].op = "eof"
              /\ up'[c][j].op \in {"exit", "eof"} => cpc'[c] = "gone"
        <4> TAKE j \in 1..Len(up'[c])
        <4>1. up'[c][j] = up[c][j + k] /\ j + k \in 1..Len(up[c]) /\ j + k # 1
          BY <2>2, <3>1
        <4>2. /\ up[c][j + k].op # "post"
              /\ up[c][j + k].op \in Question =>
                   j + k = Len(up[c]) /\ cpc[c] \in {"pull", "check", "gone"}
              /\ up[c][j + k].op = "exit" =>
                   j + k < Len(up[c]) /\ up[c][(j + k) + 1].op = "eof"
              /\ up[c][j + k].op \in {"exit", "eof"} => cpc[c] = "gone"
          BY <1>0, <4>1 DEF StreamInv, StreamOf
        <4>3. j + k < Len(up[c]) =>
                up'[c][j + 1] = up[c][(j + k) + 1] /\ j + 1 \in 1..Len(up'[c])
          <5>1. j + k < Len(up[c]) => j + 1 \in 1..Len(up'[c])
            BY <1>T, <2>2
          <5>2. (j + 1) + k = (j + k) + 1
            BY <2>2
          <5> QED BY <2>2, <5>1, <5>2
        <4>4. j + k = Len(up[c]) => j = Len(up'[c])
          BY <1>T, <2>2
        <4>5. j + k < Len(up[c]) => j < Len(up'[c])
          BY <1>T, <2>2
        <4> QED BY <2>1, <4>1, <4>2, <4>3, <4>4, <4>5
      <3>3. cpc'[c] # "compose"
        BY <1>0, <2>1 DEF StreamInv, StreamOf
      <3> QED BY <3>2, <3>3 DEF StreamOf
    <2> QED BY <1>F, <1>T, <2>1, <2>3
  <1>2. ASSUME NEW s \in Servers, NEW c \in Clients, ReadExit(s, c) PROVE StreamInv'
    <2>1. up' = [up EXCEPT ![c] = << >>] /\ UNCHANGED <<cpc, sent>>
      BY <1>2 DEF ReadExit, client
    <2>2. StreamOf(c)'
      BY <1>T, <2>1 DEF StreamOf
    <2> QED BY <1>F, <1>T, <2>1, <2>2
  <1>3. ASSUME NEW c \in Clients, NEW op \in {"pull", "check"}, Send(c, <<Plain(op)>>),
               cpc[c] = "prompt" \/ up[c] = << >>,
               cpc' = [cpc EXCEPT ![c] = op], UNCHANGED sent
        PROVE  StreamInv'
    <2>1. /\ up' = [up EXCEPT ![c] = up'[c]] /\ Len(up'[c]) = Len(up[c]) + 1
          /\ \A k \in 1..Len(up[c]) : up'[c][k] = up[c][k]
          /\ up'[c][Len(up[c]) + 1].op \in Question
      BY <1>0, <1>3, SendFacts, MessageFacts DEF Question
    <2>2. \A k \in 1..Len(up[c]) : up[c][k].op = "post"
      BY <1>0, <1>3, <1>T, PromptFacts
    <2>3. \A k \in 1..Len(up'[c]) : k \in 1..Len(up[c]) \/ k = Len(up'[c])
      BY <1>T, <2>1
    <2>4. StreamOf(c)'
      BY <1>0, <1>3, <1>T, <2>1, <2>2, <2>3 DEF StreamInv, StreamOf, Question
    <2> QED BY <1>F, <1>T, <1>3, <2>1, <2>4
  <1>4. ASSUME NEW c \in Clients, Connect(c) \/ Pull(c) \/ Check(c) PROVE StreamInv'
    <2>1. cpc[c] = "prompt" \/ up[c] = << >>
      BY <1>0, <1>4 DEF Connect, Pull, Check, AtPrompt, ConnInv
    <2> QED BY <1>3, <1>4, <2>1 DEF Connect, Pull, Check, Turn
  <1>5. ASSUME NEW c \in Clients, Kill(c) PROVE StreamInv'
    <2>1. /\ up' = [up EXCEPT ![c] = up'[c]] /\ Len(up'[c]) = Len(up[c]) + 1
          /\ \A k \in 1..Len(up[c]) : up'[c][k] = up[c][k]
          /\ up'[c][Len(up[c]) + 1].op = "eof"
          /\ cpc' = [cpc EXCEPT ![c] = "gone"] /\ UNCHANGED sent
      BY <1>0, <1>5, SendFacts, MessageFacts DEF Kill, Turn
    <2>2. \A k \in 1..Len(up[c]) : up[c][k].op = "post"
      BY <1>0, <1>5, PromptFacts DEF Kill
    <2>3. \A k \in 1..Len(up'[c]) : k \in 1..Len(up[c]) \/ k = Len(up[c]) + 1
      BY <1>T, <2>1
    <2>4. StreamOf(c)'
      BY <1>0, <1>T, <2>1, <2>2, <2>3 DEF StreamInv, StreamOf, Question
    <2> QED BY <1>F, <1>T, <2>1, <2>4
  <1>6. ASSUME NEW c \in Clients, Exit(c) PROVE StreamInv'
    <2>1. /\ up' = [up EXCEPT ![c] = up'[c]] /\ Len(up'[c]) = Len(up[c]) + 2
          /\ \A k \in 1..Len(up[c]) : up'[c][k] = up[c][k]
          /\ up'[c][Len(up[c]) + 1].op = "exit" /\ up'[c][Len(up[c]) + 2].op = "eof"
          /\ cpc' = [cpc EXCEPT ![c] = "gone"] /\ UNCHANGED sent
      BY <1>0, <1>6, SendExitFacts, MessageFacts DEF Exit, Turn
    <2>2. \A k \in 1..Len(up[c]) : up[c][k].op = "post"
      BY <1>0, <1>6, PromptFacts DEF Exit, AtPrompt
    <2>3. \A k \in 1..Len(up'[c]) :
            \/ k \in 1..Len(up[c]) \/ k = Len(up[c]) + 2
            \/ k = Len(up[c]) + 1 /\ k + 1 = Len(up[c]) + 2 /\ k < Len(up'[c])
      BY <1>T, <2>1
    <2>4. StreamOf(c)'
      BY <1>0, <1>T, <2>1, <2>2, <2>3 DEF StreamInv, StreamOf, Question
    <2> QED BY <1>F, <1>T, <2>1, <2>4
  <1>7. ASSUME NEW c \in Clients, SendPost(c) PROVE StreamInv'
    <2>1. sent[c] + 1 \in 1..MaxPosts /\ up[c] = << >>
      BY <1>0, <1>7, <1>T, ConstFacts DEF SendPost, StreamInv, StreamOf
    <2>2. /\ up' = [up EXCEPT ![c] = up'[c]] /\ Len(up'[c]) = 1
          /\ up'[c][1].op = "post" /\ up'[c][1].post.by = c
          /\ up'[c][1].post.n = sent[c] + 1
      <3> DEFINE p == Post(c, sent[c] + 1)
      <3>1. p \in NewPosts /\ p.by = c /\ p.n = sent[c] + 1
        BY <2>1, PostFacts
      <3>2. Send(c, <<Msg("post", p)>>) /\ Msg("post", p) \in Messages
            /\ Msg("post", p).op = "post" /\ Msg("post", p).post = p
        BY <1>7, <3>1, MessageFacts DEF SendPost
      <3> HIDE DEF p
      <3>3. /\ up' = [up EXCEPT ![c] = up'[c]] /\ Len(up'[c]) = Len(up[c]) + 1
            /\ up'[c][Len(up[c]) + 1] = Msg("post", p)
        BY <1>0, <3>2, SendFacts
      <3> QED BY <1>T, <2>1, <3>1, <3>2, <3>3
    <2>3. cpc' = [cpc EXCEPT ![c] = "prompt"] /\ sent' = [sent EXCEPT ![c] = sent[c] + 1]
      BY <1>7 DEF SendPost, Turn
    <2>4. StreamOf(c)'
      BY <1>T, <2>2, <2>3 DEF StreamOf, Question
    <2> QED BY <1>F, <1>T, <2>2, <2>3, <2>4
  <1>8. ASSUME NEW c \in Clients, Hear(c) PROVE StreamInv'
    <2>1. up[c] = << >>
      BY <1>0, <1>8 DEF Hear, TalkInv
    <2>2. UNCHANGED <<up, sent>> /\ \E l : cpc' = [cpc EXCEPT ![c] = l]
      BY <1>8 DEF Hear, Turn
    <2>3. up'[c] = << >> /\ Len(up'[c]) = 0
      BY <1>T, <2>1, <2>2
    <2>4. StreamOf(c)'
      BY <2>3 DEF StreamOf
    <2> QED BY <1>F, <1>T, <2>2, <2>4
  <1>9. ASSUME NEW c \in Clients, LoseServer(c) PROVE StreamInv'
    <2>1. StreamOf(c)'
      BY <1>0, <1>9, <1>T DEF LoseServer, Turn, StreamInv, StreamOf, stream
    <2> QED BY <1>F, <1>9, <1>T, <2>1 DEF LoseServer, Turn, stream
  <1>10. CASE UNCHANGED <<cpc, up, sent>>
    BY <1>0, <1>10 DEF StreamInv, StreamOf
  <1> QED
    BY <1>1, <1>2, <1>4, <1>5, <1>6, <1>7, <1>8, <1>9, <1>10
    DEF Next, ServerStep, User, Refresh, Select, ReadEof, Test, Answer, PassOver, Choose,
        ChooseNone, DoLock, Write, Unlock, OtherLocks, OtherUnlocks, vars, client, stream

LEMMA TalkNext == IInv /\ [Next]_vars => TalkInv'
  <1> SUFFICES ASSUME IInv, [Next]_vars PROVE TalkInv'
    OBVIOUS
  <1>0. TypeOK /\ ControlInv /\ ConnInv /\ StreamInv /\ TalkInv
    BY DEF IInv
  <1>T. /\ req \in [Servers -> [client : Clients, msg : Messages] \union {NoReq}]
        /\ cpc \in [Clients -> {"off", "pull", "check", "compose", "prompt", "gone"}]
        /\ up \in [Clients -> Seq(Messages)]
        /\ down \in [Clients -> [kind : {"none", "yes", "no", "board"}, posts : SUBSET Posts]]
        /\ NoReq.client = Nobody /\ Nobody \notin Clients
    BY <1>0, ConstFacts, NoReqFacts DEF TypeOK
  <1>1. ASSUME NEW s \in Servers, NEW c \in Clients, Read(s, c) PROVE TalkInv'
    <2>1. /\ server[c] = s /\ up[c] # << >> /\ up' = [up EXCEPT ![c] = up'[c]]
          /\ req' = [req EXCEPT ![s] = [client |-> c, msg |-> up[c][1]]]
          /\ up[c][1].op \in Question => up'[c] = << >>
          /\ Len(up[c]) \in Nat \ {0}
      BY <1>0, <1>1, ReadFacts
    <2>2. down[c] = NoReply /\ cpc[c] # "compose"
      BY <1>0, <2>1 DEF TalkInv, StreamInv, StreamOf
    <2>3. up[c][1].op \in Question => cpc[c] \in {"pull", "check", "gone"}
      <3>1. 1 \in 1..Len(up[c])
        BY <2>1
      <3> QED BY <1>0, <3>1 DEF StreamInv, StreamOf
    <2>4. UNCHANGED <<cpc, down>>
      BY <1>1 DEF Read, client
    <2> QED BY <1>0, <1>T, <2>1, <2>2, <2>3, <2>4 DEF TalkInv
  <1>2. ASSUME NEW s \in Servers, NEW c \in Clients, ReadExit(s, c) PROVE TalkInv'
    BY <1>0, <1>2, <1>T DEF ReadExit, Proceed, TalkInv, client
  <1>3. ASSUME NEW s \in Servers, Answer(s) PROVE TalkInv'
    <2>1. /\ req[s].client \in Clients /\ req[s].msg.op \in Question
          /\ req' = [req EXCEPT ![s] = NoReq] /\ UNCHANGED <<cpc, up>>
          /\ \E a : down' = [down EXCEPT ![req[s].client] = a]
      BY <1>0, <1>3 DEF Answer, Handling, Proceed, ControlInv, client, Question
    <2>2. \A t \in Servers \ {s} : req[t].client # req[s].client
      BY <1>0, <2>1 DEF ConnInv
    <2> QED BY <1>0, <1>T, <2>1, <2>2 DEF TalkInv
  <1>4. ASSUME NEW s \in Servers, Unlock(s) PROVE TalkInv'
    BY <1>0, <1>4, <1>T DEF Unlock, Proceed, TalkInv, client, stream
  <1>5. ASSUME NEW c \in Clients,
               Connect(c) \/ Pull(c) \/ Check(c) \/ Exit(c) \/ SendPost(c) \/ Kill(c)
        PROVE  TalkInv'
    <2>1. /\ cpc[c] \in {"off", "prompt", "compose"} /\ UNCHANGED <<req, down>>
          /\ \E l \in {"pull", "check", "gone", "prompt"} : cpc' = [cpc EXCEPT ![c] = l]
          /\ \E m : up' = [up EXCEPT ![c] = m]
      BY <1>5 DEF Connect, Pull, Check, Exit, SendPost, Kill, AtPrompt, Turn, Send, handler
    <2>2. down[c] = NoReply /\ \A s \in Servers : req[s].client = c => req[s].msg.op \notin Question
      BY <1>0, <2>1 DEF TalkInv
    <2> QED BY <1>0, <1>T, <2>1, <2>2 DEF TalkInv
  <1>6. ASSUME NEW c \in Clients, Hear(c) PROVE TalkInv'
    <2>1. \A s \in Servers : req[s].client # c
      BY <1>0, <1>6 DEF Hear, TalkInv
    <2> QED BY <1>0, <1>6, <1>T, <2>1 DEF Hear, Turn, TalkInv, handler
  <1>7. ASSUME NEW c \in Clients, LoseServer(c) PROVE TalkInv'
    BY <1>0, <1>7, <1>T DEF LoseServer, Turn, TalkInv, handler, stream
  <1>8. CASE UNCHANGED <<req, cpc, up, down>>
    BY <1>0, <1>8 DEF TalkInv
  <1> QED
    BY <1>1, <1>2, <1>3, <1>4, <1>5, <1>6, <1>7, <1>8
    DEF Next, ServerStep, User, Refresh, Select, ReadEof, Test, PassOver, Choose,
        ChooseNone, DoLock, Write, OtherLocks, OtherUnlocks, vars, handler, client, stream

-----------------------------------------------------------------------------
(* Posts.                                                                  *)

(* Messages behind the first of a stream are no posts, so that what comes  *)
(* to its front is none.                                                   *)
LEMMA TakenFacts ==
  ASSUME TypeOK, ControlInv, ConnInv, StreamInv,
         NEW s \in Servers, NEW c \in Clients, Read(s, c)
  PROVE  \A p \in NewPosts : p.by = c => ~InStream(p)'
  <1>1. SUFFICES ASSUME up'[c] # << >> PROVE up'[c][1].post = Empty
    BY PostFacts DEF InStream
  <1>2. PICK k \in 1..Len(up[c]) : Taken(c, k)
    BY ReadFacts
  <1>3. up'[c] \in Seq(Messages) /\ Len(up[c]) \in Nat
    BY ReadFacts
  <1>4. 1 \in 1..Len(up'[c]) /\ up'[c][1] \in Messages
    BY <1>1, <1>3, EmptySeq
  <1>5. up'[c][1] = up[c][1 + k] /\ 1 + k \in 1..Len(up[c]) /\ 1 + k # 1
    BY <1>2, <1>3, <1>4 DEF Taken
  <1>6. up'[c][1].op # "post"
    BY <1>5 DEF StreamInv, StreamOf
  <1> QED BY <1>4, <1>6, MessageFacts

LEMMA FirstFacts ==
  ASSUME TypeOK, StreamInv, NEW c \in Clients, up[c] # << >>
  PROVE  /\ up[c][1] \in Messages
         /\ up[c][1].post \in NewPosts => up[c][1].op = "post" /\ up[c][1].post.by = c
         /\ up[c][1].op # "post" => up[c][1].post = Empty
  <1>1. 1 \in 1..Len(up[c]) /\ up[c][1] \in Messages
    BY EmptySeq DEF TypeOK
  <1> QED BY <1>1, MessageFacts DEF StreamInv, StreamOf

(* What users send besides posts brings no post to the front of a stream.  *)
LEMMA QuestionsSent ==
  ASSUME TypeOK, NEW c \in Clients, Connect(c) \/ Pull(c) \/ Check(c) \/ Exit(c) \/ Kill(c)
  PROVE  \A p \in NewPosts : InStream(p)' <=> InStream(p)
  <1>T. /\ up \in [Clients -> Seq(Messages)] /\ Empty \notin NewPosts
        /\ \A p \in NewPosts : p.by \in Clients
    BY PostFacts DEF TypeOK
  <1>1. PICK m \in Messages :
          /\ m.post = Empty /\ up' = [up EXCEPT ![c] = up'[c]] /\ up'[c] # << >>
          /\ \A k \in 1..Len(up[c]) : up'[c][k] = up[c][k]
          /\ up'[c][Len(up[c]) + 1] = m
    <2>1. CASE Exit(c)
      <3>1. /\ up' = [up EXCEPT ![c] = up'[c]] /\ up'[c] # << >>
            /\ \A k \in 1..Len(up[c]) : up'[c][k] = up[c][k]
            /\ up'[c][Len(up[c]) + 1] = Plain("exit")
        BY <2>1, SendExitFacts DEF Exit
      <3> QED BY <3>1, MessageFacts
    <2>2. CASE Connect(c) \/ Pull(c) \/ Check(c) \/ Kill(c)
      <3>1. PICK op \in {"pull", "check", "eof"} : Send(c, <<Plain(op)>>)
        BY <2>2 DEF Connect, Pull, Check, Kill
      <3>2. Plain(op) \in Messages /\ Plain(op).post = Empty
        BY MessageFacts
      <3> QED BY <3>1, <3>2, SendFacts
    <2> QED BY <2>1, <2>2
  <1>2. IF up[c] = << >> THEN up'[c][1] = m ELSE up'[c][1] = up[c][1]
    BY <1>T, <1>1, EmptySeq
  <1> QED BY <1>T, <1>1, <1>2 DEF InStream

(* A post that is sent is a new one and the only message of its stream.    *)
LEMMA PostSent ==
  ASSUME TypeOK, StreamInv, NEW c \in Clients, SendPost(c)
  PROVE  \E p \in NewPosts :
           /\ \A q \in NewPosts : InStream(q)' <=> InStream(q) \/ q = p
           /\ \A q \in NewPosts : q # p => (q.n <= sent'[q.by] <=> q.n <= sent[q.by])
           /\ ~(p.n <= sent[p.by]) /\ p.n <= sent'[p.by]
  <1>T. /\ up \in [Clients -> Seq(Messages)] /\ sent \in [Clients -> 0..MaxPosts]
        /\ \A q \in NewPosts : q.by \in Clients /\ q.n \in Nat
        /\ \A d \in Clients : sent[d] \in Nat
    BY ConstFacts, PostFacts DEF TypeOK
  <1>1. sent[c] + 1 \in 1..MaxPosts /\ up[c] = << >>
    BY <1>T, ConstFacts DEF SendPost, StreamInv, StreamOf
  <1>2. PICK p \in NewPosts : p = Post(c, sent[c] + 1) /\ p.by = c /\ p.n = sent[c] + 1
    BY <1>1, PostFacts
  <1>3. Send(c, <<Msg("post", p)>>) /\ sent' = [sent EXCEPT ![c] = sent[c] + 1]
    BY <1>2 DEF SendPost
  <1>4. Msg("post", p) \in Messages /\ Msg("post", p).post = p
    BY MessageFacts
  <1>5. up' = [up EXCEPT ![c] = up'[c]] /\ up'[c] # << >> /\ up'[c][1] = Msg("post", p)
    <2>1. /\ up' = [up EXCEPT ![c] = up'[c]] /\ up'[c] # << >>
          /\ up'[c][Len(up[c]) + 1] = Msg("post", p)
      BY <1>3, <1>4, SendFacts
    <2> QED BY <1>1, <2>1, EmptySeq
  <1>6. \A q \in NewPosts : InStream(q)' <=> InStream(q) \/ q = p
    BY <1>T, <1>1, <1>2, <1>4, <1>5 DEF InStream
  <1>7. ASSUME NEW q \in NewPosts, q # p
        PROVE  q.n <= sent'[q.by] <=> q.n <= sent[q.by]
    <2>1. CASE q.by # c
      BY <1>T, <1>3, <2>1
    <2>2. CASE q.by = c
      <3>1. q.n # sent[c] + 1
        BY <1>2, <1>7, <2>2, PostFacts
      <3> QED BY <1>T, <1>3, <2>2, <3>1
    <2> QED BY <2>1, <2>2
  <1>8. ~(p.n <= sent[p.by]) /\ p.n <= sent'[p.by]
    BY <1>T, <1>2, <1>3
  <1> QED BY <1>6, <1>7, <1>8

(* Nothing about a post changes when neither its place nor its number of   *)
(* log lines does.                                                         *)
LEMMA PostKeeps ==
  ASSUME NEW p \in NewPosts, PostOf(p), sent' = sent, logged'[p] = logged[p],
         InStream(p)' <=> InStream(p),
         \A t \in Servers : /\ InHand(t, p)' <=> InHand(t, p)
                            /\ InHand(t, p) => req'[t] = req[t]
  PROVE  PostOf(p)'
  <1>1. InStream(p)' => p.n <= sent'[p.by] /\ \A s \in Servers : ~InHand(s, p)'
    BY DEF PostOf
  <1>2. ASSUME NEW s \in Servers, InHand(s, p)'
        PROVE  req'[s].client = p.by /\ p.n <= sent'[p.by]
    <2>1. InHand(s, p) /\ req'[s] = req[s]
      BY <1>2
    <2>2. req[s].client = p.by /\ p.n <= sent[p.by]
      BY <2>1 DEF PostOf
    <2> QED BY <2>1, <2>2
  <1>3. (\A s \in Servers : ~InHand(s, p)') <=> (\A s \in Servers : ~InHand(s, p))
    OBVIOUS
  <1>4. logged'[p] = IF p.n <= sent'[p.by] /\ ~InStream(p)' /\ \A s \in Servers : ~InHand(s, p)'
                     THEN 1 ELSE 0
    BY <1>3 DEF PostOf
  <1> QED BY <1>1, <1>2, <1>4 DEF PostOf

LEMMA PostNext == IInv /\ [Next]_vars => PostInv'
  <1> SUFFICES ASSUME IInv, [Next]_vars PROVE PostInv'
    OBVIOUS
  <1>0. TypeOK /\ ControlInv /\ ConnInv /\ StreamInv /\ PostInv
    BY DEF IInv
  <1>T. /\ req \in [Servers -> [client : Clients, msg : Messages] \union {NoReq}]
        /\ up \in [Clients -> Seq(Messages)] /\ sent \in [Clients -> 0..MaxPosts]
        /\ logged \in [NewPosts -> Nat]
        /\ NoReq.msg.post = Empty /\ Empty \notin NewPosts
        /\ \A p \in NewPosts : p.by \in Clients /\ p.n \in Nat
        /\ \A c \in Clients : sent[c] \in Nat
    BY <1>0, ConstFacts, NoReqFacts, PostFacts DEF TypeOK
  <1>1. ASSUME NEW s \in Servers, NEW c \in Clients, Read(s, c) PROVE PostInv'
    <2>1. /\ up[c] # << >> /\ up' = [up EXCEPT ![c] = up'[c]] /\ req[s] = NoReq
          /\ up[c][1] \in Messages
          /\ req' = [req EXCEPT ![s] = [client |-> c, msg |-> up[c][1]]]
      BY <1>0, <1>1, ReadFacts
    <2>2. UNCHANGED <<sent, logged>>
      BY <1>1 DEF Read, client
    <2>3. \A p \in NewPosts :
            /\ p.by = c => ~InStream(p)'
            /\ p.by # c => (InStream(p)' <=> InStream(p))
      BY <1>0, <1>1, <1>T, <2>1, TakenFacts DEF InStream
    <2>4. \A p \in NewPosts :
            /\ ~InHand(s, p)
            /\ InHand(s, p)' <=> up[c][1].post = p
            /\ InHand(s, p)' => p.by = c /\ InStream(p)
            /\ p.by = c /\ InStream(p) => InHand(s, p)'
            /\ \A t \in Servers \ {s} : InHand(t, p)' <=> InHand(t, p)
      BY <1>0, <1>T, <2>1, FirstFacts, NoReqFacts DEF InHand, InStream
    <2>5. req'[s].client = c /\ \A t \in Servers \ {s} : req'[t] = req[t]
      BY <1>T, <2>1
    <2>6. ASSUME NEW p \in NewPosts, up[c][1].post = p PROVE PostOf(p)'
      <3>1. PostOf(p)
        BY <1>0 DEF PostInv
      <3>2. InHand(s, p)' /\ p.by = c /\ InStream(p) /\ ~InStream(p)'
        BY <2>3, <2>4, <2>6
      <3>3. p.n <= sent[p.by] /\ logged[p] = 0 /\ \A t \in Servers : ~InHand(t, p)
        BY <3>1, <3>2 DEF PostOf
      <3>4. \A t \in Servers \ {s} : ~InHand(t, p)'
        BY <2>4, <3>3
      <3>5. \A t \in Servers : InHand(t, p)' => req'[t].client = p.by /\ p.n <= sent'[p.by]
        BY <2>2, <2>5, <3>2, <3>3, <3>4
      <3> QED BY <2>2, <3>2, <3>3, <3>5 DEF PostOf
    <2>7. ASSUME NEW p \in NewPosts, up[c][1].post # p PROVE PostOf(p)'
      <3>1. PostOf(p)
        BY <1>0 DEF PostInv
      <3>2. \A t \in Servers : /\ InHand(t, p)' <=> InHand(t, p)
                               /\ InHand(t, p) => req'[t] = req[t]
        BY <2>4, <2>5, <2>7
      <3>3. InStream(p)' <=> InStream(p)
        BY <2>3, <2>4, <2>7
      <3> QED BY <2>2, <3>1, <3>2, <3>3, PostKeeps
    <2> QED BY <2>6, <2>7 DEF PostInv
  <1>2. ASSUME NEW s \in Servers, NEW c \in Clients, ReadExit(s, c) PROVE PostInv'
    <2>1. /\ up[c] # << >> /\ up[c][1].op = "exit" /\ up' = [up EXCEPT ![c] = << >>]
          /\ req[s] = NoReq /\ req' = [req EXCEPT ![s] = NoReq] /\ UNCHANGED <<sent, logged>>
      BY <1>0, <1>2 DEF ReadExit, IsNext, Proceed, ControlInv, ConnInv, client
    <2>2. \A p \in NewPosts : InStream(p)' <=> InStream(p)
      BY <1>0, <1>T, <2>1, FirstFacts DEF InStream
    <2>3. req' = req
      BY <1>T, <2>1
    <2>4. \A p \in NewPosts, t \in Servers : InHand(t, p)' <=> InHand(t, p)
      BY <2>3 DEF InHand
    <2>5. ASSUME NEW p \in NewPosts PROVE PostOf(p)'
      <3>1. PostOf(p)
        BY <1>0 DEF PostInv
      <3> QED BY <2>1, <2>2, <2>3, <2>4, <3>1, PostKeeps
    <2> QED BY <2>5 DEF PostInv
  <1>3. ASSUME NEW s \in Servers, Answer(s) PROVE PostInv'
    <2>1. /\ req[s].msg.op \in Question /\ req' = [req EXCEPT ![s] = NoReq]
          /\ UNCHANGED <<up, sent, logged>>
      BY <1>3 DEF Answer, Handling, Proceed, client, Question
    <2>2. req[s].msg.post \notin NewPosts
      BY <1>0, <1>T, <2>1, ReqFacts DEF Question
    <2>3. \A p \in NewPosts, t \in Servers :
            /\ InHand(t, p)' <=> InHand(t, p)
            /\ InHand(t, p) => req'[t] = req[t]
      BY <1>T, <2>1, <2>2 DEF InHand
    <2>4. \A p \in NewPosts : InStream(p)' <=> InStream(p)
      BY <2>1 DEF InStream
    <2>5. ASSUME NEW p \in NewPosts PROVE PostOf(p)'
      <3>1. PostOf(p)
        BY <1>0 DEF PostInv
      <3>2. \A t \in Servers : /\ InHand(t, p)' <=> InHand(t, p)
                               /\ InHand(t, p) => req'[t] = req[t]
        BY <2>3
      <3> QED BY <2>1, <2>4, <3>1, <3>2, PostKeeps
    <2> QED BY <2>5 DEF PostInv
  <1>4. ASSUME NEW s \in Servers, Unlock(s) PROVE PostInv'
    <2>0. PICK p \in NewPosts : p = req[s].msg.post
      BY <1>0, <1>4, ReqFacts DEF Unlock, ControlInv
    <2>1. /\ req' = [req EXCEPT ![s] = NoReq] /\ UNCHANGED <<up, sent>>
          /\ logged' = [logged EXCEPT ![p] = @ + 1]
      BY <1>4, <2>0 DEF Unlock, Proceed, client, stream
    <2>2. /\ InHand(s, p) /\ ~InStream(p) /\ p.n <= sent[p.by] /\ logged[p] = 0
          /\ \A t \in Servers \ {s} : ~InHand(t, p)
      <3>1. InHand(s, p)
        BY <2>0 DEF InHand
      <3>2. \A t \in Servers : InHand(t, p) => server[p.by] = t
        BY <1>0, <1>T, <2>1 DEF PostInv, PostOf, ConnInv
      <3> QED BY <1>0, <1>T, <2>1, <3>1, <3>2 DEF PostInv, PostOf
    <2>3. \A q \in NewPosts, t \in Servers :
            /\ InHand(t, q)' <=> InHand(t, q) /\ q # p
            /\ InHand(t, q)' => req'[t] = req[t]
      BY <1>T, <2>0, <2>1, <2>2 DEF InHand
    <2>4. \A q \in NewPosts : InStream(q)' <=> InStream(q)
      BY <2>1 DEF InStream
    <2>5. logged'[p] = 1 /\ \A q \in NewPosts \ {p} : logged'[q] = logged[q]
      BY <1>T, <2>1, <2>2
    <2>6. PostOf(p)'
      <3>1. ~InStream(p)' /\ (\A t \in Servers : ~InHand(t, p)') /\ p.n <= sent'[p.by]
        BY <2>1, <2>2, <2>3, <2>4
      <3> QED BY <2>5, <3>1 DEF PostOf
    <2>7. ASSUME NEW q \in NewPosts \ {p} PROVE PostOf(q)'
      <3>1. PostOf(q)
        BY <1>0 DEF PostInv
      <3>2. \A t \in Servers : /\ InHand(t, q)' <=> InHand(t, q)
                               /\ InHand(t, q) => req'[t] = req[t]
        BY <2>3
      <3> QED BY <2>1, <2>4, <2>5, <3>1, <3>2, PostKeeps
    <2> QED BY <2>6, <2>7 DEF PostInv
  <1>6. ASSUME NEW c \in Clients, Connect(c) \/ Pull(c) \/ Check(c) \/ Exit(c) \/ Kill(c)
        PROVE  PostInv'
    <2>1. UNCHANGED <<req, sent, logged>>
      BY <1>6 DEF Connect, Pull, Check, Exit, Kill, handler, history
    <2>2. \A p \in NewPosts, t \in Servers : InHand(t, p)' <=> InHand(t, p)
      BY <2>1 DEF InHand
    <2>3. ASSUME NEW p \in NewPosts PROVE PostOf(p)'
      <3>1. PostOf(p) /\ (InStream(p)' <=> InStream(p))
        BY <1>0, <1>6, QuestionsSent DEF PostInv
      <3> QED BY <2>1, <2>2, <3>1, PostKeeps
    <2> QED BY <2>3 DEF PostInv
  <1>7. ASSUME NEW c \in Clients, SendPost(c) PROVE PostInv'
    <2>1. PICK p \in NewPosts :
            /\ \A q \in NewPosts : InStream(q)' <=> InStream(q) \/ q = p
            /\ \A q \in NewPosts : q # p => (q.n <= sent'[q.by] <=> q.n <= sent[q.by])
            /\ ~(p.n <= sent[p.by]) /\ p.n <= sent'[p.by]
      BY <1>0, <1>7, PostSent
    <2>2. UNCHANGED <<req, logged>>
      BY <1>7 DEF SendPost, handler, history
    <2>3. \A q \in NewPosts, s \in Servers : InHand(s, q)' <=> InHand(s, q)
      BY <2>2 DEF InHand
    <2> QED BY <1>0, <2>1, <2>2, <2>3 DEF PostInv, PostOf
  <1>8. CASE UNCHANGED <<req, up, sent, logged>>
    BY <1>0, <1>8 DEF PostInv, PostOf, InStream, InHand
  <1> QED
    BY <1>1, <1>2, <1>3, <1>4, <1>6, <1>7, <1>8
    DEF Next, ServerStep, User, Refresh, Select, ReadEof, Test, PassOver, Choose, ChooseNone,
        DoLock, Write, Hear, LoseServer, OtherLocks, OtherUnlocks, vars, handler, client,
        stream, history

-----------------------------------------------------------------------------
(* The loops over the records.                                             *)

(* What a loop has found out stands as long as only records that are not   *)
(* steady any more are locked or unlocked.                                 *)
LEMMA LoopKeeps ==
  ASSUME NEW s \in Servers, LoopOf(s), req'[s] = req[s], at'[s] = at[s],
         free'[s] = free[s], last'[s] = last[s], spc'[s] = "scan" => spc[s] = "scan",
         steady'[s] \subseteq steady[s],
         \A r \in steady'[s] : IsLocked(s, r)' <=> IsLocked(s, r)
  PROVE  LoopOf(s)'
  <1>1. \A j : Passed(s, j)' = Passed(s, j)
    BY DEF Passed
  <1>2. ASSUME req'[s].msg.op \in Question
        PROVE  /\ \A r \in free'[s] : r < at'[s]
               /\ \A r \in steady'[s] : r < at'[s] => (r \in free'[s] <=> ~IsLocked(s, r)')
    BY <1>2 DEF LoopOf
  <1>3. ASSUME spc'[s] = "scan", req'[s].msg.op = "post", NEW j \in 0..at'[s] - 1,
               Passed(s, j)' \in steady'[s]
        PROVE  IsLocked(s, Passed(s, j))'
    <2>1. IsLocked(s, Passed(s, j))
      BY <1>1, <1>3 DEF LoopOf
    <2>2. lock'[Passed(s, j)] \notin {Nobody, s}
      BY <1>1, <1>3, <2>1 DEF IsLocked
    <2> QED BY <1>1, <2>2 DEF IsLocked
  <1> QED BY <1>2, <1>3 DEF LoopOf

(* With nothing in hand there is nothing to say.                           *)
LEMMA LoopDone ==
  ASSUME NEW s \in Servers, req'[s] = NoReq
  PROVE  LoopOf(s)'
  BY NoReqFacts DEF LoopOf, Question

(* A lock that changes disturbs everybody but the one whose lock it is,    *)
(* who does not find his own locks locked.                                 *)
LEMMA LockDisturbs ==
  ASSUME TypeOK, NEW t \in Servers, NEW r \in Records, NEW x,
         lock' = [lock EXCEPT ![r] = x],
         \/ steady'[t] = steady[t] \ {r}
         \/ steady'[t] = steady[t] /\ lock[r] \in {Nobody, t} /\ x \in {Nobody, t}
  PROVE  /\ steady'[t] \subseteq steady[t]
         /\ \A q \in steady'[t] : IsLocked(t, q)' <=> IsLocked(t, q)
  <1>1. steady'[t] \subseteq Records /\ steady'[t] \subseteq steady[t]
    BY DEF TypeOK
  <1>2. lock'[r] = x /\ \A q \in Records \ {r} : lock'[q] = lock[q]
    BY DEF TypeOK
  <1>3. ASSUME NEW q \in steady'[t] PROVE IsLocked(t, q)' <=> IsLocked(t, q)
    <2>1. CASE q = r
      BY <1>2, <1>3, <2>1 DEF IsLocked
    <2>2. CASE q # r
      BY <1>1, <1>2, <1>3, <2>2 DEF IsLocked
    <2> QED BY <2>1, <2>2
  <1> QED BY <1>1, <1>3

(* Counting on.                                                            *)
LEMMA NextNumber ==
  ASSUME NEW a \in Nat
  PROVE  /\ \A r \in Nat : r < a + 1 <=> r < a \/ r = a
         /\ \A j \in 0..(a + 1) - 1 : j \in 0..a - 1 \/ j = a
  OBVIOUS

LEMMA LoopNext == IInv /\ [Next]_vars => LoopInv'
  <1> SUFFICES ASSUME IInv, [Next]_vars, NEW t \in Servers PROVE LoopOf(t)'
    BY DEF LoopInv
  <1>0. TypeOK /\ ControlInv /\ ConnInv /\ StreamInv /\ LoopOf(t)
    BY DEF IInv, LoopInv
  <1>T. /\ spc \in [Servers -> {"refresh", "select", "loop", "scan", "lock", "write",
                                "unlock", "aborted"}]
        /\ req \in [Servers -> [client : Clients, msg : Messages] \union {NoReq}]
        /\ at \in [Servers -> 0..2 * RECORD_NUM] /\ free \in [Servers -> SUBSET Records]
        /\ last \in [Servers -> Nat \union {-1}]
        /\ steady \in [Servers -> SUBSET Records]
        /\ lock \in [Records -> Servers \union {Nobody, Other}]
        /\ pos \in [Servers -> Records]
        /\ Nobody \notin Servers /\ Other \notin Servers /\ Nobody # Other
        /\ RECORD_NUM \in Nat \ {0} /\ Records \subseteq Nat /\ at[t] \in Nat
    BY <1>0, ConstFacts DEF TypeOK
  <1>1. ASSUME req'[t] = req[t], at' = at, free' = free, last' = last, lock' = lock,
               steady'[t] \subseteq steady[t], spc'[t] = "scan" => spc[t] = "scan"
        PROVE  LoopOf(t)'
    <2>1. \A r \in steady'[t] : IsLocked(t, r)' <=> IsLocked(t, r)
      BY <1>1 DEF IsLocked
    <2> QED BY <1>0, <1>1, <2>1, LoopKeeps
  <1>2. ASSUME NEW s \in Servers, NEW c \in Clients, Read(s, c) PROVE LoopOf(t)'
    <2>1. at[s] = 0 /\ free[s] = {}
      BY <1>0, <1>2, ReadFacts
    <2>2. /\ UNCHANGED <<at, free, last, lock>> /\ spc' = [spc EXCEPT ![s] = "scan"]
          /\ steady' = [steady EXCEPT ![s] = Records]
          /\ \A u \in Servers \ {s} : req'[u] = req[u]
      BY <1>2, <1>T DEF Read, board
    <2>3. CASE t = s
      BY <1>T, <2>1, <2>2, <2>3 DEF LoopOf
    <2>4. CASE t # s
      BY <1>1, <1>T, <2>2, <2>4
    <2> QED BY <2>3, <2>4
  <1>3. ASSUME NEW s \in Servers, NEW c \in Clients, ReadExit(s, c) PROVE LoopOf(t)'
    <2>1. /\ at[s] = 0 /\ free[s] = {} /\ req[s] = NoReq
          /\ req' = [req EXCEPT ![s] = NoReq]
      BY <1>0, <1>3 DEF ReadExit, IsNext, Proceed, ControlInv
    <2>2. CASE t = s
      BY <1>T, <2>1, <2>2, LoopDone
    <2>3. CASE t # s
      <3>1. /\ req'[t] = req[t] /\ at' = at /\ free' = free /\ last' = last /\ lock' = lock
            /\ steady'[t] = steady[t] \ {} /\ spc'[t] = spc[t]
        BY <1>3, <1>T, <2>1, <2>3 DEF ReadExit, Proceed, Calm, board
      <3> QED BY <1>1, <3>1
    <2> QED BY <2>2, <2>3
  <1>4. ASSUME NEW s \in Servers, Answer(s) PROVE LoopOf(t)'
    <2>1. CASE t = s
      <3>1. req'[s] = NoReq
        BY <1>4, <1>T DEF Answer, Proceed
      <3> QED BY <2>1, <3>1, LoopDone
    <2>2. CASE t # s
      <3>1. /\ req'[t] = req[t] /\ at'[t] = at[t] /\ free'[t] = free[t] /\ last' = last
            /\ lock' = lock /\ steady'[t] = steady[t] \ {} /\ spc'[t] = spc[t]
        BY <1>4, <1>T, <2>2 DEF Answer, Proceed, Calm, board
      <3>2. \A r \in steady'[t] : IsLocked(t, r)' <=> IsLocked(t, r)
        BY <3>1 DEF IsLocked
      <3> QED BY <1>0, <3>1, <3>2, LoopKeeps
    <2> QED BY <2>1, <2>2
  <1>5. ASSUME NEW s \in Servers, Test(s) PROVE LoopOf(t)'
    <2>1. /\ req[s].msg.op \in Question /\ at' = [at EXCEPT ![s] = @ + 1]
          /\ free' = [free EXCEPT ![s] = IF IsLocked(s, at[s]) THEN @ ELSE @ \union {at[s]}]
          /\ UNCHANGED <<lock, spc, req, last, steady>>
      BY <1>5 DEF Test, Handling, board, history, Question
    <2>2. CASE t = s
      <3>1. \A r : IsLocked(t, r)' <=> IsLocked(t, r)
        BY <2>1 DEF IsLocked
      <3>2. /\ \A r \in free[t] : r < at[t]
            /\ \A r \in steady[t] : r < at[t] => (r \in free[t] <=> ~IsLocked(t, r))
        BY <1>0, <2>1, <2>2 DEF LoopOf
      <3>3. /\ at'[t] = at[t] + 1
            /\ free'[t] = IF IsLocked(t, at[t]) THEN free[t] ELSE free[t] \union {at[t]}
        BY <1>T, <2>1, <2>2
      <3>4. \A r \in Records : r < at'[t] <=> r < at[t] \/ r = at[t]
        <4>1. \A r \in Nat : r < at[t] + 1 <=> r < at[t] \/ r = at[t]
          BY <1>T, NextNumber
        <4> QED BY <1>T, <3>3, <4>1
      <3>5. \A r \in free'[t] : r < at'[t]
        <4>1. \A r \in free[t] : r < at'[t]
          BY <1>T, <3>2, <3>4
        <4>2. at[t] < at'[t]
          BY <1>T, <3>3
        <4> QED BY <3>3, <4>1, <4>2
      <3>6. ASSUME NEW r \in steady'[t], r < at'[t]
            PROVE  r \in free'[t] <=> ~IsLocked(t, r)'
        <4>1. r \in steady[t] /\ r \in Records
          BY <1>T, <2>1, <3>6
        <4>2. CASE r < at[t]
          BY <1>T, <3>1, <3>2, <3>3, <4>1, <4>2
        <4>3. CASE r = at[t]
          <5>1. r \notin free[t]
            BY <1>T, <3>2, <4>3
          <5> QED BY <3>1, <3>3, <4>3, <5>1
        <4> QED BY <3>4, <3>6, <4>1, <4>2, <4>3
      <3>7. req'[t].msg.op # "post"
        BY <2>1, <2>2 DEF Question
      <3> QED BY <3>5, <3>6, <3>7 DEF LoopOf
    <2>3. CASE t # s
      <3>1. at'[t] = at[t] /\ free'[t] = free[t]
        BY <1>T, <2>1, <2>3
      <3>2. \A r \in steady'[t] : IsLocked(t, r)' <=> IsLocked(t, r)
        BY <2>1 DEF IsLocked
      <3> QED BY <1>0, <2>1, <3>1, <3>2, LoopKeeps
    <2> QED BY <2>2, <2>3
  <1>6. ASSUME NEW s \in Servers, PassOver(s) PROVE LoopOf(t)'
    <2>1. /\ spc[s] = "scan" /\ req[s].msg.op = "post" /\ at' = [at EXCEPT ![s] = @ + 1]
          /\ IsLocked(s, Target(s)) /\ UNCHANGED <<lock, spc, req, free, last, steady>>
      BY <1>6 DEF PassOver, Handling, board, history
    <2>2. CASE t = s
      <3>1. \A j : Passed(t, j)' = Passed(t, j)
        BY <2>1 DEF Passed
      <3>2. \A j \in 0..at[t] - 1 : Passed(t, j) \in steady[t] => IsLocked(t, Passed(t, j))
        BY <1>0, <2>1, <2>2 DEF LoopOf
      <3>3. Passed(t, at[t]) = Target(t)
        BY DEF Passed, Target, Candidate
      <3>4. \A j \in 0..at'[t] - 1 : j \in 0..at[t] - 1 \/ j = at[t]
        <4>1. at'[t] = at[t] + 1
          BY <1>T, <2>1, <2>2
        <4> QED BY <1>T, <4>1, NextNumber
      <3>5. \A j \in 0..at'[t] - 1 : Passed(t, j) \in steady[t] => IsLocked(t, Passed(t, j))
        BY <2>1, <2>2, <3>2, <3>3, <3>4
      <3>6. ASSUME NEW j \in 0..at'[t] - 1, Passed(t, j)' \in steady'[t]
            PROVE  IsLocked(t, Passed(t, j))'
        BY <2>1, <3>1, <3>5, <3>6 DEF IsLocked
      <3>7. req'[t].msg.op \notin Question
        BY <2>1, <2>2 DEF Question
      <3> QED BY <3>6, <3>7 DEF LoopOf
    <2>3. CASE t # s
      <3>1. at'[t] = at[t]
        BY <1>T, <2>1, <2>3
      <3>2. \A r \in steady'[t] : IsLocked(t, r)' <=> IsLocked(t, r)
        BY <2>1 DEF IsLocked
      <3> QED BY <1>0, <2>1, <3>1, <3>2, LoopKeeps
    <2> QED BY <2>2, <2>3
  <1>7. ASSUME NEW s \in Servers, Choose(s) PROVE LoopOf(t)'
    <2>1. /\ req[s].msg.op = "post" /\ spc' = [spc EXCEPT ![s] = "lock"]
          /\ last' = [last EXCEPT ![s] = Candidate(s)]
          /\ UNCHANGED <<lock, req, free, at, steady>>
      BY <1>7 DEF Choose, Handling, board, history
    <2>2. CASE t = s
      BY <1>T, <2>1, <2>2 DEF LoopOf, Question
    <2>3. CASE t # s
      <3>1. last'[t] = last[t] /\ spc'[t] = spc[t]
        BY <1>T, <2>1, <2>3
      <3>2. \A r \in steady'[t] : IsLocked(t, r)' <=> IsLocked(t, r)
        BY <2>1 DEF IsLocked
      <3> QED BY <1>0, <2>1, <3>1, <3>2, LoopKeeps
    <2> QED BY <2>2, <2>3
  <1>8. ASSUME NEW s \in Servers, DoLock(s) PROVE LoopOf(t)'
    <2>1. UNCHANGED <<req, at, free, last>> /\ (spc'[t] = "scan" => spc[t] = "scan")
      BY <1>8, <1>T DEF DoLock, handler
    <2>2. /\ steady'[t] \subseteq steady[t]
          /\ \A r \in steady'[t] : IsLocked(t, r)' <=> IsLocked(t, r)
      <3>1. CASE lock[pos[s]] = Nobody
        <4>1. /\ lock' = [lock EXCEPT ![pos[s]] = s] /\ pos[s] \in Records
              /\ steady'[t] = IF t = s THEN steady[t] ELSE steady[t] \ {pos[s]}
          BY <1>8, <1>T, <3>1 DEF DoLock, Disturb
        <4> QED BY <1>0, <3>1, <4>1, LockDisturbs
      <3>2. CASE lock[pos[s]] # Nobody
        BY <1>8, <3>2 DEF DoLock, IsLocked
      <3> QED BY <3>1, <3>2
    <2> QED BY <1>0, <2>1, <2>2, LoopKeeps
  <1>9. ASSUME NEW s \in Servers, Unlock(s) PROVE LoopOf(t)'
    <2>1. CASE t = s
      <3>1. req'[s] = NoReq
        BY <1>9, <1>T DEF Unlock, Proceed
      <3> QED BY <2>1, <3>1, LoopDone
    <2>2. CASE t # s
      <3>1. /\ req'[t] = req[t] /\ at'[t] = at[t] /\ free'[t] = free[t] /\ last' = last
            /\ spc'[t] = spc[t]
        BY <1>9, <1>T, <2>2 DEF Unlock, Proceed
      <3>2. /\ steady'[t] \subseteq steady[t]
            /\ \A r \in steady'[t] : IsLocked(t, r)' <=> IsLocked(t, r)
        <4>1. CASE lock[pos[s]] = s
          <5>1. /\ lock' = [lock EXCEPT ![pos[s]] = Nobody] /\ pos[s] \in Records
                /\ steady'[t] = steady[t] \ {pos[s]}
            BY <1>9, <1>T, <2>2, <4>1 DEF Unlock, Calm
          <5> QED BY <1>0, <5>1, LockDisturbs
        <4>2. CASE lock[pos[s]] # s
          <5>1. lock' = lock /\ steady'[t] = steady[t] \ {}
            BY <1>9, <2>2, <4>2 DEF Unlock, Calm
          <5> QED BY <5>1 DEF IsLocked
        <4> QED BY <4>1, <4>2
      <3> QED BY <1>0, <3>1, <3>2, LoopKeeps
    <2> QED BY <2>1, <2>2
  <1>10. ASSUME NEW r \in Lockable, OtherLocks(r) \/ OtherUnlocks(r) PROVE LoopOf(t)'
    <2>1. UNCHANGED <<req, at, free, last, spc>>
      BY <1>10 DEF OtherLocks, OtherUnlocks, handler
    <2>2. /\ steady'[t] \subseteq steady[t]
          /\ \A q \in steady'[t] : IsLocked(t, q)' <=> IsLocked(t, q)
      <3>1. /\ \E x : lock' = [lock EXCEPT ![r] = x]
            /\ steady'[t] = steady[t] \ {r} /\ r \in Records
        BY <1>10, <1>T, BoardAssumption DEF OtherLocks, OtherUnlocks, Disturb, Records
      <3> QED BY <1>0, <3>1, LockDisturbs
    <2> QED BY <1>0, <2>1, <2>2, LoopKeeps
  <1>11. ASSUME NEW s \in Servers,
                Refresh(s) \/ Select(s) \/ ChooseNone(s) \/ Write(s) \/ \E c \in Clients : ReadEof(s, c)
         PROVE  LoopOf(t)'
    <2>1. UNCHANGED <<req, at, free, last, lock, steady>> /\ (spc'[t] = "scan" => spc[t] = "scan")
      BY <1>11, <1>T
      DEF Refresh, Select, ChooseNone, Write, ReadEof, board, handler, history
    <2> QED BY <1>1, <2>1
  <1>12. ASSUME NEW c \in Clients, User(c) \/ Hear(c) \/ LoseServer(c) PROVE LoopOf(t)'
    <2>1. UNCHANGED <<spc, req, at, free, last, lock, steady>>
      BY <1>12 DEF User, Connect, Pull, Check, Exit, SendPost, Kill, Hear, LoseServer,
                   board, handler, history
    <2> QED BY <1>1, <2>1
  <1>13. CASE UNCHANGED vars
    BY <1>1, <1>13 DEF vars, board, handler, history
  <1> QED
    BY <1>2, <1>3, <1>4, <1>5, <1>6, <1>7, <1>8, <1>9, <1>10, <1>11, <1>12, <1>13
    DEF Next, ServerStep

-----------------------------------------------------------------------------
(* Stored posts.                                                           *)

(* A post that has been written does not come back.                        *)
LEMMA StoredNext == IInv /\ [Next]_vars => \A p \in NewPosts : Stored(p) => Stored(p)'
  <1> SUFFICES ASSUME IInv, [Next]_vars, NEW p \in NewPosts, Stored(p) PROVE Stored(p)'
    OBVIOUS
  <1>0. TypeOK /\ ControlInv /\ ConnInv /\ StreamInv
    BY DEF IInv
  <1>T. /\ req \in [Servers -> [client : Clients, msg : Messages] \union {NoReq}]
        /\ up \in [Clients -> Seq(Messages)] /\ sent \in [Clients -> 0..MaxPosts]
        /\ spc \in [Servers -> {"refresh", "select", "loop", "scan", "lock", "write",
                                "unlock", "aborted"}]
        /\ NoReq.msg.post # p /\ p.by \in Clients /\ p.n \in Nat
        /\ \A c \in Clients : sent[c] \in Nat
    BY <1>0, ConstFacts, NoReqFacts, PostFacts DEF TypeOK
  <1>S. /\ p.n <= sent[p.by] /\ ~InStream(p)
        /\ \A s \in Servers : InHand(s, p) => spc[s] = "unlock"
    BY DEF Stored
  <1>1. ASSUME sent' = sent, InStream(p)' => InStream(p),
               \A s \in Servers : InHand(s, p)' => InHand(s, p) /\ spc'[s] = "unlock"
        PROVE  Stored(p)'
    BY <1>S, <1>1 DEF Stored
  <1>2. ASSUME NEW s \in Servers, NEW c \in Clients, Read(s, c) PROVE Stored(p)'
    <2>1. /\ up[c] # << >> /\ up' = [up EXCEPT ![c] = up'[c]]
          /\ req' = [req EXCEPT ![s] = [client |-> c, msg |-> up[c][1]]]
      BY <1>0, <1>2, ReadFacts
    <2>6. spc' = [spc EXCEPT ![s] = "scan"] /\ sent' = sent
      BY <1>2 DEF Read, client
    <2>2. InStream(p)' => InStream(p)
      BY <1>0, <1>2, <1>T, <2>1, TakenFacts DEF InStream
    <2>3. up[c][1].post # p
      BY <1>0, <1>S, <2>1, FirstFacts DEF InStream
    <2>4. \A t \in Servers : InHand(t, p)' => t # s /\ InHand(t, p)
      BY <1>T, <2>1, <2>3 DEF InHand
    <2>5. \A t \in Servers \ {s} : spc'[t] = spc[t]
      BY <1>T, <2>6
    <2> QED BY <1>1, <1>S, <2>2, <2>4, <2>5, <2>6
  <1>3. ASSUME NEW s \in Servers,
               (\E c \in Clients : ReadExit(s, c)) \/ Answer(s) \/ Unlock(s)
        PROVE  Stored(p)'
    <2>1. /\ req' = [req EXCEPT ![s] = NoReq] /\ sent' = sent
          /\ up' = up \/ \E c \in Clients : up' = [up EXCEPT ![c] = << >>]
          /\ \A t \in Servers \ {s} : spc'[t] = spc[t]
      BY <1>3, <1>T DEF ReadExit, Answer, Unlock, Proceed, client, stream
    <2>2. InStream(p)' => InStream(p)
      BY <1>T, <2>1 DEF InStream
    <2>3. \A t \in Servers : InHand(t, p)' => t # s /\ InHand(t, p)
      BY <1>T, <2>1 DEF InHand
    <2> QED BY <1>1, <1>S, <2>1, <2>2, <2>3
  <1>4. ASSUME UNCHANGED <<up, sent, req>>,
               \A s \in Servers : spc[s] = "unlock" => spc'[s] = "unlock"
        PROVE  Stored(p)'
    BY <1>1, <1>4, <1>S DEF InStream, InHand
  <1>5. ASSUME NEW s \in Servers,
               \/ Refresh(s) \/ Select(s) \/ Test(s) \/ PassOver(s) \/ Choose(s)
               \/ ChooseNone(s) \/ DoLock(s) \/ Write(s) \/ \E c \in Clients : ReadEof(s, c)
        PROVE  Stored(p)'
    <2>1. UNCHANGED <<up, sent, req>>
      BY <1>5 DEF Refresh, Select, Test, PassOver, Choose, ChooseNone, DoLock, Write, ReadEof,
                  handler, client, stream
    <2>2. \A t \in Servers : spc[t] = "unlock" => spc'[t] = "unlock"
      BY <1>5, <1>T DEF Refresh, Select, Test, PassOver, Choose, ChooseNone, DoLock, Write,
                        ReadEof, IsNext, Handling
    <2> QED BY <1>4, <2>1, <2>2
  <1>6. ASSUME NEW c \in Clients, Connect(c) \/ Pull(c) \/ Check(c) \/ Exit(c) \/ Kill(c)
        PROVE  Stored(p)'
    <2>1. UNCHANGED <<req, sent, spc>>
      BY <1>6 DEF Connect, Pull, Check, Exit, Kill, handler
    <2>2. InStream(p)' <=> InStream(p)
      BY <1>0, <1>6, QuestionsSent
    <2> QED BY <1>1, <1>S, <2>1, <2>2 DEF InHand
  <1>7. ASSUME NEW c \in Clients, SendPost(c) PROVE Stored(p)'
    <2>1. PICK q \in NewPosts :
            /\ InStream(p)' <=> InStream(p) \/ p = q
            /\ p # q => (p.n <= sent'[p.by] <=> p.n <= sent[p.by])
            /\ ~(q.n <= sent[q.by])
      BY <1>0, <1>7, PostSent
    <2>2. UNCHANGED <<req, spc>>
      BY <1>7 DEF SendPost, handler
    <2> QED BY <1>S, <2>1, <2>2 DEF Stored, InHand
  <1>8. ASSUME NEW c \in Clients, Hear(c) \/ LoseServer(c) PROVE Stored(p)'
    <2>1. UNCHANGED <<up, sent, req, spc>>
      BY <1>8 DEF Hear, LoseServer, handler, stream
    <2> QED BY <1>4, <2>1
  <1>9. ASSUME NEW r \in Lockable, OtherLocks(r) \/ OtherUnlocks(r) PROVE Stored(p)'
    <2>1. UNCHANGED <<up, sent, req, spc>>
      BY <1>9 DEF OtherLocks, OtherUnlocks, handler, client, stream
    <2> QED BY <1>4, <2>1
  <1>10. CASE UNCHANGED vars
    <2>1. UNCHANGED <<up, sent, req, spc>>
      BY <1>10 DEF vars, handler, client, stream
    <2> QED BY <1>4, <2>1
  <1> QED
    BY <1>2, <1>3, <1>5, <1>6, <1>7, <1>8, <1>9, <1>10 DEF Next, ServerStep, User

(* Steps that change neither the file nor a copy.                          *)
LEMMA BoardKeeps ==
  ASSUME BoardInv, UNCHANGED <<file, all>>,
         \A p \in NewPosts : Stored(p) => Stored(p)'
  PROVE  BoardInv'
  <1>1. /\ \A r, q \in Records : file'[r] = file'[q] /\ file'[r] # Empty => r = q
        /\ \A s \in Servers, r, q \in Records : all'[s][q] = file'[r] /\ file'[r] # Empty => q = r
    BY DEF BoardInv
  <1>2. \A p \in NewPosts, r \in Records : file'[r] = p => Stored(p)'
    BY DEF BoardInv
  <1>3. \A p \in NewPosts, r \in Records, s \in Servers : all'[s][r] = p => Stored(p)'
    BY DEF BoardInv
  <1> QED BY <1>1, <1>2, <1>3 DEF BoardInv

(* A server that writes a post has it in hand, and nobody else has it.     *)
LEMMA WriteFacts ==
  ASSUME IInv, NEW s \in Servers, Write(s)
  PROVE  \E p \in NewPosts :
           /\ p = req[s].msg.post /\ p.by = req[s].client /\ pos[s] \in Records
           /\ file' = [file EXCEPT ![pos[s]] = p]
           /\ offset' = [offset EXCEPT ![s] = 0]
           /\ UNCHANGED <<all, ready, req, server>>
           /\ ~Stored(p) /\ Stored(p)'
  <1>0. TypeOK /\ ControlInv /\ ConnInv /\ PostInv
    BY DEF IInv
  <1>1. PICK p \in NewPosts : p = req[s].msg.post
    BY <1>0, ReqFacts DEF Write, ControlInv
  <1>2. /\ pos[s] \in Records /\ spc[s] = "write"
        /\ file' = [file EXCEPT ![pos[s]] = p] /\ offset' = [offset EXCEPT ![s] = 0]
        /\ UNCHANGED <<all, ready, req, server, up, sent>>
    BY <1>0, <1>1 DEF Write, TypeOK, handler, client, stream
  <1>3. spc'[s] = "unlock"
    BY <1>0 DEF Write, TypeOK
  <1>4. InHand(s, p)
    BY <1>1 DEF InHand
  <1>5. \A t \in Servers : InHand(t, p) => req[t].client = p.by /\ p.n <= sent[p.by]
    BY <1>0 DEF PostInv, PostOf
  <1>6. ~InStream(p)
    BY <1>0, <1>4 DEF PostInv, PostOf
  <1>7. \A t \in Servers : InHand(t, p) => t = s
    <2>1. p.by \in Clients
      BY PostFacts
    <2>2. \A t \in Servers : InHand(t, p) => server[p.by] = t
      BY <1>0, <1>5, <2>1 DEF ConnInv
    <2> QED BY <1>4, <2>2
  <1>8. Stored(p)'
    <2>1. p.n <= sent'[p.by] /\ ~InStream(p)'
      BY <1>2, <1>4, <1>5, <1>6 DEF InStream
    <2>2. \A t \in Servers : InHand(t, p)' => spc'[t] = "unlock"
      BY <1>2, <1>3, <1>7 DEF InHand
    <2> QED BY <2>1, <2>2 DEF Stored
  <1>9. ~Stored(p)
    BY <1>2, <1>4 DEF Stored
  <1> QED BY <1>1, <1>2, <1>4, <1>5, <1>8, <1>9

LEMMA BoardNext == IInv /\ [Next]_vars => BoardInv'
  <1> SUFFICES ASSUME IInv, [Next]_vars PROVE BoardInv'
    OBVIOUS
  <1>0. TypeOK /\ BoardInv
    BY DEF IInv
  <1>T. /\ file \in [Records -> Posts \union {Empty}]
        /\ all \in [Servers -> [Records -> Posts \union {Empty}]]
        /\ Empty \notin NewPosts
    BY <1>0, PostFacts DEF TypeOK
  <1>S. \A p \in NewPosts : Stored(p) => Stored(p)'
    BY StoredNext
  <1>B. /\ \A r, q \in Records : file[r] = file[q] /\ file[r] # Empty => r = q
        /\ \A s \in Servers, r, q \in Records : all[s][q] = file[r] /\ file[r] # Empty => q = r
        /\ \A p \in NewPosts, r \in Records : file[r] = p => Stored(p)
        /\ \A p \in NewPosts, r \in Records, s \in Servers : all[s][r] = p => Stored(p)
    BY <1>0 DEF BoardInv
  <1>1. ASSUME NEW s \in Servers, Refresh(s) PROVE BoardInv'
    <2>1. file' = file /\ \A t \in Servers : all'[t] = file \/ all'[t] = all[t]
      BY <1>1, <1>T DEF Refresh, board
    <2>2. /\ \A r, q \in Records : file'[r] = file'[q] /\ file'[r] # Empty => r = q
          /\ \A t \in Servers, r, q \in Records :
               all'[t][q] = file'[r] /\ file'[r] # Empty => q = r
      BY <1>B, <2>1
    <2>3. \A p \in NewPosts, r \in Records : file'[r] = p => Stored(p)'
      BY <1>B, <1>S, <2>1
    <2>4. \A p \in NewPosts, r \in Records, t \in Servers : all'[t][r] = p => Stored(p)'
      BY <1>B, <1>S, <2>1
    <2> QED BY <2>2, <2>3, <2>4 DEF BoardInv
  <1>2. ASSUME NEW s \in Servers, Write(s) PROVE BoardInv'
    <2>1. PICK p \in NewPosts :
            /\ pos[s] \in Records /\ file' = [file EXCEPT ![pos[s]] = p] /\ all' = all
            /\ ~Stored(p) /\ Stored(p)'
      BY <1>2, WriteFacts
    <2>2. \A r \in Records : file[r] # p /\ \A t \in Servers : all[t][r] # p
      BY <1>B, <2>1
    <2>3. file'[pos[s]] = p /\ \A r \in Records \ {pos[s]} : file'[r] = file[r]
      BY <1>T, <2>1
    <2>4. \A r, q \in Records : file'[r] = file'[q] /\ file'[r] # Empty => r = q
      BY <1>B, <2>2, <2>3
    <2>5. \A t \in Servers, r, q \in Records :
            all'[t][q] = file'[r] /\ file'[r] # Empty => q = r
      BY <1>B, <2>1, <2>2, <2>3
    <2>6. \A o \in NewPosts, r \in Records : file'[r] = o => Stored(o)'
      BY <1>B, <1>S, <2>1, <2>3
    <2>7. \A o \in NewPosts, r \in Records, t \in Servers : all'[t][r] = o => Stored(o)'
      BY <1>B, <1>S, <2>1
    <2> QED BY <2>4, <2>5, <2>6, <2>7 DEF BoardInv
  <1>3. CASE UNCHANGED <<file, all>>
    BY <1>0, <1>3, <1>S, BoardKeeps
  <1> QED
    BY <1>1, <1>2, <1>3
    DEF Next, ServerStep, User, Select, Read, ReadExit, ReadEof, Test, Answer, PassOver, Choose,
        ChooseNone, DoLock, Unlock, Connect, Pull, Check, Exit, SendPost, Kill, Hear, LoseServer,
        OtherLocks, OtherUnlocks, vars, board, loop

(* The posts on the board are those of clients that are connected.         *)
LEMMA OwnFacts ==
  ASSUME TypeOK, BoardInv, NEW c \in Clients, NEW r \in Records, file[r].by = c
  PROVE  sent[c] # 0
  <1>1. file[r] \in NewPosts
    BY PostFacts, ConstFacts DEF TypeOK
  <1>2. Stored(file[r])
    BY <1>1 DEF BoardInv
  <1> QED BY <1>1, <1>2, PostFacts DEF Stored

LEMMA OwnNext == IInv /\ [Next]_vars => OwnInv'
  <1> SUFFICES ASSUME IInv, [Next]_vars PROVE OwnInv'
    OBVIOUS
  <1>0. TypeOK /\ ControlInv /\ ConnInv /\ StreamInv /\ OwnInv /\ BoardInv
    BY DEF IInv
  <1>T. /\ file \in [Records -> Posts \union {Empty}]
        /\ all \in [Servers -> [Records -> Posts \union {Empty}]]
        /\ req \in [Servers -> [client : Clients, msg : Messages] \union {NoReq}]
        /\ offset \in [Servers -> {0, RECORD_NUM}] /\ RECORD_NUM # 0
        /\ ready \in [Servers -> SUBSET Clients]
        /\ server \in [Clients -> Servers \union {Nobody}]
        /\ NoReq.client \notin Clients
    BY <1>0, ConstFacts, NoReqFacts DEF TypeOK
  <1>1. ASSUME NEW s \in Servers, Refresh(s) PROVE OwnInv'
    <2>1. /\ UNCHANGED <<file, ready, req, server>> /\ all'[s] = IF offset[s] = 0 THEN file ELSE all[s]
          /\ \A t \in Servers \ {s} : all'[t] = all[t] /\ offset'[t] = offset[t]
      BY <1>1, <1>T DEF Refresh, board, handler, client
    <2>2. \A c \in Clients, r \in Records :
            server[c] = s /\ file[r].by = c => all'[s][r] = file[r]
      BY <1>0, <1>T, <2>1 DEF OwnInv
    <2> QED BY <1>0, <2>1, <2>2 DEF OwnInv
  <1>2. ASSUME NEW s \in Servers, Select(s) PROVE OwnInv'
    <2>1. /\ UNCHANGED <<file, all, offset, req, server>> /\ offset[s] = RECORD_NUM
          /\ \A t \in Servers \ {s} : ready'[t] = ready[t]
      BY <1>0, <1>2, <1>T DEF Select, ControlInv, board, handler, client
    <2> QED BY <1>0, <2>1 DEF OwnInv
  <1>3. ASSUME NEW s \in Servers, NEW c \in Clients, Read(s, c) PROVE OwnInv'
    <2>1. c \in ready[s] /\ req' = [req EXCEPT ![s] = [client |-> c, msg |-> up[c][1]]]
      BY <1>0, <1>3, ReadFacts
    <2>2. /\ UNCHANGED <<file, all, offset, server>>
          /\ \A t \in Servers : ready'[t] \subseteq ready[t]
      BY <1>3, <1>T DEF Read, board, client
    <2>3. req'[s].client = c /\ \A t \in Servers \ {s} : req'[t] = req[t]
      BY <1>T, <2>1
    <2> QED BY <1>0, <2>1, <2>2, <2>3 DEF OwnInv
  <1>4. ASSUME NEW s \in Servers,
               (\E c \in Clients : ReadExit(s, c)) \/ Answer(s) \/ Unlock(s)
        PROVE  OwnInv'
    <2>1. /\ UNCHANGED <<file, all, offset, server>> /\ req' = [req EXCEPT ![s] = NoReq]
          /\ \E R \in SUBSET ready[s] : ready' = [ready EXCEPT ![s] = R]
      <3>1. CASE Answer(s) \/ Unlock(s)
        <4>1. ready' = [ready EXCEPT ![s] = ready[s]]
          BY <3>1 DEF Answer, Unlock, Proceed
        <4> QED BY <3>1, <4>1 DEF Answer, Unlock, Proceed, board, client
      <3>2. CASE \E c \in Clients : ReadExit(s, c)
        <4>1. PICK c \in Clients : ReadExit(s, c)
          BY <3>2
        <4>2. ready' = [ready EXCEPT ![s] = ready[s] \ {c}]
          BY <4>1 DEF ReadExit, Proceed
        <4> QED BY <4>1, <4>2 DEF ReadExit, Proceed, board, client
      <3> QED BY <1>4, <3>1, <3>2
    <2>3. \A t \in Servers : ready'[t] \subseteq ready[t]
      BY <1>T, <2>1
    <2>2. req'[s].client \notin Clients /\ \A t \in Servers \ {s} : req'[t] = req[t]
      BY <1>T, <2>1
    <2> QED BY <1>0, <2>1, <2>2, <2>3 DEF OwnInv
  <1>5. ASSUME NEW s \in Servers, Write(s) PROVE OwnInv'
    <2>1. PICK p \in NewPosts :
            /\ p = req[s].msg.post /\ p.by = req[s].client /\ pos[s] \in Records
            /\ file' = [file EXCEPT ![pos[s]] = p]
            /\ offset' = [offset EXCEPT ![s] = 0]
            /\ UNCHANGED <<all, ready, req, server>>
      BY <1>5, WriteFacts
    <2>2. /\ file'[pos[s]].by = req[s].client
          /\ \A r \in Records \ {pos[s]} : file'[r] = file[r]
      BY <1>T, <2>1
    <2>3. offset'[s] # RECORD_NUM /\ \A t \in Servers \ {s} : offset'[t] = offset[t]
      BY <1>T, <2>1
    <2>4. req[s].msg.op \notin Question /\ req[s].client \in Clients
      BY <1>0, <1>5 DEF Write, ControlInv, Question
    <2>5. server[req[s].client] = s /\ req[s].client \notin ready[s]
      BY <1>0, <2>4 DEF ConnInv
    <2>6. ASSUME NEW t \in Servers, NEW c \in Clients, NEW r \in Records,
                 server[c] = t, file'[r].by = c,
                 \/ offset'[t] = RECORD_NUM \/ c \in ready[t]
                 \/ req[t].client = c /\ req[t].msg.op \in Question
          PROVE  all[t][r] = file'[r]
      <3>1. CASE r = pos[s]
        BY <2>2, <2>3, <2>4, <2>5, <2>6, <3>1
      <3>2. CASE r # pos[s]
        BY <1>0, <2>2, <2>3, <2>6, <3>2 DEF OwnInv
      <3> QED BY <3>1, <3>2
    <2> QED BY <2>1, <2>6 DEF OwnInv
  <1>6. ASSUME NEW c \in Clients, Connect(c) PROVE OwnInv'
    <2>1. /\ UNCHANGED <<file, all, offset, ready, req>> /\ cpc[c] = "off"
          /\ \A d \in Clients \ {c} : server'[d] = server[d]
      BY <1>6, <1>T DEF Connect, board, loop, handler
    <2>2. \A r \in Records : file[r].by # c
      BY <1>0, <2>1, OwnFacts DEF ConnInv
    <2> QED BY <1>0, <2>1, <2>2 DEF OwnInv
  <1>7. CASE UNCHANGED <<file, all, offset, ready, req, server>>
    BY <1>0, <1>7 DEF OwnInv
  <1> QED
    BY <1>1, <1>2, <1>3, <1>4, <1>5, <1>6, <1>7
    DEF Next, ServerStep, User, ReadEof, Test, PassOver, Choose, ChooseNone, DoLock,
        Pull, Check, Exit, SendPost, Kill, Hear, LoseServer, OtherLocks, OtherUnlocks,
        vars, board, loop, handler, client

-----------------------------------------------------------------------------
(* The invariant is inductive.                                             *)
LEMMA BoardStepInv == IInv /\ [Next]_vars => IInv'
  BY TypeNext, ControlNext, LocksNext, ConnNext, StreamNext, TalkNext, PostNext, LoopNext,
     BoardNext, OwnNext DEF IInv

(* Every reachable state satisfies IInv: however the messages of clients   *)
(* are joined in their streams, whatever select finds, and whenever        *)
(* another process locks a record between two system calls of a handler.   *)
THEOREM BoardInductive == Spec => []IInv
  BY InitInv, BoardStepInv, PTL DEF Spec

-----------------------------------------------------------------------------
(* The theorems.                                                           *)

(* Every variable keeps the range of the C object or of the part of the    *)
(* network it stands for: i of the loops of server.c stays below           *)
(* 2 * RECORD_NUM, and pos names a record.                                 *)
THEOREM BoardTypeOK == Spec => []TypeOK
  <1>1. IInv => TypeOK
    BY DEF IInv
  <1> QED BY BoardInductive, <1>1, PTL

(* No server keeps a record locked when its handler of a post is done      *)
(* (dolock, server.c:214 and 246), or locks another one than it writes.    *)
THEOREM BoardLocksForPosts == Spec => []LocksForPosts
  <1>1. IInv => LocksForPosts
    BY DEF IInv
  <1> QED BY BoardInductive, <1>1, PTL

LEMMA WayFacts ==
  ASSUME TypeOK, StreamInv, NEW p \in NewPosts
  PROVE  OnItsWay(p) <=> InStream(p) \/ \E s \in Servers : InHand(s, p)
  <1>T. p.by \in Clients /\ up[p.by] \in Seq(Messages)
    BY PostFacts DEF TypeOK
  <1>1. ASSUME NEW k \in 1..Len(up[p.by]), up[p.by][k].post = p PROVE InStream(p)
    <2>1. up[p.by][k].op = "post"
      BY <1>T, <1>1, MessageFacts
    <2>2. k = 1
      BY <1>T, <2>1 DEF StreamInv, StreamOf
    <2>3. up[p.by] # << >>
      BY <1>T, EmptySeq
    <2> QED BY <1>1, <2>2, <2>3 DEF InStream
  <1>2. ASSUME InStream(p) PROVE \E k \in 1..Len(up[p.by]) : up[p.by][k].post = p
    <2>1. 1 \in 1..Len(up[p.by])
      BY <1>T, <1>2, EmptySeq DEF InStream
    <2> QED BY <1>2, <2>1 DEF InStream
  <1> QED BY <1>1, <1>2 DEF OnItsWay, InHand

(* However the messages of a client are joined in the stream (read,        *)
(* server.c:142), each post it sent is stored and logged exactly once.     *)
THEOREM BoardEachPostOnce == Spec => []EachPostOnce
  <1>1. IInv => EachPostOnce
    <2> SUFFICES ASSUME IInv, NEW p \in NewPosts
                 PROVE  logged[p] = IF p.n <= sent[p.by] /\ ~OnItsWay(p) THEN 1 ELSE 0
      BY DEF EachPostOnce
    <2>1. OnItsWay(p) <=> InStream(p) \/ \E s \in Servers : InHand(s, p)
      BY WayFacts DEF IInv
    <2>2. logged[p] = IF /\ p.n <= sent[p.by] /\ ~InStream(p)
                         /\ \A s \in Servers : ~InHand(s, p)
                        THEN 1 ELSE 0
      BY DEF IInv, PostInv, PostOf
    <2> QED BY <2>1, <2>2
  <1> QED BY BoardInductive, <1>1, PTL

(* The step that answers a pull.                                           *)
LEMMA PullAnsweredFacts ==
  ASSUME IInv, [Next]_vars, NEW s \in Servers, PullAnswered(s)
  PROVE  /\ req[s].client \in Clients /\ req[s].msg.op \in Question /\ at[s] = RECORD_NUM
         /\ down'[req[s].client].posts = Shown(s)
  <1>0. TypeOK /\ ControlInv
    BY DEF IInv
  <1>T. /\ req \in [Servers -> [client : Clients, msg : Messages] \union {NoReq}]
        /\ down \in [Clients -> [kind : {"none", "yes", "no", "board"}, posts : SUBSET Posts]]
        /\ NoReq.client = Nobody
    BY <1>0, NoReqFacts DEF TypeOK
  <1>1. /\ req[s].client # Nobody /\ req[s].msg.op = "pull" /\ req'[s] = NoReq
        /\ req[s] # NoReq /\ req[s].client \in Clients
    BY <1>0, <1>T, ReqFacts DEF PullAnswered
  <1>2. Answer(s)
    <2>1. ASSUME NEW t \in Servers, NEW c \in Clients, Read(t, c) PROVE FALSE
      <3>1. /\ req[t] = NoReq /\ up[c][1] \in Messages
            /\ req' = [req EXCEPT ![t] = [client |-> c, msg |-> up[c][1]]]
        BY <2>1, ReadFacts DEF IInv
      <3> QED BY <1>1, <1>T, <3>1
    <2>2. ASSUME NEW t \in Servers, NEW c \in Clients, ReadExit(t, c) PROVE FALSE
      <3>1. req[t] = NoReq /\ req' = [req EXCEPT ![t] = NoReq]
        BY <1>0, <2>2 DEF ReadExit, IsNext, Proceed, ControlInv
      <3> QED BY <1>1, <1>T, <3>1
    <2>3. ASSUME NEW t \in Servers, Unlock(t) PROVE FALSE
      <3>1. req[t].msg.op = "post" /\ req' = [req EXCEPT ![t] = NoReq]
        BY <1>0, <2>3 DEF Unlock, Proceed, ControlInv
      <3> QED BY <1>1, <1>T, <3>1
    <2>4. ASSUME NEW t \in Servers, Answer(t) PROVE Answer(s)
      <3>1. req' = [req EXCEPT ![t] = NoReq]
        BY <2>4 DEF Answer, Proceed
      <3> QED BY <1>1, <1>T, <2>4, <3>1
    <2>5. req' # req
      BY <1>1
    <2> QED
      BY <2>1, <2>2, <2>3, <2>4, <2>5
      DEF Next, ServerStep, User, Refresh, Select, ReadEof, Test, PassOver, Choose, ChooseNone,
          DoLock, Write, Connect, Pull, Check, Exit, SendPost, Kill, Hear, LoseServer,
          OtherLocks, OtherUnlocks, vars, handler
  <1>3. at[s] = RECORD_NUM /\ down' = [down EXCEPT ![req[s].client] = AnswerTo(s)]
    BY <1>2 DEF Answer
  <1>4. AnswerTo(s).posts = Shown(s)
    BY <1>1 DEF AnswerTo, Reply
  <1> QED BY <1>1, <1>3, <1>4, <1>T DEF Question

(* pull never shows the post in a record that was locked while all records *)
(* were tested (is_locked, server.c:162-171): the copy has no post twice.  *)
THEOREM BoardPullHidesLocked == Spec => PullHidesLocked
  <1>1. ASSUME IInv, [Next]_vars, NEW s \in Servers, PullAnswered(s),
               NEW r \in steady[s], IsLocked(s, r)
        PROVE  file[r] \notin down'[req[s].client].posts
    <2>1. /\ req[s].msg.op \in Question /\ at[s] = RECORD_NUM
          /\ down'[req[s].client].posts = Shown(s)
      BY <1>1, PullAnsweredFacts
    <2>2. r \in Records /\ r < at[s] /\ free[s] \subseteq Records
      BY <1>1, <2>1, ConstFacts DEF IInv, TypeOK
    <2>3. r \notin free[s]
      BY <1>1, <2>1, <2>2 DEF IInv, LoopInv, LoopOf
    <2>4. \A q \in free[s] : all[s][q] = file[r] => file[r] = Empty
      BY <1>1, <2>2, <2>3 DEF IInv, BoardInv
    <2> QED BY <2>1, <2>4 DEF Shown
  <1>2. IInv /\ [Next]_vars =>
          [\A s \in Servers : PullAnswered(s) =>
             \A r \in steady[s] : IsLocked(s, r) =>
               file[r] \notin down'[req[s].client].posts]_vars
    BY <1>1
  <1> QED BY BoardInductive, <1>2, PTL DEF Spec, PullHidesLocked

(* Although a pull is answered from the copy made before select (server.c: *)
(* 105), a client sees its own posts that are still on the board.          *)
THEOREM BoardReadsOwnPosts == Spec => ReadsOwnPosts
  <1>1. ASSUME IInv, [Next]_vars, NEW s \in Servers, PullAnswered(s),
               NEW r \in steady[s], lock[r] = Nobody, file[r].by = req[s].client
        PROVE  file[r] \in down'[req[s].client].posts
    <2>1. /\ req[s].client \in Clients /\ req[s].msg.op \in Question /\ at[s] = RECORD_NUM
          /\ down'[req[s].client].posts = Shown(s)
      BY <1>1, PullAnsweredFacts
    <2>2. r \in Records /\ r < at[s]
      BY <1>1, <2>1, ConstFacts DEF IInv, TypeOK
    <2>3. r \in free[s]
      BY <1>1, <2>1, <2>2 DEF IInv, LoopInv, LoopOf, IsLocked
    <2>4. server[req[s].client] = s
      BY <1>1, <2>1 DEF IInv, ConnInv
    <2>5. all[s][r] = file[r]
      BY <1>1, <2>1, <2>2, <2>4 DEF IInv, OwnInv
    <2>6. file[r] # Empty
      BY <1>1, <2>1, PostFacts, ConstFacts
    <2> QED BY <2>1, <2>3, <2>5, <2>6 DEF Shown
  <1>2. IInv /\ [Next]_vars =>
          [\A s \in Servers : PullAnswered(s) =>
             \A r \in steady[s] : lock[r] = Nobody /\ file[r].by = req[s].client =>
               file[r] \in down'[req[s].client].posts]_vars
    BY <1>1
  <1> QED BY BoardInductive, <1>2, PTL DEF Spec, ReadsOwnPosts

LEMMA ModSmall ==
  ASSUME NEW j \in 0..RECORD_NUM - 1
  PROVE  j % RECORD_NUM = j
  BY ConstFacts

(* Every record is reached in one round, from whatever record it starts.   *)
LEMMA RoundReaches ==
  ASSUME NEW a \in Nat, NEW r \in Records
  PROVE  \E j \in 0..RECORD_NUM - 1 : (a + (j % RECORD_NUM)) % RECORD_NUM = r
  <1> DEFINE q == a \div RECORD_NUM
  <1> DEFINE m == a % RECORD_NUM
  <1>1. /\ q \in Nat /\ m \in 0..RECORD_NUM - 1 /\ a = RECORD_NUM * q + m
        /\ r \in 0..RECORD_NUM - 1 /\ RECORD_NUM \in Nat \ {0}
    BY ConstFacts DEF Records
  <1>2. \A j \in 0..RECORD_NUM - 1 : j % RECORD_NUM = j
    BY ModSmall
  <1> HIDE DEF q, m
  <1>3. CASE m <= r
    <2>1. r - m \in 0..RECORD_NUM - 1 /\ a + (r - m) = RECORD_NUM * q + r
      BY <1>1, <1>3
    <2>2. (a + (r - m)) % RECORD_NUM = r
      BY <1>1, <2>1, ModUnique
    <2> QED BY <1>2, <2>1, <2>2
  <1>4. CASE m > r
    <2>1. /\ r + RECORD_NUM - m \in 0..RECORD_NUM - 1
          /\ a + (r + RECORD_NUM - m) = RECORD_NUM * q + RECORD_NUM + r
      BY <1>1, <1>4
    <2>2. RECORD_NUM * (q + 1) = RECORD_NUM * q + RECORD_NUM
      BY <1>1
    <2>3. (a + (r + RECORD_NUM - m)) % RECORD_NUM = r
      BY <1>1, <2>1, <2>2, ModUnique
    <2> QED BY <1>2, <2>1, <2>3
  <1> QED BY <1>1, <1>3, <1>4

(* The search of a post goes from the record behind the last post (last,   *)
(* server.c:190-228) to the first one not locked; what is passed over was  *)
(* locked, and so was every record when nothing is found in two rounds.    *)
THEOREM BoardPassesOverLocked == Spec => PassesOverLocked
  <1>T. ASSUME IInv, NEW s \in Servers
        PROVE  /\ last \in [Servers -> Nat \union {-1}] /\ last[s] + 1 \in Nat /\ last[s] \in Int
               /\ at[s] \in Nat /\ pos \in [Servers -> Records]
               /\ spc \in [Servers -> {"refresh", "select", "loop", "scan", "lock", "write",
                                       "unlock", "aborted"}]
               /\ steady[s] \subseteq Records
               /\ RECORD_NUM \in Nat \ {0}
    BY <1>T, ConstFacts DEF IInv, TypeOK
  <1>1. ASSUME IInv, [Next]_vars, NEW s \in Servers, last'[s] # last[s]
        PROVE  /\ pos'[s] = last'[s] % RECORD_NUM
               /\ \A i \in last[s]+1..last'[s]-1 :
                    i % RECORD_NUM \in steady[s] => IsLocked(s, i % RECORD_NUM)
    <2>1. Choose(s)
      <3>1. ASSUME NEW t \in Servers, Choose(t) PROVE Choose(s)
        BY <1>1, <1>T, <3>1 DEF Choose
      <3> QED
        BY <1>1, <3>1
        DEF Next, ServerStep, User, Refresh, Select, Read, ReadExit, ReadEof, Test, Answer, PassOver,
            ChooseNone, DoLock, Write, Unlock, Connect, Pull, Check, Exit, SendPost, Kill, Hear,
            LoseServer, OtherLocks, OtherUnlocks, vars, handler
    <2>2. /\ spc[s] = "scan" /\ req[s].msg.op = "post"
          /\ last'[s] = last[s] + 1 + (at[s] % RECORD_NUM)
          /\ pos'[s] = last'[s] % RECORD_NUM
      BY <1>1, <1>T, <2>1 DEF Choose, Handling, Candidate, Target
    <2>3. \A j \in 0..at[s] - 1 : Passed(s, j) \in steady[s] => IsLocked(s, Passed(s, j))
      BY <1>1, <2>2 DEF IInv, LoopInv, LoopOf
    <2>4. ASSUME NEW i \in last[s]+1..last'[s]-1
          PROVE  \E j \in 0..at[s] - 1 : Passed(s, j) = i % RECORD_NUM
      <3>1. /\ at[s] % RECORD_NUM \in Nat /\ at[s] % RECORD_NUM < RECORD_NUM
            /\ at[s] % RECORD_NUM <= at[s]
        BY <1>1, <1>T, ModRange, ConstFacts
      <3>2. /\ i - last[s] - 1 \in 0..at[s] - 1 /\ i - last[s] - 1 < RECORD_NUM
            /\ last[s] + 1 + (i - last[s] - 1) = i
        BY <1>1, <1>T, <2>2, <2>4, <3>1
      <3>3. (i - last[s] - 1) % RECORD_NUM = i - last[s] - 1
        <4>1. i - last[s] - 1 \in 0..RECORD_NUM - 1
          BY <1>1, <1>T, <3>2
        <4> QED BY <4>1, ModSmall
      <3> QED BY <3>2, <3>3 DEF Passed
    <2> QED BY <2>2, <2>3, <2>4
  <1>2. ASSUME IInv, [Next]_vars, NEW s \in Servers, spc[s] = "scan", spc'[s] = "write",
               NEW r \in steady[s]
        PROVE  IsLocked(s, r)
    <2>1. ChooseNone(s)
      <3>1. ASSUME NEW t \in Servers, DoLock(t) PROVE FALSE
        BY <1>2, <1>T, <3>1 DEF DoLock
      <3>2. ASSUME NEW t \in Servers, ChooseNone(t) PROVE ChooseNone(s)
        BY <1>2, <1>T, <3>2 DEF ChooseNone
      <3>3. ASSUME NEW t \in Servers,
                   \/ Refresh(t) \/ Select(t) \/ Answer(t) \/ Choose(t) \/ Write(t) \/ Unlock(t)
                   \/ \E c \in Clients : Read(t, c) \/ ReadExit(t, c) \/ ReadEof(t, c)
            PROVE  FALSE
        <4>1. ASSUME NEW l, l # "write", spc' = [spc EXCEPT ![t] = l] PROVE FALSE
          BY <1>2, <1>T, <4>1
        <4>2. ASSUME Select(t) \/ Answer(t) \/ Unlock(t) \/ \E c \in Clients : ReadExit(t, c)
              PROVE  FALSE
          <5>1. \/ spc' = [spc EXCEPT ![t] = "refresh"]
                \/ spc' = [spc EXCEPT ![t] = "loop"]
            BY <4>2 DEF Select, Answer, Unlock, ReadExit, Proceed
          <5> QED BY <4>1, <5>1
        <4>3. ASSUME \/ Refresh(t) \/ Choose(t) \/ Write(t)
                     \/ \E c \in Clients : Read(t, c) \/ ReadEof(t, c)
              PROVE  FALSE
          BY <4>1, <4>3 DEF Refresh, Choose, Write, Read, ReadEof
        <4> QED BY <3>3, <4>2, <4>3
      <3>4. spc' # spc
        BY <1>2
      <3> QED
        BY <1>2, <3>1, <3>2, <3>3, <3>4
        DEF Next, ServerStep, User, Test, PassOver, Connect, Pull, Check, Exit, SendPost, Kill,
            Hear, LoseServer, OtherLocks, OtherUnlocks, vars
    <2>2. req[s].msg.op = "post" /\ at[s] = 2 * RECORD_NUM
      BY <2>1 DEF ChooseNone, Handling
    <2>3. \A j \in 0..at[s] - 1 : Passed(s, j) \in steady[s] => IsLocked(s, Passed(s, j))
      BY <1>2, <2>2 DEF IInv, LoopInv, LoopOf
    <2>4. r \in Records /\ last[s] + 1 \in Nat
      BY <1>2, <1>T
    <2>5. PICK j \in 0..RECORD_NUM - 1 : Passed(s, j) = r
      BY <2>4, RoundReaches DEF Passed
    <2>6. j \in 0..at[s] - 1
      BY <1>2, <1>T, <2>2
    <2> QED BY <1>2, <2>3, <2>5, <2>6
  <1>3. IInv /\ [Next]_vars =>
          [\A s \in Servers :
             /\ last'[s] # last[s] =>
                  /\ pos'[s] = last'[s] % RECORD_NUM
                  /\ \A i \in last[s]+1..last'[s]-1 :
                       i % RECORD_NUM \in steady[s] => IsLocked(s, i % RECORD_NUM)
             /\ spc[s] = "scan" /\ spc'[s] = "write" =>
                  \A r \in steady[s] : IsLocked(s, r)]_vars
    BY <1>1, <1>2
  <1> QED BY BoardInductive, <1>3, PTL DEF Spec, PassesOverLocked

(* Streams whose end is behind an exit.                                    *)
LEMMA ExitNext == IInv /\ ExitInv /\ [Next]_vars => ExitInv'
  <1> SUFFICES ASSUME IInv, ExitInv, [Next]_vars, Paced, kills' = 0
               PROVE  /\ \A s \in Servers : spc'[s] # "aborted"
                      /\ \A c \in Clients : \A k \in 1..Len(up'[c]) :
                           up'[c][k].op = "eof" => k = 2 /\ up'[c][1].op = "exit"
    BY DEF ExitInv
  <1>0. TypeOK /\ ControlInv /\ ConnInv /\ StreamInv
    BY DEF IInv
  <1>T. /\ up \in [Clients -> Seq(Messages)] /\ kills \in Nat
        /\ spc \in [Servers -> {"refresh", "select", "loop", "scan", "lock", "write",
                                "unlock", "aborted"}]
    BY <1>0, ConstFacts DEF TypeOK
  <1>K. kills = 0
    <2>1. ASSUME NEW c \in Clients, Kill(c) PROVE FALSE
      BY <1>T, <2>1 DEF Kill
    <2> QED
      BY <2>1
      DEF Next, ServerStep, User, Refresh, Select, Read, ReadExit, ReadEof, Test, Answer, PassOver,
          Choose, ChooseNone, DoLock, Write, Unlock, Connect, Pull, Check, Exit, SendPost, Hear,
          LoseServer, OtherLocks, OtherUnlocks, vars, client
  <1>I. /\ \A s \in Servers : spc[s] # "aborted"
        /\ \A c \in Clients : \A k \in 1..Len(up[c]) :
             up[c][k].op = "eof" => k = 2 /\ up[c][1].op = "exit"
    BY <1>K DEF ExitInv
  <1>E. ASSUME NEW s \in Servers, NEW c \in Clients, ReadEof(s, c) PROVE FALSE
    <2>1. up[c] # << >> /\ up[c][1].op = "eof"
      BY <1>0, <1>E DEF ReadEof, IsNext, ConnInv
    <2>2. 1 \in 1..Len(up[c])
      BY <1>T, <2>1, EmptySeq
    <2> QED BY <1>I, <2>1, <2>2
  <1>1. \A s \in Servers : spc'[s] # "aborted"
    <2>1. CASE spc' = spc
      BY <1>I, <2>1
    <2>2. ASSUME NEW s \in Servers, NEW l, l # "aborted", spc' = [spc EXCEPT ![s] = l]
          PROVE  \A t \in Servers : spc'[t] # "aborted"
      BY <1>I, <1>T, <2>2
    <2>3. ASSUME NEW s \in Servers, ServerStep(s)
          PROVE  spc' = spc \/ \E l : l # "aborted" /\ spc' = [spc EXCEPT ![s] = l]
      BY <1>E, <2>3
      DEF ServerStep, Refresh, Select, Read, ReadExit, Test, Answer, PassOver, Choose, ChooseNone,
          DoLock, Write, Unlock, Proceed
    <2> QED
      BY <2>1, <2>2, <2>3
      DEF Next, User, Connect, Pull, Check, Exit, SendPost, Kill, Hear, LoseServer,
          OtherLocks, OtherUnlocks, vars
  <1>2. ASSUME NEW c \in Clients, up' = [up EXCEPT ![c] = up'[c]],
               \A k \in 1..Len(up'[c]) : up'[c][k].op = "eof" => k = 2 /\ up'[c][1].op = "exit"
        PROVE  \A d \in Clients : \A k \in 1..Len(up'[d]) :
                 up'[d][k].op = "eof" => k = 2 /\ up'[d][1].op = "exit"
    <2>1. \A d \in Clients \ {c} : up'[d] = up[d]
      BY <1>T, <1>2
    <2> QED BY <1>2, <1>I, <2>1
  <1>3. ASSUME NEW s \in Servers, NEW c \in Clients, Read(s, c)
        PROVE  \A d \in Clients : \A k \in 1..Len(up'[d]) :
                 up'[d][k].op = "eof" => k = 2 /\ up'[d][1].op = "exit"
    <2>1. /\ up' = [up EXCEPT ![c] = up'[c]] /\ up[c][1].op # "exit" /\ up'[c] \in Seq(Messages)
          /\ Len(up[c]) \in Nat
      BY <1>0, <1>3, ReadFacts
    <2>2. PICK n \in 1..Len(up[c]) : Taken(c, n)
      BY <1>0, <1>3, ReadFacts
    <2>3. ASSUME NEW k \in 1..Len(up'[c]) PROVE up'[c][k].op # "eof"
      <3>1. up'[c][k] = up[c][k + n] /\ k + n \in 1..Len(up[c])
        BY <2>1, <2>2, <2>3 DEF Taken
      <3> QED BY <1>I, <2>1, <3>1
    <2> QED BY <1>2, <2>1, <2>3
  <1>4. ASSUME NEW s \in Servers, NEW c \in Clients, ReadExit(s, c)
        PROVE  \A d \in Clients : \A k \in 1..Len(up'[d]) :
                 up'[d][k].op = "eof" => k = 2 /\ up'[d][1].op = "exit"
    <2>1. up' = [up EXCEPT ![c] = << >>]
      BY <1>4 DEF ReadExit
    <2>2. up' = [up EXCEPT ![c] = up'[c]] /\ Len(up'[c]) = 0
      BY <1>T, <2>1, EmptySeq
    <2> QED BY <1>2, <2>2
  <1>5. ASSUME NEW c \in Clients, NEW m \in Messages, Send(c, <<m>>), m.op # "eof"
        PROVE  \A d \in Clients : \A k \in 1..Len(up'[d]) :
                 up'[d][k].op = "eof" => k = 2 /\ up'[d][1].op = "exit"
    <2>1. /\ up' = [up EXCEPT ![c] = up'[c]] /\ Len(up'[c]) = Len(up[c]) + 1
          /\ \A k \in 1..Len(up[c]) : up'[c][k] = up[c][k]
          /\ up'[c][Len(up[c]) + 1] = m /\ Len(up[c]) \in Nat
      BY <1>0, <1>5, <1>T, SendFacts
    <2>2. ASSUME NEW k \in 1..Len(up'[c]), up'[c][k].op = "eof"
          PROVE  k = 2 /\ up'[c][1].op = "exit"
      <3>1. k \in 1..Len(up[c])
        BY <1>5, <2>1, <2>2
      <3>2. k = 2 /\ up[c][1].op = "exit"
        BY <1>I, <2>1, <2>2, <3>1
      <3>3. 1 \in 1..Len(up[c])
        BY <2>1, <3>1
      <3> QED BY <2>1, <3>2, <3>3
    <2> QED BY <1>2, <2>1, <2>2
  <1>6. ASSUME NEW c \in Clients, Exit(c)
        PROVE  \A d \in Clients : \A k \in 1..Len(up'[d]) :
                 up'[d][k].op = "eof" => k = 2 /\ up'[d][1].op = "exit"
    <2>1. up[c] = << >> /\ Len(up[c]) = 0
      BY <1>6, EmptySeq DEF Exit, AtPrompt
    <2>2. /\ up' = [up EXCEPT ![c] = up'[c]] /\ Len(up'[c]) = 2
          /\ up'[c][1] = Plain("exit") /\ up'[c][2] = Plain("eof")
      BY <1>0, <1>6, <2>1, SendExitFacts DEF Exit
    <2>3. \A k \in 1..Len(up'[c]) : k = 2 \/ up'[c][k].op = "exit"
      BY <2>2, MessageFacts
    <2> QED BY <1>2, <2>2, <2>3, MessageFacts
  <1>7. ASSUME NEW c \in Clients, Connect(c) \/ Pull(c) \/ Check(c) \/ SendPost(c)
        PROVE  \A d \in Clients : \A k \in 1..Len(up'[d]) :
                 up'[d][k].op = "eof" => k = 2 /\ up'[d][1].op = "exit"
    <2>1. CASE SendPost(c)
      <3>1. sent[c] + 1 \in 1..MaxPosts
        BY <1>0, <2>1, ConstFacts DEF SendPost, TypeOK
      <3>2. Send(c, <<Msg("post", Post(c, sent[c] + 1))>>) /\ Post(c, sent[c] + 1) \in NewPosts
        BY <2>1, <3>1, PostFacts DEF SendPost
      <3> QED BY <1>5, <3>2, MessageFacts
    <2>2. CASE Connect(c) \/ Pull(c) \/ Check(c)
      <3>1. PICK op \in {"pull", "check"} : Send(c, <<Plain(op)>>)
        BY <2>2 DEF Connect, Pull, Check
      <3> QED BY <1>5, <3>1, MessageFacts
    <2> QED BY <1>7, <2>1, <2>2
  <1>8. ASSUME NEW c \in Clients, Kill(c) PROVE FALSE
    BY <1>8, <1>K DEF Kill
  <1>9. ASSUME up' = up
        PROVE  \A c \in Clients : \A k \in 1..Len(up'[c]) :
                 up'[c][k].op = "eof" => k = 2 /\ up'[c][1].op = "exit"
    BY <1>I, <1>9
  <1>10. \A c \in Clients : \A k \in 1..Len(up'[c]) :
           up'[c][k].op = "eof" => k = 2 /\ up'[c][1].op = "exit"
    BY <1>E, <1>3, <1>4, <1>6, <1>7, <1>8, <1>9
    DEF Next, ServerStep, User, Refresh, Select, Test, Answer, PassOver, Choose, ChooseNone,
        DoLock, Write, Unlock, Hear, LoseServer, OtherLocks, OtherUnlocks, vars, stream
  <1> QED BY <1>1, <1>10

LEMMA InitExit == Init => ExitInv
  <1> SUFFICES ASSUME Init PROVE ExitInv
    OBVIOUS
  <1>1. /\ \A s \in Servers : spc[s] = "refresh"
        /\ \A c \in Clients : up[c] = << >> /\ Len(up[c]) = 0
    BY EmptySeq DEF Init
  <1> QED BY <1>1 DEF ExitInv

(* When users wait for their posts to be read, an exit is read alone, and  *)
(* its connection is closed before the end of the stream is read, where    *)
(* server.c:146 would call free with an entry of the table.                *)
THEOREM BoardSurvivesExit ==
  ASSUME Paced
  PROVE  Spec => []SurvivesExit
  <1>1. ExitInv => SurvivesExit
    BY DEF ExitInv, SurvivesExit
  <1> QED BY BoardInductive, InitExit, ExitNext, <1>1, PTL DEF Spec
=============================================================================
