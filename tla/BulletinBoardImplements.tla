----------------------- MODULE BulletinBoardImplements -----------------------
(***************************************************************************)
(* One server of the bulletin board implements Board, for every number of  *)
(* clients, of records and of posts, as long as its users wait until their *)
(* posts have been read and nobody kills a client.                         *)
(***************************************************************************)
EXTENDS BulletinBoardProofs

OneServer == NServers = 1 /\ Paced /\ MaxKills = 0

-----------------------------------------------------------------------------
(* What is needed besides the invariant of BulletinBoardProofs.            *)

(* A client that waits asked for what its stream, or its server, holds.    *)
AskInv ==
  /\ \A c \in Clients : \A k \in 1..Len(up[c]) :
       up[c][k].op \in Question => cpc[c] = up[c][k].op
  /\ \A s \in Servers, c \in Clients :
       req[s].client = c /\ req[s].msg.op \in Question => cpc[c] = req[s].msg.op

(* The only server has the file before it when it waits for messages.      *)
CopyInv == \A s \in Servers : offset[s] = RECORD_NUM => all[s] = file

(* Posts are shown by the answers to pulls only.                           *)
ReplyInv == \A c \in Clients : down[c].kind # "board" => down[c].posts = {}

RefInv == IInv /\ ExitInv /\ AskInv /\ CopyInv /\ ReplyInv

LEMMA OneFacts ==
  ASSUME OneServer
  PROVE  1 \in Servers /\ \A s \in Servers : s = 1
  BY DEF OneServer, Servers

(* Nobody is killed and no server goes down.                               *)
LEMMA NobodyGoes ==
  ASSUME OneServer, IInv, ExitInv
  PROVE  /\ \A c \in Clients : ~Kill(c) /\ ~LoseServer(c)
         /\ \A s \in Servers, c \in Clients : ~ReadEof(s, c)
  <1>0. TypeOK /\ ConnInv
    BY DEF IInv
  <1>1. kills = 0 /\ MaxKills = 0
    BY <1>0, ConstFacts DEF TypeOK, OneServer
  <1>2. /\ \A s \in Servers : spc[s] # "aborted"
        /\ \A c \in Clients : \A k \in 1..Len(up[c]) : up[c][k].op = "eof" => k = 2
    BY <1>1 DEF ExitInv, OneServer
  <1>3. \A c \in Clients : ~Kill(c)
    BY <1>1 DEF Kill
  <1>4. ASSUME NEW c \in Clients, LoseServer(c) PROVE FALSE
    <2>1. cpc[c] # "off" /\ spc[server[c]] = "aborted"
      BY <1>4 DEF LoseServer
    <2>2. server[c] \in Servers
      BY <1>0, <2>1 DEF ConnInv, TypeOK
    <2> QED BY <1>2, <2>1, <2>2
  <1>5. ASSUME NEW s \in Servers, NEW c \in Clients, ReadEof(s, c) PROVE FALSE
    <2>1. up[c] # << >> /\ up[c][1].op = "eof" /\ up[c] \in Seq(Messages)
      BY <1>0, <1>5 DEF ReadEof, IsNext, ConnInv, TypeOK
    <2>2. 1 \in 1..Len(up[c])
      BY <2>1, EmptySeq
    <2> QED BY <1>2, <2>1, <2>2
  <1> QED BY <1>3, <1>4, <1>5

LEMMA AskNext == OneServer /\ RefInv /\ [Next]_vars => AskInv'
  <1> SUFFICES ASSUME OneServer, RefInv, [Next]_vars PROVE AskInv'
    OBVIOUS
  <1>0. /\ IInv /\ ExitInv /\ TypeOK /\ ControlInv /\ ConnInv /\ StreamInv /\ TalkInv /\ Paced
        /\ \A c \in Clients : \A k \in 1..Len(up[c]) :
             up[c][k].op \in Question => cpc[c] = up[c][k].op
        /\ \A s \in Servers, c \in Clients :
             req[s].client = c /\ req[s].msg.op \in Question => cpc[c] = req[s].msg.op
    BY DEF RefInv, IInv, AskInv, OneServer
  <1>T. /\ up \in [Clients -> Seq(Messages)] /\ \A c \in Clients : Len(up[c]) \in Nat
        /\ req \in [Servers -> [client : Clients, msg : Messages] \union {NoReq}]
        /\ cpc \in [Clients -> {"off", "pull", "check", "compose", "prompt", "gone"}]
        /\ NoReq.client \notin Clients
    BY <1>0, ConstFacts, NoReqFacts DEF TypeOK
  <1>1. ASSUME NEW s \in Servers, NEW c \in Clients, Read(s, c) PROVE AskInv'
    <2>1. /\ up' = [up EXCEPT ![c] = up'[c]] /\ up'[c] \in Seq(Messages) /\ up[c] # << >>
          /\ req' = [req EXCEPT ![s] = [client |-> c, msg |-> up[c][1]]]
      BY <1>0, <1>1, ReadFacts
    <2>2. PICK n \in 1..Len(up[c]) : Taken(c, n)
      BY <1>0, <1>1, ReadFacts
    <2>3. \A k \in 1..Len(up'[c]) : up'[c][k] = up[c][k + n] /\ k + n \in 1..Len(up[c])
      BY <1>T, <2>1, <2>2 DEF Taken
    <2>4. cpc' = cpc /\ 1 \in 1..Len(up[c])
      BY <1>1, <1>T, <2>2 DEF Read, client
    <2>5. \A d \in Clients : \A k \in 1..Len(up'[d]) :
            up'[d][k].op \in Question => cpc'[d] = up'[d][k].op
      <3>1. \A d \in Clients \ {c} : up'[d] = up[d]
        BY <1>T, <2>1
      <3>2. ASSUME NEW k \in 1..Len(up'[c]), up'[c][k].op \in Question
            PROVE  cpc'[c] = up'[c][k].op
        <4>1. up'[c][k] = up[c][k + n] /\ k + n \in 1..Len(up[c])
          BY <2>3
        <4> QED BY <1>0, <2>4, <3>2, <4>1
      <3> QED BY <1>0, <2>4, <3>1, <3>2
    <2>6. /\ req'[s].client = c /\ req'[s].msg = up[c][1]
          /\ \A t \in Servers \ {s} : req'[t] = req[t]
      BY <1>T, <2>1
    <2> QED BY <1>0, <2>4, <2>5, <2>6 DEF AskInv
  <1>2. ASSUME NEW s \in Servers,
               (\E c \in Clients : ReadExit(s, c)) \/ Answer(s) \/ Unlock(s)
        PROVE  AskInv'
    <2>1. /\ up' = up \/ \E c \in Clients : up' = [up EXCEPT ![c] = << >>]
          /\ req' = [req EXCEPT ![s] = NoReq] /\ cpc' = cpc
      BY <1>2 DEF ReadExit, Answer, Unlock, Proceed, client, stream
    <2>2. \A d \in Clients : \A k \in 1..Len(up'[d]) :
            up'[d][k].op \in Question => cpc'[d] = up'[d][k].op
      <3>1. \A d \in Clients : up'[d] = up[d] \/ up'[d] = << >>
        BY <1>T, <2>1
      <3>2. \A d \in Clients : up'[d] = up[d] \/ Len(up'[d]) = 0
        BY <3>1, EmptySeq
      <3> QED BY <1>0, <2>1, <3>2
    <2>3. req'[s].client \notin Clients /\ \A t \in Servers \ {s} : req'[t] = req[t]
      BY <1>T, <2>1
    <2> QED BY <1>0, <2>1, <2>2, <2>3 DEF AskInv
  <1>3. ASSUME NEW c \in Clients, req' = req, up' = [up EXCEPT ![c] = up'[c]],
               cpc' = [cpc EXCEPT ![c] = cpc'[c]],
               \A s \in Servers : req[s].client = c => req[s].msg.op \notin Question,
               \A k \in 1..Len(up'[c]) : up'[c][k].op \in Question => cpc'[c] = up'[c][k].op
        PROVE  AskInv'
    <2>1. \A d \in Clients \ {c} : up'[d] = up[d] /\ cpc'[d] = cpc[d]
      BY <1>T, <1>3
    <2> QED BY <1>0, <1>3, <2>1 DEF AskInv
  <1>4. ASSUME NEW c \in Clients, Connect(c) \/ Pull(c) \/ Check(c) \/ SendPost(c) \/ Exit(c)
        PROVE  AskInv'
    <2>1. /\ up[c] = << >> /\ Len(up[c]) = 0 /\ req' = req /\ cpc[c] \in {"off", "prompt", "compose"}
          /\ cpc' = [cpc EXCEPT ![c] = cpc'[c]]
      BY <1>0, <1>4, <1>T, EmptySeq
      DEF Connect, Pull, Check, SendPost, Exit, AtPrompt, Turn, ConnInv, StreamInv, StreamOf, handler
    <2>2. \A s \in Servers : req[s].client = c => req[s].msg.op \notin Question
      BY <1>0, <2>1 DEF TalkInv
    <2>3. CASE Connect(c) \/ Pull(c) \/ Check(c)
      <3>1. PICK op \in {"pull", "check"} : Send(c, <<Plain(op)>>) /\ Turn(c, op)
        BY <2>3 DEF Connect, Pull, Check
      <3>2. /\ Plain(op) \in Messages /\ Plain(op).op = op /\ cpc'[c] = op
            /\ up' = [up EXCEPT ![c] = up'[c]] /\ Len(up'[c]) = 1 /\ up'[c][1] = Plain(op)
        <4>1. Plain(op) \in Messages /\ Plain(op).op = op
          BY MessageFacts
        <4>2. cpc'[c] = op
          BY <1>T, <3>1 DEF Turn
        <4> QED BY <1>0, <2>1, <3>1, <4>1, <4>2, SendFacts
      <3>3. \A k \in 1..Len(up'[c]) : up'[c][k].op = cpc'[c]
        BY <3>2
      <3> QED BY <1>3, <2>1, <2>2, <3>2, <3>3
    <2>4. CASE SendPost(c)
      <3>1. Post(c, sent[c] + 1) \in NewPosts
        <4>1. sent[c] + 1 \in 1..MaxPosts
          BY <1>0, <2>4, ConstFacts DEF SendPost, TypeOK
        <4> QED BY <4>1, PostFacts
      <3>2. PICK m \in Messages : m.op = "post" /\ Send(c, <<m>>)
        BY <2>4, <3>1, MessageFacts DEF SendPost
      <3>3. up' = [up EXCEPT ![c] = up'[c]] /\ Len(up'[c]) = 1 /\ up'[c][1] = m
        BY <1>0, <2>1, <3>2, SendFacts
      <3>4. \A k \in 1..Len(up'[c]) : up'[c][k].op \notin Question
        BY <3>2, <3>3 DEF Question
      <3> QED BY <1>3, <2>1, <2>2, <3>3, <3>4
    <2>5. CASE Exit(c)
      <3>1. /\ up' = [up EXCEPT ![c] = up'[c]] /\ Len(up'[c]) = 2
            /\ up'[c][1] = Plain("exit") /\ up'[c][2] = Plain("eof")
        BY <1>0, <2>1, <2>5, SendExitFacts DEF Exit
      <3>2. \A k \in 1..Len(up'[c]) : up'[c][k].op \notin Question
        BY <3>1, MessageFacts DEF Question
      <3> QED BY <1>3, <2>1, <2>2, <3>1, <3>2
    <2> QED BY <1>4, <2>3, <2>4, <2>5
  <1>5. ASSUME NEW c \in Clients, Hear(c) PROVE AskInv'
    <2>1. /\ up' = up /\ req' = req /\ down[c] # NoReply
          /\ cpc' = [cpc EXCEPT ![c] = cpc'[c]]
      BY <1>5, <1>T DEF Hear, Turn, handler
    <2>2. up[c] = << >> /\ Len(up[c]) = 0 /\ \A s \in Servers : req[s].client # c
      BY <1>0, <2>1, EmptySeq DEF TalkInv
    <2> QED BY <1>3, <1>T, <2>1, <2>2
  <1>6. ASSUME UNCHANGED <<up, req, cpc>> PROVE AskInv'
    BY <1>0, <1>6 DEF AskInv
  <1>7. \A s \in Servers, c \in Clients : ~ReadEof(s, c) /\ ~Kill(c) /\ ~LoseServer(c)
    BY <1>0, NobodyGoes
  <1>8. ASSUME NEW s \in Servers, ServerStep(s) PROVE AskInv'
    BY <1>1, <1>2, <1>6, <1>7, <1>8
    DEF ServerStep, Refresh, Select, Test, PassOver, Choose, ChooseNone, DoLock, Write,
        handler, client, stream
  <1>9. ASSUME NEW r \in Lockable, OtherLocks(r) \/ OtherUnlocks(r) PROVE AskInv'
    BY <1>6, <1>9 DEF OtherLocks, OtherUnlocks, handler, client, stream
  <1>10. CASE UNCHANGED vars
    BY <1>6, <1>10 DEF vars, handler, client, stream
  <1> QED
    BY <1>4, <1>5, <1>7, <1>8, <1>9, <1>10, OneFacts DEF Next, User

LEMMA CopyNext == OneServer /\ RefInv /\ [Next]_vars => CopyInv'
  <1> SUFFICES ASSUME OneServer, RefInv, [Next]_vars PROVE CopyInv'
    OBVIOUS
  <1>T. /\ all \in [Servers -> [Records -> Posts \union {Empty}]]
        /\ offset \in [Servers -> {0, RECORD_NUM}] /\ RECORD_NUM # 0
        /\ 1 \in Servers /\ \A s \in Servers : s = 1
    BY OneFacts, ConstFacts DEF RefInv, IInv, TypeOK
  <1>0. offset[1] = RECORD_NUM => all[1] = file
    BY <1>T DEF RefInv, CopyInv
  <1>1. ASSUME NEW s \in Servers, Refresh(s) PROVE CopyInv'
    BY <1>0, <1>1, <1>T DEF Refresh, CopyInv, board
  <1>2. ASSUME NEW s \in Servers, Write(s) PROVE CopyInv'
    BY <1>2, <1>T DEF Write, CopyInv
  <1>3. CASE UNCHANGED <<all, offset, file>>
    BY <1>0, <1>3, <1>T DEF CopyInv
  <1> QED
    BY <1>1, <1>2, <1>3
    DEF Next, ServerStep, User, Select, Read, ReadExit, ReadEof, Test, Answer, PassOver, Choose,
        ChooseNone, DoLock, Unlock, Connect, Pull, Check, Exit, SendPost, Kill, Hear, LoseServer,
        OtherLocks, OtherUnlocks, vars, board, loop

LEMMA ReplyNext == RefInv /\ [Next]_vars => ReplyInv'
  <1> SUFFICES ASSUME RefInv, [Next]_vars PROVE ReplyInv'
    OBVIOUS
  <1>0. /\ down \in [Clients -> [kind : {"none", "yes", "no", "board"}, posts : SUBSET Posts]]
        /\ ReplyInv
    BY DEF RefInv, IInv, TypeOK
  <1>1. ASSUME NEW s \in Servers, Answer(s) PROVE ReplyInv'
    <2>1. down' = [down EXCEPT ![req[s].client] = AnswerTo(s)]
      BY <1>1 DEF Answer
    <2>2. AnswerTo(s).kind # "board" => AnswerTo(s).posts = {}
      BY DEF AnswerTo, Reply
    <2> QED BY <1>0, <2>1, <2>2 DEF ReplyInv
  <1>2. ASSUME NEW c \in Clients, Hear(c) PROVE ReplyInv'
    BY <1>0, <1>2 DEF Hear, ReplyInv, NoReply, Reply
  <1>3. CASE down' = down
    BY <1>0, <1>3 DEF ReplyInv
  <1> QED
    BY <1>1, <1>2, <1>3
    DEF Next, ServerStep, User, Refresh, Select, Read, ReadExit, ReadEof, Test, PassOver, Choose,
        ChooseNone, DoLock, Write, Unlock, Connect, Pull, Check, Exit, SendPost, Kill, LoseServer,
        OtherLocks, OtherUnlocks, vars, stream

LEMMA RefInductive == ASSUME OneServer PROVE Spec => []RefInv
  <1>1. Init => RefInv
    <2> SUFFICES ASSUME Init PROVE RefInv
      OBVIOUS
    <2>1. IInv /\ ExitInv
      BY InitInv, InitExit
    <2>2. /\ \A c \in Clients : up[c] = << >> /\ Len(up[c]) = 0
          /\ \A s \in Servers : req[s].client \notin Clients /\ offset[s] # RECORD_NUM
      BY EmptySeq, ConstFacts, NoReqFacts DEF Init
    <2>3. ReplyInv
      BY DEF Init, ReplyInv, NoReply, Reply
    <2> QED BY <2>1, <2>2, <2>3 DEF RefInv, AskInv, CopyInv
  <1>2. RefInv /\ [Next]_vars => RefInv'
    BY BoardStepInv, ExitNext, AskNext, CopyNext, ReplyNext DEF RefInv
  <1> QED BY <1>1, <1>2, PTL DEF Spec

-----------------------------------------------------------------------------
(* How a state of the server maps to one of Board.                         *)
View == [c \in Clients |-> [seen |-> HasLooked(c), posts |-> IF HasLooked(c) THEN Copy(c) ELSE {}]]
Answers == [c \in Clients |-> [seen |-> down[c].kind = "board", posts |-> down[c].posts]]

LEMMA MapFacts ==
  /\ Abstract!vars = <<file, Asked, View, Answers>>
  /\ Abstract!vars' = <<file', Asked', View', Answers'>>
  /\ Abstract!OnBoard = {file[r] : r \in Records} \ {Empty}
  BY DEF Abstract!vars, Abstract!OnBoard, View, Answers

(* With one server, who has looked.                                        *)
LEMMA LookedFacts ==
  ASSUME OneServer, NEW c \in Clients
  PROVE  /\ HasLooked(c) <=>
              \/ c \in ready[1] /\ up[c][1].op = "pull"
              \/ req[1].client = c /\ req[1].msg.op = "pull"
         /\ HasLooked(c) \in BOOLEAN
  BY OneFacts DEF HasLooked

(* A client that has looked waits for the answer to its pull.              *)
LEMMA LookedWaits ==
  ASSUME OneServer, RefInv, NEW c \in Clients, HasLooked(c)
  PROVE  /\ cpc[c] = "pull" /\ down[c] = NoReply /\ server[c] = 1 /\ c \notin Asked
         /\ spc[1] \notin {"refresh", "select"}
  <1>0. TypeOK /\ ControlInv /\ ConnInv /\ TalkInv /\ AskInv /\ 1 \in Servers
    BY OneFacts DEF RefInv, IInv
  <1>1. c \notin Asked
    BY DEF Asked
  <1>2. CASE c \in ready[1] /\ up[c][1].op = "pull"
    <2>1. up[c] # << >> /\ server[c] = 1 /\ down[c] = NoReply
      BY <1>0, <1>2 DEF ConnInv, TalkInv
    <2>2. 1 \in 1..Len(up[c])
      BY <1>0, <2>1, EmptySeq DEF TypeOK
    <2>3. cpc[c] = "pull"
      BY <1>0, <1>2, <2>2 DEF AskInv, Question
    <2>4. spc[1] \notin {"refresh", "select"}
      BY <1>0, <1>2 DEF ControlInv
    <2> QED BY <1>1, <2>1, <2>3, <2>4
  <1>3. CASE req[1].client = c /\ req[1].msg.op = "pull"
    <2>1. server[c] = 1 /\ down[c] = NoReply /\ cpc[c] = "pull"
      BY <1>0, <1>3 DEF ConnInv, TalkInv, AskInv, Question
    <2>2. spc[1] \notin {"refresh", "select"}
      BY <1>0, <1>3, ConstFacts, NoReqFacts DEF ControlInv
    <2> QED BY <1>1, <2>1, <2>2
  <1> QED BY <1>2, <1>3, LookedFacts

(* Steps that change none of it.                                           *)
LEMMA SameView ==
  ASSUME \A c \in Clients : /\ HasLooked(c)' <=> HasLooked(c)
                            /\ HasLooked(c) => Copy(c)' = Copy(c)
  PROVE  View' = View
  <1>1. \A c \in Clients : HasLooked(c) \in BOOLEAN /\ HasLooked(c)' \in BOOLEAN
    BY DEF HasLooked
  <1>2. \A c \in Clients : HasLooked(c)' = HasLooked(c)
    BY <1>1
  <1> QED BY <1>2 DEF View

LEMMA SameAnswers ==
  ASSUME \A c \in Clients : /\ down'[c].posts = down[c].posts
                            /\ down'[c].kind = "board" <=> down[c].kind = "board"
  PROVE  Answers' = Answers
  <1>1. \A c \in Clients : (down'[c].kind = "board") = (down[c].kind = "board")
    OBVIOUS
  <1> QED BY <1>1 DEF Answers

LEMMA SameAsked ==
  ASSUME \A c \in Clients : c \in Asked' <=> c \in Asked
  PROVE  Asked' = Asked
  <1>1. Asked \subseteq Clients /\ Asked' \subseteq Clients
    BY DEF Asked
  <1> QED BY <1>1

LEMMA Unseen ==
  ASSUME file' = file, down' = down,
         \A c \in Clients :
           /\ HasLooked(c)' <=> HasLooked(c)
           /\ HasLooked(c) => Copy(c)' = Copy(c)
           /\ cpc'[c] = "pull" <=> cpc[c] = "pull"
  PROVE  UNCHANGED Abstract!vars
  <1>1. Asked' = Asked
    BY SameAsked DEF Asked
  <1>2. View' = View
    BY SameView
  <1>3. Answers' = Answers
    BY SameAnswers
  <1> QED BY <1>1, <1>2, <1>3, MapFacts

LEMMA RefInit == Init => Abstract!Init
  <1> SUFFICES ASSUME Init PROVE Abstract!Init
    OBVIOUS
  <1>1. /\ \A c \in Clients : cpc[c] = "off" /\ down[c] = NoReply
        /\ \A s \in Servers : ready[s] = {} /\ req[s] = NoReq
        /\ file \in [Records -> Posts \union {Empty}]
    BY InitInv DEF Init, IInv, TypeOK
  <1>2. \A c \in Clients : HasLooked(c) = FALSE
    BY <1>1, NoReqFacts DEF HasLooked
  <1>3. Asked = {}
    BY <1>1 DEF Asked
  <1>4. View = [c \in Clients |-> [seen |-> FALSE, posts |-> {}]]
    BY <1>2 DEF View
  <1>5. Answers = [c \in Clients |-> [seen |-> FALSE, posts |-> {}]]
    <2>1. \A c \in Clients : (down[c].kind = "board") = FALSE /\ down[c].posts = {}
      BY <1>1 DEF NoReply, Reply
    <2> QED BY <2>1 DEF Answers
  <1> QED BY <1>1, <1>3, <1>4, <1>5 DEF Abstract!Init, Abstract!None, View, Answers

-----------------------------------------------------------------------------
(* The steps.                                                              *)

(* select finds the pulls that will be answered from the copy.             *)
LEMMA LookStep ==
  ASSUME OneServer, RefInv, NEW s \in Servers, Select(s)
  PROVE  Abstract!Next \/ UNCHANGED Abstract!vars
  <1>0. /\ TypeOK /\ ControlInv /\ ConnInv /\ TalkInv /\ AskInv /\ CopyInv
        /\ 1 \in Servers /\ s = 1
    BY OneFacts DEF RefInv, IInv
  <1>1. /\ ready[1] = {} /\ req[1] = NoReq /\ all[1] = file
        /\ \A c \in Clients : req[1].client # c
    BY <1>0, ConstFacts, NoReqFacts DEF Select, ControlInv, CopyInv
  <1>2. /\ ready'[1] = Readable(1)
        /\ UNCHANGED <<file, all, req, cpc, up, down, server>>
    BY <1>0 DEF Select, TypeOK, board, handler, client
  <1>3. PICK C \in SUBSET Clients : C = {c \in Readable(1) : up[c][1].op = "pull"}
    BY DEF Readable
  <1>4. \A c \in Clients : ~HasLooked(c)
    BY <1>1, LookedFacts
  <1>5. \A c \in Clients : HasLooked(c)' <=> c \in C
    <2>1. \A c \in Clients : HasLooked(c)' <=>
            \/ c \in ready'[1] /\ up'[c][1].op = "pull"
            \/ req'[1].client = c /\ req'[1].msg.op = "pull"
      BY OneFacts DEF HasLooked
    <2> QED BY <1>1, <1>2, <1>3, <2>1
  <1>6. ASSUME NEW c \in C PROVE c \in Asked /\ Copy(c)' = Abstract!OnBoard
    <2>1. c \in Clients /\ server[c] = 1 /\ up[c] # << >> /\ up[c][1].op = "pull"
      BY <1>3 DEF Readable
    <2>2. 1 \in 1..Len(up[c])
      BY <1>0, <2>1, EmptySeq DEF TypeOK
    <2>3. cpc[c] = "pull" /\ down[c] = NoReply
      BY <1>0, <2>1, <2>2 DEF AskInv, TalkInv, Question
    <2>4. Copy(c)' = Abstract!OnBoard
      BY <1>1, <1>2, <2>1, MapFacts DEF Copy
    <2> QED BY <1>4, <2>1, <2>3, <2>4 DEF Asked
  <1>7. Asked' = Asked \ C
    BY <1>2, <1>4, <1>5 DEF Asked
  <1>8. View' = [c \in Clients |-> IF c \in C THEN [seen |-> TRUE, posts |-> Abstract!OnBoard]
                                  ELSE View[c]]
    <2>1. \A c \in Clients : HasLooked(c) = FALSE /\ HasLooked(c)' = (c \in C)
      <3>1. \A c \in Clients : HasLooked(c) \in BOOLEAN /\ HasLooked(c)' \in BOOLEAN
        BY DEF HasLooked
      <3> QED BY <1>4, <1>5, <3>1
    <2>2. \A c \in Clients : View[c] = [seen |-> FALSE, posts |-> {}]
      BY <2>1 DEF View
    <2>3. \A c \in Clients : View'[c] = IF c \in C THEN [seen |-> TRUE, posts |-> Abstract!OnBoard]
                                        ELSE [seen |-> FALSE, posts |-> {}]
      <3>1. \A c \in Clients : View'[c] = [seen |-> HasLooked(c)',
                                         posts |-> IF HasLooked(c)' THEN Copy(c)' ELSE {}]
        BY DEF View
      <3>2. \A c \in C : HasLooked(c)' = TRUE /\ Copy(c)' = Abstract!OnBoard
        BY <1>6, <2>1
      <3>3. \A c \in Clients \ C : HasLooked(c)' = FALSE
        <4>1. \A c \in Clients : HasLooked(c)' \in BOOLEAN
          BY DEF HasLooked
        <4> QED BY <1>5, <4>1
      <3> QED BY <3>1, <3>2, <3>3
    <2>4. View' = [c \in Clients |-> View'[c]]
      BY DEF View
    <2> QED BY <2>2, <2>3, <2>4
  <1>9. Answers' = Answers
    BY <1>2, SameAnswers
  <1>10. CASE C = {}
    BY <1>2, <1>4, <1>5, <1>10, Unseen
  <1>11. CASE C # {}
    <2>1. Abstract!Look(C)
      BY <1>2, <1>6, <1>7, <1>8, <1>9, <1>11 DEF Abstract!Look, Abstract!Seen, View, Answers
    <2> QED BY <2>1 DEF Abstract!Next
  <1> QED BY <1>10, <1>11

(* A post is written.                                                      *)
LEMMA PostStep ==
  ASSUME OneServer, RefInv, NEW s \in Servers, Write(s)
  PROVE  Abstract!Next
  <1>1. PICK p \in NewPosts :
          /\ pos[s] \in Records /\ file' = [file EXCEPT ![pos[s]] = p]
          /\ UNCHANGED <<all, ready, req, server>> /\ ~Stored(p)
    BY WriteFacts DEF RefInv
  <1>2. UNCHANGED <<up, down, cpc>>
    BY DEF Write, client, stream
  <1>3. p \in Posts /\ p \notin Abstract!OnBoard
    BY <1>1, PostFacts, MapFacts DEF RefInv, IInv, BoardInv
  <1>4. \A c \in Clients : (HasLooked(c)' <=> HasLooked(c)) /\ Copy(c)' = Copy(c)
    BY <1>1, <1>2 DEF HasLooked, Copy
  <1>5. View' = View /\ Answers' = Answers
    BY <1>2, <1>4, SameView, SameAnswers
  <1>6. Asked' = Asked
    BY <1>2, <1>4, SameAsked DEF Asked
  <1>7. Abstract!Post(pos[s], p)
    BY <1>1, <1>3, <1>5, <1>6 DEF Abstract!Post, View, Answers
  <1> QED BY <1>1, <1>3, <1>7 DEF Abstract!Next

(* A client asks for the board, or gives another command.                  *)
LEMMA UserLooks ==
  ASSUME OneServer, RefInv, NEW c \in Clients,
         Connect(c) \/ Pull(c) \/ Check(c) \/ Exit(c) \/ SendPost(c)
  PROVE  /\ \A d \in Clients : HasLooked(d)' <=> HasLooked(d)
         /\ ~HasLooked(c) /\ cpc[c] \in {"off", "prompt", "compose"} /\ down[c] = NoReply
         /\ View' = View /\ Answers' = Answers /\ file' = file /\ down' = down
         /\ cpc' = [cpc EXCEPT ![c] = cpc'[c]]
  <1>0. TypeOK /\ ConnInv /\ StreamInv /\ TalkInv /\ Paced /\ 1 \in Servers
    BY OneFacts DEF RefInv, IInv, OneServer
  <1>1. /\ up[c] = << >> /\ UNCHANGED <<file, all, req, ready, down>>
        /\ cpc[c] \in {"off", "prompt", "compose"} /\ cpc' = [cpc EXCEPT ![c] = cpc'[c]]
        /\ \A d \in Clients \ {c} : up'[d] = up[d] /\ server'[d] = server[d]
    <2>1. /\ up[c] = << >> /\ cpc[c] \in {"off", "prompt", "compose"}
      BY <1>0 DEF Connect, Pull, Check, Exit, SendPost, AtPrompt, ConnInv, StreamInv, StreamOf
    <2>2. UNCHANGED <<file, all, req, ready, down>>
      BY DEF Connect, Pull, Check, Exit, SendPost, board, loop, handler
    <2>3. /\ \E l : cpc' = [cpc EXCEPT ![c] = l]
          /\ \E m : up' = [up EXCEPT ![c] = m]
          /\ server' = server \/ \E s : server' = [server EXCEPT ![c] = s]
      BY DEF Connect, Pull, Check, Exit, SendPost, Turn, Send
    <2> QED BY <1>0, <2>1, <2>2, <2>3 DEF TypeOK
  <1>2. c \notin ready[1] /\ down[c] = NoReply
    BY <1>0, <1>1 DEF ConnInv, TalkInv
  <1>3. \A d \in Clients : HasLooked(d)' <=>
          \/ d \in ready'[1] /\ up'[d][1].op = "pull"
          \/ req'[1].client = d /\ req'[1].msg.op = "pull"
    BY OneFacts DEF HasLooked
  <1>4. \A d \in Clients : HasLooked(d)' <=> HasLooked(d)
    BY <1>1, <1>2, <1>3, LookedFacts
  <1>5. ~HasLooked(c)
    BY <1>1, LookedWaits
  <1>6. \A d \in Clients : HasLooked(d) => Copy(d)' = Copy(d)
    BY <1>1, <1>5 DEF Copy
  <1>7. View' = View /\ Answers' = Answers
    BY <1>1, <1>4, <1>6, SameView, SameAnswers
  <1> QED BY <1>1, <1>2, <1>4, <1>5, <1>7

LEMMA AskStep ==
  ASSUME OneServer, RefInv, NEW c \in Clients, Connect(c) \/ Pull(c)
  PROVE  Abstract!Next
  <1>1. /\ \A d \in Clients : HasLooked(d)' <=> HasLooked(d)
        /\ ~HasLooked(c) /\ cpc[c] \in {"off", "prompt", "compose"} /\ down[c] = NoReply
        /\ View' = View /\ Answers' = Answers /\ file' = file /\ down' = down
        /\ cpc' = [cpc EXCEPT ![c] = cpc'[c]]
    BY UserLooks
  <1>2. cpc'[c] = "pull" /\ \A d \in Clients \ {c} : cpc'[d] = cpc[d]
    BY <1>1 DEF Connect, Pull, Turn, RefInv, IInv, TypeOK
  <1>3. c \notin Asked /\ Asked' = Asked \union {c}
    BY <1>1, <1>2 DEF Asked
  <1>4. ~View[c].seen /\ ~Answers[c].seen
    <2>1. View[c].seen = HasLooked(c) /\ Answers[c].seen = (down[c].kind = "board")
      BY DEF View, Answers
    <2>2. down[c].kind # "board"
      BY <1>1 DEF NoReply, Reply
    <2> QED BY <1>1, <2>1, <2>2
  <1>5. Abstract!Ask(c)
    BY <1>1, <1>3, <1>4 DEF Abstract!Ask, View, Answers
  <1> QED BY <1>5 DEF Abstract!Next

LEMMA OtherCommands ==
  ASSUME OneServer, RefInv, NEW c \in Clients, Check(c) \/ Exit(c) \/ SendPost(c)
  PROVE  UNCHANGED Abstract!vars
  <1>1. /\ \A d \in Clients : HasLooked(d)' <=> HasLooked(d)
        /\ cpc[c] \in {"off", "prompt", "compose"}
        /\ View' = View /\ Answers' = Answers /\ file' = file /\ down' = down
        /\ cpc' = [cpc EXCEPT ![c] = cpc'[c]]
    BY UserLooks
  <1>2. cpc'[c] # "pull" /\ \A d \in Clients \ {c} : cpc'[d] = cpc[d]
    BY <1>1 DEF Check, Exit, SendPost, Turn, RefInv, IInv, TypeOK
  <1>3. Asked' = Asked
    BY <1>1, <1>2, SameAsked DEF Asked
  <1> QED BY <1>1, <1>3, MapFacts

(* A pull or a check is answered.                                          *)
LEMMA AnswerStep ==
  ASSUME OneServer, RefInv, NEW s \in Servers, Answer(s)
  PROVE  Abstract!Next \/ UNCHANGED Abstract!vars
  <1>0. /\ TypeOK /\ ControlInv /\ ConnInv /\ TalkInv /\ AskInv
        /\ 1 \in Servers /\ s = 1
    BY OneFacts DEF RefInv, IInv
  <1>1. PICK c \in Clients : c = req[1].client
    BY <1>0 DEF Answer, Handling, ControlInv
  <1>2. /\ req[1].msg.op \in Question /\ req'[1].client \notin Clients /\ ready'[1] = ready[1]
        /\ down' = [down EXCEPT ![c] = AnswerTo(1)]
        /\ UNCHANGED <<file, all, up, server, cpc>>
    BY <1>0, <1>1, NoReqFacts, ConstFacts
    DEF Answer, Handling, Proceed, TypeOK, board, client, Question
  <1>3. /\ server[c] = 1 /\ c \notin ready[1] /\ down[c] = NoReply
        /\ cpc[c] = req[1].msg.op
    BY <1>0, <1>1, <1>2 DEF ConnInv, TalkInv, AskInv
  <1>4. /\ down'[c] = AnswerTo(1) /\ \A d \in Clients \ {c} : down'[d] = down[d]
    BY <1>0, <1>2 DEF TypeOK
  <1>5. \A d \in Clients : HasLooked(d)' <=> d \in ready[1] /\ up[d][1].op = "pull"
    <2>1. \A d \in Clients : HasLooked(d)' <=>
            \/ d \in ready'[1] /\ up'[d][1].op = "pull"
            \/ req'[1].client = d /\ req'[1].msg.op = "pull"
      BY OneFacts DEF HasLooked
    <2> QED BY <1>2, <2>1
  <1>6. \A d \in Clients \ {c} : HasLooked(d)' <=> HasLooked(d)
    BY <1>1, <1>5, LookedFacts
  <1>7. ~HasLooked(c)' /\ (HasLooked(c) <=> req[1].msg.op = "pull")
    BY <1>1, <1>3, <1>5, LookedFacts
  <1>8. \A d \in Clients : Copy(d)' = Copy(d)
    BY <1>2 DEF Copy
  <1>9. CASE req[1].msg.op = "pull"
    <2>1. AnswerTo(1) = [kind |-> "board", posts |-> Shown(1)]
      BY <1>9 DEF AnswerTo, Reply
    <2>2. Shown(1) \subseteq Copy(c)
      BY <1>0, <1>3 DEF Shown, Copy, TypeOK
    <2>3. \A d \in Clients : (d \in Asked' <=> d \in Asked)
      <3>1. c \notin Asked /\ c \notin Asked'
        BY <1>4, <1>7, <1>9, <2>1 DEF Asked, NoReply, Reply
      <3> QED BY <1>2, <1>4, <1>6, <3>1 DEF Asked
    <2>4. Asked' = Asked
      BY <2>3, SameAsked
    <2>5. Answers' = [Answers EXCEPT ![c] = [seen |-> TRUE, posts |-> Shown(1)]]
      <3>1. Answers'[c] = [seen |-> TRUE, posts |-> Shown(1)]
        <4>1. (down'[c].kind = "board") = TRUE /\ down'[c].posts = Shown(1)
          BY <1>4, <2>1
        <4> QED BY <4>1 DEF Answers
      <3>2. \A d \in Clients \ {c} : Answers'[d] = Answers[d]
        BY <1>4 DEF Answers
      <3> QED BY <3>1, <3>2 DEF Answers
    <2>6. View' = [View EXCEPT ![c] = [seen |-> FALSE, posts |-> {}]]
      <3>1. \A d \in Clients : HasLooked(d) \in BOOLEAN /\ HasLooked(d)' \in BOOLEAN
        BY DEF HasLooked
      <3>2. HasLooked(c)' = FALSE /\ \A d \in Clients \ {c} : HasLooked(d)' = HasLooked(d)
        BY <1>6, <1>7, <3>1
      <3>3. View'[c] = [seen |-> FALSE, posts |-> {}]
        BY <3>2 DEF View
      <3>4. \A d \in Clients \ {c} : View'[d] = View[d]
        BY <1>8, <3>2 DEF View
      <3> QED BY <3>3, <3>4 DEF View
    <2>7. View[c].seen /\ View[c].posts = Copy(c)
      BY <1>7, <1>9 DEF View
    <2>8. Abstract!Answer(c)
      BY <1>2, <2>2, <2>4, <2>5, <2>6, <2>7
      DEF Abstract!Answer, Abstract!Seen, Abstract!None, View, Answers
    <2> QED BY <2>8 DEF Abstract!Next
  <1>10. CASE req[1].msg.op = "check"
    <2>1. AnswerTo(1).kind \in {"yes", "no"} /\ AnswerTo(1).posts = {}
      BY <1>10 DEF AnswerTo, Reply
    <2>2. View' = View
      BY <1>6, <1>7, <1>8, <1>10, SameView
    <2>3. Answers' = Answers
      BY <1>3, <1>4, <2>1, SameAnswers DEF NoReply, Reply
    <2>4. \A d \in Clients : (d \in Asked' <=> d \in Asked)
      BY <1>2, <1>3, <1>4, <1>6, <1>10 DEF Asked
    <2>5. Asked' = Asked
      BY <2>4, SameAsked
    <2> QED BY <1>2, <2>2, <2>3, <2>5, MapFacts
  <1> QED BY <1>2, <1>9, <1>10 DEF Question

(* An answer is read.                                                      *)
LEMMA ShowStep ==
  ASSUME OneServer, RefInv, NEW c \in Clients, Hear(c)
  PROVE  Abstract!Next \/ UNCHANGED Abstract!vars
  <1>0. TypeOK /\ ReplyInv
    BY DEF RefInv, IInv
  <1>1. /\ down[c] # NoReply /\ UNCHANGED <<file, all, req, ready, up, server>>
        /\ down'[c] = NoReply /\ cpc'[c] # "pull"
        /\ \A d \in Clients \ {c} : down'[d] = down[d] /\ cpc'[d] = cpc[d]
    BY <1>0 DEF Hear, Turn, TypeOK, board, loop, handler
  <1>2. \A d \in Clients : (HasLooked(d)' <=> HasLooked(d)) /\ Copy(d)' = Copy(d)
    BY <1>1 DEF HasLooked, Copy
  <1>3. View' = View
    BY <1>2, SameView
  <1>4. \A d \in Clients : (d \in Asked' <=> d \in Asked)
    BY <1>1, <1>2 DEF Asked
  <1>5. Asked' = Asked
    BY <1>4, SameAsked
  <1>6. NoReply.kind = "none" /\ NoReply.posts = {}
    BY DEF NoReply, Reply
  <1>7. CASE down[c].kind = "board"
    <2>1. Answers[c].seen
      BY <1>7 DEF Answers
    <2>2. Answers' = [Answers EXCEPT ![c] = [seen |-> FALSE, posts |-> {}]]
      <3>1. (down'[c].kind = "board") = FALSE
        BY <1>1, <1>6
      <3>2. Answers'[c] = [seen |-> FALSE, posts |-> {}]
        BY <1>1, <1>6, <3>1 DEF Answers
      <3>3. \A d \in Clients \ {c} : Answers'[d] = Answers[d]
        BY <1>1 DEF Answers
      <3> QED BY <3>2, <3>3 DEF Answers
    <2>3. Abstract!Show(c)
      BY <1>1, <1>3, <1>5, <2>1, <2>2 DEF Abstract!Show, Abstract!None, View, Answers
    <2> QED BY <2>3 DEF Abstract!Next
  <1>8. CASE down[c].kind # "board"
    <2>1. down[c].posts = {}
      BY <1>0, <1>8 DEF ReplyInv
    <2>2. Answers' = Answers
      BY <1>1, <1>6, <1>8, <2>1, SameAnswers
    <2> QED BY <1>1, <1>3, <1>5, <2>2, MapFacts
  <1> QED BY <1>7, <1>8

(* Everything else is out of Board's sight.                                *)
LEMMA OtherSteps ==
  ASSUME OneServer, RefInv, NEW s \in Servers,
         \/ Refresh(s) \/ Test(s) \/ PassOver(s) \/ Choose(s) \/ ChooseNone(s) \/ DoLock(s) \/ Unlock(s)
         \/ \E c \in Clients : Read(s, c) \/ ReadExit(s, c)
  PROVE  UNCHANGED Abstract!vars
  <1>0. /\ TypeOK /\ ControlInv /\ ConnInv /\ StreamInv
        /\ 1 \in Servers /\ s = 1
    BY OneFacts DEF RefInv, IInv
  <1>T. /\ req \in [Servers -> [client : Clients, msg : Messages] \union {NoReq}]
        /\ ready \in [Servers -> SUBSET Clients] /\ up \in [Clients -> Seq(Messages)]
        /\ NoReq.client \notin Clients
    BY <1>0, ConstFacts, NoReqFacts DEF TypeOK
  <1>1. UNCHANGED <<file, down, cpc, server>>
    BY DEF Refresh, Test, PassOver, Choose, ChooseNone, DoLock, Unlock, Read, ReadExit,
           board, client, stream
  <1>2. ASSUME \A c \in Clients : HasLooked(c)' <=> HasLooked(c),
               \A c \in Clients : HasLooked(c) => Copy(c)' = Copy(c)
        PROVE  UNCHANGED Abstract!vars
    BY <1>1, <1>2, Unseen
  <1>3. \A c \in Clients : HasLooked(c)' <=>
          \/ c \in ready'[1] /\ up'[c][1].op = "pull"
          \/ req'[1].client = c /\ req'[1].msg.op = "pull"
    BY OneFacts DEF HasLooked
  <1>4. ASSUME all' = all, \A c \in Clients : HasLooked(c)' <=> HasLooked(c)
        PROVE  UNCHANGED Abstract!vars
    BY <1>1, <1>2, <1>4 DEF Copy
  <1>5. CASE Refresh(s)
    <2>1. \A c \in Clients : ~HasLooked(c)
      BY <1>0, <1>5, LookedWaits DEF Refresh
    <2>2. UNCHANGED <<ready, req, up>>
      BY <1>5 DEF Refresh, handler, stream
    <2>3. \A c \in Clients : HasLooked(c)' <=> HasLooked(c)
      BY <2>2 DEF HasLooked
    <2> QED BY <1>2, <2>1, <2>3
  <1>6. CASE Test(s) \/ PassOver(s) \/ Choose(s) \/ ChooseNone(s) \/ DoLock(s)
    <2>1. UNCHANGED <<all, ready, req, up>>
      BY <1>6 DEF Test, PassOver, Choose, ChooseNone, DoLock, loop, handler, stream
    <2>2. \A c \in Clients : HasLooked(c)' <=> HasLooked(c)
      BY <2>1 DEF HasLooked
    <2> QED BY <1>4, <2>1, <2>2
  <1>7. CASE Unlock(s)
    <2>1. /\ UNCHANGED <<all, up>> /\ ready'[1] = ready[1] /\ req'[1] = NoReq
          /\ req[1].msg.op = "post"
      BY <1>0, <1>7, <1>T DEF Unlock, Proceed, ControlInv, stream
    <2>2. \A c \in Clients : HasLooked(c)' <=> HasLooked(c)
      BY <1>3, <1>T, <2>1, LookedFacts
    <2> QED BY <1>4, <2>1, <2>2
  <1>8. ASSUME NEW c \in Clients, Read(s, c) PROVE UNCHANGED Abstract!vars
    <2>1. /\ c \in ready[1] /\ req[1] = NoReq /\ up' = [up EXCEPT ![c] = up'[c]]
          /\ req' = [req EXCEPT ![s] = [client |-> c, msg |-> up[c][1]]]
      BY <1>0, <1>8, ReadFacts
    <2>2. all' = all /\ ready'[1] = ready[1] \ {c}
      BY <1>0, <1>8, <1>T DEF Read
    <2>3. /\ req'[1].client = c /\ req'[1].msg = up[c][1]
          /\ \A d \in Clients \ {c} : up'[d] = up[d]
      BY <1>0, <1>T, <2>1
    <2>4. \A d \in Clients : HasLooked(d)' <=> HasLooked(d)
      BY <1>3, <1>T, <2>1, <2>2, <2>3, LookedFacts
    <2> QED BY <1>4, <2>2, <2>4
  <1>9. ASSUME NEW c \in Clients, ReadExit(s, c) PROVE UNCHANGED Abstract!vars
    <2>1. /\ up[c][1].op = "exit" /\ req[1] = NoReq /\ req'[1] = NoReq /\ all' = all
          /\ ready'[1] = ready[1] \ {c} /\ \A d \in Clients \ {c} : up'[d] = up[d]
      BY <1>0, <1>9, <1>T DEF ReadExit, IsNext, Proceed, ControlInv
    <2>2. \A d \in Clients : HasLooked(d)' <=> HasLooked(d)
      BY <1>3, <1>T, <2>1, LookedFacts
    <2> QED BY <1>4, <2>1, <2>2
  <1> QED BY <1>5, <1>6, <1>7, <1>8, <1>9

LEMMA RefStep ==
  ASSUME OneServer, RefInv, [Next]_vars
  PROVE  Abstract!Next \/ UNCHANGED Abstract!vars
  <1>1. ASSUME NEW s \in Servers, ServerStep(s) PROVE Abstract!Next \/ UNCHANGED Abstract!vars
    <2>1. \A c \in Clients : ~ReadEof(s, c)
      BY NobodyGoes DEF RefInv
    <2> QED
      BY <1>1, <2>1, LookStep, PostStep, AnswerStep, OtherSteps DEF ServerStep
  <1>2. ASSUME NEW c \in Clients, User(c) \/ Hear(c) \/ LoseServer(c)
        PROVE  Abstract!Next \/ UNCHANGED Abstract!vars
    <2>1. ~Kill(c) /\ ~LoseServer(c)
      BY NobodyGoes DEF RefInv
    <2> QED BY <1>2, <2>1, AskStep, OtherCommands, ShowStep DEF User
  <1>3. ASSUME UNCHANGED <<file, all, req, ready, up, down, cpc, server>>
        PROVE  UNCHANGED Abstract!vars
    <2>1. \A c \in Clients : (HasLooked(c)' <=> HasLooked(c)) /\ Copy(c)' = Copy(c)
      BY <1>3 DEF HasLooked, Copy
    <2> QED BY <1>3, <2>1, Unseen
  <1>4. ASSUME NEW r \in Lockable, OtherLocks(r) \/ OtherUnlocks(r)
        PROVE  UNCHANGED Abstract!vars
    <2>1. UNCHANGED <<file, all, req, ready, up, down, cpc, server>>
      BY <1>4 DEF OtherLocks, OtherUnlocks, loop, handler, client, stream
    <2> QED BY <1>3, <2>1
  <1>5. CASE UNCHANGED vars
    <2>1. UNCHANGED <<file, all, req, ready, up, down, cpc, server>>
      BY <1>5 DEF vars, board, loop, handler, client, stream
    <2> QED BY <1>3, <2>1
  <1> QED BY <1>1, <1>2, <1>4, <1>5 DEF Next

(* With one server a pull is answered from what the file held at one       *)
(* instant after it was sent, when select found it, because the copy is    *)
(* made before select (server.c:105) and every post of the server moves    *)
(* the offset back to the beginning (server.c:241).                        *)
THEOREM BoardImplementsBoard ==
  ASSUME NServers = 1, Paced, MaxKills = 0
  PROVE  Spec => ImplementsBoard
  <1>1. OneServer
    BY DEF OneServer
  <1>2. RefInv /\ [Next]_vars => [Abstract!Next]_(Abstract!vars)
    BY <1>1, RefStep
  <1>3. Spec => []RefInv
    BY <1>1, RefInductive
  <1>4. Spec => Abstract!Spec
    BY RefInit, <1>2, <1>3, PTL DEF Spec, Abstract!Spec
  <1> QED BY <1>4 DEF ImplementsBoard
=============================================================================
