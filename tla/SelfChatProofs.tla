---------------------------- MODULE SelfChatProofs ----------------------------
(***************************************************************************)
(* SelfChat, proved for any number of commands, rounds and failures:       *)
(* answers reach WhatsApp in the order of the messages, and the transcript *)
(* holds a question before its answer.  The first rests on the lock and on *)
(* cancelling: whoever posts is the newest command registered.             *)
(***************************************************************************)
EXTENDS SelfChat, SequenceTheorems, TLAPS

Busy == {"post", "await", "send"}

(* Commands register in order, and a turn belongs to a command that posted. *)
Registered ==
  \A c \in Cmd :
    /\ phase[c] # "none" <=> c <= newest
    /\ turn[c].pc # "none" => phase[c] \in {"await", "send", "over"}
    /\ phase[c] = "send" => turn[c].pc = "end" /\ turn[c].out \in {"reply", "rejected", "error"}
    /\ turn[c].pc \in {"open", "create", "ask", "say", "model"} =>
         turn[c].rounds < MaxRounds

(* Of the registered commands only the newest is not cancelled; the lock is *)
(* held by the one command that is busy; and when a command has posted,     *)
(* everything sent so far answers older ones.                               *)
InOrder ==
  /\ \A c \in Cmd : phase[c] # "none" <=> c <= newest
  /\ \A c \in Cmd : (c <= newest /\ c \notin cancelled) => c = newest
  /\ \A c \in Cmd : phase[c] \in Busy <=> lock = c
  /\ \A i \in DOMAIN sent : phase[sent[i][1]] = "over"
  /\ \A c \in Cmd : phase[c] \in {"await", "send"} =>
       \A i \in DOMAIN sent : sent[i][1] < c
  /\ RepliesInOrder

LEMMA ChatBounds == MaxCmd \in Nat /\ MaxRounds \in Nat /\ MaxRounds > 0 /\ MaxMishaps \in Nat
BY ChatAssumption

USE ChatBounds

(* A step of the API writes one turn, of a command that has posted.         *)
LEMMA PutTurn ==
  ASSUME ChatTypeOK, Registered, NEW c \in Cmd, NEW v \in Turn,
         turn' = [turn EXCEPT ![c] = v], UNCHANGED <<phase, newest>>,
         phase[c] \in {"await", "over"},
         v.pc \in {"open", "create", "ask", "say", "model"} => v.rounds < MaxRounds
  PROVE  turn' \in [Cmd -> Turn] /\ Registered'
<1>1. turn' \in [Cmd -> Turn]
  BY DEF ChatTypeOK
<1>2. turn'[c] = v /\ \A d \in Cmd \ {c} : turn'[d] = turn[d]
  BY DEF ChatTypeOK
<1>3. Registered'
  BY <1>2 DEF Registered
<1> QED BY <1>1, <1>3

(* A command is busy with its request as long as its turn goes on.          *)
LEMMA TurnPosted ==
  ASSUME ChatTypeOK, Registered, NEW c \in Cmd, turn[c].pc \notin {"none", "end"}
  PROVE  phase[c] \in {"await", "over"} /\ c <= newest
BY DEF ChatTypeOK, Registered, Cmd

LEMMA RegisterType ==
  ASSUME ChatTypeOK, Registered, NEW c \in Cmd, Register(c) PROVE ChatTypeOK' /\ Registered'
<1>1. ChatTypeOK'
  BY DEF ChatTypeOK, Registered, Register, apiVars, Turn, Cmd
<1>2. Registered'
  BY DEF ChatTypeOK, Registered, Register, apiVars, Turn, Cmd
<1> QED BY <1>1, <1>2

LEMMA AcquireType ==
  ASSUME ChatTypeOK, Registered, NEW c \in Cmd, Acquire(c) PROVE ChatTypeOK' /\ Registered'
<1>1. ChatTypeOK'
  BY DEF ChatTypeOK, Registered, Acquire, apiVars, Turn, Cmd
<1>2. Registered'
  BY DEF ChatTypeOK, Registered, Acquire, apiVars, Turn, Cmd
<1> QED BY <1>1, <1>2

LEMMA PostType ==
  ASSUME ChatTypeOK, Registered, NEW c \in Cmd, Post(c) PROVE ChatTypeOK' /\ Registered'
<1>1. ChatTypeOK'
  <2>1. turn[c] \in Turn
    BY DEF ChatTypeOK
  <2>2. turn' \in [Cmd -> Turn]
    <3>1. \A f \in BOOLEAN : Begin("open", f, IF f THEN "reply" ELSE "none") \in Turn
      BY DEF Begin, Turn
    <3> QED BY <3>1 DEF ChatTypeOK, Post
  <2>4. log' \in [Session -> Seq(Entry)]
    BY DEF ChatTypeOK, Post
  <2>5. phase' \in [Cmd -> {"none", "wait", "post", "await", "send", "over"}] /\ lock' \in 0..MaxCmd
    BY DEF ChatTypeOK, Post, Leave, Cmd
  <2>6. UNCHANGED <<streaming, text, cancelled, newest, sent, opened, recent, mishaps>>
    BY DEF Post
  <2> QED BY <2>2, <2>4, <2>5, <2>6 DEF ChatTypeOK
<1>2. Registered'
  <2>1. CASE c \in cancelled
    BY <2>1 DEF ChatTypeOK, Registered, Post, Leave
  <2>2. CASE c \notin cancelled
    <3>1. PICK f \in BOOLEAN :
            turn' = [turn EXCEPT ![c] = Begin("open", f, IF f THEN "reply" ELSE "none")]
      BY <2>2 DEF Post
    <3>2. phase' = [phase EXCEPT ![c] = "await"] /\ newest' = newest
      BY <2>2 DEF Post
    <3>3. turn'[c].pc = "open" /\ turn'[c].rounds = 0
      BY <3>1 DEF ChatTypeOK, Begin
    <3> QED BY <3>1, <3>2, <3>3 DEF ChatTypeOK, Registered, Post
  <2> QED BY <2>1, <2>2
<1> QED BY <1>1, <1>2

LEMMA GiveUpType ==
  ASSUME ChatTypeOK, Registered, NEW c \in Cmd, GiveUp(c) PROVE ChatTypeOK' /\ Registered'
<1>1. ChatTypeOK'
  <2>1. mishaps' \in 0..MaxMishaps
    BY DEF ChatTypeOK, GiveUp, Mishap
  <2>2. phase' \in [Cmd -> {"none", "wait", "post", "await", "send", "over"}] /\ lock' \in 0..MaxCmd
    BY DEF ChatTypeOK, GiveUp, Leave
  <2>3. UNCHANGED <<streaming, text, cancelled, newest, sent, turn, opened, recent, log>>
    BY DEF GiveUp, apiVars
  <2> QED BY <2>1, <2>2, <2>3 DEF ChatTypeOK
<1>2. Registered'
  BY DEF ChatTypeOK, Registered, GiveUp, Leave, Mishap, apiVars, Turn, Cmd
<1> QED BY <1>1, <1>2

LEMMA ReceiveType ==
  ASSUME ChatTypeOK, Registered, NEW c \in Cmd, Receive(c) PROVE ChatTypeOK' /\ Registered'
<1>1. ChatTypeOK'
  <2>1. turn[c] \in Turn
    BY DEF ChatTypeOK
  <2>2. turn' \in [Cmd -> Turn]
    BY <2>1 DEF ChatTypeOK, Receive, Leave, Turn
  <2>4. log' \in [Session -> Seq(Entry)]
    BY DEF ChatTypeOK, Receive
  <2>5. phase' \in [Cmd -> {"none", "wait", "post", "await", "send", "over"}] /\ lock' \in 0..MaxCmd
    <3>1. \/ phase' = [phase EXCEPT ![c] = "send"] /\ lock' = lock
          \/ phase' = [phase EXCEPT ![c] = "over"] /\ lock' = 0
      BY Zenon DEF Receive, Leave
    <3> QED BY <3>1 DEF ChatTypeOK
  <2>6. UNCHANGED <<streaming, text, cancelled, newest, sent, opened, recent, mishaps>>
    BY DEF Receive
  <2> QED BY <2>2, <2>4, <2>5, <2>6 DEF ChatTypeOK
<1>2. Registered'
  BY DEF ChatTypeOK, Registered, Receive, Leave, Turn, Cmd
<1> QED BY <1>1, <1>2

LEMMA SendReplyType ==
  ASSUME ChatTypeOK, Registered, NEW c \in Cmd, SendReply(c) PROVE ChatTypeOK' /\ Registered'
<1>1. ChatTypeOK'
  <2>1. turn[c].out \in {"reply", "rejected", "error"}
    BY DEF Registered, SendReply
  <2>2. sent' \in Seq(Cmd \X {"reply", "rejected", "error"})
    <3>1. <<c, turn[c].out>> \in Cmd \X {"reply", "rejected", "error"}
      BY <2>1
    <3>2. sent \in Seq(Cmd \X {"reply", "rejected", "error"})
      BY DEF ChatTypeOK
    <3>3. Append(sent, <<c, turn[c].out>>) \in Seq(Cmd \X {"reply", "rejected", "error"})
      BY <3>1, <3>2, AppendProperties
    <3> QED BY <3>2, <3>3 DEF SendReply
  <2>3. phase' \in [Cmd -> {"none", "wait", "post", "await", "send", "over"}] /\ lock' \in 0..MaxCmd
    BY DEF ChatTypeOK, SendReply, Leave
  <2>4. mishaps' \in 0..MaxMishaps
    BY DEF ChatTypeOK, SendReply, Mishap
  <2>5. UNCHANGED <<streaming, text, cancelled, newest, turn, opened, recent, log>>
    BY DEF SendReply, apiVars
  <2> QED BY <2>2, <2>3, <2>4, <2>5 DEF ChatTypeOK
<1>2. Registered'
  BY DEF ChatTypeOK, Registered, SendReply, Leave, Mishap, apiVars, Turn, Cmd
<1> QED BY <1>1, <1>2

LEMMA OpenSessionType ==
  ASSUME ChatTypeOK, Registered, NEW c \in Cmd, OpenSession(c) PROVE ChatTypeOK' /\ Registered'
<1>1. ChatTypeOK'
  <2>1. turn[c] \in Turn
    BY DEF ChatTypeOK
  <2>2. turn' \in [Cmd -> Turn]
    <3>1. [turn[c] EXCEPT !.pc = "ask", !.session = recent] \in Turn
      BY <2>1 DEF ChatTypeOK, Turn
    <3>2. [turn[c] EXCEPT !.pc = "create"] \in Turn
      BY <2>1 DEF Turn
    <3> QED BY <3>1, <3>2 DEF ChatTypeOK, OpenSession, At
  <2>4. log' \in [Session -> Seq(Entry)]
    BY DEF ChatTypeOK, OpenSession
  <2>5. recent' \in 0..MaxCmd /\ mishaps' \in 0..MaxMishaps
    BY <2>1 DEF ChatTypeOK, OpenSession, Mishap
  <2>6. UNCHANGED <<streaming, text, phase, cancelled, newest, lock, sent, opened>>
    BY DEF OpenSession, goVars
  <2> QED BY <2>2, <2>4, <2>5, <2>6 DEF ChatTypeOK
<1>2. Registered'
  <2>1. turn[c] \in Turn /\ turn[c].pc = "open" /\ UNCHANGED <<phase, newest>>
    BY DEF ChatTypeOK, OpenSession, goVars
  <2>2. phase[c] \in {"await", "over"} /\ turn[c].rounds < MaxRounds
    BY <2>1, TurnPosted DEF Registered
  <2>3. ASSUME NEW v \in Turn, v.rounds = turn[c].rounds, turn' = [turn EXCEPT ![c] = v]
        PROVE  Registered'
    BY <2>1, <2>2, <2>3, PutTurn
  <2>4. CASE recent # 0
    <3> DEFINE v == [turn[c] EXCEPT !.pc = "ask", !.session = recent]
    <3>1. v \in Turn /\ v.rounds = turn[c].rounds /\ turn' = [turn EXCEPT ![c] = v]
      BY <2>1, <2>4 DEF ChatTypeOK, OpenSession, Turn
    <3> HIDE DEF v
    <3> QED BY <2>3, <3>1
  <2>5. CASE recent = 0
    <3> DEFINE v == [turn[c] EXCEPT !.pc = "create"]
    <3>1. v \in Turn /\ v.rounds = turn[c].rounds /\ turn' = [turn EXCEPT ![c] = v]
      BY <2>1, <2>5 DEF ChatTypeOK, OpenSession, At, Turn
    <3> HIDE DEF v
    <3> QED BY <2>3, <3>1
  <2> QED BY <2>4, <2>5
<1> QED BY <1>1, <1>2

LEMMA CreateSessionType ==
  ASSUME ChatTypeOK, Registered, NEW c \in Cmd, CreateSession(c) PROVE ChatTypeOK' /\ Registered'
<1>1. ChatTypeOK'
  <2>1. turn[c] \in Turn
    BY DEF ChatTypeOK
  <2>2. turn' \in [Cmd -> Turn]
    <3>1. ASSUME NEW s \in Session
          PROVE  [turn[c] EXCEPT !.pc = "ask", !.session = s] \in Turn
      <4>1. s \in 0..MaxCmd
        BY DEF Session
      <4> QED BY <2>1, <4>1 DEF Turn
    <3> QED BY <3>1 DEF ChatTypeOK, CreateSession
  <2>4. log' \in [Session -> Seq(Entry)]
    BY DEF ChatTypeOK, CreateSession
  <2>5. opened' \subseteq Session /\ recent' \in 0..MaxCmd
    BY DEF ChatTypeOK, CreateSession, Session
  <2>6. UNCHANGED <<streaming, text, phase, cancelled, newest, lock, sent, mishaps>>
    BY DEF CreateSession, goVars
  <2> QED BY <2>2, <2>4, <2>5, <2>6 DEF ChatTypeOK
<1>2. Registered'
  BY DEF ChatTypeOK, Registered, CreateSession, goVars, Turn, Cmd
<1> QED BY <1>1, <1>2

LEMMA AskReadType ==
  ASSUME ChatTypeOK, Registered, NEW c \in Cmd, AskRead(c) PROVE ChatTypeOK' /\ Registered'
<1>1. ChatTypeOK'
  <2>1. turn[c] \in Turn
    BY DEF ChatTypeOK
  <2>2. turn' \in [Cmd -> Turn]
    BY <2>1 DEF ChatTypeOK, AskRead, At, AfterAsk, Turn
  <2>4. log' \in [Session -> Seq(Entry)]
    BY DEF ChatTypeOK, AskRead
  <2>5. recent' \in 0..MaxCmd /\ mishaps' \in 0..MaxMishaps
    BY <2>1 DEF ChatTypeOK, AskRead, Mishap
  <2>6. UNCHANGED <<streaming, text, phase, cancelled, newest, lock, sent, opened>>
    BY DEF AskRead, goVars
  <2> QED BY <2>2, <2>4, <2>5, <2>6 DEF ChatTypeOK
<1>2. Registered'
  BY DEF ChatTypeOK, Registered, AskRead, At, AfterAsk, goVars, Turn, Cmd
<1> QED BY <1>1, <1>2

LEMMA AskWriteType ==
  ASSUME ChatTypeOK, Registered, NEW c \in Cmd, AskWrite(c) PROVE ChatTypeOK' /\ Registered'
<1>1. ChatTypeOK'
  <2>1. turn[c] \in Turn
    BY DEF ChatTypeOK
  <2>2. turn' \in [Cmd -> Turn]
    BY <2>1 DEF ChatTypeOK, AskWrite, At, AfterAsk, Store, UserSays, Turn
  <2>3. UserSays(c) \in Entry
    <3>1. text \in Seq(Text) /\ c \in 1..Len(text)
      BY TurnPosted DEF ChatTypeOK, AskWrite, Cmd
    <3>2. text[c] \in Text
      BY <3>1, ElementOfSeq
    <3> QED BY <3>2 DEF UserSays, Entry
  <2>4. log' \in [Session -> Seq(Entry)]
    <3>1. log' = [log EXCEPT ![turn[c].session] = Append(@, UserSays(c))]
      BY DEF AskWrite, Store
    <3>2. \A s \in Session : Append(log[s], UserSays(c)) \in Seq(Entry)
      BY <2>3, AppendProperties DEF ChatTypeOK
    <3> QED BY <3>1, <3>2 DEF ChatTypeOK
  <2>5. recent' \in 0..MaxCmd /\ mishaps' \in 0..MaxMishaps
    BY <2>1 DEF ChatTypeOK, AskWrite, Mishap
  <2>6. UNCHANGED <<streaming, text, phase, cancelled, newest, lock, sent, opened>>
    BY DEF AskWrite, goVars
  <2> QED BY <2>2, <2>4, <2>5, <2>6 DEF ChatTypeOK
<1>2. Registered'
  BY DEF ChatTypeOK, Registered, AskWrite, At, AfterAsk, Store, UserSays, goVars, Turn, Cmd
<1> QED BY <1>1, <1>2

LEMMA ModelRoundType ==
  ASSUME ChatTypeOK, Registered, NEW c \in Cmd, ModelRound(c) PROVE ChatTypeOK' /\ Registered'
<1>1. turn[c] \in Turn /\ turn[c].pc = "model"
  BY DEF ChatTypeOK, ModelRound
<1>2. turn[c].rounds + 1 \in 0..MaxRounds /\ phase[c] \in {"await", "over"}
  BY <1>1, TurnPosted DEF Registered, Turn
<1>3. UNCHANGED <<streaming, text, phase, cancelled, newest, lock, sent, opened, recent, log, mishaps>>
  BY DEF ModelRound, goVars
<1>4. turn' \in [Cmd -> Turn] /\ Registered'
  <2>1. CASE turn' = [turn EXCEPT ![c] = [@ EXCEPT !.pc = "check", !.out = "reply"]]
    <3> DEFINE v == [turn[c] EXCEPT !.pc = "check", !.out = "reply"]
    <3>1. v \in Turn /\ v.pc = "check" /\ turn' = [turn EXCEPT ![c] = v]
      BY <1>1, <2>1 DEF Turn
    <3> HIDE DEF v
    <3> QED BY <1>2, <1>3, <3>1, PutTurn
  <2>2. CASE turn[c].rounds + 1 < MaxRounds /\ turn' = [turn EXCEPT ![c].rounds = @ + 1]
    <3> DEFINE v == [turn[c] EXCEPT !.rounds = turn[c].rounds + 1]
    <3>1. v \in Turn /\ v.rounds < MaxRounds /\ turn' = [turn EXCEPT ![c] = v]
      BY <1>1, <1>2, <2>2 DEF Turn
    <3> HIDE DEF v
    <3> QED BY <1>2, <1>3, <3>1, PutTurn
  <2>3. CASE turn' = [turn EXCEPT ![c] = [@ EXCEPT !.rounds = turn[c].rounds + 1,
                                                  !.pc = "answered", !.out = "error"]]
    <3> DEFINE v == [turn[c] EXCEPT !.rounds = turn[c].rounds + 1, !.pc = "answered",
                                    !.out = "error"]
    <3>1. v \in Turn /\ v.pc = "answered"
      BY <1>1, <1>2 DEF Turn
    <3>2. turn' = [turn EXCEPT ![c] = v]
      BY <2>3
    <3> HIDE DEF v
    <3> QED BY <1>2, <1>3, <3>1, <3>2, PutTurn
  <2> QED BY <2>1, <2>2, <2>3 DEF ModelRound
<1> QED BY <1>3, <1>4 DEF ChatTypeOK

LEMMA ModelRejectsType ==
  ASSUME ChatTypeOK, Registered, NEW c \in Cmd, ModelRejects(c) PROVE ChatTypeOK' /\ Registered'
<1>1. turn[c] \in Turn /\ turn[c].pc = "model"
  BY DEF ChatTypeOK, ModelRejects
<1>2. phase[c] \in {"await", "over"} /\ 0 \in 0..MaxRounds /\ 0 < MaxRounds
  BY <1>1, TurnPosted
<1>3. UNCHANGED <<streaming, text, phase, cancelled, newest, lock, sent, opened, recent, log>>
  BY DEF ModelRejects, goVars
<1>4. turn' \in [Cmd -> Turn] /\ Registered'
  <2>1. CASE turn' = [turn EXCEPT ![c] = [@ EXCEPT !.retried = TRUE, !.rounds = 0]]
    <3> DEFINE v == [turn[c] EXCEPT !.retried = TRUE, !.rounds = 0]
    <3>1. v \in Turn /\ v.rounds = 0 /\ turn' = [turn EXCEPT ![c] = v]
      BY <1>1, <1>2, <2>1 DEF Turn
    <3> HIDE DEF v
    <3> QED BY <1>2, <1>3, <3>1, PutTurn
  <2>2. CASE turn' = [turn EXCEPT ![c] = [@ EXCEPT !.pc = "open", !.settled = TRUE,
                                                  !.out = "reply"]]
    <3> DEFINE v == [turn[c] EXCEPT !.pc = "open", !.settled = TRUE, !.out = "reply"]
    <3>1. v \in Turn /\ v.rounds = turn[c].rounds /\ turn' = [turn EXCEPT ![c] = v]
      BY <1>1, <2>2 DEF Turn
    <3>2. turn[c].rounds < MaxRounds
      BY <1>1 DEF Registered
    <3> HIDE DEF v
    <3> QED BY <1>2, <1>3, <3>1, <3>2, PutTurn
  <2>3. CASE turn' = [turn EXCEPT ![c] = [@ EXCEPT !.pc = "answered", !.out = "rejected"]]
    <3> DEFINE v == [turn[c] EXCEPT !.pc = "answered", !.out = "rejected"]
    <3>1. v \in Turn /\ v.pc = "answered" /\ turn' = [turn EXCEPT ![c] = v]
      BY <1>1, <2>3 DEF Turn
    <3> HIDE DEF v
    <3> QED BY <1>2, <1>3, <3>1, PutTurn
  <2> QED BY <2>1, <2>2, <2>3 DEF ModelRejects
<1>5. mishaps' \in 0..MaxMishaps
  BY DEF ChatTypeOK, ModelRejects, Mishap
<1> QED BY <1>3, <1>4, <1>5 DEF ChatTypeOK

LEMMA AnswerReadType ==
  ASSUME ChatTypeOK, Registered, NEW c \in Cmd, AnswerRead(c) PROVE ChatTypeOK' /\ Registered'
<1>1. ChatTypeOK'
  <2>1. turn[c] \in Turn
    BY DEF ChatTypeOK
  <2>2. turn' \in [Cmd -> Turn]
    BY <2>1 DEF ChatTypeOK, AnswerRead, At, Turn
  <2>4. log' \in [Session -> Seq(Entry)]
    BY DEF ChatTypeOK, AnswerRead
  <2>5. recent' \in 0..MaxCmd /\ mishaps' \in 0..MaxMishaps
    BY <2>1 DEF ChatTypeOK, AnswerRead, Mishap
  <2>6. UNCHANGED <<streaming, text, phase, cancelled, newest, lock, sent, opened>>
    BY DEF AnswerRead, goVars
  <2> QED BY <2>2, <2>4, <2>5, <2>6 DEF ChatTypeOK
<1>2. Registered'
  BY DEF ChatTypeOK, Registered, AnswerRead, At, goVars, Turn, Cmd
<1> QED BY <1>1, <1>2

LEMMA AnswerWriteType ==
  ASSUME ChatTypeOK, Registered, NEW c \in Cmd, AnswerWrite(c) PROVE ChatTypeOK' /\ Registered'
<1>1. ChatTypeOK'
  <2>1. turn[c] \in Turn
    BY DEF ChatTypeOK
  <2>2. turn' \in [Cmd -> Turn]
    BY <2>1 DEF ChatTypeOK, AnswerWrite, At, Store, AgentSays, Turn
  <2>3. AgentSays(c) \in Entry
    BY DEF AgentSays, Entry
  <2>4. log' \in [Session -> Seq(Entry)]
    <3>1. log' = [log EXCEPT ![turn[c].session] = Append(@, AgentSays(c))]
      BY DEF AnswerWrite, Store
    <3>2. \A s \in Session : Append(log[s], AgentSays(c)) \in Seq(Entry)
      BY <2>3, AppendProperties DEF ChatTypeOK
    <3> QED BY <3>1, <3>2 DEF ChatTypeOK
  <2>5. recent' \in 0..MaxCmd /\ mishaps' \in 0..MaxMishaps
    BY <2>1 DEF ChatTypeOK, AnswerWrite, Mishap, Turn
  <2>6. UNCHANGED <<streaming, text, phase, cancelled, newest, lock, sent, opened>>
    BY DEF AnswerWrite, goVars
  <2> QED BY <2>2, <2>4, <2>5, <2>6 DEF ChatTypeOK
<1>2. Registered'
  BY DEF ChatTypeOK, Registered, AnswerWrite, At, Store, AgentSays, goVars, Turn, Cmd
<1> QED BY <1>1, <1>2

LEMMA TurnFailsType ==
  ASSUME ChatTypeOK, Registered, NEW c \in Cmd, TurnFails(c) PROVE ChatTypeOK' /\ Registered'
<1>1. /\ turn[c] \in Turn /\ turn[c].pc \notin {"none", "end"}
      /\ UNCHANGED <<streaming, text, phase, cancelled, newest, lock, sent, opened, recent, log>>
  BY DEF ChatTypeOK, TurnFails, goVars
<1>2. phase[c] \in {"await", "over"}
  BY <1>1, TurnPosted
<1>3. PICK out \in {"reply", "error", "silent"} :
        turn' = [turn EXCEPT ![c] = [@ EXCEPT !.pc = "answered", !.out = out]]
  BY Zenon DEF TurnFails
<1>4. turn' \in [Cmd -> Turn] /\ Registered'
  <2> DEFINE v == [turn[c] EXCEPT !.pc = "answered", !.out = out]
  <2>1. v \in Turn /\ v.pc = "answered" /\ turn' = [turn EXCEPT ![c] = v]
    BY <1>1, <1>3 DEF Turn
  <2> HIDE DEF v
  <2> QED BY <1>1, <1>2, <2>1, PutTurn
<1>5. mishaps' \in 0..MaxMishaps
  BY DEF ChatTypeOK, TurnFails, Mishap
<1> QED BY <1>1, <1>4, <1>5 DEF ChatTypeOK

LEMMA UnreadType ==
  ASSUME ChatTypeOK, Registered, NEW c \in Cmd, Unread(c) PROVE ChatTypeOK' /\ Registered'
<1>1. ChatTypeOK'
  BY DEF ChatTypeOK, Registered, Unread, At, goVars, Turn, Cmd
<1>2. Registered'
  BY DEF ChatTypeOK, Registered, Unread, At, goVars, Turn, Cmd
<1> QED BY <1>1, <1>2

(* A busy command that leaves frees the lock.                               *)
LEMMA LeaveOrder ==
  ASSUME ChatTypeOK, InOrder, NEW c \in Cmd, phase[c] \in Busy, Leave(c),
         UNCHANGED <<cancelled, newest, sent>>
  PROVE  InOrder'
<1>1. lock = c /\ lock' = 0
  BY DEF InOrder, Leave
<1>2. phase'[c] = "over" /\ \A d \in Cmd \ {c} : phase'[d] = phase[d]
  BY DEF ChatTypeOK, Leave
<1>3. (\A d \in Cmd : phase[d] # "none" <=> d <= newest)'
  BY <1>2 DEF InOrder, Busy
<1>4. (\A d \in Cmd : phase[d] \in Busy <=> lock = d)'
  BY <1>1, <1>2 DEF InOrder, Busy, Cmd
<1>5. (\A i \in DOMAIN sent : phase[sent[i][1]] = "over")'
  BY <1>2 DEF InOrder, ChatTypeOK
<1>6. (\A d \in Cmd : phase[d] \in {"await", "send"} => \A i \in DOMAIN sent : sent[i][1] < d)'
  BY <1>2 DEF InOrder
<1> QED BY <1>3, <1>4, <1>5, <1>6 DEF InOrder, RepliesInOrder

LEMMA RegisterOrder ==
  ASSUME ChatTypeOK, InOrder, NEW c \in Cmd, Register(c) PROVE InOrder'
<1>1. /\ newest = c - 1 /\ newest' = c /\ newest \in Nat
      /\ phase' = [phase EXCEPT ![c] = "wait"] /\ phase[c] = "none"
      /\ cancelled' = cancelled \cup ({newest} \ {0})
      /\ lock' = lock /\ sent' = sent
  BY DEF Register, ChatTypeOK
<1>2. phase'[c] = "wait" /\ \A d \in Cmd \ {c} : phase'[d] = phase[d]
  BY <1>1 DEF ChatTypeOK
<1>3. (\A d \in Cmd : phase[d] # "none" <=> d <= newest)'
  BY <1>1, <1>2 DEF InOrder, Cmd
<1>4. (\A d \in Cmd : (d <= newest /\ d \notin cancelled) => d = newest)'
  BY <1>1 DEF InOrder, Cmd
<1>5. (\A d \in Cmd : phase[d] \in Busy <=> lock = d)'
  BY <1>1, <1>2 DEF InOrder, Busy
<1>6. (\A i \in DOMAIN sent : phase[sent[i][1]] = "over")'
  BY <1>1 DEF InOrder, ChatTypeOK
<1>7. (\A d \in Cmd : phase[d] \in {"await", "send"} => \A i \in DOMAIN sent : sent[i][1] < d)'
  BY <1>1, <1>2 DEF InOrder
<1> QED BY <1>1, <1>3, <1>4, <1>5, <1>6, <1>7 DEF InOrder, RepliesInOrder

LEMMA AcquireOrder ==
  ASSUME ChatTypeOK, InOrder, NEW c \in Cmd, Acquire(c) PROVE InOrder'
<1>1. /\ phase[c] = "wait" /\ lock = 0 /\ lock' = c
      /\ UNCHANGED <<cancelled, newest, sent>>
  BY DEF Acquire
<1>2. phase'[c] = "post" /\ \A d \in Cmd \ {c} : phase'[d] = phase[d]
  BY DEF Acquire, ChatTypeOK
<1>3. (\A d \in Cmd : phase[d] # "none" <=> d <= newest)'
  BY <1>1, <1>2 DEF InOrder
<1>4. (\A d \in Cmd : phase[d] \in Busy <=> lock = d)'
  BY <1>1, <1>2 DEF InOrder, Busy, Cmd
<1>5. (\A i \in DOMAIN sent : phase[sent[i][1]] = "over")'
  BY <1>1, <1>2 DEF InOrder, ChatTypeOK
<1>6. (\A d \in Cmd : phase[d] \in {"await", "send"} => \A i \in DOMAIN sent : sent[i][1] < d)'
  BY <1>1, <1>2 DEF InOrder
<1> QED BY <1>1, <1>3, <1>4, <1>5, <1>6 DEF InOrder, RepliesInOrder

(* Whoever posts is not cancelled, hence the newest; what was sent before    *)
(* answers other commands, and those are older.                             *)
LEMMA PostOrder ==
  ASSUME ChatTypeOK, InOrder, NEW c \in Cmd, Post(c) PROVE InOrder'
<1>1. phase[c] = "post" /\ UNCHANGED <<cancelled, newest, sent>>
  BY DEF Post
<1>2. CASE c \in cancelled
  BY <1>1, <1>2, LeaveOrder DEF Busy, Post
<1>3. CASE c \notin cancelled
  <2>1. phase' = [phase EXCEPT ![c] = "await"] /\ lock' = lock
    BY <1>3 DEF Post
  <2>2. phase'[c] = "await" /\ \A d \in Cmd \ {c} : phase'[d] = phase[d]
    BY <2>1 DEF ChatTypeOK
  <2>3. c = newest
    BY <1>1, <1>3 DEF InOrder
  <2>4. ASSUME NEW i \in DOMAIN sent PROVE sent[i][1] \in Cmd /\ sent[i][1] < c
    <3>1. sent[i] \in Cmd \X {"reply", "rejected", "error"}
      BY DEF ChatTypeOK
    <3>2. sent[i][1] \in Cmd /\ phase[sent[i][1]] = "over"
      BY <3>1 DEF InOrder
    <3>3. sent[i][1] <= newest /\ sent[i][1] # c
      BY <1>1, <3>2 DEF InOrder
    <3> QED BY <2>3, <3>2, <3>3 DEF Cmd
  <2>5. (\A d \in Cmd : phase[d] # "none" <=> d <= newest)'
    BY <1>1, <2>2 DEF InOrder
  <2>6. (\A d \in Cmd : phase[d] \in Busy <=> lock = d)'
    BY <1>1, <2>1, <2>2 DEF InOrder, Busy
  <2>7. (\A i \in DOMAIN sent : phase[sent[i][1]] = "over")'
    BY <1>1, <2>2, <2>4 DEF InOrder, Cmd
  <2>8. (\A d \in Cmd : phase[d] \in {"await", "send"} => \A i \in DOMAIN sent : sent[i][1] < d)'
    BY <1>1, <2>2, <2>4 DEF InOrder
  <2> QED BY <1>1, <2>5, <2>6, <2>7, <2>8 DEF InOrder, RepliesInOrder
<1> QED BY <1>2, <1>3

LEMMA GiveUpOrder ==
  ASSUME ChatTypeOK, InOrder, NEW c \in Cmd, GiveUp(c) PROVE InOrder'
BY LeaveOrder DEF Busy, GiveUp

LEMMA ReceiveOrder ==
  ASSUME ChatTypeOK, InOrder, NEW c \in Cmd, Receive(c) PROVE InOrder'
<1>1. phase[c] = "await" /\ UNCHANGED <<cancelled, newest, sent>>
  BY DEF Receive
<1>2. CASE Leave(c)
  BY <1>1, <1>2, LeaveOrder DEF Busy
<1>3. CASE phase' = [phase EXCEPT ![c] = "send"] /\ lock' = lock
  <2>1. phase'[c] = "send" /\ \A d \in Cmd \ {c} : phase'[d] = phase[d]
    BY <1>3 DEF ChatTypeOK
  <2>2. \A i \in DOMAIN sent : sent[i][1] \in Cmd \ {c}
    BY <1>1 DEF InOrder, ChatTypeOK
  <2>3. (\A d \in Cmd : phase[d] # "none" <=> d <= newest)'
    BY <1>1, <2>1 DEF InOrder
  <2>4. (\A d \in Cmd : phase[d] \in Busy <=> lock = d)'
    BY <1>1, <1>3, <2>1 DEF InOrder, Busy
  <2>5. (\A i \in DOMAIN sent : phase[sent[i][1]] = "over")'
    BY <1>1, <2>1, <2>2 DEF InOrder
  <2>6. (\A d \in Cmd : phase[d] \in {"await", "send"} => \A i \in DOMAIN sent : sent[i][1] < d)'
    BY <1>1, <2>1 DEF InOrder
  <2> QED BY <1>1, <2>3, <2>4, <2>5, <2>6 DEF InOrder, RepliesInOrder
<1> QED BY Zenon, <1>2, <1>3 DEF Receive

LEMMA SendReplyOrder ==
  ASSUME ChatTypeOK, Registered, InOrder, NEW c \in Cmd, SendReply(c) PROVE InOrder'
<1>1. phase[c] = "send" /\ phase' = [phase EXCEPT ![c] = "over"] /\ lock' = 0
      /\ UNCHANGED <<cancelled, newest>>
  BY DEF SendReply, Leave
<1>2. phase'[c] = "over" /\ \A d \in Cmd \ {c} : phase'[d] = phase[d]
  BY <1>1 DEF ChatTypeOK
<1>3. lock = c
  BY <1>1 DEF InOrder, Busy
<1>4. (\A d \in Cmd : phase[d] # "none" <=> d <= newest)'
  BY <1>1, <1>2 DEF InOrder
<1>5. (\A d \in Cmd : phase[d] \in Busy <=> lock = d)'
  BY <1>1, <1>2, <1>3 DEF InOrder, Busy, Cmd
<1>6. \A d \in Cmd : phase'[d] \notin {"await", "send"}
  BY <1>1, <1>5 DEF Busy, Cmd
<1>7. CASE sent' = sent
  BY <1>1, <1>2, <1>4, <1>5, <1>6, <1>7 DEF InOrder, RepliesInOrder, ChatTypeOK
<1>8. CASE sent' = Append(sent, <<c, turn[c].out>>)
  <2>1. sent \in Seq(Cmd \X {"reply", "rejected", "error"}) /\ turn[c].out \in {"reply", "rejected", "error"}
    BY <1>1 DEF ChatTypeOK, Registered
  <2>2. <<c, turn[c].out>> \in Cmd \X {"reply", "rejected", "error"}
    BY <2>1
  <2>3. /\ Len(sent) \in Nat /\ DOMAIN sent = 1..Len(sent)
        /\ DOMAIN sent' = 1..(Len(sent) + 1)
        /\ \A i \in 1..Len(sent) : sent'[i] = sent[i]
        /\ sent'[Len(sent) + 1] = <<c, turn[c].out>>
    BY <1>8, <2>1, <2>2, AppendProperties, LenProperties
  <2>4. \A i \in DOMAIN sent : sent[i][1] < c /\ phase[sent[i][1]] = "over" /\ sent[i][1] \in Cmd
    BY <1>1, <2>1 DEF InOrder
  <2>5. ASSUME NEW i \in DOMAIN sent' PROVE phase'[sent'[i][1]] = "over"
    <3>1. CASE i \in DOMAIN sent
      BY <1>2, <2>3, <2>4, <3>1 DEF Cmd
    <3>2. CASE i = Len(sent) + 1
      BY <1>2, <2>3, <3>2
    <3> QED BY <2>3, <3>1, <3>2
  <2>6. ASSUME NEW i \in DOMAIN sent', NEW j \in DOMAIN sent', i < j
        PROVE  sent'[i][1] < sent'[j][1]
    <3>1. i \in 1..Len(sent) /\ (j \in 1..Len(sent) \/ j = Len(sent) + 1)
      BY <2>3, <2>6
    <3>2. CASE j \in 1..Len(sent)
      BY <2>3, <2>6, <3>1, <3>2 DEF InOrder, RepliesInOrder
    <3>3. CASE j = Len(sent) + 1
      BY <2>3, <2>4, <3>1, <3>3
    <3> QED BY <3>1, <3>2, <3>3
  <2> QED BY <1>1, <1>4, <1>5, <1>6, <2>5, <2>6 DEF InOrder, RepliesInOrder
<1> QED BY <1>7, <1>8 DEF SendReply

-----------------------------------------------------------------------------
(* The transcript.  A session that a turn writes to exists, and a turn that *)
(* has asked finds its question there.                                      *)
Asked(s, c) == \E k \in DOMAIN log[s] : log[s][k] = UserSays(c)

Grounded ==
  /\ \A c \in Cmd : turn[c].pc \in {"ask", "say", "model", "check", "write"} =>
       turn[c].session \in Session
  /\ \A c \in Cmd : turn[c].pc \in {"model", "check", "write"} => Asked(turn[c].session, c)
  /\ \A s \in Session, c \in Cmd : \A i \in DOMAIN log[s] :
       log[s][i] = AgentSays(c) => c <= newest
  /\ QuestionBeforeAnswer

(* A step that writes no message.                                           *)
LEMMA QuietStep ==
  ASSUME Grounded, NEW c \in Cmd, UNCHANGED <<log, text, newest>>,
         \A d \in Cmd \ {c} : turn'[d] = turn[d],
         turn'[c].pc \in {"ask", "say", "model", "check", "write"} =>
           turn'[c].session \in Session,
         turn'[c].pc \in {"model", "check", "write"} => Asked(turn'[c].session, c)
  PROVE  Grounded'
<1>1. QuestionBeforeAnswer'
  BY DEF Grounded, QuestionBeforeAnswer, UserSays, AgentSays
<1>2. (\A s \in Session, d \in Cmd : \A i \in DOMAIN log[s] :
        log[s][i] = AgentSays(d) => d <= newest)'
  BY DEF Grounded, AgentSays
<1>3. (\A d \in Cmd : turn[d].pc \in {"ask", "say", "model", "check", "write"} =>
        turn[d].session \in Session)'
  BY DEF Grounded
<1>4. (\A d \in Cmd : turn[d].pc \in {"model", "check", "write"} => Asked(turn[d].session, d))'
  BY DEF Grounded, Asked, UserSays
<1> QED BY <1>1, <1>2, <1>3, <1>4 DEF Grounded

(* A step that appends a message to a session.                              *)
LEMMA AppendStep ==
  ASSUME ChatTypeOK, Grounded, NEW s \in Session, NEW e \in Entry,
         log' = [log EXCEPT ![s] = Append(@, e)], UNCHANGED <<text, newest>>,
         \A d \in Cmd : e = AgentSays(d) => Asked(s, d) /\ d <= newest
  PROVE  /\ \A t \in Session, d \in Cmd : Asked(t, d) => Asked(t, d)'
         /\ \A d \in Cmd : e = UserSays(d) => Asked(s, d)'
         /\ (\A t \in Session, d \in Cmd : \A i \in DOMAIN log[t] :
               log[t][i] = AgentSays(d) => d <= newest)'
         /\ QuestionBeforeAnswer'
<1>1. log[s] \in Seq(Entry) /\ log'[s] = Append(log[s], e)
      /\ \A t \in Session \ {s} : log'[t] = log[t]
  BY DEF ChatTypeOK
<1>2. /\ Len(log[s]) \in Nat /\ DOMAIN log[s] = 1..Len(log[s])
      /\ DOMAIN log'[s] = 1..(Len(log[s]) + 1)
      /\ \A i \in 1..Len(log[s]) : log'[s][i] = log[s][i]
      /\ log'[s][Len(log[s]) + 1] = e
  BY <1>1, AppendProperties, LenProperties
<1>3. \A d \in Cmd : UserSays(d)' = UserSays(d) /\ AgentSays(d)' = AgentSays(d)
  BY DEF UserSays, AgentSays
<1>4. ASSUME NEW t \in Session, NEW d \in Cmd, Asked(t, d) PROVE Asked(t, d)'
  <2>1. PICK k \in DOMAIN log[t] : log[t][k] = UserSays(d)
    BY <1>4 DEF Asked
  <2>2. k \in DOMAIN log'[t] /\ log'[t][k] = log[t][k]
    BY <1>1, <1>2
  <2> QED BY <1>3, <2>1, <2>2 DEF Asked
<1>5. ASSUME NEW d \in Cmd, e = UserSays(d) PROVE Asked(s, d)'
  <2>1. Len(log[s]) + 1 \in DOMAIN log'[s]
    BY <1>2
  <2> QED BY <1>2, <1>3, <1>5, <2>1 DEF Asked
<1>6. ASSUME NEW t \in Session, NEW d \in Cmd, NEW i \in DOMAIN log'[t],
             log'[t][i] = AgentSays(d)
      PROVE  d <= newest /\ \E k \in 1..(i - 1) : log'[t][k] = UserSays(d)
  <2>1. CASE i \in DOMAIN log[t]
    <3>1. log'[t][i] = log[t][i] /\ i \in Nat
      BY <1>1, <1>2, <2>1 DEF ChatTypeOK
    <3>2. PICK k \in 1..(i - 1) : log[t][k] = UserSays(d)
      BY <1>6, <2>1, <3>1 DEF Grounded, QuestionBeforeAnswer
    <3>3. k \in DOMAIN log[t]
      BY <2>1, <3>1, <3>2 DEF ChatTypeOK
    <3>4. log'[t][k] = log[t][k]
      BY <1>1, <1>2, <3>3
    <3>5. d <= newest
      BY <1>6, <2>1, <3>1 DEF Grounded
    <3> QED BY <3>2, <3>4, <3>5
  <2>2. CASE t = s /\ i = Len(log[s]) + 1
    <3>1. e = AgentSays(d)
      BY <1>2, <1>6, <2>2
    <3>2. Asked(s, d) /\ d <= newest
      BY <3>1
    <3>3. PICK k \in DOMAIN log[s] : log[s][k] = UserSays(d)
      BY <3>2 DEF Asked
    <3>4. k \in 1..(i - 1) /\ log'[s][k] = log[s][k]
      BY <1>2, <2>2, <3>3
    <3> QED BY <2>2, <3>2, <3>3, <3>4
  <2> QED BY <1>1, <1>2, <2>1, <2>2
<1>7. QuestionBeforeAnswer'
  BY <1>3, <1>6 DEF QuestionBeforeAnswer
<1>8. (\A t \in Session, d \in Cmd : \A i \in DOMAIN log[t] :
        log[t][i] = AgentSays(d) => d <= newest)'
  BY <1>3, <1>6
<1> QED BY <1>4, <1>5, <1>7, <1>8

LEMMA AtTurn ==
  ASSUME ChatTypeOK, NEW c \in Cmd, NEW pc, At(c, pc)
  PROVE  /\ turn'[c].pc = pc /\ turn'[c].session = turn[c].session
         /\ \A d \in Cmd \ {c} : turn'[d] = turn[d]
BY DEF ChatTypeOK, At, Turn

(* A goroutine writes no message; the turns it begins or ends do not write. *)
LEMMA GoGrounded ==
  ASSUME ChatTypeOK, Registered, Grounded, NEW c \in Cmd,
         Acquire(c) \/ Post(c) \/ GiveUp(c) \/ Receive(c) \/ SendReply(c)
  PROVE  Grounded'
<1>1. UNCHANGED <<log, text, newest>>
  BY DEF Acquire, Post, GiveUp, Receive, SendReply, apiVars
<1>2. CASE UNCHANGED turn
  BY <1>1, <1>2, QuietStep DEF Grounded
<1>3. CASE Post(c) /\ c \notin cancelled
  <2>1. PICK f \in BOOLEAN :
          turn' = [turn EXCEPT ![c] = Begin("open", f, IF f THEN "reply" ELSE "none")]
    BY <1>3 DEF Post
  <2>2. turn'[c].pc = "open" /\ \A d \in Cmd \ {c} : turn'[d] = turn[d]
    BY <2>1 DEF ChatTypeOK, Begin
  <2> QED BY <1>1, <2>2, QuietStep
<1>4. CASE Receive(c)
  <2>1. At(c, "end")
    BY <1>4 DEF Receive, At
  <2> QED BY <1>1, <2>1, AtTurn, QuietStep
<1> QED BY <1>2, <1>3, <1>4 DEF Acquire, Post, GiveUp, SendReply, apiVars

(* A new command does not change what the others say.                       *)
LEMMA RegisterGrounded ==
  ASSUME ChatTypeOK, Registered, Grounded, NEW c \in Cmd, Register(c) PROVE Grounded'
<1>1. PICK x \in Text : text' = Append(text, x)
  BY DEF Register
<1>2. newest' = newest + 1 /\ newest \in Nat /\ UNCHANGED <<turn, log>>
  BY DEF Register, apiVars, ChatTypeOK, Cmd
<1>3. \A d \in Cmd : d <= newest => UserSays(d)' = UserSays(d)
  BY <1>1, <1>2, AppendProperties DEF UserSays, ChatTypeOK, Cmd
<1>4. \A d \in Cmd : AgentSays(d)' = AgentSays(d)
  BY DEF AgentSays
<1>5. ASSUME NEW d \in Cmd, turn[d].pc \in {"model", "check", "write"}
      PROVE  Asked(turn[d].session, d)'
  <2>1. d <= newest /\ Asked(turn[d].session, d)
    BY <1>5, TurnPosted DEF Grounded
  <2> QED BY <1>2, <1>3, <2>1 DEF Asked
<1>6. (\A t \in Session, d \in Cmd : \A i \in DOMAIN log[t] :
        log[t][i] = AgentSays(d) => d <= newest)'
  BY <1>2, <1>4 DEF Grounded, Cmd
<1>7. QuestionBeforeAnswer'
  BY <1>2, <1>3, <1>4 DEF Grounded, QuestionBeforeAnswer
<1> QED BY <1>2, <1>5, <1>6, <1>7 DEF Grounded

(* The steps of a turn that look up its session and decide what comes next. *)
LEMMA TurnGrounded ==
  ASSUME ChatTypeOK, Grounded, NEW c \in Cmd,
         \/ OpenSession(c) \/ CreateSession(c) \/ AskRead(c) \/ ModelRound(c)
         \/ ModelRejects(c) \/ AnswerRead(c) \/ TurnFails(c) \/ Unread(c)
  PROVE  Grounded'
<1>1. UNCHANGED <<log, text, newest>>
  BY DEF OpenSession, CreateSession, AskRead, ModelRound, ModelRejects, AnswerRead, TurnFails,
         Unread, goVars
<1>2. turn[c] \in Turn
  BY DEF ChatTypeOK
<1>3. CASE OpenSession(c)
  <2>1. CASE recent # 0
    <3>1. turn' = [turn EXCEPT ![c] = [@ EXCEPT !.pc = "ask", !.session = recent]]
      BY <1>3, <2>1 DEF OpenSession
    <3>2. turn'[c].pc = "ask" /\ turn'[c].session = recent
          /\ \A d \in Cmd \ {c} : turn'[d] = turn[d]
      BY <1>2, <3>1 DEF ChatTypeOK, Turn
    <3>3. recent \in Session
      BY <2>1 DEF ChatTypeOK, Session
    <3> QED BY <1>1, <3>2, <3>3, QuietStep
  <2>2. CASE recent = 0
    <3>1. At(c, "create")
      BY <1>3, <2>2 DEF OpenSession
    <3> QED BY <1>1, <3>1, AtTurn, QuietStep
  <2> QED BY <2>1, <2>2
<1>4. CASE CreateSession(c)
  <2>1. PICK s \in Session :
          turn' = [turn EXCEPT ![c] = [@ EXCEPT !.pc = "ask", !.session = s]]
    BY <1>4 DEF CreateSession
  <2>2. turn'[c].pc = "ask" /\ turn'[c].session = s
        /\ \A d \in Cmd \ {c} : turn'[d] = turn[d]
    BY <1>2, <2>1 DEF ChatTypeOK, Turn
  <2> QED BY <1>1, <2>2, QuietStep
<1>5. CASE AskRead(c)
  <2>1. turn[c].session \in Session
    BY <1>5 DEF AskRead, Grounded
  <2>2. CASE IsLatest(turn[c].session, UserSays(c))
    <3>1. log[turn[c].session] \in Seq(Entry)
      BY <2>1 DEF ChatTypeOK
    <3>2. Len(log[turn[c].session]) \in DOMAIN log[turn[c].session]
      BY <2>2, <3>1, EmptySeq DEF IsLatest
    <3>3. Asked(turn[c].session, c)
      BY <2>2, <3>2 DEF Asked, IsLatest
    <3>4. At(c, AfterAsk(c))
      BY <1>5, <2>2 DEF AskRead
    <3> QED BY <1>1, <2>1, <3>3, <3>4, AtTurn, QuietStep
  <2>3. CASE ~IsLatest(turn[c].session, UserSays(c))
    <3>1. At(c, "say")
      BY <1>5, <2>3 DEF AskRead
    <3> QED BY <1>1, <2>1, <3>1, AtTurn, QuietStep
  <2> QED BY <2>2, <2>3
<1>6. CASE AnswerRead(c)
  <2>1. turn[c].session \in Session /\ Asked(turn[c].session, c)
    BY <1>6 DEF AnswerRead, Grounded
  <2>2. At(c, IF IsLatest(turn[c].session, AgentSays(c)) THEN "answered" ELSE "write")
    BY <1>6 DEF AnswerRead
  <2> QED BY <1>1, <2>1, <2>2, AtTurn, QuietStep
<1>7. CASE ModelRound(c) \/ ModelRejects(c)
  <2>1. turn[c].session \in Session /\ Asked(turn[c].session, c)
    BY <1>7 DEF ModelRound, ModelRejects, Grounded
  <2>2. turn'[c].session = turn[c].session /\ \A d \in Cmd \ {c} : turn'[d] = turn[d]
    <3>1. CASE ModelRound(c)
      <4>1. CASE turn' = [turn EXCEPT ![c] = [@ EXCEPT !.pc = "check", !.out = "reply"]]
        BY <1>2, <4>1 DEF ChatTypeOK, Turn
      <4>2. CASE turn' = [turn EXCEPT ![c].rounds = @ + 1]
        BY <1>2, <4>2 DEF ChatTypeOK, Turn
      <4>3. CASE turn' = [turn EXCEPT ![c] = [@ EXCEPT !.rounds = turn[c].rounds + 1,
                                                      !.pc = "answered", !.out = "error"]]
        BY <1>2, <4>3 DEF ChatTypeOK, Turn
      <4> QED BY <3>1, <4>1, <4>2, <4>3 DEF ModelRound
    <3>2. CASE turn' = [turn EXCEPT ![c] = [@ EXCEPT !.retried = TRUE, !.rounds = 0]]
      BY <1>2, <3>2 DEF ChatTypeOK, Turn
    <3>3. CASE turn' = [turn EXCEPT ![c] = [@ EXCEPT !.pc = "open", !.settled = TRUE,
                                                    !.out = "reply"]]
      BY <1>2, <3>3 DEF ChatTypeOK, Turn
    <3>4. CASE turn' = [turn EXCEPT ![c] = [@ EXCEPT !.pc = "answered", !.out = "rejected"]]
      BY <1>2, <3>4 DEF ChatTypeOK, Turn
    <3> QED BY <1>7, <3>1, <3>2, <3>3, <3>4 DEF ModelRejects
  <2> QED BY <1>1, <2>1, <2>2, QuietStep
<1>8. CASE TurnFails(c)
  <2>0. PICK out : turn' = [turn EXCEPT ![c] = [@ EXCEPT !.pc = "answered", !.out = out]]
    BY Zenon, <1>8 DEF TurnFails
  <2>1. turn'[c].pc = "answered" /\ \A d \in Cmd \ {c} : turn'[d] = turn[d]
    BY <1>2, <2>0 DEF ChatTypeOK, Turn
  <2> QED BY <1>1, <2>1, QuietStep
<1>9. CASE Unread(c)
  BY <1>1, <1>9, AtTurn, QuietStep DEF Unread
<1> QED BY <1>3, <1>4, <1>5, <1>6, <1>7, <1>8, <1>9

LEMMA AskWriteGrounded ==
  ASSUME ChatTypeOK, Registered, Grounded, NEW c \in Cmd, AskWrite(c) PROVE Grounded'
<1>1. turn[c].session \in Session /\ c <= newest
  BY TurnPosted DEF AskWrite, Grounded
<1>0. PICK s \in Session : s = turn[c].session
  BY <1>1
<1>2. UserSays(c) \in Entry
  <2>1. text \in Seq(Text) /\ c \in 1..Len(text)
    BY <1>1 DEF ChatTypeOK, Cmd
  <2>2. text[c] \in Text
    BY <2>1, ElementOfSeq
  <2> QED BY <2>2 DEF UserSays, Entry
<1>3. log' = [log EXCEPT ![turn[c].session] = Append(@, UserSays(c))]
      /\ UNCHANGED <<text, newest>> /\ At(c, AfterAsk(c))
  BY DEF AskWrite, Store, goVars
<1>4. \A d \in Cmd : UserSays(c) # AgentSays(d)
  BY DEF UserSays, AgentSays
<1>5. /\ \A t \in Session, d \in Cmd : Asked(t, d) => Asked(t, d)'
      /\ \A d \in Cmd : UserSays(c) = UserSays(d) => Asked(s, d)'
      /\ (\A t \in Session, d \in Cmd : \A i \in DOMAIN log[t] :
            log[t][i] = AgentSays(d) => d <= newest)'
      /\ QuestionBeforeAnswer'
  <2> DEFINE e == UserSays(c)
  <2>1. e \in Entry /\ log' = [log EXCEPT ![turn[c].session] = Append(@, e)]
    BY <1>2, <1>3
  <2>2. \A d \in Cmd : e # AgentSays(d)
    BY <1>4
  <2> HIDE DEF e
  <2>3. /\ \A t \in Session, d \in Cmd : Asked(t, d) => Asked(t, d)'
        /\ \A d \in Cmd : e = UserSays(d) => Asked(s, d)'
        /\ (\A t \in Session, d \in Cmd : \A i \in DOMAIN log[t] :
              log[t][i] = AgentSays(d) => d <= newest)'
        /\ QuestionBeforeAnswer'
    BY <1>3, <1>0, <2>1, <2>2, AppendStep
  <2> QED BY <2>3 DEF e
<1>6. turn'[c].session = turn[c].session /\ \A d \in Cmd \ {c} : turn'[d] = turn[d]
  BY <1>3, AtTurn
<1>7. ASSUME NEW d \in Cmd, turn'[d].pc \in {"model", "check", "write"}
      PROVE  Asked(turn[d].session, d)'
  <2>1. CASE d = c
    BY <1>5, <1>6, <1>0, <2>1 DEF Asked
  <2>2. CASE d # c
    BY <1>5, <1>6, <1>7, <2>2 DEF Grounded, Asked
  <2> QED BY <2>1, <2>2
<1> QED BY <1>1, <1>5, <1>6, <1>7 DEF Grounded

LEMMA AnswerWriteGrounded ==
  ASSUME ChatTypeOK, Registered, Grounded, NEW c \in Cmd, AnswerWrite(c) PROVE Grounded'
<1>1. turn[c].session \in Session /\ c <= newest /\ Asked(turn[c].session, c)
  BY TurnPosted DEF AnswerWrite, Grounded
<1>2. AgentSays(c) \in Entry /\ \A d \in Cmd : AgentSays(c) = AgentSays(d) => d = c
  BY DEF AgentSays, Entry
<1>3. log' = [log EXCEPT ![turn[c].session] = Append(@, AgentSays(c))]
      /\ UNCHANGED <<text, newest>> /\ At(c, "answered")
  BY DEF AnswerWrite, Store, goVars
<1>4. /\ \A t \in Session, d \in Cmd : Asked(t, d) => Asked(t, d)'
      /\ (\A t \in Session, d \in Cmd : \A i \in DOMAIN log[t] :
            log[t][i] = AgentSays(d) => d <= newest)'
      /\ QuestionBeforeAnswer'
  BY <1>1, <1>2, <1>3, AppendStep
<1>5. turn'[c].pc = "answered" /\ \A d \in Cmd \ {c} : turn'[d] = turn[d]
  BY <1>3, AtTurn
<1>6. ASSUME NEW d \in Cmd, turn'[d].pc \in {"model", "check", "write"}
      PROVE  Asked(turn[d].session, d)'
  BY <1>4, <1>5, <1>6 DEF Grounded, Asked
<1> QED BY <1>4, <1>5, <1>6 DEF Grounded

-----------------------------------------------------------------------------
ChatInv == ChatTypeOK /\ Registered /\ InOrder /\ Grounded

LEMMA ChatInvInit == ChatInit => ChatInv
<1> SUFFICES ASSUME ChatInit PROVE ChatInv
  OBVIOUS
<1>1. NoTurn \in Turn /\ NoTurn.pc = "none"
  BY DEF NoTurn, Begin, Turn
<1>2. ChatTypeOK
  BY <1>1 DEF ChatInit, ChatTypeOK
<1>3. \A c \in Cmd : turn[c].pc = "none" /\ phase[c] = "none" /\ ~(c <= newest)
  BY <1>1 DEF ChatInit, Cmd
<1>4. Registered
  BY <1>3 DEF Registered
<1>5. InOrder
  BY <1>3 DEF InOrder, RepliesInOrder, Busy, ChatInit, Cmd
<1>6. Grounded
  BY <1>3 DEF Grounded, QuestionBeforeAnswer, ChatInit
<1> QED BY <1>2, <1>4, <1>5, <1>6 DEF ChatInv

LEMMA ChatInvNext == ChatInv /\ [ChatNext]_chatVars => ChatInv'
<1> SUFFICES ASSUME ChatInv, [ChatNext]_chatVars PROVE ChatInv'
  OBVIOUS
<1> USE DEF ChatInv
<1>1. CASE UNCHANGED chatVars
  <2>1. ChatTypeOK'
    BY <1>1 DEF chatVars, ChatTypeOK
  <2>2. Registered'
    BY <1>1 DEF chatVars, Registered
  <2>3. InOrder'
    BY <1>1 DEF chatVars, InOrder, RepliesInOrder
  <2>4. Grounded'
    BY <1>1, QuietStep DEF chatVars, Grounded, Asked, QuestionBeforeAnswer, UserSays, AgentSays
  <2> QED BY <2>1, <2>2, <2>3, <2>4
<1>2. ASSUME NEW c \in Cmd, Register(c) PROVE ChatInv'
  BY <1>2, RegisterType, RegisterOrder, RegisterGrounded
<1>3. ASSUME NEW c \in Cmd, Acquire(c) PROVE ChatInv'
  BY <1>3, AcquireType, AcquireOrder, GoGrounded
<1>4. ASSUME NEW c \in Cmd, Post(c) PROVE ChatInv'
  BY <1>4, PostType, PostOrder, GoGrounded
<1>5. ASSUME NEW c \in Cmd, GiveUp(c) PROVE ChatInv'
  BY <1>5, GiveUpType, GiveUpOrder, GoGrounded
<1>6. ASSUME NEW c \in Cmd, Receive(c) PROVE ChatInv'
  BY <1>6, ReceiveType, ReceiveOrder, GoGrounded
<1>7. ASSUME NEW c \in Cmd, SendReply(c) PROVE ChatInv'
  BY <1>7, SendReplyType, SendReplyOrder, GoGrounded
<1>8. (UNCHANGED goVars) => InOrder'
  BY DEF goVars, InOrder, RepliesInOrder
<1>9. ASSUME NEW c \in Cmd, OpenSession(c) PROVE ChatInv'
  BY <1>8, <1>9, OpenSessionType, TurnGrounded DEF OpenSession, goVars
<1>10. ASSUME NEW c \in Cmd, CreateSession(c) PROVE ChatInv'
  BY <1>8, <1>10, CreateSessionType, TurnGrounded DEF CreateSession, goVars
<1>11. ASSUME NEW c \in Cmd, AskRead(c) PROVE ChatInv'
  BY <1>8, <1>11, AskReadType, TurnGrounded DEF AskRead, goVars
<1>12. ASSUME NEW c \in Cmd, AskWrite(c) PROVE ChatInv'
  BY <1>8, <1>12, AskWriteType, AskWriteGrounded DEF AskWrite, goVars
<1>13. ASSUME NEW c \in Cmd, ModelRound(c) PROVE ChatInv'
  BY <1>8, <1>13, ModelRoundType, TurnGrounded DEF ModelRound, goVars
<1>14. ASSUME NEW c \in Cmd, ModelRejects(c) PROVE ChatInv'
  BY <1>8, <1>14, ModelRejectsType, TurnGrounded DEF ModelRejects, goVars
<1>15. ASSUME NEW c \in Cmd, AnswerRead(c) PROVE ChatInv'
  BY <1>8, <1>15, AnswerReadType, TurnGrounded DEF AnswerRead, goVars
<1>16. ASSUME NEW c \in Cmd, AnswerWrite(c) PROVE ChatInv'
  BY <1>8, <1>16, AnswerWriteType, AnswerWriteGrounded DEF AnswerWrite, goVars
<1>17. ASSUME NEW c \in Cmd, TurnFails(c) PROVE ChatInv'
  BY <1>8, <1>17, TurnFailsType, TurnGrounded DEF TurnFails, goVars
<1>18. ASSUME NEW c \in Cmd, Unread(c) PROVE ChatInv'
  BY <1>8, <1>18, UnreadType, TurnGrounded DEF Unread, goVars
<1> QED BY <1>1, <1>2, <1>3, <1>4, <1>5, <1>6, <1>7, <1>9, <1>10, <1>11, <1>12, <1>13, <1>14, <1>15, <1>16, <1>17, <1>18
       DEF ChatNext, ChatAtRest, GoStep, ApiStep

LEMMA ChatInvariant == ChatSpec => []ChatInv
<1> QED BY ChatInvInit, ChatInvNext, PTL DEF ChatSpec

(* Whatever the interleaving, the variables keep their types: in            *)
(* particular a turn never makes more than MaxRounds model calls.           *)
THEOREM ChatTypeCorrect == ChatSpec => []ChatTypeOK
<1>1. ChatInv => ChatTypeOK
  BY DEF ChatInv
<1> QED BY <1>1, ChatInvariant, PTL

(* handleSelfChatCommand: answers reach WhatsApp in the order of the        *)
(* messages, whoever gets the lock first and whatever is cancelled.         *)
THEOREM AnswersInOrder == ChatSpec => []RepliesInOrder
<1>1. ChatInv => RepliesInOrder
  BY DEF ChatInv, InOrder
<1> QED BY <1>1, ChatInvariant, PTL

(* _run_self_chat_agent: an answer is in the session that holds its         *)
(* question, before it, however turns and requests overlap.                 *)
THEOREM AnswersInThread == ChatSpec => []QuestionBeforeAnswer
<1>1. ChatInv => QuestionBeforeAnswer
  BY DEF ChatInv, Grounded
<1> QED BY <1>1, ChatInvariant, PTL
=============================================================================
