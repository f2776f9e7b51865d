------------------------------- MODULE SelfChat -------------------------------
(***************************************************************************)
(* The owner's private chat with the agent, over one WhatsApp connection.  *)
(* The ingestor starts a goroutine per message: it cancels the one before, *)
(* waits for the connection's lock, asks the API and sends the answer.     *)
(* The API keeps the transcript: it opens the session, writes the user's   *)
(* turn, runs the model and its tools for a few rounds and writes the      *)
(* answer.  Giving up on the request does not stop a turn of the API.      *)
(*                                                                         *)
(* Photos and voice notes are left out; a command is its text.             *)
(***************************************************************************)
EXTENDS Naturals, Sequences, FiniteSets

CONSTANTS
  MaxCmd,      \* commands 1..MaxCmd, in the order they register
  Text,        \* what a command may say
  MaxRounds,   \* max_tool_rounds
  MaxMishaps   \* bound on timeouts and failing calls

ASSUME ChatAssumption ==
  /\ {MaxCmd, MaxRounds} \subseteq Nat \ {0}
  /\ MaxMishaps \in Nat
  /\ Text # {}

Cmd == 1..MaxCmd
Session == 1..MaxCmd

VARIABLES
  streaming,  \* PROPAI_SELF_CHAT_STREAM
  text,       \* what the registered commands say, oldest first
  phase,      \* the goroutine of a command
  cancelled,  \* commands whose context was cancelled
  newest,     \* the command selfChatCancel belongs to
  lock,       \* who holds selfChatMu
  turn,       \* the API's side of a command
  opened,     \* sessions that exist
  recent,     \* the session list_chat_sessions gives first
  log,        \* ai_chat_messages of a session, oldest first
  sent,       \* what was sent to WhatsApp: command, and what it was told
  mishaps

chatVars == <<streaming, text, phase, cancelled, newest, lock, turn, opened, recent,
              log, sent, mishaps>>

Begin(pc, settled, out) ==
  [pc |-> pc, session |-> 0, rounds |-> 0, retried |-> FALSE,
   settled |-> settled, out |-> out]
NoTurn == Begin("none", FALSE, "none")

(* A chat message: the user's text, or the answer to a command. *)
UserSays(c) == <<"user", text[c]>>
AgentSays(c) == <<"assistant", c>>
Entry == ({"user"} \X Text) \cup ({"assistant"} \X Cmd)

Turn == [pc : {"none", "open", "create", "ask", "say", "model", "check", "write",
               "answered", "end"},
         session : 0..MaxCmd, rounds : 0..MaxRounds, retried : BOOLEAN,
         settled : BOOLEAN, out : {"none", "reply", "rejected", "error", "silent"}]

ChatTypeOK ==
  /\ streaming \in BOOLEAN
  /\ text \in Seq(Text) /\ Len(text) = newest
  /\ phase \in [Cmd -> {"none", "wait", "post", "await", "send", "over"}]
  /\ cancelled \subseteq Cmd
  /\ newest \in 0..MaxCmd /\ lock \in 0..MaxCmd /\ recent \in 0..MaxCmd
  /\ turn \in [Cmd -> Turn]
  /\ opened \subseteq Session
  /\ log \in [Session -> Seq(Entry)]
  /\ sent \in Seq(Cmd \X {"reply", "rejected", "error"})
  /\ mishaps \in 0..MaxMishaps

ChatInit ==
  /\ streaming \in BOOLEAN
  /\ text = <<>>
  /\ phase = [c \in Cmd |-> "none"]
  /\ cancelled = {}
  /\ newest = 0 /\ lock = 0
  /\ turn = [c \in Cmd |-> NoTurn]
  /\ opened = {} /\ recent = 0
  /\ log = [s \in Session |-> <<>>]
  /\ sent = <<>>
  /\ mishaps = 0

Mishap == mishaps < MaxMishaps /\ mishaps' = mishaps + 1

apiVars == <<turn, opened, recent, log>>
goVars == <<text, phase, cancelled, newest, lock, sent>>

-----------------------------------------------------------------------------
(* handleSelfChatCommand *)

Leave(c) == phase' = [phase EXCEPT ![c] = "over"] /\ lock' = 0

(* Mutant: the command before is not cancelled.                             *)
MutRegisterKeepsOld(c) ==
  /\ phase[c] = "none" /\ newest = c - 1
  /\ phase' = [phase EXCEPT ![c] = "wait"]
  /\ newest' = c
  /\ \E t \in Text : text' = Append(text, t)
  /\ UNCHANGED <<streaming, cancelled, lock, sent, apiVars, mishaps>>

(* Mutant: the new cancel function is stored first and then called.         *)
MutRegisterCancelsItself(c) ==
  /\ phase[c] = "none" /\ newest = c - 1
  /\ phase' = [phase EXCEPT ![c] = "wait"]
  /\ cancelled' = cancelled \cup {c}
  /\ newest' = c
  /\ \E t \in Text : text' = Append(text, t)
  /\ UNCHANGED <<streaming, lock, sent, apiVars, mishaps>>

(* Register this command's cancel function and call the one before.         *)
Register(c) ==
  /\ phase[c] = "none" /\ newest = c - 1
  /\ phase' = [phase EXCEPT ![c] = "wait"]
  /\ cancelled' = cancelled \cup ({newest} \ {0})
  /\ newest' = c
  /\ \E t \in Text : text' = Append(text, t)
  /\ UNCHANGED <<streaming, lock, sent, apiVars, mishaps>>

(* The lock is not first come, first served.                                *)
Acquire(c) ==
  /\ phase[c] = "wait" /\ lock = 0
  /\ phase' = [phase EXCEPT ![c] = "post"]
  /\ lock' = c
  /\ UNCHANGED <<streaming, text, cancelled, newest, sent, apiVars, mishaps>>

(* A cancelled context fails the request before it is made; otherwise the   *)
(* API begins: with a deterministic search that answers, or with the agent. *)
Post(c) ==
  /\ phase[c] = "post"
  /\ \/ /\ c \in cancelled
        /\ Leave(c)
        /\ UNCHANGED turn
     \/ /\ c \notin cancelled
        /\ phase' = [phase EXCEPT ![c] = "await"]
        /\ \E found \in BOOLEAN :
             turn' = [turn EXCEPT ![c] =
                        Begin("open", found, IF found THEN "reply" ELSE "none")]
        /\ UNCHANGED lock
  /\ UNCHANGED <<streaming, text, cancelled, newest, sent, opened, recent, log, mishaps>>

(* The context is cancelled, or its 45 seconds are over.                    *)
GiveUp(c) ==
  /\ phase[c] = "await"
  /\ (c \in cancelled /\ UNCHANGED mishaps) \/ (c \notin cancelled /\ Mishap)
  /\ Leave(c)
  /\ UNCHANGED <<streaming, text, cancelled, newest, sent, apiVars>>

(* The API answers.  An error has a text of its own, but a rejection is     *)
(* told only by the streaming handler.                                      *)
Receive(c) ==
  /\ phase[c] = "await" /\ turn[c].pc = "answered"
  /\ turn' = [turn EXCEPT ![c].pc = "end"]
  /\ IF turn[c].out \in {"reply", "error"} \/ (streaming /\ turn[c].out = "rejected")
       THEN phase' = [phase EXCEPT ![c] = "send"] /\ UNCHANGED lock
       ELSE Leave(c)
  /\ UNCHANGED <<streaming, text, cancelled, newest, sent, opened, recent, log, mishaps>>

SendReply(c) ==
  /\ phase[c] = "send"
  /\ \/ sent' = Append(sent, <<c, turn[c].out>>) /\ UNCHANGED mishaps
     \/ UNCHANGED sent /\ Mishap
  /\ Leave(c)
  /\ UNCHANGED <<streaming, text, cancelled, newest, apiVars>>

-----------------------------------------------------------------------------
(* _run_self_chat_agent and _persist_quick_self_chat_turn *)

At(c, pc) == turn' = [turn EXCEPT ![c].pc = pc]

(* get_or_create_chat_session lists ...                                     *)
OpenSession(c) ==
  /\ turn[c].pc = "open"
  /\ IF recent # 0
       THEN turn' = [turn EXCEPT ![c] = [@ EXCEPT !.pc = "ask", !.session = recent]]
       ELSE At(c, "create")
  /\ UNCHANGED <<streaming, goVars, opened, recent, log, mishaps>>

(* ... and inserts, also when another turn has inserted meanwhile.          *)
CreateSession(c) ==
  /\ turn[c].pc = "create"
  /\ \E s \in Session \ opened :
       /\ \A m \in Session \ opened : s <= m
       /\ opened' = opened \cup {s}
       /\ recent' = s
       /\ turn' = [turn EXCEPT ![c] = [@ EXCEPT !.pc = "ask", !.session = s]]
  /\ UNCHANGED <<streaming, goVars, log, mishaps>>

(* add_chat_message_if_new compares with the latest message of the session. *)
IsLatest(s, e) == log[s] # <<>> /\ log[s][Len(log[s])] = e
Store(c, e) == log' = [log EXCEPT ![turn[c].session] = Append(@, e)]

AfterAsk(c) == IF turn[c].settled THEN "check" ELSE "model"

AskRead(c) ==
  /\ turn[c].pc = "ask"
  /\ At(c, IF IsLatest(turn[c].session, UserSays(c)) THEN AfterAsk(c) ELSE "say")
  /\ UNCHANGED <<streaming, goVars, opened, recent, log, mishaps>>

AskWrite(c) ==
  /\ turn[c].pc = "say"
  /\ Store(c, UserSays(c))
  /\ At(c, AfterAsk(c))
  /\ UNCHANGED <<streaming, goVars, opened, recent, mishaps>>

(* One model call of run_workspace_graph.  It answers (a write tool's       *)
(* confirmation request is an answer too), or calls tools while rounds are  *)
(* left.                                                                    *)
ModelRound(c) ==
  /\ turn[c].pc = "model"
  /\ \/ turn' = [turn EXCEPT ![c] = [@ EXCEPT !.pc = "check", !.out = "reply"]]
     \/ IF turn[c].rounds + 1 < MaxRounds
          THEN turn' = [turn EXCEPT ![c].rounds = @ + 1]
          ELSE turn' = [turn EXCEPT ![c] = [@ EXCEPT !.rounds = turn[c].rounds + 1,
                                                     !.pc = "answered", !.out = "error"]]
  /\ UNCHANGED <<streaming, goVars, opened, recent, log, mishaps>>

(* The provider rejects the context: once more with a safe copy of it, and  *)
(* then a pasted listing is acknowledged through the quick path, which      *)
(* looks for the session again, and anything else is reported.              *)
ModelRejects(c) ==
  /\ turn[c].pc = "model"
  /\ Mishap
  /\ \/ ~turn[c].retried /\ turn' = [turn EXCEPT ![c] = [@ EXCEPT !.retried = TRUE, !.rounds = 0]]
     \/ /\ turn[c].retried
        /\ \/ turn' = [turn EXCEPT ![c] = [@ EXCEPT !.pc = "open", !.settled = TRUE,
                                                 !.out = "reply"]]
           \/ turn' = [turn EXCEPT ![c] = [@ EXCEPT !.pc = "answered", !.out = "rejected"]]
  /\ UNCHANGED <<streaming, goVars, opened, recent, log>>

AnswerRead(c) ==
  /\ turn[c].pc = "check"
  /\ At(c, IF IsLatest(turn[c].session, AgentSays(c)) THEN "answered" ELSE "write")
  /\ UNCHANGED <<streaming, goVars, opened, recent, log, mishaps>>

(* Mutant: the session is looked up again for the answer.                   *)
MutAnswerToRecent(c) ==
  /\ turn[c].pc = "write"
  /\ log' = [log EXCEPT ![recent] = Append(@, AgentSays(c))]
  /\ At(c, "answered")
  /\ UNCHANGED <<streaming, goVars, opened, recent, mishaps>>

(* ... and touch_chat_session moves the session to the front.               *)
AnswerWrite(c) ==
  /\ turn[c].pc = "write"
  /\ Store(c, AgentSays(c))
  /\ recent' = turn[c].session
  /\ At(c, "answered")
  /\ UNCHANGED <<streaming, goVars, opened, mishaps>>

(* A call fails, or the workspace has no provider: the quick path goes on   *)
(* with its reply, the agent's turn ends with an error, which a timeout (a  *)
(* plain 504) or an exception without a text leaves unsaid.                 *)
TurnFails(c) ==
  /\ turn[c].pc \in {"open", "create", "ask", "say", "model", "check", "write"}
  /\ Mishap
  /\ \E out \in IF turn[c].settled THEN {"reply"} ELSE {"error", "silent"} :
       turn' = [turn EXCEPT ![c] = [@ EXCEPT !.pc = "answered", !.out = out]]
  /\ UNCHANGED <<streaming, goVars, opened, recent, log>>

Streamed(c) == streaming /\ (turn[c].settled => turn[c].retried)

(* Nobody reads the response any more: a stream is cancelled on the spot,   *)
(* a plain request, as a search that answered always is, runs to its end.   *)
Unread(c) ==
  /\ phase[c] = "over" /\ turn[c].pc \notin {"none", "end"}
  /\ Streamed(c) \/ turn[c].pc = "answered"
  /\ At(c, "end")
  /\ UNCHANGED <<streaming, goVars, opened, recent, log, mishaps>>

-----------------------------------------------------------------------------
GoStep(c) == Acquire(c) \/ Post(c) \/ Receive(c) \/ SendReply(c)
GoStops(c) == c \in cancelled /\ GiveUp(c)
ApiStep(c) ==
  \/ OpenSession(c) \/ CreateSession(c) \/ AskRead(c) \/ AskWrite(c) \/ ModelRound(c)
  \/ AnswerRead(c) \/ AnswerWrite(c) \/ Unread(c)

ChatAtRest == (\A c \in Cmd : phase[c] = "over" /\ turn[c].pc \in {"none", "end"})
              /\ UNCHANGED chatVars

ChatNext ==
  \/ ChatAtRest
  \/ \E c \in Cmd : \/ Register(c) \/ GoStep(c) \/ GiveUp(c) \/ ApiStep(c)
                    \/ ModelRejects(c) \/ TurnFails(c)

ChatSpec == ChatInit /\ [][ChatNext]_chatVars

(* Goroutines and requests go on; a cancelled request returns.  The lock is *)
(* handed on, but not to anybody in particular.                             *)
ChatFairness ==
  \A c \in Cmd : /\ WF_chatVars(GoStep(c) \/ GoStops(c))
                 /\ WF_chatVars(ApiStep(c))

FairChatSpec == ChatSpec /\ ChatFairness

-----------------------------------------------------------------------------
(* Properties *)

(* "cancel a stale in-flight turn first so the newest user message does not *)
(* sit behind a provider timeout" (handleSelfChatCommand): whatever the     *)
(* lock's order, no answer to an older message follows one to a newer.      *)
RepliesInOrder ==
  \A i, j \in DOMAIN sent : i < j => sent[i][1] < sent[j][1]

(* The newest message is answered, be it with an error text when the agent  *)
(* runs out of rounds, unless a call really failed: cancelling never hits   *)
(* the last command, and the lock comes round to it.                        *)
NewestAnswered ==
  \A c \in Cmd : phase[c] = "wait" ~>
    \/ newest # c
    \/ \E i \in DOMAIN sent : sent[i][1] = c
    \/ phase[c] = "over" /\ mishaps > 0

(* The agent's answer is in the thread of its question: the session an      *)
(* answer is written to has the question before it, also when two turns     *)
(* created sessions at once or the turn outlived its request.               *)
QuestionBeforeAnswer ==
  \A s \in Session : \A i \in DOMAIN log[s], c \in Cmd :
    log[s][i] = AgentSays(c) =>
      \E k \in 1..(i - 1) : log[s][k] = UserSays(c)
=============================================================================
