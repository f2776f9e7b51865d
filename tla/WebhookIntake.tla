---------------------------- MODULE WebhookIntake ----------------------------
(***************************************************************************)
(* The API's side of ingestion.  /webhook stores a WhatsApp message,       *)
(* advances the conversation directory and hands the row to a bounded pool *)
(* of extraction threads, retrying a few times when the pool is full;      *)
(* /email-ingest stores a mail for the polling worker; a group refresh     *)
(* rewrites the directory and prunes it, in a task of its own, while       *)
(* messages go on arriving.                                                *)
(*                                                                         *)
(* All chats here are groups of one connection.  What is done with a row   *)
(* is ExtractionWorker's; the polling worker is one action.                *)
(***************************************************************************)
EXTENDS Naturals, FiniteSets

CONSTANTS
  Message,        \* WhatsApp messages and mails, by message_uid
  Mail,           \* those that are mails
  Chat,           \* groups
  ChatOf,         \* the group of a WhatsApp message
  TimeOf,         \* its timestamp
  Handler,        \* requests in progress
  Refresher,      \* group refresh tasks in progress
  Slots,          \* _EXTRACTION_PENDING_LIMIT
  Retries,        \* 5, in _retry_schedule_raw_extraction
  Immediate,      \* PROPAI_API_IMMEDIATE_EXTRACTION
  MaxDeliveries,  \* bound on deliveries and triggers
  MaxRefreshes,   \* bound on group refreshes
  MaxFlops,       \* bound on failing statements and dying processes
  NoMessage

ASSUME IntakeAssumption ==
  /\ Mail \subseteq Message
  /\ ChatOf \in [Message \ Mail -> Chat]
  /\ TimeOf \in [Message \ Mail -> Nat \ {0}]
  /\ {Slots, Retries} \subseteq Nat \ {0}
  /\ {MaxDeliveries, MaxRefreshes, MaxFlops} \subseteq Nat
  /\ Immediate \in BOOLEAN
  /\ NoMessage \notin Message

VARIABLES
  raws,       \* rows of raw_messages with the message's uid
  done,       \* messages whose row is processed
  dir,        \* whatsapp_conversations: id (0: no row), message_count, last_message_at
  ids,        \* the ids a chat's row has had so far
  joined,     \* the groups the account is in
  hd,         \* the handlers
  rf,         \* the refresh tasks
  slots,      \* free slots of the semaphore
  pool,       \* the submitted extractions: message and number
  later,      \* call_later timers: message and attempt
  deliveries, refreshes, flops

intakeVars == <<raws, done, dir, ids, joined, hd, rf, slots, pool, later,
                deliveries, refreshes, flops>>
dirVars == <<dir, ids>>
poolVars == <<slots, pool, later>>

NoConv == [id |-> 0, count |-> 0, last |-> 0]
NoRequest == [pc |-> "idle", msg |-> NoMessage, seen |-> NoConv]
NoTask == [pc |-> "idle", snap |-> {}, seen |-> [c \in Chat |-> NoConv]]

Times == {0} \cup {TimeOf[m] : m \in Message \ Mail}
Conv == [id : Nat, count : Nat, last : Times]
Request == [pc : {"idle", "allow", "dup", "save", "touch", "bump", "fresh", "put",
                  "schedule"},
            msg : Message \cup {NoMessage}, seen : Conv]
RefreshTask == [pc : {"idle", "read", "write", "scan", "drop"},
                snap : SUBSET Chat, seen : [Chat -> Conv]]

IntakeTypeOK ==
  /\ raws \in [Message -> Nat]
  /\ done \subseteq Message
  /\ dir \in [Chat -> Conv]
  /\ ids \in [Chat -> Nat]
  /\ joined \subseteq Chat
  /\ hd \in [Handler -> Request]
  /\ rf \in [Refresher -> RefreshTask]
  /\ slots \in 0..Slots
  /\ pool \subseteq Message \X (1..Slots)
  /\ later \subseteq Message \X (1..Retries)
  /\ deliveries \in 0..MaxDeliveries
  /\ refreshes \in 0..MaxRefreshes
  /\ flops \in 0..MaxFlops

IntakeInit ==
  /\ raws = [m \in Message |-> 0]
  /\ done = {}
  /\ dir = [c \in Chat |-> NoConv]
  /\ ids = [c \in Chat |-> 0]
  /\ joined = Chat
  /\ hd = [h \in Handler |-> NoRequest]
  /\ rf = [t \in Refresher |-> NoTask]
  /\ slots = Slots
  /\ pool = {}
  /\ later = {}
  /\ deliveries = 0 /\ refreshes = 0 /\ flops = 0

Flop == flops < MaxFlops /\ flops' = flops + 1
Reply(h) == hd' = [hd EXCEPT ![h] = NoRequest]
Enter(h, pc) == hd' = [hd EXCEPT ![h].pc = pc]

-----------------------------------------------------------------------------
(* Requests *)

(* A message is delivered, perhaps for the second time or beside itself.    *)
Deliver(h, m) ==
  /\ hd[h].pc = "idle" /\ deliveries < MaxDeliveries
  /\ hd' = [hd EXCEPT ![h] = [NoRequest EXCEPT !.msg = m,
                                !.pc = IF m \in Mail THEN "dup" ELSE "allow"]]
  /\ deliveries' = deliveries + 1
  /\ UNCHANGED <<raws, done, dirVars, joined, rf, poolVars, refreshes, flops>>

(* extraction_allowed_for_group: an unselected group's message is answered  *)
(* and dropped.                                                             *)
CheckGroup(h) ==
  /\ hd[h].pc = "allow"
  /\ Enter(h, "dup") \/ Reply(h)
  /\ UNCHANGED <<raws, done, dirVars, joined, rf, poolVars, deliveries, refreshes, flops>>

(* get_raw_by_uid: what is stored already is answered "duplicate".          *)
CheckDuplicate(h) ==
  /\ hd[h].pc = "dup"
  /\ IF raws[hd[h].msg] > 0 THEN Reply(h) ELSE Enter(h, "save")
  /\ UNCHANGED <<raws, done, dirVars, joined, rf, poolVars, deliveries, refreshes, flops>>

(* Mutant: the unique violation is taken for a row just stored.             *)
MutSaveIgnoresConflict(h) ==
  LET m == hd[h].msg IN
  /\ hd[h].pc = "save"
  /\ raws' = [raws EXCEPT ![m] = IF m \notin Mail /\ @ > 0 THEN @ ELSE @ + 1]
  /\ IF m \in Mail THEN Reply(h) ELSE Enter(h, "touch")
  /\ UNCHANGED <<done, dirVars, joined, rf, poolVars, deliveries, refreshes, flops>>

(* save_raw_message.  The unique index is on WhatsApp messages only; its    *)
(* violation is answered 503.                                               *)
SaveRaw(h) ==
  LET m == hd[h].msg IN
  /\ hd[h].pc = "save"
  /\ IF m \notin Mail /\ raws[m] > 0
       THEN Reply(h) /\ UNCHANGED raws
       ELSE /\ raws' = [raws EXCEPT ![m] = @ + 1]
            /\ IF m \in Mail THEN Reply(h) ELSE Enter(h, "touch")
  /\ UNCHANGED <<done, dirVars, joined, rf, poolVars, deliveries, refreshes, flops>>

(* touch_whatsapp_conversation reads the row ...                            *)
TouchRead(h) ==
  /\ hd[h].pc = "touch"
  /\ LET c == ChatOf[hd[h].msg] IN
       IF dir[c].id > 0
         THEN hd' = [hd EXCEPT ![h].pc = "bump", ![h].seen = dir[c]]
         ELSE Enter(h, "fresh")
  /\ UNCHANGED <<raws, done, dirVars, joined, rf, poolVars, deliveries, refreshes, flops>>

(* ... and writes count and time into it if it is still that row ...        *)
TouchBump(h) ==
  LET c == ChatOf[hd[h].msg] IN
  /\ hd[h].pc = "bump"
  /\ dir' = [dir EXCEPT ![c] = IF @.id # hd[h].seen.id THEN @
               ELSE [@ EXCEPT !.count = hd[h].seen.count + 1, !.last = TimeOf[hd[h].msg]]]
  /\ Enter(h, "schedule")
  /\ UNCHANGED <<raws, done, ids, joined, rf, poolVars, deliveries, refreshes, flops>>

Later(x, y) == IF x > y THEN x ELSE y

(* upsert_whatsapp_conversations of a chat: the activity that was read is   *)
(* kept, whatever the row holds by now.                                     *)
Upserted(c, seen, count, last) ==
  [id |-> IF dir[c].id > 0 THEN dir[c].id ELSE ids[c] + 1,
   count |-> Later(seen.count, count), last |-> Later(seen.last, last)]

(* ... or, without a row, goes through that upsert, which reads again.      *)
FreshRead(h) ==
  /\ hd[h].pc = "fresh"
  /\ hd' = [hd EXCEPT ![h].pc = "put", ![h].seen = dir[ChatOf[hd[h].msg]]]
  /\ UNCHANGED <<raws, done, dirVars, joined, rf, poolVars, deliveries, refreshes, flops>>

FreshPut(h) ==
  LET c == ChatOf[hd[h].msg] IN
  /\ hd[h].pc = "put"
  /\ dir' = [dir EXCEPT ![c] = Upserted(c, hd[h].seen, 1, TimeOf[hd[h].msg])]
  /\ ids' = [ids EXCEPT ![c] = Later(@, dir'[c].id)]
  /\ Enter(h, "schedule")
  /\ UNCHANGED <<raws, done, joined, rf, poolVars, deliveries, refreshes, flops>>

-----------------------------------------------------------------------------
(* The extraction pool *)

(* _schedule_raw_extraction takes a slot and submits; a failing submission  *)
(* gives the slot back.                                                     *)
Submit(m) ==
  /\ slots > 0
  /\ slots' = slots - 1
  /\ \E k \in 1..Slots : <<m, k>> \notin pool /\ pool' = pool \cup {<<m, k>>}
  /\ UNCHANGED flops

(* Mutant: a submission that raises keeps its slot.                         *)
MutRefusedKeepsSlot ==
  /\ \/ slots = 0 /\ UNCHANGED <<slots, flops>>
     \/ slots > 0 /\ Flop /\ slots' = slots - 1
  /\ UNCHANGED pool

Refused ==
  /\ (slots = 0 /\ UNCHANGED flops) \/ (slots > 0 /\ Flop)
  /\ UNCHANGED <<slots, pool>>

(* The row is stored: submit it, or set the first timer.                    *)
Schedule(h) ==
  LET m == hd[h].msg IN
  /\ hd[h].pc = "schedule"
  /\ \/ Submit(m) /\ UNCHANGED later
     \/ Refused /\ later' = later \cup {<<m, 1>>}
  /\ Reply(h)
  /\ UNCHANGED <<raws, done, dirVars, joined, rf, deliveries, refreshes>>

(* Mutant: one timer too many.                                              *)
MutRetryOneMore(m, k) ==
  /\ <<m, k>> \in later
  /\ \/ Submit(m) /\ later' = later \ {<<m, k>>}
     \/ /\ Refused
        /\ later' = (later \ {<<m, k>>}) \cup (IF k <= Retries THEN {<<m, k + 1>>} ELSE {})
  /\ UNCHANGED <<raws, done, dirVars, joined, hd, rf, deliveries, refreshes>>

(* A timer fires; after the last attempt the row is left to the worker.     *)
RetrySchedule(m, k) ==
  /\ <<m, k>> \in later
  /\ \/ Submit(m) /\ later' = later \ {<<m, k>>}
     \/ /\ Refused
        /\ later' = (later \ {<<m, k>>}) \cup (IF k < Retries THEN {<<m, k + 1>>} ELSE {})
  /\ UNCHANGED <<raws, done, dirVars, joined, hd, rf, deliveries, refreshes>>

(* /trigger-extraction for a row of the ingestor's, when that is enabled.   *)
TriggerExtraction(m) ==
  /\ Immediate /\ deliveries < MaxDeliveries
  /\ raws[m] > 0 /\ m \notin Mail \cup done
  /\ \/ Submit(m) /\ UNCHANGED later
     \/ Refused /\ later' = later \cup {<<m, 1>>}
  /\ deliveries' = deliveries + 1
  /\ UNCHANGED <<raws, done, dirVars, joined, hd, rf, refreshes>>

(* A submitted extraction ends, well or not, and its callback gives the     *)
(* slot back.                                                               *)
ExtractionEnds(m) ==
  /\ \E k \in 1..Slots : <<m, k>> \in pool /\ pool' = pool \ {<<m, k>>}
  /\ slots' = slots + 1
  /\ done' \in {done, done \cup {m}}
  /\ UNCHANGED <<raws, dirVars, joined, hd, rf, later, deliveries, refreshes, flops>>

(* The polling worker processes a row nobody has processed.                 *)
PollWorker(m) ==
  /\ raws[m] > 0 /\ m \notin done
  /\ done' = done \cup {m}
  /\ UNCHANGED <<raws, dirVars, joined, hd, rf, poolVars, deliveries, refreshes, flops>>

-----------------------------------------------------------------------------
(* Group refreshes *)

(* The account joins or leaves a group and the ingestor sends the whole     *)
(* list; _handle_system_event runs in a task of its own.                    *)
StartRefresh(t, S) ==
  /\ rf[t].pc = "idle" /\ refreshes < MaxRefreshes
  /\ joined' = S
  /\ rf' = [rf EXCEPT ![t] = [NoTask EXCEPT !.pc = "read", !.snap = S]]
  /\ refreshes' = refreshes + 1
  /\ UNCHANGED <<raws, done, dirVars, hd, poolVars, deliveries, flops>>

RefreshRead(t) ==
  /\ rf[t].pc = "read"
  /\ rf' = [rf EXCEPT ![t].pc = "write", ![t].seen = dir]
  /\ UNCHANGED <<raws, done, dirVars, joined, hd, poolVars, deliveries, refreshes, flops>>

(* The listed groups, with the activity that was read and none of its own.  *)
RefreshWrite(t) ==
  /\ rf[t].pc = "write"
  /\ dir' = [c \in Chat |-> IF c \in rf[t].snap THEN Upserted(c, rf[t].seen[c], 0, 0)
                                                ELSE dir[c]]
  /\ ids' = [c \in Chat |-> IF c \in rf[t].snap THEN Later(ids[c], dir'[c].id) ELSE ids[c]]
  /\ rf' = [rf EXCEPT ![t].pc = "scan"]
  /\ UNCHANGED <<raws, done, joined, hd, poolVars, deliveries, refreshes, flops>>

(* prune_whatsapp_conversations selects the groups that are not listed ...  *)
PruneScan(t) ==
  /\ rf[t].pc = "scan"
  /\ rf' = [rf EXCEPT ![t].pc = "drop", ![t].seen = [c \in Chat |->
               IF c \in rf[t].snap THEN NoConv ELSE dir[c]]]
  /\ UNCHANGED <<raws, done, dirVars, joined, hd, poolVars, deliveries, refreshes, flops>>

(* ... and deletes each by id.                                              *)
PruneDelete(t) ==
  /\ rf[t].pc = "drop"
  /\ LET gone == {c \in Chat : rf[t].seen[c].id > 0} IN
       IF gone = {}
         THEN rf' = [rf EXCEPT ![t] = NoTask] /\ UNCHANGED dir
         ELSE \E c \in gone :
                /\ dir' = [dir EXCEPT ![c] = IF @.id = rf[t].seen[c].id THEN NoConv ELSE @]
                /\ rf' = [rf EXCEPT ![t].seen[c] = NoConv]
  /\ UNCHANGED <<raws, done, ids, joined, hd, poolVars, deliveries, refreshes, flops>>

-----------------------------------------------------------------------------
(* Failures *)

(* A failing statement: 503 before the row is stored, nothing after it.     *)
RequestFlops(h) ==
  /\ hd[h].pc \notin {"idle", "schedule"}
  /\ Flop
  /\ IF hd[h].pc \in {"allow", "dup", "save"} THEN Reply(h) ELSE Enter(h, "schedule")
  /\ UNCHANGED <<raws, done, dirVars, joined, rf, poolVars, deliveries, refreshes>>

(* The task goes on with the prune, or is over.                             *)
RefreshFlops(t) ==
  /\ rf[t].pc # "idle"
  /\ Flop
  /\ rf' = [rf EXCEPT ![t] = IF @.pc \in {"read", "write"} THEN [@ EXCEPT !.pc = "scan"]
                             ELSE NoTask]
  /\ UNCHANGED <<raws, done, dirVars, joined, hd, poolVars, deliveries, refreshes>>

(* The API process dies and comes back with an empty pool and no timers.    *)
CrashApi ==
  /\ \/ \E h \in Handler : hd[h].pc # "idle"
     \/ slots < Slots \/ later # {}
  /\ Flop
  /\ hd' = [h \in Handler |-> NoRequest]
  /\ rf' = [t \in Refresher |-> NoTask]
  /\ slots' = Slots
  /\ pool' = {}
  /\ later' = {}
  /\ UNCHANGED <<raws, done, dirVars, joined, deliveries, refreshes>>

-----------------------------------------------------------------------------
Handle(h) ==
  \/ CheckGroup(h) \/ CheckDuplicate(h) \/ SaveRaw(h) \/ TouchRead(h) \/ TouchBump(h)
  \/ FreshRead(h) \/ FreshPut(h) \/ Schedule(h)

Refresh(t) == RefreshRead(t) \/ RefreshWrite(t) \/ PruneScan(t) \/ PruneDelete(t)

IntakeAtRest ==
  /\ \A h \in Handler : hd[h].pc = "idle"
  /\ \A t \in Refresher : rf[t].pc = "idle"
  /\ UNCHANGED intakeVars

IntakeNext ==
  \/ CrashApi \/ IntakeAtRest
  \/ \E h \in Handler : \/ Handle(h) \/ RequestFlops(h)
                        \/ \E m \in Message : Deliver(h, m)
  \/ \E m \in Message : \/ TriggerExtraction(m) \/ ExtractionEnds(m) \/ PollWorker(m)
                        \/ \E k \in 1..Retries : RetrySchedule(m, k)
  \/ \E t \in Refresher : \/ Refresh(t) \/ RefreshFlops(t)
                          \/ \E S \in SUBSET Chat : StartRefresh(t, S)

IntakeSpec == IntakeInit /\ [][IntakeNext]_intakeVars

-----------------------------------------------------------------------------
(* Properties *)

StoredIn(c) == {m \in Message \ Mail : ChatOf[m] = c /\ raws[m] > 0}

(* Every slot of _EXTRACTION_SLOTS is free or held by one submitted         *)
(* extraction, also after a submission that raised, an extraction that      *)
(* failed and any number of retries: the pool neither shrinks for good nor  *)
(* lets more in than its limit.                                             *)
SlotsBalanced == slots + Cardinality(pool) = Slots

(* The directory shows no activity that is not stored: however touches,     *)
(* refreshes, prunes and repeated deliveries interleave, a chat's count is  *)
(* at most the number of its messages and its time that of one of them.     *)
ActivityIsStored ==
  \A c \in Chat : /\ dir[c].count <= Cardinality(StoredIn(c))
                  /\ dir[c].last \in {0} \cup {TimeOf[m] : m \in StoredIn(c)}
=============================================================================
