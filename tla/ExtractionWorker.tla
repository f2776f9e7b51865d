-------------------------- MODULE ExtractionWorker --------------------------
(***************************************************************************)
(* The raw-message extraction queue and the workers that drain it          *)
(* (extraction_worker.py, process_raw_message in extraction.py, the queue  *)
(* RPCs and the raw_message_dedupe_claims table), with the people and      *)
(* processes that write the same rows: the WhatsApp ingestor, the group    *)
(* and extraction controls of the broker, and the operator's retry button. *)
(*                                                                         *)
(* A worker runs one cycle after another.  In a cycle it expires old rows, *)
(* asks whether extraction is running, reconciles pending reposts,         *)
(* re-enables selected groups, fetches both lanes, suppresses rows without *)
(* consent, and then runs one handler per remaining row in its two thread  *)
(* pools; the cycle ends when every handler has returned.  Each step that  *)
(* talks to the database is an action of its own.                          *)
(***************************************************************************)
EXTENDS RawQueue

CONSTANTS
    Worker,      \* extraction_worker.py processes
    FpOf,        \* author_content_fingerprint of each row
    LaneOf,      \* the lane whose query returns the row
    ChatOf,      \* the group_jid of the row, or Dm
    Dm,          \* chat of a one-to-one message (is_group = false)
    ConnOf,      \* the WhatsApp connection (broker_id) a row came through
    Connection,  \* the tenant's connection ids, in created_at order
    Verdict,     \* what the deterministic screens say of the row's text
    History,     \* rows that arrive by history sync
    MaxRetries,  \* MAX_RETRIES
    Reconcile,   \* RECONCILE_PENDING_ON_CYCLE
    Faults,      \* what may go wrong: "crash" of a worker, "db" errors of
                 \* writes and fetches, failed "policy" lookups, failed
                 \* lookups of the market preferences ("scope")
    Controls,    \* people who may act: "retry", "groups", "extraction"
    MaxControl   \* bound on the number of their actions

Fps    == {FpOf[r] : r \in Raw}
Groups == {ChatOf[r] : r \in Raw} \ {Dm}

ASSUME WorkerAssumption ==
    /\ IsFiniteSet(Worker)
    /\ MaxRetries \in Nat \ {0}
    /\ MaxControl \in Nat
    /\ Connection \subseteq Nat
    /\ Reconcile \in BOOLEAN
    /\ History \subseteq Raw
    /\ Faults \subseteq {"crash", "db", "policy", "scope"}
    /\ Controls \subseteq {"retry", "groups", "extraction"}
    /\ LaneOf \in [Raw -> {"fast", "backlog"}]
    /\ ConnOf \in [Raw -> Connection]
    /\ Verdict \in [Raw -> {"extract", "noise", "scope", "blocked",
                            "excluded"}]

VARIABLES
    raw,         \* the raw_messages table
    typed,       \* rows with parsed output in the typed tables
    claims,      \* raw_message_dedupe_claims: first_raw_message_id by key
    cycle,       \* where each worker is in run_cycle
    h,           \* the handler each worker holds for each row
    conn,        \* org_whatsapp_connections: is_active, extraction_status
    groups,      \* organization_group_connections by group
    old,         \* rows older than EXTRACTION_RETRY_WINDOW_HOURS
    controls,    \* how many control actions have been taken
    anchorless   \* history: rows whose provider answer held no item

vars == <<raw, typed, claims, cycle, h, conn, groups, old, controls,
          anchorless>>

(* A handler: where it is, whether the fetched row had used up its         *)
(* attempts, and the claim owner the repeat gate read.                     *)
HandlerPcs == {"idle", "fetched", "screened", "claim", "reread", "gate",
               "extract", "save", "mark", "finish_stored", "finish_skipped",
               "fail", "release"}
Handler  == [pc : HandlerPcs, exhausted : BOOLEAN, first : Raw \cup {None}]
NoHandler == [pc |-> "idle", exhausted |-> FALSE, first |-> None]

CyclePcs == {"top", "control", "reconcile", "reenable", "fetch", "screen",
             "lanes"}

TypeOK ==
    /\ raw \in [Raw -> Row]
    /\ typed \subseteq Raw
    /\ claims \in [Fps -> Raw \cup {None}]
    /\ cycle \in [Worker -> CyclePcs]
    /\ h \in [Worker -> [Raw -> Handler]]
    /\ conn \in [Connection -> [active : BOOLEAN, running : BOOLEAN]]
    /\ groups \in [Groups -> {"absent", "selected", "out", "in"}]
    /\ old \subseteq Raw
    /\ controls \in Nat
    /\ anchorless \subseteq Raw

Init ==
    /\ raw = [r \in Raw |-> AbsentRow]
    /\ typed = {}
    /\ claims = [f \in Fps |-> None]
    /\ cycle = [w \in Worker |-> "top"]
    /\ h = [w \in Worker |-> [r \in Raw |-> NoHandler]]
    /\ conn = [c \in Connection |-> [active |-> TRUE, running |-> TRUE]]
    /\ groups \in [Groups -> {"absent", "selected"}]
    /\ old = {}
    /\ controls = 0
    /\ anchorless = {}

-----------------------------------------------------------------------------
(* Reads.                                                                  *)

Tenant == {c \in Connection : conn[c].active /\ conn[c].running}

(* _group_policy_snapshot: the first created active connection is primary. *)
IsPrimary(c) ==
    conn[c].active /\ \A d \in Connection : conn[d].active => c <= d

(* _row_has_group_consent: only the primary connection's stream is parsed. *)
HasGroupConsent(r) == IsPrimary(ConnOf[r])

(* find_author_content_repeat: other processed rows of the fingerprint     *)
(* that have parsed output; the lowest id is used.                         *)
AuthorContentRepeats(r) ==
    {s \in Raw \ {r} : FpOf[s] = FpOf[r] /\ raw[s].processed /\ s \in typed}

FirstOf(S) == CHOOSE s \in S : \A t \in S : s <= t

(* Mutant: only rows that are still offered for extraction expire.         *)
MutExpirableUnsuppressed(r) ==
    /\ Queued(raw[r]) /\ ~raw[r].suppressed
    /\ ChatOf[r] # Dm
    /\ r \in old
    /\ raw[r].outcome # "running"

(* skip_expired_raw_extraction's WHERE.                                    *)
Expirable(r) ==
    /\ Queued(raw[r])
    /\ ChatOf[r] # Dm
    /\ r \in old
    /\ raw[r].outcome # "running"

Fetchable(r) == Queued(raw[r]) /\ ~raw[r].suppressed

(* group_pre_llm_rows: exact copies in one lane form one batch, in id      *)
(* order, and _process_lane hands a batch to a single thread.              *)
BatchBefore(r) ==
    {s \in Raw : s < r /\ FpOf[s] = FpOf[r] /\ LaneOf[s] = LaneOf[r]}

-----------------------------------------------------------------------------
(* The cycle of a worker.                                                  *)

(* The rows a loop of single updates reaches before an error ends it.      *)
Reached == IF "db" \in Faults THEN SUBSET Raw ELSE {Raw}

Advance(w, from, to) ==
    /\ cycle[w] = from
    /\ cycle' = [cycle EXCEPT ![w] = to]

(* skip_expired_raw_extraction; an error is logged and the cycle goes on.  *)
Expire(w) ==
    /\ Advance(w, "top", "control")
    /\ raw' \in {[r \in Raw |-> IF Expirable(r) THEN SkipExpired(raw[r])
                                ELSE raw[r]]}
                \cup (IF "db" \in Faults THEN {raw} ELSE {})
    /\ UNCHANGED <<typed, claims, h, conn, groups, old, controls, anchorless>>

(* get_running_extraction_tenant_ids: no running connection ends the       *)
(* cycle, a failed lookup lets it continue.                                *)
ControlLookup(w) ==
    /\ \/ Tenant # {} /\ Advance(w, "control", "reconcile")
       \/ Tenant = {} /\ Advance(w, "control", "top")
       \/ "policy" \in Faults /\ Advance(w, "control", "reconcile")
    /\ UNCHANGED <<raw, typed, claims, h, conn, groups, old, controls,
                   anchorless>>

Reconcilable(r) ==
    /\ raw[r].processed
    /\ raw[r].outcome = "repeat_pending"
    /\ AuthorContentRepeats(r) # {}

(* reconcile_pending_repeat_observations                                   *)
ReconcilePending(w) ==
    /\ Advance(w, "reconcile", "reenable")
    /\ IF Reconcile
       THEN \E reached \in Reached :
            raw' = [r \in Raw |->
                      IF Reconcilable(r) /\ r \in reached
                      THEN RecordRepeatObservation(
                               raw[r], FirstOf(AuthorContentRepeats(r)))
                      ELSE raw[r]]
       ELSE UNCHANGED raw
    /\ UNCHANGED <<typed, claims, h, conn, groups, old, controls, anchorless>>

(* reenable_selected_extraction_rows; errors wait for the next poll.       *)
Reenable(w) ==
    /\ Advance(w, "reenable", "fetch")
    /\ \E reached \in Reached :
         raw' = [r \in Raw |->
                   IF /\ ChatOf[r] # Dm
                      /\ groups[ChatOf[r]] = "selected"
                      /\ r \in reached
                   THEN SetExtractionSuppressed(raw[r], FALSE)
                   ELSE raw[r]]
    /\ UNCHANGED <<typed, claims, h, conn, groups, old, controls, anchorless>>

(* Mutants: the limit is tested one attempt late, and one early.           *)
MutExhaustedLate(row)  == row.attempts > MaxRetries
MutExhaustedEarly(row) == row.attempts + 1 >= MaxRetries

(* _process_lane: attempts of the fetched row against MAX_RETRIES.         *)
Exhausted(row) == row.attempts >= MaxRetries

(* _fetch_lane for both lanes: a lane whose query fails is empty.          *)
Fetch(w) ==
    /\ Advance(w, "fetch", "screen")
    /\ \E lanes \in IF "db" \in Faults THEN SUBSET {"fast", "backlog"}
                    ELSE {{"fast", "backlog"}} :
         h' = [h EXCEPT ![w] = [r \in Raw |->
                 IF Fetchable(r) /\ LaneOf[r] \in lanes
                 THEN [pc |-> "fetched", first |-> None,
                       exhausted |-> Exhausted(raw[r])]
                 ELSE NoHandler]]
    /\ UNCHANGED <<raw, typed, claims, conn, groups, old, controls,
                   anchorless>>

FetchedRows(w) == {r \in Raw : h[w][r].pc = "fetched"}

(* _remove_system_blocked_rows, which lets rows through when the rules     *)
(* cannot be read.                                                         *)
Blocked(w, rules) == {r \in FetchedRows(w) : rules /\ Verdict[r] = "blocked"}

(* _remove_unselected_rows under one policy snapshot, which fails closed.  *)
Barred(w, policy) == {r \in FetchedRows(w) : ~(policy /\ HasGroupConsent(r))}

(* Both screens over the fetched rows.  A row whose suppression cannot be  *)
(* written is dropped from the batch all the same.                         *)
Screen(w) ==
    /\ Advance(w, "screen", "lanes")
    /\ \E rules, policy \in IF "policy" \in Faults THEN BOOLEAN ELSE {TRUE},
          written \in Reached :
         /\ raw' = [r \in Raw |->
               CASE r \in Blocked(w, rules) -> SuppressForSystemBlock(raw[r])
                 [] r \in (Barred(w, policy) \ Blocked(w, rules)) \cap written
                       -> SetExtractionSuppressed(raw[r], TRUE)
                 [] OTHER -> raw[r]]
         /\ h' = [h EXCEPT ![w] = [r \in Raw |->
               IF r \in FetchedRows(w) \ (Blocked(w, rules)
                                           \cup Barred(w, policy))
               THEN [h[w][r] EXCEPT !.pc = "screened"]
               ELSE NoHandler]]
    /\ UNCHANGED <<typed, claims, conn, groups, old, controls, anchorless>>

(* An error while blocking a row ends the cycle; main sleeps and goes on.  *)
ScreenAborts(w) ==
    /\ "db" \in Faults
    /\ Advance(w, "screen", "top")
    /\ \E done \in SUBSET FetchedRows(w),
          failed \in FetchedRows(w) :
         /\ \A r \in done \cup {failed} : Verdict[r] = "blocked"
         /\ failed \notin done
         /\ raw' = [r \in Raw |-> IF r \in done
                                  THEN SuppressForSystemBlock(raw[r])
                                  ELSE raw[r]]
    /\ h' = [h EXCEPT ![w] = [r \in Raw |-> NoHandler]]
    /\ UNCHANGED <<typed, claims, conn, groups, old, controls, anchorless>>

(* The lane futures are joined before run_cycle returns.                   *)
Join(w) ==
    /\ \A r \in Raw : h[w][r].pc = "idle"
    /\ Advance(w, "lanes", "top")
    /\ UNCHANGED <<raw, typed, claims, h, conn, groups, old, controls,
                   anchorless>>

-----------------------------------------------------------------------------
(* One fetched row in _process_lane.                                       *)

At(w, r, pc) == h[w][r].pc = pc
Goto(w, r, pc) == h' = [h EXCEPT ![w][r].pc = pc]
EnterGate(w, r, owner) ==
    h' = [h EXCEPT ![w][r] =
            [pc |-> "gate", exhausted |-> FALSE, first |-> owner]]
Return(w, r) == h' = [h EXCEPT ![w][r] = NoHandler]
Write(r, row) == raw' = [raw EXCEPT ![r] = row]

(* _quarantine_protocol_event, _quarantine_pre_llm_skip and                *)
(* _quarantine_market_scope_skip: no attempt is spent.  Preferences that   *)
(* cannot be read count as an empty market, which every text is outside    *)
(* of.  A row whose mark fails stays queued for a later cycle.             *)
Quarantine(w, r) ==
    /\ At(w, r, "screened")
    /\ \/ Verdict[r] = "noise" /\ Write(r, MarkRawQuarantined(raw[r]))
       \/ /\ Verdict[r] # "noise"
          /\ Verdict[r] = "scope" \/ "scope" \in Faults
          /\ Write(r, MarkRawMarketScopeSkip(raw[r]))
       \/ /\ Verdict[r] \in {"noise", "scope"}
          /\ "db" \in Faults
          /\ UNCHANGED raw
    /\ Return(w, r)
    /\ UNCHANGED <<typed, claims, cycle, conn, groups, old, controls,
                   anchorless>>

(* Rows that no screen of _process_lane takes.                             *)
Extractable(r) == Verdict[r] \in {"extract", "blocked", "excluded"}

(* dead_letter_raw_extraction, decided on the attempts read by the fetch;  *)
(* its error is swallowed.                                                 *)
DeadLetter(w, r) ==
    /\ At(w, r, "screened")
    /\ Extractable(r)
    /\ h[w][r].exhausted
    /\ \/ Write(r, DeadLetterExtraction(raw[r]))
       \/ "db" \in Faults /\ UNCHANGED raw
    /\ Return(w, r)
    /\ UNCHANGED <<typed, claims, cycle, conn, groups, old, controls,
                   anchorless>>

MayBegin(w, r) ==
    /\ At(w, r, "screened")
    /\ Extractable(r)
    /\ ~h[w][r].exhausted
    /\ \A s \in BatchBefore(r) : At(w, s, "idle")

(* begin_raw_extraction_attempt and context_from_raw.                      *)
Begin(w, r) ==
    /\ MayBegin(w, r)
    /\ ~raw[r].processed
    /\ Write(r, BeginExtractionAttempt(raw[r]))
    /\ Goto(w, r, "claim")
    /\ UNCHANGED <<typed, claims, cycle, conn, groups, old, controls,
                   anchorless>>

(* _is_stale_extraction_claim, or an RPC that never reached the database:  *)
(* there is no attempt to finish and no context to release a claim from.   *)
BeginFails(w, r) ==
    /\ MayBegin(w, r)
    /\ raw[r].processed \/ "db" \in Faults
    /\ Return(w, r)
    /\ UNCHANGED <<raw, typed, claims, cycle, conn, groups, old, controls,
                   anchorless>>

(* The screens process_raw_message repeats before its repeat gate: market  *)
(* scope, system blocks, and excluded groups, which only it knows.         *)
SkipInPipeline(w, r) ==
    /\ At(w, r, "claim")
    /\ \/ "scope" \in Faults /\ Write(r, MarkRawMarketScopeSkip(raw[r]))
       \/ Verdict[r] = "blocked" /\ Write(r, SuppressForSystemBlock(raw[r]))
       \/ Verdict[r] = "excluded" /\ Write(r, MarkRawProcessed(raw[r]))
    /\ Goto(w, r, "finish_skipped")
    /\ UNCHANGED <<typed, claims, cycle, conn, groups, old, controls,
                   anchorless>>

(* The last two swallow their errors, and the row goes on to the gate.     *)
ReachesGate(r) ==
    \/ Verdict[r] = "extract"
    \/ Verdict[r] = "blocked" /\ Faults \cap {"policy", "db"} # {}
    \/ Verdict[r] = "excluded" /\ "db" \in Faults

(* Mutant: the upsert overwrites the owner instead of ignoring duplicates. *)
MutClaimOverwrites(w, r) ==
    /\ At(w, r, "claim")
    /\ ReachesGate(r)
    /\ claims' = [claims EXCEPT ![FpOf[r]] = r]
    /\ EnterGate(w, r, r)
    /\ UNCHANGED <<raw, typed, cycle, conn, groups, old, controls,
                   anchorless>>

(* claim_author_content_fingerprint: the insert that ignores duplicates.   *)
ClaimInsert(w, r) ==
    /\ At(w, r, "claim")
    /\ ReachesGate(r)
    /\ IF claims[FpOf[r]] = None
       THEN /\ claims' = [claims EXCEPT ![FpOf[r]] = r]
            /\ EnterGate(w, r, r)
       ELSE /\ Goto(w, r, "reread")
            /\ UNCHANGED claims
    /\ UNCHANGED <<raw, typed, cycle, conn, groups, old, controls,
                   anchorless>>

(* ... and the select that follows a duplicate: the row may be gone.       *)
ClaimReread(w, r) ==
    /\ At(w, r, "reread")
    /\ EnterGate(w, r, claims[FpOf[r]])
    /\ UNCHANGED <<raw, typed, claims, cycle, conn, groups, old, controls,
                   anchorless>>

(* The repeat gate of process_raw_message: a finished baseline exists.     *)
ObserveRepeat(w, r) ==
    /\ At(w, r, "gate")
    /\ AuthorContentRepeats(r) # {}
    /\ Write(r, RecordRepeatObservation(raw[r],
                                        FirstOf(AuthorContentRepeats(r))))
    /\ Goto(w, r, "finish_stored")
    /\ UNCHANGED <<typed, claims, cycle, conn, groups, old, controls,
                   anchorless>>

(* Mutant: a row that owns the claim itself is taken for a repost.         *)
MutAnyOwnerIsOther(w, r) == h[w][r].first # None

ReadOtherOwner(w, r) == h[w][r].first \notin {None, r}

(* ... another row owns the fingerprint and has no output yet.             *)
DeferRepeat(w, r) ==
    /\ At(w, r, "gate")
    /\ AuthorContentRepeats(r) = {}
    /\ ReadOtherOwner(w, r)
    /\ Write(r, MarkRepeatPending(raw[r], h[w][r].first))
    /\ Goto(w, r, "finish_stored")
    /\ UNCHANGED <<typed, claims, cycle, conn, groups, old, controls,
                   anchorless>>

(* ... or this row is the baseline.                                        *)
PassGate(w, r) ==
    /\ At(w, r, "gate")
    /\ AuthorContentRepeats(r) = {}
    /\ ~ReadOtherOwner(w, r)
    /\ Goto(w, r, "extract")
    /\ UNCHANGED <<raw, typed, claims, cycle, conn, groups, old, controls,
                   anchorless>>

(* ai_extract (or a cached answer) with at least one item.                 *)
ExtractItems(w, r) ==
    /\ At(w, r, "extract")
    /\ Goto(w, r, "save")
    /\ UNCHANGED <<raw, typed, claims, cycle, conn, groups, old, controls,
                   anchorless>>

(* The no_anchor answer: the row is consumed without typed output.  An     *)
(* error of the update is swallowed.                                       *)
ExtractNothing(w, r) ==
    /\ At(w, r, "extract")
    /\ \/ Write(r, MarkRawProcessed(raw[r]))
       \/ "db" \in Faults /\ UNCHANGED raw
    /\ anchorless' = anchorless \cup {r}
    /\ Goto(w, r, "finish_skipped")
    /\ UNCHANGED <<typed, claims, cycle, conn, groups, old, controls>>

(* Mutant: a provider failure is taken for an empty answer.                *)
MutFailureIsNoAnchor(w, r) ==
    /\ At(w, r, "extract")
    /\ Write(r, MarkRawProcessed(raw[r]))
    /\ Goto(w, r, "finish_skipped")
    /\ UNCHANGED <<typed, claims, cycle, conn, groups, old, controls,
                   anchorless>>

(* No provider answered, or the shared-copy wait ran out: it raises.       *)
ExtractUnavailable(w, r) ==
    /\ At(w, r, "extract")
    /\ Goto(w, r, "fail")
    /\ UNCHANGED <<raw, typed, claims, cycle, conn, groups, old, controls,
                   anchorless>>

(* The save loop: at least one typed row was written ...                   *)
SaveTyped(w, r) ==
    /\ At(w, r, "save")
    /\ typed' = typed \cup {r}
    /\ Goto(w, r, "mark")
    /\ UNCHANGED <<raw, claims, cycle, conn, groups, old, controls,
                   anchorless>>

(* ... or every insert failed and storage_status is "failed".              *)
SaveFails(w, r) ==
    /\ At(w, r, "save")
    /\ Goto(w, r, "fail")
    /\ UNCHANGED <<raw, typed, claims, cycle, conn, groups, old, controls,
                   anchorless>>

(* mark_raw_processed at the end of process_raw_message; its error is      *)
(* printed and the result is "stored" all the same.                        *)
MarkProcessed(w, r) ==
    /\ At(w, r, "mark")
    /\ \/ Write(r, MarkRawProcessed(raw[r]))
       \/ "db" \in Faults /\ UNCHANGED raw
    /\ Goto(w, r, "finish_stored")
    /\ UNCHANGED <<typed, claims, cycle, conn, groups, old, controls,
                   anchorless>>

(* finish_raw_extraction_attempt after a result.                           *)
Finish(w, r) ==
    /\ \/ /\ At(w, r, "finish_stored")
          /\ Write(r, FinishExtractionAttempt(raw[r], "succeeded"))
       \/ /\ At(w, r, "finish_skipped")
          /\ Write(r, FinishExtractionAttempt(raw[r], "skipped"))
    /\ Return(w, r)
    /\ UNCHANGED <<typed, claims, cycle, conn, groups, old, controls,
                   anchorless>>

(* An exception of the claim, the gate or finish_attempt itself lands in   *)
(* the except branch of _handle.                                           *)
StepError(w, r) ==
    /\ "db" \in Faults
    /\ h[w][r].pc \in {"claim", "reread", "gate", "finish_stored",
                       "finish_skipped"}
    /\ Goto(w, r, "fail")
    /\ UNCHANGED <<raw, typed, claims, cycle, conn, groups, old, controls,
                   anchorless>>

(* The except branch: the attempt is finished as failed ...                *)
Fail(w, r) ==
    /\ At(w, r, "fail")
    /\ Write(r, FinishExtractionAttempt(raw[r], "failed"))
    /\ Goto(w, r, "release")
    /\ UNCHANGED <<typed, claims, cycle, conn, groups, old, controls,
                   anchorless>>

(* ... unless that RPC raises too, which abandons the rest of the batch.   *)
FailRaises(w, r) ==
    /\ "db" \in Faults
    /\ At(w, r, "fail")
    /\ h' = [h EXCEPT ![w] = [s \in Raw |->
               IF s = r \/ r \in BatchBefore(s) THEN NoHandler ELSE h[w][s]]]
    /\ UNCHANGED <<raw, typed, claims, cycle, conn, groups, old, controls,
                   anchorless>>

(* Mutant: a failed baseline keeps its claim.                              *)
MutKeepClaim(w, r) ==
    /\ At(w, r, "release")
    /\ Return(w, r)
    /\ UNCHANGED <<raw, typed, claims, cycle, conn, groups, old, controls,
                   anchorless>>

(* release_author_content_claim: deletes this row's own claim only; an     *)
(* error is swallowed.                                                     *)
Release(w, r) ==
    /\ At(w, r, "release")
    /\ \/ claims' = [claims EXCEPT ![FpOf[r]] = IF @ = r THEN None ELSE @]
       \/ "db" \in Faults /\ UNCHANGED claims
    /\ Return(w, r)
    /\ UNCHANGED <<raw, typed, cycle, conn, groups, old, controls,
                   anchorless>>

(* The process dies and its supervisor starts a new one: memory is lost.   *)
Crash(w) ==
    /\ "crash" \in Faults
    /\ cycle[w] # "top"
    /\ cycle' = [cycle EXCEPT ![w] = "top"]
    /\ h' = [h EXCEPT ![w] = [r \in Raw |-> NoHandler]]
    /\ UNCHANGED <<raw, typed, claims, conn, groups, old, controls,
                   anchorless>>

-----------------------------------------------------------------------------
(* Everyone else who writes the queue.                                     *)

(* insertRawMessage: ON CONFLICT DO NOTHING makes redelivery a no-op.      *)
Ingest(r) ==
    /\ ~raw[r].stored
    /\ Write(r, InsertRawMessage(r \in History))
    /\ UNCHANGED <<typed, claims, cycle, h, conn, groups, old, controls,
                   anchorless>>

(* The row's extraction window passes.                                     *)
Age(r) ==
    /\ raw[r].stored
    /\ r \notin old
    /\ old' = old \cup {r}
    /\ UNCHANGED <<raw, typed, claims, cycle, h, conn, groups, controls,
                   anchorless>>

Control(who) ==
    /\ who \in Controls
    /\ controls < MaxControl
    /\ controls' = controls + 1

(* POST /api/extractions/{id}/retry                                        *)
RetryExtraction(r) ==
    /\ Control("retry")
    /\ raw[r].stored
    /\ Write(r, RetryRawExtraction(raw[r]))
    /\ UNCHANGED <<typed, claims, cycle, h, conn, groups, old, anchorless>>

(* _set_group_extraction_suppressed over a group's queued rows, whose      *)
(* error is logged and forgotten.                                          *)
SuppressGroup(g, flag) ==
    \/ raw' = [r \in Raw |-> IF ChatOf[r] = g
                             THEN SetExtractionSuppressed(raw[r], flag)
                             ELSE raw[r]]
    \/ "db" \in Faults /\ UNCHANGED raw

PrimaryGroupSelectionCap == 3

(* POST /groups/select on the primary connection: chosen groups become     *)
(* active, the other known ones opted out; raw_messages is not rewritten.  *)
SelectGroups(S) ==
    /\ Control("groups")
    /\ \E c \in Connection : IsPrimary(c)
    /\ Cardinality(S) <= PrimaryGroupSelectionCap
    /\ groups' = [g \in Groups |->
                    CASE g \in S              -> "selected"
                      [] groups[g] = "absent" -> "absent"
                      [] OTHER                -> "out"]
    /\ UNCHANGED <<raw, typed, claims, cycle, h, conn, old, anchorless>>

(* POST /groups/opt-out                                                    *)
OptOutGroup(g) ==
    /\ Control("groups")
    /\ groups' = [groups EXCEPT ![g] = "out"]
    /\ SuppressGroup(g, TRUE)
    /\ UNCHANGED <<typed, claims, cycle, h, conn, old, anchorless>>

(* POST /groups/opt-in                                                     *)
OptInGroup(g) ==
    /\ Control("groups")
    /\ groups[g] = "out"
    /\ groups' = [groups EXCEPT ![g] = "in"]
    /\ SuppressGroup(g, FALSE)
    /\ UNCHANGED <<typed, claims, cycle, h, conn, old, anchorless>>

(* POST /extraction/start, which wants the primary connection and a        *)
(* selected group, and /extraction/pause or /stop.                         *)
StartExtraction(c) ==
    /\ Control("extraction")
    /\ IsPrimary(c)
    /\ \E g \in Groups : groups[g] = "selected"
    /\ conn' = [conn EXCEPT ![c].running = TRUE]
    /\ UNCHANGED <<raw, typed, claims, cycle, h, groups, old, anchorless>>

PauseExtraction(c) ==
    /\ Control("extraction")
    /\ conn' = [conn EXCEPT ![c].running = FALSE]
    /\ UNCHANGED <<raw, typed, claims, cycle, h, groups, old, anchorless>>

(* PATCH /api/admin/whatsapp/sessions/{id} with is_active: the primary     *)
(* connection, and with it every row's consent, may change.                *)
SetConnectionActive(c, flag) ==
    /\ Control("extraction")
    /\ conn' = [conn EXCEPT ![c].active = flag]
    /\ UNCHANGED <<raw, typed, claims, cycle, h, groups, old, anchorless>>

-----------------------------------------------------------------------------
CycleStep(w) ==
    \/ Expire(w) \/ ControlLookup(w) \/ ReconcilePending(w) \/ Reenable(w)
    \/ Fetch(w) \/ Screen(w) \/ ScreenAborts(w) \/ Join(w)

HandlerStep(w, r) ==
    \/ Quarantine(w, r) \/ DeadLetter(w, r) \/ Begin(w, r) \/ BeginFails(w, r)
    \/ SkipInPipeline(w, r) \/ ClaimInsert(w, r) \/ ClaimReread(w, r)
    \/ ObserveRepeat(w, r) \/ DeferRepeat(w, r) \/ PassGate(w, r)
    \/ ExtractItems(w, r) \/ ExtractNothing(w, r) \/ ExtractUnavailable(w, r)
    \/ SaveTyped(w, r) \/ SaveFails(w, r) \/ MarkProcessed(w, r)
    \/ Finish(w, r) \/ StepError(w, r) \/ Fail(w, r) \/ FailRaises(w, r)
    \/ Release(w, r)

ControlStep ==
    \/ \E r \in Raw : RetryExtraction(r)
    \/ \E S \in SUBSET Groups : SelectGroups(S)
    \/ \E g \in Groups : OptOutGroup(g) \/ OptInGroup(g)
    \/ \E c \in Connection : StartExtraction(c) \/ PauseExtraction(c)
    \/ \E c \in Connection, flag \in BOOLEAN : SetConnectionActive(c, flag)

Next ==
    \/ \E w \in Worker : CycleStep(w) \/ Crash(w)
    \/ \E w \in Worker, r \in Raw : HandlerStep(w, r)
    \/ \E r \in Raw : Ingest(r) \/ Age(r)
    \/ ControlStep

Spec == Init /\ [][Next]_vars

(* The worker's loop and its pool threads keep running, and time passes;   *)
(* nobody is obliged to send a message or press a button.                  *)
FairSpec ==
    /\ Spec
    /\ \A w \in Worker : WF_vars(CycleStep(w))
    /\ \A w \in Worker, r \in Raw : WF_vars(HandlerStep(w, r))
    /\ \A r \in Raw : WF_vars(Age(r))

-----------------------------------------------------------------------------
(* Correctness.                                                            *)

(* A row is never handed to the model more often than MAX_RETRIES allows,  *)
(* but for one attempt per further worker: the limit is checked on the     *)
(* attempts a worker read when it fetched the row, and                     *)
(* begin_extraction_attempt does not check it again.                       *)
AttemptsBound ==
    \A r \in Raw : raw[r].attempts <= MaxRetries - 1 + Cardinality(Worker)

BaselinePcs == {"gate", "extract", "save", "mark", "finish_stored",
                "finish_skipped", "fail", "release"}
Owner(w, r) == h[w][r].pc \in BaselinePcs /\ h[w][r].first = r

(* With one worker, at most one row of a fingerprint is being extracted by *)
(* a handler that believes it owns the claim: nobody else deletes a claim  *)
(* between the insert of claim_author_content_fingerprint and the handler's *)
(* own release, not even across crashes and failed database calls.         *)
OneOwnedBaseline ==
    \A v, w \in Worker, r, s \in Raw :
        Owner(v, r) /\ Owner(w, s) /\ FpOf[r] = FpOf[s] => r = s

(* A row only leaves the queue with something to show for it: parsed       *)
(* output, a provider's answer that there is nothing to parse, the row it  *)
(* repeats, a screen's verdict that also suppressed it, the expiry of its  *)
(* window, or a dead letter.  A provider that did not answer is none of    *)
(* these ("Provider failure is never a no anchor").  It needs readable     *)
(* market preferences: a failed lookup reads as the empty scope.           *)
ConsumedForReason ==
    \A r \in Raw : raw[r].processed =>
        \/ r \in typed \cup anchorless \cup History
        \/ raw[r].repeatOf # None
        \/ Verdict[r] = "excluded"
        \/ Verdict[r] # "extract" /\ raw[r].suppressed
        \/ raw[r].outcome \in {"expired", "dead_lettered"}

(* A dead-lettered row has used all its attempts ("Dead-letter rows that   *)
(* exhausted their retries", run_cycle).  It needs a world without retries *)
(* of the operator: one between the fetch and the dead letter is undone.   *)
DeadLetterEarned ==
    \A r \in Raw : raw[r].outcome = "dead_lettered" =>
        raw[r].attempts >= MaxRetries

(* A row that was given up no longer owns its fingerprint, so a later      *)
(* repost can become the baseline ("A failed baseline must not permanently *)
(* strand later exact reposts in repeat_pending", _handle).                *)
DeadLetterReleasesClaim ==
    \A r \in Raw : raw[r].outcome = "dead_lettered" => claims[FpOf[r]] # r

(* Following repeat_of_raw_message_id from a repost leads to a row with    *)
(* parsed output, or to one that is not a repost: no reposts without       *)
(* output only point at one another, whatever the order of claims,         *)
(* failures, crashes and reconciliations.                                  *)
RepeatsAreGrounded ==
    \A S \in (SUBSET (Raw \ typed)) \ {{}} :
        \E r \in S : raw[r].repeatOf \notin S

(* A group message leaves the extraction queue in the end: it is parsed,   *)
(* given up or expired, selected or not, suppressed or not.                *)
GroupRowsLeaveQueue ==
    \A r \in Raw : raw[r].stored /\ ChatOf[r] # Dm ~> raw[r].processed

-----------------------------------------------------------------------------
(* What the repository says of the queue, and the code does not keep.      *)

(* architecture.md: exact reposts "become repeat observations or           *)
(* repeat_pending, never a second concurrent baseline", so that two copies *)
(* never both get parsed output of their own.                              *)
NeverSecondBaseline ==
    \A r, s \in typed : FpOf[r] = FpOf[s] => r = s
=============================================================================
