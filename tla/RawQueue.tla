------------------------------ MODULE RawQueue ------------------------------
(***************************************************************************)
(* One row of public.raw_messages as the extraction queue sees it, and the *)
(* statements that write it.  Every operator below is one UPDATE or INSERT *)
(* of the code: a guarded statement (".eq('processed', False)", or the     *)
(* WHERE of an RPC) leaves the row alone when its guard is false.          *)
(* Timestamps, error texts and attempt-log rows are left out: no statement *)
(* of the queue reads them back.                                           *)
(***************************************************************************)
EXTENDS Naturals, FiniteSets

CONSTANTS
    Raw,    \* raw_messages ids
    None    \* SQL null

(* Ids are a bigint identity column: later rows have larger ids.           *)
ASSUME RawAssumption == Raw \subseteq Nat /\ IsFiniteSet(Raw) /\ None \notin Raw

(* The values of extraction_outcome.  "none" is null; "quarantined" stands *)
(* for protocol_event and pre_llm:<reason>, which are written alike.       *)
Outcomes == {"none", "running", "succeeded", "skipped", "failed",
             "dead_lettered", "expired", "repeat_pending",
             "repeat_observation", "quarantined", "market_scope",
             "system_blocked"}

Row == [stored : BOOLEAN, processed : BOOLEAN, suppressed : BOOLEAN,
        outcome : Outcomes, attempts : Nat, repeatOf : Raw \cup {None}]

AbsentRow == [stored |-> FALSE, processed |-> FALSE, suppressed |-> FALSE,
              outcome |-> "none", attempts |-> 0, repeatOf |-> None]

Queued(row) == row.stored /\ ~row.processed

(* insertRawMessage: a history-sync row is born processed and suppressed.  *)
InsertRawMessage(isHistorySync) ==
    [AbsentRow EXCEPT !.stored = TRUE, !.processed = isHistorySync,
                      !.suppressed = isHistorySync]

(* begin_extraction_attempt, when its WHERE finds the row.                 *)
BeginExtractionAttempt(row) ==
    [row EXCEPT !.attempts = @ + 1, !.outcome = "running"]

(* Mutants: the pipeline's own "stored" reaches the column; a finished     *)
(* attempt counts as done whatever its status.                             *)
MutFinishWritesStored(row, status) ==
    [row EXCEPT !.outcome = IF status = "succeeded" THEN "stored" ELSE status]
(* finish_extraction_attempt: the row is written whatever it holds by now. *)
FinishExtractionAttempt(row, status) == [row EXCEPT !.outcome = status]

DeadLetterExtraction(row) ==
    IF row.processed THEN row
    ELSE [row EXCEPT !.processed = TRUE, !.outcome = "dead_lettered"]

SkipExpired(row) ==
    [row EXCEPT !.processed = TRUE, !.suppressed = TRUE, !.outcome = "expired"]

MarkRawProcessed(row) == [row EXCEPT !.processed = TRUE]

(* mark_raw_protocol_event and mark_raw_pre_llm_skip: no guard.            *)
MarkRawQuarantined(row) ==
    [row EXCEPT !.processed = TRUE, !.suppressed = TRUE,
                !.outcome = "quarantined"]

MarkRawMarketScopeSkip(row) ==
    IF row.processed THEN row
    ELSE [row EXCEPT !.processed = TRUE, !.suppressed = TRUE,
                     !.outcome = "market_scope"]

SuppressForSystemBlock(row) ==
    IF row.processed THEN row
    ELSE [row EXCEPT !.processed = TRUE, !.suppressed = TRUE,
                     !.outcome = "system_blocked"]

SetExtractionSuppressed(row, flag) ==
    IF row.processed THEN row ELSE [row EXCEPT !.suppressed = flag]

(* The repeat gate's own update when another row owns the fingerprint.     *)
MarkRepeatPending(row, first) ==
    [row EXCEPT !.processed = TRUE, !.repeatOf = first,
                !.outcome = "repeat_pending"]

RecordRepeatObservation(row, baseline) ==
    [row EXCEPT !.processed = TRUE, !.repeatOf = baseline,
                !.outcome = "repeat_observation"]

(* retry_raw_extraction: repeat_of_raw_message_id is not reset.            *)
RetryRawExtraction(row) ==
    [row EXCEPT !.processed = FALSE, !.suppressed = FALSE, !.attempts = 0,
                !.outcome = "none"]
=============================================================================
