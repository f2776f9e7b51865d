----------------------- MODULE ExtractionOutcomeProofs -----------------------
(* What the outcome of a row, its claim and its repeat pointer say about   *)
(* it: theorems about ExtractionWorker that rest on the type invariant     *)
(* proved in ExtractionWorkerProofs.                                       *)
EXTENDS ExtractionWorkerProofs

-----------------------------------------------------------------------------
(* A dead letter was earned, as long as no operator resets the attempts.   *)

(* The strengthening of DeadLetterEarned: a handler that found the         *)
(* attempts of its row used up is still right about it, because only a     *)
(* retry lowers them and only an absent row is inserted.                   *)
EarnedInv ==
    /\ DeadLetterEarned
    /\ \A w \in Worker, r \in Raw : h[w][r].exhausted =>
          raw[r].stored /\ raw[r].attempts >= MaxRetries

(* A write that keeps what EarnedInv looks at.                             *)
Quiet(row, new) ==
    /\ new.stored = row.stored
    /\ new.attempts = row.attempts
    /\ new.outcome = "dead_lettered" => row.outcome = "dead_lettered"

(* Every statement is quiet but begin, dead letter, insert and retry.      *)
LEMMA QuietWrites ==
    ASSUME NEW row \in Row
    PROVE  /\ Quiet(row, row)
           /\ Quiet(row, SkipExpired(row))
           /\ Quiet(row, MarkRawProcessed(row))
           /\ Quiet(row, MarkRawQuarantined(row))
           /\ Quiet(row, MarkRawMarketScopeSkip(row))
           /\ Quiet(row, SuppressForSystemBlock(row))
           /\ Quiet(row, SetExtractionSuppressed(row, TRUE))
           /\ Quiet(row, SetExtractionSuppressed(row, FALSE))
           /\ Quiet(row, FinishExtractionAttempt(row, "succeeded"))
           /\ Quiet(row, FinishExtractionAttempt(row, "skipped"))
           /\ Quiet(row, FinishExtractionAttempt(row, "failed"))
           /\ \A s : Quiet(row, MarkRepeatPending(row, s))
           /\ \A s : Quiet(row, RecordRepeatObservation(row, s))
  BY DEF Quiet, Row, SkipExpired, MarkRawProcessed, MarkRawQuarantined,
         MarkRawMarketScopeSkip, SuppressForSystemBlock,
         SetExtractionSuppressed, FinishExtractionAttempt, MarkRepeatPending,
         RecordRepeatObservation

(* A step with quiet writes that finds nobody's attempts used up.          *)
LEMMA QuietStep ==
    ASSUME EarnedInv,
           \A r \in Raw : Quiet(raw[r], raw'[r]),
           \A w \in Worker, r \in Raw :
              h'[w][r].exhausted => h[w][r].exhausted
    PROVE  EarnedInv'
  BY DEF EarnedInv, DeadLetterEarned, Quiet

(* A handler's step never finds attempts used up: only the fetch does.     *)
LEMMA HandlerExhaustsNothing ==
    ASSUME TypeOK, NEW w \in Worker, NEW r \in Raw, HandlerStep(w, r)
    PROVE  \A v \in Worker, s \in Raw :
              h'[v][s].exhausted => h[v][s].exhausted
  <1>1. CASE FailRaises(w, r)
    BY <1>1 DEF FailRaises, NoHandler, TypeOK
  <1>2. ASSUME NEW pc, Goto(w, r, pc)
        PROVE  \A v \in Worker, s \in Raw :
                  h'[v][s].exhausted => h[v][s].exhausted
    <2>1. h' = [h EXCEPT ![w][r] = [h[w][r] EXCEPT !.pc = pc]]
      BY <1>2 DEF Goto, TypeOK
    <2>2. [h[w][r] EXCEPT !.pc = pc].exhausted = h[w][r].exhausted
      BY DEF TypeOK, Handler
    <2> QED BY <2>1, <2>2 DEF TypeOK
  <1>3. ASSUME Return(w, r)
        PROVE  \A v \in Worker, s \in Raw :
                  h'[v][s].exhausted => h[v][s].exhausted
    BY <1>3 DEF Return, NoHandler, TypeOK
  <1>4. ASSUME NEW f, EnterGate(w, r, f)
        PROVE  \A v \in Worker, s \in Raw :
                  h'[v][s].exhausted => h[v][s].exhausted
    BY <1>4 DEF EnterGate, TypeOK
  <1>5. \/ FailRaises(w, r)
        \/ \E pc : Goto(w, r, pc)
        \/ Return(w, r)
        \/ \E f : EnterGate(w, r, f)
    BY Zenon DEF HandlerStep, Quarantine, DeadLetter, Begin, BeginFails,
         SkipInPipeline, ClaimInsert, ClaimReread, ObserveRepeat,
         DeferRepeat, PassGate, ExtractItems, ExtractNothing,
         ExtractUnavailable, SaveTyped, SaveFails, MarkProcessed, Finish,
         StepError, Fail, Release
  <1> QED BY <1>1, <1>2, <1>3, <1>4, <1>5

(* Every handler step but Begin and DeadLetter writes quietly.             *)
LEMMA HandlerWritesQuietly ==
    ASSUME TypeOK, NEW w \in Worker, NEW r \in Raw, HandlerStep(w, r),
           ~Begin(w, r), ~DeadLetter(w, r)
    PROVE  \A s \in Raw : Quiet(raw[s], raw'[s])
  <1>0. \A s \in Raw : raw[s] \in Row /\ Quiet(raw[s], raw[s])
    BY QuietWrites DEF TypeOK
  <1>1. \/ UNCHANGED raw
        \/ Write(r, MarkRawQuarantined(raw[r]))
        \/ Write(r, MarkRawMarketScopeSkip(raw[r]))
        \/ Write(r, MarkRawProcessed(raw[r]))
        \/ Write(r, SuppressForSystemBlock(raw[r]))
        \/ Write(r, FinishExtractionAttempt(raw[r], "succeeded"))
        \/ Write(r, FinishExtractionAttempt(raw[r], "skipped"))
        \/ Write(r, FinishExtractionAttempt(raw[r], "failed"))
        \/ \E s : Write(r, MarkRepeatPending(raw[r], s))
        \/ \E s : Write(r, RecordRepeatObservation(raw[r], s))
    BY Zenon DEF HandlerStep, Quarantine, BeginFails, SkipInPipeline,
         ClaimInsert, ClaimReread, ObserveRepeat, DeferRepeat, PassGate,
         ExtractItems, ExtractNothing, ExtractUnavailable, SaveTyped,
         SaveFails, MarkProcessed, Finish, StepError, Fail, FailRaises,
         Release
  <1>2. ASSUME NEW row, Write(r, row), Quiet(raw[r], row)
        PROVE  \A s \in Raw : Quiet(raw[s], raw'[s])
    <2>1. \A s \in Raw : raw'[s] = IF s = r THEN row ELSE raw[s]
      BY <1>2 DEF Write, TypeOK
    <2> QED BY <1>0, <1>2, <2>1
  <1> QED BY <1>0, <1>1, <1>2, QuietWrites, Zenon

(* A begin adds an attempt.                                                *)
LEMMA BeginKeepsEarned ==
    ASSUME TypeOK, EarnedInv, NEW w \in Worker, NEW r \in Raw, Begin(w, r)
    PROVE  EarnedInv'
  <1> DEFINE new == BeginExtractionAttempt(raw[r])
  <1>1. raw[r] \in Row
    BY DEF TypeOK
  <1>2. \A s \in Raw : raw'[s] = IF s = r THEN new ELSE raw[s]
    BY DEF Begin, Write, TypeOK
  <1>3. /\ new.stored = raw[r].stored
        /\ new.outcome = "running"
        /\ new.attempts = raw[r].attempts + 1
    BY <1>1 DEF BeginExtractionAttempt, Row
  <1>4. \A v \in Worker, s \in Raw : h'[v][s].exhausted => h[v][s].exhausted
    BY HandlerExhaustsNothing DEF HandlerStep
  <1>5. DeadLetterEarned'
    BY <1>2, <1>3 DEF EarnedInv, DeadLetterEarned
  <1>6. ASSUME NEW v \in Worker, NEW s \in Raw, h'[v][s].exhausted
        PROVE  raw'[s].stored /\ raw'[s].attempts >= MaxRetries
    <2>1. raw[s].stored /\ raw[s].attempts >= MaxRetries
      BY <1>4, <1>6 DEF EarnedInv
    <2>2. raw[r].attempts \in Nat /\ MaxRetries \in Nat
      BY <1>1, WorkerAssumption DEF Row
    <2>3. CASE s = r
      <3>1. raw'[s] = new
        BY <1>2, <2>3
      <3>2. raw[r].attempts + 1 >= MaxRetries
        BY <2>1, <2>2, <2>3
      <3> QED BY <1>3, <2>1, <2>3, <3>1, <3>2
    <2>4. CASE s # r
      BY <1>2, <2>1, <2>4
    <2> QED BY <2>3, <2>4
  <1> QED BY <1>5, <1>6 DEF EarnedInv

(* A dead letter is written by a handler that found the attempts used up.  *)
LEMMA DeadLetterKeepsEarned ==
    ASSUME TypeOK, EarnedInv, NEW w \in Worker, NEW r \in Raw,
           DeadLetter(w, r)
    PROVE  EarnedInv'
  <1> DEFINE new == DeadLetterExtraction(raw[r])
  <1>1. raw[r] \in Row
    BY DEF TypeOK
  <1>2. \A s \in Raw : raw'[s] = raw[s] \/ (s = r /\ raw'[s] = new)
    <2>1. UNCHANGED raw \/ Write(r, new)
      BY DEF DeadLetter
    <2> HIDE DEF new
    <2>2. CASE UNCHANGED raw
      BY <2>2
    <2>3. CASE Write(r, new)
      BY <2>3 DEF Write, TypeOK
    <2> QED BY <2>1, <2>2, <2>3
  <1>3. new.stored = raw[r].stored /\ new.attempts = raw[r].attempts
    BY <1>1 DEF DeadLetterExtraction, Row
  <1>4. \A v \in Worker, s \in Raw : h'[v][s].exhausted => h[v][s].exhausted
    BY HandlerExhaustsNothing DEF HandlerStep
  <1>5. raw[r].attempts >= MaxRetries
    BY DEF EarnedInv, DeadLetter
  <1>6. DeadLetterEarned'
    BY <1>2, <1>3, <1>5 DEF EarnedInv, DeadLetterEarned
  <1> QED BY <1>2, <1>3, <1>4, <1>6 DEF EarnedInv

(* The cycle's own steps write quietly; the fetch tests what it reads.     *)
LEMMA CycleKeepsEarned ==
    ASSUME TypeOK, EarnedInv, NEW w \in Worker, CycleStep(w) \/ Crash(w)
    PROVE  EarnedInv'
  <1>0. \A r \in Raw : raw[r] \in Row
    BY DEF TypeOK
  <1>1. \A r \in Raw : Quiet(raw[r], raw'[r])
    <2> SUFFICES ASSUME NEW r \in Raw PROVE Quiet(raw[r], raw'[r])
      OBVIOUS
    <2>1. \/ raw'[r] = raw[r]
          \/ raw'[r] = SkipExpired(raw[r])
          \/ raw'[r] = SuppressForSystemBlock(raw[r])
          \/ raw'[r] = SetExtractionSuppressed(raw[r], TRUE)
          \/ raw'[r] = SetExtractionSuppressed(raw[r], FALSE)
          \/ \E s : raw'[r] = RecordRepeatObservation(raw[r], s)
      <3>1. CASE UNCHANGED raw
        BY <3>1
      <3>2. CASE Expire(w)
        BY <3>2 DEF Expire
      <3>3. CASE ReconcilePending(w)
        BY <3>3 DEF ReconcilePending
      <3>4. CASE Reenable(w)
        BY <3>4 DEF Reenable
      <3>5. CASE Screen(w)
        BY <3>5 DEF Screen
      <3>6. CASE ScreenAborts(w)
        BY <3>6 DEF ScreenAborts
      <3> QED BY <3>1, <3>2, <3>3, <3>4, <3>5, <3>6
              DEF CycleStep, ControlLookup, Join, Crash, Fetch
    <2> QED BY <1>0, <2>1, QuietWrites, Zenon
  <1>2. CASE Fetch(w)
    <2>1. UNCHANGED raw
      BY <1>2 DEF Fetch
    <2>2. ASSUME NEW v \in Worker, NEW r \in Raw, h'[v][r].exhausted,
                 ~h[v][r].exhausted
          PROVE  Fetchable(r) /\ Exhausted(raw[r])
      BY <1>2, <2>2 DEF Fetch, NoHandler, TypeOK
    <2>3. \A v \in Worker, r \in Raw : h'[v][r].exhausted =>
             raw[r].stored /\ raw[r].attempts >= MaxRetries
      BY <2>2 DEF EarnedInv, Fetchable, Queued, Exhausted
    <2> QED BY <2>1, <2>3 DEF EarnedInv, DeadLetterEarned
  <1>3. CASE ~Fetch(w)
    <2>1. \A v \in Worker, r \in Raw :
             h'[v][r].exhausted => h[v][r].exhausted
      <3>1. CASE UNCHANGED h
        BY <3>1
      <3>2. CASE Screen(w)
        <4>1. ASSUME NEW v \in Worker, NEW r \in Raw
              PROVE  \/ h'[v][r] = h[v][r]
                     \/ h'[v][r] = NoHandler
                     \/ h'[v][r] = [h[v][r] EXCEPT !.pc = "screened"]
          BY <3>2 DEF Screen, FetchedRows, TypeOK
        <4>2. ASSUME NEW v \in Worker, NEW r \in Raw
              PROVE  [h[v][r] EXCEPT !.pc = "screened"].exhausted
                        = h[v][r].exhausted
          BY DEF TypeOK, Handler
        <4>3. ~NoHandler.exhausted
          BY DEF NoHandler
        <4>4. ASSUME NEW v \in Worker, NEW r \in Raw
              PROVE  h'[v][r].exhausted => h[v][r].exhausted
          <5>1. CASE h'[v][r] = h[v][r]
            BY <5>1
          <5>2. CASE h'[v][r] = NoHandler
            BY <4>3, <5>2
          <5>3. CASE h'[v][r] = [h[v][r] EXCEPT !.pc = "screened"]
            BY <4>2, <5>3
          <5> QED BY <4>1, <5>1, <5>2, <5>3
        <4> QED BY <4>4
      <3>3. CASE ScreenAborts(w)
        BY <3>3 DEF ScreenAborts, NoHandler, TypeOK
      <3>4. CASE Crash(w)
        BY <3>4 DEF Crash, NoHandler, TypeOK
      <3> QED BY <1>3, <3>1, <3>2, <3>3, <3>4
              DEF CycleStep, Expire, ControlLookup, ReconcilePending,
                  Reenable, Join
    <2> QED BY <1>1, <2>1, QuietStep
  <1> QED BY <1>2, <1>3

(* The ingestor, time and the people, as long as nobody retries.           *)
LEMMA OthersKeepEarned ==
    ASSUME TypeOK, EarnedInv, "retry" \notin Controls,
           (\E r \in Raw : Ingest(r) \/ Age(r)) \/ ControlStep
    PROVE  EarnedInv'
  <1>0. \A r \in Raw : raw[r] \in Row
    BY DEF TypeOK
  <1>1. UNCHANGED h
    BY DEF Ingest, Age, ControlStep, RetryExtraction, SelectGroups,
       OptOutGroup, OptInGroup, StartExtraction, PauseExtraction,
       SetConnectionActive
  <1>2. ASSUME NEW r \in Raw, Ingest(r) PROVE EarnedInv'
    <2> DEFINE new == InsertRawMessage(r \in History)
    <2>1. new.outcome = "none"
      BY DEF InsertRawMessage, AbsentRow
    <2>2. ~raw[r].stored /\ Write(r, new)
      BY <1>2 DEF Ingest
    <2> HIDE DEF new
    <2>3. \A s \in Raw : raw'[s] = IF s = r THEN new ELSE raw[s]
      BY <2>2 DEF Write, TypeOK
    <2> QED BY <1>1, <2>1, <2>2, <2>3 DEF EarnedInv, DeadLetterEarned
  <1>3. CASE ~\E r \in Raw : Ingest(r)
    <2>1. \A r \in Raw : \/ raw'[r] = raw[r]
                         \/ raw'[r] = SetExtractionSuppressed(raw[r], TRUE)
                         \/ raw'[r] = SetExtractionSuppressed(raw[r], FALSE)
      <3>1. CASE UNCHANGED raw
        BY <3>1
      <3>2. CASE \E g \in Groups : OptOutGroup(g) \/ OptInGroup(g)
        BY <3>2 DEF OptOutGroup, OptInGroup, SuppressGroup
      <3> QED BY <1>3, <3>1, <3>2 DEF Age, ControlStep, RetryExtraction,
                 Control, SelectGroups, StartExtraction, PauseExtraction,
                 SetConnectionActive
    <2>2. \A r \in Raw : Quiet(raw[r], raw'[r])
      BY <1>0, <2>1, QuietWrites, Zenon
    <2> QED BY <1>1, <2>2, QuietStep
  <1> QED BY <1>2, <1>3

(* EarnedInv is inductive.                                                 *)
LEMMA NextEarned ==
    ASSUME "retry" \notin Controls, TypeOK, EarnedInv, [Next]_vars
    PROVE  EarnedInv'
  <1>1. CASE UNCHANGED vars
    BY <1>1 DEF vars, EarnedInv, DeadLetterEarned
  <1>2. ASSUME NEW w \in Worker, NEW r \in Raw, HandlerStep(w, r)
        PROVE  EarnedInv'
    <2>1. CASE Begin(w, r)
      BY <2>1, BeginKeepsEarned
    <2>2. CASE DeadLetter(w, r)
      BY <2>2, DeadLetterKeepsEarned
    <2>3. CASE ~Begin(w, r) /\ ~DeadLetter(w, r)
      BY <1>2, <2>3, HandlerWritesQuietly, HandlerExhaustsNothing, QuietStep
    <2> QED BY <2>1, <2>2, <2>3
  <1>3. ASSUME NEW w \in Worker, CycleStep(w) \/ Crash(w) PROVE EarnedInv'
    BY <1>3, CycleKeepsEarned
  <1> QED BY <1>1, <1>2, <1>3, OthersKeepEarned DEF Next

(* With any number of workers, crashes and failed calls, a row is only     *)
(* dead-lettered after MAX_RETRIES attempts, provided that no operator     *)
(* retries rows: the limit is tested on the attempts of the fetch, and     *)
(* nothing else lowers them before dead_letter_extraction is called.       *)
THEOREM DeadLettersEarned ==
    ASSUME "retry" \notin Controls
    PROVE  Spec => []DeadLetterEarned
  <1>1. Init => EarnedInv
    BY DEF Init, EarnedInv, DeadLetterEarned, AbsentRow, NoHandler
  <1>2. TypeOK /\ EarnedInv /\ [Next]_vars => EarnedInv'
    BY NextEarned
  <1>3. EarnedInv => DeadLetterEarned
    BY DEF EarnedInv
  <1> QED BY <1>1, <1>2, <1>3, TypeCorrect, PTL DEF Spec

-----------------------------------------------------------------------------
(* Nothing is consumed without a reason: one worker, readable preferences. *)

(* Reasons that a later finish of the attempt cannot erase.                *)
Kept(r) ==
    \/ r \in typed \cup anchorless \cup History
    \/ raw[r].repeatOf # None
    \/ Verdict[r] = "excluded"
    \/ Verdict[r] # "extract" /\ raw[r].suppressed

Begun == HandlerPcs \ {"idle", "fetched", "screened"}

(* The strengthening of ConsumedForReason: the outcome is only a reason    *)
(* for rows that no handler will finish any more.                          *)
ReasonInv ==
    /\ ConsumedForReason
    /\ \A w \in Worker, r \in Raw :
          /\ h[w][r].pc \notin {"idle", "fetched"} => cycle[w] = "lanes"
          /\ h[w][r].pc \in Begun /\ raw[r].processed => Kept(r)
          /\ h[w][r].pc = "mark" => r \in typed

(* What every step but the expiry and the dead letter does to a row.       *)
Stays(r) == raw'[r] = raw[r] \/ ~raw'[r].processed \/ Kept(r)'

(* How a handler's position may change.                                    *)
Follows(w, r) ==
    /\ h'[w][r].pc \notin {"idle", "fetched"} => cycle'[w] = "lanes"
    /\ h'[w][r].pc \in Begun => h[w][r].pc \in Begun \/ ~raw'[r].processed
    /\ h'[w][r].pc = "mark" => r \in typed'

LEMMA StaysKeepsReason ==
    ASSUME TypeOK, ReasonInv, typed \subseteq typed',
           anchorless \subseteq anchorless',
           \A r \in Raw : Stays(r),
           \A w \in Worker, r \in Raw : Follows(w, r)
    PROVE  ReasonInv'
  <1>1. ASSUME NEW r \in Raw, raw'[r] = raw[r], Kept(r) PROVE Kept(r)'
    BY <1>1 DEF Kept
  <1>2. ConsumedForReason'
    <2> SUFFICES ASSUME NEW r \in Raw, raw'[r].processed
                 PROVE  \/ Kept(r)'
                        \/ raw'[r].outcome \in {"expired", "dead_lettered"}
      BY DEF ConsumedForReason, Kept
    <2>1. CASE raw'[r] = raw[r]
      <3>1. Kept(r) \/ raw[r].outcome \in {"expired", "dead_lettered"}
        BY <2>1 DEF ReasonInv, ConsumedForReason, Kept
      <3> QED BY <1>1, <2>1, <3>1
    <2> QED BY <2>1 DEF Stays
  <1>3. ASSUME NEW w \in Worker, NEW r \in Raw, h'[w][r].pc \in Begun,
               raw'[r].processed
        PROVE  Kept(r)'
    <2>1. h[w][r].pc \in Begun
      BY <1>3 DEF Follows
    <2>2. CASE raw'[r] = raw[r]
      BY <1>1, <1>3, <2>1, <2>2 DEF ReasonInv
    <2> QED BY <1>3, <2>2 DEF Stays
  <1>4. \A w \in Worker, r \in Raw :
           /\ h'[w][r].pc \notin {"idle", "fetched"} => cycle'[w] = "lanes"
           /\ h'[w][r].pc = "mark" => r \in typed'
    BY DEF Follows
  <1> QED BY <1>2, <1>3, <1>4 DEF ReasonInv

(* The guarded statements: a processed row is left alone, and a row they   *)
(* consume is suppressed.                                                  *)
LEMMA GuardedWrites ==
    ASSUME NEW row \in Row
    PROVE  /\ \/ SetExtractionSuppressed(row, TRUE) = row
              \/ ~SetExtractionSuppressed(row, TRUE).processed
           /\ \/ SetExtractionSuppressed(row, FALSE) = row
              \/ ~SetExtractionSuppressed(row, FALSE).processed
           /\ \/ SuppressForSystemBlock(row) = row
              \/ SuppressForSystemBlock(row).suppressed
           /\ \/ MarkRawMarketScopeSkip(row) = row
              \/ MarkRawMarketScopeSkip(row).suppressed
           /\ MarkRawQuarantined(row).suppressed
  BY DEF Row, SetExtractionSuppressed, SuppressForSystemBlock,
         MarkRawMarketScopeSkip, MarkRawQuarantined

(* The unguarded ones: what they keep of the row.                          *)
LEMMA UnguardedWrites ==
    ASSUME NEW row \in Row
    PROVE  /\ MarkRawProcessed(row).repeatOf = row.repeatOf
           /\ \A status :
                /\ FinishExtractionAttempt(row, status).processed
                     = row.processed
                /\ FinishExtractionAttempt(row, status).suppressed
                     = row.suppressed
                /\ FinishExtractionAttempt(row, status).repeatOf
                     = row.repeatOf
           /\ \A s : MarkRepeatPending(row, s).repeatOf = s
           /\ \A s : RecordRepeatObservation(row, s).repeatOf = s
           /\ BeginExtractionAttempt(row).processed = row.processed
           /\ ~RetryRawExtraction(row).processed
  BY DEF Row, MarkRawProcessed, FinishExtractionAttempt, MarkRepeatPending,
         RecordRepeatObservation, BeginExtractionAttempt, RetryRawExtraction

(* A handler's step, dead letters apart, leaves every row with a reason.   *)
LEMMA HandlerStays ==
    ASSUME TypeOK, ReasonInv, "scope" \notin Faults,
           NEW w \in Worker, NEW r \in Raw,
           HandlerStep(w, r), ~DeadLetter(w, r)
    PROVE  \A s \in Raw : Stays(s)
  <1>0. raw[r] \in Row
    BY DEF TypeOK
  <1>1. ASSUME UNCHANGED raw PROVE \A s \in Raw : Stays(s)
    BY <1>1 DEF Stays
  <1>2. ASSUME NEW row, Write(r, row),
               row = raw[r] \/ ~row.processed \/ (raw'[r] = row => Kept(r)')
        PROVE  \A s \in Raw : Stays(s)
    <2>1. \A s \in Raw : raw'[s] = IF s = r THEN row ELSE raw[s]
      BY <1>2 DEF Write, TypeOK
    <2> QED BY <1>2, <2>1 DEF Stays
  <1>3. CASE Quarantine(w, r)
    <2>1. \/ UNCHANGED raw
          \/ Verdict[r] = "noise" /\ Write(r, MarkRawQuarantined(raw[r]))
          \/ Verdict[r] = "scope" /\ Write(r, MarkRawMarketScopeSkip(raw[r]))
      BY <1>3 DEF Quarantine
    <2>2. ASSUME Verdict[r] = "noise", raw'[r] = MarkRawQuarantined(raw[r])
          PROVE  Kept(r)'
      BY <1>0, <2>2, GuardedWrites DEF Kept
    <2>3. ASSUME Verdict[r] = "scope",
                 raw'[r] = MarkRawMarketScopeSkip(raw[r]),
                 MarkRawMarketScopeSkip(raw[r]) # raw[r]
          PROVE  Kept(r)'
      BY <1>0, <2>3, GuardedWrites DEF Kept
    <2> QED BY <1>1, <1>2, <2>1, <2>2, <2>3
  <1>4. CASE Begin(w, r)
    <2>1. Write(r, BeginExtractionAttempt(raw[r])) /\ ~raw[r].processed
      BY <1>4 DEF Begin
    <2>2. ~BeginExtractionAttempt(raw[r]).processed
      BY <1>0, <2>1, UnguardedWrites
    <2> QED BY <1>2, <2>1, <2>2
  <1>5. CASE SkipInPipeline(w, r)
    <2>1. \/ Verdict[r] = "blocked" /\ Write(r, SuppressForSystemBlock(raw[r]))
          \/ Verdict[r] = "excluded" /\ Write(r, MarkRawProcessed(raw[r]))
      BY <1>5 DEF SkipInPipeline
    <2>2. ASSUME Verdict[r] = "blocked",
                 raw'[r] = SuppressForSystemBlock(raw[r]),
                 SuppressForSystemBlock(raw[r]) # raw[r]
          PROVE  Kept(r)'
      BY <1>0, <2>2, GuardedWrites DEF Kept
    <2>3. Verdict[r] = "excluded" => Kept(r)'
      BY DEF Kept
    <2> QED BY <1>2, <2>1, <2>2, <2>3
  <1>6. CASE ObserveRepeat(w, r)
    <2> DEFINE s == FirstOf(AuthorContentRepeats(r))
    <2>1. Write(r, RecordRepeatObservation(raw[r], s))
          /\ AuthorContentRepeats(r) # {}
      BY <1>6 DEF ObserveRepeat
    <2>2. s \in Raw
      BY <2>1, FirstInRaw DEF AuthorContentRepeats
    <2> HIDE DEF s
    <2>3. raw'[r] = RecordRepeatObservation(raw[r], s) => Kept(r)'
      BY <1>0, <2>2, UnguardedWrites, RawAssumption DEF Kept
    <2> QED BY <1>2, <2>1, <2>3
  <1>7. CASE DeferRepeat(w, r)
    <2> DEFINE s == h[w][r].first
    <2>1. Write(r, MarkRepeatPending(raw[r], s)) /\ s # None
      BY <1>7 DEF DeferRepeat, ReadOtherOwner
    <2> HIDE DEF s
    <2>2. raw'[r] = MarkRepeatPending(raw[r], s) => Kept(r)'
      BY <1>0, <2>1, UnguardedWrites DEF Kept
    <2> QED BY <1>2, <2>1, <2>2
  <1>8. CASE ExtractNothing(w, r)
    <2>1. /\ r \in anchorless'
          /\ UNCHANGED raw \/ Write(r, MarkRawProcessed(raw[r]))
      BY <1>8 DEF ExtractNothing
    <2>2. Kept(r)'
      BY <2>1 DEF Kept
    <2> QED BY <1>1, <1>2, <2>1, <2>2
  <1>9. CASE MarkProcessed(w, r)
    <2>1. /\ r \in typed'
          /\ UNCHANGED raw \/ Write(r, MarkRawProcessed(raw[r]))
      BY <1>9 DEF MarkProcessed, ReasonInv, At
    <2>2. Kept(r)'
      BY <2>1 DEF Kept
    <2> QED BY <1>1, <1>2, <2>1, <2>2
  <1>10. CASE Finish(w, r) \/ Fail(w, r)
    <2>1. PICK status : Write(r, FinishExtractionAttempt(raw[r], status))
      BY <1>10 DEF Finish, Fail
    <2> DEFINE new == FinishExtractionAttempt(raw[r], status)
    <2>2. h[w][r].pc \in Begun
      BY <1>10 DEF Finish, Fail, At, Begun, HandlerPcs
    <2>3. UNCHANGED <<typed, anchorless>>
      BY <1>10 DEF Finish, Fail
    <2>4. /\ new.processed = raw[r].processed
          /\ new.suppressed = raw[r].suppressed
          /\ new.repeatOf = raw[r].repeatOf
      BY <1>0, UnguardedWrites
    <2> HIDE DEF new
    <2>5. new.processed /\ raw'[r] = new => Kept(r)'
      <3>1. raw[r].processed => Kept(r)
        BY <2>2 DEF ReasonInv
      <3> QED BY <2>3, <2>4, <3>1 DEF Kept
    <2>6. Write(r, new)
      BY <2>1 DEF new
    <2> QED BY <1>2, <2>5, <2>6
  <1>11. CASE \/ BeginFails(w, r) \/ ClaimInsert(w, r) \/ ClaimReread(w, r)
              \/ PassGate(w, r) \/ ExtractItems(w, r)
              \/ ExtractUnavailable(w, r) \/ SaveTyped(w, r)
              \/ SaveFails(w, r) \/ StepError(w, r) \/ FailRaises(w, r)
              \/ Release(w, r)
    BY <1>1, <1>11 DEF BeginFails, ClaimInsert, ClaimReread, PassGate,
       ExtractItems, ExtractUnavailable, SaveTyped, SaveFails, StepError,
       FailRaises, Release
  <1> QED BY <1>3, <1>4, <1>5, <1>6, <1>7, <1>8, <1>9, <1>10, <1>11
          DEF HandlerStep

(* Where a handler's step leaves the handlers.                             *)
LEMMA HandlerFollows ==
    ASSUME TypeOK, ReasonInv, NEW w \in Worker, NEW r \in Raw,
           HandlerStep(w, r)
    PROVE  /\ typed \subseteq typed'
           /\ anchorless \subseteq anchorless'
           /\ \A v \in Worker, s \in Raw : Follows(v, s)
  <1>1. typed \subseteq typed' /\ anchorless \subseteq anchorless'
        /\ UNCHANGED cycle
    BY Zenon DEF HandlerStep, Quarantine, DeadLetter, Begin, BeginFails,
         SkipInPipeline, ClaimInsert, ClaimReread, ObserveRepeat,
         DeferRepeat, PassGate, ExtractItems, ExtractNothing,
         ExtractUnavailable, SaveTyped, SaveFails, MarkProcessed, Finish,
         StepError, Fail, FailRaises, Release
  <1>2. ASSUME NEW v \in Worker, NEW s \in Raw,
               h'[v][s] = h[v][s] \/ h'[v][s].pc = "idle"
        PROVE  Follows(v, s)
    BY <1>1, <1>2 DEF Follows, ReasonInv, Begun
  <1>3. CASE FailRaises(w, r)
    <2>1. \A v \in Worker, s \in Raw :
             h'[v][s] = h[v][s] \/ h'[v][s] = NoHandler
      BY <1>3 DEF FailRaises, TypeOK
    <2> QED BY <1>1, <1>2, <2>1 DEF NoHandler
  <1>4. CASE ~FailRaises(w, r)
    <2>1. \/ \E pc \in HandlerPcs \ {"fetched", "screened"} : Goto(w, r, pc)
          \/ Return(w, r)
          \/ \E f : EnterGate(w, r, f)
      BY <1>4 DEF HandlerStep, Quarantine, DeadLetter, Begin, BeginFails,
           SkipInPipeline, ClaimInsert, ClaimReread, ObserveRepeat,
           DeferRepeat, PassGate, ExtractItems, ExtractNothing,
           ExtractUnavailable, SaveTyped, SaveFails, MarkProcessed, Finish,
           StepError, Fail, Release, HandlerPcs
    <2>2. \A v \in Worker, s \in Raw : v # w \/ s # r => Follows(v, s)
      BY <1>2, <2>1, HandlerMovesAlone
    <2>3. Follows(w, r)
      <3>1. h[w][r].pc \notin {"idle", "fetched"}
        BY <1>4 DEF HandlerStep, Quarantine, DeadLetter, Begin, BeginFails,
           MayBegin, SkipInPipeline, ClaimInsert, ClaimReread,
           ObserveRepeat, DeferRepeat, PassGate, ExtractItems,
           ExtractNothing, ExtractUnavailable, SaveTyped, SaveFails,
           MarkProcessed, Finish, StepError, Fail, Release, At
      <3>2. cycle'[w] = "lanes"
        BY <1>1, <3>1 DEF ReasonInv
      <3>3. CASE Return(w, r)
        BY <1>2, <3>3, HandlerEffects
      <3>4. CASE Begin(w, r)
        <4>1. h'[w][r].pc = "claim"
          BY <3>4, HandlerEffects DEF Begin, HandlerPcs
        <4>2. raw'[r] = BeginExtractionAttempt(raw[r]) /\ ~raw[r].processed
          BY <3>4 DEF Begin, Write, TypeOK
        <4>3. ~raw'[r].processed
          BY <4>2, UnguardedWrites DEF TypeOK
        <4> QED BY <3>2, <4>1, <4>3 DEF Follows
      <3>5. CASE ~Begin(w, r) /\ ~Return(w, r)
        <4>1. h[w][r].pc \in Begun
          BY <1>4, <3>5 DEF HandlerStep, Quarantine, DeadLetter, BeginFails,
             SkipInPipeline, ClaimInsert, ClaimReread, ObserveRepeat,
             DeferRepeat, PassGate, ExtractItems, ExtractNothing,
             ExtractUnavailable, SaveTyped, SaveFails, MarkProcessed,
             Finish, StepError, Fail, Release, At, Begun, HandlerPcs
        <4>2. CASE SaveTyped(w, r)
          BY <3>2, <4>1, <4>2 DEF Follows, SaveTyped
        <4>3. CASE ~SaveTyped(w, r)
          <5>1. \/ \E pc \in HandlerPcs \ {"mark"} : Goto(w, r, pc)
                \/ \E f : EnterGate(w, r, f)
            BY <1>4, <3>5, <4>3 DEF HandlerStep, Quarantine, DeadLetter,
               BeginFails, SkipInPipeline, ClaimInsert, ClaimReread,
               ObserveRepeat, DeferRepeat, PassGate, ExtractItems,
               ExtractNothing, ExtractUnavailable, SaveFails,
               MarkProcessed, Finish, StepError, Fail, Release, HandlerPcs
          <5>2. h'[w][r].pc # "mark"
            BY <5>1, HandlerEffects DEF EnterGate, TypeOK
          <5> QED BY <3>2, <4>1, <5>2 DEF Follows
        <4> QED BY <4>2, <4>3
      <3> QED BY <3>3, <3>4, <3>5
    <2> QED BY <1>1, <2>2, <2>3
  <1> QED BY <1>1, <1>3, <1>4

(* The dead letter: its handler has not begun and is gone afterwards.      *)
LEMMA DeadLetterKeepsReason ==
    ASSUME TypeOK, ReasonInv, NEW w \in Worker, Worker = {w}, NEW r \in Raw,
           DeadLetter(w, r)
    PROVE  ReasonInv'
  <1> DEFINE new == DeadLetterExtraction(raw[r])
  <1>0. raw[r] \in Row
    BY DEF TypeOK
  <1>1. UNCHANGED <<typed, anchorless, cycle>>
    BY DEF DeadLetter
  <1>2. new = raw[r] \/ new.outcome = "dead_lettered"
    BY <1>0 DEF DeadLetterExtraction, Row
  <1>3. UNCHANGED raw \/ Write(r, new)
    BY DEF DeadLetter
  <1> HIDE DEF new
  <1>4. \A s \in Raw : raw'[s] = raw[s] \/ (s = r /\ raw'[s] = new)
    <2>1. CASE UNCHANGED raw
      BY <2>1
    <2>2. CASE Write(r, new)
      BY <2>2 DEF Write, TypeOK
    <2> QED BY <1>3, <2>1, <2>2
  <1>5. ConsumedForReason'
    BY <1>1, <1>2, <1>4 DEF ReasonInv, ConsumedForReason
  <1>6. Return(w, r)
    BY DEF DeadLetter
  <1>7. /\ h'[w][r].pc = "idle"
        /\ \A s \in Raw : s # r => h'[w][s] = h[w][s]
    BY <1>6, HandlerEffects, HandlerMovesAlone
  <1>8. ASSUME NEW s \in Raw
        PROVE  /\ h'[w][s].pc \notin {"idle", "fetched"} => cycle'[w] = "lanes"
               /\ h'[w][s].pc \in Begun /\ raw'[s].processed => Kept(s)'
               /\ h'[w][s].pc = "mark" => s \in typed'
    <2>1. CASE s = r
      BY <1>7, <2>1 DEF Begun
    <2>2. CASE s # r
      BY <1>1, <1>4, <1>7, <2>2 DEF ReasonInv, Kept
    <2> QED BY <2>1, <2>2
  <1> QED BY <1>5, <1>8 DEF ReasonInv

(* The expiry: a worker at the top of its cycle holds no handler.          *)
LEMMA ExpireKeepsReason ==
    ASSUME TypeOK, ReasonInv, NEW w \in Worker, Worker = {w}, Expire(w)
    PROVE  ReasonInv'
  <1>1. UNCHANGED <<typed, anchorless, h>> /\ cycle[w] = "top"
    BY DEF Expire, Advance
  <1>2. \A r \in Raw : raw'[r] = raw[r] \/ raw'[r] = SkipExpired(raw[r])
    BY DEF Expire
  <1>3. \A r \in Raw : SkipExpired(raw[r]).outcome = "expired"
    BY DEF SkipExpired, TypeOK, Row
  <1>4. ConsumedForReason'
    BY <1>1, <1>2, <1>3 DEF ReasonInv, ConsumedForReason
  <1>5. \A r \in Raw : h'[w][r].pc \in {"idle", "fetched"}
    BY <1>1 DEF ReasonInv
  <1> QED BY <1>4, <1>5 DEF ReasonInv, Begun

(* The rest of the cycle, and a crash: the worker has begun nothing, and   *)
(* begins nothing by these steps.                                          *)
LEMMA CycleKeepsReason ==
    ASSUME TypeOK, ReasonInv, NEW w \in Worker,
           CycleStep(w) \/ Crash(w), ~Expire(w)
    PROVE  ReasonInv'
  <1>0. \A r \in Raw : raw[r] \in Row
    BY DEF TypeOK
  <1>1. UNCHANGED <<typed, anchorless>>
    BY DEF CycleStep, Crash, ControlLookup, ReconcilePending, Reenable,
       Fetch, Screen, ScreenAborts, Join
  <1>2. \A r \in Raw : Stays(r)
    <2> SUFFICES ASSUME NEW r \in Raw PROVE Stays(r)
      OBVIOUS
    <2>1. CASE UNCHANGED raw
      BY <2>1 DEF Stays
    <2>2. CASE ReconcilePending(w)
      <3> DEFINE s == FirstOf(AuthorContentRepeats(r))
      <3>1. \/ raw'[r] = raw[r]
            \/ /\ AuthorContentRepeats(r) # {}
               /\ raw'[r] = RecordRepeatObservation(raw[r], s)
        BY <2>2 DEF ReconcilePending, Reconcilable
      <3>2. AuthorContentRepeats(r) # {} => s \in Raw
        BY FirstInRaw DEF AuthorContentRepeats
      <3> HIDE DEF s
      <3> QED BY <1>0, <3>1, <3>2, UnguardedWrites, RawAssumption
              DEF Stays, Kept
    <2>3. CASE Reenable(w)
      BY <1>0, <2>3, GuardedWrites DEF Reenable, Stays
    <2>4. CASE Screen(w) \/ ScreenAborts(w)
      <3>1. \/ raw'[r] = raw[r]
            \/ raw'[r] = SetExtractionSuppressed(raw[r], TRUE)
            \/ /\ Verdict[r] = "blocked"
               /\ raw'[r] = SuppressForSystemBlock(raw[r])
        BY <2>4 DEF Screen, ScreenAborts, Blocked
      <3> QED BY <1>0, <3>1, GuardedWrites DEF Stays, Kept
    <2> QED BY <2>1, <2>2, <2>3, <2>4 DEF CycleStep, Crash, ControlLookup,
               Fetch, Join
  <1>3. ASSUME NEW v \in Worker, NEW r \in Raw PROVE Follows(v, r)
    <2>1. CASE v # w
      <3>1. cycle'[v] = cycle[v] /\ h'[v][r] = h[v][r]
        BY <2>1 DEF CycleStep, Crash, ControlLookup, ReconcilePending,
           Reenable, Fetch, Screen, ScreenAborts, Join, Expire, Advance,
           TypeOK
      <3> QED BY <1>1, <3>1 DEF Follows, ReasonInv
    <2>2. CASE v = w /\ (Fetch(w) \/ ScreenAborts(w) \/ Crash(w))
      <3>1. h'[v][r].pc \in {"idle", "fetched"}
        BY <2>2 DEF Fetch, ScreenAborts, Crash, NoHandler, TypeOK
      <3> QED BY <3>1 DEF Follows, Begun
    <2>3. CASE v = w /\ Screen(w)
      <3>1. \/ h'[v][r] = NoHandler
            \/ h'[v][r] = [h[v][r] EXCEPT !.pc = "screened"]
        BY <2>3 DEF Screen, TypeOK
      <3>2. [h[v][r] EXCEPT !.pc = "screened"].pc = "screened"
        BY DEF TypeOK, Handler
      <3>3. cycle'[v] = "lanes"
        BY <2>3 DEF Screen, Advance, TypeOK
      <3>4. h'[v][r].pc \in {"idle", "screened"}
        <4>1. CASE h'[v][r] = NoHandler
          BY <4>1 DEF NoHandler
        <4>2. CASE h'[v][r] = [h[v][r] EXCEPT !.pc = "screened"]
          BY <3>2, <4>2
        <4> QED BY <3>1, <4>1, <4>2
      <3> QED BY <3>3, <3>4 DEF Follows, Begun
    <2>4. CASE v = w /\ (\/ ControlLookup(w) \/ ReconcilePending(w)
                         \/ Reenable(w) \/ Join(w))
      <3>1. h'[v][r] = h[v][r]
        BY <2>4 DEF ControlLookup, ReconcilePending, Reenable, Join
      <3>2. h[v][r].pc \in {"idle", "fetched"}
        BY <2>4 DEF ControlLookup, ReconcilePending, Reenable, Join,
           Advance, ReasonInv
      <3> QED BY <3>1, <3>2 DEF Follows, Begun
    <2> QED BY <2>1, <2>2, <2>3, <2>4 DEF CycleStep
  <1> QED BY <1>1, <1>2, <1>3, StaysKeepsReason

(* The ingestor, time and the people.                                      *)
LEMMA OthersKeepReason ==
    ASSUME TypeOK, ReasonInv,
           (\E r \in Raw : Ingest(r) \/ Age(r)) \/ ControlStep
    PROVE  ReasonInv'
  <1>0. \A r \in Raw : raw[r] \in Row
    BY DEF TypeOK
  <1>1. UNCHANGED <<typed, anchorless, cycle, h>>
    BY DEF Ingest, Age, ControlStep, RetryExtraction, SelectGroups,
       OptOutGroup, OptInGroup, StartExtraction, PauseExtraction,
       SetConnectionActive
  <1>2. ASSUME NEW s \in Raw PROVE Stays(s)
    <2>1. CASE UNCHANGED raw
      BY <2>1 DEF Stays
    <2>2. ASSUME NEW r \in Raw, Ingest(r) PROVE Stays(s)
      <3> DEFINE new == InsertRawMessage(r \in History)
      <3>1. new.processed = (r \in History)
        BY DEF InsertRawMessage, AbsentRow
      <3>2. Write(r, new)
        BY <2>2 DEF Ingest
      <3> HIDE DEF new
      <3>3. raw'[s] = IF s = r THEN new ELSE raw[s]
        BY <3>2 DEF Write, TypeOK
      <3>4. CASE s # r
        BY <3>3, <3>4 DEF Stays
      <3>5. CASE s = r /\ r \in History
        BY <3>5 DEF Stays, Kept
      <3>6. CASE s = r /\ r \notin History
        BY <3>1, <3>3, <3>6 DEF Stays
      <3> QED BY <3>4, <3>5, <3>6
    <2>3. ASSUME NEW r \in Raw, RetryExtraction(r) PROVE Stays(s)
      <3>1. raw'[s] = IF s = r THEN RetryRawExtraction(raw[r]) ELSE raw[s]
        BY <2>3 DEF RetryExtraction, Write, TypeOK
      <3> QED BY <1>0, <3>1, UnguardedWrites DEF Stays
    <2>4. CASE \E g \in Groups : OptOutGroup(g) \/ OptInGroup(g)
      <3>1. \/ raw'[s] = raw[s]
            \/ raw'[s] = SetExtractionSuppressed(raw[s], TRUE)
            \/ raw'[s] = SetExtractionSuppressed(raw[s], FALSE)
        BY <2>4 DEF OptOutGroup, OptInGroup, SuppressGroup
      <3>2. raw'[s] = raw[s] \/ ~raw'[s].processed
        <4>1. CASE raw'[s] = raw[s]
          BY <4>1
        <4>2. CASE raw'[s] = SetExtractionSuppressed(raw[s], TRUE)
          BY <1>0, <4>2, GuardedWrites
        <4>3. CASE raw'[s] = SetExtractionSuppressed(raw[s], FALSE)
          BY <1>0, <4>3, GuardedWrites
        <4> QED BY <3>1, <4>1, <4>2, <4>3
      <3> QED BY <3>2 DEF Stays
    <2> QED BY <2>1, <2>2, <2>3, <2>4 DEF Age, ControlStep, SelectGroups,
               StartExtraction, PauseExtraction, SetConnectionActive
  <1>3. \A w \in Worker, r \in Raw : Follows(w, r)
    BY <1>1 DEF Follows, ReasonInv
  <1> QED BY <1>1, <1>2, <1>3, StaysKeepsReason

(* With one worker and readable market preferences no row ever leaves the  *)
(* queue without a reason that survives: through crashes, failed writes    *)
(* and lookups, retries and every control, a provider failure never        *)
(* consumes a message.                                                     *)
THEOREM NothingConsumedSilently ==
    ASSUME NEW w0, Worker = {w0}, "scope" \notin Faults
    PROVE  Spec => []ConsumedForReason
  <1>1. Init => ReasonInv
    BY DEF Init, ReasonInv, ConsumedForReason, AbsentRow, NoHandler, Begun
  <1>2. TypeOK /\ ReasonInv /\ [Next]_vars => ReasonInv'
    <2> SUFFICES ASSUME TypeOK, ReasonInv, [Next]_vars PROVE ReasonInv'
      OBVIOUS
    <2>1. CASE UNCHANGED vars
      BY <2>1 DEF vars, ReasonInv, ConsumedForReason, Kept
    <2>2. ASSUME NEW r \in Raw, HandlerStep(w0, r) PROVE ReasonInv'
      <3>1. CASE DeadLetter(w0, r)
        BY <3>1, DeadLetterKeepsReason
      <3>2. CASE ~DeadLetter(w0, r)
        BY <2>2, <3>2, HandlerStays, HandlerFollows, StaysKeepsReason
      <3> QED BY <3>1, <3>2
    <2>3. CASE CycleStep(w0) \/ Crash(w0)
      BY <2>3, ExpireKeepsReason, CycleKeepsReason
    <2> QED BY <2>1, <2>2, <2>3, OthersKeepReason DEF Next
  <1>3. ReasonInv => ConsumedForReason
    BY DEF ReasonInv
  <1> QED BY <1>1, <1>2, <1>3, TypeCorrect, PTL DEF Spec

-----------------------------------------------------------------------------
(* Handlers live inside the lanes of their worker's cycle.                 *)

(* Nothing is held before the fetch, and only fetched rows up to the       *)
(* screens.                                                                *)
LanesInv ==
    \A w \in Worker, r \in Raw :
        /\ cycle[w] \notin {"screen", "lanes"} => h[w][r].pc = "idle"
        /\ cycle[w] = "screen" => h[w][r].pc \in {"idle", "fetched"}

(* A handler that takes a step is past the screens, and so is its cycle.   *)
LEMMA HandlerInLanes ==
    ASSUME TypeOK, LanesInv, NEW w \in Worker, NEW r \in Raw,
           HandlerStep(w, r)
    PROVE  /\ h[w][r].pc \notin {"idle", "fetched"}
           /\ cycle[w] = "lanes"
  <1>1. h[w][r].pc \notin {"idle", "fetched"}
    BY DEF HandlerStep, Quarantine, DeadLetter, Begin, MayBegin, At,
           BeginFails, SkipInPipeline, ClaimInsert, ClaimReread,
           ObserveRepeat, DeferRepeat, PassGate, ExtractItems,
           ExtractNothing, ExtractUnavailable, SaveTyped, SaveFails,
           MarkProcessed, Finish, StepError, Fail, FailRaises, Release
  <1> QED BY <1>1 DEF LanesInv

(* A handler's step moves that handler, or clears its batch.               *)
LEMMA HandlerMoveOrClear ==
    ASSUME TypeOK, NEW w \in Worker, NEW r \in Raw, HandlerStep(w, r)
    PROVE  /\ \A v \in Worker, s \in Raw : v # w => h'[v][s] = h[v][s]
           /\ \A s \in Raw :
                 \/ h'[w][s] = h[w][s]
                 \/ h'[w][s] = NoHandler
                 \/ s = r /\ h'[w][s].pc \notin {"fetched", "screened"}
           /\ cycle' = cycle
  <1>1. cycle' = cycle
    BY DEF HandlerStep, Quarantine, DeadLetter, Begin, BeginFails,
           SkipInPipeline, ClaimInsert, ClaimReread, ObserveRepeat,
           DeferRepeat, PassGate, ExtractItems, ExtractNothing,
           ExtractUnavailable, SaveTyped, SaveFails, MarkProcessed, Finish,
           StepError, Fail, FailRaises, Release
  <1>2. CASE FailRaises(w, r)
    BY <1>1, <1>2 DEF FailRaises, TypeOK
  <1>3. CASE ~FailRaises(w, r)
    <2>1. \/ \E pc \in HandlerPcs \ {"fetched", "screened"} : Goto(w, r, pc)
          \/ Return(w, r)
          \/ \E f : EnterGate(w, r, f)
      BY <1>3 DEF HandlerStep, Quarantine, DeadLetter, Begin, BeginFails,
           SkipInPipeline, ClaimInsert, ClaimReread, ObserveRepeat,
           DeferRepeat, PassGate, ExtractItems, ExtractNothing,
           ExtractUnavailable, SaveTyped, SaveFails, MarkProcessed, Finish,
           StepError, Fail, Release, HandlerPcs
    <2> QED BY <1>1, <2>1, HandlerMovesAlone
  <1> QED BY <1>2, <1>3

LEMMA NextLanes == TypeOK /\ LanesInv /\ [Next]_vars => LanesInv'
  <1> SUFFICES ASSUME TypeOK, LanesInv, [Next]_vars PROVE LanesInv'
    OBVIOUS
  <1>0. \A r \in Raw : NoHandler.pc = "idle"
    BY DEF NoHandler
  <1>1. CASE UNCHANGED <<h, cycle>>
    BY <1>1 DEF LanesInv
  <1>2. ASSUME NEW w \in Worker, NEW r \in Raw, HandlerStep(w, r)
        PROVE  LanesInv'
    <2>1. cycle[w] = "lanes" /\ cycle' = cycle
      BY <1>2, HandlerInLanes, HandlerMoveOrClear
    <2>2. \A v \in Worker, s \in Raw : v # w => h'[v][s] = h[v][s]
      BY <1>2, HandlerMoveOrClear
    <2> QED BY <2>1, <2>2 DEF LanesInv
  <1>3. ASSUME NEW w \in Worker, CycleStep(w) \/ Crash(w)
        PROVE  LanesInv'
    <2>1. ASSUME NEW v \in Worker \ {w}, NEW s \in Raw
          PROVE  h'[v][s] = h[v][s] /\ cycle'[v] = cycle[v]
      BY <1>3 DEF CycleStep, Expire, ControlLookup, ReconcilePending,
           Reenable, Fetch, Screen, ScreenAborts, Join, Crash, Advance,
           TypeOK
    <2> SUFFICES ASSUME NEW s \in Raw
                 PROVE /\ cycle'[w] \notin {"screen", "lanes"}
                             => h'[w][s].pc = "idle"
                       /\ cycle'[w] = "screen"
                             => h'[w][s].pc \in {"idle", "fetched"}
      BY <2>1 DEF LanesInv
    <2>2. CASE Fetch(w)
      BY <2>2, <1>0 DEF Fetch, Advance, TypeOK
    <2>3. CASE Screen(w)
      BY <2>3 DEF Screen, Advance, TypeOK
    <2>4. CASE ScreenAborts(w) \/ Crash(w)
      BY <2>4, <1>0 DEF ScreenAborts, Crash, Advance, TypeOK
    <2>5. CASE Join(w)
      BY <2>5 DEF Join, Advance, TypeOK
    <2>6. CASE Expire(w) \/ ControlLookup(w) \/ ReconcilePending(w)
                 \/ Reenable(w)
      <3>1. /\ h' = h
            /\ cycle[w] \notin {"screen", "lanes"}
            /\ cycle'[w] \notin {"screen", "lanes"}
        BY <2>6 DEF Expire, ControlLookup, ReconcilePending, Reenable,
             Advance, TypeOK
      <3> QED BY <3>1 DEF LanesInv
    <2> QED BY <1>3, <2>2, <2>3, <2>4, <2>5, <2>6 DEF CycleStep
  <1> QED BY <1>1, <1>2, <1>3
          DEF Next, Ingest, Age, ControlStep, RetryExtraction, SelectGroups,
              OptOutGroup, OptInGroup, StartExtraction, PauseExtraction,
              SetConnectionActive, vars

(* LanesInv for any number of workers.                                     *)
LEMMA HandlersStayInLanes == Spec => []LanesInv
  <1>1. Init => LanesInv
    BY DEF Init, LanesInv, NoHandler
  <1> QED BY <1>1, NextLanes, TypeCorrect, PTL DEF Spec

-----------------------------------------------------------------------------
(* A row that was given up holds no claim.                                 *)

(* Where the handler of a row has begun an attempt and not yet returned.   *)
BusyPcs == HandlerPcs \ {"idle", "fetched", "screened"}

(* The next fetch will not find the attempts of the row used up.           *)
Spare(row) == row.processed \/ row.attempts < MaxRetries

(* The strengthening of DeadLetterReleasesClaim: a row that keeps its      *)
(* claim when its handler returns is consumed or has attempts left, so     *)
(* that no fetch hands it to the dead letter.                              *)
GivenUp(w, r) ==
    /\ h[w][r].pc \in BusyPcs => raw[r].outcome # "dead_lettered"
    /\ h[w][r].pc \in {"finish_stored", "finish_skipped"} => Spare(raw[r])
    /\ claims[FpOf[r]] = r =>
         /\ raw[r].outcome # "dead_lettered"
         /\ h[w][r].pc \notin BusyPcs =>
              ~h[w][r].exhausted /\ Spare(raw[r])

GivenUpInv == \A w \in Worker, r \in Raw : GivenUp(w, r)

(* A write that gives nothing up and uses nothing up.                      *)
Calm(row, new) ==
    /\ new.outcome = "dead_lettered" => row.outcome = "dead_lettered"
    /\ Spare(row) => Spare(new)

(* Every statement is calm but begin and dead letter, and those that take  *)
(* a row out of the queue leave it spare.                                  *)
LEMMA CalmWrites ==
    ASSUME NEW row \in Row
    PROVE  /\ Calm(row, row)
           /\ Calm(row, SkipExpired(row))
           /\ Calm(row, MarkRawProcessed(row))
           /\ Calm(row, MarkRawQuarantined(row))
           /\ Calm(row, MarkRawMarketScopeSkip(row))
           /\ Calm(row, SuppressForSystemBlock(row))
           /\ Calm(row, SetExtractionSuppressed(row, TRUE))
           /\ Calm(row, SetExtractionSuppressed(row, FALSE))
           /\ Calm(row, FinishExtractionAttempt(row, "succeeded"))
           /\ Calm(row, FinishExtractionAttempt(row, "skipped"))
           /\ Calm(row, FinishExtractionAttempt(row, "failed"))
           /\ \A s : Calm(row, MarkRepeatPending(row, s))
           /\ \A s : Calm(row, RecordRepeatObservation(row, s))
           /\ Calm(row, InsertRawMessage(TRUE))
           /\ Calm(row, InsertRawMessage(FALSE))
           /\ Calm(row, RetryRawExtraction(row))
  <1>1. 0 < MaxRetries
    BY WorkerAssumption
  <1>2. /\ InsertRawMessage(TRUE).attempts = 0
        /\ InsertRawMessage(FALSE).attempts = 0
        /\ InsertRawMessage(TRUE).outcome = "none"
        /\ InsertRawMessage(FALSE).outcome = "none"
        /\ RetryRawExtraction(row).attempts = 0
        /\ RetryRawExtraction(row).outcome = "none"
    BY DEF InsertRawMessage, AbsentRow, RetryRawExtraction, Row
  <1>3. /\ Calm(row, InsertRawMessage(TRUE))
        /\ Calm(row, InsertRawMessage(FALSE))
        /\ Calm(row, RetryRawExtraction(row))
    BY <1>1, <1>2 DEF Calm, Spare
  <1>4. ASSUME NEW new, Quiet(row, new), row.processed => new.processed
        PROVE  Calm(row, new)
    BY <1>4 DEF Quiet, Calm, Spare
  <1>5. /\ SkipExpired(row).processed
        /\ MarkRawProcessed(row).processed
        /\ MarkRawQuarantined(row).processed
        /\ MarkRawMarketScopeSkip(row).processed
        /\ SuppressForSystemBlock(row).processed
        /\ SetExtractionSuppressed(row, TRUE).processed = row.processed
        /\ SetExtractionSuppressed(row, FALSE).processed = row.processed
        /\ \A s : MarkRepeatPending(row, s).processed
        /\ \A s : RecordRepeatObservation(row, s).processed
        /\ \A s : FinishExtractionAttempt(row, s).processed = row.processed
    BY DEF Row, SkipExpired, MarkRawProcessed, MarkRawQuarantined,
         MarkRawMarketScopeSkip, SuppressForSystemBlock,
         SetExtractionSuppressed, FinishExtractionAttempt,
         MarkRepeatPending, RecordRepeatObservation
  <1> QED BY <1>3, <1>4, <1>5, QuietWrites

(* A calm step that hands out no new claim, with the handler at rest or    *)
(* still outside an attempt.                                               *)
LEMMA CalmKeepsGivenUp ==
    ASSUME NEW w \in Worker, NEW r \in Raw, GivenUp(w, r),
           Calm(raw[r], raw'[r]),
           claims'[FpOf[r]] = r => claims[FpOf[r]] = r,
           \/ h'[w][r] = h[w][r]
           \/ /\ h[w][r].pc \notin BusyPcs
              /\ h'[w][r].pc \notin BusyPcs
              /\ h'[w][r].exhausted => h[w][r].exhausted
    PROVE  GivenUp(w, r)'
  <1>1. "finish_stored" \in BusyPcs /\ "finish_skipped" \in BusyPcs
    BY DEF BusyPcs, HandlerPcs
  <1>2. CASE h'[w][r] = h[w][r]
    BY <1>2 DEF GivenUp, Calm
  <1>3. CASE /\ h[w][r].pc \notin BusyPcs
             /\ h'[w][r].pc \notin BusyPcs
             /\ h'[w][r].exhausted => h[w][r].exhausted
    BY <1>1, <1>3 DEF GivenUp, Calm
  <1> QED BY <1>2, <1>3

(* A handler in the middle of its attempt.                                 *)
LEMMA BusyKeepsGivenUp ==
    ASSUME NEW w \in Worker, NEW r \in Raw,
           h'[w][r].pc \in BusyPcs,
           raw'[r].outcome # "dead_lettered",
           h'[w][r].pc \in {"finish_stored", "finish_skipped"}
              => raw'[r].processed
    PROVE  GivenUp(w, r)'
  BY DEF GivenUp, Spare

(* A handler writes no row but its own, and takes no claim from another.   *)
LEMMA HandlerWritesOwn ==
    ASSUME TypeOK, NEW w \in Worker, NEW r \in Raw, HandlerStep(w, r),
           NEW s \in Raw, s # r
    PROVE  /\ raw'[s] = raw[s]
           /\ claims'[FpOf[s]] = s => claims[FpOf[s]] = s
  <1>1. \/ UNCHANGED raw
        \/ \E row : Write(r, row)
    BY Zenon DEF HandlerStep, Quarantine, DeadLetter, Begin, BeginFails,
         SkipInPipeline, ClaimInsert, ClaimReread, ObserveRepeat,
         DeferRepeat, PassGate, ExtractItems, ExtractNothing,
         ExtractUnavailable, SaveTyped, SaveFails, MarkProcessed, Finish,
         StepError, Fail, FailRaises, Release
  <1>2. raw'[s] = raw[s]
    BY <1>1 DEF Write, TypeOK
  <1>3. \/ UNCHANGED claims
        \/ claims' = [claims EXCEPT ![FpOf[r]] = r]
        \/ claims' = [claims EXCEPT ![FpOf[r]] =
                                        IF @ = r THEN None ELSE @]
    BY DEF HandlerStep, Quarantine, DeadLetter, Begin, BeginFails,
         SkipInPipeline, ClaimInsert, ClaimReread, ObserveRepeat,
         DeferRepeat, PassGate, ExtractItems, ExtractNothing,
         ExtractUnavailable, SaveTyped, SaveFails, MarkProcessed, Finish,
         StepError, Fail, FailRaises, Release
  <1>4. FpOf[r] \in Fps /\ FpOf[s] \in Fps
    BY DEF Fps
  <1>5. claims'[FpOf[s]] = s => claims[FpOf[s]] = s
    BY <1>3, <1>4, RawAssumption DEF TypeOK
  <1> QED BY <1>2, <1>5

(* A handler's step, when the database answers.                            *)
LEMMA HandlerKeepsGivenUp ==
    ASSUME TypeOK, GivenUpInv, "db" \notin Faults, NEW w \in Worker,
           Worker = {w}, NEW r \in Raw, HandlerStep(w, r)
    PROVE  GivenUpInv'
  <1>0. /\ raw[r] \in Row
        /\ h[w][r] \in Handler
        /\ FpOf[r] \in Fps
        /\ GivenUp(w, r)
    BY DEF TypeOK, Fps, GivenUpInv
  <1>1. ASSUME NEW s \in Raw, s # r PROVE GivenUp(w, s)'
    <2>1. ~FailRaises(w, r)
      BY DEF FailRaises
    <2>2. \/ \E pc \in HandlerPcs \ {"fetched", "screened"} : Goto(w, r, pc)
          \/ Return(w, r)
          \/ \E f : EnterGate(w, r, f)
      BY <2>1 DEF HandlerStep, Quarantine, DeadLetter, Begin, BeginFails,
           SkipInPipeline, ClaimInsert, ClaimReread, ObserveRepeat,
           DeferRepeat, PassGate, ExtractItems, ExtractNothing,
           ExtractUnavailable, SaveTyped, SaveFails, MarkProcessed, Finish,
           StepError, Fail, Release, HandlerPcs
    <2>3. h'[w][s] = h[w][s]
      BY <1>1, <2>2, HandlerMovesAlone
    <2>4. /\ raw'[s] = raw[s]
          /\ claims'[FpOf[s]] = s => claims[FpOf[s]] = s
      BY <1>1, HandlerWritesOwn
    <2>5. Calm(raw[s], raw'[s]) /\ GivenUp(w, s)
      BY <2>4, CalmWrites DEF TypeOK, GivenUpInv
    <2> QED BY <2>3, <2>4, <2>5, CalmKeepsGivenUp
  <1> SUFFICES GivenUp(w, r)'
    BY <1>1 DEF GivenUpInv
  <1>2. ASSUME NEW row, Write(r, row) PROVE raw'[r] = row
    BY <1>2 DEF Write, TypeOK
  <1>3. UNCHANGED claims => (claims'[FpOf[r]] = r => claims[FpOf[r]] = r)
    OBVIOUS
  <1>4. ASSUME Return(w, r)
        PROVE  h'[w][r].pc = "idle" /\ ~h'[w][r].exhausted
    BY <1>4 DEF Return, NoHandler, TypeOK
  <1>5. /\ "idle" \notin BusyPcs
        /\ "screened" \notin BusyPcs
        /\ \A pc \in {"claim", "reread", "gate", "extract", "save", "mark",
                      "finish_stored", "finish_skipped", "fail",
                      "release"} : pc \in BusyPcs /\ pc \in HandlerPcs
    BY DEF BusyPcs, HandlerPcs
  <1>6. ASSUME h[w][r].pc = "screened", UNCHANGED claims, Return(w, r),
               Calm(raw[r], raw'[r])
        PROVE  GivenUp(w, r)'
    BY <1>0, <1>3, <1>4, <1>5, <1>6, CalmKeepsGivenUp
  <1>7. ASSUME h[w][r].pc \in BusyPcs,
               NEW pc \in BusyPcs, Goto(w, r, pc),
               Calm(raw[r], raw'[r]),
               pc \in {"finish_stored", "finish_skipped"}
                  => raw'[r].processed
        PROVE  GivenUp(w, r)'
    <2>1. pc \in HandlerPcs
      BY DEF BusyPcs
    <2>2. h'[w][r].pc = pc
      BY <1>7, <2>1, HandlerEffects
    <2>3. raw'[r].outcome # "dead_lettered"
      BY <1>0, <1>7 DEF GivenUp, Calm
    <2> QED BY <1>7, <2>2, <2>3, BusyKeepsGivenUp
  <1>8. CASE Quarantine(w, r)
    <2>1. Calm(raw[r], raw'[r])
      BY <1>0, <1>2, <1>8, CalmWrites DEF Quarantine
    <2> QED BY <1>6, <1>8, <2>1 DEF Quarantine, At
  <1>9. CASE DeadLetter(w, r)
    <2>1. /\ claims[FpOf[r]] # r
          /\ h'[w][r].pc = "idle"
          /\ UNCHANGED claims
      BY <1>0, <1>4, <1>5, <1>9 DEF DeadLetter, At, GivenUp
    <2> QED BY <1>5, <2>1 DEF GivenUp
  <1>10. CASE Begin(w, r)
    <2>1. h'[w][r].pc = "claim"
      BY <1>10, <1>5, HandlerEffects DEF Begin
    <2>2. raw'[r].outcome = "running"
      BY <1>0, <1>2, <1>10 DEF Begin, BeginExtractionAttempt, Row
    <2> QED BY <1>5, <2>1, <2>2, BusyKeepsGivenUp
  <1>11. CASE BeginFails(w, r)
    <2>1. Calm(raw[r], raw'[r])
      BY <1>0, <1>11, CalmWrites DEF BeginFails
    <2> QED BY <1>6, <1>11, <2>1 DEF BeginFails, MayBegin, At
  <1>12. CASE SkipInPipeline(w, r)
    <2>1. /\ Calm(raw[r], raw'[r])
          /\ raw'[r].processed
      <3>1. /\ MarkRawMarketScopeSkip(raw[r]).processed
            /\ SuppressForSystemBlock(raw[r]).processed
            /\ MarkRawProcessed(raw[r]).processed
        BY <1>0 DEF MarkRawMarketScopeSkip, SuppressForSystemBlock,
             MarkRawProcessed, Row
      <3> QED BY <1>0, <1>2, <1>12, <3>1, CalmWrites DEF SkipInPipeline
    <2> QED BY <1>5, <1>7, <1>12, <2>1 DEF SkipInPipeline, At
  <1>13. CASE ClaimInsert(w, r)
    <2>1. Calm(raw[r], raw'[r]) /\ raw'[r] = raw[r]
      BY <1>0, <1>13, CalmWrites DEF ClaimInsert
    <2>2. CASE claims[FpOf[r]] = None
      <3>1. h'[w][r].pc = "gate"
        BY <1>13, <2>2 DEF ClaimInsert, EnterGate, TypeOK
      <3>2. raw'[r].outcome # "dead_lettered"
        BY <1>0, <1>5, <1>13, <2>1 DEF ClaimInsert, At, GivenUp
      <3> QED BY <1>5, <3>1, <3>2, BusyKeepsGivenUp
    <2>3. CASE claims[FpOf[r]] # None
      BY <1>5, <1>7, <1>13, <2>1, <2>3 DEF ClaimInsert, At
    <2> QED BY <2>2, <2>3
  <1>14. CASE ClaimReread(w, r)
    <2>1. h'[w][r].pc = "gate"
      BY <1>14 DEF ClaimReread, EnterGate, TypeOK
    <2>2. raw'[r].outcome # "dead_lettered"
      BY <1>0, <1>5, <1>14 DEF ClaimReread, At, GivenUp
    <2> QED BY <1>5, <2>1, <2>2, BusyKeepsGivenUp
  <1>15. CASE ObserveRepeat(w, r) \/ DeferRepeat(w, r)
    <2>1. PICK s : \/ Write(r, RecordRepeatObservation(raw[r], s))
                   \/ Write(r, MarkRepeatPending(raw[r], s))
      BY <1>15, Zenon DEF ObserveRepeat, DeferRepeat
    <2>2. /\ Calm(raw[r], raw'[r])
          /\ raw'[r].processed
      <3>1. /\ RecordRepeatObservation(raw[r], s).processed
            /\ MarkRepeatPending(raw[r], s).processed
        BY <1>0 DEF RecordRepeatObservation, MarkRepeatPending, Row
      <3> QED BY <1>0, <1>2, <2>1, <3>1, CalmWrites
    <2> QED BY <1>5, <1>7, <1>15, <2>2 DEF ObserveRepeat, DeferRepeat, At
  <1>16. CASE PassGate(w, r) \/ ExtractItems(w, r) \/ ExtractUnavailable(w, r)
                \/ SaveTyped(w, r) \/ SaveFails(w, r)
    <2>1. Calm(raw[r], raw'[r])
      BY <1>0, <1>16, CalmWrites DEF PassGate, ExtractItems,
           ExtractUnavailable, SaveTyped, SaveFails
    <2>2. \E pc \in {"extract", "save", "fail", "mark"} : Goto(w, r, pc)
      BY <1>16 DEF PassGate, ExtractItems, ExtractUnavailable, SaveTyped,
           SaveFails
    <2>3. h[w][r].pc \in {"gate", "extract", "save"}
      BY <1>16 DEF PassGate, ExtractItems, ExtractUnavailable, SaveTyped,
           SaveFails, At
    <2> QED BY <1>5, <1>7, <2>1, <2>2, <2>3
  <1>17. CASE ExtractNothing(w, r) \/ MarkProcessed(w, r)
    <2>1. Write(r, MarkRawProcessed(raw[r]))
      BY <1>17 DEF ExtractNothing, MarkProcessed
    <2>2. /\ Calm(raw[r], raw'[r])
          /\ raw'[r].processed
      <3>1. MarkRawProcessed(raw[r]).processed
        BY <1>0 DEF MarkRawProcessed, Row
      <3> QED BY <1>0, <1>2, <2>1, <3>1, CalmWrites
    <2> QED BY <1>5, <1>7, <1>17, <2>2 DEF ExtractNothing, MarkProcessed, At
  <1>18. CASE Finish(w, r)
    <2>1. Calm(raw[r], raw'[r])
      BY <1>0, <1>2, <1>18, CalmWrites DEF Finish
    <2>2. /\ h[w][r].pc \in {"finish_stored", "finish_skipped"}
          /\ h'[w][r].pc = "idle" /\ ~h'[w][r].exhausted
      BY <1>4, <1>18 DEF Finish, At
    <2>3. Spare(raw'[r]) /\ raw'[r].outcome # "dead_lettered"
      BY <1>0, <1>5, <2>1, <2>2 DEF GivenUp, Calm
    <2> QED BY <1>5, <2>2, <2>3 DEF GivenUp
  <1>19. CASE Fail(w, r)
    <2>1. Calm(raw[r], raw'[r])
      BY <1>0, <1>2, <1>19, CalmWrites DEF Fail
    <2> QED BY <1>5, <1>7, <1>19, <2>1 DEF Fail, At
  <1>20. CASE Release(w, r)
    <2>1. claims'[FpOf[r]] # r
      BY <1>0, <1>20, RawAssumption DEF Release, TypeOK
    <2>2. h'[w][r].pc = "idle"
      BY <1>4, <1>20 DEF Release
    <2> QED BY <1>5, <2>1, <2>2 DEF GivenUp
  <1> QED BY <1>8, <1>9, <1>10, <1>11, <1>12, <1>13, <1>14, <1>15, <1>16,
             <1>17, <1>18, <1>19, <1>20
          DEF HandlerStep, StepError, FailRaises

(* What the steps of the cycle before and after the fetch write.           *)
LEMMA CycleWrites ==
    ASSUME TypeOK, NEW w \in Worker, CycleStep(w) \/ Crash(w),
           NEW r \in Raw
    PROVE  \/ raw'[r] = raw[r]
           \/ raw'[r] = SkipExpired(raw[r])
           \/ raw'[r] = SuppressForSystemBlock(raw[r])
           \/ raw'[r] = SetExtractionSuppressed(raw[r], TRUE)
           \/ raw'[r] = SetExtractionSuppressed(raw[r], FALSE)
           \/ /\ ReconcilePending(w)
              /\ AuthorContentRepeats(r) # {}
              /\ raw'[r] = RecordRepeatObservation(
                              raw[r], FirstOf(AuthorContentRepeats(r)))
  <1>1. CASE UNCHANGED raw
    BY <1>1
  <1>2. CASE Expire(w)
    BY <1>2 DEF Expire
  <1>3. CASE ReconcilePending(w)
    BY <1>3 DEF ReconcilePending, Reconcilable
  <1>4. CASE Reenable(w)
    BY <1>4 DEF Reenable
  <1>5. CASE Screen(w)
    BY <1>5 DEF Screen
  <1>6. CASE ScreenAborts(w)
    BY <1>6 DEF ScreenAborts
  <1> QED BY <1>1, <1>2, <1>3, <1>4, <1>5, <1>6
          DEF CycleStep, ControlLookup, Join, Crash, Fetch

(* The cycle of the worker, which only fetches when all its handlers have  *)
(* returned.                                                               *)
LEMMA CycleKeepsGivenUp ==
    ASSUME TypeOK, GivenUpInv, LanesInv, Faults \cap {"crash", "db"} = {},
           NEW w \in Worker, Worker = {w}, CycleStep(w) \/ Crash(w)
    PROVE  GivenUpInv'
  <1> SUFFICES ASSUME NEW r \in Raw PROVE GivenUp(w, r)'
    BY DEF GivenUpInv
  <1>0. /\ raw[r] \in Row
        /\ h[w][r] \in Handler
        /\ GivenUp(w, r)
        /\ ~Crash(w) /\ ~ScreenAborts(w)
    BY DEF TypeOK, GivenUpInv, Crash, ScreenAborts
  <1>1. UNCHANGED claims
    BY DEF CycleStep, Expire, ControlLookup, ReconcilePending, Reenable,
           Fetch, Screen, ScreenAborts, Join, Crash
  <1>2. Calm(raw[r], raw'[r])
    <2>1. \/ raw'[r] = raw[r]
          \/ raw'[r] = SkipExpired(raw[r])
          \/ raw'[r] = SuppressForSystemBlock(raw[r])
          \/ raw'[r] = SetExtractionSuppressed(raw[r], TRUE)
          \/ raw'[r] = SetExtractionSuppressed(raw[r], FALSE)
          \/ \E s : raw'[r] = RecordRepeatObservation(raw[r], s)
      BY CycleWrites, Zenon
    <2> QED BY <1>0, <2>1, CalmWrites, Zenon
  <1>3. "idle" \notin BusyPcs /\ "fetched" \notin BusyPcs
        /\ "screened" \notin BusyPcs
    BY DEF BusyPcs
  <1>4. CASE UNCHANGED h
    BY <1>0, <1>1, <1>2, <1>4, CalmKeepsGivenUp
  <1>5. CASE Fetch(w)
    <2>1. h[w][r].pc = "idle"
      BY <1>5 DEF Fetch, Advance, LanesInv
    <2>2. \/ h'[w][r] = NoHandler
          \/ /\ ~raw[r].processed
             /\ h'[w][r] = [pc |-> "fetched", first |-> None,
                            exhausted |-> Exhausted(raw[r])]
      BY <1>5 DEF Fetch, TypeOK, Fetchable, Queued
    <2>3. CASE h'[w][r] = NoHandler
      <3>1. h'[w][r].pc = "idle" /\ ~h'[w][r].exhausted
        BY <2>3 DEF NoHandler
      <3> QED BY <1>0, <1>1, <1>2, <1>3, <2>1, <3>1, CalmKeepsGivenUp
    <2>4. CASE /\ ~raw[r].processed
               /\ h'[w][r] = [pc |-> "fetched", first |-> None,
                              exhausted |-> Exhausted(raw[r])]
      <3>1. /\ h'[w][r].pc = "fetched"
            /\ h'[w][r].exhausted = Exhausted(raw[r])
        BY <2>4
      <3>2. raw' = raw
        BY <1>5 DEF Fetch
      <3>3. Spare(raw[r]) => raw[r].attempts < MaxRetries
        BY <2>4 DEF Spare
      <3>4. raw[r].attempts < MaxRetries => ~Exhausted(raw[r])
        BY <1>0, WorkerAssumption DEF Row, Exhausted
      <3> QED BY <1>0, <1>1, <1>3, <2>1, <3>1, <3>2, <3>3, <3>4, Zenon
              DEF GivenUp
    <2> QED BY <2>2, <2>3, <2>4
  <1>6. CASE Screen(w)
    <2>1. h[w][r].pc \notin BusyPcs
      BY <1>3, <1>6 DEF Screen, Advance, LanesInv
    <2>2. \/ h'[w][r] = h[w][r]
          \/ h'[w][r] = NoHandler
          \/ h'[w][r] = [h[w][r] EXCEPT !.pc = "screened"]
      BY <1>6, ScreenMoves
    <2>3. /\ [h[w][r] EXCEPT !.pc = "screened"].pc = "screened"
          /\ [h[w][r] EXCEPT !.pc = "screened"].exhausted
                = h[w][r].exhausted
          /\ NoHandler.pc = "idle" /\ ~NoHandler.exhausted
      BY <1>0 DEF Handler, NoHandler
    <2>4. /\ h'[w][r].pc \notin BusyPcs
          /\ h'[w][r].exhausted => h[w][r].exhausted
      BY <1>3, <2>1, <2>2, <2>3, Zenon
    <2> QED BY <1>0, <1>1, <1>2, <2>1, <2>4, CalmKeepsGivenUp
  <1> QED BY <1>0, <1>4, <1>5, <1>6
          DEF CycleStep, Expire, ControlLookup, ReconcilePending, Reenable,
              Join

(* The ingestor and the people, who give a row its attempts back or leave  *)
(* them alone.                                                             *)
LEMMA OthersKeepGivenUp ==
    ASSUME TypeOK, GivenUpInv,
           \/ \E r \in Raw : Ingest(r) \/ Age(r)
           \/ ControlStep
           \/ UNCHANGED vars
    PROVE  GivenUpInv'
  <1> SUFFICES ASSUME NEW w \in Worker, NEW r \in Raw PROVE GivenUp(w, r)'
    BY DEF GivenUpInv
  <1>0. /\ UNCHANGED <<h, claims>>
        /\ raw[r] \in Row
        /\ GivenUp(w, r)
    BY DEF TypeOK, GivenUpInv, Ingest, Age, ControlStep, RetryExtraction,
           SelectGroups, OptOutGroup, OptInGroup, StartExtraction,
           PauseExtraction, SetConnectionActive, vars
  <1>1. \/ raw'[r] = raw[r]
        \/ raw'[r] = InsertRawMessage(r \in History)
        \/ raw'[r] = RetryRawExtraction(raw[r])
        \/ raw'[r] = SetExtractionSuppressed(raw[r], TRUE)
        \/ raw'[r] = SetExtractionSuppressed(raw[r], FALSE)
    BY DEF TypeOK, Ingest, Age, ControlStep, RetryExtraction, SelectGroups,
           OptOutGroup, OptInGroup, SuppressGroup, StartExtraction,
           PauseExtraction, SetConnectionActive, vars, Write
  <1>2. (r \in History) = TRUE \/ (r \in History) = FALSE
    OBVIOUS
  <1>3. Calm(raw[r], raw'[r])
    BY <1>0, <1>1, <1>2, CalmWrites, Zenon
  <1> QED BY <1>0, <1>3, CalmKeepsGivenUp

(* DeadLetterReleasesClaim for one worker whose process and database do    *)
(* not fail between the end of an attempt and the release of its claim:    *)
(* the except branch of _handle never leaves a claim behind, whatever the  *)
(* rows, the lanes, the screens, the retries of the operator and the       *)
(* failures of providers, policy and market lookups.                       *)
THEOREM GivenUpRowsHoldNoClaim ==
    ASSUME NEW w0, Worker = {w0}, Faults \cap {"crash", "db"} = {}
    PROVE  Spec => []DeadLetterReleasesClaim
  <1>1. Init => GivenUpInv
    <2> SUFFICES ASSUME Init, NEW w \in Worker, NEW r \in Raw
                 PROVE  GivenUp(w, r)
      BY DEF GivenUpInv
    <2>1. /\ h[w][r].pc = "idle"
          /\ claims[FpOf[r]] = None
          /\ None # r
      BY RawAssumption DEF Init, NoHandler, Fps
    <2> QED BY <2>1 DEF GivenUp, BusyPcs
  <1>2. TypeOK /\ LanesInv /\ GivenUpInv /\ [Next]_vars => GivenUpInv'
    <2> SUFFICES ASSUME TypeOK, LanesInv, GivenUpInv, [Next]_vars
                 PROVE  GivenUpInv'
      OBVIOUS
    <2>1. ASSUME NEW w \in Worker, NEW r \in Raw, HandlerStep(w, r)
          PROVE  GivenUpInv'
      <3>1. Worker = {w} /\ "db" \notin Faults
        OBVIOUS
      <3> QED BY <2>1, <3>1, HandlerKeepsGivenUp
    <2>2. ASSUME NEW w \in Worker, CycleStep(w) \/ Crash(w)
          PROVE  GivenUpInv'
      <3>1. Worker = {w}
        OBVIOUS
      <3> QED BY <2>2, <3>1, CycleKeepsGivenUp
    <2> QED BY <2>1, <2>2, OthersKeepGivenUp DEF Next
  <1>3. GivenUpInv => DeadLetterReleasesClaim
    BY DEF GivenUpInv, GivenUp, DeadLetterReleasesClaim
  <1> QED BY <1>1, <1>2, <1>3, TypeCorrect, HandlersStayInLanes, PTL
          DEF Spec

-----------------------------------------------------------------------------
(* Reposts are grounded.                                                   *)

(* A row a repost may point at: it has output, or points at a row that     *)
(* has, or is no repost.                                                   *)
Settled(o) == o \in typed \/ raw[o].repeatOf \in typed \cup {None}

(* A repost is consumed, for as long as no operator retries it.            *)
RepeatsProcessed ==
    \A r \in Raw : raw[r].repeatOf # None => raw[r].processed

(* The owner of a claim has its fingerprint and is settled.                *)
ClaimsSettled ==
    \A f \in Fps : claims[f] # None =>
        FpOf[claims[f]] = f /\ Settled(claims[f])

(* A row is no repost before its own gate has decided.                     *)
BeforeGate == {"fetched", "screened", "claim", "reread", "gate"}

Unpointed ==
    \A w \in Worker, r \in Raw :
        h[w][r].pc \in BeforeGate => raw[r].repeatOf = None

(* What a handler at the gate knows of the owner it read: the row is       *)
(* settled, and it still owns the claim or its handler has returned for    *)
(* this cycle; an owner of the claim has read itself.                      *)
GateRead(w, r) ==
    h[w][r].pc = "gate" =>
        /\ claims[FpOf[r]] = r => h[w][r].first = r
        /\ h[w][r].first # None =>
             /\ FpOf[h[w][r].first] = FpOf[r]
             /\ Settled(h[w][r].first)
             /\ \/ h[w][r].first = r
                \/ claims[FpOf[r]] = h[w][r].first
                \/ h[w][h[w][r].first].pc = "idle"

GateInv == \A w \in Worker, r \in Raw : GateRead(w, r)

GroundInv ==
    /\ RepeatsAreGrounded
    /\ RepeatsProcessed
    /\ ClaimsSettled
    /\ Unpointed
    /\ GateInv

(* A write that leaves the pointer alone and keeps a consumed row consumed. *)
Still(row, new) ==
    /\ new.repeatOf = row.repeatOf
    /\ row.processed => new.processed

(* Every statement is still but those of the gate, the insert and the      *)
(* operator's retry.                                                       *)
LEMMA StillWrites ==
    ASSUME NEW row \in Row
    PROVE  /\ Still(row, row)
           /\ Still(row, BeginExtractionAttempt(row))
           /\ Still(row, DeadLetterExtraction(row))
           /\ Still(row, SkipExpired(row))
           /\ Still(row, MarkRawProcessed(row))
           /\ Still(row, MarkRawQuarantined(row))
           /\ Still(row, MarkRawMarketScopeSkip(row))
           /\ Still(row, SuppressForSystemBlock(row))
           /\ Still(row, SetExtractionSuppressed(row, TRUE))
           /\ Still(row, SetExtractionSuppressed(row, FALSE))
           /\ \A status : Still(row, FinishExtractionAttempt(row, status))
  BY DEF Still, Row, BeginExtractionAttempt, DeadLetterExtraction,
         SkipExpired, MarkRawProcessed, MarkRawQuarantined,
         MarkRawMarketScopeSkip, SuppressForSystemBlock,
         SetExtractionSuppressed, FinishExtractionAttempt

(* The gate's own writes, and the insert.                                  *)
LEMMA PointingWrites ==
    ASSUME NEW row \in Row
    PROVE  /\ \A s : /\ RecordRepeatObservation(row, s).repeatOf = s
                     /\ RecordRepeatObservation(row, s).processed
                     /\ MarkRepeatPending(row, s).repeatOf = s
                     /\ MarkRepeatPending(row, s).processed
           /\ InsertRawMessage(TRUE).repeatOf = None
           /\ InsertRawMessage(FALSE).repeatOf = None
  BY DEF Row, RecordRepeatObservation, MarkRepeatPending, InsertRawMessage,
         AbsentRow

(* A step whose new pointers lead to rows with output, or nowhere, keeps   *)
(* reposts grounded and settled rows settled.                              *)
Anchored ==
    /\ typed \subseteq typed'
    /\ \A r \in Raw : \/ raw'[r].repeatOf = raw[r].repeatOf
                      \/ raw'[r].repeatOf \in typed \cup {None}

LEMMA AnchoredKeeps ==
    ASSUME TypeOK, Anchored
    PROVE  /\ RepeatsAreGrounded => RepeatsAreGrounded'
           /\ \A o \in Raw : Settled(o) => Settled(o)'
  <1>1. ASSUME RepeatsAreGrounded,
               NEW S \in (SUBSET (Raw \ typed')) \ {{}}
        PROVE  \E r \in S : raw'[r].repeatOf \notin S
    <2>1. CASE \E r \in S : raw'[r].repeatOf \in typed \cup {None}
      <3>1. PICK r \in S : raw'[r].repeatOf \in typed \cup {None}
        BY <2>1
      <3>2. raw'[r].repeatOf \notin S
        BY <3>1, RawAssumption DEF Anchored
      <3> QED BY <3>2
    <2>2. CASE \A r \in S : raw'[r].repeatOf \notin typed \cup {None}
      <3>1. S \in (SUBSET (Raw \ typed)) \ {{}}
        BY DEF Anchored
      <3>2. PICK r \in S : raw[r].repeatOf \notin S
        BY <1>1, <3>1 DEF RepeatsAreGrounded
      <3>3. raw'[r].repeatOf = raw[r].repeatOf
        BY <2>2 DEF Anchored
      <3> QED BY <3>2, <3>3
    <2> QED BY <2>1, <2>2
  <1>2. ASSUME NEW o \in Raw, Settled(o) PROVE Settled(o)'
    BY <1>2 DEF Settled, Anchored
  <1> QED BY <1>1, <1>2 DEF RepeatsAreGrounded

(* A deferred row points at a settled one other than itself.               *)
LEMMA DeferredKeeps ==
    ASSUME TypeOK, RepeatsAreGrounded, UNCHANGED typed,
           NEW r \in Raw, NEW o \in Raw, o # r, Settled(o),
           raw'[r].repeatOf = o,
           \A s \in Raw \ {r} : raw'[s] = raw[s]
    PROVE  /\ RepeatsAreGrounded'
           /\ \A s \in Raw \ {r} : Settled(s) => Settled(s)'
  <1>1. ASSUME NEW S \in (SUBSET (Raw \ typed)) \ {{}}
        PROVE  \E s \in S : raw'[s].repeatOf \notin S
    <2>1. CASE r \notin S
      <3>1. PICK s \in S : raw[s].repeatOf \notin S
        BY DEF RepeatsAreGrounded
      <3> QED BY <2>1, <3>1
    <2>2. CASE r \in S /\ o \notin S
      BY <2>2
    <2>3. CASE o \in S
      <3>1. raw[o].repeatOf \in typed \cup {None} /\ raw'[o] = raw[o]
        BY <2>3 DEF Settled
      <3>2. raw'[o].repeatOf \notin S
        BY <3>1, RawAssumption
      <3> QED BY <2>3, <3>2
    <2> QED BY <2>1, <2>2, <2>3
  <1>2. ASSUME NEW s \in Raw \ {r}, Settled(s) PROVE Settled(s)'
    BY <1>2 DEF Settled
  <1> QED BY <1>1, <1>2 DEF RepeatsAreGrounded

(* What a handler's step does to the pointer of its row.                   *)
LEMMA HandlerPoints ==
    ASSUME TypeOK, NEW w \in Worker, NEW r \in Raw, HandlerStep(w, r)
    PROVE  /\ typed \subseteq typed'
           /\ \/ Still(raw[r], raw'[r])
              \/ /\ ObserveRepeat(w, r)
                 /\ raw'[r].repeatOf \in typed /\ raw'[r].processed
              \/ /\ DeferRepeat(w, r)
                 /\ raw'[r].repeatOf = h[w][r].first /\ raw'[r].processed
  <1>0. raw[r] \in Row
    BY DEF TypeOK
  <1>1. typed \subseteq typed'
    BY DEF HandlerStep, Quarantine, DeadLetter, Begin, BeginFails,
         SkipInPipeline, ClaimInsert, ClaimReread, ObserveRepeat,
         DeferRepeat, PassGate, ExtractItems, ExtractNothing,
         ExtractUnavailable, SaveTyped, SaveFails, MarkProcessed, Finish,
         StepError, Fail, FailRaises, Release
  <1>2. ASSUME NEW row, Write(r, row) PROVE raw'[r] = row
    BY <1>2 DEF Write, TypeOK
  <1>3. CASE ObserveRepeat(w, r)
    <2>1. FirstOf(AuthorContentRepeats(r)) \in AuthorContentRepeats(r)
      <3>1. AuthorContentRepeats(r) \in SUBSET Raw
        BY DEF AuthorContentRepeats
      <3> QED BY <1>3, <3>1, FirstInRaw DEF ObserveRepeat
    <2>2. FirstOf(AuthorContentRepeats(r)) \in typed
      BY <2>1 DEF AuthorContentRepeats
    <2>3. raw'[r] = RecordRepeatObservation(
                       raw[r], FirstOf(AuthorContentRepeats(r)))
      BY <1>2, <1>3 DEF ObserveRepeat
    <2>4. /\ raw'[r].repeatOf = FirstOf(AuthorContentRepeats(r))
          /\ raw'[r].processed
      BY <1>0, <2>3, PointingWrites
    <2> QED BY <1>1, <1>3, <2>2, <2>4
  <1>4. CASE DeferRepeat(w, r)
    <2>1. raw'[r] = MarkRepeatPending(raw[r], h[w][r].first)
      BY <1>2, <1>4 DEF DeferRepeat
    <2>2. raw'[r].repeatOf = h[w][r].first /\ raw'[r].processed
      BY <1>0, <2>1, PointingWrites
    <2> QED BY <1>1, <1>4, <2>2
  <1>5. CASE ~ObserveRepeat(w, r) /\ ~DeferRepeat(w, r)
    <2>1. \/ UNCHANGED raw
          \/ Write(r, MarkRawQuarantined(raw[r]))
          \/ Write(r, MarkRawMarketScopeSkip(raw[r]))
          \/ Write(r, DeadLetterExtraction(raw[r]))
          \/ Write(r, BeginExtractionAttempt(raw[r]))
          \/ Write(r, MarkRawProcessed(raw[r]))
          \/ Write(r, SuppressForSystemBlock(raw[r]))
          \/ \E status : Write(r, FinishExtractionAttempt(raw[r], status))
      BY <1>5, Zenon DEF HandlerStep, Quarantine, DeadLetter, Begin,
           BeginFails, SkipInPipeline, ClaimInsert, ClaimReread, PassGate,
           ExtractItems, ExtractNothing, ExtractUnavailable, SaveTyped,
           SaveFails, MarkProcessed, Finish, StepError, Fail, FailRaises,
           Release
    <2>2. Still(raw[r], raw'[r])
      BY <1>0, <1>2, <2>1, StillWrites
    <2> QED BY <1>1, <2>2
  <1> QED BY <1>3, <1>4, <1>5

(* The row that is deferred owns no claim, and nobody at the gate has read *)
(* it as an owner.                                                         *)
LEMMA DeferredIsNoOwner ==
    ASSUME TypeOK, GroundInv, NEW w \in Worker, NEW r \in Raw,
           DeferRepeat(w, r)
    PROVE  /\ h[w][r].first \in Raw \ {r}
           /\ Settled(h[w][r].first)
           /\ \A f \in Fps : claims[f] # r
           /\ \A t \in Raw \ {r} : h[w][t].pc = "gate" => h[w][t].first # r
  <1>0. /\ h[w][r].pc = "gate"
        /\ h[w][r].first \in Raw \ {r}
        /\ GateRead(w, r)
    BY DEF DeferRepeat, At, ReadOtherOwner, TypeOK, Handler, GroundInv,
           GateInv
  <1>1. claims[FpOf[r]] # r
    BY <1>0 DEF GateRead
  <1>2. ASSUME NEW f \in Fps PROVE claims[f] # r
    BY <1>1, RawAssumption DEF GroundInv, ClaimsSettled
  <1>3. ASSUME NEW t \in Raw \ {r}, h[w][t].pc = "gate"
        PROVE  h[w][t].first # r
    <2>1. GateRead(w, t) /\ None # r
      BY RawAssumption DEF GroundInv, GateInv
    <2> QED BY <1>0, <1>1, <1>3, <2>1 DEF GateRead
  <1> QED BY <1>0, <1>2, <1>3, RawAssumption DEF GateRead

(* So a handler's step keeps reposts grounded, and every row settled that  *)
(* owns a claim or was read as an owner.                                   *)
LEMMA HandlerKeepsGround ==
    ASSUME TypeOK, GroundInv, NEW w \in Worker, NEW r \in Raw,
           HandlerStep(w, r)
    PROVE  /\ RepeatsAreGrounded'
           /\ RepeatsProcessed'
           /\ \A o \in Raw : Settled(o) /\ ~(o = r /\ DeferRepeat(w, r))
                 => Settled(o)'
  <1>0. \A s \in Raw \ {r} : raw'[s] = raw[s]
    BY HandlerWritesOwn
  <1>1. RepeatsProcessed'
    BY <1>0, HandlerPoints DEF RepeatsProcessed, GroundInv, Still
  <1>2. CASE DeferRepeat(w, r)
    <2>1. PICK o \in Raw \ {r} : o = h[w][r].first
      BY <1>2, DeferredIsNoOwner
    <2>2. Settled(o)
      BY <1>2, <2>1, DeferredIsNoOwner
    <2>3. raw'[r].repeatOf = o
      <3>1. raw'[r] = MarkRepeatPending(raw[r], o) /\ raw[r] \in Row
        BY <1>2, <2>1 DEF DeferRepeat, Write, TypeOK
      <3> QED BY <3>1, PointingWrites
    <2>4. UNCHANGED typed
      BY <1>2 DEF DeferRepeat
    <2> QED BY <1>0, <1>1, <1>2, <2>2, <2>3, <2>4, DeferredKeeps
            DEF GroundInv
  <1>3. CASE ~DeferRepeat(w, r)
    <2>1. Anchored
      BY <1>0, <1>3, HandlerPoints DEF Anchored, Still
    <2> QED BY <1>1, <2>1, AnchoredKeeps DEF GroundInv
  <1> QED BY <1>2, <1>3

(* The owners of claims stay settled, and a new one is no repost.          *)
LEMMA HandlerKeepsClaims ==
    ASSUME TypeOK, GroundInv, NEW w \in Worker, NEW r \in Raw,
           HandlerStep(w, r)
    PROVE  ClaimsSettled'
  <1>1. ASSUME NEW f \in Fps, NEW o \in Raw, claims'[f] = o
        PROVE  FpOf[o] = f /\ Settled(o)'
    <2>0. FpOf[r] \in Fps
      BY DEF Fps
    <2>1. CASE claims[f] = o
      <3>1. FpOf[o] = f /\ Settled(o)
        BY <2>1, RawAssumption DEF GroundInv, ClaimsSettled
      <3>2. ~(o = r /\ DeferRepeat(w, r))
        BY <2>1, DeferredIsNoOwner
      <3> QED BY <3>1, <3>2, HandlerKeepsGround
    <2>2. CASE claims[f] # o
      <3>1. /\ ClaimInsert(w, r)
            /\ claims' = [claims EXCEPT ![FpOf[r]] = r]
        <4>1. ~Release(w, r)
          BY <1>1, <2>0, <2>2, RawAssumption DEF Release, TypeOK
        <4> QED BY <1>1, <2>2, <4>1
            DEF HandlerStep, Quarantine, DeadLetter, Begin, BeginFails,
                SkipInPipeline, ClaimInsert, ClaimReread, ObserveRepeat,
                DeferRepeat, PassGate, ExtractItems, ExtractNothing,
                ExtractUnavailable, SaveTyped, SaveFails, MarkProcessed,
                Finish, StepError, Fail, FailRaises
      <3>2. o = r /\ FpOf[o] = f
        BY <1>1, <2>0, <2>2, <3>1 DEF TypeOK
      <3>3. Settled(r)
        BY <3>1 DEF ClaimInsert, At, GroundInv, Unpointed, BeforeGate,
             Settled
      <3>4. ~DeferRepeat(w, r)
        BY <3>1 DEF ClaimInsert, DeferRepeat, At
      <3> QED BY <3>2, <3>3, <3>4, HandlerKeepsGround
    <2> QED BY <2>1, <2>2
  <1> SUFFICES ASSUME NEW f \in Fps, claims'[f] # None
               PROVE  FpOf[claims'[f]] = f /\ Settled(claims[f])'
    BY DEF ClaimsSettled
  <1>2. claims' \in [Fps -> Raw \cup {None}]
    BY HandlerTypeOK DEF TypeOK
  <1>3. PICK o \in Raw : claims'[f] = o
    BY <1>2
  <1> QED BY <1>1, <1>3 DEF Settled

(* How a handler gets to a place before the gate's decision.               *)
LEMMA ReachesBeforeGate ==
    ASSUME TypeOK, NEW w \in Worker, NEW r \in Raw, HandlerStep(w, r),
           h'[w][r].pc \in BeforeGate
    PROVE  /\ h[w][r].pc \in BeforeGate
           /\ UNCHANGED typed
           /\ raw'[r].repeatOf = raw[r].repeatOf
           /\ h'[w][r].pc = "gate" =>
                \/ /\ h'[w][r].first = r
                   /\ claims'[FpOf[r]] = r
                   /\ claims[FpOf[r]] = None
                   /\ h[w][r].pc = "claim"
                \/ /\ h'[w][r].first = claims[FpOf[r]]
                   /\ UNCHANGED claims
  <1>0. raw[r] \in Row /\ FpOf[r] \in Fps
    BY DEF TypeOK, Fps
  <1>1. ASSUME NEW pc \in HandlerPcs \ BeforeGate, Goto(w, r, pc)
        PROVE  FALSE
    BY <1>1, HandlerEffects
  <1>2. ~Return(w, r)
    BY HandlerEffects DEF BeforeGate
  <1>3. ~FailRaises(w, r)
    BY DEF FailRaises, NoHandler, TypeOK, BeforeGate
  <1>4. Begin(w, r) \/ ClaimInsert(w, r) \/ ClaimReread(w, r)
    BY <1>1, <1>2, <1>3
       DEF HandlerStep, Quarantine, DeadLetter, BeginFails, SkipInPipeline,
           ObserveRepeat, DeferRepeat, PassGate, ExtractItems,
           ExtractNothing, ExtractUnavailable, SaveTyped, SaveFails,
           MarkProcessed, Finish, StepError, Fail, Release, HandlerPcs,
           BeforeGate
  <1>5. CASE Begin(w, r)
    <2>1. /\ h'[w][r].pc = "claim"
          /\ h[w][r].pc = "screened"
          /\ UNCHANGED typed
      BY <1>5, HandlerEffects DEF Begin, MayBegin, At, HandlerPcs
    <2>2. raw'[r] = BeginExtractionAttempt(raw[r])
      BY <1>5 DEF Begin, Write, TypeOK
    <2> QED BY <1>0, <2>1, <2>2, StillWrites DEF BeforeGate, Still
  <1>6. CASE ClaimInsert(w, r)
    <2>1. /\ h[w][r].pc = "claim"
          /\ UNCHANGED <<raw, typed>>
      BY <1>6 DEF ClaimInsert, At
    <2>2. CASE claims[FpOf[r]] = None
      <3>1. /\ h'[w][r].first = r
            /\ claims'[FpOf[r]] = r
        BY <1>0, <1>6, <2>2 DEF ClaimInsert, EnterGate, TypeOK
      <3> QED BY <2>1, <2>2, <3>1 DEF BeforeGate
    <2>3. CASE claims[FpOf[r]] # None
      <3>1. h'[w][r].pc = "reread"
        BY <1>6, <2>3, HandlerEffects DEF ClaimInsert, HandlerPcs
      <3> QED BY <2>1, <3>1 DEF BeforeGate
    <2> QED BY <2>2, <2>3
  <1>7. CASE ClaimReread(w, r)
    <2>1. /\ h[w][r].pc = "reread"
          /\ UNCHANGED <<raw, typed, claims>>
          /\ h'[w][r].first = claims[FpOf[r]]
      BY <1>7 DEF ClaimReread, At, EnterGate, TypeOK
    <2> QED BY <2>1 DEF BeforeGate
  <1> QED BY <1>4, <1>5, <1>6, <1>7

LEMMA HandlerKeepsUnpointed ==
    ASSUME TypeOK, GroundInv, NEW w \in Worker, Worker = {w}, NEW r \in Raw,
           HandlerStep(w, r)
    PROVE  Unpointed'
  <1> SUFFICES ASSUME NEW s \in Raw, h'[w][s].pc \in BeforeGate
               PROVE  raw'[s].repeatOf = None
    BY DEF Unpointed
  <1>1. CASE s = r
    BY <1>1, ReachesBeforeGate DEF GroundInv, Unpointed
  <1>2. CASE s # r
    <2>1. raw'[s] = raw[s]
      BY <1>2, HandlerWritesOwn
    <2>2. h'[w][s] = h[w][s] \/ h'[w][s] = NoHandler
      BY <1>2, HandlerMoveOrClear
    <2>3. h'[w][s] = h[w][s]
      BY <2>2 DEF NoHandler, BeforeGate
    <2> QED BY <2>1, <2>3 DEF GroundInv, Unpointed
  <1> QED BY <1>1, <1>2

(* What the other handlers at the gate have read stays true ...            *)
LEMMA HandlerKeepsOtherGates ==
    ASSUME TypeOK, LanesInv, GroundInv, NEW w \in Worker, NEW r \in Raw,
           HandlerStep(w, r), NEW t \in Raw \ {r}
    PROVE  GateRead(w, t)'
  <1> SUFFICES ASSUME h'[w][t].pc = "gate" PROVE GateRead(w, t)'
    BY DEF GateRead
  <1>1. h'[w][t] = h[w][t]
    <2>1. h'[w][t] = h[w][t] \/ h'[w][t] = NoHandler
      BY HandlerMoveOrClear
    <2> QED BY <2>1 DEF NoHandler
  <1>2. GateRead(w, t) /\ h[w][t].pc = "gate"
    BY <1>1 DEF GroundInv, GateInv
  <1>3. claims'[FpOf[t]] = t => h'[w][t].first = t
    BY <1>1, <1>2, HandlerWritesOwn DEF GateRead
  <1>4. CASE h[w][t].first = None
    BY <1>1, <1>3, <1>4 DEF GateRead
  <1>5. CASE h[w][t].first # None
    <2>1. PICK o \in Raw : o = h[w][t].first
      BY <1>5 DEF TypeOK, Handler
    <2>2. /\ FpOf[o] = FpOf[t]
          /\ Settled(o)
          /\ o = t \/ claims[FpOf[t]] = o \/ h[w][o].pc = "idle"
      BY <1>2, <1>5, <2>1 DEF GateRead
    <2>3. Settled(o)'
      <3>1. ~(o = r /\ DeferRepeat(w, r))
        BY <1>2, <2>1, DeferredIsNoOwner
      <3> QED BY <2>2, <3>1, HandlerKeepsGround
    <2>4. o = t \/ claims'[FpOf[t]] = o \/ h'[w][o].pc = "idle"
      <3>0. FpOf[t] \in Fps /\ FpOf[r] \in Fps
        BY DEF Fps
      <3>1. CASE claims[FpOf[t]] = o /\ o # r
        BY <3>0, <3>1, RawAssumption
           DEF HandlerStep, Quarantine, DeadLetter, Begin, BeginFails,
               SkipInPipeline, ClaimInsert, ClaimReread, ObserveRepeat,
               DeferRepeat, PassGate, ExtractItems, ExtractNothing,
               ExtractUnavailable, SaveTyped, SaveFails, MarkProcessed,
               Finish, StepError, Fail, FailRaises, Release, TypeOK
      <3>2. CASE claims[FpOf[t]] = o /\ o = r
        <4>1. CASE Release(w, r)
          <5>1. h'[w][r].pc = "idle"
            BY <4>1, HandlerEffects DEF Release
          <5> QED BY <3>2, <5>1
        <4>2. CASE ~Release(w, r)
          <5>1. claims' = claims
            BY <2>2, <3>2, <4>2, RawAssumption
               DEF HandlerStep, Quarantine, DeadLetter, Begin, BeginFails,
                   SkipInPipeline, ClaimInsert, ClaimReread,
                   ObserveRepeat, DeferRepeat, PassGate, ExtractItems,
                   ExtractNothing, ExtractUnavailable, SaveTyped,
                   SaveFails, MarkProcessed, Finish, StepError, Fail,
                   FailRaises
          <5> QED BY <3>2, <5>1
        <4> QED BY <4>1, <4>2
      <3>3. CASE h[w][o].pc = "idle"
        <4>1. o # r
          BY <3>3, HandlerInLanes
        <4>2. h'[w][o] = h[w][o] \/ h'[w][o] = NoHandler
          BY <4>1, HandlerMoveOrClear
        <4> QED BY <3>3, <4>2 DEF NoHandler
      <3> QED BY <2>2, <3>1, <3>2, <3>3
    <2> QED BY <1>1, <1>3, <2>1, <2>2, <2>3, <2>4 DEF GateRead, Settled
  <1> QED BY <1>4, <1>5

(* ... and a handler that enters the gate has read a settled owner.        *)
LEMMA HandlerKeepsOwnGate ==
    ASSUME TypeOK, GroundInv, NEW w \in Worker, NEW r \in Raw,
           HandlerStep(w, r)
    PROVE  GateRead(w, r)'
  <1> SUFFICES ASSUME h'[w][r].pc = "gate" PROVE GateRead(w, r)'
    BY DEF GateRead
  <1>0. "gate" \in BeforeGate /\ FpOf[r] \in Fps
    BY DEF BeforeGate, Fps
  <1>1. CASE /\ h'[w][r].first = r
             /\ claims'[FpOf[r]] = r
    <2>1. Settled(r)'
      BY <1>0, ReachesBeforeGate DEF GroundInv, Unpointed, Settled
    <2> QED BY <1>1, <2>1, RawAssumption DEF GateRead, Settled
  <1>2. CASE /\ h'[w][r].first = claims[FpOf[r]]
             /\ UNCHANGED claims
    <2>1. CASE claims[FpOf[r]] = None
      BY <1>2, <2>1, RawAssumption DEF GateRead
    <2>2. CASE claims[FpOf[r]] # None
      <3>1. PICK o \in Raw : o = claims[FpOf[r]]
        BY <1>0, <2>2 DEF TypeOK
      <3>2. FpOf[o] = FpOf[r] /\ Settled(o)
        BY <1>0, <2>2, <3>1 DEF GroundInv, ClaimsSettled
      <3>3. ~(o = r /\ DeferRepeat(w, r))
        BY <1>0, <3>1, DeferredIsNoOwner
      <3>4. Settled(o)'
        BY <3>2, <3>3, HandlerKeepsGround
      <3> QED BY <1>2, <3>1, <3>2, <3>4 DEF GateRead, Settled
    <2> QED BY <2>1, <2>2
  <1> QED BY <1>0, <1>1, <1>2, ReachesBeforeGate

LEMMA HandlerKeepsGroundInv ==
    ASSUME TypeOK, LanesInv, GroundInv, NEW w \in Worker, Worker = {w},
           NEW r \in Raw, HandlerStep(w, r)
    PROVE  GroundInv'
  <1>1. GateInv'
    BY HandlerKeepsOtherGates, HandlerKeepsOwnGate DEF GateInv
  <1> QED BY <1>1, HandlerKeepsGround, HandlerKeepsClaims,
             HandlerKeepsUnpointed DEF GroundInv

(* Steps that leave the claims alone and lead nobody to the gate.          *)
LEMMA AnchoredKeepsGroundInv ==
    ASSUME TypeOK, GroundInv, Anchored, RepeatsProcessed', Unpointed',
           UNCHANGED claims,
           \/ UNCHANGED h
           \/ \A w \in Worker, r \in Raw : h'[w][r].pc # "gate"
    PROVE  GroundInv'
  <1>1. \A o \in Raw : Settled(o) => Settled(o)'
    BY AnchoredKeeps
  <1>2. ClaimsSettled'
    <2> SUFFICES ASSUME NEW f \in Fps, claims[f] # None
                 PROVE  FpOf[claims[f]] = f /\ Settled(claims[f])'
      BY DEF ClaimsSettled
    <2>1. PICK o \in Raw : o = claims[f]
      BY DEF TypeOK
    <2>2. FpOf[o] = f /\ Settled(o)
      BY <2>1 DEF GroundInv, ClaimsSettled
    <2>3. Settled(o)'
      BY <1>1, <2>2
    <2> QED BY <2>1, <2>2, <2>3 DEF Settled
  <1>3. GateInv'
    <2> SUFFICES ASSUME NEW w \in Worker, NEW r \in Raw,
                        h'[w][r].pc = "gate"
                 PROVE  GateRead(w, r)'
      BY DEF GateInv, GateRead
    <2>1. UNCHANGED h
      OBVIOUS
    <2>2. GateRead(w, r)
      BY DEF GroundInv, GateInv
    <2>3. CASE h[w][r].first = None
      BY <2>1, <2>2, <2>3 DEF GateRead
    <2>4. CASE h[w][r].first # None
      <3>1. PICK o \in Raw : o = h[w][r].first
        BY <2>4 DEF TypeOK, Handler
      <3>2. Settled(o)
        BY <2>1, <2>2, <2>4, <3>1 DEF GateRead
      <3>3. Settled(o)'
        BY <1>1, <3>2
      <3> QED BY <2>1, <2>2, <2>4, <3>1, <3>3 DEF GateRead, Settled
    <2> QED BY <2>3, <2>4
  <1> QED BY <1>2, <1>3, AnchoredKeeps DEF GroundInv

(* The cycle: reconciliation points at rows with output, a fetch only      *)
(* takes rows that are no reposts, and nobody is at the gate meanwhile.    *)
LEMMA CycleKeepsGroundInv ==
    ASSUME TypeOK, LanesInv, GroundInv, NEW w \in Worker, Worker = {w},
           CycleStep(w) \/ Crash(w)
    PROVE  GroundInv'
  <1>0. UNCHANGED <<claims, typed>>
    BY DEF CycleStep, Expire, ControlLookup, ReconcilePending, Reenable,
           Fetch, Screen, ScreenAborts, Join, Crash
  <1>1. ASSUME NEW r \in Raw
        PROVE  \/ Still(raw[r], raw'[r])
               \/ /\ ReconcilePending(w)
                  /\ raw'[r].repeatOf \in typed
                  /\ raw'[r].processed
    <2>0. raw[r] \in Row
      BY DEF TypeOK
    <2>1. CASE /\ ReconcilePending(w)
               /\ AuthorContentRepeats(r) # {}
               /\ raw'[r] = RecordRepeatObservation(
                               raw[r], FirstOf(AuthorContentRepeats(r)))
      <3>1. FirstOf(AuthorContentRepeats(r)) \in AuthorContentRepeats(r)
        <4>1. AuthorContentRepeats(r) \in SUBSET Raw
          BY DEF AuthorContentRepeats
        <4> QED BY <2>1, <4>1, FirstInRaw
      <3>2. FirstOf(AuthorContentRepeats(r)) \in typed
        BY <3>1 DEF AuthorContentRepeats
      <3>3. /\ raw'[r].repeatOf = FirstOf(AuthorContentRepeats(r))
            /\ raw'[r].processed
        BY <2>0, <2>1, PointingWrites
      <3> QED BY <2>1, <3>2, <3>3
    <2> QED BY <2>0, <2>1, CycleWrites, StillWrites
  <1>2. Anchored
    BY <1>0, <1>1 DEF Anchored, Still
  <1>3. RepeatsProcessed'
    BY <1>1 DEF GroundInv, RepeatsProcessed, Still
  <1>4. CASE Expire(w) \/ ControlLookup(w) \/ ReconcilePending(w)
               \/ Reenable(w) \/ Join(w)
    <2>1. /\ UNCHANGED h
          /\ \A r \in Raw : h[w][r].pc = "idle"
      BY <1>4 DEF Expire, ControlLookup, ReconcilePending, Reenable, Join,
           Advance, LanesInv
    <2>2. Unpointed'
      BY <2>1 DEF Unpointed, BeforeGate
    <2> QED BY <1>0, <1>2, <1>3, <2>1, <2>2, AnchoredKeepsGroundInv
  <1>5. CASE Fetch(w)
    <2>1. ASSUME NEW r \in Raw
          PROVE  \/ h'[w][r].pc = "idle"
                 \/ h'[w][r].pc = "fetched" /\ ~raw[r].processed
      BY <1>5 DEF Fetch, TypeOK, Fetchable, Queued, NoHandler
    <2>2. raw' = raw
      BY <1>5 DEF Fetch
    <2>3. Unpointed'
      BY <2>1, <2>2 DEF Unpointed, BeforeGate, GroundInv, RepeatsProcessed
    <2> QED BY <1>0, <1>2, <1>3, <2>1, <2>3, AnchoredKeepsGroundInv
  <1>6. CASE Screen(w)
    <2>1. ASSUME NEW r \in Raw
          PROVE  /\ h'[w][r].pc # "gate"
                 /\ h'[w][r].pc \in BeforeGate => h[w][r].pc \in BeforeGate
      <3>1. h[w][r].pc \in {"idle", "fetched"}
        BY <1>6 DEF Screen, Advance, LanesInv
      <3>2. \/ h'[w][r] = h[w][r]
            \/ h'[w][r] = NoHandler
            \/ /\ h[w][r].pc = "fetched"
               /\ h'[w][r] = [h[w][r] EXCEPT !.pc = "screened"]
        BY <1>6, ScreenMoves
      <3>3. /\ [h[w][r] EXCEPT !.pc = "screened"].pc = "screened"
            /\ NoHandler.pc = "idle"
        BY DEF TypeOK, Handler, NoHandler
      <3>4. CASE h'[w][r] = h[w][r]
        BY <3>1, <3>4
      <3>5. CASE h'[w][r] = NoHandler
        BY <3>3, <3>5 DEF BeforeGate
      <3>6. CASE /\ h[w][r].pc = "fetched"
                 /\ h'[w][r] = [h[w][r] EXCEPT !.pc = "screened"]
        BY <3>3, <3>6 DEF BeforeGate
      <3> QED BY <3>2, <3>4, <3>5, <3>6
    <2>2. \A r \in Raw : raw'[r].repeatOf = raw[r].repeatOf
      <3>1. ~ReconcilePending(w)
        BY <1>6 DEF Screen, ReconcilePending, Advance
      <3> QED BY <1>1, <3>1 DEF Still
    <2>3. Unpointed'
      BY <2>1, <2>2 DEF Unpointed, GroundInv
    <2> QED BY <1>0, <1>2, <1>3, <2>1, <2>3, AnchoredKeepsGroundInv
  <1>7. CASE ScreenAborts(w) \/ Crash(w)
    <2>1. \A r \in Raw : h'[w][r].pc = "idle"
      BY <1>7 DEF ScreenAborts, Crash, NoHandler, TypeOK
    <2>2. Unpointed'
      BY <2>1 DEF Unpointed, BeforeGate
    <2> QED BY <1>0, <1>2, <1>3, <2>1, <2>2, AnchoredKeepsGroundInv
  <1> QED BY <1>4, <1>5, <1>6, <1>7 DEF CycleStep

(* The ingestor inserts rows that are no reposts, and the people who may   *)
(* act leave the pointers alone.                                           *)
LEMMA OthersKeepGroundInv ==
    ASSUME TypeOK, GroundInv, "retry" \notin Controls,
           \/ \E r \in Raw : Ingest(r) \/ Age(r)
           \/ ControlStep
           \/ UNCHANGED vars
    PROVE  GroundInv'
  <1>0. UNCHANGED <<h, claims, typed>>
    BY DEF Ingest, Age, ControlStep, RetryExtraction, SelectGroups,
           OptOutGroup, OptInGroup, StartExtraction, PauseExtraction,
           SetConnectionActive, vars
  <1>1. ASSUME NEW r \in Raw
        PROVE  Still(raw[r], raw'[r]) \/ raw'[r].repeatOf = None
    <2>0. raw[r] \in Row
      BY DEF TypeOK
    <2>1. ~\E s \in Raw : RetryExtraction(s)
      BY DEF RetryExtraction, Control
    <2>2. \/ raw'[r] = raw[r]
          \/ raw'[r] = InsertRawMessage(r \in History)
          \/ raw'[r] = SetExtractionSuppressed(raw[r], TRUE)
          \/ raw'[r] = SetExtractionSuppressed(raw[r], FALSE)
      BY <2>1 DEF TypeOK, Ingest, Age, ControlStep, SelectGroups,
           OptOutGroup, OptInGroup, SuppressGroup, StartExtraction,
           PauseExtraction, SetConnectionActive, vars, Write
    <2>3. (r \in History) = TRUE \/ (r \in History) = FALSE
      OBVIOUS
    <2> QED BY <2>0, <2>2, <2>3, StillWrites, PointingWrites, Zenon
  <1>2. Anchored /\ RepeatsProcessed' /\ Unpointed'
    BY <1>0, <1>1 DEF Anchored, Still, GroundInv, RepeatsProcessed,
         Unpointed
  <1> QED BY <1>0, <1>2, AnchoredKeepsGroundInv

(* RepeatsAreGrounded for one worker, any rows and lanes, and any faults,  *)
(* crashes and failed database calls included, as long as no operator      *)
(* retries a repost: the retry leaves repeat_of_raw_message_id in place,   *)
(* and the row may become the baseline others point at.                    *)
THEOREM RepostsStayGrounded ==
    ASSUME NEW w0, Worker = {w0}, "retry" \notin Controls
    PROVE  Spec => []RepeatsAreGrounded
  <1>1. Init => GroundInv
    <2> SUFFICES ASSUME Init PROVE GroundInv
      OBVIOUS
    <2>1. /\ \A r \in Raw : raw[r].repeatOf = None
          /\ \A f \in Fps : claims[f] = None
          /\ \A w \in Worker, r \in Raw : h[w][r].pc = "idle"
      BY DEF Init, AbsentRow, NoHandler
    <2>2. RepeatsAreGrounded
      <3>1. ASSUME NEW S \in (SUBSET (Raw \ typed)) \ {{}}
            PROVE  \E r \in S : raw[r].repeatOf \notin S
        <4>1. S # {}
          BY <3>1
        <4>2. S \subseteq Raw
          BY <3>1, SMT
        <4>3. PICK r \in S : TRUE
          BY <4>1, Zenon
        <4> QED BY <2>1, <4>2, <4>3, RawAssumption
      <3> QED BY <3>1 DEF RepeatsAreGrounded
    <2> QED BY <2>1, <2>2 DEF GroundInv, RepeatsProcessed, ClaimsSettled,
           Unpointed, GateInv, GateRead, BeforeGate
  <1>2. TypeOK /\ LanesInv /\ GroundInv /\ [Next]_vars => GroundInv'
    <2> SUFFICES ASSUME TypeOK, LanesInv, GroundInv, [Next]_vars
                 PROVE  GroundInv'
      OBVIOUS
    <2>1. ASSUME NEW w \in Worker, NEW r \in Raw, HandlerStep(w, r)
          PROVE  GroundInv'
      <3>1. Worker = {w}
        OBVIOUS
      <3> QED BY <2>1, <3>1, HandlerKeepsGroundInv
    <2>2. ASSUME NEW w \in Worker, CycleStep(w) \/ Crash(w)
          PROVE  GroundInv'
      <3>1. Worker = {w}
        OBVIOUS
      <3> QED BY <2>2, <3>1, CycleKeepsGroundInv
    <2> QED BY <2>1, <2>2, OthersKeepGroundInv DEF Next
  <1>3. GroundInv => RepeatsAreGrounded
    BY DEF GroundInv
  <1> QED BY <1>1, <1>2, <1>3, TypeCorrect, HandlersStayInLanes, PTL
          DEF Spec
=============================================================================
