----------------------- MODULE ExtractionWorkerProofs -----------------------
(* Machine-checked theorems about ExtractionWorker, for any set of rows,   *)
(* any number of workers and any combination of faults and controls.       *)
EXTENDS ExtractionWorker, FiniteSetTheorems,
        WellFoundedInduction, TLAPS

-----------------------------------------------------------------------------
(* Type correctness.                                                       *)

(* Every statement of the queue turns a row into a row.                    *)
LEMMA RowWrites ==
    ASSUME NEW row \in Row
    PROVE  /\ BeginExtractionAttempt(row) \in Row
          /\ DeadLetterExtraction(row) \in Row
          /\ SkipExpired(row) \in Row
          /\ MarkRawProcessed(row) \in Row
          /\ MarkRawQuarantined(row) \in Row
          /\ MarkRawMarketScopeSkip(row) \in Row
          /\ SuppressForSystemBlock(row) \in Row
          /\ RetryRawExtraction(row) \in Row
          /\ \A status \in Outcomes :
                FinishExtractionAttempt(row, status) \in Row
  <1>1. BeginExtractionAttempt(row) \in Row
    <2>1. row.attempts + 1 \in Nat
      BY DEF Row
    <2>2. BeginExtractionAttempt(row) =
            [row EXCEPT !.attempts = row.attempts + 1, !.outcome = "running"]
      BY DEF BeginExtractionAttempt, Row
    <2> QED BY <2>1, <2>2 DEF Row, Outcomes
  <1>2. DeadLetterExtraction(row) \in Row
    BY DEF Row, Outcomes, DeadLetterExtraction
  <1>3. SkipExpired(row) \in Row
    BY DEF Row, Outcomes, SkipExpired
  <1>4. MarkRawProcessed(row) \in Row
    BY DEF Row, Outcomes, MarkRawProcessed
  <1>5. MarkRawQuarantined(row) \in Row
    BY DEF Row, Outcomes, MarkRawQuarantined
  <1>6. MarkRawMarketScopeSkip(row) \in Row
    BY DEF Row, Outcomes, MarkRawMarketScopeSkip
  <1>7. SuppressForSystemBlock(row) \in Row
    BY DEF Row, Outcomes, SuppressForSystemBlock
  <1>8. RetryRawExtraction(row) \in Row
    BY DEF Row, Outcomes, RetryRawExtraction
  <1>9. \A status \in Outcomes : FinishExtractionAttempt(row, status) \in Row
    BY DEF Row, Outcomes, FinishExtractionAttempt
  <1> QED
    BY <1>1, <1>2, <1>3, <1>4, <1>5, <1>6, <1>7, <1>8, <1>9

(* So do the two that take an argument of their own.                       *)
LEMMA SuppressedRow ==
    ASSUME NEW row \in Row
    PROVE  /\ SetExtractionSuppressed(row, TRUE) \in Row
           /\ SetExtractionSuppressed(row, FALSE) \in Row
  BY DEF Row, Outcomes, SetExtractionSuppressed

LEMMA RepeatRow ==
    ASSUME NEW row \in Row, NEW s \in Raw
    PROVE  /\ MarkRepeatPending(row, s) \in Row
           /\ RecordRepeatObservation(row, s) \in Row
  BY DEF Row, Outcomes, MarkRepeatPending, RecordRepeatObservation

(* What the ingestor inserts is a row.                                     *)
LEMMA InsertedRow ==
    ASSUME NEW r \in Raw
    PROVE  InsertRawMessage(r \in History) \in Row
  <1>1. /\ InsertRawMessage(TRUE) \in Row
        /\ InsertRawMessage(FALSE) \in Row
    BY DEF Row, Outcomes, InsertRawMessage, AbsentRow
  <1>2. (r \in History) = TRUE \/ (r \in History) = FALSE
    OBVIOUS
  <1> QED BY <1>1, <1>2, Zenon

(* A handler that moves on, returns, or reads a claim owner is a handler.  *)
LEMMA HandlerMoves ==
    ASSUME TypeOK, NEW w \in Worker, NEW r \in Raw
    PROVE  /\ \A pc \in HandlerPcs : Goto(w, r, pc) =>
                h' \in [Worker -> [Raw -> Handler]]
           /\ Return(w, r) => h' \in [Worker -> [Raw -> Handler]]
           /\ \A f \in Raw \cup {None} : EnterGate(w, r, f) =>
                h' \in [Worker -> [Raw -> Handler]]
  <1>1. h[w][r] \in Handler /\ NoHandler \in Handler
    BY DEF TypeOK, Handler, NoHandler, HandlerPcs
  <1>2. ASSUME NEW x \in Handler
        PROVE  [h EXCEPT ![w][r] = x] \in [Worker -> [Raw -> Handler]]
    BY DEF TypeOK
  <1>3. ASSUME NEW pc \in HandlerPcs, Goto(w, r, pc)
        PROVE  h' \in [Worker -> [Raw -> Handler]]
    <2>1. [h[w][r] EXCEPT !.pc = pc] \in Handler
      BY <1>1 DEF Handler
    <2>2. h' = [h EXCEPT ![w][r] = [h[w][r] EXCEPT !.pc = pc]]
      BY <1>3 DEF TypeOK, Goto
    <2> QED BY <1>2, <2>1, <2>2
  <1>4. ASSUME Return(w, r)
        PROVE  h' \in [Worker -> [Raw -> Handler]]
    BY <1>1, <1>2, <1>4 DEF Return
  <1>5. ASSUME NEW f \in Raw \cup {None}, EnterGate(w, r, f)
        PROVE  h' \in [Worker -> [Raw -> Handler]]
    <2>1. [pc |-> "gate", exhausted |-> FALSE, first |-> f] \in Handler
      BY DEF Handler, HandlerPcs
    <2> QED BY <1>2, <1>5, <2>1 DEF EnterGate
  <1> QED BY <1>3, <1>4, <1>5

(* The lowest id of a non-empty set of rows is one of them: ids are        *)
(* natural numbers, and a non-empty set of those has a least element.      *)
LEMMA FirstInRaw ==
    ASSUME NEW S \in SUBSET Raw, S # {}
    PROVE  FirstOf(S) \in S
  <1>1. PICK s \in S : \A t \in S : ~(<<t, s>> \in OpToRel(<, Nat))
    BY RawAssumption, NatLessThanWellFounded, WFMin
  <1>2. ASSUME NEW t \in S PROVE s <= t
    <2>1. s \in Nat /\ t \in Nat
      BY RawAssumption
    <2>2. t < s => <<t, s>> \in OpToRel(<, Nat)
      BY <2>1 DEF OpToRel
    <2>3. ~(t < s)
      BY <1>1, <2>2
    <2> QED BY <2>1, <2>3
  <1> QED BY <1>2 DEF FirstOf

LEMMA InitTypeOK == Init => TypeOK
  BY DEF Init, TypeOK, Row, Outcomes, AbsentRow, CyclePcs, Handler,
         HandlerPcs, NoHandler, Fps, Groups

(* The steps of the cycle that write rows or handlers.                     *)
LEMMA CycleTypeOK ==
    ASSUME TypeOK, NEW w \in Worker, CycleStep(w) \/ Crash(w)
    PROVE  TypeOK'
  <1>0. \A r \in Raw : raw[r] \in Row
    BY DEF TypeOK
  <1> USE DEF TypeOK, Advance, CyclePcs
  <1>1. CASE Expire(w)
    <2>1. \A r \in Raw : SkipExpired(raw[r]) \in Row
      BY RowWrites
    <2>2. raw' \in [Raw -> Row]
      BY <1>1, <2>1 DEF Expire
    <2> QED BY <1>1, <2>2 DEF Expire
  <1>2. CASE ControlLookup(w)
    BY <1>2 DEF ControlLookup
  <1>3. CASE ReconcilePending(w)
    <2>1. ASSUME NEW r \in Raw, AuthorContentRepeats(r) # {}
          PROVE  FirstOf(AuthorContentRepeats(r)) \in Raw
      <3>1. AuthorContentRepeats(r) \in SUBSET Raw
        BY DEF AuthorContentRepeats
      <3> QED BY <2>1, <3>1, FirstInRaw
    <2>2. raw' \in [Raw -> Row]
      <3>1. ASSUME NEW r \in Raw, Reconcilable(r)
            PROVE  RecordRepeatObservation(raw[r],
                       FirstOf(AuthorContentRepeats(r))) \in Row
        <4>1. FirstOf(AuthorContentRepeats(r)) \in Raw
          BY <2>1, <3>1 DEF Reconcilable
        <4> QED BY <1>0, <4>1, RepeatRow
      <3> QED BY <1>3, <3>1 DEF ReconcilePending
    <2> QED BY <1>3, <2>2 DEF ReconcilePending
  <1>4. CASE Reenable(w)
    <2>1. \A r \in Raw : SetExtractionSuppressed(raw[r], FALSE) \in Row
      BY <1>0, SuppressedRow
    <2>2. raw' \in [Raw -> Row]
      BY <1>4, <2>1 DEF Reenable
    <2> QED BY <1>4, <2>2 DEF Reenable
  <1>5. CASE Fetch(w)
    <2>1. h' \in [Worker -> [Raw -> Handler]]
      BY <1>5 DEF Fetch, Exhausted, Handler, HandlerPcs, NoHandler
    <2> QED BY <1>5, <2>1 DEF Fetch
  <1>6. CASE Screen(w)
    <2>1. raw' \in [Raw -> Row]
      <3>1. /\ DOMAIN raw' = Raw
            /\ raw' = [r \in Raw |-> raw'[r]]
            /\ \A r \in Raw : raw'[r] \in {SuppressForSystemBlock(raw[r]),
                   SetExtractionSuppressed(raw[r], TRUE), raw[r]}
        BY <1>6 DEF Screen
      <3>2. \A r \in Raw : /\ SuppressForSystemBlock(raw[r]) \in Row
                            /\ SetExtractionSuppressed(raw[r], TRUE) \in Row
        BY <1>0, SuppressedRow, RowWrites
      <3>3. \A r \in Raw : raw'[r] \in Row
        BY <1>0, <3>1, <3>2, Zenon
      <3> HIDE DEF TypeOK, Advance, CyclePcs
      <3> QED BY <3>1, <3>3
    <2>2. h' \in [Worker -> [Raw -> Handler]]
      <3>1. \A r \in Raw : /\ [h[w][r] EXCEPT !.pc = "screened"] \in Handler
                            /\ NoHandler \in Handler
        BY DEF Handler, HandlerPcs, NoHandler
      <3> QED BY <1>6, <3>1 DEF Screen
    <2> QED BY <1>6, <2>1, <2>2 DEF Screen
  <1>7. CASE Join(w)
    BY <1>7 DEF Join
  <1>9. CASE ScreenAborts(w)
    <2>1. \A r \in Raw : SuppressForSystemBlock(raw[r]) \in Row
      BY <1>0, RowWrites
    <2>2. raw' \in [Raw -> Row]
      BY <1>0, <1>9, <2>1 DEF ScreenAborts
    <2>3. h' \in [Worker -> [Raw -> Handler]]
      BY <1>9 DEF ScreenAborts, Handler, HandlerPcs, NoHandler
    <2> QED BY <1>9, <2>2, <2>3 DEF ScreenAborts
  <1>8. CASE Crash(w)
    <2>1. h' \in [Worker -> [Raw -> Handler]]
      BY <1>8 DEF Crash, Handler, HandlerPcs, NoHandler
    <2> QED BY <1>8, <2>1 DEF Crash
  <1> QED BY <1>1, <1>2, <1>3, <1>4, <1>5, <1>6, <1>7, <1>8, <1>9 DEF CycleStep

(* A guarded write of one row keeps the table a table.                     *)
LEMMA WriteRow ==
    ASSUME TypeOK, NEW r \in Raw, NEW row \in Row, Write(r, row)
    PROVE  raw' \in [Raw -> Row]
  BY DEF TypeOK, Write

(* The steps of a handler.                                                 *)
LEMMA HandlerTypeOK ==
    ASSUME TypeOK, NEW w \in Worker, NEW r \in Raw, HandlerStep(w, r)
    PROVE  TypeOK'
  <1>0. /\ raw[r] \in Row
        /\ h[w][r] \in Handler
        /\ NoHandler \in Handler
        /\ FpOf[r] \in Fps
    BY DEF TypeOK, Handler, NoHandler, HandlerPcs, Fps
  <1>1. CASE Quarantine(w, r)
    <2>1. raw' \in [Raw -> Row]
      <3>1. CASE Write(r, MarkRawQuarantined(raw[r]))
        BY <1>0, <3>1, RowWrites, WriteRow
      <3>2. CASE Write(r, MarkRawMarketScopeSkip(raw[r]))
        BY <1>0, <3>2, RowWrites, WriteRow
      <3>3. CASE UNCHANGED raw
        BY <3>3 DEF TypeOK
      <3> QED BY <1>1, <3>1, <3>2, <3>3 DEF Quarantine
    <2>2. h' \in [Worker -> [Raw -> Handler]]
      BY <1>1, HandlerMoves DEF Quarantine
    <2> QED BY <1>1, <2>1, <2>2 DEF Quarantine, TypeOK
  <1>2. CASE DeadLetter(w, r)
    <2>1. raw' \in [Raw -> Row]
      <3>1. CASE Write(r, DeadLetterExtraction(raw[r]))
        BY <1>0, <3>1, RowWrites, WriteRow
      <3>2. CASE UNCHANGED raw
        BY <3>2 DEF TypeOK
      <3> QED BY <1>2, <3>1, <3>2 DEF DeadLetter
    <2>2. h' \in [Worker -> [Raw -> Handler]]
      BY <1>2, HandlerMoves DEF DeadLetter
    <2> QED BY <1>2, <2>1, <2>2 DEF DeadLetter, TypeOK
  <1>3. CASE Begin(w, r)
    <2>1. raw' \in [Raw -> Row]
      BY <1>0, <1>3, RowWrites, WriteRow DEF Begin
    <2>2. h' \in [Worker -> [Raw -> Handler]]
      BY <1>3, HandlerMoves DEF Begin, HandlerPcs
    <2> QED BY <1>3, <2>1, <2>2 DEF Begin, TypeOK
  <1>4. CASE BeginFails(w, r)
    <2>2. h' \in [Worker -> [Raw -> Handler]]
      BY <1>4, HandlerMoves DEF BeginFails
    <2> QED BY <1>4, <2>2 DEF BeginFails, TypeOK
  <1>5. CASE ClaimInsert(w, r)
    <2>1. claims' \in [Fps -> Raw \cup {None}]
      BY <1>0, <1>5 DEF ClaimInsert, TypeOK
    <2>2. h' \in [Worker -> [Raw -> Handler]]
      <3>1. EnterGate(w, r, r) => h' \in [Worker -> [Raw -> Handler]]
        BY HandlerMoves
      <3>2. Goto(w, r, "reread") => h' \in [Worker -> [Raw -> Handler]]
        BY HandlerMoves DEF HandlerPcs
      <3> QED BY <1>5, <3>1, <3>2 DEF ClaimInsert
    <2> QED BY <1>5, <2>1, <2>2 DEF ClaimInsert, TypeOK
  <1>6. CASE ClaimReread(w, r)
    <2>1. claims[FpOf[r]] \in Raw \cup {None}
      BY <1>0 DEF TypeOK
    <2>2. h' \in [Worker -> [Raw -> Handler]]
      BY <1>6, <2>1, HandlerMoves DEF ClaimReread
    <2> QED BY <1>6, <2>2 DEF ClaimReread, TypeOK
  <1>7. CASE ObserveRepeat(w, r)
    <2>1. FirstOf(AuthorContentRepeats(r)) \in Raw
      <3>1. AuthorContentRepeats(r) \in SUBSET Raw
        BY DEF AuthorContentRepeats
      <3> QED BY <1>7, <3>1, FirstInRaw DEF ObserveRepeat
    <2>2. raw' \in [Raw -> Row]
      BY <1>0, <1>7, <2>1, RepeatRow, WriteRow DEF ObserveRepeat
    <2>3. h' \in [Worker -> [Raw -> Handler]]
      BY <1>7, HandlerMoves DEF ObserveRepeat, HandlerPcs
    <2> QED BY <1>7, <2>2, <2>3 DEF ObserveRepeat, TypeOK
  <1>8. CASE DeferRepeat(w, r)
    <2>1. h[w][r].first \in Raw
      BY <1>0, <1>8 DEF DeferRepeat, ReadOtherOwner, Handler
    <2>2. raw' \in [Raw -> Row]
      BY <1>0, <1>8, <2>1, RepeatRow, WriteRow DEF DeferRepeat
    <2>3. h' \in [Worker -> [Raw -> Handler]]
      BY <1>8, HandlerMoves DEF DeferRepeat, HandlerPcs
    <2> QED BY <1>8, <2>2, <2>3 DEF DeferRepeat, TypeOK
  <1>9. CASE PassGate(w, r) \/ ExtractItems(w, r) \/ ExtractUnavailable(w, r)
             \/ SaveFails(w, r) \/ StepError(w, r)
    <2>1. \E pc \in HandlerPcs : Goto(w, r, pc)
      BY <1>9 DEF PassGate, ExtractItems, ExtractUnavailable, SaveFails,
                  StepError, HandlerPcs
    <2>2. h' \in [Worker -> [Raw -> Handler]]
      BY <2>1, HandlerMoves
    <2> QED BY <1>9, <2>2 DEF PassGate, ExtractItems, ExtractUnavailable,
                              SaveFails, StepError, TypeOK
  <1>10. CASE ExtractNothing(w, r)
    <2>1. raw' \in [Raw -> Row]
      <3>1. CASE Write(r, MarkRawProcessed(raw[r]))
        BY <1>0, <3>1, RowWrites, WriteRow
      <3>2. CASE UNCHANGED raw
        BY <3>2 DEF TypeOK
      <3> QED BY <1>10, <3>1, <3>2 DEF ExtractNothing
    <2>2. h' \in [Worker -> [Raw -> Handler]]
      BY <1>10, HandlerMoves DEF ExtractNothing, HandlerPcs
    <2> QED BY <1>10, <2>1, <2>2 DEF ExtractNothing, TypeOK
  <1>11. CASE SaveTyped(w, r)
    <2>2. h' \in [Worker -> [Raw -> Handler]]
      BY <1>11, HandlerMoves DEF SaveTyped, HandlerPcs
    <2> QED BY <1>11, <2>2 DEF SaveTyped, TypeOK
  <1>12. CASE MarkProcessed(w, r)
    <2>1. raw' \in [Raw -> Row]
      <3>1. CASE Write(r, MarkRawProcessed(raw[r]))
        BY <1>0, <3>1, RowWrites, WriteRow
      <3>2. CASE UNCHANGED raw
        BY <3>2 DEF TypeOK
      <3> QED BY <1>12, <3>1, <3>2 DEF MarkProcessed
    <2>2. h' \in [Worker -> [Raw -> Handler]]
      BY <1>12, HandlerMoves DEF MarkProcessed, HandlerPcs
    <2> QED BY <1>12, <2>1, <2>2 DEF MarkProcessed, TypeOK
  <1>13. CASE Finish(w, r)
    <2>1. raw' \in [Raw -> Row]
      <3>1. /\ FinishExtractionAttempt(raw[r], "succeeded") \in Row
            /\ FinishExtractionAttempt(raw[r], "skipped") \in Row
        BY <1>0 DEF FinishExtractionAttempt, Row, Outcomes
      <3> QED BY <1>13, <3>1, WriteRow DEF Finish
    <2>2. h' \in [Worker -> [Raw -> Handler]]
      BY <1>13, HandlerMoves DEF Finish
    <2> QED BY <1>13, <2>1, <2>2 DEF Finish, TypeOK
  <1>14. CASE Fail(w, r)
    <2>1. raw' \in [Raw -> Row]
      <3>1. FinishExtractionAttempt(raw[r], "failed") \in Row
        BY <1>0 DEF FinishExtractionAttempt, Row, Outcomes
      <3> QED BY <1>14, <3>1, WriteRow DEF Fail
    <2>2. h' \in [Worker -> [Raw -> Handler]]
      BY <1>14, HandlerMoves DEF Fail, HandlerPcs
    <2> QED BY <1>14, <2>1, <2>2 DEF Fail, TypeOK
  <1>15. CASE FailRaises(w, r)
    <2>2. h' \in [Worker -> [Raw -> Handler]]
      BY <1>0, <1>15 DEF FailRaises, TypeOK
    <2> QED BY <1>15, <2>2 DEF FailRaises, TypeOK
  <1>16. CASE Release(w, r)
    <2>1. claims' \in [Fps -> Raw \cup {None}]
      BY <1>0, <1>16 DEF Release, TypeOK
    <2>2. h' \in [Worker -> [Raw -> Handler]]
      BY <1>16, HandlerMoves DEF Release
    <2> QED BY <1>16, <2>1, <2>2 DEF Release, TypeOK
  <1>17. CASE SkipInPipeline(w, r)
    <2>1. raw' \in [Raw -> Row]
      BY <1>0, <1>17, RowWrites, WriteRow DEF SkipInPipeline
    <2>2. h' \in [Worker -> [Raw -> Handler]]
      BY <1>17, HandlerMoves DEF SkipInPipeline, HandlerPcs
    <2> QED BY <1>17, <2>1, <2>2 DEF SkipInPipeline, TypeOK
  <1> QED BY <1>1, <1>2, <1>3, <1>4, <1>5, <1>6, <1>7, <1>8, <1>9, <1>10,
             <1>11, <1>12, <1>13, <1>14, <1>15, <1>16, <1>17 DEF HandlerStep

(* The steps of everyone else.                                             *)
LEMMA OthersTypeOK ==
    ASSUME TypeOK, (\E r \in Raw : Ingest(r) \/ Age(r)) \/ ControlStep
    PROVE  TypeOK'
  <1>0. \A r \in Raw : /\ raw[r] \in Row
                        /\ SetExtractionSuppressed(raw[r], TRUE) \in Row
                        /\ SetExtractionSuppressed(raw[r], FALSE) \in Row
    BY SuppressedRow DEF TypeOK
  <1>1. ASSUME NEW r \in Raw, Ingest(r) PROVE TypeOK'
    <2>1. InsertRawMessage(r \in History) \in Row
      BY InsertedRow
    <2>2. raw' \in [Raw -> Row]
      BY <1>1, <2>1, WriteRow DEF Ingest
    <2> QED BY <1>1, <2>2 DEF Ingest, TypeOK
  <1>2. ASSUME NEW r \in Raw, Age(r) PROVE TypeOK'
    BY <1>2 DEF Age, TypeOK
  <1>3. ASSUME NEW r \in Raw, RetryExtraction(r) PROVE TypeOK'
    <2>1. raw' \in [Raw -> Row]
      BY <1>0, <1>3, RowWrites, WriteRow DEF RetryExtraction
    <2> QED BY <1>3, <2>1 DEF RetryExtraction, Control, TypeOK
  <1>4. ASSUME NEW S \in SUBSET Groups, SelectGroups(S) PROVE TypeOK'
    BY <1>4 DEF SelectGroups, Control, TypeOK
  <1>5. ASSUME NEW g \in Groups, OptOutGroup(g) PROVE TypeOK'
    <2>1. raw' \in [Raw -> Row]
      BY <1>0, <1>5 DEF OptOutGroup, SuppressGroup, TypeOK
    <2> QED BY <1>5, <2>1 DEF OptOutGroup, Control, TypeOK
  <1>6. ASSUME NEW g \in Groups, OptInGroup(g) PROVE TypeOK'
    <2>1. raw' \in [Raw -> Row]
      BY <1>0, <1>6 DEF OptInGroup, SuppressGroup, TypeOK
    <2> QED BY <1>6, <2>1 DEF OptInGroup, Control, TypeOK
  <1>7. ASSUME NEW c \in Connection, StartExtraction(c) \/ PauseExtraction(c)
        PROVE  TypeOK'
    <2>1. conn[c] \in [active : BOOLEAN, running : BOOLEAN]
      BY DEF TypeOK
    <2>2. \E flag \in BOOLEAN :
            conn' = [conn EXCEPT ![c] = [conn[c] EXCEPT !.running = flag]]
      BY <1>7 DEF StartExtraction, PauseExtraction, TypeOK
    <2>3. conn' \in [Connection -> [active : BOOLEAN, running : BOOLEAN]]
      BY <2>1, <2>2 DEF TypeOK
    <2> QED BY <1>7, <2>3 DEF StartExtraction, PauseExtraction, Control, TypeOK
  <1>8. ASSUME NEW c \in Connection, NEW flag \in BOOLEAN,
               SetConnectionActive(c, flag)
        PROVE  TypeOK'
    BY <1>8 DEF SetConnectionActive, Control, TypeOK
  <1> QED BY <1>1, <1>2, <1>3, <1>4, <1>5, <1>6, <1>7, <1>8 DEF ControlStep

(* Every step of the system.                                               *)
LEMMA NextTypeOK == TypeOK /\ [Next]_vars => TypeOK'
  <1> SUFFICES ASSUME TypeOK, [Next]_vars PROVE TypeOK'
    OBVIOUS
  <1>1. CASE UNCHANGED vars
    BY <1>1 DEF vars, TypeOK
  <1>2. CASE Next
    BY <1>2, CycleTypeOK, HandlerTypeOK, OthersTypeOK DEF Next
  <1> QED BY <1>1, <1>2

(* Whatever the workers, the ingestor, the brokers and the faults do, the  *)
(* tables and the workers' memory keep their shape.                        *)
THEOREM TypeCorrect == Spec => []TypeOK
  BY InitTypeOK, NextTypeOK, PTL DEF Spec

-----------------------------------------------------------------------------
(* The attempts bound.                                                     *)

(* The workers that hold row r below the retry limit and have not begun    *)
(* it: each may still spend one attempt on it.                             *)
MayStillBegin(r) ==
    {w \in Worker : h[w][r].pc \in {"fetched", "screened"}
                    /\ ~h[w][r].exhausted}

(* The inductive strengthening of AttemptsBound: attempts already spent    *)
(* and attempts already granted share the bound.                           *)
AttemptsInv ==
    \A r \in Raw : raw[r].attempts + Cardinality(MayStillBegin(r))
                      <= MaxRetries - 1 + Cardinality(Worker)

(* What most steps do: they spend no attempt and grant none.               *)
NoNewAttempt ==
    \A r \in Raw : /\ raw'[r].attempts <= raw[r].attempts
                    /\ MayStillBegin(r)' \subseteq MayStillBegin(r)

(* The statements that keep the attempt counter.                           *)
LEMMA AttemptsKept ==
    ASSUME NEW row \in Row
    PROVE  /\ DeadLetterExtraction(row).attempts = row.attempts
           /\ SkipExpired(row).attempts = row.attempts
           /\ MarkRawProcessed(row).attempts = row.attempts
           /\ MarkRawQuarantined(row).attempts = row.attempts
           /\ MarkRawMarketScopeSkip(row).attempts = row.attempts
           /\ SuppressForSystemBlock(row).attempts = row.attempts
           /\ SetExtractionSuppressed(row, TRUE).attempts = row.attempts
           /\ SetExtractionSuppressed(row, FALSE).attempts = row.attempts
           /\ \A status : FinishExtractionAttempt(row, status).attempts
                            = row.attempts
           /\ \A s : MarkRepeatPending(row, s).attempts = row.attempts
           /\ \A s : RecordRepeatObservation(row, s).attempts = row.attempts
  BY DEF Row, DeadLetterExtraction, SkipExpired, MarkRawProcessed,
         MarkRawQuarantined, MarkRawMarketScopeSkip, SuppressForSystemBlock,
         SetExtractionSuppressed, FinishExtractionAttempt, MarkRepeatPending,
         RecordRepeatObservation

(* The sets the invariant counts are finite and no larger than Worker.     *)
LEMMA MayStillBeginFinite ==
    ASSUME NEW r \in Raw
    PROVE  /\ IsFiniteSet(MayStillBegin(r))
           /\ Cardinality(MayStillBegin(r)) \in Nat
           /\ Cardinality(Worker) \in Nat
           /\ Cardinality(MayStillBegin(r)) <= Cardinality(Worker)
  <1>1. IsFiniteSet(Worker) /\ MayStillBegin(r) \subseteq Worker
    BY WorkerAssumption DEF MayStillBegin
  <1> QED BY <1>1, FS_Subset, FS_CardinalityType

LEMMA MayStillBeginFinite1 ==
    ASSUME NEW r \in Raw
    PROVE  /\ IsFiniteSet(MayStillBegin(r)')
           /\ Cardinality(MayStillBegin(r)') \in Nat
           /\ Cardinality(MayStillBegin(r)') <= Cardinality(Worker)
  <1>1. IsFiniteSet(Worker) /\ MayStillBegin(r)' \subseteq Worker
    BY WorkerAssumption DEF MayStillBegin
  <1> QED BY <1>1, FS_Subset, FS_CardinalityType

LEMMA NoNewAttemptKeepsInv ==
    ASSUME TypeOK, TypeOK', AttemptsInv, NoNewAttempt
    PROVE  AttemptsInv'
  <1> SUFFICES ASSUME NEW r \in Raw
               PROVE  raw'[r].attempts + Cardinality(MayStillBegin(r)')
                         <= MaxRetries - 1 + Cardinality(Worker)
    BY DEF AttemptsInv
  <1>1. raw[r].attempts \in Nat /\ raw'[r].attempts \in Nat
    BY DEF TypeOK, Row
  <1>2. Cardinality(MayStillBegin(r)') <= Cardinality(MayStillBegin(r))
    BY MayStillBeginFinite, FS_Subset DEF NoNewAttempt
  <1>3. raw[r].attempts + Cardinality(MayStillBegin(r))
           <= MaxRetries - 1 + Cardinality(Worker)
    BY DEF AttemptsInv
  <1>4. MaxRetries \in Nat
    BY WorkerAssumption
  <1> QED BY <1>1, <1>2, <1>3, <1>4, MayStillBeginFinite,
             MayStillBeginFinite1 DEF NoNewAttempt

(* A row whose counter is below the limit satisfies the invariant whoever  *)
(* holds it.                                                               *)
LEMMA BelowLimit ==
    ASSUME TypeOK', NEW r \in Raw, raw'[r].attempts <= MaxRetries - 1
    PROVE  raw'[r].attempts + Cardinality(MayStillBegin(r)')
              <= MaxRetries - 1 + Cardinality(Worker)
  <1>1. raw'[r].attempts \in Nat
    BY DEF TypeOK, Row
  <1>2. MaxRetries \in Nat /\ Cardinality(Worker) \in Nat
    BY WorkerAssumption, FS_CardinalityType
  <1> QED BY <1>1, <1>2, MayStillBeginFinite1

(* Moving one handler on, or dropping it, changes no other handler.        *)
LEMMA HandlerMovesAlone ==
    ASSUME TypeOK, NEW w \in Worker, NEW r \in Raw,
           \/ \E pc \in HandlerPcs \ {"fetched", "screened"} : Goto(w, r, pc)
           \/ Return(w, r)
           \/ \E f : EnterGate(w, r, f)
    PROVE  /\ h'[w][r].pc \notin {"fetched", "screened"}
           /\ \A v \in Worker, s \in Raw :
                 v # w \/ s # r => h'[v][s] = h[v][s]
  <1> DEFINE Moved == /\ h'[w][r].pc \notin {"fetched", "screened"}
                      /\ \A v \in Worker, s \in Raw :
                            v # w \/ s # r => h'[v][s] = h[v][s]
  <1>1. ASSUME NEW x, x.pc \notin {"fetched", "screened"},
               h' = [h EXCEPT ![w][r] = x]
        PROVE  Moved
    BY <1>1 DEF TypeOK
  <1>2. ASSUME NEW pc \in HandlerPcs \ {"fetched", "screened"}, Goto(w, r, pc)
        PROVE  Moved
    <2>1. h' = [h EXCEPT ![w][r] = [h[w][r] EXCEPT !.pc = pc]]
      BY <1>2 DEF Goto, TypeOK
    <2>2. [h[w][r] EXCEPT !.pc = pc].pc = pc
      BY DEF TypeOK, Handler
    <2> QED BY <1>1, <2>1, <2>2
  <1>3. ASSUME Return(w, r) PROVE Moved
    BY <1>3 DEF Return, NoHandler, TypeOK
  <1>4. ASSUME NEW f, EnterGate(w, r, f) PROVE Moved
    BY <1>4 DEF EnterGate, TypeOK
  <1> QED BY <1>2, <1>3, <1>4

(* ... so it grants no attempt, and takes back the one its worker held.    *)
LEMMA HandlerMovesGrantNothing ==
    ASSUME TypeOK, NEW w \in Worker, NEW r \in Raw,
           \/ \E pc \in HandlerPcs \ {"fetched", "screened"} : Goto(w, r, pc)
           \/ Return(w, r)
           \/ \E f : EnterGate(w, r, f)
    PROVE  /\ \A s \in Raw : MayStillBegin(s)' \subseteq MayStillBegin(s)
           /\ w \notin MayStillBegin(r)'
  BY HandlerMovesAlone DEF MayStillBegin

(* A write of one row that keeps its counter spends nothing.               *)
LEMMA WriteSpendsNothing ==
    ASSUME TypeOK, NEW r \in Raw, NEW row, Write(r, row),
           row.attempts = raw[r].attempts
    PROVE  \A s \in Raw : raw'[s].attempts <= raw[s].attempts
  BY DEF TypeOK, Write, Row

LEMMA SameRowsSpendNothing ==
    ASSUME TypeOK, UNCHANGED raw
    PROVE  \A s \in Raw : raw'[s].attempts <= raw[s].attempts
  BY DEF TypeOK, Row

(* Every step of a handler but Begin.                                      *)
LEMMA HandlerSpendsNothing ==
    ASSUME TypeOK, NEW w \in Worker, NEW r \in Raw,
           HandlerStep(w, r), ~Begin(w, r)
    PROVE  NoNewAttempt
  <1>0. raw[r] \in Row
    BY DEF TypeOK
  <1>1. \A s \in Raw : raw'[s].attempts <= raw[s].attempts
    <2>1. CASE UNCHANGED raw
      BY <2>1, SameRowsSpendNothing
    <2>2. CASE ~UNCHANGED raw
      <3>1. \/ Write(r, MarkRawQuarantined(raw[r]))
            \/ Write(r, MarkRawMarketScopeSkip(raw[r]))
            \/ Write(r, DeadLetterExtraction(raw[r]))
            \/ Write(r, MarkRawProcessed(raw[r]))
            \/ Write(r, SuppressForSystemBlock(raw[r]))
            \/ \E status : Write(r, FinishExtractionAttempt(raw[r], status))
            \/ \E s : Write(r, MarkRepeatPending(raw[r], s))
            \/ \E s : Write(r, RecordRepeatObservation(raw[r], s))
        BY <2>2, Zenon DEF HandlerStep, Quarantine, DeadLetter, BeginFails,
             SkipInPipeline, ClaimInsert, ClaimReread, ObserveRepeat, DeferRepeat, PassGate,
             ExtractItems, ExtractNothing, ExtractUnavailable, SaveTyped,
             SaveFails, MarkProcessed, Finish, StepError, Fail, FailRaises,
             Release
      <3> QED BY <1>0, <3>1, AttemptsKept, WriteSpendsNothing, Zenon
    <2> QED BY <2>1, <2>2
  <1>2. \A s \in Raw : MayStillBegin(s)' \subseteq MayStillBegin(s)
    <2>1. CASE FailRaises(w, r)
      BY <2>1 DEF FailRaises, MayStillBegin, NoHandler, TypeOK
    <2>2. CASE ~FailRaises(w, r)
      <3>1. \/ \E pc \in HandlerPcs \ {"fetched", "screened"} : Goto(w, r, pc)
            \/ Return(w, r)
            \/ \E f : EnterGate(w, r, f)
        BY <2>2 DEF HandlerStep, Quarantine, DeadLetter, BeginFails,
             SkipInPipeline, ClaimInsert, ClaimReread, ObserveRepeat, DeferRepeat, PassGate,
             ExtractItems, ExtractNothing, ExtractUnavailable, SaveTyped,
             SaveFails, MarkProcessed, Finish, StepError, Fail, Release,
             HandlerPcs
      <3> QED BY <3>1, HandlerMovesGrantNothing
    <2> QED BY <2>1, <2>2
  <1> QED BY <1>1, <1>2 DEF NoNewAttempt

(* What both screens do to a handler: it is dropped, or moves on.          *)
LEMMA ScreenMoves ==
    ASSUME TypeOK, NEW w \in Worker, Screen(w),
           NEW v \in Worker, NEW r \in Raw
    PROVE  \/ h'[v][r] = h[v][r]
           \/ h'[v][r] = NoHandler
           \/ /\ h[v][r].pc = "fetched"
              /\ h'[v][r] = [h[v][r] EXCEPT !.pc = "screened"]
  <1>1. PICK S : h' = [h EXCEPT ![w] = [s \in Raw |->
                         IF s \in FetchedRows(w) \ S
                         THEN [h[w][s] EXCEPT !.pc = "screened"]
                         ELSE NoHandler]]
    BY Zenon DEF Screen
  <1>2. CASE v # w
    BY <1>1, <1>2 DEF TypeOK
  <1>3. CASE v = w /\ r \in FetchedRows(w) \ S
    BY <1>1, <1>3 DEF TypeOK, FetchedRows
  <1>4. CASE v = w /\ r \notin FetchedRows(w) \ S
    BY <1>1, <1>4 DEF TypeOK
  <1> QED BY <1>2, <1>3, <1>4

(* Every step of the cycle but Fetch, and a crash.                         *)
LEMMA CycleSpendsNothing ==
    ASSUME TypeOK, NEW w \in Worker, CycleStep(w) \/ Crash(w), ~Fetch(w)
    PROVE  NoNewAttempt
  <1>0. \A r \in Raw : raw[r] \in Row
    BY DEF TypeOK
  <1>1. \A r \in Raw : raw'[r].attempts <= raw[r].attempts
    <2>1. ASSUME NEW r \in Raw
          PROVE  raw'[r].attempts = raw[r].attempts
      <3>1. \/ raw'[r] = raw[r]
            \/ raw'[r] = SkipExpired(raw[r])
            \/ raw'[r] = SuppressForSystemBlock(raw[r])
            \/ raw'[r] = SetExtractionSuppressed(raw[r], TRUE)
            \/ raw'[r] = SetExtractionSuppressed(raw[r], FALSE)
            \/ \E s : raw'[r] = RecordRepeatObservation(raw[r], s)
        <4>1. CASE UNCHANGED raw
          BY <4>1
        <4>2. CASE Expire(w)
          BY <4>2 DEF Expire
        <4>3. CASE ReconcilePending(w)
          BY <4>3 DEF ReconcilePending
        <4>4. CASE Reenable(w)
          BY <4>4 DEF Reenable
        <4>5. CASE Screen(w)
          BY <4>5 DEF Screen
        <4>6. CASE ScreenAborts(w)
          BY <4>6 DEF ScreenAborts
        <4> QED BY <4>1, <4>2, <4>3, <4>4, <4>5, <4>6
                DEF CycleStep, ControlLookup, Join, Crash
      <3>2. \A s : RecordRepeatObservation(raw[r], s).attempts
                      = raw[r].attempts
        BY <1>0 DEF RecordRepeatObservation, Row
      <3>3. /\ SkipExpired(raw[r]).attempts = raw[r].attempts
            /\ SuppressForSystemBlock(raw[r]).attempts = raw[r].attempts
            /\ SetExtractionSuppressed(raw[r], TRUE).attempts
                 = raw[r].attempts
            /\ SetExtractionSuppressed(raw[r], FALSE).attempts
                 = raw[r].attempts
        BY <1>0, AttemptsKept
      <3> QED BY <3>1, <3>2, <3>3
    <2> QED BY <2>1, <1>0 DEF Row
  <1>2. \A r \in Raw : MayStillBegin(r)' \subseteq MayStillBegin(r)
    <2>1. CASE UNCHANGED h
      BY <2>1 DEF MayStillBegin
    <2>2. CASE Screen(w)
      <3>1. ASSUME NEW v \in Worker, NEW r \in Raw
            PROVE  \/ h'[v][r] = h[v][r]
                   \/ h'[v][r] = NoHandler
                   \/ /\ h[v][r].pc = "fetched"
                      /\ h'[v][r] = [h[v][r] EXCEPT !.pc = "screened"]
        BY <2>2, ScreenMoves
      <3>2. ASSUME NEW v \in Worker, NEW r \in Raw
            PROVE  [h[v][r] EXCEPT !.pc = "screened"].exhausted
                      = h[v][r].exhausted
        BY DEF TypeOK, Handler
      <3>3. ASSUME NEW r \in Raw, NEW v \in Worker,
                   h'[v][r].pc \in {"fetched", "screened"},
                   ~h'[v][r].exhausted
            PROVE  /\ h[v][r].pc \in {"fetched", "screened"}
                   /\ ~h[v][r].exhausted
        <4>1. h'[v][r] # NoHandler
          BY <3>3 DEF NoHandler
        <4>2. CASE h'[v][r] = h[v][r]
          BY <3>3, <4>2
        <4>3. CASE /\ h[v][r].pc = "fetched"
                   /\ h'[v][r] = [h[v][r] EXCEPT !.pc = "screened"]
          BY <3>2, <3>3, <4>3, Zenon
        <4> QED BY <3>1, <4>1, <4>2, <4>3
      <3> QED BY <3>3 DEF MayStillBegin
    <2>3. CASE Crash(w) \/ ScreenAborts(w)
      <3>1. /\ \A r \in Raw : h'[w][r].pc = "idle"
            /\ \A v \in Worker \ {w} : h'[v] = h[v]
        BY <2>3 DEF Crash, ScreenAborts, NoHandler, TypeOK
      <3> QED BY <3>1 DEF MayStillBegin
    <2> QED BY <2>1, <2>2, <2>3
            DEF CycleStep, Expire, ControlLookup, ReconcilePending, Reenable,
                Join
  <1> QED BY <1>1, <1>2 DEF NoNewAttempt

(* A fetch grants an attempt only on a row that is below the limit.        *)
LEMMA FetchKeepsInv ==
    ASSUME TypeOK, TypeOK', AttemptsInv, NEW w \in Worker, Fetch(w)
    PROVE  AttemptsInv'
  <1> SUFFICES ASSUME NEW r \in Raw
               PROVE  raw'[r].attempts + Cardinality(MayStillBegin(r)')
                         <= MaxRetries - 1 + Cardinality(Worker)
    BY DEF AttemptsInv
  <1>0. /\ MaxRetries \in Nat
        /\ raw[r].attempts \in Nat
        /\ raw'[r] = raw[r]
    BY WorkerAssumption DEF TypeOK, Row, Fetch
  <1>1. CASE raw[r].attempts <= MaxRetries - 1
    BY <1>0, <1>1, BelowLimit
  <1>2. CASE raw[r].attempts >= MaxRetries
    <2>0. h'[w][r].exhausted \/ h'[w][r].pc = "idle"
      <3>1. Exhausted(raw[r]) = TRUE
        BY <1>0, <1>2 DEF Exhausted
      <3>2. \/ h'[w][r] = [pc |-> "fetched", first |-> None,
                          exhausted |-> Exhausted(raw[r])]
            \/ h'[w][r] = NoHandler
        BY DEF Fetch, TypeOK
      <3>3. \/ h'[w][r] = [pc |-> "fetched", first |-> None,
                          exhausted |-> TRUE]
            \/ h'[w][r] = NoHandler
        BY <3>1, <3>2, Zenon
      <3> QED BY <3>3 DEF NoHandler
    <2>1. /\ w \notin MayStillBegin(r)'
          /\ \A v \in Worker \ {w} : h'[v] = h[v]
      BY <2>0 DEF Fetch, MayStillBegin, TypeOK
    <2>2. MayStillBegin(r)' \subseteq MayStillBegin(r)
      BY <2>1 DEF MayStillBegin
    <2>3. Cardinality(MayStillBegin(r)') <= Cardinality(MayStillBegin(r))
      BY <2>2, MayStillBeginFinite, FS_Subset
    <2>4. raw[r].attempts + Cardinality(MayStillBegin(r))
             <= MaxRetries - 1 + Cardinality(Worker)
      BY DEF AttemptsInv
    <2> QED BY <1>0, <2>3, <2>4, MayStillBeginFinite, MayStillBeginFinite1
  <1> QED BY <1>0, <1>1, <1>2

(* begin_extraction_attempt spends an attempt its worker was granted.      *)
LEMMA BeginKeepsInv ==
    ASSUME TypeOK, TypeOK', AttemptsInv, NEW w \in Worker, NEW r \in Raw,
           Begin(w, r)
    PROVE  AttemptsInv'
  <1>1. /\ \A s \in Raw : MayStillBegin(s)' \subseteq MayStillBegin(s)
        /\ w \notin MayStillBegin(r)'
    BY HandlerMovesGrantNothing DEF Begin, HandlerPcs
  <1>2. w \in MayStillBegin(r)
    BY DEF Begin, MayBegin, At, MayStillBegin
  <1>3. /\ raw'[r].attempts = raw[r].attempts + 1
        /\ \A s \in Raw \ {r} : raw'[s] = raw[s]
    <2>1. raw[r] \in Row
      BY DEF TypeOK
    <2>2. BeginExtractionAttempt(raw[r]).attempts = raw[r].attempts + 1
      BY <2>1 DEF BeginExtractionAttempt, Row
    <2> QED BY <2>2 DEF Begin, Write, TypeOK
  <1> SUFFICES ASSUME NEW s \in Raw
               PROVE  raw'[s].attempts + Cardinality(MayStillBegin(s)')
                         <= MaxRetries - 1 + Cardinality(Worker)
    BY DEF AttemptsInv
  <1>4. /\ MaxRetries \in Nat
        /\ raw[s].attempts \in Nat
        /\ raw[s].attempts + Cardinality(MayStillBegin(s))
             <= MaxRetries - 1 + Cardinality(Worker)
    BY WorkerAssumption DEF TypeOK, Row, AttemptsInv
  <1>5. CASE s = r
    <2>1. MayStillBegin(r)' \subseteq MayStillBegin(r) \ {w}
      BY <1>1
    <2>2. /\ IsFiniteSet(MayStillBegin(r) \ {w})
          /\ Cardinality(MayStillBegin(r) \ {w})
               = Cardinality(MayStillBegin(r)) - 1
      BY <1>2, MayStillBeginFinite, FS_RemoveElement
    <2>3. Cardinality(MayStillBegin(r)')
            <= Cardinality(MayStillBegin(r) \ {w})
      BY <2>1, <2>2, FS_Subset
    <2> QED BY <1>3, <1>4, <1>5, <2>2, <2>3, MayStillBeginFinite,
               MayStillBeginFinite1
  <1>6. CASE s # r
    <2>1. Cardinality(MayStillBegin(s)') <= Cardinality(MayStillBegin(s))
      BY <1>1, MayStillBeginFinite, FS_Subset
    <2> QED BY <1>3, <1>4, <1>6, <2>1, MayStillBeginFinite,
               MayStillBeginFinite1
  <1> QED BY <1>5, <1>6

(* The ingestor and the retry button set the counter to zero; the others   *)
(* leave it alone.                                                         *)
LEMMA OthersKeepInv ==
    ASSUME TypeOK, TypeOK', AttemptsInv,
           (\E r \in Raw : Ingest(r) \/ Age(r)) \/ ControlStep
    PROVE  AttemptsInv'
  <1>0. /\ \A r \in Raw : raw[r] \in Row
        /\ UNCHANGED h
    BY DEF TypeOK, Ingest, Age, ControlStep, RetryExtraction, SelectGroups,
           OptOutGroup, OptInGroup, StartExtraction, PauseExtraction,
           SetConnectionActive
  <1>1. \A r \in Raw : MayStillBegin(r)' = MayStillBegin(r)
    BY <1>0 DEF MayStillBegin
  <1>2. \A r \in Raw : raw'[r].attempts <= raw[r].attempts
    <2>1. CASE UNCHANGED raw
      BY <2>1, SameRowsSpendNothing
    <2>2. ASSUME NEW s \in Raw, Write(s, InsertRawMessage(s \in History))
          PROVE  <1>2
      BY <1>0, <2>2 DEF Write, InsertRawMessage, AbsentRow, TypeOK, Row
    <2>3. ASSUME NEW s \in Raw, Write(s, RetryRawExtraction(raw[s]))
          PROVE  <1>2
      BY <1>0, <2>3 DEF Write, RetryRawExtraction, TypeOK, Row
    <2>4. ASSUME NEW g, SuppressGroup(g, TRUE) \/ SuppressGroup(g, FALSE)
          PROVE  <1>2
      <3>1. ASSUME NEW r \in Raw
            PROVE  \/ raw'[r] = raw[r]
                   \/ raw'[r] = SetExtractionSuppressed(raw[r], TRUE)
                   \/ raw'[r] = SetExtractionSuppressed(raw[r], FALSE)
        BY <2>4 DEF SuppressGroup
      <3>2. \A r \in Raw : raw'[r].attempts = raw[r].attempts
        BY <1>0, <3>1, AttemptsKept
      <3> QED BY <1>0, <3>2 DEF Row
    <2> QED BY <2>1, <2>2, <2>3, <2>4
            DEF Ingest, Age, ControlStep, RetryExtraction, SelectGroups,
                OptOutGroup, OptInGroup, StartExtraction, PauseExtraction,
                SetConnectionActive
  <1> QED BY <1>1, <1>2, NoNewAttemptKeepsInv DEF NoNewAttempt

(* Every step of the system.                                               *)
LEMMA NextAttemptsInv ==
    TypeOK /\ TypeOK' /\ AttemptsInv /\ [Next]_vars => AttemptsInv'
  <1> SUFFICES ASSUME TypeOK, TypeOK', AttemptsInv, [Next]_vars
               PROVE  AttemptsInv'
    OBVIOUS
  <1>1. CASE UNCHANGED vars
    BY <1>1 DEF vars, AttemptsInv, MayStillBegin
  <1>2. ASSUME NEW w \in Worker, CycleStep(w) \/ Crash(w) PROVE AttemptsInv'
    BY <1>2, CycleSpendsNothing, NoNewAttemptKeepsInv, FetchKeepsInv
  <1>3. ASSUME NEW w \in Worker, NEW r \in Raw, HandlerStep(w, r)
        PROVE  AttemptsInv'
    BY <1>3, HandlerSpendsNothing, NoNewAttemptKeepsInv, BeginKeepsInv
  <1> QED BY <1>1, <1>2, <1>3, OthersKeepInv DEF Next

LEMMA InitAttemptsInv == Init => AttemptsInv
  <1> SUFFICES ASSUME Init, NEW r \in Raw
               PROVE  raw[r].attempts + Cardinality(MayStillBegin(r))
                         <= MaxRetries - 1 + Cardinality(Worker)
    BY DEF AttemptsInv
  <1>1. raw[r].attempts = 0 /\ MayStillBegin(r) = {}
    BY DEF Init, AbsentRow, MayStillBegin, NoHandler
  <1>2. Cardinality(MayStillBegin(r)) = 0
    BY <1>1, FS_EmptySet
  <1> QED BY <1>1, <1>2, WorkerAssumption, MayStillBeginFinite

(* AttemptsBound for any number of workers: MAX_RETRIES is exceeded by at  *)
(* most one attempt per further worker, because every begin that overtakes *)
(* the limit was granted by a fetch that still read a lower count.         *)
THEOREM AttemptsBounded == Spec => []AttemptsBound
  <1>1. AttemptsInv /\ TypeOK => AttemptsBound
    <2> SUFFICES ASSUME AttemptsInv, TypeOK, NEW r \in Raw
                 PROVE  raw[r].attempts
                          <= MaxRetries - 1 + Cardinality(Worker)
      BY DEF AttemptsBound
    <2>1. /\ raw[r].attempts \in Nat
          /\ raw[r].attempts + Cardinality(MayStillBegin(r))
               <= MaxRetries - 1 + Cardinality(Worker)
      BY DEF AttemptsInv, TypeOK, Row
    <2> QED BY <2>1, WorkerAssumption, MayStillBeginFinite
  <1> QED BY <1>1, TypeCorrect, InitAttemptsInv, NextAttemptsInv, PTL DEF Spec

-----------------------------------------------------------------------------
(* One owned baseline.                                                     *)

(* What a move of one handler does to it.                                  *)
LEMMA HandlerEffects ==
    ASSUME TypeOK, NEW w \in Worker, NEW r \in Raw
    PROVE  /\ \A pc \in HandlerPcs : Goto(w, r, pc) =>
                 /\ h'[w][r].pc = pc
                 /\ h'[w][r].first = h[w][r].first
                 /\ h'[w][r].exhausted = h[w][r].exhausted
           /\ Return(w, r) => h'[w][r].pc = "idle"
  <1>1. ASSUME NEW pc \in HandlerPcs, Goto(w, r, pc)
        PROVE  /\ h'[w][r].pc = pc
               /\ h'[w][r].first = h[w][r].first
               /\ h'[w][r].exhausted = h[w][r].exhausted
    <2>1. h' = [h EXCEPT ![w][r] = [h[w][r] EXCEPT !.pc = pc]]
      BY <1>1 DEF Goto, TypeOK
    <2>2. h'[w][r] = [h[w][r] EXCEPT !.pc = pc]
      BY <2>1 DEF TypeOK
    <2>3. h[w][r] \in Handler
      BY DEF TypeOK
    <2> QED BY <2>2, <2>3 DEF Handler
  <1>2. Return(w, r) => h'[w][r].pc = "idle"
    BY DEF Return, NoHandler, TypeOK
  <1> QED BY <1>1, <1>2

(* The inductive strengthening of OneOwnedBaseline: a handler that read    *)
(* its own row as the owner still owns the claim, and none reads an owner  *)
(* before the claim is tried.                                              *)
OwnInv ==
    \A w \in Worker, r \in Raw :
        /\ Owner(w, r) => claims[FpOf[r]] = r
        /\ h[w][r].pc \in {"fetched", "screened", "claim", "reread"}
              => h[w][r].first = None

(* Steps that leave the claims alone and make no owner.                    *)
LEMMA NoNewOwner ==
    ASSUME TypeOK, OwnInv, UNCHANGED claims,
           \A w \in Worker, r \in Raw :
               \/ h'[w][r] = h[w][r]
               \/ h'[w][r].pc = "idle"
               \/ /\ h'[w][r].first = h[w][r].first
                  /\ h[w][r].pc # "idle"
                  /\ h'[w][r].pc \in {"fetched", "screened", "claim", "reread"}
                       => h[w][r].pc \in {"fetched", "screened", "claim"}
               \/ h'[w][r].pc = "fetched" /\ h'[w][r].first = None
    PROVE  OwnInv'
  <1> SUFFICES ASSUME NEW w \in Worker, NEW r \in Raw
               PROVE  /\ Owner(w, r)' => claims[FpOf[r]] = r
                      /\ h'[w][r].pc \in {"fetched", "screened", "claim",
                                          "reread"}
                            => h'[w][r].first = None
    BY DEF OwnInv
  <1>1. /\ Owner(w, r) => claims[FpOf[r]] = r
        /\ h[w][r].pc \in {"fetched", "screened", "claim", "reread"}
              => h[w][r].first = None
    BY DEF OwnInv
  <1>2. h[w][r].pc \in HandlerPcs
    BY DEF TypeOK, Handler
  <1> QED BY <1>1, <1>2, RawAssumption DEF Owner, BaselinePcs, HandlerPcs

(* Each handler step that leaves the claims alone.                         *)
LEMMA HandlerNoNewOwner ==
    ASSUME TypeOK, OwnInv, NEW w \in Worker, NEW r \in Raw,
           HandlerStep(w, r), UNCHANGED claims, ~ClaimReread(w, r)
    PROVE  OwnInv'
  <1>1. CASE FailRaises(w, r)
    BY <1>1, NoNewOwner DEF FailRaises, NoHandler, TypeOK
  <1>2. CASE ~FailRaises(w, r)
    <2>1. \/ Return(w, r)
          \/ \E pc \in HandlerPcs \ {"fetched", "screened"} :
                /\ Goto(w, r, pc)
                /\ h[w][r].pc # "idle"
                /\ pc \in {"claim", "reread"} =>
                     h[w][r].pc \in {"screened", "claim"}
      <3>1. ~(ClaimInsert(w, r) /\ claims[FpOf[r]] = None)
        BY RawAssumption DEF ClaimInsert, TypeOK, Fps
      <3> QED BY <1>2, <3>1 DEF HandlerStep, Quarantine, DeadLetter, Begin,
             MayBegin, At, BeginFails, SkipInPipeline, ClaimInsert, ObserveRepeat,
             DeferRepeat, PassGate, ExtractItems, ExtractNothing,
             ExtractUnavailable, SaveTyped, SaveFails, MarkProcessed, Finish,
             StepError, Fail, Release, HandlerPcs
    <2>2. \A v \in Worker, s \in Raw : v # w \/ s # r => h'[v][s] = h[v][s]
      BY <2>1, HandlerMovesAlone
    <2>3. CASE Return(w, r)
      <3>1. h'[w][r].pc = "idle"
        BY <2>3, HandlerEffects
      <3> QED BY <2>2, <3>1, NoNewOwner
    <2>4. CASE \E pc \in HandlerPcs \ {"fetched", "screened"} :
                  /\ Goto(w, r, pc)
                  /\ h[w][r].pc # "idle"
                  /\ pc \in {"claim", "reread"} =>
                       h[w][r].pc \in {"screened", "claim"}
      <3>1. /\ h'[w][r].first = h[w][r].first
            /\ h[w][r].pc # "idle"
            /\ h'[w][r].pc \in {"fetched", "screened", "claim", "reread"}
                 => h[w][r].pc \in {"fetched", "screened", "claim"}
        BY <2>4, HandlerEffects
      <3> QED BY <2>2, <3>1, NoNewOwner
    <2> QED BY <2>1, <2>3, <2>4
  <1> QED BY <1>1, <1>2

(* The steps that write claims, and the re-read of one.                    *)
LEMMA ClaimKeepsOwn ==
    ASSUME TypeOK, OwnInv, NEW w \in Worker, NEW r \in Raw,
           Worker = {w}, 
           \/ ClaimInsert(w, r) /\ claims[FpOf[r]] = None
           \/ ClaimReread(w, r)
           \/ Release(w, r)
    PROVE  OwnInv'
  <1> SUFFICES ASSUME NEW s \in Raw
               PROVE  /\ Owner(w, s)' => claims'[FpOf[s]] = s
                      /\ h'[w][s].pc \in {"fetched", "screened", "claim",
                                          "reread"}
                            => h'[w][s].first = None
    BY DEF OwnInv
  <1>1. /\ Owner(w, s) => claims[FpOf[s]] = s
        /\ h[w][s].pc \in {"fetched", "screened", "claim", "reread"}
              => h[w][s].first = None
    BY DEF OwnInv
  <1>2. s # r => h'[w][s] = h[w][s]
    BY HandlerMovesAlone DEF ClaimInsert, ClaimReread, Release
  <1>3. FpOf[r] \in Fps /\ FpOf[s] \in Fps
    BY DEF Fps
  <1>4. CASE ClaimInsert(w, r) /\ claims[FpOf[r]] = None
    <2>1. /\ claims'[FpOf[r]] = r
          /\ FpOf[s] # FpOf[r] => claims'[FpOf[s]] = claims[FpOf[s]]
      BY <1>3, <1>4 DEF ClaimInsert, TypeOK
    <2>2. h'[w][r].pc = "gate" /\ h'[w][r].first = r
      <3>1. EnterGate(w, r, r)
        BY <1>4 DEF ClaimInsert
      <3> QED BY <3>1 DEF EnterGate, TypeOK
    <2> QED BY <1>1, <1>2, <1>4, <2>1, <2>2, RawAssumption DEF Owner
  <1>5. CASE ClaimReread(w, r)
    <2>1. h'[w][r].pc = "gate" /\ h'[w][r].first = claims[FpOf[r]]
      <3>1. EnterGate(w, r, claims[FpOf[r]])
        BY <1>5 DEF ClaimReread
      <3> QED BY <3>1 DEF EnterGate, TypeOK
    <2> QED BY <1>1, <1>2, <1>5, <2>1 DEF ClaimReread, Owner
  <1>6. CASE Release(w, r)
    <2>1. h'[w][r].pc = "idle"
      BY <1>6, HandlerEffects DEF Release
    <2>2. claims[FpOf[s]] = s /\ s # r => claims'[FpOf[s]] = s
      BY <1>3, <1>6 DEF Release, TypeOK
    <2> QED BY <1>1, <1>2, <2>1, <2>2 DEF Owner, BaselinePcs
  <1> QED BY <1>4, <1>5, <1>6

(* The cycle and everyone else.                                            *)
LEMMA RestKeepsOwn ==
    ASSUME TypeOK, OwnInv,
           \/ \E w \in Worker : CycleStep(w) \/ Crash(w)
           \/ \E r \in Raw : Ingest(r) \/ Age(r)
           \/ ControlStep
           \/ UNCHANGED vars
    PROVE  OwnInv'
  <1>1. CASE UNCHANGED <<h, claims>>
    BY <1>1, NoNewOwner
  <1>2. ASSUME NEW w \in Worker, Fetch(w) PROVE OwnInv'
    <2>1. ASSUME NEW v \in Worker, NEW s \in Raw
          PROVE  \/ h'[v][s] = h[v][s]
                 \/ h'[v][s].pc = "idle"
                 \/ h'[v][s].pc = "fetched" /\ h'[v][s].first = None
      BY <1>2 DEF Fetch, NoHandler, TypeOK
    <2> QED BY <1>2, <2>1, NoNewOwner DEF Fetch
  <1>3. ASSUME NEW w \in Worker, Screen(w) PROVE OwnInv'
    <2>1. ASSUME NEW v \in Worker, NEW s \in Raw
          PROVE  \/ h'[v][s] = h[v][s]
                 \/ h'[v][s] = NoHandler
                 \/ /\ h[v][s].pc = "fetched"
                    /\ h'[v][s] = [h[v][s] EXCEPT !.pc = "screened"]
      BY <1>3, ScreenMoves
    <2>2. ASSUME NEW v \in Worker, NEW s \in Raw
          PROVE  [h[v][s] EXCEPT !.pc = "screened"].first = h[v][s].first
      BY DEF TypeOK, Handler
    <2>3. ASSUME NEW v \in Worker, NEW s \in Raw
          PROVE  \/ h'[v][s] = h[v][s]
                 \/ h'[v][s].pc = "idle"
                 \/ /\ h'[v][s].first = h[v][s].first
                    /\ h[v][s].pc = "fetched"
      <3>1. NoHandler.pc = "idle"
        BY DEF NoHandler
      <3>2. CASE h'[v][s] = h[v][s]
        BY <3>2
      <3>3. CASE h'[v][s] = NoHandler
        BY <3>1, <3>3
      <3>4. CASE /\ h[v][s].pc = "fetched"
                 /\ h'[v][s] = [h[v][s] EXCEPT !.pc = "screened"]
        BY <2>2, <3>4
      <3> QED BY <2>1, <3>2, <3>3, <3>4
    <2> QED BY <1>3, <2>3, NoNewOwner DEF Screen
  <1>4. ASSUME NEW w \in Worker, Crash(w) \/ ScreenAborts(w) PROVE OwnInv'
    BY <1>4, NoNewOwner DEF Crash, ScreenAborts, NoHandler, TypeOK
  <1> QED BY <1>1, <1>2, <1>3, <1>4
          DEF CycleStep, Expire, ControlLookup, ReconcilePending, Reenable,
              Join, Ingest, Age, ControlStep, RetryExtraction, SelectGroups,
              OptOutGroup, OptInGroup, StartExtraction, PauseExtraction,
              SetConnectionActive, vars

(* With one worker no two copies of a message are ever extracted side by   *)
(* side by handlers that both believe they own the claim, for any rows,    *)
(* lanes, faults and controls.                                             *)
THEOREM OneWorkerOneBaseline ==
    ASSUME NEW w0, Worker = {w0}
    PROVE  Spec => []OneOwnedBaseline
  <1>1. Init => OwnInv
    BY DEF Init, OwnInv, Owner, BaselinePcs, NoHandler
  <1>2. TypeOK /\ OwnInv /\ [Next]_vars => OwnInv'
    <2> SUFFICES ASSUME TypeOK, OwnInv, [Next]_vars PROVE OwnInv'
      OBVIOUS
    <2>1. ASSUME NEW w \in Worker, NEW r \in Raw, HandlerStep(w, r)
          PROVE  OwnInv'
      <3>1. Worker = {w}
        OBVIOUS
      <3>2. \/ ClaimInsert(w, r) /\ claims[FpOf[r]] = None
            \/ ClaimReread(w, r)
            \/ Release(w, r)
            \/ UNCHANGED claims
        BY <2>1 DEF HandlerStep, Quarantine, DeadLetter, Begin, BeginFails,
             SkipInPipeline, ClaimInsert, ObserveRepeat, DeferRepeat, PassGate, ExtractItems,
             ExtractNothing, ExtractUnavailable, SaveTyped, SaveFails,
             MarkProcessed, Finish, StepError, Fail, FailRaises
      <3> QED BY <2>1, <3>1, <3>2, ClaimKeepsOwn, HandlerNoNewOwner
    <2> QED BY <2>1, RestKeepsOwn DEF Next
  <1>3. OwnInv => OneOwnedBaseline
    BY DEF OwnInv, OneOwnedBaseline
  <1> QED BY <1>1, <1>2, <1>3, TypeCorrect, PTL DEF Spec
=============================================================================
