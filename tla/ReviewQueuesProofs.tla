-------------------------- MODULE ReviewQueuesProofs --------------------------
(***************************************************************************)
(* ReviewQueues, proved for any rows, processes, requests and faults.  The *)
(* inductive invariant says who holds what (HeldOnce), that only an item   *)
(* to be replayed is locked, and that a row about to be counted as         *)
(* repaired is aligned.  From HeldOnce both queues implement JobQueue.     *)
(***************************************************************************)
EXTENDS ReviewQueues, TLAPS

LockedIsReplay == \A r \in Row : item[r].locked => item[r].decision = "replay"

Aligned ==
  \A b \in Aligner : (mend[b].pc = "repaired" /\ typed[mend[b].row].present) =>
                       typed[mend[b].row].tenant = "raw"

(* A request that is open is about a row.                                   *)
Requested == \A a \in Admin : req[a].pc # "idle" => req[a].row \in Row

ReviewInv ==
  ReviewTypeOK /\ HeldOnce /\ LockedIsReplay /\ Aligned /\ RepairedIsAligned /\ Requested

(* What an action leaves alone keeps what is said of it.                    *)
ReworkHeld ==
  /\ \A r \in Row : task[r].pc # "none" <=> \E w \in Reworker : r \in batch[w]
  /\ \A v, w \in Reworker : v # w => batch[v] \cap batch[w] = {}
  /\ \A w \in Reworker, r \in Row : r \in batch[w] => job[r] = "running"

AlignHeld ==
  /\ \A b, c \in Aligner : b # c => lot[b] \cap lot[c] = {}
  /\ \A b \in Aligner, r \in Row :
       r \in lot[b] => item[r].decision = "replay" /\ item[r].locked
  /\ \A b \in Aligner : mend[b].pc # "idle" => mend[b].row \in lot[b]

LEMMA HeldParts == HeldOnce <=> ReworkHeld /\ AlignHeld
BY DEF HeldOnce, ReworkHeld, AlignHeld

LEMMA HeldNext == ReworkHeld' /\ AlignHeld' => HeldOnce'
BY DEF HeldOnce, ReworkHeld, AlignHeld

LEMMA ReworkKept ==
  ASSUME ReworkHeld, UNCHANGED <<job, task, batch>> PROVE ReworkHeld'
BY DEF ReworkHeld

LEMMA AlignKept ==
  ASSUME AlignHeld, LockedIsReplay, UNCHANGED <<item, lot, mend>>
  PROVE  AlignHeld' /\ LockedIsReplay'
BY DEF AlignHeld, LockedIsReplay

LEMMA AlignedKept ==
  ASSUME Aligned, RepairedIsAligned, UNCHANGED <<typed, item, mend>>
  PROVE  Aligned' /\ RepairedIsAligned'
BY DEF Aligned, RepairedIsAligned

-----------------------------------------------------------------------------
(* Types *)

LEMMA RowTypes ==
  ASSUME ReviewTypeOK
  PROVE  /\ \A r \in Row : typed[r] \in TypedRow /\ task[r] \in Task /\ item[r] \in Item
         /\ \A b \in Aligner : mend[b] \in Mend
         /\ \A a \in Admin : req[a] \in Req
BY DEF ReviewTypeOK

LEMMA TaskValues ==
  ASSUME NEW k \in Task
  PROVE  /\ NoTask \in Task /\ Claimed \in Task
         /\ \A p \in {"none", "claimed", "extract", "readback", "release", "finish", "failing"} :
              [k EXCEPT !.pc = p] \in Task
         /\ \A v \in Verdict : [k EXCEPT !.pc = "finish", !.verdict = v] \in Task
         /\ \A f \in SUBSET Flag : [k EXCEPT !.pc = "release", !.flags = f] \in Task
<1>1. NoTask \in Task /\ Claimed \in Task
  BY DEF NoTask, Claimed, Task, Verdict
<1>2. ASSUME NEW p \in {"none", "claimed", "extract", "readback", "release", "finish", "failing"}
      PROVE  [k EXCEPT !.pc = p] \in Task
  BY DEF Task
<1>3. ASSUME NEW v \in Verdict PROVE [k EXCEPT !.pc = "finish", !.verdict = v] \in Task
  BY DEF Task
<1>4. ASSUME NEW f \in SUBSET Flag PROVE [k EXCEPT !.pc = "release", !.flags = f] \in Task
  BY DEF Task
<1> QED BY <1>1, <1>2, <1>3, <1>4

-----------------------------------------------------------------------------
(* Three kinds of writes *)

(* A task goes on.                                                          *)
LEMMA TaskMove ==
  ASSUME ReviewTypeOK, ReworkHeld, NEW r \in Row, NEW k \in Task,
         task[r].pc # "none", k.pc # "none", task' = [task EXCEPT ![r] = k],
         UNCHANGED <<job, batch>>
  PROVE  task' \in [Row -> Task] /\ ReworkHeld'
<1>1. task' \in [Row -> Task]
  BY DEF ReviewTypeOK
<1>2. task'[r] = k /\ \A s \in Row \ {r} : task'[s] = task[s]
  BY DEF ReviewTypeOK
<1>3. \A s \in Row : task'[s].pc # "none" <=> task[s].pc # "none"
  BY <1>2
<1> QED BY <1>1, <1>3 DEF ReworkHeld

(* A task ends, with the job closed or left as it is.                       *)
LEMMA TaskEnd ==
  ASSUME ReviewTypeOK, ReworkHeld, NEW r \in Row, task' = [task EXCEPT ![r] = NoTask],
         Drop(r), \A s \in Row \ {r} : job'[s] = job[s]
  PROVE  task' \in [Row -> Task] /\ batch' \in [Reworker -> SUBSET Row] /\ ReworkHeld'
<1>1. task' \in [Row -> Task]
  BY TaskValues DEF ReviewTypeOK
<1>2. task'[r].pc = "none" /\ \A s \in Row \ {r} : task'[s] = task[s]
  BY DEF ReviewTypeOK, NoTask
<1>3. batch' \in [Reworker -> SUBSET Row] /\ \A w \in Reworker : batch'[w] = batch[w] \ {r}
  BY DEF ReviewTypeOK, Drop
<1>4. (\A s \in Row : task[s].pc # "none" <=> \E w \in Reworker : s \in batch[w])'
  BY <1>2, <1>3 DEF ReworkHeld
<1>5. (\A v, w \in Reworker : v # w => batch[v] \cap batch[w] = {})'
  BY <1>3 DEF ReworkHeld
<1>6. (\A w \in Reworker, s \in Row : s \in batch[w] => job[s] = "running")'
  BY <1>3 DEF ReworkHeld
<1> QED BY <1>1, <1>3, <1>4, <1>5, <1>6 DEF ReworkHeld

(* A typed row is written: it stays aligned if it was.                      *)
LEMMA TypedMove ==
  ASSUME ReviewTypeOK, AlignHeld, Aligned, RepairedIsAligned, NEW r \in Row, NEW x \in TypedRow,
         typed' = [typed EXCEPT ![r] = x],
         x.present => x.tenant = "raw" \/ (typed[r].present /\ x.tenant = typed[r].tenant),
         UNCHANGED <<item, mend>>
  PROVE  typed' \in [Row -> TypedRow] /\ Aligned' /\ RepairedIsAligned'
<1>1. typed' \in [Row -> TypedRow]
  BY DEF ReviewTypeOK
<1>2. typed'[r] = x /\ \A s \in Row \ {r} : typed'[s] = typed[s]
  BY DEF ReviewTypeOK
<1>3. Aligned'
  <2> SUFFICES ASSUME NEW b \in Aligner, mend[b].pc = "repaired", typed'[mend[b].row].present
               PROVE  typed'[mend[b].row].tenant = "raw"
    BY DEF Aligned
  <2>1. mend[b].row \in Row
    BY DEF AlignHeld, ReviewTypeOK
  <2> QED BY <1>2, <2>1 DEF Aligned
<1>4. RepairedIsAligned'
  BY <1>2 DEF RepairedIsAligned
<1> QED BY <1>1, <1>3, <1>4

LEMMA BreakType ==
  ASSUME ReviewTypeOK, Break PROVE breaks' \in 0..MaxBreaks
BY ReviewAssumption DEF ReviewTypeOK, Break

-----------------------------------------------------------------------------
(* The reprocessing worker: it leaves the boundary queue alone.             *)
LEMMA ReworkSide ==
  ASSUME ReviewInv, UNCHANGED alignVars
  PROVE  AlignHeld' /\ LockedIsReplay' /\ Requested'
BY HeldParts, AlignKept DEF ReviewInv, alignVars, Requested

LEMMA ClaimBatchInv ==
  ASSUME ReviewInv, NEW w \in Reworker, ClaimBatch(w) PROVE ReviewInv'
<1>1. PICK S \in SUBSET Queued :
        /\ batch' = [batch EXCEPT ![w] = S]
        /\ job' = [r \in Row |-> IF r \in S THEN "running" ELSE job[r]]
        /\ task' = [r \in Row |-> IF r \in S THEN Claimed ELSE task[r]]
  BY DEF ClaimBatch
<1>2. batch[w] = {} /\ UNCHANGED <<typed, seeded, alignVars, breaks>>
  BY DEF ClaimBatch
<1>3. ReviewTypeOK /\ ReworkHeld
  BY HeldParts DEF ReviewInv
<1>4. S \subseteq Row /\ \A r \in S, v \in Reworker : r \notin batch[v]
  BY <1>3 DEF Queued, ReworkHeld
<1>5. task' \in [Row -> Task] /\ batch' \in [Reworker -> SUBSET Row]
      /\ job' \in [Row -> {"none", "queued", "running"} \cup Verdict]
  BY <1>1, <1>3, <1>4, TaskValues DEF ReviewTypeOK
<1>6. batch'[w] = S /\ \A v \in Reworker \ {w} : batch'[v] = batch[v]
  BY <1>1, <1>3 DEF ReviewTypeOK
<1>7. (\A r \in Row : task[r].pc # "none" <=> \E v \in Reworker : r \in batch[v])'
  <2> SUFFICES ASSUME NEW r \in Row
               PROVE  task'[r].pc # "none" <=> \E v \in Reworker : r \in batch'[v]
    OBVIOUS
  <2>1. CASE r \in S
    BY <1>1, <1>6, <2>1 DEF Claimed
  <2>2. CASE r \notin S
    BY <1>1, <1>2, <1>3, <1>6, <2>2 DEF ReworkHeld
  <2> QED BY <2>1, <2>2
<1>8. (\A u, v \in Reworker : u # v => batch[u] \cap batch[v] = {})'
  BY <1>3, <1>4, <1>6 DEF ReworkHeld
<1>9. (\A v \in Reworker, r \in Row : r \in batch[v] => job[r] = "running")'
  BY <1>1, <1>3, <1>6 DEF ReworkHeld
<1>10. ReworkHeld'
  BY <1>7, <1>8, <1>9 DEF ReworkHeld
<1>11. ReviewTypeOK'
  BY <1>2, <1>3, <1>5 DEF ReviewTypeOK, alignVars
<1> QED BY <1>2, <1>10, <1>11, HeldNext, ReworkSide, AlignedKept DEF ReviewInv, alignVars

(* A step of a job that has a task and keeps it.                            *)
LEMMA JobGoesOn ==
  ASSUME ReviewInv, NEW r \in Row, NEW k \in Task, task[r].pc # "none", k.pc # "none",
         task' = [task EXCEPT ![r] = k], breaks' \in 0..MaxBreaks,
         UNCHANGED <<seeded, job, batch, alignVars>>,
         typed' \in [Row -> TypedRow] /\ Aligned' /\ RepairedIsAligned'
  PROVE  ReviewInv'
<1>1. ReviewTypeOK /\ ReworkHeld
  BY HeldParts DEF ReviewInv
<1>2. task' \in [Row -> Task] /\ ReworkHeld'
  BY <1>1, TaskMove
<1>3. ReviewTypeOK'
  BY <1>1, <1>2 DEF ReviewTypeOK, alignVars
<1> QED BY <1>2, <1>3, HeldNext, ReworkSide DEF ReviewInv

LEMMA TypedKept ==
  ASSUME ReviewInv, UNCHANGED <<typed, alignVars>>
  PROVE  typed' \in [Row -> TypedRow] /\ Aligned' /\ RepairedIsAligned'
BY AlignedKept DEF ReviewInv, ReviewTypeOK, alignVars

LEMMA BecomeTask ==
  ASSUME ReviewTypeOK, NEW r \in Row, Become(r, "extract") \/ Become(r, "readback")
                                       \/ Become(r, "failing")
  PROVE  \E k \in Task : k.pc # "none" /\ task' = [task EXCEPT ![r] = k]
<1>1. task[r] \in Task
  BY DEF ReviewTypeOK
<1>2. ASSUME NEW p \in {"extract", "readback", "failing"}, Become(r, p)
      PROVE  \E k \in Task : k.pc # "none" /\ task' = [task EXCEPT ![r] = k]
  <2>1. [task[r] EXCEPT !.pc = p] \in Task
    BY <1>1, TaskValues
  <2>2. [task[r] EXCEPT !.pc = p].pc # "none"
    BY <1>1 DEF Task
  <2>3. task' = [task EXCEPT ![r] = [task[r] EXCEPT !.pc = p]]
    BY <1>2 DEF Become
  <2> QED BY <2>1, <2>2, <2>3
<1> QED BY <1>2

LEMMA ConcludeTask ==
  ASSUME ReviewTypeOK, NEW r \in Row, NEW v \in Verdict, Conclude(r, v)
  PROVE  \E k \in Task : k.pc # "none" /\ task' = [task EXCEPT ![r] = k]
<1>1. task[r] \in Task
  BY DEF ReviewTypeOK
<1>2. [task[r] EXCEPT !.pc = "finish", !.verdict = v] \in Task
  BY <1>1, TaskValues
<1>3. [task[r] EXCEPT !.pc = "finish", !.verdict = v].pc # "none"
  BY <1>1 DEF Task
<1>4. task' = [task EXCEPT ![r] = [task[r] EXCEPT !.pc = "finish", !.verdict = v]]
  BY DEF Conclude
<1> QED BY <1>2, <1>3, <1>4

LEMMA StartJobInv ==
  ASSUME ReviewInv, NEW r \in Row, StartJob(r) PROVE ReviewInv'
<1>1. ReviewTypeOK /\ task[r].pc # "none" /\ breaks' \in 0..MaxBreaks
  BY DEF ReviewInv, StartJob, ReviewTypeOK
<1>2. UNCHANGED <<typed, seeded, job, batch, alignVars>>
  BY DEF StartJob
<1>3. \/ Become(r, "extract")
      \/ \E v \in Verdict : Conclude(r, v)
  BY DEF StartJob, Verdict
<1>4. PICK k \in Task : k.pc # "none" /\ task' = [task EXCEPT ![r] = k]
  BY <1>1, <1>3, BecomeTask, ConcludeTask
<1> QED BY <1>1, <1>2, <1>4, TypedKept, JobGoesOn

LEMMA ReextractInv ==
  ASSUME ReviewInv, NEW r \in Row, Reextract(r) PROVE ReviewInv'
<1>1. /\ ReviewTypeOK /\ AlignHeld /\ Aligned /\ RepairedIsAligned
      /\ task[r].pc # "none" /\ breaks' \in 0..MaxBreaks
      /\ typed[r] \in TypedRow /\ UNCHANGED <<item, mend>>
  BY HeldParts DEF ReviewInv, Reextract, ReviewTypeOK, alignVars
<1>2. UNCHANGED <<seeded, job, batch, alignVars>> /\ Become(r, "readback")
  BY DEF Reextract
<1>3. PICK k \in Task : k.pc # "none" /\ task' = [task EXCEPT ![r] = k]
  BY <1>1, <1>2, BecomeTask
<1>4. typed' \in [Row -> TypedRow] /\ Aligned' /\ RepairedIsAligned'
  <2>1. ASSUME NEW again \in BOOLEAN, NEW fl \in {{}, {"own"}},
               typed' = [typed EXCEPT ![r] = [present |-> TRUE, tenant |-> "raw",
                                              review |-> again, flags |-> fl]]
        PROVE  typed' \in [Row -> TypedRow] /\ Aligned' /\ RepairedIsAligned'
    <3> DEFINE x == [present |-> TRUE, tenant |-> "raw", review |-> again, flags |-> fl]
    <3>1. x \in TypedRow /\ x.tenant = "raw" /\ typed' = [typed EXCEPT ![r] = x]
      BY <2>1 DEF TypedRow, Workspace, Flag
    <3> HIDE DEF x
    <3> QED BY <1>1, <3>1, TypedMove
  <2>2. CASE typed' = [typed EXCEPT ![r].present = FALSE]
    <3> DEFINE x == [typed[r] EXCEPT !.present = FALSE]
    <3>1. x \in TypedRow /\ ~x.present
      BY <1>1 DEF TypedRow
    <3>2. typed' = [typed EXCEPT ![r] = x]
      BY <2>2
    <3> HIDE DEF x
    <3> QED BY <1>1, <3>1, <3>2, TypedMove
  <2>3. CASE UNCHANGED typed
    BY <1>2, <2>3, TypedKept
  <2> QED BY <2>1, <2>2, <2>3 DEF Reextract
<1> QED BY <1>1, <1>2, <1>3, <1>4, JobGoesOn

LEMMA ReadBackInv ==
  ASSUME ReviewInv, NEW r \in Row, ReadBack(r) PROVE ReviewInv'
<1>1. /\ ReviewTypeOK /\ task[r].pc # "none" /\ breaks' \in 0..MaxBreaks
      /\ task[r] \in Task /\ typed[r].flags \in SUBSET Flag
  BY DEF ReviewInv, ReadBack, ReviewTypeOK, TypedRow
<1>2. UNCHANGED <<typed, seeded, job, batch, alignVars>>
  BY DEF ReadBack
<1>3. CASE Conclude(r, "still_unresolved")
  <2>1. PICK k \in Task : k.pc # "none" /\ task' = [task EXCEPT ![r] = k]
    BY <1>1, <1>3, ConcludeTask DEF Verdict
  <2> QED BY <1>1, <1>2, <2>1, TypedKept, JobGoesOn
<1>4. CASE task' = [task EXCEPT ![r] = [@ EXCEPT !.pc = "release", !.flags = typed[r].flags]]
  <2> DEFINE k == [task[r] EXCEPT !.pc = "release", !.flags = typed[r].flags]
  <2>1. k \in Task
    BY <1>1, TaskValues
  <2>2. k.pc # "none"
    BY <1>1 DEF Task
  <2>3. task' = [task EXCEPT ![r] = k]
    BY <1>4
  <2> HIDE DEF k
  <2> QED BY <1>1, <1>2, <2>1, <2>2, <2>3, TypedKept, JobGoesOn
<1> QED BY <1>3, <1>4 DEF ReadBack

LEMMA ReleaseQuarantineInv ==
  ASSUME ReviewInv, NEW r \in Row, ReleaseQuarantine(r) PROVE ReviewInv'
<1>1. /\ ReviewTypeOK /\ AlignHeld /\ Aligned /\ RepairedIsAligned
      /\ task[r].pc # "none" /\ breaks' \in 0..MaxBreaks
      /\ typed[r] \in TypedRow /\ task[r].flags \in SUBSET Flag /\ UNCHANGED <<item, mend>>
  BY HeldParts DEF ReviewInv, ReleaseQuarantine, ReviewTypeOK, alignVars, Task
<1>2. UNCHANGED <<seeded, job, batch, alignVars>> /\ Conclude(r, "fixed")
  BY DEF ReleaseQuarantine
<1>3. PICK k \in Task : k.pc # "none" /\ task' = [task EXCEPT ![r] = k]
  BY <1>1, <1>2, ConcludeTask DEF Verdict
<1> DEFINE x == [typed[r] EXCEPT !.review = FALSE, !.flags = task[r].flags \ {"own"}]
<1>4. x \in TypedRow
  BY <1>1 DEF TypedRow
<1>5. x.present = typed[r].present /\ x.tenant = typed[r].tenant
  BY <1>1 DEF TypedRow
<1>6. typed' = [typed EXCEPT ![r] = IF typed[r].present THEN x ELSE typed[r]]
  BY DEF ReleaseQuarantine
<1> HIDE DEF x
<1>7. PICK y \in TypedRow : /\ typed' = [typed EXCEPT ![r] = y]
                            /\ y.present = typed[r].present /\ y.tenant = typed[r].tenant
  BY <1>1, <1>4, <1>5, <1>6
<1>8. typed' \in [Row -> TypedRow] /\ Aligned' /\ RepairedIsAligned'
  BY <1>1, <1>7, TypedMove
<1> QED BY <1>1, <1>2, <1>3, <1>8, JobGoesOn

LEMMA FinishJobInv ==
  ASSUME ReviewInv, NEW r \in Row, FinishJob(r) PROVE ReviewInv'
<1>1. ReviewTypeOK /\ ReworkHeld /\ task[r].verdict \in Verdict
  BY HeldParts DEF ReviewInv, ReviewTypeOK, Task
<1>2. /\ task' = [task EXCEPT ![r] = NoTask] /\ Drop(r)
      /\ UNCHANGED <<typed, seeded, alignVars, breaks>>
  BY DEF FinishJob
<1>3. PICK v \in Verdict : job' = [job EXCEPT ![r] = v]
  BY <1>1 DEF FinishJob, Verdict
<1>4. job' \in [Row -> {"none", "queued", "running"} \cup Verdict]
      /\ \A s \in Row \ {r} : job'[s] = job[s]
  BY <1>1, <1>3 DEF ReviewTypeOK
<1>5. task' \in [Row -> Task] /\ batch' \in [Reworker -> SUBSET Row] /\ ReworkHeld'
  BY <1>1, <1>2, <1>4, TaskEnd
<1>6. ReviewTypeOK'
  BY <1>1, <1>2, <1>4, <1>5 DEF ReviewTypeOK, alignVars
<1> QED BY <1>2, <1>5, <1>6, HeldNext, ReworkSide, TypedKept DEF ReviewInv

LEMMA BreakJobInv ==
  ASSUME ReviewInv, NEW r \in Row, BreakJob(r) PROVE ReviewInv'
<1>1. ReviewTypeOK /\ ReworkHeld /\ task[r].pc # "none" /\ breaks' \in 0..MaxBreaks
  BY HeldParts, BreakType DEF ReviewInv, BreakJob
<1>2. UNCHANGED <<typed, seeded, job, alignVars>>
  BY DEF BreakJob
<1>3. CASE task' = [task EXCEPT ![r] = NoTask] /\ Drop(r)
  <2>1. task' \in [Row -> Task] /\ batch' \in [Reworker -> SUBSET Row] /\ ReworkHeld'
    BY <1>1, <1>2, <1>3, TaskEnd
  <2>2. ReviewTypeOK'
    BY <1>1, <1>2, <2>1 DEF ReviewTypeOK, alignVars
  <2> QED BY <1>2, <2>1, <2>2, HeldNext, ReworkSide, TypedKept DEF ReviewInv
<1>4. CASE Become(r, "failing") /\ UNCHANGED batch
  <2>1. PICK k \in Task : k.pc # "none" /\ task' = [task EXCEPT ![r] = k]
    BY <1>1, <1>4, BecomeTask
  <2> QED BY <1>1, <1>2, <1>4, <2>1, TypedKept, JobGoesOn
<1> QED BY <1>3, <1>4 DEF BreakJob

LEMMA CrashReworkerInv ==
  ASSUME ReviewInv, NEW w \in Reworker, CrashReworker(w) PROVE ReviewInv'
<1>1. ReviewTypeOK /\ ReworkHeld /\ breaks' \in 0..MaxBreaks
  BY HeldParts, BreakType DEF ReviewInv, CrashReworker
<1>2. /\ task' = [r \in Row |-> IF r \in batch[w] THEN NoTask ELSE task[r]]
      /\ batch' = [batch EXCEPT ![w] = {}]
      /\ UNCHANGED <<typed, seeded, job, alignVars>>
  BY DEF CrashReworker
<1>3. task' \in [Row -> Task] /\ batch' \in [Reworker -> SUBSET Row]
  BY <1>1, <1>2, TaskValues DEF ReviewTypeOK
<1>4. batch'[w] = {} /\ \A v \in Reworker \ {w} : batch'[v] = batch[v]
  BY <1>1, <1>2 DEF ReviewTypeOK
<1>5. (\A r \in Row : task[r].pc # "none" <=> \E v \in Reworker : r \in batch[v])'
  <2> SUFFICES ASSUME NEW r \in Row
               PROVE  task'[r].pc # "none" <=> \E v \in Reworker : r \in batch'[v]
    OBVIOUS
  <2>1. CASE r \in batch[w]
    <3>1. task'[r].pc = "none"
      BY <1>2, <2>1 DEF NoTask
    <3>2. \A v \in Reworker : r \notin batch'[v]
      BY <1>1, <1>4, <2>1 DEF ReworkHeld
    <3> QED BY <3>1, <3>2
  <2>2. CASE r \notin batch[w]
    BY <1>1, <1>2, <1>4, <2>2 DEF ReworkHeld
  <2> QED BY <2>1, <2>2
<1>6. ReworkHeld'
  BY <1>1, <1>2, <1>4, <1>5 DEF ReworkHeld
<1>7. ReviewTypeOK'
  BY <1>1, <1>2, <1>3 DEF ReviewTypeOK, alignVars
<1> QED BY <1>2, <1>6, <1>7, HeldNext, ReworkSide, TypedKept DEF ReviewInv

-----------------------------------------------------------------------------
(* The admins and the repair worker: they leave the jobs alone.             *)
LEMMA AlignSide ==
  ASSUME ReviewInv, UNCHANGED reworkVars PROVE ReworkHeld'
BY HeldParts, ReworkKept DEF ReviewInv, reworkVars

LEMMA ReqValues ==
  NoReq \in Req /\ NoReq.pc = "idle"
BY DEF NoReq, Req

(* A request goes on or is answered, and writes no item.                    *)
LEMMA ReqMove ==
  ASSUME ReviewTypeOK, Requested, NEW a \in Admin, NEW q \in Req,
         q.pc # "idle" => q.row \in Row, req' = [req EXCEPT ![a] = q]
  PROVE  req' \in [Admin -> Req] /\ Requested'
<1>1. req' \in [Admin -> Req]
  BY DEF ReviewTypeOK
<1>2. req'[a] = q /\ \A c \in Admin \ {a} : req'[c] = req[c]
  BY DEF ReviewTypeOK
<1> QED BY <1>1, <1>2 DEF Requested

LEMMA OpenDecisionInv ==
  ASSUME ReviewInv, NEW a \in Admin, NEW r \in Row,
         NEW d \in {"replay", "quarantine", "rejected"}, OpenDecision(a, r, d)
  PROVE  ReviewInv'
<1> DEFINE q == [pc |-> IF d = "quarantine" THEN "flags" ELSE "decide",
                 row |-> r, decision |-> d, flags |-> {}]
<1>1. q \in Req /\ q.row \in Row
  BY DEF Req
<1>2. req' = [req EXCEPT ![a] = q] /\ UNCHANGED <<typed, reworkVars, item, lot, mend, breaks>>
  BY DEF OpenDecision
<1> HIDE DEF q
<1>3. req' \in [Admin -> Req] /\ Requested'
  BY <1>1, <1>2, ReqMove DEF ReviewInv
<1>4. ReviewTypeOK'
  BY <1>2, <1>3 DEF ReviewInv, ReviewTypeOK, reworkVars
<1>5. AlignHeld' /\ LockedIsReplay'
  BY <1>2, HeldParts, AlignKept DEF ReviewInv
<1>6. Aligned' /\ RepairedIsAligned'
  BY <1>2, AlignedKept DEF ReviewInv
<1> QED BY <1>2, <1>3, <1>4, <1>5, <1>6, AlignSide, HeldNext DEF ReviewInv

(* A step of a request that only moves it.                                  *)
LEMMA RequestGoesOn ==
  ASSUME ReviewInv, NEW a \in Admin, NEW q \in Req, q.pc # "idle" => q.row \in Row,
         req' = [req EXCEPT ![a] = q], breaks' \in 0..MaxBreaks,
         UNCHANGED <<reworkVars, item, lot, mend>>,
         typed' \in [Row -> TypedRow] /\ Aligned' /\ RepairedIsAligned'
  PROVE  ReviewInv'
<1>1. req' \in [Admin -> Req] /\ Requested'
  BY ReqMove DEF ReviewInv
<1>2. ReviewTypeOK'
  BY <1>1 DEF ReviewInv, ReviewTypeOK, reworkVars
<1>3. AlignHeld' /\ LockedIsReplay'
  BY HeldParts, AlignKept DEF ReviewInv
<1> QED BY <1>1, <1>2, <1>3, AlignSide, HeldNext DEF ReviewInv

LEMMA ReadFlagsInv ==
  ASSUME ReviewInv, NEW a \in Admin, ReadFlags(a) PROVE ReviewInv'
<1>1. req[a] \in Req /\ req[a].row \in Row /\ breaks' \in 0..MaxBreaks
  BY DEF ReviewInv, ReviewTypeOK, ReadFlags, Requested
<1>2. UNCHANGED <<typed, reworkVars, item, lot, mend>>
  BY DEF ReadFlags
<1>3. typed' \in [Row -> TypedRow] /\ Aligned' /\ RepairedIsAligned'
  BY <1>2, AlignedKept DEF ReviewInv, ReviewTypeOK
<1>4. CASE Answer(a)
  BY <1>1, <1>2, <1>3, <1>4, ReqValues, RequestGoesOn DEF Answer
<1>5. CASE req' = [req EXCEPT ![a] = [@ EXCEPT !.pc = "mark", !.flags = typed[req[a].row].flags]]
  <2> DEFINE q == [req[a] EXCEPT !.pc = "mark", !.flags = typed[req[a].row].flags]
  <2>1. typed[req[a].row].flags \in SUBSET Flag
    BY <1>1 DEF ReviewInv, ReviewTypeOK, TypedRow
  <2>2. q \in Req
    BY <1>1, <2>1 DEF Req
  <2>3. q.row = req[a].row
    BY <1>1 DEF Req
  <2>4. req' = [req EXCEPT ![a] = q]
    BY <1>5
  <2> HIDE DEF q
  <2> QED BY <1>1, <1>2, <1>3, <2>2, <2>3, <2>4, RequestGoesOn
<1> QED BY <1>4, <1>5 DEF ReadFlags

LEMMA MarkBoundaryInv ==
  ASSUME ReviewInv, NEW a \in Admin, MarkBoundary(a) PROVE ReviewInv'
<1>1. /\ ReviewTypeOK /\ AlignHeld /\ Aligned /\ RepairedIsAligned
      /\ req[a] \in Req /\ req[a].row \in Row /\ breaks' \in 0..MaxBreaks
  BY HeldParts DEF ReviewInv, ReviewTypeOK, MarkBoundary, Requested
<1>2. UNCHANGED <<reworkVars, item, lot, mend>>
  BY DEF MarkBoundary
<1>3. PICK r \in Row : r = req[a].row
  BY <1>1
<1>4. typed[r] \in TypedRow /\ req[a].flags \in SUBSET Flag
  BY <1>1 DEF ReviewTypeOK, Req
<1> DEFINE x == [typed[r] EXCEPT !.review = TRUE, !.flags = req[a].flags \cup {"boundary"}]
<1>5. x \in TypedRow
  BY <1>4 DEF TypedRow, Flag
<1>6. x.present = typed[r].present /\ x.tenant = typed[r].tenant
  BY <1>4 DEF TypedRow
<1>7. typed' = [typed EXCEPT ![r] = IF typed[r].present THEN x ELSE typed[r]]
  BY <1>3 DEF MarkBoundary
<1> HIDE DEF x
<1>8. PICK y \in TypedRow : /\ typed' = [typed EXCEPT ![r] = y]
                            /\ y.present = typed[r].present /\ y.tenant = typed[r].tenant
  BY <1>4, <1>5, <1>6, <1>7
<1>9. typed' \in [Row -> TypedRow] /\ Aligned' /\ RepairedIsAligned'
  BY <1>1, <1>2, <1>8, TypedMove
<1> DEFINE q == [req[a] EXCEPT !.pc = "decide"]
<1>10. q \in Req /\ q.row = req[a].row
  BY <1>1 DEF Req
<1>11. req' = [req EXCEPT ![a] = q]
  BY DEF MarkBoundary
<1> HIDE DEF q
<1> QED BY <1>1, <1>2, <1>9, <1>10, <1>11, RequestGoesOn

LEMMA BreakDecisionInv ==
  ASSUME ReviewInv, NEW a \in Admin, BreakDecision(a) PROVE ReviewInv'
<1>1. breaks' \in 0..MaxBreaks /\ UNCHANGED <<typed, reworkVars, item, lot, mend>>
      /\ req' = [req EXCEPT ![a] = NoReq]
  BY BreakType DEF ReviewInv, BreakDecision, Answer
<1>2. typed' \in [Row -> TypedRow] /\ Aligned' /\ RepairedIsAligned'
  BY <1>1, AlignedKept DEF ReviewInv, ReviewTypeOK
<1> QED BY <1>1, <1>2, ReqValues, RequestGoesOn

(* A decision is written to an item nobody has decided, which is unlocked   *)
(* and in nobody's lot.                                                     *)
LEMMA RecordDecisionInv ==
  ASSUME ReviewInv, NEW a \in Admin, RecordDecision(a) PROVE ReviewInv'
<1>1. /\ ReviewTypeOK /\ AlignHeld /\ LockedIsReplay
      /\ req[a] \in Req /\ req[a].row \in Row /\ UNCHANGED <<typed, reworkVars, lot, mend, breaks>>
  BY HeldParts DEF ReviewInv, ReviewTypeOK, RecordDecision, Requested
<1>2. req' \in [Admin -> Req] /\ Requested'
  BY ReqValues, ReqMove DEF ReviewInv, RecordDecision, Answer
<1>3. PICK r \in Row : r = req[a].row
  BY <1>1
<1>4. item[r] \in Item /\ req[a].decision \in {"replay", "quarantine", "rejected"}
  BY <1>1 DEF ReviewTypeOK, Req
<1> DEFINE d == IF item[r].decision = "pending" THEN req[a].decision ELSE item[r].decision
           i == [item[r] EXCEPT !.decision = d]
<1>5. i \in Item /\ i.decision = d /\ i.locked = item[r].locked
  BY <1>4 DEF Item
<1>6. item' = [item EXCEPT ![r] = i]
  BY <1>3 DEF RecordDecision
<1>7. item[r].decision # "pending" => i = item[r]
  BY <1>4 DEF Item
<1> HIDE DEF i
<1>8. item' \in [Row -> Item] /\ item'[r] = i /\ \A s \in Row \ {r} : item'[s] = item[s]
  BY <1>1, <1>5, <1>6 DEF ReviewTypeOK
<1>9. LockedIsReplay'
  BY <1>1, <1>5, <1>7, <1>8 DEF LockedIsReplay
<1>10. AlignHeld'
  <2>1. ASSUME NEW b \in Aligner, NEW s \in Row, s \in lot[b]
        PROVE  item'[s].decision = "replay" /\ item'[s].locked
    <3>1. item[s].decision = "replay" /\ item[s].locked
      BY <1>1, <2>1 DEF AlignHeld
    <3>2. item[s].decision # "pending"
      BY <3>1
    <3> QED BY <1>7, <1>8, <3>1, <3>2
  <2> QED BY <1>1, <2>1 DEF AlignHeld
<1>11. RepairedIsAligned'
  BY <1>1, <1>4, <1>5, <1>8 DEF ReviewInv, RepairedIsAligned
<1>12. Aligned'
  BY <1>1 DEF ReviewInv, Aligned
<1>13. ReviewTypeOK'
  BY <1>1, <1>2, <1>8 DEF ReviewTypeOK, reworkVars
<1> QED BY <1>1, <1>2, <1>9, <1>10, <1>11, <1>12, <1>13, AlignSide, HeldNext DEF ReviewInv

(* A process of the repair worker goes on with an item of its lot.          *)
LEMMA MendMove ==
  ASSUME ReviewTypeOK, AlignHeld, NEW b \in Aligner, NEW m \in Mend, m.row \in lot[b],
         mend' = [mend EXCEPT ![b] = m], UNCHANGED <<item, lot>>
  PROVE  mend' \in [Aligner -> Mend] /\ AlignHeld'
<1>1. mend' \in [Aligner -> Mend]
  BY DEF ReviewTypeOK
<1>2. mend'[b] = m /\ \A c \in Aligner \ {b} : mend'[c] = mend[c]
  BY DEF ReviewTypeOK
<1> QED BY <1>1, <1>2 DEF AlignHeld

LEMMA MendGoesOn ==
  ASSUME ReviewInv, NEW b \in Aligner, NEW m \in Mend, m.row \in lot[b],
         mend' = [mend EXCEPT ![b] = m], breaks' \in 0..MaxBreaks,
         UNCHANGED <<reworkVars, item, lot, req>>,
         typed' \in [Row -> TypedRow] /\ Aligned' /\ RepairedIsAligned'
  PROVE  ReviewInv'
<1>1. mend' \in [Aligner -> Mend] /\ AlignHeld'
  BY HeldParts, MendMove DEF ReviewInv
<1>2. ReviewTypeOK'
  BY <1>1 DEF ReviewInv, ReviewTypeOK, reworkVars
<1>3. LockedIsReplay' /\ Requested'
  BY DEF ReviewInv, LockedIsReplay, Requested
<1> QED BY <1>1, <1>2, <1>3, AlignSide, HeldNext DEF ReviewInv

(* The typed rows are left alone, and the step is not to "repaired".        *)
LEMMA MendQuiet ==
  ASSUME ReviewInv, NEW b \in Aligner, NEW m \in Mend, m.pc # "repaired",
         mend' = [mend EXCEPT ![b] = m], UNCHANGED <<typed, item>>
  PROVE  typed' \in [Row -> TypedRow] /\ Aligned' /\ RepairedIsAligned'
<1>1. mend'[b] = m /\ \A c \in Aligner \ {b} : mend'[c] = mend[c]
  BY DEF ReviewInv, ReviewTypeOK
<1>2. Aligned'
  BY <1>1 DEF ReviewInv, Aligned
<1> QED BY <1>2 DEF ReviewInv, ReviewTypeOK, RepairedIsAligned

LEMMA ClaimReplaysInv ==
  ASSUME ReviewInv, NEW b \in Aligner, ClaimReplays(b) PROVE ReviewInv'
<1>1. PICK S \in SUBSET Replayable :
        /\ lot' = [lot EXCEPT ![b] = S]
        /\ item' = [r \in Row |-> IF r \in S THEN [item[r] EXCEPT !.locked = TRUE] ELSE item[r]]
  BY DEF ClaimReplays
<1>2. /\ ReviewTypeOK /\ AlignHeld /\ LockedIsReplay /\ lot[b] = {} /\ mend[b].pc = "idle"
      /\ UNCHANGED <<typed, reworkVars, mend, req, breaks>>
  BY HeldParts DEF ReviewInv, ClaimReplays
<1>3. S \subseteq Row /\ \A r \in S : item[r].decision = "replay" /\ ~item[r].locked
  BY DEF Replayable
<1>4. \A r \in S, c \in Aligner : r \notin lot[c]
  BY <1>2, <1>3 DEF AlignHeld
<1>5. ASSUME NEW r \in S
      PROVE  LET i == [item[r] EXCEPT !.locked = TRUE]
             IN  i \in Item /\ i.decision = "replay" /\ i.locked
  <2>1. item[r] \in Item /\ item[r].decision = "replay"
    BY <1>2, <1>3 DEF ReviewTypeOK
  <2> QED BY <2>1 DEF Item
<1>6. \A r \in Row \ S : item'[r] = item[r]
  BY <1>1
<1>7. \A r \in S : item'[r] \in Item /\ item'[r].decision = "replay" /\ item'[r].locked
  BY <1>1, <1>3, <1>5
<1>8. item' \in [Row -> Item] /\ lot' \in [Aligner -> SUBSET Row]
  <2>1. \A r \in Row : item'[r] \in Item
    BY <1>2, <1>6, <1>7 DEF ReviewTypeOK
  <2>2. item' = [r \in Row |-> item'[r]]
    BY <1>1
  <2>3. item' \in [Row -> Item]
    BY <2>1, <2>2
  <2> QED BY <1>1, <1>2, <1>3, <2>3 DEF ReviewTypeOK
<1>9. lot'[b] = S /\ \A c \in Aligner \ {b} : lot'[c] = lot[c]
  BY <1>1, <1>2 DEF ReviewTypeOK
<1>10. AlignHeld'
  <2>1. (\A c, d \in Aligner : c # d => lot[c] \cap lot[d] = {})'
    BY <1>2, <1>4, <1>9 DEF AlignHeld
  <2>2. (\A c \in Aligner, r \in Row :
          r \in lot[c] => item[r].decision = "replay" /\ item[r].locked)'
    BY <1>2, <1>6, <1>7, <1>9 DEF AlignHeld
  <2>3. (\A c \in Aligner : mend[c].pc # "idle" => mend[c].row \in lot[c])'
    BY <1>2, <1>9 DEF AlignHeld
  <2> QED BY <2>1, <2>2, <2>3 DEF AlignHeld
<1>11. LockedIsReplay'
  BY <1>2, <1>6, <1>7 DEF LockedIsReplay
<1>12. RepairedIsAligned' /\ Aligned' /\ Requested'
  <2>1. \A r \in Row : item'[r].decision = "repaired" => item[r].decision = "repaired"
    BY <1>6, <1>7
  <2> QED BY <1>2, <2>1 DEF ReviewInv, RepairedIsAligned, Aligned, Requested
<1>13. ReviewTypeOK'
  BY <1>2, <1>8 DEF ReviewTypeOK, reworkVars
<1> QED BY <1>2, <1>10, <1>11, <1>12, <1>13, AlignSide, HeldNext DEF ReviewInv

LEMMA NextReplayInv ==
  ASSUME ReviewInv, NEW b \in Aligner, NextReplay(b) PROVE ReviewInv'
<1>1. UNCHANGED <<typed, reworkVars, item, lot, req>> /\ breaks' \in 0..MaxBreaks
  BY DEF NextReplay, ReviewInv, ReviewTypeOK
<1>2. PICK r \in lot[b], p \in {"check", "quarantine"} :
        mend' = [mend EXCEPT ![b] = [pc |-> p, row |-> r]]
  BY DEF NextReplay
<1> DEFINE m == [pc |-> p, row |-> r]
<1>3. r \in Row
  BY DEF ReviewInv, ReviewTypeOK
<1>4. m \in Mend /\ m.row \in lot[b] /\ m.pc # "repaired" /\ mend' = [mend EXCEPT ![b] = m]
  BY <1>2, <1>3 DEF Mend
<1> HIDE DEF m
<1> QED BY <1>1, <1>4, MendQuiet, MendGoesOn

(* The process that is at work on a row.                                    *)
LEMMA AtWork ==
  ASSUME ReviewInv, NEW b \in Aligner, mend[b].pc # "idle"
  PROVE  /\ mend[b] \in Mend /\ mend[b].row \in lot[b] /\ mend[b].row \in Row
         /\ item[mend[b].row].decision = "replay" /\ item[mend[b].row].locked
BY DEF ReviewInv, ReviewTypeOK, HeldOnce

LEMMA MendValues ==
  ASSUME NEW m \in Mend
  PROVE  /\ NoMend \in Mend /\ NoMend.pc = "idle"
         /\ \A p \in {"check", "align", "repaired", "quarantine"} :
              /\ [m EXCEPT !.pc = p] \in Mend
              /\ [m EXCEPT !.pc = p].pc = p /\ [m EXCEPT !.pc = p].row = m.row
<1>1. NoMend \in Mend /\ NoMend.pc = "idle"
  BY DEF NoMend, Mend
<1>2. ASSUME NEW p \in {"check", "align", "repaired", "quarantine"}
      PROVE  /\ [m EXCEPT !.pc = p] \in Mend
             /\ [m EXCEPT !.pc = p].pc = p /\ [m EXCEPT !.pc = p].row = m.row
  BY DEF Mend
<1> QED BY <1>1, <1>2

LEMMA CheckTypedInv ==
  ASSUME ReviewInv, NEW b \in Aligner, CheckTyped(b) PROVE ReviewInv'
<1>1. UNCHANGED <<typed, reworkVars, item, lot, req>> /\ breaks' \in 0..MaxBreaks
  BY DEF CheckTyped, ReviewInv, ReviewTypeOK
<1>2. PICK p \in {"align", "quarantine"} : mend' = [mend EXCEPT ![b] = [mend[b] EXCEPT !.pc = p]]
  BY DEF CheckTyped
<1> DEFINE m == [mend[b] EXCEPT !.pc = p]
<1>3. m \in Mend /\ m.row \in lot[b] /\ m.pc # "repaired"
  <2>1. mend[b] \in Mend /\ mend[b].row \in lot[b]
    BY AtWork DEF CheckTyped
  <2>2. p \in {"check", "align", "repaired", "quarantine"} /\ p # "repaired"
    BY <1>2
  <2>3. m \in Mend /\ m.pc = p /\ m.row = mend[b].row
    BY <2>1, <2>2, MendValues
  <2> QED BY <2>1, <2>2, <2>3
<1>4. mend' = [mend EXCEPT ![b] = m]
  BY <1>2
<1> HIDE DEF m
<1> QED BY <1>1, <1>3, <1>4, MendQuiet, MendGoesOn

LEMMA AlignTenantInv ==
  ASSUME ReviewInv, NEW b \in Aligner, AlignTenant(b) PROVE ReviewInv'
<1>1. UNCHANGED <<reworkVars, item, lot, req>> /\ breaks' \in 0..MaxBreaks
  BY DEF AlignTenant, ReviewInv, ReviewTypeOK
<1>2. mend[b] \in Mend /\ mend[b].row \in lot[b] /\ mend[b].row \in Row
  BY AtWork DEF AlignTenant
<1>3. CASE ~typed[mend[b].row].present
  <2> DEFINE m == [mend[b] EXCEPT !.pc = "quarantine"]
  <2>1. m \in Mend /\ m.row \in lot[b] /\ m.pc # "repaired"
    BY <1>2, MendValues
  <2>2. mend' = [mend EXCEPT ![b] = m] /\ UNCHANGED typed
    BY <1>3 DEF AlignTenant
  <2> HIDE DEF m
  <2> QED BY <1>1, <2>1, <2>2, MendQuiet, MendGoesOn
<1>4. CASE typed[mend[b].row].present
  <2> DEFINE m == [mend[b] EXCEPT !.pc = "repaired"]
             x == [typed[mend[b].row] EXCEPT !.tenant = "raw"]
  <2>1. m \in Mend /\ m.row = mend[b].row /\ m.row \in lot[b]
    BY <1>2, MendValues
  <2>2. mend' = [mend EXCEPT ![b] = m] /\ typed' = [typed EXCEPT ![mend[b].row] = x]
    BY <1>4 DEF AlignTenant
  <2>3. x \in TypedRow /\ x.tenant = "raw"
    <3>1. typed[mend[b].row] \in TypedRow
      BY <1>2 DEF ReviewInv, ReviewTypeOK
    <3> QED BY <3>1 DEF TypedRow, Workspace
  <2> HIDE DEF m, x
  <2>4. typed' \in [Row -> TypedRow] /\ typed'[mend[b].row].tenant = "raw"
        /\ \A s \in Row \ {mend[b].row} : typed'[s] = typed[s]
    BY <1>2, <2>2, <2>3 DEF ReviewInv, ReviewTypeOK
  <2>5. mend'[b].row = mend[b].row /\ \A c \in Aligner \ {b} : mend'[c] = mend[c]
    BY <2>1, <2>2 DEF ReviewInv, ReviewTypeOK
  <2>6. Aligned'
    <3> SUFFICES ASSUME NEW c \in Aligner, mend'[c].pc = "repaired", typed'[mend'[c].row].present
                 PROVE  typed'[mend'[c].row].tenant = "raw"
      BY DEF Aligned
    <3>1. CASE mend'[c].row = mend[b].row
      BY <2>4, <3>1
    <3>2. CASE mend'[c].row # mend[b].row
      <4>1. c # b /\ mend'[c] = mend[c]
        BY <2>5, <3>2
      <4>2. mend[c].row \in Row
        BY <4>1, AtWork
      <4> QED BY <2>4, <3>2, <4>1, <4>2 DEF ReviewInv, Aligned
    <3> QED BY <3>1, <3>2
  <2>7. RepairedIsAligned'
    BY <1>1, <2>4 DEF ReviewInv, RepairedIsAligned
  <2> QED BY <1>1, <2>1, <2>2, <2>4, <2>6, <2>7, MendGoesOn
<1> QED BY <1>3, <1>4

(* A process lets go of the items L of its lot and rests; the items it      *)
(* keeps are as they were.                                                  *)
LEMMA LotShrinks ==
  ASSUME ReviewInv, NEW b \in Aligner, NEW L \in SUBSET lot[b],
         lot' = [lot EXCEPT ![b] = L], mend' = [mend EXCEPT ![b] = NoMend],
         item' \in [Row -> Item], \A r \in Row \ (lot[b] \ L) : item'[r] = item[r],
         LockedIsReplay', RepairedIsAligned',
         breaks' \in 0..MaxBreaks, UNCHANGED <<typed, reworkVars, req>>
  PROVE  ReviewInv'
<1>1. ReviewTypeOK /\ AlignHeld
  BY HeldParts DEF ReviewInv
<1>2. lot' \in [Aligner -> SUBSET Row] /\ mend' \in [Aligner -> Mend]
  BY <1>1, MendValues DEF ReviewTypeOK
<1>3. lot'[b] = L /\ mend'[b] = NoMend
      /\ \A c \in Aligner \ {b} : lot'[c] = lot[c] /\ mend'[c] = mend[c]
  BY <1>1 DEF ReviewTypeOK
<1>4. NoMend.pc = "idle"
  BY DEF NoMend
<1>5. (\A c, d \in Aligner : c # d => lot[c] \cap lot[d] = {})'
  BY <1>1, <1>3 DEF AlignHeld
<1>6. (\A c \in Aligner, r \in Row :
        r \in lot[c] => item[r].decision = "replay" /\ item[r].locked)'
  <2> SUFFICES ASSUME NEW c \in Aligner, NEW r \in Row, r \in lot'[c]
               PROVE  item'[r].decision = "replay" /\ item'[r].locked
    OBVIOUS
  <2>1. r \in lot[c] /\ r \notin lot[b] \ L
    BY <1>1, <1>3 DEF AlignHeld
  <2> QED BY <1>1, <2>1 DEF AlignHeld
<1>7. (\A c \in Aligner : mend[c].pc # "idle" => mend[c].row \in lot[c])'
  BY <1>1, <1>3, <1>4 DEF AlignHeld
<1>8. AlignHeld'
  BY <1>5, <1>6, <1>7 DEF AlignHeld
<1>9. Aligned' /\ Requested'
  BY <1>3, <1>4 DEF ReviewInv, Aligned, Requested
<1>10. ReviewTypeOK'
  BY <1>1, <1>2 DEF ReviewTypeOK, reworkVars
<1> QED BY <1>8, <1>9, <1>10, AlignSide, HeldNext DEF ReviewInv

LEMMA FinishReplayInv ==
  ASSUME ReviewInv, NEW b \in Aligner, FinishReplay(b) PROVE ReviewInv'
<1>1. PICK r \in Row : r = mend[b].row
  BY AtWork DEF FinishReplay
<1>2. /\ r \in lot[b] /\ item[r].decision = "replay" /\ item[r].locked
      /\ mend[b].pc \in {"repaired", "quarantine"}
  BY <1>1, AtWork DEF FinishReplay
<1>3. /\ lot' = [lot EXCEPT ![b] = lot[b] \ {r}] /\ mend' = [mend EXCEPT ![b] = NoMend]
      /\ UNCHANGED <<typed, reworkVars, req, breaks>>
  BY <1>1 DEF FinishReplay
<1> DEFINE i == [decision |-> mend[b].pc, locked |-> FALSE]
<1>4. item' = [item EXCEPT ![r] = i]
  BY <1>1, <1>2 DEF FinishReplay
<1>5. i \in Item /\ i.decision = mend[b].pc /\ i.locked = FALSE
  BY <1>2 DEF Item
<1> HIDE DEF i
<1>6. item' \in [Row -> Item] /\ item'[r] = i /\ \A s \in Row \ {r} : item'[s] = item[s]
  BY <1>4, <1>5 DEF ReviewInv, ReviewTypeOK
<1>7. LockedIsReplay'
  BY <1>5, <1>6 DEF ReviewInv, LockedIsReplay
<1>8. RepairedIsAligned'
  BY <1>1, <1>3, <1>5, <1>6 DEF ReviewInv, RepairedIsAligned, Aligned
<1>9. breaks' \in 0..MaxBreaks
  BY <1>3 DEF ReviewInv, ReviewTypeOK
<1> DEFINE L == lot[b] \ {r}
<1>10. L \in SUBSET lot[b] /\ lot' = [lot EXCEPT ![b] = L] /\ lot[b] \ L = {r}
  BY <1>2, <1>3
<1> HIDE DEF L
<1>11. \A s \in Row \ (lot[b] \ L) : item'[s] = item[s]
  BY <1>6, <1>10
<1> QED BY <1>3, <1>6, <1>7, <1>8, <1>9, <1>10, <1>11, LotShrinks

LEMMA LotDropped ==
  ASSUME ReviewInv, NEW b \in Aligner, lot' = [lot EXCEPT ![b] = {}],
         mend' = [mend EXCEPT ![b] = NoMend], breaks' \in 0..MaxBreaks,
         UNCHANGED <<typed, reworkVars, item, req>>
  PROVE  ReviewInv'
<1>1. LockedIsReplay' /\ RepairedIsAligned' /\ item' \in [Row -> Item]
  BY DEF ReviewInv, ReviewTypeOK, LockedIsReplay, RepairedIsAligned
<1>2. {} \in SUBSET lot[b] /\ \A s \in Row \ (lot[b] \ {}) : item'[s] = item[s]
  OBVIOUS
<1> QED BY <1>1, <1>2, LotShrinks

LEMMA BreakReplayInv ==
  ASSUME ReviewInv, NEW b \in Aligner, BreakReplay(b) PROVE ReviewInv'
<1>1. breaks' \in 0..MaxBreaks /\ UNCHANGED <<typed, reworkVars, item, req>> /\ mend[b].pc # "idle"
  BY BreakType DEF ReviewInv, BreakReplay
<1>2. CASE mend[b].pc = "quarantine"
  BY <1>1, <1>2, LotDropped DEF BreakReplay
<1>3. CASE mend[b].pc # "quarantine"
  <2> DEFINE m == [mend[b] EXCEPT !.pc = "quarantine"]
  <2>1. m \in Mend /\ m.row \in lot[b] /\ m.pc # "repaired"
    BY <1>1, AtWork, MendValues
  <2>2. mend' = [mend EXCEPT ![b] = m] /\ UNCHANGED lot
    BY <1>3 DEF BreakReplay
  <2> HIDE DEF m
  <2> QED BY <1>1, <2>1, <2>2, MendQuiet, MendGoesOn
<1> QED BY <1>2, <1>3

LEMMA CrashAlignerInv ==
  ASSUME ReviewInv, NEW b \in Aligner, CrashAligner(b) PROVE ReviewInv'
BY BreakType, LotDropped DEF ReviewInv, CrashAligner

-----------------------------------------------------------------------------
LEMMA ReviewInvInit == ReviewInit => ReviewInv
<1> SUFFICES ASSUME ReviewInit PROVE ReviewInv
  OBVIOUS
<1>1. \A r \in Row : typed[r] \in TypedRow
  <2> SUFFICES ASSUME NEW r \in Row PROVE typed[r] \in TypedRow
    OBVIOUS
  <2>1. typed[r] \in [present : {TRUE}, tenant : {"raw", "other", "none"},
                      review : BOOLEAN, flags : {{}, {"own"}}]
    BY ReviewAssumption DEF ReviewInit
  <2> QED BY <2>1 DEF TypedRow, Workspace, Flag
<1>2. typed \in [Row -> TypedRow] /\ seeded \in [Row -> Workspace]
  BY <1>1 DEF ReviewInit, TypedRow
<1>3. NoTask \in Task /\ NoTask.pc = "none" /\ NoMend \in Mend /\ NoMend.pc = "idle"
  BY DEF NoTask, Task, Verdict, NoMend, Mend
<1>4. \A r \in Row : /\ item[r] \in Item /\ item[r].decision \in {"none", "pending"}
                     /\ item[r].locked = FALSE
  BY DEF ReviewInit, Item
<1>5. item \in [Row -> Item]
  BY <1>4 DEF ReviewInit
<1>6. ReviewTypeOK
  BY <1>2, <1>3, <1>5, ReqValues, ReviewAssumption DEF ReviewInit, ReviewTypeOK, Verdict
<1>7. HeldOnce
  BY <1>3 DEF ReviewInit, HeldOnce
<1>8. LockedIsReplay /\ RepairedIsAligned
  BY <1>4 DEF LockedIsReplay, RepairedIsAligned
<1>9. Aligned /\ Requested
  BY <1>3, ReqValues DEF ReviewInit, Aligned, Requested
<1> QED BY <1>6, <1>7, <1>8, <1>9 DEF ReviewInv

LEMMA ReviewInvNext == ReviewInv /\ [ReviewNext]_reviewVars => ReviewInv'
<1> SUFFICES ASSUME ReviewInv, [ReviewNext]_reviewVars PROVE ReviewInv'
  OBVIOUS
<1>1. CASE UNCHANGED reviewVars
  BY <1>1 DEF reviewVars, ReviewInv, ReviewTypeOK, HeldOnce, LockedIsReplay, Aligned,
              RepairedIsAligned, Requested
<1>2. ASSUME NEW w \in Reworker, ClaimBatch(w) \/ CrashReworker(w) PROVE ReviewInv'
  BY <1>2, ClaimBatchInv, CrashReworkerInv
<1>3. ASSUME NEW r \in Row, JobStep(r) \/ BreakJob(r) PROVE ReviewInv'
  BY <1>3, StartJobInv, ReextractInv, ReadBackInv, ReleaseQuarantineInv, FinishJobInv,
     BreakJobInv DEF JobStep
<1>4. ASSUME NEW a \in Admin, NEW r \in Row, NEW d \in {"replay", "quarantine", "rejected"},
             OpenDecision(a, r, d)
      PROVE  ReviewInv'
  BY <1>4, OpenDecisionInv
<1>5. ASSUME NEW a \in Admin, RequestStep(a) \/ BreakDecision(a) PROVE ReviewInv'
  BY <1>5, ReadFlagsInv, MarkBoundaryInv, RecordDecisionInv, BreakDecisionInv DEF RequestStep
<1>6. ASSUME NEW b \in Aligner, AlignStep(b) \/ BreakReplay(b) \/ CrashAligner(b)
      PROVE  ReviewInv'
  BY <1>6, ClaimReplaysInv, NextReplayInv, CheckTypedInv, AlignTenantInv, FinishReplayInv,
     BreakReplayInv, CrashAlignerInv DEF AlignStep
<1> QED BY <1>1, <1>2, <1>3, <1>4, <1>5, <1>6 DEF ReviewNext, ReviewSettled

LEMMA ReviewInvariant == ReviewSpec => []ReviewInv
<1> QED BY ReviewInvInit, ReviewInvNext, PTL DEF ReviewSpec

(* Both queues' rows, tasks, locks and requests keep their shape whatever   *)
(* the two workers, the admins and the faults do.                           *)
THEOREM ReviewTypeCorrect == ReviewSpec => []ReviewTypeOK
<1>1. ReviewInv => ReviewTypeOK
  BY DEF ReviewInv
<1> QED BY <1>1, ReviewInvariant, PTL

(* extraction_reprocessing_worker and tenant_boundary_repair_worker: no job *)
(* and no item is ever in two processes' hands.                             *)
THEOREM HoldersExclusive == ReviewSpec => []HeldOnce
<1>1. ReviewInv => HeldOnce
  BY DEF ReviewInv
<1> QED BY <1>1, ReviewInvariant, PTL

(* tenant_boundary_repair_worker: "repaired" is true of the row, also when  *)
(* reprocessing rewrites or removes it at the same time.                    *)
THEOREM RepairsHold == ReviewSpec => []RepairedIsAligned
<1>1. ReviewInv => RepairedIsAligned
  BY DEF ReviewInv
<1> QED BY <1>1, ReviewInvariant, PTL

-----------------------------------------------------------------------------
(* Refinement: the reprocessing queue *)

LEMMA JobStates ==
  /\ JobState("none") = "new" /\ JobState("queued") = "open" /\ JobState("running") = "taken"
  /\ \A v \in Verdict : JobState(v) = "closed"
BY DEF JobState, Verdict

LEMMA ReworkInitRefines == ReviewInit => Rework!QueueInit
<1> SUFFICES ASSUME ReviewInit PROVE Rework!QueueInit
  OBVIOUS
<1>1. \A r \in Row : JobState(job[r]) \in {"new", "open"}
  BY JobStates DEF ReviewInit
<1>2. \A r \in Row : {w \in Reworker : r \in batch[w]} = {}
  BY DEF ReviewInit
<1> QED BY <1>1, <1>2 DEF Rework!QueueInit

LEMMA ReworkStepRefines ==
  ASSUME ReviewInv, [ReviewNext]_reviewVars PROVE [Rework!QueueNext]_(Rework!queueVars)
<1> DEFINE st == [r \in Row |-> JobState(job[r])]
           hs == [r \in Row |-> {w \in Reworker : r \in batch[w]}]
<1>1. CASE UNCHANGED <<job, batch>>
  BY <1>1 DEF Rework!queueVars
<1>2. ReviewTypeOK /\ ReworkHeld
  BY HeldParts DEF ReviewInv
<1>3. ASSUME NEW w \in Reworker, ClaimBatch(w) PROVE Rework!QueueNext
  <2>1. PICK S \in SUBSET Queued :
          /\ batch' = [batch EXCEPT ![w] = S]
          /\ job' = [r \in Row |-> IF r \in S THEN "running" ELSE job[r]]
    BY <1>3 DEF ClaimBatch
  <2>2. S \in SUBSET Row /\ batch[w] = {}
    BY <1>3 DEF Queued, ClaimBatch
  <2>3. \A r \in S : st[r] = "open" /\ hs[r] = {}
    BY <1>2, <2>1, <2>2, JobStates DEF Queued, ReworkHeld
  <2>4. st' = [r \in Row |-> IF r \in S THEN "taken" ELSE st[r]]
    BY <2>1, JobStates
  <2>5. hs' = [r \in Row |-> IF r \in S THEN {w} ELSE hs[r]]
    <3>1. batch'[w] = S /\ \A v \in Reworker \ {w} : batch'[v] = batch[v]
      BY <1>2, <2>1 DEF ReviewTypeOK
    <3>2. ASSUME NEW r \in Row
          PROVE  {v \in Reworker : r \in batch'[v]} = IF r \in S THEN {w} ELSE hs[r]
      <4>1. CASE r \in S
        <5>1. \A v \in Reworker : r \notin batch[v]
          BY <2>3, <4>1
        <5> QED BY <3>1, <4>1, <5>1
      <4>2. CASE r \notin S
        BY <2>2, <3>1, <4>2
      <4> QED BY <4>1, <4>2
    <3> QED BY <3>2
  <2>6. Rework!Take(S, w)
    BY <2>3, <2>4, <2>5 DEF Rework!Take
  <2> QED BY <2>2, <2>6 DEF Rework!QueueNext
<1>4. ASSUME NEW S \in SUBSET Row, UNCHANGED job,
             \A r \in Row : {w \in Reworker : r \in batch'[w]} = IF r \in S THEN {} ELSE hs[r]
      PROVE  Rework!QueueNext
  <2>1. Rework!LetGo(S)
    BY <1>4 DEF Rework!LetGo
  <2> QED BY <2>1 DEF Rework!QueueNext
<1>5. ASSUME NEW r \in Row, task[r].pc # "none", Drop(r)
      PROVE  /\ \A s \in Row : {w \in Reworker : s \in batch'[w]} =
                                  IF s \in {r} THEN {} ELSE hs[s]
             /\ job[r] = "running" /\ \E w \in Reworker : hs[r] = {w}
  <2>1. \A w \in Reworker : batch'[w] = batch[w] \ {r}
    BY <1>2, <1>5 DEF Drop, ReviewTypeOK
  <2>2. PICK w \in Reworker : r \in batch[w]
    BY <1>2, <1>5 DEF ReworkHeld
  <2>3. \A v \in Reworker : r \in batch[v] => v = w
    BY <1>2, <2>2 DEF ReworkHeld
  <2>4. hs[r] = {w} /\ job[r] = "running"
    BY <1>2, <2>2, <2>3 DEF ReworkHeld
  <2> QED BY <2>1, <2>4
<1>6. ASSUME NEW r \in Row, FinishJob(r) PROVE Rework!QueueNext
  <2>1. task[r].pc # "none" /\ Drop(r) /\ task[r].verdict \in Verdict
    BY <1>2, <1>6 DEF FinishJob, ReviewTypeOK, Task
  <2>2. PICK v \in Verdict : job' = [job EXCEPT ![r] = v]
    BY <1>6, <2>1 DEF FinishJob, Verdict
  <2>3. PICK w \in Reworker : hs[r] = {w}
    BY <1>5, <2>1
  <2>4. st[r] = "taken"
    BY <1>5, <2>1, JobStates
  <2>5. st' = [st EXCEPT ![r] = "closed"]
    <3>1. \A s \in Row : job'[s] = IF s = r THEN v ELSE job[s]
      BY <1>2, <2>2 DEF ReviewTypeOK
    <3>2. \A s \in Row : JobState(job'[s]) = IF s = r THEN "closed" ELSE JobState(job[s])
      BY <2>2, <3>1, JobStates
    <3> QED BY <3>2
  <2>6. hs' = [hs EXCEPT ![r] = {}]
    BY <1>5, <2>1
  <2>7. Rework!Close(r, w)
    BY <2>3, <2>4, <2>5, <2>6 DEF Rework!Close
  <2> QED BY <2>3, <2>7 DEF Rework!QueueNext
<1>7. ASSUME NEW r \in Row, BreakJob(r) PROVE [Rework!QueueNext]_(Rework!queueVars)
  <2>1. UNCHANGED job /\ task[r].pc # "none" /\ (Drop(r) \/ UNCHANGED batch)
    BY <1>7 DEF BreakJob
  <2>2. CASE Drop(r)
    <3>1. \A s \in Row : {w \in Reworker : s \in batch'[w]} = IF s \in {r} THEN {} ELSE hs[s]
      BY <1>5, <2>1, <2>2
    <3> QED BY <1>4, <2>1, <3>1
  <2> QED BY <1>1, <2>1, <2>2
<1>8. ASSUME NEW w \in Reworker, CrashReworker(w) PROVE Rework!QueueNext
  <2>1. batch[w] \in SUBSET Row /\ UNCHANGED job
        /\ batch'[w] = {} /\ \A v \in Reworker \ {w} : batch'[v] = batch[v]
    BY <1>2, <1>8 DEF CrashReworker, ReviewTypeOK
  <2>2. \A s \in Row : {v \in Reworker : s \in batch'[v]} = IF s \in batch[w] THEN {} ELSE hs[s]
    BY <1>2, <2>1 DEF ReworkHeld
  <2> QED BY <1>4, <2>1, <2>2
<1>9. ASSUME NEW r \in Row, JobStep(r) PROVE FinishJob(r) \/ UNCHANGED <<job, batch>>
  BY <1>9 DEF JobStep, StartJob, Reextract, ReadBack, ReleaseQuarantine
<1>10. ASSUME NEW a \in Admin, RequestStep(a) \/ BreakDecision(a)
                                \/ \E r \in Row, d \in {"replay", "quarantine", "rejected"} :
                                      OpenDecision(a, r, d)
       PROVE  UNCHANGED <<job, batch>>
  BY <1>10 DEF RequestStep, ReadFlags, MarkBoundary, RecordDecision, BreakDecision,
               OpenDecision, reworkVars
<1>11. ASSUME NEW b \in Aligner, AlignStep(b) \/ BreakReplay(b) \/ CrashAligner(b)
       PROVE  UNCHANGED <<job, batch>>
  BY <1>11 DEF AlignStep, ClaimReplays, NextReplay, CheckTyped, AlignTenant, FinishReplay,
               BreakReplay, CrashAligner, reworkVars
<1>12. CASE UNCHANGED reviewVars
  BY <1>1, <1>12 DEF reviewVars
<1> HIDE DEF st, hs
<1> QED BY <1>1, <1>3, <1>6, <1>7, <1>8, <1>9, <1>10, <1>11, <1>12
        DEF ReviewNext, ReviewSettled

(* The reprocessing queue implements the abstract job queue: the claim RPC  *)
(* hands a job to one process, and only that one closes it.                 *)
THEOREM ReworkRefines == ReviewSpec => ReworkQueue
<1>1. ReviewInv /\ [ReviewNext]_reviewVars => [Rework!QueueNext]_(Rework!queueVars)
  BY ReworkStepRefines
<1> QED BY <1>1, ReworkInitRefines, ReviewInvariant, PTL
        DEF ReviewSpec, ReworkQueue, Rework!QueueSpec

-----------------------------------------------------------------------------
(* Refinement: the boundary queue *)

LEMMA ItemStates ==
  ASSUME NEW i \in Item
  PROVE  /\ i.decision \in {"none", "pending"} => ItemState(i) = "new"
         /\ (i.decision = "replay" /\ ~i.locked) => ItemState(i) = "open"
         /\ (i.decision = "replay" /\ i.locked) => ItemState(i) = "taken"
         /\ i.decision \in {"quarantine", "repaired", "rejected"} => ItemState(i) = "closed"
BY DEF ItemState, Item

LEMMA BoundaryInitRefines == ReviewInit => Boundary!QueueInit
<1> SUFFICES ASSUME ReviewInit PROVE Boundary!QueueInit
  OBVIOUS
<1>1. \A r \in Row : item[r] \in Item /\ item[r].decision \in {"none", "pending"}
  BY DEF ReviewInit, Item
<1>2. \A r \in Row : ItemState(item[r]) = "new"
  BY <1>1, ItemStates
<1>3. \A r \in Row : {b \in Aligner : r \in lot[b]} = {}
  BY DEF ReviewInit
<1> QED BY <1>2, <1>3 DEF Boundary!QueueInit

LEMMA BoundaryStepRefines ==
  ASSUME ReviewInv, [ReviewNext]_reviewVars PROVE [Boundary!QueueNext]_(Boundary!queueVars)
<1> DEFINE st == [r \in Row |-> ItemState(item[r])]
           hs == [r \in Row |-> {b \in Aligner : r \in lot[b]}]
<1>1. CASE UNCHANGED <<item, lot>>
  BY <1>1 DEF Boundary!queueVars
<1>2. ReviewTypeOK /\ AlignHeld /\ LockedIsReplay /\ \A r \in Row : item[r] \in Item
  BY HeldParts DEF ReviewInv, ReviewTypeOK
<1>3. ASSUME NEW a \in Admin, RecordDecision(a) PROVE [Boundary!QueueNext]_(Boundary!queueVars)
  <2>1. req[a] \in Req /\ req[a].row \in Row /\ UNCHANGED lot
    BY <1>3 DEF ReviewInv, ReviewTypeOK, RecordDecision, Requested
  <2>2. PICK r \in Row : r = req[a].row
    BY <2>1
  <2>3. item[r] \in Item /\ req[a].decision \in {"replay", "quarantine", "rejected"}
    BY <1>2, <2>1 DEF Req
  <2> DEFINE i == [item[r] EXCEPT !.decision = IF item[r].decision = "pending"
                                                 THEN req[a].decision ELSE item[r].decision]
  <2>4. item' = [item EXCEPT ![r] = i]
    BY <1>3, <2>2 DEF RecordDecision
  <2>5. CASE item[r].decision = "pending"
    <3>1. i \in Item /\ i.decision = req[a].decision /\ i.locked = item[r].locked
      BY <2>3, <2>5 DEF Item
    <3> HIDE DEF i
    <3>2. ~item[r].locked
      BY <1>2, <2>5 DEF LockedIsReplay
    <3>3. st[r] = "new" /\ ItemState(i) \in {"open", "closed"}
      BY <2>3, <2>5, <3>1, <3>2, ItemStates
    <3>4. \A s \in Row : item'[s] = IF s = r THEN i ELSE item[s]
      BY <1>2, <2>4 DEF ReviewTypeOK
    <3>5. st' = [st EXCEPT ![r] = ItemState(i)]
      BY <3>4
    <3>6. hs' = hs
      BY <2>1
    <3>7. Boundary!Decide(r)
      BY <3>3, <3>5, <3>6 DEF Boundary!Decide
    <3> QED BY <3>7 DEF Boundary!QueueNext
  <2>6. CASE item[r].decision # "pending"
    <3>1. i = item[r]
      BY <2>3, <2>6 DEF Item
    <3> HIDE DEF i
    <3>2. item' = item
      BY <1>2, <2>4, <3>1 DEF ReviewTypeOK
    <3> QED BY <1>1, <2>1, <3>2
  <2> QED BY <2>5, <2>6
<1>4. ASSUME NEW b \in Aligner, ClaimReplays(b) PROVE Boundary!QueueNext
  <2>1. PICK S \in SUBSET Replayable :
          /\ lot' = [lot EXCEPT ![b] = S]
          /\ item' = [r \in Row |-> IF r \in S THEN [item[r] EXCEPT !.locked = TRUE] ELSE item[r]]
    BY <1>4 DEF ClaimReplays
  <2>2. S \in SUBSET Row /\ lot[b] = {}
        /\ \A r \in S : item[r].decision = "replay" /\ ~item[r].locked
    BY <1>4 DEF Replayable, ClaimReplays
  <2>3. \A r \in S : st[r] = "open" /\ hs[r] = {}
    BY <1>2, <2>2, ItemStates DEF AlignHeld
  <2>4. ASSUME NEW r \in S PROVE ItemState([item[r] EXCEPT !.locked = TRUE]) = "taken"
    <3> DEFINE i == [item[r] EXCEPT !.locked = TRUE]
    <3>1. i \in Item /\ i.decision = "replay" /\ i.locked
      BY <1>2, <2>2 DEF Item
    <3> HIDE DEF i
    <3>2. ItemState(i) = "taken"
      BY <3>1, ItemStates
    <3> QED BY <3>2 DEF i
  <2>5. st' = [r \in Row |-> IF r \in S THEN "taken" ELSE st[r]]
    BY <2>1, <2>4
  <2>6. hs' = [r \in Row |-> IF r \in S THEN {b} ELSE hs[r]]
    <3>1. lot'[b] = S /\ \A c \in Aligner \ {b} : lot'[c] = lot[c]
      BY <1>2, <2>1 DEF ReviewTypeOK
    <3>2. ASSUME NEW r \in Row
          PROVE  {c \in Aligner : r \in lot'[c]} = IF r \in S THEN {b} ELSE hs[r]
      <4>1. CASE r \in S
        <5>1. \A c \in Aligner : r \notin lot[c]
          BY <2>3, <4>1
        <5> QED BY <3>1, <4>1, <5>1
      <4>2. CASE r \notin S
        BY <2>2, <3>1, <4>2
      <4> QED BY <4>1, <4>2
    <3> QED BY <3>2
  <2>7. Boundary!Take(S, b)
    BY <2>3, <2>5, <2>6 DEF Boundary!Take
  <2> QED BY <2>2, <2>7 DEF Boundary!QueueNext
<1>5. ASSUME NEW b \in Aligner, FinishReplay(b) PROVE Boundary!QueueNext
  <2>1. PICK r \in Row : r = mend[b].row
    BY <1>5, AtWork DEF FinishReplay
  <2>2. /\ r \in lot[b] /\ item[r].decision = "replay" /\ item[r].locked
        /\ mend[b].pc \in {"repaired", "quarantine"}
    BY <1>5, <2>1, AtWork DEF FinishReplay
  <2> DEFINE i == [decision |-> mend[b].pc, locked |-> FALSE]
  <2>3. item' = [item EXCEPT ![r] = i] /\ lot' = [lot EXCEPT ![b] = lot[b] \ {r}]
    BY <1>5, <2>1, <2>2 DEF FinishReplay
  <2>4. i \in Item /\ i.decision \in {"repaired", "quarantine"}
    BY <2>2 DEF Item
  <2> HIDE DEF i
  <2>5. st[r] = "taken" /\ ItemState(i) = "closed"
    BY <1>2, <2>2, <2>4, ItemStates
  <2>6. \A s \in Row : item'[s] = IF s = r THEN i ELSE item[s]
    BY <1>2, <2>3 DEF ReviewTypeOK
  <2>7. st' = [st EXCEPT ![r] = "closed"]
    <3>1. \A s \in Row : ItemState(item'[s]) = IF s = r THEN "closed" ELSE ItemState(item[s])
      BY <2>5, <2>6
    <3> QED BY <3>1
  <2>8. \A c \in Aligner : r \in lot[c] => c = b
    BY <1>2, <2>2 DEF AlignHeld
  <2>9. lot'[b] = lot[b] \ {r} /\ \A c \in Aligner \ {b} : lot'[c] = lot[c]
    BY <1>2, <2>3 DEF ReviewTypeOK
  <2>10. hs[r] = {b}
    BY <2>2, <2>8
  <2>11. hs' = [hs EXCEPT ![r] = {}]
    <3>1. \A s \in Row : {c \in Aligner : s \in lot'[c]} = IF s = r THEN {} ELSE hs[s]
      BY <2>8, <2>9
    <3> QED BY <3>1
  <2>12. Boundary!Close(r, b)
    BY <2>5, <2>7, <2>10, <2>11 DEF Boundary!Close
  <2> QED BY <2>12 DEF Boundary!QueueNext
<1>6. ASSUME NEW b \in Aligner, lot' = [lot EXCEPT ![b] = {}], UNCHANGED item
      PROVE  Boundary!QueueNext
  <2>1. lot[b] \in SUBSET Row /\ lot'[b] = {} /\ \A c \in Aligner \ {b} : lot'[c] = lot[c]
    BY <1>2, <1>6 DEF ReviewTypeOK
  <2>2. \A s \in Row : {c \in Aligner : s \in lot'[c]} = IF s \in lot[b] THEN {} ELSE hs[s]
    BY <1>2, <2>1 DEF AlignHeld
  <2>3. PICK S \in SUBSET Row : S = lot[b]
    BY <2>1
  <2>4. Boundary!LetGo(S)
    BY <1>6, <2>2, <2>3 DEF Boundary!LetGo
  <2> QED BY <2>4 DEF Boundary!QueueNext
<1>7. ASSUME NEW b \in Aligner, AlignStep(b) \/ BreakReplay(b) \/ CrashAligner(b)
      PROVE  [Boundary!QueueNext]_(Boundary!queueVars)
  <2>1. \/ ClaimReplays(b) \/ FinishReplay(b)
        \/ UNCHANGED <<item, lot>>
        \/ lot' = [lot EXCEPT ![b] = {}] /\ UNCHANGED item
    BY <1>7 DEF AlignStep, NextReplay, CheckTyped, AlignTenant, BreakReplay, CrashAligner
  <2> HIDE DEF st, hs
  <2> QED BY <1>1, <1>4, <1>5, <1>6, <2>1
<1>8. ASSUME NEW a \in Admin, RequestStep(a) \/ BreakDecision(a)
                               \/ \E r \in Row, d \in {"replay", "quarantine", "rejected"} :
                                     OpenDecision(a, r, d)
      PROVE  RecordDecision(a) \/ UNCHANGED <<item, lot>>
  BY <1>8 DEF RequestStep, ReadFlags, MarkBoundary, BreakDecision, OpenDecision
<1>9. ASSUME NEW r \in Row, JobStep(r) \/ BreakJob(r) PROVE UNCHANGED <<item, lot>>
  BY <1>9 DEF JobStep, StartJob, Reextract, ReadBack, ReleaseQuarantine, FinishJob, BreakJob,
              alignVars
<1>10. ASSUME NEW w \in Reworker, ClaimBatch(w) \/ CrashReworker(w) PROVE UNCHANGED <<item, lot>>
  BY <1>10 DEF ClaimBatch, CrashReworker, alignVars
<1>11. CASE UNCHANGED reviewVars
  BY <1>1, <1>11 DEF reviewVars
<1> HIDE DEF st, hs
<1> QED BY <1>1, <1>3, <1>7, <1>8, <1>9, <1>10, <1>11 DEF ReviewNext, ReviewSettled

(* The boundary queue implements the abstract job queue from the moment an  *)
(* admin decides: a decision is final, and locked_at hands an item to one   *)
(* process, which alone finishes it.                                        *)
THEOREM BoundaryRefines == ReviewSpec => BoundaryQueue
<1>1. ReviewInv /\ [ReviewNext]_reviewVars => [Boundary!QueueNext]_(Boundary!queueVars)
  BY BoundaryStepRefines
<1> QED BY <1>1, BoundaryInitRefines, ReviewInvariant, PTL
        DEF ReviewSpec, BoundaryQueue, Boundary!QueueSpec
=============================================================================
