----------------------------- MODULE ReviewQueues -----------------------------
(***************************************************************************)
(* Two queues over the same typed rows.                                    *)
(*                                                                         *)
(* The reprocessing queue holds the rows that were under review when it    *)
(* was seeded; extraction_reprocessing_worker claims a batch, extracts the *)
(* source again and, when the row comes back clean, takes its quarantine   *)
(* markers off.  The tenant boundary queue holds the rows whose workspace  *)
(* is not their raw message's; a super admin decides each one, and         *)
(* tenant_boundary_repair_worker realigns those decided "replay".          *)
(***************************************************************************)
EXTENDS Naturals, FiniteSets

CONSTANTS
  Row,          \* typed rows (each of its own raw message)
  Reworker,     \* processes of the reprocessing worker
  Aligner,      \* processes of the boundary repair worker
  Admin,        \* requests of super admins
  Concurrency,  \* EXTRACTION_REPROCESSING_CONCURRENCY
  DryRun,       \* EXTRACTION_REPROCESSING_DRY_RUN
  Seed,         \* what a row may be when the queues are seeded
  NoRow,
  MaxBreaks     \* bound on crashes and failing statements

ASSUME ReviewAssumption ==
  /\ Concurrency \in Nat \ {0}
  /\ DryRun \in BOOLEAN
  /\ \A r \in Row : Seed[r] \subseteq
       [present : {TRUE}, tenant : {"raw", "other", "none"},
        review : BOOLEAN, flags : {{}, {"own"}}]
  /\ NoRow \notin Row
  /\ MaxBreaks \in Nat

VARIABLES
  typed,     \* the typed rows
  seeded,    \* the tenant_id a row's job was seeded with
  job,       \* extraction_reprocessing_jobs.status, "none" without a job
  task,      \* what the process that claimed the job does with it
  batch,     \* the jobs a reprocessing process claimed in this run
  item,      \* tenant_boundary_review_queue: decision and locked_at
  lot,       \* the items a boundary process claimed in this run
  mend,      \* the item it works on
  req,       \* the decision requests of the admins
  breaks

typedVars == <<typed>>
reworkVars == <<seeded, job, task, batch>>
alignVars == <<item, lot, mend, req>>
reviewVars == <<typed, seeded, job, task, batch, item, lot, mend, req, breaks>>

(* "raw" is the workspace of the row's raw message; a typed row's tenant    *)
(* may be missing.                                                          *)
Workspace == {"raw", "other", "none"}

(* "own" stands for the markers of the backfill that the reprocessing       *)
(* worker may remove, "boundary" for tenant_boundary_mismatch.              *)
Flag == {"own", "boundary"}

Verdict == {"fixed", "still_unresolved", "no_source", "failed", "expired"}
NoTask == [pc |-> "none", verdict |-> "failed", flags |-> {}]
Claimed == [pc |-> "claimed", verdict |-> "failed", flags |-> {}]
NoMend == [pc |-> "idle", row |-> NoRow]
NoReq == [pc |-> "idle", row |-> NoRow, decision |-> "rejected", flags |-> {}]

TypedRow == [present : BOOLEAN, tenant : Workspace, review : BOOLEAN, flags : SUBSET Flag]
Task == [pc : {"none", "claimed", "extract", "readback", "release", "finish", "failing"},
         verdict : Verdict, flags : SUBSET Flag]
Item == [decision : {"none", "pending", "replay", "quarantine", "repaired", "rejected"},
         locked : BOOLEAN]
Mend == [pc : {"idle", "check", "align", "repaired", "quarantine"}, row : Row \cup {NoRow}]
Req == [pc : {"idle", "flags", "mark", "decide"}, row : Row \cup {NoRow},
        decision : {"replay", "quarantine", "rejected"}, flags : SUBSET Flag]

ReviewTypeOK ==
  /\ typed \in [Row -> TypedRow]
  /\ seeded \in [Row -> Workspace]
  /\ job \in [Row -> {"none", "queued", "running"} \cup Verdict]
  /\ task \in [Row -> Task]
  /\ batch \in [Reworker -> SUBSET Row]
  /\ item \in [Row -> Item]
  /\ lot \in [Aligner -> SUBSET Row]
  /\ mend \in [Aligner -> Mend]
  /\ req \in [Admin -> Req]
  /\ breaks \in 0..MaxBreaks

(* The migrations seed both queues from the rows as they are. *)
ReviewInit ==
  /\ typed \in [Row -> UNION {Seed[r] : r \in Row}]
  /\ \A r \in Row : typed[r] \in Seed[r]
  /\ seeded = [r \in Row |-> typed[r].tenant]
  /\ job = [r \in Row |-> IF typed[r].review THEN "queued" ELSE "none"]
  /\ task = [r \in Row |-> NoTask]
  /\ batch = [w \in Reworker |-> {}]
  /\ item = [r \in Row |-> [decision |-> IF typed[r].tenant = "raw"
                                           THEN "none" ELSE "pending",
                            locked |-> FALSE]]
  /\ lot = [b \in Aligner |-> {}]
  /\ mend = [b \in Aligner |-> NoMend]
  /\ req = [a \in Admin |-> NoReq]
  /\ breaks = 0

Break == breaks < MaxBreaks /\ breaks' = breaks + 1

-----------------------------------------------------------------------------
(* The reprocessing worker *)

Queued == {r \in Row : job[r] = "queued"}
Started == {r \in Row : task[r].pc \notin {"none", "claimed"}}

(* Mutant: the batch is read, and its status not moved.                     *)
MutClaimLeavesQueued(w) ==
  /\ batch[w] = {}
  /\ \E S \in (SUBSET Queued) \ {{}} :
       /\ batch' = [batch EXCEPT ![w] = S]
       /\ task' = [r \in Row |-> IF r \in S THEN Claimed
                                            ELSE task[r]]
  /\ UNCHANGED <<typed, seeded, job, alignVars, breaks>>

(* Mutant: running jobs are claimed as well, to recover those of the dead.  *)
MutClaimRunning(w) ==
  /\ batch[w] = {}
  /\ \E S \in (SUBSET {r \in Row : job[r] \in {"queued", "running"}}) \ {{}} :
       /\ batch' = [batch EXCEPT ![w] = S]
       /\ job' = [r \in Row |-> IF r \in S THEN "running" ELSE job[r]]
       /\ task' = [r \in Row |-> IF r \in S THEN Claimed
                                            ELSE task[r]]
  /\ UNCHANGED <<typed, seeded, alignVars, breaks>>

(* run_once: the claim RPC moves a batch from queued to running. *)
ClaimBatch(w) ==
  /\ batch[w] = {}
  /\ \E S \in (SUBSET Queued) \ {{}} :
       /\ batch' = [batch EXCEPT ![w] = S]
       /\ job' = [r \in Row |-> IF r \in S THEN "running" ELSE job[r]]
       /\ task' = [r \in Row |-> IF r \in S THEN Claimed
                                            ELSE task[r]]
  /\ UNCHANGED <<typed, seeded, alignVars, breaks>>

Become(r, pc) == task' = [task EXCEPT ![r].pc = pc]
Conclude(r, v) == task' = [task EXCEPT ![r] = [@ EXCEPT !.pc = "finish", !.verdict = v]]

(* process_job reads the raw message in the workspace the job was seeded    *)
(* with; one past the 24-hour window, one that cannot be found or has no    *)
(* usable text, and a dry run end here.                                     *)
StartJob(r) ==
  /\ task[r].pc = "claimed"
  /\ Cardinality({s \in Started : \E w \in Reworker : {r, s} \subseteq batch[w]}) < Concurrency
  /\ IF seeded[r] = "other"
       THEN Conclude(r, "no_source")
       ELSE \/ Conclude(r, "expired")
            \/ Conclude(r, "no_source")
            \/ IF DryRun THEN Conclude(r, "still_unresolved") ELSE Become(r, "extract")
  /\ UNCHANGED <<typed, seeded, job, batch, alignVars, breaks>>

(* process_raw_message writes the row again under its raw message's         *)
(* workspace, with the review state and flags of the fresh parse; or the    *)
(* new parse goes to another table and the row is deleted; or nothing is    *)
(* written.                                                                 *)
Reextract(r) ==
  /\ task[r].pc = "extract"
  /\ \/ /\ typed[r].present
        /\ \E again \in BOOLEAN, fl \in {{}, {"own"}} :
             typed' = [typed EXCEPT ![r] = [present |-> TRUE, tenant |-> "raw",
                                            review |-> again, flags |-> fl]]
     \/ typed' = [typed EXCEPT ![r].present = FALSE]
     \/ UNCHANGED typed
  /\ Become(r, "readback")
  /\ UNCHANGED <<seeded, job, batch, alignVars, breaks>>

(* Mutant: a row that did not come back clean is extracted once more.       *)
MutReadBackRetries(r) ==
  /\ task[r].pc = "readback"
  /\ IF typed[r].present /\ ~typed[r].review
       THEN task' = [task EXCEPT ![r] = [@ EXCEPT !.pc = "release", !.flags = typed[r].flags]]
       ELSE Become(r, "extract")
  /\ UNCHANGED <<typed, seeded, job, batch, alignVars, breaks>>

ReadBack(r) ==
  /\ task[r].pc = "readback"
  /\ IF typed[r].present /\ ~typed[r].review
       THEN task' = [task EXCEPT ![r] = [@ EXCEPT !.pc = "release", !.flags = typed[r].flags]]
       ELSE Conclude(r, "still_unresolved")
  /\ UNCHANGED <<typed, seeded, job, batch, alignVars, breaks>>

(* _release_quarantine writes back the flags it read, without the worker's  *)
(* own, and clears needs_review.                                            *)
ReleaseQuarantine(r) ==
  /\ task[r].pc = "release"
  /\ typed' = [typed EXCEPT ![r] = IF @.present
                 THEN [@ EXCEPT !.review = FALSE, !.flags = task[r].flags \ {"own"}]
                 ELSE @]
  /\ Conclude(r, "fixed")
  /\ UNCHANGED <<seeded, job, batch, alignVars, breaks>>

(* The process runs its threads to the end before it claims again. *)
Drop(r) == batch' = [w \in Reworker |-> batch[w] \ {r}]

(* Mutant: the step is written where the verdict belongs.                   *)
MutFinishWritesStep(r) ==
  /\ task[r].pc \in {"finish", "failing"}
  /\ job' = [job EXCEPT ![r] = task[r].pc]
  /\ task' = [task EXCEPT ![r] = NoTask]
  /\ Drop(r)
  /\ UNCHANGED <<typed, seeded, alignVars, breaks>>

(* _job_update *)
FinishJob(r) ==
  /\ task[r].pc \in {"finish", "failing"}
  /\ job' = [job EXCEPT ![r] = IF task[r].pc = "finish" THEN task[r].verdict ELSE "failed"]
  /\ task' = [task EXCEPT ![r] = NoTask]
  /\ Drop(r)
  /\ UNCHANGED <<typed, seeded, alignVars, breaks>>

(* An exception of process_job is written down as failed; an exception of   *)
(* that write ends the thread with the job still running.                   *)
BreakJob(r) ==
  /\ task[r].pc # "none"
  /\ Break
  /\ IF task[r].pc = "failing"
       THEN task' = [task EXCEPT ![r] = NoTask] /\ Drop(r)
       ELSE Become(r, "failing") /\ UNCHANGED batch
  /\ UNCHANGED <<typed, seeded, job, alignVars>>

CrashReworker(w) ==
  /\ batch[w] # {}
  /\ Break
  /\ task' = [r \in Row |-> IF r \in batch[w] THEN NoTask ELSE task[r]]
  /\ batch' = [batch EXCEPT ![w] = {}]
  /\ UNCHANGED <<typed, seeded, job, alignVars>>

JobStep(r) ==
  \/ StartJob(r) \/ Reextract(r) \/ ReadBack(r) \/ ReleaseQuarantine(r) \/ FinishJob(r)

-----------------------------------------------------------------------------
(* The boundary review: admins *)

Answer(a) == req' = [req EXCEPT ![a] = NoReq]

(* admin_decide_tenant_boundary_review: an item with a decision is refused. *)
OpenDecision(a, r, d) ==
  /\ req[a].pc = "idle"
  /\ item[r].decision = "pending"
  /\ req' = [req EXCEPT ![a] = [pc |-> IF d = "quarantine" THEN "flags" ELSE "decide",
                                row |-> r, decision |-> d, flags |-> {}]]
  /\ UNCHANGED <<typed, reworkVars, item, lot, mend, breaks>>

(* Quarantine: read the row's flags ... *)
ReadFlags(a) ==
  /\ req[a].pc = "flags"
  /\ IF typed[req[a].row].present
       THEN req' = [req EXCEPT ![a] = [@ EXCEPT !.pc = "mark", !.flags = typed[req[a].row].flags]]
       ELSE Answer(a)
  /\ UNCHANGED <<typed, reworkVars, item, lot, mend, breaks>>

(* ... and write them back with tenant_boundary_mismatch. *)
MarkBoundary(a) ==
  /\ req[a].pc = "mark"
  /\ typed' = [typed EXCEPT ![req[a].row] = IF @.present
                 THEN [@ EXCEPT !.review = TRUE, !.flags = req[a].flags \cup {"boundary"}]
                 ELSE @]
  /\ req' = [req EXCEPT ![a].pc = "decide"]
  /\ UNCHANGED <<reworkVars, item, lot, mend, breaks>>

(* Mutant: the update is not guarded by decision = 'pending'.                *)
MutDecideAlways(a) ==
  /\ req[a].pc = "decide"
  /\ item' = [item EXCEPT ![req[a].row].decision = req[a].decision]
  /\ Answer(a)
  /\ UNCHANGED <<typed, reworkVars, lot, mend, breaks>>

(* The guarded update; a request that comes second is answered 409.         *)
RecordDecision(a) ==
  /\ req[a].pc = "decide"
  /\ item' = [item EXCEPT ![req[a].row].decision =
                IF @ = "pending" THEN req[a].decision ELSE @]
  /\ Answer(a)
  /\ UNCHANGED <<typed, reworkVars, lot, mend, breaks>>

(* 503: what was written stays. *)
BreakDecision(a) ==
  /\ req[a].pc # "idle"
  /\ Break
  /\ Answer(a)
  /\ UNCHANGED <<typed, reworkVars, item, lot, mend>>

-----------------------------------------------------------------------------
(* The boundary review: repair worker *)

Replayable == {r \in Row : item[r].decision = "replay" /\ ~item[r].locked}

ClaimReplays(b) ==
  /\ lot[b] = {} /\ mend[b].pc = "idle"
  /\ \E S \in (SUBSET Replayable) \ {{}} :
       /\ lot' = [lot EXCEPT ![b] = S]
       /\ item' = [r \in Row |-> IF r \in S THEN [item[r] EXCEPT !.locked = TRUE]
                                            ELSE item[r]]
  /\ UNCHANGED <<typed, reworkVars, mend, req, breaks>>

(* The next item of the lot; the raw message's workspace is the one the     *)
(* queue recorded, or the item is quarantined.                              *)
NextReplay(b) ==
  /\ mend[b].pc = "idle"
  /\ \E r \in lot[b], pc \in {"check", "quarantine"} :
       mend' = [mend EXCEPT ![b] = [pc |-> pc, row |-> r]]
  /\ UNCHANGED <<typed, reworkVars, item, lot, req, breaks>>

(* Mutant: a row that is gone is passed over.                               *)
MutPassOverMissing(b) ==
  /\ mend[b].pc = "check"
  /\ typed[mend[b].row].present
  /\ mend' = [mend EXCEPT ![b].pc = "align"]
  /\ UNCHANGED <<typed, reworkVars, item, lot, req, breaks>>

(* The typed row is still there. *)
CheckTyped(b) ==
  /\ mend[b].pc = "check"
  /\ mend' = [mend EXCEPT ![b].pc = IF typed[mend[b].row].present THEN "align" ELSE "quarantine"]
  /\ UNCHANGED <<typed, reworkVars, item, lot, req, breaks>>

(* Mutant: tenant_id <> the raw message's, which no missing tenant meets.   *)
MutAlignComparesTenant(b) ==
  LET r == mend[b].row IN
  /\ mend[b].pc = "align"
  /\ mend' = [mend EXCEPT ![b].pc = "repaired"]
  /\ typed' = [typed EXCEPT ![r].tenant = IF @ = "none" THEN @ ELSE "raw"]
  /\ UNCHANGED <<reworkVars, item, lot, req, breaks>>

AlignTenant(b) ==
  LET r == mend[b].row IN
  /\ mend[b].pc = "align"
  /\ IF typed[r].present
       THEN /\ typed' = [typed EXCEPT ![r].tenant = "raw"]
            /\ mend' = [mend EXCEPT ![b].pc = "repaired"]
       ELSE /\ mend' = [mend EXCEPT ![b].pc = "quarantine"]
            /\ UNCHANGED typed
  /\ UNCHANGED <<reworkVars, item, lot, req, breaks>>

(* _finish, guarded by decision = 'replay', also takes the lock off. *)
FinishReplay(b) ==
  LET r == mend[b].row IN
  /\ mend[b].pc \in {"repaired", "quarantine"}
  /\ item' = [item EXCEPT ![r] = IF @.decision = "replay"
                THEN [decision |-> mend[b].pc, locked |-> FALSE] ELSE @]
  /\ lot' = [lot EXCEPT ![b] = @ \ {r}]
  /\ mend' = [mend EXCEPT ![b] = NoMend]
  /\ UNCHANGED <<typed, reworkVars, req, breaks>>

(* An exception is followed by _finish "quarantine"; one of that _finish    *)
(* ends the run, and nobody comes back for the rest of the lot.             *)
BreakReplay(b) ==
  /\ mend[b].pc # "idle"
  /\ Break
  /\ IF mend[b].pc = "quarantine"
       THEN mend' = [mend EXCEPT ![b] = NoMend] /\ lot' = [lot EXCEPT ![b] = {}]
       ELSE mend' = [mend EXCEPT ![b].pc = "quarantine"] /\ UNCHANGED lot
  /\ UNCHANGED <<typed, reworkVars, item, req>>

CrashAligner(b) ==
  /\ lot[b] # {}
  /\ Break
  /\ lot' = [lot EXCEPT ![b] = {}]
  /\ mend' = [mend EXCEPT ![b] = NoMend]
  /\ UNCHANGED <<typed, reworkVars, item, req>>

-----------------------------------------------------------------------------
RequestStep(a) ==
  ReadFlags(a) \/ MarkBoundary(a) \/ RecordDecision(a)

AlignStep(b) ==
  ClaimReplays(b) \/ NextReplay(b) \/ CheckTyped(b) \/ AlignTenant(b) \/ FinishReplay(b)

(* Nothing is queued or under way any more. *)
ReviewSettled ==
  /\ \A r \in Row : job[r] # "queued" /\ task[r].pc = "none" /\ item[r].decision # "pending"
  /\ UNCHANGED reviewVars

ReviewNext ==
  \/ \E w \in Reworker : ClaimBatch(w) \/ CrashReworker(w)
  \/ \E r \in Row : JobStep(r) \/ BreakJob(r)
  \/ \E a \in Admin :
       \/ \E r \in Row, d \in {"replay", "quarantine", "rejected"} : OpenDecision(a, r, d)
       \/ RequestStep(a) \/ BreakDecision(a)
  \/ \E b \in Aligner : AlignStep(b) \/ BreakReplay(b) \/ CrashAligner(b)
  \/ ReviewSettled

ReviewSpec == ReviewInit /\ [][ReviewNext]_reviewVars

(* Both workers poll for ever and finish what they started; a request that  *)
(* was accepted runs to its end.  Nobody has to decide an item.             *)
ReviewFairness ==
  /\ \A w \in Reworker : WF_reviewVars(ClaimBatch(w))
  /\ \A r \in Row : WF_reviewVars(JobStep(r))
  /\ \A a \in Admin : WF_reviewVars(RequestStep(a))
  /\ \A b \in Aligner : WF_reviewVars(AlignStep(b))

ReviewFairSpec == ReviewSpec /\ ReviewFairness

-----------------------------------------------------------------------------
(* Properties *)

JobState(s) == CASE s = "none" -> "new"
                 [] s = "queued" -> "open"
                 [] s = "running" -> "taken"
                 [] OTHER -> "closed"

ItemState(i) == CASE i.decision \in {"none", "pending"} -> "new"
                  [] i.decision = "replay" -> IF i.locked THEN "taken" ELSE "open"
                  [] OTHER -> "closed"

Rework == INSTANCE JobQueue WITH
  Job <- Row, Claimer <- Reworker,
  st <- [r \in Row |-> JobState(job[r])],
  holders <- [r \in Row |-> {w \in Reworker : r \in batch[w]}]

Boundary == INSTANCE JobQueue WITH
  Job <- Row, Claimer <- Aligner,
  st <- [r \in Row |-> ItemState(item[r])],
  holders <- [r \in Row |-> {b \in Aligner : r \in lot[b]}]

(* The reprocessing queue is a job queue: whatever the processes do and     *)
(* whenever they die, a job is handed out once and closed by its holder.    *)
ReworkQueue == Rework!QueueSpec

(* So is the boundary queue, seen from the moment an admin's decision makes *)
(* an item a job; a decision, the admins' or the worker's, is final.        *)
BoundaryQueue == Boundary!QueueSpec

(* Who works on what: a job under way is held by one process and running in *)
(* the table; an item under way is locked and still to be replayed.         *)
HeldOnce ==
  /\ \A r \in Row : task[r].pc # "none" <=> \E w \in Reworker : r \in batch[w]
  /\ \A v, w \in Reworker : v # w => batch[v] \cap batch[w] = {}
  /\ \A w \in Reworker, r \in Row : r \in batch[w] => job[r] = "running"
  /\ \A b, c \in Aligner : b # c => lot[b] \cap lot[c] = {}
  /\ \A b \in Aligner, r \in Row :
       r \in lot[b] => item[r].decision = "replay" /\ item[r].locked
  /\ \A b \in Aligner : mend[b].pc # "idle" => mend[b].row \in lot[b]

(* An item counts as repaired only if the typed row, when it still exists,  *)
(* is in its raw message's workspace, whatever reprocessing did meanwhile.  *)
RepairedIsAligned ==
  \A r \in Row : (item[r].decision = "repaired" /\ typed[r].present) =>
                   typed[r].tenant = "raw"

(* A queued job is closed in the end, or was abandoned by its process       *)
(* (death, or the failed update of a failure): it does not hang otherwise.  *)
JobsEndOrAreAbandoned ==
  \A r \in Row : job[r] = "queued" ~>
    (job[r] \in Verdict \/ (job[r] = "running" /\ task[r].pc = "none"))

(* The same of an item decided "replay".                                    *)
ReplaysEndOrAreAbandoned ==
  \A r \in Row : item[r].decision = "replay" ~>
    (item[r].decision \in {"repaired", "quarantine"}
       \/ (item[r].locked /\ \A b \in Aligner : r \notin lot[b]))
=============================================================================
