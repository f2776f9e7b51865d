--------------------------- MODULE JobTablesProofs ---------------------------
(***************************************************************************)
(* The three job tables with their workers, each on its own: BuildingJobs  *)
(* for one enrichment worker (its types for any number), RepairQueue for   *)
(* any broadcasts, pieces and repair processes, and SemanticIndex for any  *)
(* number of rows and worker processes.                                    *)
(***************************************************************************)
EXTENDS BuildingJobs, RepairQueue, SemanticIndex, FiniteSetTheorems, TLAPS

(* Building enrichment. *)

(* A job that waits has an attempt left, also as a claim has read it, and   *)
(* what is about to be stored for it is no error.                           *)
InHand ==
  /\ \A j \in BJob : jobs[j].status = "pending" => jobs[j].tries < MaxRetries
  /\ \A w \in Enricher, j \in BJob : run[w][j].pc = "read" => run[w][j].tries < MaxRetries
  /\ \A w \in Enricher, j \in BJob : run[w][j].pc = "keep" => run[w][j].got # "error"

JobsInv == BuildingTypeOK /\ InHand

(* What the thread of a worker without a rival knows of its job: it is not  *)
(* completed, past the name check the name is good, and at its end the      *)
(* building or a suggestion is written.                                     *)
WorkKnown ==
  \A w \in Enricher, j \in BJob :
    /\ run[w][j].pc # "out" => jobs[j].status # "completed"
    /\ run[w][j].pc \in {"call", "keep", "apply", "mark", "suggest", "close"} => j \notin bad
    /\ run[w][j].pc = "close" => site[j] = "enriched" \/ j \in noted

DoneInv == WorkKnown /\ PaidOnce /\ CompletedMeansDone

NoRival == \A u, v \in Enricher : u = v

USE BuildingAssumption

LEMMA BuildingInitInv == BuildingInit => JobsInv /\ DoneInv
BY DEF BuildingInit, JobsInv, BuildingTypeOK, InHand, DoneInv, WorkKnown,
       PaidOnce, CompletedMeansDone, Idle, Status, Answer, Job, Thread

(* A step of one thread moves it to pc and leaves the others where they     *)
(* are; a write to one job gives it a status and its attempts.              *)
Moved(w, j, pc) ==
  /\ run' \in [Enricher -> [BJob -> Thread]]
  /\ run'[w][j].pc = pc
  /\ \A u \in Enricher, k \in BJob : (u = w /\ k = j) \/ run'[u][k] = run[u][k]

Becomes(j, status, tries) ==
  /\ jobs' \in [BJob -> Job]
  /\ jobs'[j].status = status /\ jobs'[j].tries = tries
  /\ \A k \in BJob : k = j \/ jobs'[k] = jobs[k]

LEMMA ThreadPut ==
  ASSUME NEW r \in [Enricher -> [BJob -> Thread]],
         NEW w \in Enricher, NEW j \in BJob, NEW v \in Thread,
         NEW q, q = [r EXCEPT ![w][j] = v]
  PROVE /\ q \in [Enricher -> [BJob -> Thread]]
        /\ q[w][j] = v
        /\ \A u \in Enricher, k \in BJob : (u = w /\ k = j) \/ q[u][k] = r[u][k]
OBVIOUS

LEMMA StepMoves ==
  ASSUME BuildingTypeOK, NEW w \in Enricher, NEW j \in BJob,
         NEW pc \in {"check", "look", "unresolved", "apply", "suggest", "mark", "close", "fail"},
         Step(w, j, pc)
  PROVE Moved(w, j, pc)
<1> DEFINE v == [run[w][j] EXCEPT !.pc = pc]
<1>1. run \in [Enricher -> [BJob -> Thread]]
  BY DEF BuildingTypeOK
<1>2. v \in Thread /\ v.pc = pc
  BY <1>1 DEF Thread
<1>3. run' = [run EXCEPT ![w][j] = v]
  BY <1>1 DEF Step
<1> HIDE DEF v
<1> QED BY <1>1, <1>2, <1>3, ThreadPut DEF Moved

LEMMA DropMoves ==
  ASSUME BuildingTypeOK, NEW w \in Enricher, NEW j \in BJob, Drop(w, j)
  PROVE Moved(w, j, "out")
<1>1. Idle \in Thread /\ Idle.pc = "out"
  BY DEF Idle, Thread, Answer
<1>2. run \in [Enricher -> [BJob -> Thread]]
  BY DEF BuildingTypeOK
<1>3. run' = [run EXCEPT ![w][j] = Idle]
  BY DEF Drop
<1> QED BY <1>1, <1>2, <1>3, ThreadPut DEF Moved

LEMMA SetStatusBecomes ==
  ASSUME BuildingTypeOK, NEW j \in BJob, NEW s \in Status, SetStatus(j, s)
  PROVE Becomes(j, s, jobs[j].tries)
<1>1. jobs \in [BJob -> Job] /\ jobs[j] \in Job
  BY DEF BuildingTypeOK
<1>2. jobs' = [jobs EXCEPT ![j].status = s]
  BY DEF SetStatus
<1> QED BY <1>1, <1>2 DEF Becomes, Job

LEMMA RetriedBecomes ==
  ASSUME BuildingTypeOK, NEW j \in BJob, jobs' = [jobs EXCEPT ![j] = Retried(j)]
  PROVE /\ Becomes(j, Retried(j).status, jobs[j].tries)
        /\ Retried(j).status = "pending" => jobs[j].tries < MaxRetries
        /\ Retried(j).status \in {"pending", "failed"}
<1>1. jobs \in [BJob -> Job] /\ jobs[j] \in Job
  BY DEF BuildingTypeOK
<1>2. /\ Retried(j) \in Job /\ Retried(j).tries = jobs[j].tries
      /\ Retried(j).status = "pending" => jobs[j].tries < MaxRetries
      /\ Retried(j).status \in {"pending", "failed"}
  BY <1>1 DEF Retried, Job, Status
<1> QED BY <1>1, <1>2 DEF Becomes

LEMMA EnqueueInv ==
  ASSUME JobsInv, NEW j \in BJob, NEW b \in BOOLEAN, Enqueue(j, b)
  PROVE JobsInv' /\ (NoRival /\ DoneInv => DoneInv')
<1>0. \E s \in {"needs_review", "pending"} : Becomes(j, s, 0)
  BY DEF JobsInv, BuildingTypeOK, Enqueue, Becomes, Job, Status
<1>1. BuildingTypeOK'
  BY <1>0 DEF JobsInv, BuildingTypeOK, Enqueue, Becomes
<1>2. InHand'
  BY <1>0 DEF JobsInv, InHand, Enqueue, Becomes
<1>3. ASSUME NoRival, DoneInv PROVE DoneInv'
  <2>1. WorkKnown'
    BY <1>0, <1>3 DEF DoneInv, WorkKnown, NoRival, Enqueue, Becomes
  <2>2. PaidOnce'
    BY <1>0, <1>3 DEF DoneInv, PaidOnce, NoRival, Enqueue, Becomes
  <2>3. CompletedMeansDone'
    BY <1>0, <1>3 DEF DoneInv, CompletedMeansDone, WorkKnown, NoRival, Enqueue, Becomes
  <2> QED BY <2>1, <2>2, <2>3 DEF DoneInv
<1> QED BY <1>1, <1>2, <1>3 DEF JobsInv

LEMMA OpenReviewInv ==
  ASSUME JobsInv, NEW o \in Operator, NEW j \in BJob, OpenReview(o, j)
  PROVE JobsInv' /\ (NoRival /\ DoneInv => DoneInv')
<1>1. BuildingTypeOK'
  BY DEF JobsInv, BuildingTypeOK, OpenReview
<1>2. InHand'
  BY DEF JobsInv, InHand, OpenReview
<1>3. ASSUME NoRival, DoneInv PROVE DoneInv'
  <2>1. WorkKnown'
    BY <1>3 DEF DoneInv, WorkKnown, NoRival, OpenReview
  <2>2. PaidOnce'
    BY <1>3 DEF DoneInv, PaidOnce, NoRival, OpenReview
  <2>3. CompletedMeansDone'
    BY <1>3 DEF DoneInv, CompletedMeansDone, WorkKnown, NoRival, OpenReview
  <2> QED BY <2>1, <2>2, <2>3 DEF DoneInv
<1> QED BY <1>1, <1>2, <1>3 DEF JobsInv

LEMMA ReviewRejectInv ==
  ASSUME JobsInv, NEW o \in Operator, ReviewReject(o)
  PROVE JobsInv' /\ (NoRival /\ DoneInv => DoneInv')
<1>0. review[o] \in BJob /\ Becomes(review[o], "rejected", jobs[review[o]].tries)
  BY SetStatusBecomes DEF JobsInv, BuildingTypeOK, ReviewReject, Status
<1>1. BuildingTypeOK'
  BY <1>0 DEF JobsInv, BuildingTypeOK, ReviewReject, Becomes
<1>2. InHand'
  BY <1>0 DEF JobsInv, InHand, ReviewReject, Becomes
<1>3. ASSUME NoRival, DoneInv PROVE DoneInv'
  <2>1. WorkKnown'
    BY <1>0, <1>3 DEF DoneInv, WorkKnown, NoRival, ReviewReject, Becomes
  <2>2. PaidOnce'
    BY <1>0, <1>3 DEF DoneInv, PaidOnce, NoRival, ReviewReject, Becomes
  <2>3. CompletedMeansDone'
    BY <1>0, <1>3 DEF DoneInv, CompletedMeansDone, WorkKnown, NoRival, ReviewReject, Becomes
  <2> QED BY <2>1, <2>2, <2>3 DEF DoneInv
<1> QED BY <1>1, <1>2, <1>3 DEF JobsInv

LEMMA ForgetKeepsPc ==
  ASSUME BuildingTypeOK, NEW j \in BJob, Forget(j)
  PROVE /\ run' \in [Enricher -> [BJob -> Thread]]
        /\ \A u \in Enricher, k \in BJob :
           /\ run'[u][k].pc = run[u][k].pc
           /\ run'[u][k].tries = run[u][k].tries
           /\ run'[u][k].got = run[u][k].got
           /\ run'[u][k].got = run[u][k].got
<1>1. run \in [Enricher -> [BJob -> Thread]]
  BY DEF BuildingTypeOK
<1>2. run' = [w \in Enricher |-> [run[w] EXCEPT ![j].fresh = (@ /\ run[w][j].pc = "out")]]
  BY DEF Forget
<1>3. ASSUME NEW u \in Enricher, NEW k \in BJob
      PROVE /\ run'[u][k] \in Thread /\ run'[u][k].pc = run[u][k].pc
            /\ run'[u][k].tries = run[u][k].tries /\ run'[u][k].got = run[u][k].got
  <2>1. run[u] \in [BJob -> Thread] /\ run[u][k] \in Thread /\ run[u][j] \in Thread
    BY <1>1
  <2>2. run'[u] = [run[u] EXCEPT ![j] = [run[u][j] EXCEPT !.fresh = (@ /\ run[u][j].pc = "out")]]
    BY <1>2, <2>1
  <2>3. CASE k = j
    <3>1. run'[u][k] = [run[u][j] EXCEPT !.fresh = (@ /\ run[u][j].pc = "out")]
      BY <2>1, <2>2, <2>3
    <3> QED BY <2>1, <2>3, <3>1 DEF Thread
  <2>4. CASE k # j
    BY <2>1, <2>2, <2>4
  <2> QED BY <2>3, <2>4
<1>4. run' \in [Enricher -> [BJob -> Thread]]
  <2>1. \A u \in Enricher : run'[u] \in [BJob -> Thread]
    BY <1>1, <1>2, <1>3
  <2> QED BY <1>2, <2>1
<1> QED BY <1>3, <1>4

LEMMA ReviewEnrichInv ==
  ASSUME JobsInv, NEW o \in Operator, ReviewEnrich(o)
  PROVE JobsInv' /\ (NoRival /\ DoneInv => DoneInv')
<1>0. review[o] \in BJob /\ Becomes(review[o], "pending", 0)
  BY DEF JobsInv, BuildingTypeOK, ReviewEnrich, Becomes, Job, Status
<1>a. /\ run' \in [Enricher -> [BJob -> Thread]]
      /\ \A u \in Enricher, k \in BJob :
           /\ run'[u][k].pc = run[u][k].pc
           /\ run'[u][k].tries = run[u][k].tries
           /\ run'[u][k].got = run[u][k].got
  BY ForgetKeepsPc DEF JobsInv, BuildingTypeOK, ReviewEnrich
<1>b. answer' \in [BJob -> Answer \ {"error"}] /\ \A k \in BJob : answer'[k] \in {answer[k], "none"}
  BY DEF JobsInv, BuildingTypeOK, ReviewEnrich, Forget, Answer
<1>1. BuildingTypeOK'
  BY <1>0, <1>a, <1>b DEF JobsInv, BuildingTypeOK, ReviewEnrich, Becomes, Answer
<1>2. InHand'
  BY <1>0, <1>a DEF JobsInv, InHand, Becomes
<1>3. ASSUME NoRival, DoneInv PROVE DoneInv'
  <2>1. WorkKnown'
    BY <1>0, <1>a, <1>b, <1>3 DEF DoneInv, WorkKnown, NoRival, ReviewEnrich, Becomes
  <2>2. PaidOnce'
    BY <1>0, <1>a, <1>b, <1>3 DEF DoneInv, PaidOnce, NoRival, ReviewEnrich, Becomes
  <2>3. CompletedMeansDone'
    BY <1>0, <1>a, <1>b, <1>3 DEF DoneInv, CompletedMeansDone, WorkKnown, NoRival, ReviewEnrich, Becomes
  <2> QED BY <2>1, <2>2, <2>3 DEF DoneInv
<1> QED BY <1>1, <1>2, <1>3 DEF JobsInv

LEMMA EvidenceChangesInv ==
  ASSUME JobsInv, NEW j \in BJob, EvidenceChanges(j)
  PROVE JobsInv' /\ (NoRival /\ DoneInv => DoneInv')
<1>a. /\ run' \in [Enricher -> [BJob -> Thread]]
      /\ \A u \in Enricher, k \in BJob :
           /\ run'[u][k].pc = run[u][k].pc
           /\ run'[u][k].tries = run[u][k].tries
           /\ run'[u][k].got = run[u][k].got
  BY ForgetKeepsPc DEF JobsInv, EvidenceChanges
<1>b. answer' \in [BJob -> Answer \ {"error"}] /\ \A k \in BJob : answer'[k] \in {answer[k], "none"}
  BY DEF JobsInv, BuildingTypeOK, EvidenceChanges, Forget, Answer
<1>1. BuildingTypeOK'
  BY <1>a, <1>b DEF JobsInv, BuildingTypeOK, EvidenceChanges, Answer
<1>2. InHand'
  <2>1. jobs' = jobs
    BY DEF EvidenceChanges
  <2> QED BY <1>a, <2>1 DEF JobsInv, InHand
<1>3. ASSUME NoRival, DoneInv PROVE DoneInv'
  <2>1. WorkKnown'
    BY <1>a, <1>b, <1>3 DEF DoneInv, WorkKnown, NoRival, EvidenceChanges
  <2>2. PaidOnce'
    BY <1>a, <1>b, <1>3 DEF DoneInv, PaidOnce, NoRival, EvidenceChanges
  <2>3. CompletedMeansDone'
    BY <1>a, <1>b, <1>3 DEF DoneInv, CompletedMeansDone, WorkKnown, NoRival, EvidenceChanges
  <2> QED BY <2>1, <2>2, <2>3 DEF DoneInv
<1> QED BY <1>1, <1>2, <1>3 DEF JobsInv

LEMMA ClockPassesInv ==
  ASSUME JobsInv, NEW j \in BJob, ClockPasses(j)
  PROVE JobsInv' /\ (NoRival /\ DoneInv => DoneInv')
<1>0. Becomes(j, jobs[j].status, jobs[j].tries)
  <2>1. jobs \in [BJob -> Job] /\ jobs[j] \in Job
    BY DEF JobsInv, BuildingTypeOK
  <2> QED BY <2>1 DEF ClockPasses, Becomes, Job
<1>1. BuildingTypeOK'
  BY <1>0 DEF JobsInv, BuildingTypeOK, ClockPasses, Becomes
<1>2. InHand'
  BY <1>0 DEF JobsInv, InHand, ClockPasses, Becomes
<1>3. ASSUME NoRival, DoneInv PROVE DoneInv'
  <2>1. WorkKnown'
    BY <1>0, <1>3 DEF DoneInv, WorkKnown, NoRival, ClockPasses, Becomes
  <2>2. PaidOnce'
    BY <1>0, <1>3 DEF DoneInv, PaidOnce, NoRival, ClockPasses, Becomes
  <2>3. CompletedMeansDone'
    BY <1>0, <1>3 DEF DoneInv, CompletedMeansDone, WorkKnown, NoRival, ClockPasses, Becomes
  <2> QED BY <2>1, <2>2, <2>3 DEF DoneInv
<1> QED BY <1>1, <1>2, <1>3 DEF JobsInv

LEMMA PollStaleInv ==
  ASSUME JobsInv, NEW w \in Enricher, PollStale(w)
  PROVE JobsInv' /\ (NoRival /\ DoneInv => DoneInv')
<1>1. BuildingTypeOK'
  BY DEF JobsInv, BuildingTypeOK, PollStale
<1>2. InHand'
  BY DEF JobsInv, InHand, PollStale
<1>3. ASSUME NoRival, DoneInv PROVE DoneInv'
  <2>1. WorkKnown'
    BY <1>3 DEF DoneInv, WorkKnown, NoRival, PollStale
  <2>2. PaidOnce'
    BY <1>3 DEF DoneInv, PaidOnce, NoRival, PollStale
  <2>3. CompletedMeansDone'
    BY <1>3 DEF DoneInv, CompletedMeansDone, WorkKnown, NoRival, PollStale
  <2> QED BY <2>1, <2>2, <2>3 DEF DoneInv
<1> QED BY <1>1, <1>2, <1>3 DEF JobsInv

LEMMA RecoverOneInv ==
  ASSUME JobsInv, NEW w \in Enricher, NEW j \in BJob, RecoverOne(w, j)
  PROVE JobsInv' /\ (NoRival /\ DoneInv => DoneInv')
<1>0. /\ Becomes(j, Retried(j).status, jobs[j].tries)
      /\ Retried(j).status = "pending" => jobs[j].tries < MaxRetries
      /\ Retried(j).status \in {"pending", "failed"}
  BY RetriedBecomes DEF JobsInv, RecoverOne
<1>1. BuildingTypeOK'
  BY <1>0 DEF JobsInv, BuildingTypeOK, RecoverOne, Becomes
<1>2. InHand'
  BY <1>0 DEF JobsInv, InHand, RecoverOne, Becomes
<1>3. ASSUME NoRival, DoneInv PROVE DoneInv'
  <2>1. WorkKnown'
    BY <1>0, <1>3 DEF DoneInv, WorkKnown, NoRival, RecoverOne, Becomes
  <2>2. PaidOnce'
    BY <1>0, <1>3 DEF DoneInv, PaidOnce, NoRival, RecoverOne, Becomes
  <2>3. CompletedMeansDone'
    BY <1>0, <1>3 DEF DoneInv, CompletedMeansDone, WorkKnown, NoRival, RecoverOne, Becomes
  <2> QED BY <2>1, <2>2, <2>3 DEF DoneInv
<1> QED BY <1>1, <1>2, <1>3 DEF JobsInv

LEMMA ListPendingInv ==
  ASSUME JobsInv, NEW w \in Enricher, ListPending(w)
  PROVE JobsInv' /\ (NoRival /\ DoneInv => DoneInv')
<1>0. /\ run' \in [Enricher -> [BJob -> Thread]]
      /\ \A k \in BJob : run'[w][k].pc = IF jobs[k].status = "pending" /\ jobs[k].due THEN "listed" ELSE "out"
      /\ \A u \in Enricher, k \in BJob : u = w \/ run'[u][k] = run[u][k]
  <2> DEFINE f == [j \in BJob |-> IF jobs[j].status = "pending" /\ jobs[j].due
                                 THEN [Idle EXCEPT !.pc = "listed"] ELSE Idle]
  <2>1. Idle \in Thread /\ Idle.pc = "out"
    BY DEF Idle, Thread, Answer
  <2>3. \A x \in Thread : /\ [x EXCEPT !.pc = "listed"] \in Thread
                         /\ [x EXCEPT !.pc = "listed"].pc = "listed"
    BY DEF Thread
  <2>2. run' = [run EXCEPT ![w] = f] /\ run \in [Enricher -> [BJob -> Thread]]
    BY DEF JobsInv, BuildingTypeOK, ListPending
  <2> QED BY <2>1, <2>2, <2>3
<1>1. BuildingTypeOK'
  BY <1>0 DEF JobsInv, BuildingTypeOK, ListPending
<1>2. InHand'
  BY <1>0 DEF JobsInv, InHand, ListPending
<1>3. ASSUME NoRival, DoneInv PROVE DoneInv'
  <2>1. WorkKnown'
    BY <1>0, <1>3 DEF DoneInv, WorkKnown, NoRival, ListPending
  <2>2. PaidOnce'
    BY <1>0, <1>3 DEF DoneInv, PaidOnce, NoRival, ListPending
  <2>3. CompletedMeansDone'
    BY <1>0, <1>3 DEF DoneInv, CompletedMeansDone, WorkKnown, NoRival, ListPending
  <2> QED BY <2>1, <2>2, <2>3 DEF DoneInv
<1> QED BY <1>1, <1>2, <1>3 DEF JobsInv

LEMMA BatchDoneInv ==
  ASSUME JobsInv, NEW w \in Enricher, BatchDone(w)
  PROVE JobsInv' /\ (NoRival /\ DoneInv => DoneInv')
<1>1. BuildingTypeOK'
  BY DEF JobsInv, BuildingTypeOK, BatchDone
<1>2. InHand'
  BY DEF JobsInv, InHand, BatchDone
<1>3. ASSUME NoRival, DoneInv PROVE DoneInv'
  <2>1. WorkKnown'
    BY <1>3 DEF DoneInv, WorkKnown, NoRival, BatchDone
  <2>2. PaidOnce'
    BY <1>3 DEF DoneInv, PaidOnce, NoRival, BatchDone
  <2>3. CompletedMeansDone'
    BY <1>3 DEF DoneInv, CompletedMeansDone, WorkKnown, NoRival, BatchDone
  <2> QED BY <2>1, <2>2, <2>3 DEF DoneInv
<1> QED BY <1>1, <1>2, <1>3 DEF JobsInv

LEMMA RestartEnricherInv ==
  ASSUME JobsInv, NEW w \in Enricher, RestartEnricher(w)
  PROVE JobsInv' /\ (NoRival /\ DoneInv => DoneInv')
<1>1. BuildingTypeOK'
  BY DEF JobsInv, BuildingTypeOK, RestartEnricher, Answer
<1>2. InHand'
  BY DEF JobsInv, InHand, RestartEnricher
<1>3. ASSUME NoRival, DoneInv PROVE DoneInv'
  <2>1. WorkKnown'
    BY <1>3 DEF DoneInv, WorkKnown, NoRival, RestartEnricher
  <2>2. PaidOnce'
    BY <1>3 DEF DoneInv, PaidOnce, NoRival, RestartEnricher
  <2>3. CompletedMeansDone'
    BY <1>3 DEF DoneInv, CompletedMeansDone, WorkKnown, NoRival, RestartEnricher
  <2> QED BY <2>1, <2>2, <2>3 DEF DoneInv
<1> QED BY <1>1, <1>2, <1>3 DEF JobsInv

LEMMA CrashEnricherInv ==
  ASSUME JobsInv, NEW w \in Enricher, CrashEnricher(w)
  PROVE JobsInv' /\ (NoRival /\ DoneInv => DoneInv')
<1>0. /\ run' \in [Enricher -> [BJob -> Thread]]
      /\ \A k \in BJob : run'[w][k].pc = "out"
      /\ \A u \in Enricher, k \in BJob : u = w \/ run'[u][k] = run[u][k]
  BY DEF JobsInv, BuildingTypeOK, CrashEnricher, Idle, Thread, Answer
<1>1. BuildingTypeOK'
  BY <1>0 DEF JobsInv, BuildingTypeOK, CrashEnricher
<1>2. InHand'
  BY <1>0 DEF JobsInv, InHand, CrashEnricher
<1>3. ASSUME NoRival, DoneInv PROVE DoneInv'
  <2>1. WorkKnown'
    BY <1>0, <1>3 DEF DoneInv, WorkKnown, NoRival, CrashEnricher
  <2>2. PaidOnce'
    BY <1>0, <1>3 DEF DoneInv, PaidOnce, NoRival, CrashEnricher
  <2>3. CompletedMeansDone'
    BY <1>0, <1>3 DEF DoneInv, CompletedMeansDone, WorkKnown, NoRival, CrashEnricher
  <2> QED BY <2>1, <2>2, <2>3 DEF DoneInv
<1> QED BY <1>1, <1>2, <1>3 DEF JobsInv

LEMMA NoProviderInv ==
  ASSUME JobsInv, NEW w \in Enricher, NEW j \in BJob, NoProvider(w, j)
  PROVE JobsInv' /\ (NoRival /\ DoneInv => DoneInv')
<1>0. Moved(w, j, "out")
  BY DropMoves DEF JobsInv, NoProvider
<1>a. Becomes(j, "failed", jobs[j].tries)
  BY SetStatusBecomes DEF JobsInv, NoProvider, Status
<1>1. BuildingTypeOK'
  BY <1>0, <1>a DEF JobsInv, BuildingTypeOK, NoProvider, Moved, Becomes
<1>2. InHand'
  BY <1>0, <1>a DEF JobsInv, InHand, NoProvider, Moved, Becomes
<1>3. ASSUME NoRival, DoneInv PROVE DoneInv'
  <2>1. WorkKnown'
    BY <1>0, <1>a, <1>3 DEF DoneInv, WorkKnown, NoRival, NoProvider, Moved, Becomes
  <2>2. PaidOnce'
    BY <1>0, <1>a, <1>3 DEF DoneInv, PaidOnce, NoRival, NoProvider, Moved, Becomes
  <2>3. CompletedMeansDone'
    BY <1>0, <1>a, <1>3 DEF DoneInv, CompletedMeansDone, WorkKnown, NoRival, NoProvider, Moved, Becomes
  <2> QED BY <2>1, <2>2, <2>3 DEF DoneInv
<1> QED BY <1>1, <1>2, <1>3 DEF JobsInv

LEMMA ClaimReadInv ==
  ASSUME JobsInv, NEW w \in Enricher, NEW j \in BJob, ClaimRead(w, j)
  PROVE JobsInv' /\ (NoRival /\ DoneInv => DoneInv')
<1>0. \/ Moved(w, j, "out")
      \/ Moved(w, j, "read") /\ run'[w][j].tries = jobs[j].tries /\ jobs[j].status = "pending"
  <2>1. CASE jobs[j].status = "pending"
    <3> DEFINE v == [run[w][j] EXCEPT !.pc = "read", !.tries = jobs[j].tries]
    <3>1. run \in [Enricher -> [BJob -> Thread]] /\ run[w][j] \in Thread /\ jobs[j] \in Job
      BY DEF JobsInv, BuildingTypeOK
    <3>2. v \in Thread /\ v.pc = "read" /\ v.tries = jobs[j].tries
      BY <3>1 DEF Thread, Job
    <3>3. run' = [run EXCEPT ![w][j] = v]
      BY <2>1, <3>1 DEF ClaimRead
    <3> HIDE DEF v
    <3> QED BY <2>1, <3>1, <3>2, <3>3, ThreadPut DEF Moved
  <2>2. CASE jobs[j].status # "pending"
    BY <2>2, DropMoves DEF ClaimRead, JobsInv
  <2> QED BY <2>1, <2>2
<1>1. BuildingTypeOK'
  BY <1>0 DEF JobsInv, BuildingTypeOK, ClaimRead, Moved
<1>2. InHand'
  BY <1>0 DEF JobsInv, InHand, ClaimRead, Moved
<1>3. ASSUME NoRival, DoneInv PROVE DoneInv'
  <2>1. WorkKnown'
    BY <1>0, <1>3 DEF DoneInv, WorkKnown, NoRival, ClaimRead, Moved
  <2>2. PaidOnce'
    BY <1>0, <1>3 DEF DoneInv, PaidOnce, NoRival, ClaimRead, Moved
  <2>3. CompletedMeansDone'
    BY <1>0, <1>3 DEF DoneInv, CompletedMeansDone, WorkKnown, NoRival, ClaimRead, Moved
  <2> QED BY <2>1, <2>2, <2>3 DEF DoneInv
<1> QED BY <1>1, <1>2, <1>3 DEF JobsInv

LEMMA ClaimUpdateInv ==
  ASSUME JobsInv, NEW w \in Enricher, NEW j \in BJob, ClaimUpdate(w, j)
  PROVE JobsInv' /\ (NoRival /\ DoneInv => DoneInv')
<1>0. Moved(w, j, "check")
  BY StepMoves DEF JobsInv, ClaimUpdate
<1>a. jobs' = jobs \/ (Becomes(j, "running", run[w][j].tries + 1) /\ jobs[j].status # "completed")
  <2>1. CASE jobs[j].status = "pending"
    <3>1. run[w][j] \in Thread /\ run[w][j].tries < MaxRetries
      BY DEF JobsInv, BuildingTypeOK, InHand, ClaimUpdate
    <3>2. run[w][j].tries + 1 \in 0..MaxRetries /\ jobs \in [BJob -> Job]
      BY <3>1 DEF Thread, JobsInv, BuildingTypeOK
    <3>3. jobs' = [jobs EXCEPT ![j] = [status |-> "running", due |-> FALSE,
                                       tries |-> run[w][j].tries + 1]]
      BY <2>1 DEF ClaimUpdate
    <3> QED BY <2>1, <3>2, <3>3 DEF Becomes, Job, Status
  <2>2. CASE jobs[j].status # "pending"
    BY <2>2 DEF ClaimUpdate
  <2> QED BY <2>1, <2>2
<1>1. BuildingTypeOK'
  BY <1>0, <1>a DEF JobsInv, BuildingTypeOK, ClaimUpdate, Moved, Becomes
<1>2. InHand'
  BY <1>0, <1>a DEF JobsInv, InHand, ClaimUpdate, Moved, Becomes
<1>3. ASSUME NoRival, DoneInv PROVE DoneInv'
  <2>1. WorkKnown'
    BY <1>0, <1>a, <1>3 DEF DoneInv, WorkKnown, NoRival, ClaimUpdate, Moved, Becomes
  <2>2. PaidOnce'
    BY <1>0, <1>a, <1>3 DEF DoneInv, PaidOnce, NoRival, ClaimUpdate, Moved, Becomes
  <2>3. CompletedMeansDone'
    BY <1>0, <1>a, <1>3 DEF DoneInv, CompletedMeansDone, WorkKnown, NoRival, ClaimUpdate, Moved, Becomes
  <2> QED BY <2>1, <2>2, <2>3 DEF DoneInv
<1> QED BY <1>1, <1>2, <1>3 DEF JobsInv

LEMMA ClaimCheckInv ==
  ASSUME JobsInv, NEW w \in Enricher, NEW j \in BJob, ClaimCheck(w, j)
  PROVE JobsInv' /\ (NoRival /\ DoneInv => DoneInv')
<1>0. Moved(w, j, "look") \/ Moved(w, j, "out")
  BY StepMoves, DropMoves DEF JobsInv, ClaimCheck
<1>1. BuildingTypeOK'
  BY <1>0 DEF JobsInv, BuildingTypeOK, ClaimCheck, Moved
<1>2. InHand'
  BY <1>0 DEF JobsInv, InHand, ClaimCheck, Moved
<1>3. ASSUME NoRival, DoneInv PROVE DoneInv'
  <2>1. WorkKnown'
    BY <1>0, <1>3 DEF DoneInv, WorkKnown, NoRival, ClaimCheck, Moved
  <2>2. PaidOnce'
    BY <1>0, <1>3 DEF DoneInv, PaidOnce, NoRival, ClaimCheck, Moved
  <2>3. CompletedMeansDone'
    BY <1>0, <1>3 DEF DoneInv, CompletedMeansDone, WorkKnown, NoRival, ClaimCheck, Moved
  <2> QED BY <2>1, <2>2, <2>3 DEF DoneInv
<1> QED BY <1>1, <1>2, <1>3 DEF JobsInv

LEMMA RefuseNameInv ==
  ASSUME JobsInv, NEW w \in Enricher, NEW j \in BJob, RefuseName(w, j)
  PROVE JobsInv' /\ (NoRival /\ DoneInv => DoneInv')
<1>0. Moved(w, j, "unresolved")
  BY StepMoves DEF JobsInv, RefuseName
<1>a. Becomes(j, "failed", jobs[j].tries)
  BY SetStatusBecomes DEF JobsInv, RefuseName, Status
<1>1. BuildingTypeOK'
  BY <1>0, <1>a DEF JobsInv, BuildingTypeOK, RefuseName, Moved, Becomes
<1>2. InHand'
  BY <1>0, <1>a DEF JobsInv, InHand, RefuseName, Moved, Becomes
<1>3. ASSUME NoRival, DoneInv PROVE DoneInv'
  <2>1. WorkKnown'
    BY <1>0, <1>a, <1>3 DEF DoneInv, WorkKnown, NoRival, RefuseName, Moved, Becomes
  <2>2. PaidOnce'
    BY <1>0, <1>a, <1>3 DEF DoneInv, PaidOnce, NoRival, RefuseName, Moved, Becomes
  <2>3. CompletedMeansDone'
    BY <1>0, <1>a, <1>3 DEF DoneInv, CompletedMeansDone, WorkKnown, NoRival, RefuseName, Moved, Becomes
  <2> QED BY <2>1, <2>2, <2>3 DEF DoneInv
<1> QED BY <1>1, <1>2, <1>3 DEF JobsInv

LEMMA LookInCacheInv ==
  ASSUME JobsInv, NEW w \in Enricher, NEW j \in BJob, LookInCache(w, j)
  PROVE JobsInv' /\ (NoRival /\ DoneInv => DoneInv')
<1>0. /\ Moved(w, j, IF answer[j] = "none" THEN "call" ELSE "keep")
      /\ run'[w][j].got # "error"
  <2> DEFINE v == [run[w][j] EXCEPT !.pc = IF answer[j] = "none" THEN "call" ELSE "keep",
                                    !.got = answer[j]]
  <2>1. run \in [Enricher -> [BJob -> Thread]] /\ run[w][j] \in Thread /\ answer[j] \in Answer \ {"error"}
    BY DEF JobsInv, BuildingTypeOK
  <2>2. v \in Thread /\ v.got # "error" /\ v.pc = IF answer[j] = "none" THEN "call" ELSE "keep"
    BY <2>1 DEF Thread
  <2>3. run' = [run EXCEPT ![w][j] = v]
    BY <2>1 DEF LookInCache
  <2> HIDE DEF v
  <2> QED BY <2>1, <2>2, <2>3, ThreadPut DEF Moved
<1>1. BuildingTypeOK'
  BY <1>0 DEF JobsInv, BuildingTypeOK, LookInCache, Moved
<1>2. InHand'
  BY <1>0 DEF JobsInv, InHand, LookInCache, Moved
<1>3. ASSUME NoRival, DoneInv PROVE DoneInv'
  <2>1. WorkKnown'
    BY <1>0, <1>3 DEF DoneInv, WorkKnown, NoRival, LookInCache, Moved
  <2>2. PaidOnce'
    BY <1>0, <1>3 DEF DoneInv, PaidOnce, NoRival, LookInCache, Moved
  <2>3. CompletedMeansDone'
    BY <1>0, <1>3 DEF DoneInv, CompletedMeansDone, WorkKnown, NoRival, LookInCache, Moved
  <2> QED BY <2>1, <2>2, <2>3 DEF DoneInv
<1> QED BY <1>1, <1>2, <1>3 DEF JobsInv

LEMMA CallProviderInv ==
  ASSUME JobsInv, NEW w \in Enricher, NEW j \in BJob, CallProvider(w, j)
  PROVE JobsInv' /\ (NoRival /\ DoneInv => DoneInv')
<1>0. /\ disk' \in [BJob -> Answer]
      /\ Moved(w, j, "fail") \/ (Moved(w, j, "keep") /\ run'[w][j].got # "error")
  <2>1. /\ run \in [Enricher -> [BJob -> Thread]] /\ run[w][j] \in Thread
        /\ disk \in [BJob -> Answer] /\ disk[j] \in Answer
    BY DEF JobsInv, BuildingTypeOK
  <2>2. PICK got \in Answer :
          /\ disk' = [disk EXCEPT ![j] = got]
          /\ run' = [run EXCEPT ![w][j].pc = IF got = "error" THEN After(got) ELSE "keep",
                                ![w][j].got = got]
    BY <2>1 DEF CallProvider
  <2> DEFINE pc == IF got = "error" THEN "fail" ELSE "keep"
             v == [run[w][j] EXCEPT !.pc = pc, !.got = got]
  <2>3. v \in Thread /\ v.pc = pc /\ v.got = got
    BY <2>1 DEF Thread
  <2>4. run' = [run EXCEPT ![w][j] = v]
    BY <2>1, <2>2 DEF After
  <2> HIDE DEF v
  <2>5. Moved(w, j, pc) /\ run'[w][j].got = got
    BY <2>1, <2>3, <2>4, ThreadPut DEF Moved
  <2> QED BY <2>1, <2>2, <2>5
<1>1. BuildingTypeOK'
  BY <1>0 DEF JobsInv, BuildingTypeOK, CallProvider, Moved
<1>2. InHand'
  BY <1>0 DEF JobsInv, InHand, CallProvider, Moved
<1>3. ASSUME NoRival, DoneInv PROVE DoneInv'
  <2>1. WorkKnown'
    BY <1>0, <1>3 DEF DoneInv, WorkKnown, NoRival, CallProvider, Moved
  <2>2. PaidOnce'
    BY <1>0, <1>3 DEF DoneInv, PaidOnce, NoRival, CallProvider, Moved
  <2>3. CompletedMeansDone'
    BY <1>0, <1>3 DEF DoneInv, CompletedMeansDone, WorkKnown, NoRival, CallProvider, Moved
  <2> QED BY <2>1, <2>2, <2>3 DEF DoneInv
<1> QED BY <1>1, <1>2, <1>3 DEF JobsInv

LEMMA KeepAnswerInv ==
  ASSUME JobsInv, NEW w \in Enricher, NEW j \in BJob, KeepAnswer(w, j)
  PROVE JobsInv' /\ (NoRival /\ DoneInv => DoneInv')
<1>a. \A got \in Answer : After(got) \in {"apply", "suggest", "fail"}
  BY DEF After
<1>b. run[w][j].got \in Answer
  BY DEF JobsInv, BuildingTypeOK, Thread
<1>0. \E pc \in {"apply", "suggest", "fail"} : Moved(w, j, pc)
  BY <1>a, <1>b, StepMoves DEF JobsInv, KeepAnswer
<1>c. answer' \in [BJob -> Answer \ {"error"}] /\ \A k \in BJob : k = j \/ answer'[k] = answer[k]
  BY <1>b DEF JobsInv, BuildingTypeOK, InHand, KeepAnswer
<1>1. BuildingTypeOK'
  BY <1>0, <1>c DEF JobsInv, BuildingTypeOK, KeepAnswer, Moved
<1>2. InHand'
  BY <1>0, <1>c DEF JobsInv, InHand, KeepAnswer, Moved
<1>3. ASSUME NoRival, DoneInv PROVE DoneInv'
  <2>1. WorkKnown'
    BY <1>0, <1>c, <1>3 DEF DoneInv, WorkKnown, NoRival, KeepAnswer, Moved
  <2>2. PaidOnce'
    BY <1>0, <1>c, <1>3 DEF DoneInv, PaidOnce, NoRival, KeepAnswer, Moved
  <2>3. CompletedMeansDone'
    BY <1>0, <1>c, <1>3 DEF DoneInv, CompletedMeansDone, WorkKnown, NoRival, KeepAnswer, Moved
  <2> QED BY <2>1, <2>2, <2>3 DEF DoneInv
<1> QED BY <1>1, <1>2, <1>3 DEF JobsInv

LEMMA ApplyFieldsInv ==
  ASSUME JobsInv, NEW w \in Enricher, NEW j \in BJob, ApplyFields(w, j)
  PROVE JobsInv' /\ (NoRival /\ DoneInv => DoneInv')
<1>0. Moved(w, j, "mark")
  BY StepMoves DEF JobsInv, ApplyFields
<1>1. BuildingTypeOK'
  BY <1>0 DEF JobsInv, BuildingTypeOK, ApplyFields, Moved
<1>2. InHand'
  BY <1>0 DEF JobsInv, InHand, ApplyFields, Moved
<1>3. ASSUME NoRival, DoneInv PROVE DoneInv'
  <2>1. WorkKnown'
    BY <1>0, <1>3 DEF DoneInv, WorkKnown, NoRival, ApplyFields, Moved
  <2>2. PaidOnce'
    BY <1>0, <1>3 DEF DoneInv, PaidOnce, NoRival, ApplyFields, Moved
  <2>3. CompletedMeansDone'
    BY <1>0, <1>3 DEF DoneInv, CompletedMeansDone, WorkKnown, NoRival, ApplyFields, Moved
  <2> QED BY <2>1, <2>2, <2>3 DEF DoneInv
<1> QED BY <1>1, <1>2, <1>3 DEF JobsInv

LEMMA MarkEnrichedInv ==
  ASSUME JobsInv, NEW w \in Enricher, NEW j \in BJob, MarkEnriched(w, j)
  PROVE JobsInv' /\ (NoRival /\ DoneInv => DoneInv')
<1>0. Moved(w, j, "close")
  BY StepMoves DEF JobsInv, MarkEnriched
<1>1. BuildingTypeOK'
  BY <1>0 DEF JobsInv, BuildingTypeOK, MarkEnriched, Moved
<1>2. InHand'
  BY <1>0 DEF JobsInv, InHand, MarkEnriched, Moved
<1>3. ASSUME NoRival, DoneInv PROVE DoneInv'
  <2>1. WorkKnown'
    <3>1. /\ site'[j] = "enriched" /\ \A k \in BJob : k = j \/ site'[k] = site[k]
          /\ UNCHANGED <<jobs, bad, noted>>
      BY DEF JobsInv, BuildingTypeOK, MarkEnriched
    <3>2. run[w][j].pc = "mark"
      BY DEF MarkEnriched
    <3> QED BY <1>0, <1>3, <3>1, <3>2 DEF DoneInv, WorkKnown, Moved
  <2>2. PaidOnce'
    BY <1>0, <1>3 DEF DoneInv, PaidOnce, NoRival, MarkEnriched, Moved
  <2>3. CompletedMeansDone'
    BY <1>0, <1>3 DEF DoneInv, CompletedMeansDone, WorkKnown, NoRival, MarkEnriched, Moved
  <2> QED BY <2>1, <2>2, <2>3 DEF DoneInv
<1> QED BY <1>1, <1>2, <1>3 DEF JobsInv

LEMMA SuggestInv ==
  ASSUME JobsInv, NEW w \in Enricher, NEW j \in BJob, Suggest(w, j)
  PROVE JobsInv' /\ (NoRival /\ DoneInv => DoneInv')
<1>0. Moved(w, j, "close")
  BY StepMoves DEF JobsInv, Suggest
<1>1. BuildingTypeOK'
  BY <1>0 DEF JobsInv, BuildingTypeOK, Suggest, Moved
<1>2. InHand'
  BY <1>0 DEF JobsInv, InHand, Suggest, Moved
<1>3. ASSUME NoRival, DoneInv PROVE DoneInv'
  <2>1. WorkKnown'
    BY <1>0, <1>3 DEF DoneInv, WorkKnown, NoRival, Suggest, Moved
  <2>2. PaidOnce'
    BY <1>0, <1>3 DEF DoneInv, PaidOnce, NoRival, Suggest, Moved
  <2>3. CompletedMeansDone'
    BY <1>0, <1>3 DEF DoneInv, CompletedMeansDone, WorkKnown, NoRival, Suggest, Moved
  <2> QED BY <2>1, <2>2, <2>3 DEF DoneInv
<1> QED BY <1>1, <1>2, <1>3 DEF JobsInv

LEMMA CloseJobInv ==
  ASSUME JobsInv, NEW w \in Enricher, NEW j \in BJob, CloseJob(w, j)
  PROVE JobsInv' /\ (NoRival /\ DoneInv => DoneInv')
<1>0. Moved(w, j, "out")
  BY DropMoves DEF JobsInv, CloseJob
<1>a. Becomes(j, "completed", jobs[j].tries)
  BY SetStatusBecomes DEF JobsInv, CloseJob, Status
<1>1. BuildingTypeOK'
  BY <1>0, <1>a DEF JobsInv, BuildingTypeOK, CloseJob, Moved, Becomes
<1>2. InHand'
  BY <1>0, <1>a DEF JobsInv, InHand, CloseJob, Moved, Becomes
<1>3. ASSUME NoRival, DoneInv PROVE DoneInv'
  <2>1. WorkKnown'
    BY <1>0, <1>a, <1>3 DEF DoneInv, WorkKnown, NoRival, CloseJob, Moved, Becomes
  <2>2. PaidOnce'
    BY <1>0, <1>a, <1>3 DEF DoneInv, PaidOnce, NoRival, CloseJob, Moved, Becomes
  <2>3. CompletedMeansDone'
    BY <1>0, <1>a, <1>3 DEF DoneInv, CompletedMeansDone, WorkKnown, NoRival, CloseJob, Moved, Becomes
  <2> QED BY <2>1, <2>2, <2>3 DEF DoneInv
<1> QED BY <1>1, <1>2, <1>3 DEF JobsInv

LEMMA FailJobInv ==
  ASSUME JobsInv, NEW w \in Enricher, NEW j \in BJob, FailJob(w, j)
  PROVE JobsInv' /\ (NoRival /\ DoneInv => DoneInv')
<1>0. Moved(w, j, "unresolved") \/ Moved(w, j, "out")
  BY StepMoves, DropMoves DEF JobsInv, FailJob
<1>a. /\ Becomes(j, Retried(j).status, jobs[j].tries)
      /\ Retried(j).status = "pending" => jobs[j].tries < MaxRetries
      /\ Retried(j).status \in {"pending", "failed"}
  BY RetriedBecomes DEF JobsInv, FailJob
<1>1. BuildingTypeOK'
  BY <1>0, <1>a DEF JobsInv, BuildingTypeOK, FailJob, Moved, Becomes
<1>2. InHand'
  BY <1>0, <1>a DEF JobsInv, InHand, Moved, Becomes
<1>3. ASSUME NoRival, DoneInv PROVE DoneInv'
  <2>1. WorkKnown'
    BY <1>0, <1>a, <1>3 DEF DoneInv, WorkKnown, NoRival, FailJob, Moved, Becomes
  <2>2. PaidOnce'
    BY <1>0, <1>a, <1>3 DEF DoneInv, PaidOnce, NoRival, FailJob, Moved, Becomes
  <2>3. CompletedMeansDone'
    BY <1>0, <1>a, <1>3 DEF DoneInv, CompletedMeansDone, WorkKnown, NoRival, FailJob, Moved, Becomes
  <2> QED BY <2>1, <2>2, <2>3 DEF DoneInv
<1> QED BY <1>1, <1>2, <1>3 DEF JobsInv

LEMMA MarkUnresolvedInv ==
  ASSUME JobsInv, NEW w \in Enricher, NEW j \in BJob, MarkUnresolved(w, j)
  PROVE JobsInv' /\ (NoRival /\ DoneInv => DoneInv')
<1>0. Moved(w, j, "out")
  BY DropMoves DEF JobsInv, MarkUnresolved
<1>1. BuildingTypeOK'
  BY <1>0 DEF JobsInv, BuildingTypeOK, MarkUnresolved, Moved
<1>2. InHand'
  BY <1>0 DEF JobsInv, InHand, MarkUnresolved, Moved
<1>3. ASSUME NoRival, DoneInv PROVE DoneInv'
  <2>1. WorkKnown'
    BY <1>0, <1>3 DEF DoneInv, WorkKnown, NoRival, MarkUnresolved, Moved
  <2>2. PaidOnce'
    BY <1>0, <1>3 DEF DoneInv, PaidOnce, NoRival, MarkUnresolved, Moved
  <2>3. CompletedMeansDone'
    BY <1>0, <1>3 DEF DoneInv, CompletedMeansDone, WorkKnown, NoRival, MarkUnresolved, Moved
  <2> QED BY <2>1, <2>2, <2>3 DEF DoneInv
<1> QED BY <1>1, <1>2, <1>3 DEF JobsInv

LEMMA StorageRaisesInv ==
  ASSUME JobsInv, NEW w \in Enricher, NEW j \in BJob, StorageRaises(w, j)
  PROVE JobsInv' /\ (NoRival /\ DoneInv => DoneInv')
<1>0. Moved(w, j, "fail") \/ Moved(w, j, "out")
  BY StepMoves, DropMoves DEF JobsInv, StorageRaises
<1>1. BuildingTypeOK'
  BY <1>0 DEF JobsInv, BuildingTypeOK, StorageRaises, Moved
<1>2. InHand'
  BY <1>0 DEF JobsInv, InHand, StorageRaises, Moved
<1>3. ASSUME NoRival, DoneInv PROVE DoneInv'
  <2>1. WorkKnown'
    BY <1>0, <1>3 DEF DoneInv, WorkKnown, NoRival, StorageRaises, Moved
  <2>2. PaidOnce'
    BY <1>0, <1>3 DEF DoneInv, PaidOnce, NoRival, StorageRaises, Moved
  <2>3. CompletedMeansDone'
    BY <1>0, <1>3 DEF DoneInv, CompletedMeansDone, WorkKnown, NoRival, StorageRaises, Moved
  <2> QED BY <2>1, <2>2, <2>3 DEF DoneInv
<1> QED BY <1>1, <1>2, <1>3 DEF JobsInv

LEMMA BuildingNextInv ==
  ASSUME JobsInv, [BuildingNext]_bvars
  PROVE JobsInv' /\ (NoRival /\ DoneInv => DoneInv')
<1> DEFINE Goal == JobsInv' /\ (NoRival /\ DoneInv => DoneInv')
<1>1. ASSUME UNCHANGED bvars PROVE Goal
  <2>1. JobsInv'
    BY <1>1 DEF bvars, JobsInv, BuildingTypeOK, InHand
  <2>2. DoneInv => DoneInv'
    BY <1>1 DEF bvars, DoneInv, WorkKnown, PaidOnce, CompletedMeansDone
  <2> QED BY <2>1, <2>2
<1>2. ASSUME NEW j \in BJob, NEW reviewed \in BOOLEAN, Enqueue(j, reviewed) PROVE Goal
  BY <1>2, EnqueueInv
<1>3. ASSUME NEW o \in Operator, NEW j \in BJob, OpenReview(o, j) PROVE Goal
  BY <1>3, OpenReviewInv
<1>4. ASSUME NEW o \in Operator, ReviewReject(o) \/ ReviewEnrich(o) PROVE Goal
  BY <1>4, ReviewRejectInv, ReviewEnrichInv
<1>5. ASSUME NEW j \in BJob, EvidenceChanges(j) \/ ClockPasses(j) PROVE Goal
  BY <1>5, EvidenceChangesInv, ClockPassesInv
<1>6. ASSUME NEW w \in Enricher, Poll(w) \/ CrashEnricher(w) PROVE Goal
  BY <1>6, PollStaleInv, ListPendingInv, BatchDoneInv, RestartEnricherInv, RecoverOneInv,
     CrashEnricherInv DEF Poll
<1>7. ASSUME NEW w \in Enricher, NEW j \in BJob, ProcessJob(w, j) \/ StorageRaises(w, j) PROVE Goal
  <2>1. CASE NoProvider(w, j) \/ ClaimRead(w, j) \/ ClaimUpdate(w, j) \/ ClaimCheck(w, j)
    BY <2>1, NoProviderInv, ClaimReadInv, ClaimUpdateInv, ClaimCheckInv
  <2>2. CASE RefuseName(w, j) \/ LookInCache(w, j) \/ CallProvider(w, j) \/ KeepAnswer(w, j)
    BY <2>2, RefuseNameInv, LookInCacheInv, CallProviderInv, KeepAnswerInv
  <2>3. CASE ApplyFields(w, j) \/ MarkEnriched(w, j) \/ Suggest(w, j) \/ CloseJob(w, j)
    BY <2>3, ApplyFieldsInv, MarkEnrichedInv, SuggestInv, CloseJobInv
  <2>4. CASE FailJob(w, j) \/ MarkUnresolved(w, j) \/ StorageRaises(w, j)
    BY <2>4, FailJobInv, MarkUnresolvedInv, StorageRaisesInv
  <2> QED BY <1>7, <2>1, <2>2, <2>3, <2>4 DEF ProcessJob
<1> HIDE DEF Goal
<1>8. Goal
  BY <1>1, <1>2, <1>3, <1>4, <1>5, <1>6, <1>7 DEF BuildingNext, Operators
<1> QED BY <1>8 DEF Goal

(* The job table and its threads stay within their types, however many      *)
(* workers share it: above all the attempts written by claim_building_job,  *)
(* which are counted from what the claim has read, never exceed the limit.  *)
THEOREM BuildingTypeCorrect == BuildingSpec => []BuildingTypeOK
<1>1. BuildingInit => JobsInv
  BY BuildingInitInv
<1>2. JobsInv /\ [BuildingNext]_bvars => JobsInv'
  BY BuildingNextInv
<1>3. JobsInv => BuildingTypeOK
  BY DEF JobsInv
<1> QED BY <1>1, <1>2, <1>3, PTL DEF BuildingSpec

LEMMA SoleEnricherInv ==
  ASSUME NEW w0, Enricher = {w0}
  PROVE BuildingSpec => [](JobsInv /\ DoneInv)
<1>1. BuildingInit => JobsInv /\ DoneInv
  BY BuildingInitInv
<1>2. NoRival
  BY DEF NoRival
<1>3. (JobsInv /\ DoneInv) /\ [BuildingNext]_bvars => (JobsInv /\ DoneInv)'
  BY <1>2, BuildingNextInv
<1> QED BY <1>1, <1>3, PTL DEF BuildingSpec

(* With one enrichment worker no thread is at the billed request of         *)
(* GooglePlacesProvider.enrich while put_entity_enrichment_cache has stored *)
(* an answer for the present evidence, for any jobs, retries and reviews.   *)
THEOREM SoleEnricherPaysOnce ==
  ASSUME NEW w0, Enricher = {w0}
  PROVE BuildingSpec => []PaidOnce
<1>1. JobsInv /\ DoneInv => PaidOnce
  BY DEF DoneInv
<1> QED BY <1>1, SoleEnricherInv, PTL

(* With one worker complete_building_job is reached only with the building  *)
(* enriched or a suggestion waiting, and no building under a refused name   *)
(* is enriched.                                                             *)
THEOREM SoleEnricherCompletes ==
  ASSUME NEW w0, Enricher = {w0}
  PROVE BuildingSpec => []CompletedMeansDone
<1>1. JobsInv /\ DoneInv => CompletedMeansDone
  BY DEF DoneInv
<1> QED BY <1>1, SoleEnricherInv, PTL

-----------------------------------------------------------------------------
(* Repair: the parent's own projection is never hidden before all the       *)
(* children of a cut exist.                                                 *)

(* What a repair process knows of the broadcast it is on.                   *)
CutFacts ==
  \A w \in Repairer :
    /\ rep[w].pc \in {"cut", "make", "hide", "requeue", "fail"} => rep[w].on \in Parent
    /\ rep[w].pc \in {"make", "hide"} => rep[w].cuts >= 2
    /\ rep[w].pc = "make" => /\ rep[w].left \subseteq 1..rep[w].cuts
                             /\ rep[w].made \subseteq 1..rep[w].cuts
                             /\ rep[w].made \subseteq child[rep[w].on]

RepairInv == RepairTypeOK /\ CutFacts /\ HiddenIsReplaced

USE RepairAssumption

(* As many pieces as were cut, all of them from the cut, are the whole cut. *)
LEMMA CutComplete ==
  ASSUME NEW n \in Nat, NEW S \in SUBSET (1..n), Cardinality(S) = n
  PROVE S = 1..n
<1>1. IsFiniteSet(1..n) /\ Cardinality(1..n) = n
  BY FS_Interval
<1> QED BY <1>1, FS_Subset

LEMMA RepairInitInv == RepairInit => RepairInv
BY DEF RepairInit, RepairInv, RepairTypeOK, CutFacts, HiddenIsReplaced, Resting, On, Rep, Piece

LEMMA FindRepairableInv ==
  ASSUME RepairInv, NEW p \in Parent, FindRepairable(p) PROVE RepairInv'
<1>1. RepairTypeOK'
  BY DEF RepairInv, RepairTypeOK, CutFacts, FindRepairable, Rep, Piece
<1>2. CutFacts'
  BY DEF RepairInv, RepairTypeOK, CutFacts, FindRepairable, Rep, Piece
<1>3. HiddenIsReplaced'
  BY DEF RepairInv, RepairTypeOK, CutFacts, HiddenIsReplaced, FindRepairable, Rep, Piece
<1> QED BY <1>1, <1>2, <1>3 DEF RepairInv

LEMMA QueueRepairInv ==
  ASSUME RepairInv, NEW p \in Parent, QueueRepair(p) PROVE RepairInv'
<1>1. RepairTypeOK'
  BY DEF RepairInv, RepairTypeOK, CutFacts, QueueRepair, Rep, Piece
<1>2. CutFacts'
  BY DEF RepairInv, RepairTypeOK, CutFacts, QueueRepair, Rep, Piece
<1>3. HiddenIsReplaced'
  BY DEF RepairInv, RepairTypeOK, CutFacts, HiddenIsReplaced, QueueRepair, Rep, Piece
<1> QED BY <1>1, <1>2, <1>3 DEF RepairInv

LEMMA CompleteRepairInv ==
  ASSUME RepairInv, NEW p \in Parent, CompleteRepair(p) PROVE RepairInv'
<1>1. RepairTypeOK'
  BY DEF RepairInv, RepairTypeOK, CutFacts, CompleteRepair, Rep, Piece
<1>2. CutFacts'
  BY DEF RepairInv, RepairTypeOK, CutFacts, CompleteRepair, Rep, Piece
<1>3. HiddenIsReplaced'
  BY DEF RepairInv, RepairTypeOK, CutFacts, HiddenIsReplaced, CompleteRepair, Rep, Piece
<1> QED BY <1>1, <1>2, <1>3 DEF RepairInv

LEMMA ProcessChildInv ==
  ASSUME RepairInv, NEW p \in Parent, NEW i \in Piece, ProcessChild(p, i) PROVE RepairInv'
<1>1. RepairTypeOK'
  BY DEF RepairInv, RepairTypeOK, CutFacts, ProcessChild, Rep, Piece
<1>2. CutFacts'
  BY DEF RepairInv, RepairTypeOK, CutFacts, ProcessChild, Rep, Piece
<1>3. HiddenIsReplaced'
  BY DEF RepairInv, RepairTypeOK, CutFacts, HiddenIsReplaced, ProcessChild, Rep, Piece
<1> QED BY <1>1, <1>2, <1>3 DEF RepairInv

LEMMA ClaimRepairsInv ==
  ASSUME RepairInv, NEW w \in Repairer, ClaimRepairs(w) PROVE RepairInv'
<1>1. RepairTypeOK'
  BY DEF RepairInv, RepairTypeOK, CutFacts, ClaimRepairs, Resting, On, Rep, Piece
<1>2. CutFacts'
  BY DEF RepairInv, RepairTypeOK, CutFacts, ClaimRepairs, Resting, On, Rep, Piece
<1>3. HiddenIsReplaced'
  BY DEF RepairInv, RepairTypeOK, CutFacts, HiddenIsReplaced, ClaimRepairs, Resting, On, Rep, Piece
<1> QED BY <1>1, <1>2, <1>3 DEF RepairInv

LEMMA NextRepairInv ==
  ASSUME RepairInv, NEW w \in Repairer, NextRepair(w) PROVE RepairInv'
<1>1. RepairTypeOK'
  BY DEF RepairInv, RepairTypeOK, CutFacts, NextRepair, Resting, On, Rep, Piece
<1>2. CutFacts'
  BY DEF RepairInv, RepairTypeOK, CutFacts, NextRepair, Resting, On, Rep, Piece
<1>3. HiddenIsReplaced'
  BY DEF RepairInv, RepairTypeOK, CutFacts, HiddenIsReplaced, NextRepair, Resting, On, Rep, Piece
<1> QED BY <1>1, <1>2, <1>3 DEF RepairInv

LEMMA CutBroadcastInv ==
  ASSUME RepairInv, NEW w \in Repairer, CutBroadcast(w) PROVE RepairInv'
<1>1. PICK n \in 0..MaxPieces :
        IF n < 2
          THEN /\ job' = [job EXCEPT ![rep[w].on] = "no_split"]
               /\ rep' = [rep EXCEPT ![w].pc = "next"]
          ELSE /\ rep' = [rep EXCEPT ![w] = On(@.on, "make", @.batch, n)]
               /\ UNCHANGED job
  BY DEF CutBroadcast
<1>2. UNCHANGED <<child, read, hidden, asked, closing, requests, upsets>>
  BY DEF CutBroadcast
<1>3. rep[w] \in Rep /\ rep[w].pc = "cut" /\ rep[w].on \in Parent
  BY DEF CutBroadcast, RepairInv, RepairTypeOK, CutFacts
<1>4. CASE n < 2
  <2>1. RepairTypeOK'
    BY <1>1, <1>2, <1>4 DEF RepairInv, RepairTypeOK, Rep
  <2>2. CutFacts'
    BY <1>1, <1>2, <1>4 DEF RepairInv, RepairTypeOK, CutFacts, Rep
  <2>3. HiddenIsReplaced'
    BY <1>1, <1>2, <1>4 DEF RepairInv, RepairTypeOK, HiddenIsReplaced, Rep
  <2> QED BY <2>1, <2>2, <2>3 DEF RepairInv
<1>5. CASE n >= 2
  <2> DEFINE v == On(rep[w].on, "make", rep[w].batch, n)
  <2>1. rep' = [rep EXCEPT ![w] = v] /\ job' = job
    BY <1>1, <1>5
  <2>2. v \in Rep /\ v.pc = "make" /\ v.on = rep[w].on /\ v.cuts = n /\ v.left = 1..n
        /\ v.made = {}
    BY <1>3, <1>5 DEF On, Rep, Piece
  <2>3. RepairTypeOK'
    <3> HIDE DEF v
    <3> QED BY <1>2, <2>1, <2>2 DEF RepairInv, RepairTypeOK
  <2>5. CutFacts'
    <3> HIDE DEF v
    <3> QED BY <1>2, <1>3, <1>5, <2>1, <2>2 DEF RepairInv, RepairTypeOK, CutFacts
  <2>6. HiddenIsReplaced'
    <3> HIDE DEF v
    <3> QED BY <1>2, <2>1, <2>2 DEF RepairInv, RepairTypeOK, HiddenIsReplaced
  <2> QED BY <2>3, <2>5, <2>6 DEF RepairInv
<1> QED BY <1>4, <1>5

LEMMA MakeChildInv ==
  ASSUME RepairInv, NEW w \in Repairer, MakeChild(w) PROVE RepairInv'
<1>1. RepairTypeOK'
  BY DEF RepairInv, RepairTypeOK, CutFacts, MakeChild, Rep, Piece
<1>2. CutFacts'
  BY DEF RepairInv, RepairTypeOK, CutFacts, MakeChild, Rep, Piece
<1>3. HiddenIsReplaced'
  BY DEF RepairInv, RepairTypeOK, CutFacts, HiddenIsReplaced, MakeChild, Rep, Piece
<1> QED BY <1>1, <1>2, <1>3 DEF RepairInv

LEMMA CountChildrenInv ==
  ASSUME RepairInv, NEW w \in Repairer, CountChildren(w) PROVE RepairInv'
<1>1. RepairTypeOK'
  BY DEF RepairInv, RepairTypeOK, CutFacts, CountChildren, Rep, Piece
<1>2. CutFacts'
  BY DEF RepairInv, RepairTypeOK, CutFacts, CountChildren, Rep, Piece
<1>3. HiddenIsReplaced'
  BY CutComplete DEF RepairInv, RepairTypeOK, CutFacts, HiddenIsReplaced, CountChildren, Rep, Piece
<1> QED BY <1>1, <1>2, <1>3 DEF RepairInv

LEMMA HideParentInv ==
  ASSUME RepairInv, NEW w \in Repairer, HideParent(w) PROVE RepairInv'
<1>1. RepairTypeOK'
  BY DEF RepairInv, RepairTypeOK, CutFacts, HideParent, Rep, Piece
<1>2. CutFacts'
  BY DEF RepairInv, RepairTypeOK, CutFacts, HideParent, Rep, Piece
<1>3. HiddenIsReplaced'
  BY DEF RepairInv, RepairTypeOK, CutFacts, HiddenIsReplaced, HideParent, Rep, Piece
<1> QED BY <1>1, <1>2, <1>3 DEF RepairInv

LEMMA RequeueInv ==
  ASSUME RepairInv, NEW w \in Repairer, Requeue(w) PROVE RepairInv'
<1>1. RepairTypeOK'
  <2>1. rep' \in [Repairer -> Rep]
    BY DEF RepairInv, RepairTypeOK, Requeue, Rep
  <2>2. job' \in [Parent -> {"none", "queued", "running", "completed", "no_split", "failed"}]
    BY DEF RepairInv, RepairTypeOK, Requeue
  <2> QED BY <2>1, <2>2 DEF RepairInv, RepairTypeOK, Requeue
<1>2. CutFacts'
  BY DEF RepairInv, RepairTypeOK, CutFacts, Requeue, Rep, Piece
<1>3. HiddenIsReplaced'
  BY DEF RepairInv, RepairTypeOK, CutFacts, HiddenIsReplaced, Requeue, Rep, Piece
<1> QED BY <1>1, <1>2, <1>3 DEF RepairInv

LEMMA FailRepairInv ==
  ASSUME RepairInv, NEW w \in Repairer, FailRepair(w) PROVE RepairInv'
<1>1. RepairTypeOK'
  <2>1. rep' \in [Repairer -> Rep]
    BY DEF RepairInv, RepairTypeOK, FailRepair, Rep
  <2>2. job' \in [Parent -> {"none", "queued", "running", "completed", "no_split", "failed"}]
    BY DEF RepairInv, RepairTypeOK, FailRepair
  <2> QED BY <2>1, <2>2 DEF RepairInv, RepairTypeOK, FailRepair
<1>2. CutFacts'
  BY DEF RepairInv, RepairTypeOK, CutFacts, FailRepair, Rep, Piece
<1>3. HiddenIsReplaced'
  BY DEF RepairInv, RepairTypeOK, CutFacts, HiddenIsReplaced, FailRepair, Rep, Piece
<1> QED BY <1>1, <1>2, <1>3 DEF RepairInv

LEMMA RepairRaisesInv ==
  ASSUME RepairInv, NEW w \in Repairer, RepairRaises(w) PROVE RepairInv'
<1>1. RepairTypeOK'
  BY DEF RepairInv, RepairTypeOK, CutFacts, RepairRaises, Rep, Piece
<1>2. CutFacts'
  BY DEF RepairInv, RepairTypeOK, CutFacts, RepairRaises, Rep, Piece
<1>3. HiddenIsReplaced'
  BY DEF RepairInv, RepairTypeOK, CutFacts, HiddenIsReplaced, RepairRaises, Rep, Piece
<1> QED BY <1>1, <1>2, <1>3 DEF RepairInv

LEMMA CrashRepairerInv ==
  ASSUME RepairInv, NEW w \in Repairer, CrashRepairer(w) PROVE RepairInv'
<1>1. RepairTypeOK'
  BY DEF RepairInv, RepairTypeOK, CutFacts, CrashRepairer, Resting, On, Rep, Piece
<1>2. CutFacts'
  BY DEF RepairInv, RepairTypeOK, CutFacts, CrashRepairer, Resting, On, Rep, Piece
<1>3. HiddenIsReplaced'
  BY DEF RepairInv, RepairTypeOK, CutFacts, HiddenIsReplaced, CrashRepairer, Resting, On, Rep, Piece
<1> QED BY <1>1, <1>2, <1>3 DEF RepairInv

LEMMA RestartRepairerInv ==
  ASSUME RepairInv, NEW w \in Repairer, RestartRepairer(w) PROVE RepairInv'
<1>1. RepairTypeOK'
  BY DEF RepairInv, RepairTypeOK, CutFacts, RestartRepairer, Resting, On, Rep, Piece
<1>2. CutFacts'
  BY DEF RepairInv, RepairTypeOK, CutFacts, RestartRepairer, Resting, On, Rep, Piece
<1>3. HiddenIsReplaced'
  BY DEF RepairInv, RepairTypeOK, CutFacts, HiddenIsReplaced, RestartRepairer, Resting, On, Rep, Piece
<1> QED BY <1>1, <1>2, <1>3 DEF RepairInv

LEMMA RepairNextInv == RepairInv /\ [RepairNext]_repVars => RepairInv'
<1> SUFFICES ASSUME RepairInv, [RepairNext]_repVars PROVE RepairInv'
  OBVIOUS
<1>1. ASSUME NEW p \in Parent, FindRepairable(p) \/ QueueRepair(p) \/ ChildStep(p)
      PROVE RepairInv'
  BY <1>1, FindRepairableInv, QueueRepairInv, CompleteRepairInv, ProcessChildInv DEF ChildStep
<1>2. ASSUME NEW w \in Repairer, RunOnce(w) PROVE RepairInv'
  BY <1>2, ClaimRepairsInv, NextRepairInv, CutBroadcastInv, MakeChildInv, CountChildrenInv,
     HideParentInv, RequeueInv, FailRepairInv, RestartRepairerInv DEF RunOnce
<1>3. ASSUME NEW w \in Repairer, RepairRaises(w) \/ CrashRepairer(w) PROVE RepairInv'
  BY <1>3, RepairRaisesInv, CrashRepairerInv
<1>4. CASE UNCHANGED repVars
  BY <1>4 DEF repVars, RepairInv, RepairTypeOK, CutFacts, HiddenIsReplaced
<1> QED BY <1>1, <1>2, <1>3, <1>4 DEF RepairNext, RepairAtRest

LEMMA RepairInvariant == RepairSpec => []RepairInv
BY RepairInitInv, RepairNextInv, PTL DEF RepairSpec

(* Jobs, children and what the processes hold keep their ranges.            *)
THEOREM RepairTypeCorrect == RepairSpec => []RepairTypeOK
<1>1. RepairInv => RepairTypeOK
  BY DEF RepairInv
<1> QED BY <1>1, RepairInvariant, PTL

(* For any number of broadcasts, pieces and processes, with crashes and     *)
(* failing writes at any point and jobs run any number of times: a hidden   *)
(* broadcast has its first children stored, and a process about to hide one *)
(* has stored every piece of its cut.                                       *)
THEOREM HidingIsSafe == RepairSpec => []HiddenIsReplaced
<1>1. RepairInv => HiddenIsReplaced
  BY DEF RepairInv
<1> QED BY <1>1, RepairInvariant, PTL

-----------------------------------------------------------------------------
(* The semantic index is current because, for a row that did not change     *)
(* under a worker, every worker that holds it holds its present content.    *)

(* A worker that has read a row that did not change since holds what the    *)
(* row is now, and what it has stored is in the index.                      *)
HeldIsCurrent ==
  \A e \in Entity \ crossed, w \in Indexer :
    /\ item[w][e].pc \in {"ready", "store", "mark"} =>
         item[w][e].seen = version[e] /\ version[e] > 0
    /\ item[w][e].pc = "mark" => vector[e] = version[e]

(* No attempts are handed out beyond max_attempts.                          *)
TriesLeft ==
  \A w \in Indexer, e \in Entity : item[w][e].pc = "listed" => item[w][e].tries < MaxTries

IndexInv == SemanticTypeOK /\ TriesLeft /\ HeldIsCurrent /\ IndexIsCurrent

USE SemanticAssumption

LEMMA SemanticInitInv == SemanticInit => IndexInv
BY SMT DEF SemanticInit, IndexInv, SemanticTypeOK, TriesLeft, HeldIsCurrent, IndexIsCurrent, NoTask, Out, Task, Item

LEMMA ItemPut ==
  ASSUME NEW it \in [Indexer -> [Entity -> Item]],
         NEW w \in Indexer, NEW e \in Entity, NEW v \in Item
  PROVE [it EXCEPT ![w][e] = v] \in [Indexer -> [Entity -> Item]]
OBVIOUS

LEMMA WriteRowInv ==
  ASSUME IndexInv, NEW e \in Entity, WriteRow(e) PROVE IndexInv'
<1>1. SemanticTypeOK'
  BY DEF IndexInv, SemanticTypeOK, WriteRow, Held, Task, Item
<1>2. TriesLeft'
  BY DEF IndexInv, SemanticTypeOK, TriesLeft, WriteRow, Held, Item
<1>3. HeldIsCurrent'
  BY DEF IndexInv, SemanticTypeOK, HeldIsCurrent, IndexIsCurrent, WriteRow, Held, Item, Task
<1>4. IndexIsCurrent'
  BY DEF IndexInv, SemanticTypeOK, HeldIsCurrent, IndexIsCurrent, WriteRow, Held, Item, Task
<1> QED BY <1>1, <1>2, <1>3, <1>4 DEF IndexInv

LEMMA DeleteRowInv ==
  ASSUME IndexInv, NEW e \in Entity, DeleteRow(e) PROVE IndexInv'
<1>1. SemanticTypeOK'
  BY DEF IndexInv, SemanticTypeOK, DeleteRow, Held, NoTask, Task, Item
<1>2. TriesLeft'
  BY DEF IndexInv, SemanticTypeOK, TriesLeft, DeleteRow, Held, NoTask, Item
<1>3. HeldIsCurrent'
  BY DEF IndexInv, SemanticTypeOK, HeldIsCurrent, IndexIsCurrent, DeleteRow, Held, NoTask, Item, Task
<1>4. IndexIsCurrent'
  BY DEF IndexInv, SemanticTypeOK, HeldIsCurrent, IndexIsCurrent, DeleteRow, Held, NoTask, Item, Task
<1> QED BY <1>1, <1>2, <1>3, <1>4 DEF IndexInv

LEMMA BackoffEndsInv ==
  ASSUME IndexInv, NEW e \in Entity, BackoffEnds(e) PROVE IndexInv'
<1>1. SemanticTypeOK'
  BY DEF IndexInv, SemanticTypeOK, BackoffEnds, Task, Item
<1>2. TriesLeft'
  BY DEF IndexInv, SemanticTypeOK, TriesLeft, BackoffEnds, Item
<1>3. HeldIsCurrent'
  BY DEF IndexInv, SemanticTypeOK, HeldIsCurrent, IndexIsCurrent, BackoffEnds, Item, Task
<1>4. IndexIsCurrent'
  BY DEF IndexInv, SemanticTypeOK, HeldIsCurrent, IndexIsCurrent, BackoffEnds, Item, Task
<1> QED BY <1>1, <1>2, <1>3, <1>4 DEF IndexInv

LEMMA FetchJobsInv ==
  ASSUME IndexInv, NEW w \in Indexer, FetchJobs(w) PROVE IndexInv'
<1>1. SemanticTypeOK'
  <2> DEFINE f == [e \in Entity |-> IF task[e].st \in {"pending", "failed"} /\ task[e].due
                                           /\ task[e].tries < MaxTries
                       THEN [pc |-> "listed", tries |-> task[e].tries, seen |-> 0] ELSE Out]
  <2>1. f \in [Entity -> Item]
    <3>1. \A e \in Entity : task[e].tries \in 0..MaxTries
      BY DEF IndexInv, SemanticTypeOK, Task
    <3>2. \A k \in 0..MaxTries : [pc |-> "listed", tries |-> k, seen |-> 0] \in Item
      BY DEF Item
    <3>3. Out \in Item
      BY DEF Item, Out
    <3> QED BY <3>1, <3>2, <3>3
  <2>2. item' = [item EXCEPT ![w] = f]
    BY DEF FetchJobs, IndexInv, SemanticTypeOK
  <2> HIDE DEF f
  <2>3. item' \in [Indexer -> [Entity -> Item]]
    BY <2>1, <2>2 DEF IndexInv, SemanticTypeOK
  <2>4. task' \in [Entity -> Task]
    BY DEF IndexInv, SemanticTypeOK, FetchJobs
  <2>5. vector' \in [Entity -> 0..MaxVersion]
    BY DEF IndexInv, SemanticTypeOK, FetchJobs, Item
  <2> QED BY <2>3, <2>4, <2>5 DEF IndexInv, SemanticTypeOK, FetchJobs
<1>2. TriesLeft'
  BY DEF IndexInv, SemanticTypeOK, TriesLeft, FetchJobs, Out, Item
<1>3. HeldIsCurrent'
  BY DEF IndexInv, SemanticTypeOK, HeldIsCurrent, IndexIsCurrent, FetchJobs, Out, Item, Task
<1>4. IndexIsCurrent'
  BY DEF IndexInv, SemanticTypeOK, HeldIsCurrent, IndexIsCurrent, FetchJobs, Out, Item, Task
<1> QED BY <1>1, <1>2, <1>3, <1>4 DEF IndexInv

LEMMA EmbedBatchInv ==
  ASSUME IndexInv, NEW w \in Indexer, EmbedBatch(w) PROVE IndexInv'
<1>1. SemanticTypeOK'
  <2> DEFINE f == [e \in Entity |-> IF item[w][e].pc = "ready" THEN [item[w][e] EXCEPT !.pc = "store"] ELSE Out]
  <2>1. f \in [Entity -> Item]
    <3>1. \A e \in Entity : item[w][e] \in Item
      BY DEF IndexInv, SemanticTypeOK
    <3>2. \A i \in Item : [i EXCEPT !.pc = "store"] \in Item
      BY DEF Item
    <3>3. Out \in Item
      BY DEF Item, Out
    <3> QED BY <3>1, <3>2, <3>3
  <2>2. item' = [item EXCEPT ![w] = f]
    BY DEF EmbedBatch, IndexInv, SemanticTypeOK
  <2> HIDE DEF f
  <2>3. item' \in [Indexer -> [Entity -> Item]]
    BY <2>1, <2>2 DEF IndexInv, SemanticTypeOK
  <2>4. task' \in [Entity -> Task]
    BY DEF IndexInv, SemanticTypeOK, EmbedBatch
  <2>5. vector' \in [Entity -> 0..MaxVersion]
    BY DEF IndexInv, SemanticTypeOK, EmbedBatch, Item
  <2> QED BY <2>3, <2>4, <2>5 DEF IndexInv, SemanticTypeOK, EmbedBatch
<1>2. TriesLeft'
  BY DEF IndexInv, SemanticTypeOK, TriesLeft, EmbedBatch, Prepared, Out, Item
<1>3. HeldIsCurrent'
  BY DEF IndexInv, SemanticTypeOK, HeldIsCurrent, IndexIsCurrent, EmbedBatch, Prepared, Out, Item, Task
<1>4. IndexIsCurrent'
  BY DEF IndexInv, SemanticTypeOK, HeldIsCurrent, IndexIsCurrent, EmbedBatch, Prepared, Out, Item, Task
<1> QED BY <1>1, <1>2, <1>3, <1>4 DEF IndexInv

LEMMA EmbedFailsInv ==
  ASSUME IndexInv, NEW w \in Indexer, EmbedFails(w) PROVE IndexInv'
<1>1. SemanticTypeOK'
  <2> DEFINE f == [e \in Entity |-> IF item[w][e].pc = "ready" THEN [item[w][e] EXCEPT !.pc = "fail"] ELSE Out]
  <2>1. f \in [Entity -> Item]
    <3>1. \A e \in Entity : item[w][e] \in Item
      BY DEF IndexInv, SemanticTypeOK
    <3>2. \A i \in Item : [i EXCEPT !.pc = "fail"] \in Item
      BY DEF Item
    <3>3. Out \in Item
      BY DEF Item, Out
    <3> QED BY <3>1, <3>2, <3>3
  <2>2. item' = [item EXCEPT ![w] = f]
    BY DEF EmbedFails, IndexInv, SemanticTypeOK
  <2> HIDE DEF f
  <2>3. item' \in [Indexer -> [Entity -> Item]]
    BY <2>1, <2>2 DEF IndexInv, SemanticTypeOK
  <2>4. task' \in [Entity -> Task]
    BY DEF IndexInv, SemanticTypeOK, EmbedFails
  <2>5. vector' \in [Entity -> 0..MaxVersion]
    BY DEF IndexInv, SemanticTypeOK, EmbedFails, Item
  <2> QED BY <2>3, <2>4, <2>5 DEF IndexInv, SemanticTypeOK, EmbedFails
<1>2. TriesLeft'
  BY DEF IndexInv, SemanticTypeOK, TriesLeft, EmbedFails, Prepared, Out, Item
<1>3. HeldIsCurrent'
  BY DEF IndexInv, SemanticTypeOK, HeldIsCurrent, IndexIsCurrent, EmbedFails, Prepared, Out, Item, Task
<1>4. IndexIsCurrent'
  BY DEF IndexInv, SemanticTypeOK, HeldIsCurrent, IndexIsCurrent, EmbedFails, Prepared, Out, Item, Task
<1> QED BY <1>1, <1>2, <1>3, <1>4 DEF IndexInv

LEMMA BillingStopsInv ==
  ASSUME IndexInv, NEW w \in Indexer, BillingStops(w) PROVE IndexInv'
<1>1. SemanticTypeOK'
  BY DEF IndexInv, SemanticTypeOK, BillingStops, Prepared, Out, NoTask, Task, Item
<1>2. TriesLeft'
  BY DEF IndexInv, SemanticTypeOK, TriesLeft, BillingStops, Prepared, Out, NoTask, Item
<1>3. HeldIsCurrent'
  BY DEF IndexInv, SemanticTypeOK, HeldIsCurrent, IndexIsCurrent, BillingStops, Prepared, Out, NoTask, Item, Task
<1>4. IndexIsCurrent'
  BY DEF IndexInv, SemanticTypeOK, HeldIsCurrent, IndexIsCurrent, BillingStops, Prepared, Out, NoTask, Item, Task
<1> QED BY <1>1, <1>2, <1>3, <1>4 DEF IndexInv

LEMMA PauseEndsInv ==
  ASSUME IndexInv, NEW w \in Indexer, PauseEnds(w) PROVE IndexInv'
<1>1. SemanticTypeOK'
  BY DEF IndexInv, SemanticTypeOK, PauseEnds, Task, Item
<1>2. TriesLeft'
  BY DEF IndexInv, SemanticTypeOK, TriesLeft, PauseEnds, Item
<1>3. HeldIsCurrent'
  BY DEF IndexInv, SemanticTypeOK, HeldIsCurrent, IndexIsCurrent, PauseEnds, Item, Task
<1>4. IndexIsCurrent'
  BY DEF IndexInv, SemanticTypeOK, HeldIsCurrent, IndexIsCurrent, PauseEnds, Item, Task
<1> QED BY <1>1, <1>2, <1>3, <1>4 DEF IndexInv

LEMMA CrashIndexerInv ==
  ASSUME IndexInv, NEW w \in Indexer, CrashIndexer(w) PROVE IndexInv'
<1>1. SemanticTypeOK'
  BY DEF IndexInv, SemanticTypeOK, CrashIndexer, Out, Task, Item
<1>2. TriesLeft'
  BY DEF IndexInv, SemanticTypeOK, TriesLeft, CrashIndexer, Out, Item
<1>3. HeldIsCurrent'
  BY DEF IndexInv, SemanticTypeOK, HeldIsCurrent, IndexIsCurrent, CrashIndexer, Out, Item, Task
<1>4. IndexIsCurrent'
  BY DEF IndexInv, SemanticTypeOK, HeldIsCurrent, IndexIsCurrent, CrashIndexer, Out, Item, Task
<1> QED BY <1>1, <1>2, <1>3, <1>4 DEF IndexInv

LEMMA MarkRunningInv ==
  ASSUME IndexInv, NEW w \in Indexer, NEW e \in Entity, MarkRunning(w, e) PROVE IndexInv'
<1>1. SemanticTypeOK'
  <2> DEFINE v == [item[w][e] EXCEPT !.pc = "reading"]
  <2>1. v \in Item
    BY DEF IndexInv, SemanticTypeOK, Item, Out
  <2>2. item' = [item EXCEPT ![w][e] = v]
    BY DEF MarkRunning
  <2> HIDE DEF v
  <2>3. item' \in [Indexer -> [Entity -> Item]]
    BY <2>1, <2>2, ItemPut DEF IndexInv, SemanticTypeOK
  <2>4. task' \in [Entity -> Task]
    <3>1. item[w][e].tries + 1 \in 0..MaxTries
      BY DEF IndexInv, SemanticTypeOK, TriesLeft, MarkRunning, Item
    <3>2. task' = task \/ task' = [task EXCEPT ![e] = [task[e] EXCEPT !.st = "running",
                                                   !.tries = item[w][e].tries + 1]]
      BY DEF MarkRunning, Mark
    <3> QED BY <3>1, <3>2 DEF IndexInv, SemanticTypeOK, Task
  <2>5. vector' \in [Entity -> 0..MaxVersion]
    BY DEF IndexInv, SemanticTypeOK, MarkRunning, Item
  <2> QED BY <2>3, <2>4, <2>5 DEF IndexInv, SemanticTypeOK, MarkRunning
<1>2. TriesLeft'
  BY DEF IndexInv, SemanticTypeOK, TriesLeft, MarkRunning, Mark, NoTask, Item
<1>3. HeldIsCurrent'
  BY DEF IndexInv, SemanticTypeOK, HeldIsCurrent, IndexIsCurrent, MarkRunning, Mark, NoTask, Item, Task
<1>4. IndexIsCurrent'
  BY DEF IndexInv, SemanticTypeOK, HeldIsCurrent, IndexIsCurrent, MarkRunning, Mark, NoTask, Item, Task
<1> QED BY <1>1, <1>2, <1>3, <1>4 DEF IndexInv

LEMMA ReadSourceInv ==
  ASSUME IndexInv, NEW w \in Indexer, NEW e \in Entity, ReadSource(w, e) PROVE IndexInv'
<1>1. SemanticTypeOK'
  <2> DEFINE v == IF version[e] = 0 THEN Out
                  ELSE [item[w][e] EXCEPT !.pc = "ready", !.seen = version[e]]
  <2>1. v \in Item
    <3>1. item[w][e] \in Item /\ version[e] \in 0..MaxVersion
      BY DEF IndexInv, SemanticTypeOK
    <3>2. Out \in Item
      BY DEF Item, Out
    <3> QED BY <3>1, <3>2 DEF Item
  <2>2. item' = [item EXCEPT ![w][e] = v]
    <3>1. CASE version[e] = 0
      BY <3>1 DEF ReadSource
    <3>2. CASE version[e] # 0
      BY <3>2 DEF ReadSource
    <3> QED BY <3>1, <3>2
  <2> HIDE DEF v
  <2>3. item' \in [Indexer -> [Entity -> Item]]
    BY <2>1, <2>2, ItemPut DEF IndexInv, SemanticTypeOK
  <2>4. task' \in [Entity -> Task]
    <3>1. task' = task \/ task' = [task EXCEPT ![e] = [task[e] EXCEPT !.st = "completed"]]
      BY DEF ReadSource, Mark
    <3> QED BY <3>1 DEF IndexInv, SemanticTypeOK, Task
  <2>5. vector' \in [Entity -> 0..MaxVersion]
    BY DEF IndexInv, SemanticTypeOK, ReadSource, Item
  <2> QED BY <2>3, <2>4, <2>5 DEF IndexInv, SemanticTypeOK, ReadSource
<1>a. CASE version[e] = 0
  <2>1. item' = [item EXCEPT ![w][e] = Out] /\ UNCHANGED <<version, crossed>>
        /\ vector' = [vector EXCEPT ![e] = 0]
    BY <1>a DEF ReadSource
  <2>2. TriesLeft'
    BY <2>1 DEF IndexInv, SemanticTypeOK, TriesLeft, Out
  <2>3. HeldIsCurrent'
    BY <1>a, <2>1 DEF IndexInv, SemanticTypeOK, HeldIsCurrent, Out
  <2>4. task' = task \/ task' = [task EXCEPT ![e] = [task[e] EXCEPT !.st = "completed"]]
    BY <1>a DEF ReadSource, Mark
  <2>5. IndexIsCurrent'
    BY <1>a, <2>1, <2>4 DEF IndexInv, SemanticTypeOK, IndexIsCurrent, Task
  <2> QED BY <1>1, <2>2, <2>3, <2>5 DEF IndexInv
<1>b. CASE version[e] # 0
  <2>1. /\ item' = [item EXCEPT ![w][e] = [item[w][e] EXCEPT !.pc = "ready", !.seen = version[e]]]
        /\ UNCHANGED <<version, crossed, vector, task>>
    BY <1>b DEF ReadSource
  <2>2. TriesLeft'
    BY <2>1 DEF IndexInv, SemanticTypeOK, TriesLeft, Item
  <2>3. HeldIsCurrent'
    BY <1>b, <2>1 DEF IndexInv, SemanticTypeOK, HeldIsCurrent, Item
  <2>4. IndexIsCurrent'
    BY <2>1 DEF IndexInv, IndexIsCurrent
  <2> QED BY <1>1, <2>2, <2>3, <2>4 DEF IndexInv
<1> QED BY <1>a, <1>b

LEMMA StoreVectorInv ==
  ASSUME IndexInv, NEW w \in Indexer, NEW e \in Entity, StoreVector(w, e) PROVE IndexInv'
<1>1. SemanticTypeOK'
  <2> DEFINE v == [item[w][e] EXCEPT !.pc = "mark"]
  <2>1. v \in Item
    BY DEF IndexInv, SemanticTypeOK, Item, Out
  <2>2. item' = [item EXCEPT ![w][e] = v]
    BY DEF StoreVector
  <2> HIDE DEF v
  <2>3. item' \in [Indexer -> [Entity -> Item]]
    BY <2>1, <2>2, ItemPut DEF IndexInv, SemanticTypeOK
  <2>4. task' \in [Entity -> Task]
    BY DEF IndexInv, SemanticTypeOK, StoreVector
  <2>5. vector' \in [Entity -> 0..MaxVersion]
    BY DEF IndexInv, SemanticTypeOK, StoreVector, Item
  <2> QED BY <2>3, <2>4, <2>5 DEF IndexInv, SemanticTypeOK, StoreVector
<1>2. TriesLeft'
  BY DEF IndexInv, SemanticTypeOK, TriesLeft, StoreVector, Item
<1>3. HeldIsCurrent'
  BY DEF IndexInv, SemanticTypeOK, HeldIsCurrent, IndexIsCurrent, StoreVector, Item, Task
<1>4. IndexIsCurrent'
  BY DEF IndexInv, SemanticTypeOK, HeldIsCurrent, IndexIsCurrent, StoreVector, Item, Task
<1> QED BY <1>1, <1>2, <1>3, <1>4 DEF IndexInv

LEMMA MarkCompletedInv ==
  ASSUME IndexInv, NEW w \in Indexer, NEW e \in Entity, MarkCompleted(w, e) PROVE IndexInv'
<1>1. SemanticTypeOK'
  <2> DEFINE v == Out
  <2>1. v \in Item
    BY DEF IndexInv, SemanticTypeOK, Item, Out
  <2>2. item' = [item EXCEPT ![w][e] = v]
    BY DEF MarkCompleted
  <2> HIDE DEF v
  <2>3. item' \in [Indexer -> [Entity -> Item]]
    BY <2>1, <2>2, ItemPut DEF IndexInv, SemanticTypeOK
  <2>4. task' \in [Entity -> Task]
    <3>1. task' = task \/ task' = [task EXCEPT ![e] = [task[e] EXCEPT !.st = "completed"]]
      BY DEF MarkCompleted, Mark
    <3> QED BY <3>1 DEF IndexInv, SemanticTypeOK, Task
  <2>5. vector' \in [Entity -> 0..MaxVersion]
    BY DEF IndexInv, SemanticTypeOK, MarkCompleted, Item
  <2> QED BY <2>3, <2>4, <2>5 DEF IndexInv, SemanticTypeOK, MarkCompleted
<1>2. TriesLeft'
  BY DEF IndexInv, SemanticTypeOK, TriesLeft, MarkCompleted, Mark, NoTask, Out, Item
<1>3. HeldIsCurrent'
  BY DEF IndexInv, SemanticTypeOK, HeldIsCurrent, IndexIsCurrent, MarkCompleted, Mark, NoTask, Out, Item, Task
<1>4. IndexIsCurrent'
  BY DEF IndexInv, SemanticTypeOK, HeldIsCurrent, IndexIsCurrent, MarkCompleted, Mark, NoTask, Out, Item, Task
<1> QED BY <1>1, <1>2, <1>3, <1>4 DEF IndexInv

LEMMA FailTaskInv ==
  ASSUME IndexInv, NEW w \in Indexer, NEW e \in Entity, FailTask(w, e) PROVE IndexInv'
<1>1. SemanticTypeOK'
  <2> DEFINE v == Out
  <2>1. v \in Item
    BY DEF IndexInv, SemanticTypeOK, Item, Out
  <2>2. item' = [item EXCEPT ![w][e] = v]
    BY DEF FailTask
  <2> HIDE DEF v
  <2>3. item' \in [Indexer -> [Entity -> Item]]
    BY <2>1, <2>2, ItemPut DEF IndexInv, SemanticTypeOK
  <2>4. task' \in [Entity -> Task]
    <3>1. task' = task \/ task' = [task EXCEPT ![e] = [task[e] EXCEPT !.st = "failed", !.due = FALSE]]
      BY DEF FailTask, Mark
    <3> QED BY <3>1 DEF IndexInv, SemanticTypeOK, Task
  <2>5. vector' \in [Entity -> 0..MaxVersion]
    BY DEF IndexInv, SemanticTypeOK, FailTask, Item
  <2> QED BY <2>3, <2>4, <2>5 DEF IndexInv, SemanticTypeOK, FailTask
<1>2. TriesLeft'
  BY DEF IndexInv, SemanticTypeOK, TriesLeft, FailTask, Mark, NoTask, Out, Item
<1>3. HeldIsCurrent'
  BY DEF IndexInv, SemanticTypeOK, HeldIsCurrent, IndexIsCurrent, FailTask, Mark, NoTask, Out, Item, Task
<1>4. IndexIsCurrent'
  BY DEF IndexInv, SemanticTypeOK, HeldIsCurrent, IndexIsCurrent, FailTask, Mark, NoTask, Out, Item, Task
<1> QED BY <1>1, <1>2, <1>3, <1>4 DEF IndexInv

LEMMA ItemRaisesInv ==
  ASSUME IndexInv, NEW w \in Indexer, NEW e \in Entity, ItemRaises(w, e) PROVE IndexInv'
<1>1. SemanticTypeOK'
  <2> DEFINE v == [item[w][e] EXCEPT !.pc = "fail"]
  <2>1. v \in Item
    BY DEF IndexInv, SemanticTypeOK, Item, Out
  <2>2. item' = [item EXCEPT ![w][e] = v]
    BY DEF ItemRaises
  <2> HIDE DEF v
  <2>3. item' \in [Indexer -> [Entity -> Item]]
    BY <2>1, <2>2, ItemPut DEF IndexInv, SemanticTypeOK
  <2>4. task' \in [Entity -> Task]
    BY DEF IndexInv, SemanticTypeOK, ItemRaises
  <2>5. vector' \in [Entity -> 0..MaxVersion]
    BY DEF IndexInv, SemanticTypeOK, ItemRaises, Item
  <2> QED BY <2>3, <2>4, <2>5 DEF IndexInv, SemanticTypeOK, ItemRaises
<1>2. TriesLeft'
  BY DEF IndexInv, SemanticTypeOK, TriesLeft, ItemRaises, Item
<1>3. HeldIsCurrent'
  BY DEF IndexInv, SemanticTypeOK, HeldIsCurrent, IndexIsCurrent, ItemRaises, Item, Task
<1>4. IndexIsCurrent'
  BY DEF IndexInv, SemanticTypeOK, HeldIsCurrent, IndexIsCurrent, ItemRaises, Item, Task
<1> QED BY <1>1, <1>2, <1>3, <1>4 DEF IndexInv

LEMMA SemanticNextInv == IndexInv /\ [SemanticNext]_semVars => IndexInv'
<1> SUFFICES ASSUME IndexInv, [SemanticNext]_semVars PROVE IndexInv'
  OBVIOUS
<1>1. ASSUME NEW e \in Entity, WriteRow(e) \/ DeleteRow(e) \/ BackoffEnds(e)
      PROVE IndexInv'
  BY <1>1, WriteRowInv, DeleteRowInv, BackoffEndsInv
<1>2. ASSUME NEW w \in Indexer, IndexStep(w) PROVE IndexInv'
  BY <1>2, FetchJobsInv, EmbedBatchInv, PauseEndsInv, MarkRunningInv, ReadSourceInv,
     StoreVectorInv, MarkCompletedInv, FailTaskInv DEF IndexStep
<1>3. ASSUME NEW w \in Indexer,
             EmbedFails(w) \/ BillingStops(w) \/ CrashIndexer(w)
               \/ \E e \in Entity : ItemRaises(w, e)
      PROVE IndexInv'
  BY <1>3, EmbedFailsInv, BillingStopsInv, CrashIndexerInv, ItemRaisesInv
<1>4. CASE UNCHANGED semVars
  BY <1>4 DEF semVars, IndexInv, SemanticTypeOK, TriesLeft, HeldIsCurrent, IndexIsCurrent
<1> QED BY <1>1, <1>2, <1>3, <1>4 DEF SemanticNext, IndexAtRest

(* The whole invariant holds in every behaviour, whatever fails.            *)
THEOREM IndexInvariant == SemanticSpec => []IndexInv
BY SemanticInitInv, SemanticNextInv, PTL DEF SemanticSpec

(* Jobs, vectors and counters keep their ranges; in particular no job is    *)
(* attempted more than max_attempts times between two changes of its row.   *)
THEOREM SemanticTypeCorrect == SemanticSpec => []SemanticTypeOK
<1>1. IndexInv => SemanticTypeOK
  BY DEF IndexInv
<1> QED BY <1>1, IndexInvariant, PTL

(* For any number of rows and workers: a completed job means the vector is  *)
(* of the row as it is, and a row that is gone has no vector, unless the    *)
(* row changed while a worker was between reading it and finishing its job. *)
THEOREM CompletedIsCurrent == SemanticSpec => []IndexIsCurrent
<1>1. IndexInv => IndexIsCurrent
  BY DEF IndexInv
<1> QED BY <1>1, IndexInvariant, PTL
=============================================================================
