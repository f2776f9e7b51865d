----------------------------- MODULE BuildingJobs -----------------------------
(***************************************************************************)
(* Building enrichment.  Discovery and people queue a job per building,    *)
(* an operator approves or rejects it, and the worker takes the due jobs   *)
(* of a poll into a thread pool: claim, name check, cached answer or paid  *)
(* request, and then the building or a suggestion is written and the job   *)
(* closed, or retried later.  The next poll starts when the pool is empty; *)
(* it first takes back claims that have been running for too long.         *)
(***************************************************************************)
EXTENDS Naturals, FiniteSets

CONSTANTS
  BJob,        \* jobs, one per building
  Enricher,    \* worker processes
  Operator,    \* people reviewing jobs
  BadName,     \* jobs whose building was discovered under no building's name
  MaxRetries,  \* the smaller of max_attempts and max_retries
  MaxAsks,     \* bound on what people and discovery ask for
  MaxFalls,    \* bound on failing statements and dying processes
  NoJob

ASSUME BuildingAssumption ==
  /\ MaxRetries \in Nat \ {0}
  /\ {MaxAsks, MaxFalls} \subseteq Nat
  /\ BadName \subseteq BJob
  /\ NoJob \notin BJob

VARIABLES
  jobs,     \* building_enrichment_jobs; due: scheduled_after has come or, of a
            \* running job, started_at is ten minutes ago
  site,     \* buildings.status
  bad,      \* buildings whose name is refused
  answer,   \* entity_enrichment_cache for the present name and evidence
  disk,     \* the provider's own cache files
  noted,    \* ai_suggestions
  poll,     \* _process_batch of a worker
  overdue,  \* the stale claims a worker's recovery has listed
  run,      \* run[w][j]: the worker's thread for a job
  keyed,    \* workers that found a configured provider when they started
  review,   \* the job an operator has looked up
  asks, falls

bvars == <<jobs, site, bad, answer, disk, noted, poll, overdue, run, keyed,
           review, asks, falls>>

Status == {"none", "needs_review", "pending", "running", "completed", "failed", "rejected"}
Answer == {"none", "strong", "weak", "error"}
Job == [status : Status, tries : 0..MaxRetries, due : BOOLEAN]
Thread == [pc : {"out", "listed", "read", "check", "look", "call", "keep", "apply",
                 "mark", "suggest", "close", "fail", "unresolved"},
           got : Answer, tries : 0..MaxRetries, fresh : BOOLEAN]
Idle == [pc |-> "out", got |-> "none", tries |-> 0, fresh |-> TRUE]

BuildingTypeOK ==
  /\ jobs \in [BJob -> Job]
  /\ site \in [BJob -> {"discovered", "enriched", "unresolved"}]
  /\ bad \subseteq BJob
  /\ answer \in [BJob -> Answer \ {"error"}]
  /\ disk \in [BJob -> Answer]
  /\ noted \subseteq BJob
  /\ poll \in [Enricher -> {"idle", "recover", "work", "gone"}]
  /\ overdue \in [Enricher -> SUBSET BJob]
  /\ run \in [Enricher -> [BJob -> Thread]]
  /\ keyed \subseteq Enricher
  /\ review \in [Operator -> BJob \cup {NoJob}]
  /\ asks \in 0..MaxAsks
  /\ falls \in 0..MaxFalls

BuildingInit ==
  /\ jobs = [j \in BJob |-> [status |-> "none", tries |-> 0, due |-> FALSE]]
  /\ site = [j \in BJob |-> "discovered"]
  /\ bad = BadName
  /\ answer = [j \in BJob |-> "none"]
  /\ disk = [j \in BJob |-> "none"]
  /\ noted = {}
  /\ poll = [w \in Enricher |-> "idle"]
  /\ overdue = [w \in Enricher |-> {}]
  /\ run = [w \in Enricher |-> [j \in BJob |-> Idle]]
  /\ keyed = Enricher
  /\ review = [o \in Operator |-> NoJob]
  /\ asks = 0 /\ falls = 0

Step(w, j, pc) == run' = [run EXCEPT ![w][j].pc = pc]
Drop(w, j) == run' = [run EXCEPT ![w][j] = Idle]
SetStatus(j, s) == jobs' = [jobs EXCEPT ![j].status = s]

(* The name or the evidence of a building changes: answers found for the    *)
(* old one no longer apply, and a thread at work would keep its own there.  *)
Forget(j) ==
  /\ answer' = [answer EXCEPT ![j] = "none"]
  /\ run' = [w \in Enricher |-> [run[w] EXCEPT ![j].fresh = (@ /\ run[w][j].pc = "out")]]

-----------------------------------------------------------------------------
(* Who queues jobs. *)

(* create_building_enrichment_job: by discovery, for review, while the      *)
(* building is only discovered; by a person, for the worker.                *)
Enqueue(j, reviewed) ==
  /\ asks < MaxAsks
  /\ jobs[j].status \notin {"pending", "running"}
  /\ reviewed => site[j] = "discovered"
  /\ jobs' = [jobs EXCEPT ![j] = [status |-> IF reviewed THEN "needs_review" ELSE "pending",
                                  tries |-> 0, due |-> TRUE]]
  /\ asks' = asks + 1
  /\ UNCHANGED <<site, bad, answer, disk, noted, poll, overdue, run, keyed, review, falls>>

(* review_building_enrichment_job looks at the status ...                   *)
OpenReview(o, j) ==
  /\ asks < MaxAsks /\ review[o] = NoJob
  /\ jobs[j].status \notin {"none", "running", "completed"}
  /\ review' = [review EXCEPT ![o] = j]
  /\ asks' = asks + 1
  /\ UNCHANGED <<jobs, site, bad, answer, disk, noted, poll, overdue, run, keyed, falls>>

(* ... and writes, whatever the status is by then.                          *)
ReviewReject(o) ==
  /\ review[o] # NoJob
  /\ SetStatus(review[o], "rejected")
  /\ review' = [review EXCEPT ![o] = NoJob]
  /\ UNCHANGED <<site, bad, answer, disk, noted, poll, overdue, run, keyed, asks, falls>>

(* A name that is refused must be corrected; any other may be.              *)
ReviewEnrich(o) ==
  LET j == review[o] IN
  /\ j # NoJob
  /\ jobs' = [jobs EXCEPT ![j] = [status |-> "pending", tries |-> 0, due |-> TRUE]]
  /\ review' = [review EXCEPT ![o] = NoJob]
  /\ \/ /\ j \notin bad
        /\ UNCHANGED <<bad, answer, disk, run>>
     \/ /\ bad' = bad \ {j}
        /\ disk' = [disk EXCEPT ![j] = "none"]
        /\ Forget(j)
  /\ UNCHANGED <<site, noted, poll, overdue, keyed, asks, falls>>

(* New listings change the evidence (and so the cache key), or the cached   *)
(* answer expires.                                                          *)
EvidenceChanges(j) ==
  /\ asks < MaxAsks /\ answer[j] # "none"
  /\ asks' = asks + 1
  /\ Forget(j)
  /\ disk' \in {disk, [disk EXCEPT ![j] = "none"]}
  /\ UNCHANGED <<jobs, site, bad, noted, poll, overdue, keyed, review, falls>>

-----------------------------------------------------------------------------
(* _process_batch *)

(* Mutant: attempts <= max_attempts.                                        *)
MutRetriedLate(j) ==
  IF jobs[j].tries <= MaxRetries
    THEN [jobs[j] EXCEPT !.status = "pending", !.due = FALSE]
    ELSE [jobs[j] EXCEPT !.status = "failed"]

(* retry_building_job: later again, or failed for good.                     *)
Retried(j) ==
  IF jobs[j].tries < MaxRetries
    THEN [jobs[j] EXCEPT !.status = "pending", !.due = FALSE]
    ELSE [jobs[j] EXCEPT !.status = "failed"]

(* Mutant: nobody looks for abandoned claims.                               *)
MutNoRecovery(w) ==
  /\ poll[w] = "idle"
  /\ poll' = [poll EXCEPT ![w] = "recover"]
  /\ UNCHANGED <<jobs, site, bad, answer, disk, noted, overdue, run, keyed, review, asks, falls>>

(* recover_stale_building_jobs: list, then one job after the other.         *)
PollStale(w) ==
  /\ poll[w] = "idle"
  /\ poll' = [poll EXCEPT ![w] = "recover"]
  /\ overdue' = [overdue EXCEPT ![w] = {j \in BJob : jobs[j].status = "running" /\ jobs[j].due}]
  /\ UNCHANGED <<jobs, site, bad, answer, disk, noted, run, keyed, review, asks, falls>>

RecoverOne(w, j) ==
  /\ poll[w] = "recover" /\ j \in overdue[w]
  /\ jobs' = [jobs EXCEPT ![j] = Retried(j)]
  /\ overdue' = [overdue EXCEPT ![w] = @ \ {j}]
  /\ UNCHANGED <<site, bad, answer, disk, noted, poll, run, keyed, review, asks, falls>>

(* get_pending_building_jobs *)
ListPending(w) ==
  /\ poll[w] = "recover" /\ overdue[w] = {}
  /\ poll' = [poll EXCEPT ![w] = "work"]
  /\ run' = [run EXCEPT ![w] = [j \in BJob |->
               IF jobs[j].status = "pending" /\ jobs[j].due
                 THEN [Idle EXCEPT !.pc = "listed"] ELSE Idle]]
  /\ UNCHANGED <<jobs, site, bad, answer, disk, noted, overdue, keyed, review, asks, falls>>

BatchDone(w) ==
  /\ poll[w] = "work" /\ \A j \in BJob : run[w][j].pc = "out"
  /\ poll' = [poll EXCEPT ![w] = "idle"]
  /\ UNCHANGED <<jobs, site, bad, answer, disk, noted, overdue, run, keyed, review, asks, falls>>

-----------------------------------------------------------------------------
(* _process_job *)

(* Without a configured provider the job is failed as it was listed.        *)
NoProvider(w, j) ==
  /\ run[w][j].pc = "listed" /\ w \notin keyed
  /\ SetStatus(j, "failed")
  /\ Drop(w, j)
  /\ UNCHANGED <<site, bad, answer, disk, noted, poll, overdue, keyed, review, asks, falls>>

(* claim_building_job: read, conditional update, and a look at the status.  *)
ClaimRead(w, j) ==
  /\ run[w][j].pc = "listed" /\ w \in keyed
  /\ IF jobs[j].status = "pending"
       THEN run' = [run EXCEPT ![w][j].pc = "read", ![w][j].tries = jobs[j].tries]
       ELSE Drop(w, j)
  /\ UNCHANGED <<jobs, site, bad, answer, disk, noted, poll, overdue, keyed, review, asks, falls>>

ClaimUpdate(w, j) ==
  /\ run[w][j].pc = "read"
  /\ IF jobs[j].status = "pending"
       THEN jobs' = [jobs EXCEPT ![j] = [status |-> "running", due |-> FALSE,
                                         tries |-> run[w][j].tries + 1]]
       ELSE UNCHANGED jobs
  /\ Step(w, j, "check")
  /\ UNCHANGED <<site, bad, answer, disk, noted, poll, overdue, keyed, review, asks, falls>>

ClaimCheck(w, j) ==
  /\ run[w][j].pc = "check"
  /\ IF jobs[j].status = "running" THEN Step(w, j, "look") ELSE Drop(w, j)
  /\ UNCHANGED <<jobs, site, bad, answer, disk, noted, poll, overdue, keyed, review, asks, falls>>

(* building_name_problem: failed at once, without retries.                  *)
RefuseName(w, j) ==
  /\ run[w][j].pc = "look" /\ j \in bad
  /\ SetStatus(j, "failed")
  /\ Step(w, j, "unresolved")
  /\ UNCHANGED <<site, bad, answer, disk, noted, poll, overdue, keyed, review, asks, falls>>

(* Mutant: an empty answer falls through to complete_building_job.          *)
MutAfterEmptyIsDone(got) ==
  CASE got = "strong" -> "apply" [] got = "weak" -> "suggest" [] OTHER -> "close"

(* What follows an answer; one without fields is a failure, and confidence  *)
(* decides between the building and a suggestion.                           *)
After(got) ==
  CASE got = "strong" -> "apply" [] got = "weak" -> "suggest" [] OTHER -> "fail"

(* Mutant: only an answer that can be applied is reused.                    *)
MutCacheOnlyStrong(w, j) ==
  /\ run[w][j].pc = "look" /\ j \notin bad
  /\ run' = [run EXCEPT ![w][j].pc = IF answer[j] = "strong" THEN "keep" ELSE "call",
                        ![w][j].got = answer[j]]
  /\ UNCHANGED <<jobs, site, bad, answer, disk, noted, poll, overdue, keyed, review, asks, falls>>

LookInCache(w, j) ==
  /\ run[w][j].pc = "look" /\ j \notin bad
  /\ run' = [run EXCEPT ![w][j].pc = IF answer[j] = "none" THEN "call" ELSE "keep",
                        ![w][j].got = answer[j]]
  /\ UNCHANGED <<jobs, site, bad, answer, disk, noted, poll, overdue, keyed, review, asks, falls>>

(* GooglePlacesProvider.enrich: its cache file, or the billed request,      *)
(* whose answer is saved there, be it an error.                             *)
CallProvider(w, j) ==
  /\ run[w][j].pc = "call"
  /\ \E got \in IF disk[j] = "none" THEN Answer \ {"none"} ELSE {disk[j]} :
       /\ disk' = [disk EXCEPT ![j] = got]
       /\ run' = [run EXCEPT ![w][j].pc = IF got = "error" THEN After(got) ELSE "keep",
                             ![w][j].got = got]
  /\ UNCHANGED <<jobs, site, bad, answer, noted, poll, overdue, keyed, review, asks, falls>>

(* put_entity_enrichment_cache, before anything else is written.            *)
KeepAnswer(w, j) ==
  /\ run[w][j].pc = "keep"
  /\ answer' = IF run[w][j].fresh THEN [answer EXCEPT ![j] = run[w][j].got] ELSE answer
  /\ Step(w, j, After(run[w][j].got))
  /\ UNCHANGED <<jobs, site, bad, disk, noted, poll, overdue, keyed, review, asks, falls>>

(* The alias, the building's fields and its listings; not the status.       *)
ApplyFields(w, j) ==
  /\ run[w][j].pc = "apply"
  /\ Step(w, j, "mark")
  /\ UNCHANGED <<jobs, site, bad, answer, disk, noted, poll, overdue, keyed, review, asks, falls>>

MarkEnriched(w, j) ==
  /\ run[w][j].pc = "mark"
  /\ site' = [site EXCEPT ![j] = "enriched"]
  /\ Step(w, j, "close")
  /\ UNCHANGED <<jobs, bad, answer, disk, noted, poll, overdue, keyed, review, asks, falls>>

(* create_enrichment_review_suggestion *)
Suggest(w, j) ==
  /\ run[w][j].pc = "suggest"
  /\ noted' = noted \cup {j}
  /\ Step(w, j, "close")
  /\ UNCHANGED <<jobs, site, bad, answer, disk, poll, overdue, keyed, review, asks, falls>>

CloseJob(w, j) ==
  /\ run[w][j].pc = "close"
  /\ SetStatus(j, "completed")
  /\ Drop(w, j)
  /\ UNCHANGED <<site, bad, answer, disk, noted, poll, overdue, keyed, review, asks, falls>>

(* fail *)
FailJob(w, j) ==
  /\ run[w][j].pc = "fail"
  /\ jobs' = [jobs EXCEPT ![j] = Retried(j)]
  /\ IF Retried(j).status = "failed" THEN Step(w, j, "unresolved") ELSE Drop(w, j)
  /\ UNCHANGED <<site, bad, answer, disk, noted, poll, overdue, keyed, review, asks, falls>>

MarkUnresolved(w, j) ==
  /\ run[w][j].pc = "unresolved"
  /\ site' = [site EXCEPT ![j] = "unresolved"]
  /\ Drop(w, j)
  /\ UNCHANGED <<jobs, bad, answer, disk, noted, poll, overdue, keyed, review, asks, falls>>

(* A statement raises: inside the try the job is failed, outside of it, and *)
(* in fail itself, the thread ends and the job stays as it is.              *)
StorageRaises(w, j) ==
  /\ run[w][j].pc # "out" /\ falls < MaxFalls
  /\ falls' = falls + 1
  /\ IF run[w][j].pc \in {"look", "keep", "apply", "mark", "suggest", "close"}
       THEN Step(w, j, "fail") ELSE Drop(w, j)
  /\ UNCHANGED <<jobs, site, bad, answer, disk, noted, poll, overdue, keyed, review, asks>>

(* The process dies and a new one starts, perhaps in a new container (no    *)
(* cache files) or without a key for the provider.                          *)
CrashEnricher(w) ==
  /\ poll[w] # "gone" /\ falls < MaxFalls
  /\ falls' = falls + 1
  /\ poll' = [poll EXCEPT ![w] = "gone"]
  /\ overdue' = [overdue EXCEPT ![w] = {}]
  /\ run' = [run EXCEPT ![w] = [j \in BJob |-> Idle]]
  /\ UNCHANGED <<jobs, site, bad, answer, disk, noted, keyed, review, asks>>

RestartEnricher(w) ==
  /\ poll[w] = "gone"
  /\ poll' = [poll EXCEPT ![w] = "idle"]
  /\ keyed' \in {keyed, keyed \ {w}}
  /\ disk' \in {disk, [j \in BJob |-> "none"]}
  /\ UNCHANGED <<jobs, site, bad, answer, noted, overdue, run, review, asks, falls>>

ClockPasses(j) ==
  /\ jobs[j].status \in {"pending", "running"} /\ ~jobs[j].due
  /\ jobs' = [jobs EXCEPT ![j].due = TRUE]
  /\ UNCHANGED <<site, bad, answer, disk, noted, poll, overdue, run, keyed, review, asks, falls>>

-----------------------------------------------------------------------------
Poll(w) ==
  \/ PollStale(w) \/ ListPending(w) \/ BatchDone(w) \/ RestartEnricher(w)
  \/ \E j \in BJob : RecoverOne(w, j)

ProcessJob(w, j) ==
  \/ NoProvider(w, j) \/ ClaimRead(w, j) \/ ClaimUpdate(w, j) \/ ClaimCheck(w, j)
  \/ RefuseName(w, j) \/ LookInCache(w, j) \/ CallProvider(w, j) \/ KeepAnswer(w, j)
  \/ ApplyFields(w, j) \/ MarkEnriched(w, j) \/ Suggest(w, j) \/ CloseJob(w, j)
  \/ FailJob(w, j) \/ MarkUnresolved(w, j)

Operators ==
  \/ \E j \in BJob, reviewed \in BOOLEAN : Enqueue(j, reviewed)
  \/ \E o \in Operator : ReviewReject(o) \/ ReviewEnrich(o) \/ \E j \in BJob : OpenReview(o, j)

BuildingNext ==
  \/ Operators
  \/ \E j \in BJob : EvidenceChanges(j) \/ ClockPasses(j)
  \/ \E w \in Enricher : \/ Poll(w) \/ CrashEnricher(w)
                         \/ \E j \in BJob : ProcessJob(w, j) \/ StorageRaises(w, j)

BuildingSpec == BuildingInit /\ [][BuildingNext]_bvars

(* The worker polls for ever and is restarted, its threads go on, and time  *)
(* passes; nobody has to ask for anything.                                  *)
BuildingFairness ==
  /\ \A w \in Enricher : WF_bvars(Poll(w))
  /\ \A w \in Enricher, j \in BJob : WF_bvars(ProcessJob(w, j))
  /\ \A j \in BJob : WF_bvars(ClockPasses(j))

FairBuildingSpec == BuildingSpec /\ BuildingFairness

-----------------------------------------------------------------------------
(* Properties *)

(* "Retries can therefore reuse it ..., avoiding another billable provider  *)
(* request": no thread is at the billed request while the answer for the    *)
(* present evidence is stored, whatever failed or was reviewed in between.  *)
PaidOnce ==
  \A w \in Enricher, j \in BJob : run[w][j].pc = "call" => answer[j] = "none"

(* "An empty result is never success": a job is completed only with the     *)
(* building enriched or a suggestion waiting for review, and a building     *)
(* under a refused name is never enriched.                                  *)
CompletedMeansDone ==
  \A j \in BJob :
    /\ jobs[j].status = "completed" => site[j] = "enriched" \/ j \in noted
    /\ j \in bad => site[j] # "enriched" /\ j \notin noted

(* Every job that is handed to the worker is completed, failed or rejected, *)
(* or goes back to review: claims of a dead process are recovered and no    *)
(* job is rescheduled for ever.                                             *)
JobsSettle ==
  \A j \in BJob : jobs[j].status \in {"pending", "running"}
                    ~> jobs[j].status \notin {"pending", "running"}
=============================================================================
