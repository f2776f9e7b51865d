---------------------------- MODULE SemanticIndex ----------------------------
(***************************************************************************)
(* The semantic index.  A trigger on the source tables queues a job for    *)
(* every insert and update and drops the vector and the job of a deleted   *)
(* row.  The worker lists due jobs, marks each running and reads its row,  *)
(* embeds the whole batch in one request and stores the vectors.           *)
(***************************************************************************)
EXTENDS Naturals, FiniteSets

CONSTANTS
  Entity,       \* rows of the indexed tables
  Indexer,      \* worker processes
  MaxVersion,   \* bound on the edits of a row
  MaxTries,     \* max_attempts
  MaxTrips      \* bound on failing requests and dying processes

ASSUME SemanticAssumption ==
  /\ {MaxVersion, MaxTries} \subseteq Nat \ {0}
  /\ MaxTrips \in Nat

VARIABLES
  version,   \* content of a row; 0 when it is not there
  removed,   \* rows that were deleted (ids are not used again)
  vector,    \* the version the stored vector was made from; 0 without vector
  task,      \* semantic_embedding_jobs
  item,      \* item[w][e]: the worker's copy of a job in its batch
  paused,    \* workers that stopped after an unpaid bill
  trips,
  crossed    \* history: rows that changed between a worker's read of them and
             \* the end of their job, and rows a dead worker left running

semVars == <<version, removed, vector, task, item, paused, trips, crossed>>

NoTask == [st |-> "none", tries |-> 0, due |-> FALSE]
Out == [pc |-> "out", tries |-> 0, seen |-> 0]

Task == [st : {"none", "pending", "running", "failed", "completed"},
         tries : 0..MaxTries, due : BOOLEAN]
Item == [pc : {"out", "listed", "reading", "ready", "store", "mark", "fail"},
         tries : 0..MaxTries, seen : 0..MaxVersion]

SemanticTypeOK ==
  /\ version \in [Entity -> 0..MaxVersion]
  /\ removed \subseteq Entity
  /\ vector \in [Entity -> 0..MaxVersion]
  /\ task \in [Entity -> Task]
  /\ item \in [Indexer -> [Entity -> Item]]
  /\ paused \subseteq Indexer
  /\ trips \in 0..MaxTrips
  /\ crossed \subseteq Entity

SemanticInit ==
  /\ version = [e \in Entity |-> 0]
  /\ removed = {}
  /\ vector = [e \in Entity |-> 0]
  /\ task = [e \in Entity |-> NoTask]
  /\ item = [w \in Indexer |-> [e \in Entity |-> Out]]
  /\ paused = {} /\ trips = 0 /\ crossed = {}

(* Between the read of its row and the end of its job.  (History only.) *)
Held(e) == \E w \in Indexer : item[w][e].pc \in {"ready", "store", "mark"}

(* _mark: an update of a job row that may be gone. *)
Mark(e, new) == task' = IF task[e] = NoTask THEN task ELSE [task EXCEPT ![e] = new]

-----------------------------------------------------------------------------
(* queue_semantic_embedding *)

WriteRow(e) ==
  /\ e \notin removed /\ version[e] < MaxVersion
  /\ version' = [version EXCEPT ![e] = @ + 1]
  /\ task' = [task EXCEPT ![e] = [st |-> "pending", tries |-> 0, due |-> TRUE]]
  /\ crossed' = IF Held(e) THEN crossed \cup {e} ELSE crossed
  /\ UNCHANGED <<removed, vector, item, paused, trips>>

(* Mutant: the vector of a deleted row stays.                               *)
MutDeleteKeepsVector(e) ==
  /\ version[e] > 0
  /\ version' = [version EXCEPT ![e] = 0]
  /\ removed' = removed \cup {e}
  /\ task' = [task EXCEPT ![e] = NoTask]
  /\ crossed' = IF Held(e) THEN crossed \cup {e} ELSE crossed
  /\ UNCHANGED <<vector, item, paused, trips>>

DeleteRow(e) ==
  /\ version[e] > 0
  /\ version' = [version EXCEPT ![e] = 0]
  /\ removed' = removed \cup {e}
  /\ vector' = [vector EXCEPT ![e] = 0]
  /\ task' = [task EXCEPT ![e] = NoTask]
  /\ crossed' = IF Held(e) THEN crossed \cup {e} ELSE crossed
  /\ UNCHANGED <<item, paused, trips>>

-----------------------------------------------------------------------------
(* run_once *)

(* _fetch_jobs: due, not finished, attempts left.  Nothing is claimed here. *)
FetchJobs(w) ==
  LET due == {e \in Entity : /\ task[e].st \in {"pending", "failed"}
                             /\ task[e].due /\ task[e].tries < MaxTries} IN
  /\ w \notin paused /\ due # {}
  /\ \A e \in Entity : item[w][e].pc = "out"
  /\ item' = [item EXCEPT ![w] = [e \in Entity |->
                IF e \in due THEN [pc |-> "listed", tries |-> task[e].tries, seen |-> 0]
                ELSE Out]]
  /\ UNCHANGED <<version, removed, vector, task, paused, trips, crossed>>

MarkRunning(w, e) ==
  /\ item[w][e].pc = "listed"
  /\ Mark(e, [task[e] EXCEPT !.st = "running", !.tries = item[w][e].tries + 1])
  /\ item' = [item EXCEPT ![w][e].pc = "reading"]
  /\ UNCHANGED <<version, removed, vector, paused, trips, crossed>>

(* _fetch_source: of a row that is gone, the vector goes too.               *)
ReadSource(w, e) ==
  /\ item[w][e].pc = "reading"
  /\ IF version[e] = 0
       THEN /\ vector' = [vector EXCEPT ![e] = 0]
            /\ Mark(e, [task[e] EXCEPT !.st = "completed"])
            /\ item' = [item EXCEPT ![w][e] = Out]
       ELSE /\ item' = [item EXCEPT ![w][e] = [@ EXCEPT !.pc = "ready", !.seen = version[e]]]
            /\ UNCHANGED <<vector, task>>
  /\ UNCHANGED <<version, removed, paused, trips, crossed>>

(* One request for the batch; it starts when every job has been read.       *)
Prepared(w) ==
  /\ \A e \in Entity : item[w][e].pc \in {"out", "ready"}
  /\ \E e \in Entity : item[w][e].pc = "ready"

EmbedBatch(w) ==
  /\ Prepared(w)
  /\ item' = [item EXCEPT ![w] = [e \in Entity |->
                IF @[e].pc = "ready" THEN [@[e] EXCEPT !.pc = "store"] ELSE Out]]
  /\ UNCHANGED <<version, removed, vector, task, paused, trips, crossed>>

EmbedFails(w) ==
  /\ Prepared(w) /\ trips < MaxTrips
  /\ trips' = trips + 1
  /\ item' = [item EXCEPT ![w] = [e \in Entity |->
                IF @[e].pc = "ready" THEN [@[e] EXCEPT !.pc = "fail"] ELSE Out]]
  /\ UNCHANGED <<version, removed, vector, task, paused, crossed>>

(* _pause_provider after HTTP 402: the jobs are failed for good.            *)
BillingStops(w) ==
  /\ Prepared(w) /\ trips < MaxTrips
  /\ trips' = trips + 1
  /\ task' = [e \in Entity |->
                IF item[w][e].pc = "ready" /\ task[e] # NoTask
                  THEN [st |-> "failed", tries |-> MaxTries, due |-> FALSE] ELSE task[e]]
  /\ item' = [item EXCEPT ![w] = [e \in Entity |-> Out]]
  /\ paused' = paused \cup {w}
  /\ UNCHANGED <<version, removed, vector, crossed>>

PauseEnds(w) ==
  /\ w \in paused
  /\ paused' = paused \ {w}
  /\ UNCHANGED <<version, removed, vector, task, item, trips, crossed>>

StoreVector(w, e) ==
  /\ item[w][e].pc = "store"
  /\ vector' = [vector EXCEPT ![e] = item[w][e].seen]
  /\ item' = [item EXCEPT ![w][e].pc = "mark"]
  /\ UNCHANGED <<version, removed, task, paused, trips, crossed>>

MarkCompleted(w, e) ==
  /\ item[w][e].pc = "mark"
  /\ Mark(e, [task[e] EXCEPT !.st = "completed"])
  /\ item' = [item EXCEPT ![w][e] = Out]
  /\ UNCHANGED <<version, removed, vector, paused, trips, crossed>>

(* Mutant: the failure is only logged.                                      *)
MutFailUnmarked(w, e) ==
  /\ item[w][e].pc = "fail"
  /\ item' = [item EXCEPT ![w][e] = Out]
  /\ UNCHANGED <<version, removed, vector, task, paused, trips, crossed>>

(* _fail: the attempts were counted when the job was marked running.        *)
FailTask(w, e) ==
  /\ item[w][e].pc = "fail"
  /\ Mark(e, [task[e] EXCEPT !.st = "failed", !.due = FALSE])
  /\ item' = [item EXCEPT ![w][e] = Out]
  /\ UNCHANGED <<version, removed, vector, paused, trips, crossed>>

ItemRaises(w, e) ==
  /\ item[w][e].pc \in {"reading", "store", "mark"} /\ trips < MaxTrips
  /\ trips' = trips + 1
  /\ item' = [item EXCEPT ![w][e].pc = "fail"]
  /\ UNCHANGED <<version, removed, vector, task, paused, crossed>>

(* The process dies and comes back; its running jobs stay running.          *)
CrashIndexer(w) ==
  /\ \E e \in Entity : item[w][e].pc # "out"
  /\ trips < MaxTrips
  /\ trips' = trips + 1
  /\ item' = [item EXCEPT ![w] = [e \in Entity |-> Out]]
  /\ paused' = paused \ {w}
  /\ crossed' = crossed \cup {e \in Entity : item[w][e].pc \notin {"out", "listed"}}
  /\ UNCHANGED <<version, removed, vector, task>>

(* scheduled_after comes. *)
BackoffEnds(e) ==
  /\ task[e].st = "failed" /\ ~task[e].due
  /\ task' = [task EXCEPT ![e].due = TRUE]
  /\ UNCHANGED <<version, removed, vector, item, paused, trips, crossed>>

-----------------------------------------------------------------------------
IndexStep(w) ==
  \/ FetchJobs(w) \/ EmbedBatch(w) \/ PauseEnds(w)
  \/ \E e \in Entity : \/ MarkRunning(w, e) \/ ReadSource(w, e) \/ StoreVector(w, e)
                       \/ MarkCompleted(w, e) \/ FailTask(w, e)

IndexAtRest ==
  /\ \A w \in Indexer, e \in Entity : item[w][e].pc = "out"
  /\ UNCHANGED semVars

SemanticNext ==
  \/ IndexAtRest
  \/ \E e \in Entity : WriteRow(e) \/ DeleteRow(e) \/ BackoffEnds(e)
  \/ \E w \in Indexer : \/ IndexStep(w) \/ EmbedFails(w) \/ BillingStops(w) \/ CrashIndexer(w)
                        \/ \E e \in Entity : ItemRaises(w, e)

SemanticSpec == SemanticInit /\ [][SemanticNext]_semVars

(* run_once is called for ever; pauses and back-offs end.                   *)
SemanticFairness ==
  /\ \A w \in Indexer : WF_semVars(IndexStep(w))
  /\ \A e \in Entity : WF_semVars(BackoffEnds(e))

FairSemanticSpec == SemanticSpec /\ SemanticFairness

-----------------------------------------------------------------------------
(* Properties *)

(* A completed job means the vector is the row's present content, and a row *)
(* that is gone has no vector, except for rows that changed after a worker  *)
(* read them and before it was done: run_once completes the job it listed,  *)
(* also when the trigger has queued it again.                               *)
IndexIsCurrent ==
  \A e \in Entity \ crossed :
    /\ task[e].st = "completed" => vector[e] = version[e]
    /\ version[e] = 0 => vector[e] = 0

(* Every change of a row reaches the index or uses up its attempts, unless  *)
(* it met a worker in the middle of the row's job or the worker died there: *)
(* nothing takes a running job back.                                        *)
ChangesAreIndexed ==
  \A e \in Entity : task[e].st = "pending" ~> \/ task[e].st \in {"none", "completed"}
                                              \/ task[e].st = "failed" /\ task[e].tries = MaxTries
                                              \/ e \in crossed
=============================================================================
