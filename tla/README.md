# PropAI in TLA+

PropAI listens to brokers' WhatsApp groups, keeps every message as immutable
evidence in `raw_messages`, extracts listings and requirements from them with a
language model, and keeps what it extracted up to date with a handful of
background workers. This directory holds TLA+ models of that pipeline, TLC
configurations that check them on small instances, and TLAPS proofs.

Almost every step of the system is a separate REST call to the database: there
is no transaction that spans two of them, and most calls are in a `try` that
logs. The models therefore have one action per call, and the properties are
about what may happen between two calls.

## 1. The system

| Component | State | Operations | Talks to |
|---|---|---|---|
| WhatsApp ingestor (`services/whatsmeow-ingestor`, Go) | tenant cache | receive, `insertRawMessage` | inserts into `raw_messages` |
| Broker sessions (`services/whatsmeow-ingestor/main.go`) | a goroutine per session, registry, advisory lock, device mapping | connect, pair, reset, disconnect, delete, restore, heartbeat, events | WhatsApp, other processes of a deployment |
| Webhook intake (`routers/infra.py`) | extraction slots, deferred retries | `/webhook`, `/email-ingest`, `/trigger-extraction`, group refresh | `raw_messages`, the directory, the pipeline |
| Conversation directory (`whatsapp_conversations`) | count and time of the last message per chat | touch, upsert, prune | webhook and refreshes |
| Raw queue (`raw_messages`, SQL RPCs) | processed, suppressed, outcome, attempts, repeat_of | begin, finish, dead-letter, expire, mark, suppress, retry | everyone below |
| Extraction worker (`extraction_worker.py`) | one cycle, two lanes of threads | `run_cycle`, `_process_lane`, `_handle` | queue, pipeline |
| Pipeline (`process_raw_message`) | fingerprint claims | screen, claim, repeat gate, provider call, save, mark | queue, typed tables, provider |
| Shared extraction | `shared_extraction_claims`, two caches | claim, wait, take over, release | pipeline, provider |
| Typed tables (`storage/supabase.py`) | listings and requirements, routes of the process | upsert, clean up other routes, classify duplicates | pipeline, review workers |
| Controls (`routers/whatsapp_group_controls.py`) | connections, group selections | select, opt in or out, start, pause, activate | queue, worker's policy |
| Repair worker | `extraction_repair_jobs`, child rows | queue, claim, cut, hide, requeue | raw queue |
| Reprocessing worker, tenant-boundary worker | two review queues over typed rows | claim, re-extract, release; decide, claim, align | typed tables, admins |
| Semantic index | embedding jobs, vectors | triggers, fetch, embed, store | typed tables |
| Building enrichment | jobs, evidence cache, buildings | enqueue, review, claim, ask, apply, retry, recover | provider, operators |
| Self-chat (ingestor and API) | goroutines, lock, sessions, transcript | register, post, answer, cancel | model, WhatsApp |
| LLM failover, matching, collections, browser, CRM, MCP, front ends | derived data | request/response | the database |

### What is hard

* **Interleavings.** Lanes, threads, processes, requests and people work on the
  same rows. The claim insert and its re-read, the fetch and the begin, the
  lookup of a review and its update can all have somebody else's step between.
* **Stale reads.** The retry limit, a duplicate candidate, a row's flags, a
  directory entry are read, and used after a provider call or another request.
* **Failures that are swallowed.** A row can be half-written, a claim left
  behind, a failed lookup taken for "no".
* **Crashes.** A process that dies keeps its claims and leaves jobs `running`;
  only some of the tables are ever swept.
* **Something must happen in the end.** A row that nobody can parse must leave
  the queue, a waiting copy must get its turn, the newest chat message an answer.

The hazards, each at its line and with the property that would notice it, are
in `PROJECT.json`.

## 2. Modules

| Module | What it is |
|---|---|
| `RawQueue` | one row of `raw_messages` and every statement that writes it, as operators from row to row |
| `ExtractionWorker` | workers, handlers, repeat gate, claims, ingestor, controls; extends `RawQueue` |
| `SharedExtraction` | the provider call for one body that several workspaces received |
| `TypedStore` | the typed tables, routes and duplicate verdicts |
| `WebhookIntake` | webhook, mail, directory, slots and retries |
| `JobQueue` | abstract: a job is handed out once and closed by its holder |
| `ReviewQueues` | reprocessing and tenant-boundary review; implements `JobQueue` twice |
| `RepairQueue`, `SemanticIndex`, `BuildingJobs` | three job tables with their workers |
| `SelfChat` | the owner's chat over one connection, ingestor and API |
| `BrokerSessions` | session goroutines, requests, lock and restarts of one broker |
| `*Proofs` | the theorems about the modules they extend: `ExtractionOutcomeProofs` continues `ExtractionWorkerProofs`, `JobTablesProofs` is about the three job tables, `IntakeStoreProofs` about `WebhookIntake` and `TypedStore` |
| `MC*` | finite instances for TLC; `MCServices` and `MCIntakeStore` put modules that share no state side by side into one run, whose first state says which of them it is about |

In every module the faults are counted and bounded by a constant (`MaxFaults`,
`MaxBreaks`, `MaxTrouble`, `MaxFalls`, `MaxUpsets`, `MaxTrips`, `MaxFlops`,
`MaxMishaps`), except in `ExtractionWorker`, where the constant `Faults` says
which kinds a run admits and they are unbounded. A history variable is marked
as one where it is declared and guards no step.

### `RawQueue` and `ExtractionWorker`

A row is `[stored, processed, suppressed, outcome, attempts, repeatOf]`. Each
operator of `RawQueue` is one `UPDATE` or `INSERT`; a statement guarded by
`processed = false` is the identity on a processed row, and an unguarded one
(the finish RPC, `mark_raw_protocol_event`) writes whatever it finds.

`raw` is the table, `typed` the rows with parsed output, `claims` the dedupe
claims, `cycle[w]` where worker `w` is in `run_cycle`, `h[w][r]` the handler of
a row in its pools, `conn` and `groups` the broker's controls, `old` the rows
whose 24 hours have passed; `anchorless` is a history variable.

A cycle is `Expire`, `ControlLookup`, `ReconcilePending`, `Reenable`, `Fetch`,
`Screen` (or `ScreenAborts`), the handlers, `Join`. A handler is, for each
fetched row, `Quarantine`, `DeadLetter`, or `Begin` followed by
`SkipInPipeline`, or by `ClaimInsert`, `ClaimReread` and one of `ObserveRepeat`,
`DeferRepeat`, `PassGate`; then `ExtractItems`, `ExtractNothing` or
`ExtractUnavailable`, `SaveTyped` or `SaveFails`, `MarkProcessed`, `Finish`; or
`Fail` (or `FailRaises`) and `Release`. Everyone else: `Ingest`, `Age`,
`RetryExtraction`, `SelectGroups`, `OptOutGroup`, `OptInGroup`,
`StartExtraction`, `PauseExtraction`, `SetConnectionActive`.

Abstractions: one tenant (every query of the queue is scoped by it); the batch
limit exceeds the instance and the lane of a row is fixed; `Age` stands for the
window and the clean-up interval; a text is its verdict; threads work per batch
of equal fingerprints, which serialises less than the code; `select_groups` is
one step; `DRAIN_SUPPRESSED`, `LIVE_ONLY`, `SERIALIZE_GROUPS` and the budget
stop are left out.

### `SharedExtraction`

One content hash. A thread that handles a copy looks in the workspace's cache,
in the shared one, and then asks for the claim: `ClaimInsertShared`,
`ClaimReadShared`, and for a claim over ten minutes old `TakeoverDelete` and
`TakeoverInsert`. The holder calls the provider, stores twice and releases; the
others poll (`AwaitAnswer`) and fail their attempt when nothing comes. `table`
is FALSE where the claim's migration is missing and every insert is a 404, which
the code answers by going ahead. `AgeClaim` may come at any time, so also while
the holder is still at the provider. Attempts and dead letters are
`ExtractionWorker`'s: here a copy is handled until it is consumed. The two
modules meet in `ExtractItems`/`ExtractUnavailable`, which allow every outcome
of this one.

### `TypedStore`

One item per message. A thread looks for a near-duplicate candidate and reads
it *before* the model is asked; then `CleanRoutes` deletes the item's rows in
other tables, `UpsertTyped` writes by source fingerprint, and the row is
classified (`Classify`, `MarkMerged`) or, for demand, compared with an equal
one (`ReviewDemand`). `GetTyped` finds rows the way `_get_typed_observation`
does: by the number it is given, in the table the process remembers or the first
that has it. `Stride` is 1000 in the code and 1 in the run, so that
typed ids and source ids do coincide as they do in a long-lived table. A
different unit may still be flagged as close, so the verdict is a set.

### `WebhookIntake`

A request goes through `Deliver`, `CheckGroup`, `CheckDuplicate`, `SaveRaw`, the
directory's read and write (`TouchRead`/`TouchBump`, or `FreshRead`/`FreshPut`
for a chat without a row) and `Schedule`. `slots` is the semaphore, `pool` the
submitted extractions (a set: each submission of a message is numbered), `later` the timers of deferred retries. A group refresh
reads, writes and prunes in a task of its own. `CrashApi` loses slots, pool,
timers and requests in progress. The poll worker is one action.

### `JobQueue` and `ReviewQueues`

`JobQueue` has four states of a job and the set of its holders. `ReviewQueues`
has both review queues over the same typed rows: `ClaimBatch`, `StartJob`,
`Reextract`, `ReadBack`, `ReleaseQuarantine`, `FinishJob` of the reprocessing
worker; `OpenDecision`, `ReadFlags`, `MarkBoundary`, `RecordDecision` of an
admin's request; `ClaimReplays`, `NextReplay`, `CheckTyped`, `AlignTenant`,
`FinishReplay` of the boundary worker; failures and deaths of each. `Rework` and
`Boundary` are the two refinement mappings.

### `RepairQueue`, `SemanticIndex`, `BuildingJobs`

`RepairQueue`: `FindRepairable`, `QueueRepair` (admin), `ClaimRepairs`,
`CutBroadcast`, `MakeChild` per piece, `CountChildren`, `HideParent`, `Requeue`
(worker), `ProcessChild`, `CompleteRepair` (extraction worker).
`SemanticIndex`: the triggers `WriteRow` and `DeleteRow`; `FetchJobs`,
`MarkRunning`, `ReadSource`, `EmbedBatch`, `StoreVector`, `MarkCompleted`,
`FailTask`, `BillingStops`; content is a version number.
`BuildingJobs`: people (`Enqueue`, `OpenReview`, `ReviewReject`, `ReviewEnrich`),
the poll (`PollStale`, `RecoverOne`, `ListPending`), and a job's thread: three
calls to claim, `RefuseName`, `LookInCache`, `CallProvider`, `KeepAnswer`,
`ApplyFields`/`MarkEnriched` or `Suggest`, `CloseJob`, or `FailJob`.

### `SelfChat`

The Go side of a command: `Register` (cancel the one before), `Acquire` the
connection's lock, `Post`, `Receive` or `GiveUp`, `SendReply`. The API's side:
`OpenSession`/`CreateSession`, `AskRead`/`AskWrite`, `ModelRound`,
`ModelRejects`, `AnswerRead`/`AnswerWrite`, `TurnFails`; `Unread` ends a turn
whose reader has gone, at once for a stream and at its end for a plain request.

### `BrokerSessions`

One broker. `sess` holds the session objects, `reg` each process's
`sm.sessions` entry, `lock` the holder of the advisory lock, `req` the requests
and (under the process's own name) its restore goroutine, `removers` the
clean-ups a disconnect leaves behind, `mapping` and `stored` the device mapping
and the whatsmeow store.

`runSession` is `Top`, `Dial` or `DialFails`, then `FirstQR` or `FirstCloses`,
`Wake` and `ReviewMode` (taking the wake-up and reading what was asked for are
two steps), `WindowCloses`, `Leave`, `Exit`, `Panic`. The heartbeat is
`BeatRead` and `BeatWrite`; `handleEvent` is `EvConnected`, `EvPairSuccess`,
`EvDisconnected`, `EvLoggedOut`. A request starts with `Begin`; one that starts
or pairs goes through `Discard`, `Retire`, `Find`, `Acquire`, `Load`, `Install`,
one that ends a session through `Look`, `Unlink` or `Erase`, `Unmap`, `Close`,
`RemoveEntry`, each with its failures. `Boot`, `Poll`, `Terminate` and
`ProcessEnds` are the life of a process.

Of the status only "failed" and "shown as connected" are kept, because only
they are tested; backoffs, reconnect counters and phone numbers are left out.
The whatsmeow library is external: a client reports while its handlers are
attached and its session waits, and a QR channel closes when it likes. Three
history fields: `stray`, the sessions that lost their lock to a panic or to the
`Remove` of another request; `overtaken`, set when the mapping is written past
the holder of the lock, by an event of a session without it or by the wipe of a
request in a process that does not run the session; `kept`, of a session whose device the
mapping got. `answered` is the last request that got its code.

## 3. Runs

`tlc -config X.cfg <module>`; `PROJECT.json` names the module. Deadlock is
checked everywhere: the modules that may come to rest have an explicit resting
step whose guard says when.

| Run | Instance | Shows |
|---|---|---|
| `Worker_faults` | 1 worker, 2 copies in two lanes, crashes and failing calls, 2 attempts | one owned baseline; repeats are grounded |
| `Worker_pair` | 2 workers, 1 row, crashes | attempts stay within `MaxRetries - 1 +` workers; a dead letter was earned |
| `Worker_controls` | listing, history row and blocked row, 2 groups, retries and group changes, failing calls | nothing leaves the queue without something to show |
| `Worker_liveness` | 3 rows on two connections, failing policy lookups, one control action | a given-up baseline gives its claim back; every group message leaves the queue |
| `Shared_claims` | 2 copies in 2 workspaces, 2 threads that may have the same copy, 2 faults | provider calls are serialised; nothing is consumed without an answer; every copy is consumed in the end |
| `Review_queues` | 1 row of any seed, 2 workers of each kind, 2 admins, 2 faults | exclusive holders; repaired rows are aligned; both queues implement `JobQueue`; jobs end or were abandoned by a death |
| `Intake_store`, intake | 2 messages of a chat and a mail, 2 requests, 1 refresh, 1 slot, 2 retries, 1 fault | slots balance; the directory shows only stored activity |
| `Intake_store`, store | 2 messages, 2 listing tables and 1 demand table, 2 threads, 2 days, 1 fault | no item in two listing tables; an item once saved keeps a row; demand is never merged |
| `Services`, job tables | 1 building job with an operator and 2 tries; 1 broadcast of up to 3 pieces; 2 indexed rows with 2 versions | nothing is paid twice; completed means done; hidden broadcasts are replaced; the index is current; jobs settle, repairs are answered, changes are indexed |
| `Services`, chat | 2 messages with 2 texts, 2 rounds, 2 mishaps, both response kinds | answers are in order and in their question's thread; the newest message is answered |
| `Broker_lock` | 1 process, 2 requests of any kind at once, 1 mishap | a running session holds the lock; no wake-up is lost |
| `Broker_handoff` | 2 processes, 1 connect or delete request in either, 1 mishap | a linked phone keeps its mapping; the new process gets the session when the old one has ended |
| `Viol_second_baseline` | as `Worker_faults` with 3 copies | see below |
| `Viol_code_request` | 1 code request | see below |

*Bounds.* Two copies are the smallest repost and the third is needed only for
the claim to change hands behind a waiting copy (`Viol_second_baseline`). Two
attempts make a first and a last one. Two threads, workers or requests are what
a race takes, and one row or job is what they race for; one fault followed by
another covers a failure of the recovery from a failure. Two units, tables and
days make every verdict of the duplicate check possible. Three pieces
distinguish "some" from "all" children. `Intake_store` uses symmetry over units,
threads and requests, which no operator tells apart; its one temporal property
is an action property and symmetric too.

*Fairness* is weak everywhere, and only of what the code's loops guarantee:
workers poll for ever (`main` catches every exception and sleeps) and are
restarted, a thread or goroutine that can take a step takes one, a request that
was accepted runs to its end, time passes. Nothing is assumed of people, of
incoming messages, of the provider's answers, or of faults. In
`PromptSessions` nothing is assumed of QR channels either; `FairSessions` adds
that the library closes them, which it does after its last code. In `SelfChat` the
lock is handed on but not to anybody in particular.

Where a liveness property excuses something, the code does not do better:
`JobsEndOrAreAbandoned`, `ReplaysEndOrAreAbandoned`, `RepairAnswered` and
`ChangesAreIndexed` excuse a job whose worker died, because nothing takes those
tables' running jobs back; `JobsSettle` has no such excuse, because building
jobs are recovered.

### Where the code does less than the repository says

Two disagreements are runs that TLC refutes:

* `Viol_second_baseline`: reposts are "never a second concurrent baseline"
  (`architecture.md`). A claim released between the conflicting insert and the
  re-read is read as "no owner", and the copy goes on as a baseline beside the
  next claimant.
* `Viol_code_request`: "wait for first QR event, then generate pairing code"
  (`runSession`). The request's own wake-up is still in the channel when the
  code window opens; the window takes it and skips the code.

The following are visible in the models as well; the passing runs state what
does hold beside them, and the hazards name most of the lines:

* the worker's finish overwrites `repeat_pending`, which reconciliation looks for;
* a dead letter after a crash or a failed release keeps its fingerprint claim,
  and so does one of two workers that share a row (so `DeadLetterReleasesClaim`
  is checked and proved for one worker without these);
* a retry leaves `repeat_of_raw_message_id` in place, so that a retried repost
  may own the claim while it still points at another row without output, and with two workers two
  copies may be deferred to one another (so `RepeatsAreGrounded` is checked and
  proved for one worker without retries);
* two enrichment workers may both pass `claim_building_job`, which re-reads the
  status and not who wrote it: both pay; and a job recovered as stale while its
  worker still runs ends with one of them completing it and the other marking
  the building unresolved (so `PaidOnce` and `CompletedMeansDone` are about one worker);
* one failed lookup of the market preferences consumes an in-market row (so
  `NothingConsumedSilently` assumes readable preferences);
* a direct message suppressed by one failed lookup never leaves the queue (so
  the liveness property is about groups);
* rows expire during a pause; an operator's retry between fetch and dead letter
  is undone; a late finish of a second worker overwrites a dead letter;
* the time of an event is looked up among raw ids by the typed source id, is not
  found, and the time of the extraction is used, although "Freshness belongs to
  the WhatsApp event" (`save_typed_listing`);
* a message that is extracted again may be merged with its own row, and two
  reposts classified at once hide each other;
* an item that was a requirement and becomes a listing keeps both rows;
* a row edited while it is embedded is marked completed with the old vector
  (the history variable `crossed`);
* a pair request clears the mark of the session that a reset is just wiping, so
  that a late event shows it as connected; the `Remove` of a second, overlapping
  reset takes the replacement out of the registry without cancelling it (the
  sessions in `stray`);
* after a panic a session runs on without the advisory lock; a heartbeat may
  overwrite the error of a failed pairing, and the next request then waits on a
  dead session; a late event of a cancelled session overwrites the mapping, and
  a reset or delete handled by the process that does not run the session removes
  it under the one that does (the history variable `overtaken`);
* two deliveries of one mail are both stored;
* a rejected chat turn leaves the user's message although the reply says that
  the conversation was not changed.

## 4. Proofs

`tlapm <module>.tla` for each of the eight proof modules. The theorems hold for
every value of the constants that satisfies the module's named assumption, and
under the hypotheses each one states. Each follows the same plan: one lemma per
action that it preserves the invariant, over lemmas about the operators; then
`Spec => []Inv` by PTL.

* **ExtractionWorkerProofs.** `TypeCorrect`. `AttemptsBounded`, for any number
  of workers: a begin does not look at the limit, so `AttemptsInv` counts the
  workers that fetched a row below the limit and have not begun it yet;
  attempts plus that number stay within the bound. `OneWorkerOneBaseline`, for
  one worker: `OwnInv` says that a handler that believes it owns the claim holds
  it, because only its own last step deletes it. With two workers it is false:
  another handler of the same row can release the claim.
* **ExtractionOutcomeProofs.** `DeadLettersEarned`, without operator retries:
  `EarnedInv` says that a handler that found the attempts used up is still
  right. `NothingConsumedSilently`, for one worker and readable preferences: a
  finish may replace the outcome that is a row's only reason, so `ReasonInv`
  adds that a row in the hands of a begun handler has a reason the finish cannot
  erase, that handlers exist only in the `lanes` part of a cycle, and that a row
  is marked only after its output was saved. With a second worker it is false: a
  late failed finish replaces `dead_lettered`.
  `GivenUpRowsHoldNoClaim`, for one worker without crashes and failed calls, with
  operator retries: whoever keeps the claim when its handler returns is consumed
  or has an attempt left (`Spare`), so no later fetch finds it exhausted, and
  the only way to the last failed attempt is through the release (`GivenUpInv`).
  `RepostsStayGrounded`, for one worker with every fault, without retries: the
  claim's owner and whatever a handler at the gate has read as the owner are
  `Settled` (parsed, pointing at a parsed row, or no repost), and an owner
  somebody read is not itself deferred afterwards, since it still owns the claim
  or has returned for this cycle (`GateInv`). A deferred row therefore points at
  a settled row other than itself, which closes no circle.
* **SharedExtractionProofs.** `SharedTypeCorrect`, `SharedCallsSerialised`,
  `SharedConsumesAnswers` (an action property). `SharedInv` adds `ClaimFacts`: who
  believes to hold the claim is the one named in it, unless the claim grew old
  under it or its copy was handled before, and a thread that is about to consume
  has an answer.
* **ReviewQueuesProofs.** `ReviewTypeCorrect`, `HoldersExclusive`, `RepairsHold`,
  and the refinements `ReworkRefines` and `BoundaryRefines`. `ReviewInv` adds
  that a locked item is one to be replayed, that a row whose alignment is done
  and not yet recorded is in its source's workspace (re-extraction only ever
  writes the raw message's tenant), and that an open request names a row. Each
  action is then a step of `JobQueue` or a stutter, for any number of workers.
* **JobTablesProofs.** `RepairTypeCorrect`, `HidingIsSafe`: the pieces a
  worker has made or found exist, child rows are never removed, and a cut has at
  least two pieces. `SemanticTypeCorrect`, `CompletedIsCurrent`: `IndexInv` says
  what a worker's copy of a row is worth at each of its steps.
  `BuildingTypeCorrect`, for any number of workers: a claim writes back one more
  than the attempts it read, so `InHand` says that a waiting job has an attempt
  left, also as a claim has read it. `SoleEnricherPaysOnce` and
  `SoleEnricherCompletes`, for one worker: `WorkKnown` says that a job in its
  hands is not completed, that past the name check the name is good, and that at
  its end the building or a suggestion is written.
* **IntakeStoreProofs.** `IntakeTypeCorrect`, `SlotsStayBalanced`,
  `DirectoryShowsStored`: a request reads a chat's row and writes it back in two
  calls, so `ActivityFits` says that the directory, and every stale copy a
  request or a refresh holds of it, leaves a stored message uncounted for each
  request still to write, and no two requests in that part have one message.
  `StoreTypeCorrect`, `ItemInOneListing`, `DemandIsNeverMerged` and the action
  property `ItemsKeepARow`: `StoreInv` adds that two threads hold one message
  only if it is marked `torn`, that a thread past its clean-up finds the item in
  no other listing table, that a source fingerprint is unique in each table, and
  that a thread about to merge has a row of a listing table.
* **SelfChatProofs.** `ChatTypeCorrect`, `AnswersInOrder`, `AnswersInThread`.
  `InOrder`: of the registered commands only the newest is not cancelled, the
  lock is held by the one busy command, and what was sent before a busy command
  answers older ones. `Grounded`: a turn past its question has the question in
  its own session's log.
* **BrokerSessionsProofs.** `SessionsTyped`, `LockIsHeld`: `StarterOwnsLock`
  says that a request that is loading the device holds the lock which its
  session will get, so nobody else runs or is about to; `AtWork`, that a request
  that closes a session has one. A step either brings no session to life
  (`Quiet`) or gives the new one the lock. `WakeupIsNotLost` and
  `RestartRestores`, for any number of processes and requests: `PairInv` adds
  that a session and the requests that wipe it are in one process, that all but
  a reset have cancelled it first (`Aims`), that a request about to install a
  device has the one in the mapping (`Loaded`), and that a device is linked once
  (`Fresh`). The first attempt at this proof showed that an earlier form of
  `PairedSurvivesRestart` held only on the small instance: with two mishaps a
  stray session's logout, and with a delete in the other process its wipe,
  removes the mapping of the session that runs. The property now says so
  (`overtaken`, `Closing`), and `Broker_handoff` has the delete.

Every invariant and every action property of the passing runs is the statement
of a theorem. The hypotheses on the number of workers, on `Faults` and on
`Controls` are needed: TLC refutes each of these properties without them on an
instance of two or three rows or one job (section 3 says what happens).

Only model-checked: all liveness (fairness and `ENABLED` are out of the prover's
reach). Only proved, not run: the type invariants of `SharedExtraction`,
`RepairQueue`, `SemanticIndex`, `SelfChat` and `BrokerSessions`.

## 5. Not modelled

* Sending, group and history synchronisation of the Go ingestor: calls into the
  whatsmeow library.
* LLM failover: a sequence of calls within a request; the modules see answered,
  empty, rejected or unavailable.
* MCP OAuth and sessions: a separate service without shared state.
* Scheduler, matching, public collections, CRM and business API: periodic or
  request/response reads and writes with little control of their own.
* AI chat engine, agent tools, browser workflows: prompting and input/output;
  their retry loop is in `SelfChat`.
* Text normalisation, price and locality heuristics, prompts: string functions;
  the models see their verdict.
* Front ends, scripts, seeds and fixtures.

Most of the repository's lines are in these parts, above all in text heuristics,
prompts, queries and request handlers without shared state, so the models cover
a small share of the lines; they cover the tables that several processes write.
