----------------------------- MODULE RepairQueue -----------------------------
(***************************************************************************)
(* Repair of broadcasts that were extracted as one message.  An operator   *)
(* queues the parent; the repair worker claims the job, lets the model cut *)
(* the text, stores every piece as a child row, hides the parent's         *)
(* projection and puts the job back to "queued".  The extraction worker    *)
(* processes the children, and the last one completes the job.             *)
(***************************************************************************)
EXTENDS Naturals, FiniteSets

CONSTANTS
  Parent,        \* broadcasts
  MaxPieces,     \* most pieces the model cuts
  Repairer,      \* repair worker processes
  MaxRequests,   \* bound on operator requests
  MaxUpsets,     \* bound on failing writes and dying processes
  NoParent

ASSUME RepairAssumption ==
  /\ MaxPieces \in Nat /\ MaxPieces >= 2
  /\ {MaxRequests, MaxUpsets} \subseteq Nat
  /\ NoParent \notin Parent

VARIABLES
  job,        \* extraction_repair_jobs.status
  child,      \* the child rows of a parent, by split_index
  read,       \* those of them that are processed
  hidden,     \* parents with extraction_superseded
  asked,      \* requests that found their parent repairable
  closing,    \* mark_raw_processed calls that found every child processed
  rep,        \* the repair workers
  requests, upsets

repVars == <<job, child, read, hidden, asked, closing, rep, requests, upsets>>

Piece == 1..MaxPieces
On(p, pc, B, n) == [pc |-> pc, batch |-> B, on |-> p, cuts |-> n,
                    left |-> 1..n, made |-> {}]
Resting == On(NoParent, "idle", {}, 0)

Rep == [pc : {"idle", "next", "cut", "make", "hide", "requeue", "fail", "gone"},
        batch : SUBSET Parent, on : Parent \cup {NoParent},
        cuts : 0..MaxPieces, left : SUBSET Piece, made : SUBSET Piece]

RepairTypeOK ==
  /\ job \in [Parent -> {"none", "queued", "running", "completed", "no_split", "failed"}]
  /\ child \in [Parent -> SUBSET Piece]
  /\ read \in [Parent -> SUBSET Piece]
  /\ {hidden, asked, closing} \subseteq SUBSET Parent
  /\ rep \in [Repairer -> Rep]
  /\ requests \in 0..MaxRequests
  /\ upsets \in 0..MaxUpsets

RepairInit ==
  /\ job = [p \in Parent |-> "none"]
  /\ child = [p \in Parent |-> {}]
  /\ read = [p \in Parent |-> {}]
  /\ hidden = {} /\ asked = {} /\ closing = {}
  /\ rep = [w \in Repairer |-> Resting]
  /\ requests = 0 /\ upsets = 0

-----------------------------------------------------------------------------
(* admin_run_extraction_repair: the candidate is looked up, the model       *)
(* previews the cut, and then the job is upserted, whatever it is by then.  *)
FindRepairable(p) ==
  /\ requests < MaxRequests /\ p \notin hidden \cup asked
  /\ asked' = asked \cup {p}
  /\ requests' = requests + 1
  /\ UNCHANGED <<job, child, read, hidden, closing, rep, upsets>>

QueueRepair(p) ==
  /\ p \in asked
  /\ asked' = asked \ {p}
  /\ job' = [job EXCEPT ![p] = "queued"]
  /\ UNCHANGED <<child, read, hidden, closing, rep, requests, upsets>>

-----------------------------------------------------------------------------
(* run_once *)

(* claim_extraction_repair_jobs: one UPDATE over locked rows.               *)
ClaimRepairs(w) ==
  /\ rep[w].pc = "idle"
  /\ \E B \in SUBSET {p \in Parent : job[p] = "queued"} :
       /\ B # {}
       /\ job' = [p \in Parent |-> IF p \in B THEN "running" ELSE job[p]]
       /\ rep' = [rep EXCEPT ![w] = On(NoParent, "next", B, 0)]
  /\ UNCHANGED <<child, read, hidden, asked, closing, requests, upsets>>

NextRepair(w) ==
  /\ rep[w].pc = "next"
  /\ \/ /\ rep[w].batch = {}
        /\ rep' = [rep EXCEPT ![w] = Resting]
     \/ \E p \in rep[w].batch :
          rep' = [rep EXCEPT ![w] = On(p, "cut", @.batch \ {p}, 0)]
  /\ UNCHANGED <<job, child, read, hidden, asked, closing, requests, upsets>>

(* Mutant: a message that is not cut is passed over without a verdict.      *)
MutNoSplitSilent(w) ==
  /\ rep[w].pc = "cut"
  /\ \E n \in 0..MaxPieces :
       rep' = IF n < 2 THEN [rep EXCEPT ![w].pc = "next"]
              ELSE [rep EXCEPT ![w] = On(@.on, "make", @.batch, n)]
  /\ UNCHANGED <<job, child, read, hidden, asked, closing, requests, upsets>>

(* preview_source_boundaries: the model's cut, new at every call.           *)
CutBroadcast(w) ==
  /\ rep[w].pc = "cut"
  /\ \E n \in 0..MaxPieces :
       IF n < 2
         THEN /\ job' = [job EXCEPT ![rep[w].on] = "no_split"]
              /\ rep' = [rep EXCEPT ![w].pc = "next"]
         ELSE /\ rep' = [rep EXCEPT ![w] = On(@.on, "make", @.batch, n)]
              /\ UNCHANGED job
  /\ UNCHANGED <<child, read, hidden, asked, closing, requests, upsets>>

(* _materialize_split_raw_messages, one piece: a row with the same index is *)
(* taken as it is, a write that fails is logged and the piece skipped.      *)
MakeChild(w) ==
  /\ rep[w].pc = "make" /\ rep[w].left # {}
  /\ LET i == CHOOSE k \in rep[w].left : \A l \in rep[w].left : k <= l
         p == rep[w].on
     IN \/ /\ child' = [child EXCEPT ![p] = @ \cup {i}]
           /\ rep' = [rep EXCEPT ![w].left = @ \ {i}, ![w].made = @ \cup {i}]
           /\ UNCHANGED upsets
        \/ /\ upsets < MaxUpsets
           /\ upsets' = upsets + 1
           /\ rep' = [rep EXCEPT ![w].left = @ \ {i}]
           /\ UNCHANGED child
  /\ UNCHANGED <<job, read, hidden, asked, closing, requests>>

(* Mutant: some children are enough.                                        *)
MutCountSome(w) ==
  /\ rep[w].pc = "make" /\ rep[w].left = {}
  /\ rep' = [rep EXCEPT ![w].pc = IF rep[w].made # {} THEN "hide" ELSE "fail"]
  /\ UNCHANGED <<job, child, read, hidden, asked, closing, requests, upsets>>

(* Every piece must be there before the parent is touched.                  *)
CountChildren(w) ==
  /\ rep[w].pc = "make" /\ rep[w].left = {}
  /\ rep' = [rep EXCEPT ![w].pc = IF Cardinality(rep[w].made) = rep[w].cuts
                                    THEN "hide" ELSE "fail"]
  /\ UNCHANGED <<job, child, read, hidden, asked, closing, requests, upsets>>

(* mark_raw_extraction_superseded and mark_raw_processed of the parent.     *)
HideParent(w) ==
  /\ rep[w].pc = "hide"
  /\ hidden' = hidden \cup {rep[w].on}
  /\ rep' = [rep EXCEPT ![w].pc = "requeue"]
  /\ UNCHANGED <<job, child, read, asked, closing, requests, upsets>>

(* The job is left "queued" for the children to complete.                   *)
Requeue(w) ==
  /\ rep[w].pc = "requeue"
  /\ job' = [job EXCEPT ![rep[w].on] = "queued"]
  /\ rep' = [rep EXCEPT ![w].pc = "next"]
  /\ UNCHANGED <<child, read, hidden, asked, closing, requests, upsets>>

FailRepair(w) ==
  /\ rep[w].pc = "fail"
  /\ job' = [job EXCEPT ![rep[w].on] = "failed"]
  /\ rep' = [rep EXCEPT ![w].pc = "next"]
  /\ UNCHANGED <<child, read, hidden, asked, closing, requests, upsets>>

(* A read, the model or a write raises; the job is failed.                  *)
RepairRaises(w) ==
  /\ rep[w].pc \in {"cut", "hide", "requeue"}
  /\ upsets < MaxUpsets
  /\ upsets' = upsets + 1
  /\ rep' = [rep EXCEPT ![w].pc = "fail"]
  /\ UNCHANGED <<job, child, read, hidden, asked, closing, requests>>

(* The process dies; nothing takes its running jobs back.                   *)
CrashRepairer(w) ==
  /\ rep[w].pc \notin {"idle", "gone"}
  /\ upsets < MaxUpsets
  /\ upsets' = upsets + 1
  /\ rep' = [rep EXCEPT ![w] = On(NoParent, "gone", {}, 0)]
  /\ UNCHANGED <<job, child, read, hidden, asked, closing, requests>>

RestartRepairer(w) ==
  /\ rep[w].pc = "gone"
  /\ rep' = [rep EXCEPT ![w] = Resting]
  /\ UNCHANGED <<job, child, read, hidden, asked, closing, requests, upsets>>

-----------------------------------------------------------------------------
(* mark_raw_processed of a child: the row is written, the siblings are      *)
(* looked at, and only then is the job written.                             *)
ProcessChild(p, i) ==
  /\ i \in child[p] \ read[p]
  /\ read' = [read EXCEPT ![p] = @ \cup {i}]
  /\ closing' = IF child[p] \subseteq read'[p] THEN closing \cup {p} ELSE closing
  /\ UNCHANGED <<job, child, hidden, asked, rep, requests, upsets>>

CompleteRepair(p) ==
  /\ p \in closing
  /\ closing' = closing \ {p}
  /\ job' = [job EXCEPT ![p] = "completed"]
  /\ UNCHANGED <<child, read, hidden, asked, rep, requests, upsets>>

-----------------------------------------------------------------------------
RunOnce(w) ==
  \/ ClaimRepairs(w) \/ NextRepair(w) \/ CutBroadcast(w) \/ MakeChild(w) \/ CountChildren(w)
  \/ HideParent(w) \/ Requeue(w) \/ FailRepair(w) \/ RestartRepairer(w)

ChildStep(p) == CompleteRepair(p) \/ \E i \in Piece : ProcessChild(p, i)

(* All is done that the bounds allow. *)
RepairAtRest ==
  /\ \A p \in Parent : job[p] # "queued"
  /\ \A w \in Repairer : rep[w].pc = "idle"
  /\ UNCHANGED repVars

RepairNext ==
  \/ RepairAtRest
  \/ \E p \in Parent : FindRepairable(p) \/ QueueRepair(p) \/ ChildStep(p)
  \/ \E w \in Repairer : RunOnce(w) \/ RepairRaises(w) \/ CrashRepairer(w)

RepairSpec == RepairInit /\ [][RepairNext]_repVars

(* The worker polls for ever and is restarted; the extraction worker gets   *)
(* to every child; a request that has begun ends.                           *)
RepairFairness ==
  /\ \A w \in Repairer : WF_repVars(RunOnce(w))
  /\ \A p \in Parent : WF_repVars(ChildStep(p)) /\ WF_repVars(QueueRepair(p))

FairRepairSpec == RepairSpec /\ RepairFairness

-----------------------------------------------------------------------------
(* Properties *)

(* Hiding a broadcast's own projection is safe: the child rows of a         *)
(* complete cut are there first, whatever write failed or process died, and *)
(* however often the job is run again (run_once, expected n children).      *)
HiddenIsReplaced ==
  /\ \A p \in hidden : {1, 2} \subseteq child[p]
  /\ \A w \in Repairer : rep[w].pc = "hide" => 1..rep[w].cuts \subseteq child[rep[w].on]

(* A request is answered: a queued job reaches a hidden parent, a verdict,  *)
(* or is the running job of a process that died with it.                    *)
RepairAnswered ==
  \A p \in Parent :
    job[p] = "queued" ~> \/ p \in hidden
                         \/ job[p] \in {"no_split", "failed", "completed"}
                         \/ job[p] = "running" /\ upsets > 0
                              /\ \A w \in Repairer : rep[w].on # p /\ p \notin rep[w].batch
=============================================================================
