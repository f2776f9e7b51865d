------------------------------- MODULE JobQueue -------------------------------
(***************************************************************************)
(* What the repository's claiming workers promise of a job table: a job is *)
(* handed to one worker, once; only that worker closes it; and a job whose *)
(* worker is gone stays taken (no worker of these queues takes it back).   *)
(***************************************************************************)
CONSTANTS
  Job,      \* rows of the job table
  Claimer   \* worker processes

VARIABLES
  st,       \* "new" (not for workers yet), "open", "taken" or "closed"
  holders   \* the workers that hold a job

queueVars == <<st, holders>>

QueueTypeOK ==
  /\ st \in [Job -> {"new", "open", "taken", "closed"}]
  /\ holders \in [Job -> SUBSET Claimer]

QueueInit ==
  /\ st \in [Job -> {"new", "open"}]
  /\ holders = [j \in Job |-> {}]

(* Somebody else than a worker settles a job, or hands it to the workers. *)
Decide(j) ==
  /\ st[j] = "new"
  /\ st' \in {[st EXCEPT ![j] = s] : s \in {"open", "closed"}}
  /\ UNCHANGED holders

Take(S, w) ==
  /\ \A j \in S : st[j] = "open" /\ holders[j] = {}
  /\ st' = [j \in Job |-> IF j \in S THEN "taken" ELSE st[j]]
  /\ holders' = [j \in Job |-> IF j \in S THEN {w} ELSE holders[j]]

Close(j, w) ==
  /\ st[j] = "taken" /\ holders[j] = {w}
  /\ st' = [st EXCEPT ![j] = "closed"]
  /\ holders' = [holders EXCEPT ![j] = {}]

(* The worker gave these jobs up, or died. *)
LetGo(S) ==
  /\ holders' = [j \in Job |-> IF j \in S THEN {} ELSE holders[j]]
  /\ UNCHANGED st

QueueNext ==
  \/ \E j \in Job : Decide(j) \/ \E w \in Claimer : Close(j, w)
  \/ \E S \in SUBSET Job : LetGo(S) \/ \E w \in Claimer : Take(S, w)

QueueSpec == QueueInit /\ [][QueueNext]_queueVars
=============================================================================
