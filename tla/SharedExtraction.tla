--------------------------- MODULE SharedExtraction ---------------------------
(***************************************************************************)
(* The provider call for one message body that several workspaces          *)
(* received.  process_raw_message looks in the workspace's cache, then in  *)
(* the shared one, and only then asks for the claim of the body's hash;    *)
(* whoever gets it pays for the model call, publishes the answer and gives *)
(* the claim back.  The others poll for the answer and fail the attempt    *)
(* when it does not come.  A claim older than ten minutes may be taken.    *)
(*                                                                         *)
(* One hash is enough: rows of different hashes share nothing here.  The   *)
(* queue around it (attempts, dead letters) is ExtractionWorker; here a    *)
(* row is handled again until it is consumed.                              *)
(***************************************************************************)
EXTENDS Naturals, FiniteSets

CONSTANTS
  Copy,        \* raw messages with the same body
  Tenant,      \* workspaces
  TenantOf,    \* the workspace of a copy
  Thread,      \* extraction threads, of any worker process
  NoCopy,      \* the claim table has no row for the hash
  Overlap,     \* a row may be handled by two threads at once (its lease ran out)
  MaxFaults    \* bound on worker deaths, failing claim statements and provider failures

ASSUME SharedAssumption ==
  /\ TenantOf \in [Copy -> Tenant]
  /\ NoCopy \notin Copy
  /\ Overlap \in BOOLEAN
  /\ MaxFaults \in Nat

VARIABLES
  row,      \* "queued", or "consumed": typed rows saved, or no listing in it
  starts,   \* how often a copy was handled: 0, 1, or 2 for more
  claim,    \* shared_extraction_claims: the owning copy and whether it is over age
  table,    \* FALSE before the claim migration is applied: every insert is a 404
  local,    \* extraction_cache: workspaces that have the answer
  shared,   \* shared_extraction_results has the answer
  th,       \* the threads
  aged,     \* history: threads whose own claim passed ten minutes under them
  faults

sharedVars == <<row, starts, claim, table, local, shared, th, aged, faults>>

At == {"idle", "local", "shared", "insert", "read", "takeover", "reinsert",
       "wait", "call", "cache", "publish", "release", "consume"}

Handling(pc, c) == [pc |-> pc, copy |-> c, seen |-> NoCopy, claimed |-> FALSE,
                    answered |-> FALSE]
Idle == Handling("idle", NoCopy)
NoClaim == [copy |-> NoCopy, stale |-> FALSE]

ThreadState == [pc : At, copy : Copy \cup {NoCopy}, seen : Copy \cup {NoCopy},
                claimed : BOOLEAN, answered : BOOLEAN]

SharedTypeOK ==
  /\ row \in [Copy -> {"queued", "consumed"}]
  /\ starts \in [Copy -> 0..2]
  /\ claim \in [copy : Copy \cup {NoCopy}, stale : BOOLEAN]
  /\ table \in BOOLEAN
  /\ local \in SUBSET Tenant
  /\ shared \in BOOLEAN
  /\ th \in [Thread -> ThreadState]
  /\ aged \in SUBSET Thread
  /\ faults \in 0..MaxFaults

SharedInit ==
  /\ row = [c \in Copy |-> "queued"]
  /\ starts = [c \in Copy |-> 0]
  /\ claim = NoClaim
  /\ table \in BOOLEAN
  /\ local = {}
  /\ shared = FALSE
  /\ th = [t \in Thread |-> Idle]
  /\ aged = {}
  /\ faults = 0

-----------------------------------------------------------------------------
(* Moves of one thread *)

Goto(t, pc) == th' = [th EXCEPT ![t].pc = pc]

(* The answer is known: of a cache, or of the provider. *)
Answered(t, pc) == th' = [th EXCEPT ![t] = [@ EXCEPT !.pc = pc, !.answered = TRUE]]

(* process_raw_message is left, for good or with an exception. *)
Leave(t) == th' = [th EXCEPT ![t] = Idle] /\ aged' = aged \ {t}

(* A worker begins (or begins again) with a copy that is not consumed. *)
StartCopy(t, c) ==
  /\ th[t].pc = "idle"
  /\ row[c] = "queued"
  /\ Overlap \/ \A u \in Thread : th[u].copy # c
  /\ th' = [th EXCEPT ![t] = Handling("local", c)]
  /\ starts' = [starts EXCEPT ![c] = IF @ = 0 THEN 1 ELSE 2]
  /\ UNCHANGED <<row, claim, table, local, shared, aged, faults>>

(* cache_lookup: a hit is used as it is and nothing is written back.  A     *)
(* cache outage is a miss, here and in the two lookups below.               *)
LocalLookup(t) ==
  /\ th[t].pc = "local"
  /\ \/ /\ TenantOf[th[t].copy] \in local
        /\ Answered(t, "consume")
     \/ Goto(t, "shared")
  /\ UNCHANGED <<row, starts, claim, table, local, shared, aged, faults>>

(* shared_cache_lookup: a hit is copied to the workspace's cache. *)
SharedLookup(t) ==
  /\ th[t].pc = "shared"
  /\ \/ /\ shared
        /\ Answered(t, "consume")
        /\ local' \in {local, local \cup {TenantOf[th[t].copy]}}
     \/ Goto(t, "insert") /\ UNCHANGED local
  /\ UNCHANGED <<row, starts, claim, table, shared, aged, faults>>

Owned(t) == th' = [th EXCEPT ![t] = [@ EXCEPT !.pc = "call", !.claimed = TRUE, !.seen = NoCopy]]
Others(t) == th' = [th EXCEPT ![t] = [@ EXCEPT !.pc = "wait", !.seen = NoCopy]]

Own(c) == claim' = [copy |-> c, stale |-> FALSE]

(* The insert of claim_shared_extraction_hash.  Without the table the call  *)
(* is made unclaimed.                                                       *)
ClaimInsertShared(t) ==
  /\ th[t].pc = "insert"
  /\ \/ ~table /\ Goto(t, "call") /\ UNCHANGED claim
     \/ table /\ claim.copy = NoCopy /\ Own(th[t].copy) /\ Owned(t)
     \/ table /\ claim.copy # NoCopy /\ Goto(t, "read") /\ UNCHANGED claim
  /\ UNCHANGED <<row, starts, table, local, shared, aged, faults>>

(* Mutant: any claim found is taken for an over-age one.                    *)
MutTakeAnyClaim(t) ==
  /\ th[t].pc = "read"
  /\ \/ /\ claim.copy # NoCopy /\ claim.copy # th[t].copy
        /\ th' = [th EXCEPT ![t] = [@ EXCEPT !.pc = "takeover", !.seen = claim.copy]]
     \/ /\ claim.copy \in {NoCopy, th[t].copy}
        /\ IF claim.copy = th[t].copy THEN Owned(t) ELSE Others(t)
  /\ UNCHANGED <<row, starts, claim, table, local, shared, aged, faults>>

(* Mutant: the age of a claim is not looked at.                             *)
MutNoTakeover(t) ==
  /\ th[t].pc = "read"
  /\ IF claim.copy = th[t].copy THEN Owned(t) ELSE Others(t)
  /\ UNCHANGED <<row, starts, claim, table, local, shared, aged, faults>>

(* After a conflict: read who owns the claim.  An over-age one may be       *)
(* taken; a claim in the copy's own name counts as claimed.                 *)
ClaimReadShared(t) ==
  /\ th[t].pc = "read"
  /\ \/ /\ claim.copy # NoCopy /\ claim.stale
        /\ th' = [th EXCEPT ![t] = [@ EXCEPT !.pc = "takeover", !.seen = claim.copy]]
     \/ /\ claim.copy = NoCopy \/ ~claim.stale
        /\ IF claim.copy = th[t].copy THEN Owned(t) ELSE Others(t)
  /\ UNCHANGED <<row, starts, claim, table, local, shared, aged, faults>>

(* delete ... where first_raw_message_id = the owner that was read. *)
TakeoverDelete(t) ==
  /\ th[t].pc = "takeover"
  /\ claim' = IF claim.copy = th[t].seen
                THEN NoClaim ELSE claim
  /\ Goto(t, "reinsert")
  /\ UNCHANGED <<row, starts, table, local, shared, aged, faults>>

(* The second insert; losing it falls back on the owner read before.  *)
TakeoverInsert(t) ==
  /\ th[t].pc = "reinsert"
  /\ \/ claim.copy = NoCopy /\ Own(th[t].copy) /\ Owned(t)
     \/ /\ claim.copy # NoCopy
        /\ IF th[t].seen = th[t].copy THEN Owned(t) ELSE Others(t)
        /\ UNCHANGED claim
  /\ UNCHANGED <<row, starts, table, local, shared, aged, faults>>

Fault == faults < MaxFaults /\ faults' = faults + 1

(* Any other error of the claim's statements fails the attempt. *)
ClaimRaises(t) ==
  /\ Fault
  /\ th[t].pc \in {"insert", "read", "takeover", "reinsert"}
  /\ Leave(t)
  /\ UNCHANGED <<row, starts, claim, table, local, shared>>

(* Mutant: a wait in vain is taken for an answer without listings.          *)
MutWaitConsumes(t) ==
  /\ th[t].pc = "wait"
  /\ \/ shared /\ Answered(t, "consume")
     \/ Goto(t, "consume")
  /\ UNCHANGED <<row, starts, claim, table, local, shared, aged, faults>>

(* Four polls for somebody else's answer, then the attempt fails. *)
AwaitAnswer(t) ==
  /\ th[t].pc = "wait"
  /\ \/ /\ shared
        /\ Answered(t, "consume")
        /\ local' \in {local, local \cup {TenantOf[th[t].copy]}}
        /\ UNCHANGED aged
     \/ Leave(t) /\ UNCHANGED local
  /\ UNCHANGED <<row, starts, claim, table, shared, faults>>

(* ai_extract and the grounding of its items.  An answer whose items are    *)
(* all rejected is neither cached nor is its claim given back; an exception *)
(* after the answer gives the claim back and keeps what was parsed so far.  *)
ProviderAnswers(t) ==
  /\ th[t].pc = "call"
  /\ \E pc \in {"cache", "consume", "release"} : Answered(t, pc)
  /\ UNCHANGED <<row, starts, claim, table, local, shared, aged, faults>>

(* No provider answered, or the call raised: nothing is cached, the claim   *)
(* is given back and the row stays queued.                                  *)
ProviderFails(t) ==
  /\ th[t].pc = "call"
  /\ Fault
  /\ Goto(t, "release")
  /\ UNCHANGED <<row, starts, claim, table, local, shared, aged>>

(* cache_store and shared_cache_store swallow their errors. *)
CacheStore(t) ==
  /\ th[t].pc = "cache"
  /\ local' \in {local, local \cup {TenantOf[th[t].copy]}}
  /\ Goto(t, "publish")
  /\ UNCHANGED <<row, starts, claim, table, shared, aged, faults>>

SharedStore(t) ==
  /\ th[t].pc = "publish"
  /\ shared' \in {shared, TRUE}
  /\ Goto(t, "release")
  /\ UNCHANGED <<row, starts, claim, table, local, aged, faults>>

(* release_shared_extraction_hash deletes the claim in this copy's name; a  *)
(* failing delete is logged and the claim stays.                            *)
ReleaseShared(t) ==
  /\ th[t].pc = "release"
  /\ LET gone == IF th[t].claimed /\ claim.copy = th[t].copy
                   THEN NoClaim ELSE claim
     IN claim' \in {claim, gone}
  /\ IF th[t].answered THEN Goto(t, "consume") /\ UNCHANGED aged ELSE Leave(t)
  /\ UNCHANGED <<row, starts, table, local, shared, faults>>

(* The pipeline saves the items, or marks the row as holding none. *)
ConsumeCopy(t) ==
  /\ th[t].pc = "consume"
  /\ row' = [row EXCEPT ![th[t].copy] = "consumed"]
  /\ Leave(t)
  /\ UNCHANGED <<starts, claim, table, local, shared, faults>>

(* The process of a thread dies; what it wrote stays. *)
CrashShared(t) ==
  /\ th[t].pc # "idle"
  /\ Fault
  /\ Leave(t)
  /\ UNCHANGED <<row, starts, claim, table, local, shared>>

(* Ten minutes pass over a claim, and over the threads that work under it. *)
AgeClaim ==
  /\ claim.copy # NoCopy /\ ~claim.stale
  /\ claim' = [claim EXCEPT !.stale = TRUE]
  /\ aged' = aged \cup {t \in Thread : th[t].copy = claim.copy}
  /\ UNCHANGED <<row, starts, table, local, shared, th, faults>>

ClaimStep(t) ==
  \/ ClaimInsertShared(t) \/ ClaimReadShared(t)
  \/ TakeoverDelete(t) \/ TakeoverInsert(t)

ThreadStep(t) ==
  \/ \E c \in Copy : StartCopy(t, c)
  \/ LocalLookup(t) \/ SharedLookup(t)
  \/ ClaimStep(t) \/ ClaimRaises(t) \/ AwaitAnswer(t)
  \/ ProviderAnswers(t) \/ ProviderFails(t)
  \/ CacheStore(t) \/ SharedStore(t) \/ ReleaseShared(t)
  \/ ConsumeCopy(t)

AllConsumed == (\A c \in Copy : row[c] # "queued") /\ UNCHANGED sharedVars

SharedNext ==
  \/ \E t \in Thread : ThreadStep(t) \/ CrashShared(t)
  \/ AgeClaim
  \/ AllConsumed

SharedSpec == SharedInit /\ [][SharedNext]_sharedVars

(***************************************************************************)
(* Fairness.  The workers' loops go on and time passes over a claim.  The   *)
(* faults that fail an attempt are bounded; a cache that cannot be read or  *)
(* written and a claim that cannot be deleted are not.                      *)
(***************************************************************************)
SharedFairness ==
  /\ WF_sharedVars(AgeClaim)
  /\ \A t \in Thread : WF_sharedVars(ThreadStep(t))

SharedFairSpec == SharedSpec /\ SharedFairness

-----------------------------------------------------------------------------
(* Properties *)

(* t pays for a model call (or has paid and not yet given the claim back)   *)
(* because claim_shared_extraction_hash told it that it holds the claim.    *)
Calling(t) == th[t].claimed /\ th[t].pc \in {"call", "cache", "publish", "release"}

(* "Serialize the first LLM call for an exact body": two threads work under *)
(* the claim at once only if one of them held it for more than ten minutes, *)
(* or one of the copies was handled before (its claim can be found in its   *)
(* own name, or be deleted on the strength of an earlier read).             *)
CallsSerialised ==
  \A t, u \in Thread :
    (t # u /\ Calling(t) /\ Calling(u)) =>
      \/ {t, u} \cap aged # {}
      \/ starts[th[t].copy] = 2
      \/ starts[th[u].copy] = 2

(* A copy is never put down as holding no listing because of the claim: the *)
(* row a thread consumes was answered by a provider, now or for a copy.     *)
(* Waiting in vain, losing the claim, failing storage leave it queued.      *)
ConsumedWithAnswer ==
  [][\A c \in Copy : row'[c] # row[c] =>
       \E t \in Thread : th[t].copy = c /\ th[t].answered]_sharedVars

(* Nobody waits for ever: a claim whose holder died, leaked it with a       *)
(* rejected answer or could not delete it is taken over in the end, and     *)
(* every copy is consumed.                                                  *)
EveryCopyConsumed == <>(\A c \in Copy : row[c] = "consumed")
=============================================================================
