------------------------ MODULE SharedExtractionProofs ------------------------
(***************************************************************************)
(* SharedExtraction, proved for any copies, workspaces, threads and        *)
(* faults.  Serialised calls rest on what a claim says about a copy that   *)
(* is handled for the first time: if it thinks it holds the claim it does, *)
(* unless its ten minutes are over; and nobody deletes the claim of such a *)
(* copy before.                                                            *)
(***************************************************************************)
EXTENDS SharedExtraction, TLAPS

Late == {"call", "cache", "publish", "release", "consume"}

(* A thread is idle or handles a copy that was counted.                     *)
Counted ==
  /\ \A t \in Thread : \/ th[t].pc = "idle" /\ th[t].copy = NoCopy
                       \/ th[t].pc # "idle" /\ th[t].copy \in Copy /\ starts[th[t].copy] > 0
  /\ claim.copy \in Copy => starts[claim.copy] > 0
  /\ \A t \in Thread : th[t].seen \in Copy => starts[th[t].seen] > 0

(* Only past the claim is a thread claimed, and only an answer is consumed. *)
InSequence ==
  \A t \in Thread : /\ th[t].claimed => th[t].pc \in Late
                    /\ th[t].pc = "consume" => th[t].answered

(* Two threads on one copy: it is handled again.                            *)
Alone ==
  \A t, u \in Thread :
    (t # u /\ th[t].copy = th[u].copy /\ th[t].copy \in Copy) => starts[th[t].copy] = 2

(* A first handling that works under the claim has it, or is over age.      *)
Holds ==
  \A t \in Thread :
    (Calling(t) /\ t \notin aged /\ starts[th[t].copy] = 1) =>
      claim.copy = th[t].copy /\ ~claim.stale

(* A claim in the name of a first handling is known to its thread, and so   *)
(* is its age.                                                              *)
Knows ==
  \A t \in Thread :
    (th[t].copy \in Copy /\ claim.copy = th[t].copy /\ starts[th[t].copy] = 1) =>
      th[t].claimed /\ (claim.stale => t \in aged)

(* Whose claim is about to be deleted has been over age.                    *)
TakesOld ==
  \A t, u \in Thread :
    (th[t].pc \in {"takeover", "reinsert"} /\ th[u].copy \in Copy
       /\ th[u].copy = th[t].seen /\ starts[th[u].copy] = 1) =>
      th[u].claimed /\ u \in aged

ClaimFacts == Counted /\ InSequence /\ Alone /\ Holds /\ Knows /\ TakesOld

USE SharedAssumption

LEMMA MoveFacts ==
  ASSUME SharedTypeOK, ClaimFacts, NEW t \in Thread, NEW v \in ThreadState,
         th' = [th EXCEPT ![t] = v], th[t].pc # "idle", v.pc # "idle", v.copy = th[t].copy,
         v.claimed = th[t].claimed, v.claimed => v.pc \in Late, v.seen = th[t].seen \/ v.seen = NoCopy,
         v.pc = "consume" => v.answered,
         v.pc \in {"takeover", "reinsert"} => th[t].pc = "takeover" /\ v.seen = th[t].seen,
         Calling(t) \/ ~v.claimed \/ v.pc = "consume",
         UNCHANGED <<claim, starts, aged>>
  PROVE  ClaimFacts'
<1>1. Counted /\ InSequence /\ Alone /\ Holds /\ Knows /\ TakesOld
  BY DEF ClaimFacts
<1>2. th'[t] = v /\ \A u \in Thread \ {t} : th'[u] = th[u]
  BY DEF SharedTypeOK
<1>3. Counted'
  BY <1>1, <1>2 DEF Counted, SharedTypeOK, ThreadState
<1>4. InSequence'
  BY <1>1, <1>2 DEF InSequence, Late, Counted
<1>5. Alone'
  BY <1>1, <1>2 DEF Counted, Alone, SharedTypeOK
<1>6. Holds'
  BY <1>1, <1>2 DEF Counted, Holds, Calling, InSequence, Alone, Knows, TakesOld, Late, SharedTypeOK
<1>7. Knows'
  BY <1>1, <1>2 DEF Counted, Knows, InSequence, Alone, Late, SharedTypeOK
<1>8. TakesOld'
  BY <1>1, <1>2 DEF Counted, TakesOld, Knows, InSequence, Late, SharedTypeOK
<1> QED BY <1>3, <1>4, <1>5, <1>6, <1>7, <1>8 DEF ClaimFacts

LEMMA LeaveFacts ==
  ASSUME SharedTypeOK, ClaimFacts, NEW t \in Thread, Leave(t), UNCHANGED <<claim, starts>>
  PROVE  ClaimFacts'
<1>1. Counted /\ InSequence /\ Alone /\ Holds /\ Knows /\ TakesOld
  BY DEF ClaimFacts
<1>2. th'[t].pc = "idle" /\ th'[t].copy = NoCopy /\ th'[t].seen = NoCopy /\ ~th'[t].claimed
      /\ (\A u \in Thread \ {t} : th'[u] = th[u]) /\ aged' = aged \ {t}
  BY DEF SharedTypeOK, Leave, Idle, Handling
<1>3. Counted'
  BY <1>1, <1>2 DEF Counted, SharedTypeOK, ThreadState
<1>4. InSequence'
  BY <1>1, <1>2 DEF InSequence, Late, Counted
<1>5. Alone'
  BY <1>1, <1>2 DEF Counted, Alone, SharedTypeOK
<1>6. Holds'
  BY <1>1, <1>2 DEF Counted, Holds, Calling, InSequence, Alone, Knows, TakesOld, Late, SharedTypeOK
<1>7. Knows'
  BY <1>1, <1>2 DEF Counted, Knows, InSequence, Alone, Late, SharedTypeOK
<1>8. TakesOld'
  BY <1>1, <1>2 DEF Counted, TakesOld, Knows, InSequence, Late, SharedTypeOK
<1> QED BY <1>3, <1>4, <1>5, <1>6, <1>7, <1>8 DEF ClaimFacts

LEMMA StartFacts ==
  ASSUME SharedTypeOK, ClaimFacts, NEW t \in Thread, NEW c \in Copy, StartCopy(t, c)
  PROVE  ClaimFacts'
<1>1. Counted /\ InSequence /\ Alone /\ Holds /\ Knows /\ TakesOld
  BY DEF ClaimFacts
<1>2. /\ th[t].pc = "idle" /\ th'[t].pc = "local" /\ th'[t].copy = c /\ th'[t].seen = NoCopy
      /\ ~th'[t].claimed /\ (\A u \in Thread \ {t} : th'[u] = th[u])
      /\ UNCHANGED <<claim, aged>>
  BY DEF SharedTypeOK, StartCopy, Handling
<1>3. /\ \A d \in Copy \ {c} : starts'[d] = starts[d]
      /\ starts[c] \in 0..2 /\ starts'[c] = IF starts[c] = 0 THEN 1 ELSE 2
  BY DEF SharedTypeOK, StartCopy
<1>4. Counted'
  BY <1>1, <1>2, <1>3 DEF Counted, SharedTypeOK, ThreadState
<1>5. InSequence'
  BY <1>1, <1>2, <1>3 DEF InSequence, Late, Counted
<1>6. Alone'
  BY <1>1, <1>2, <1>3 DEF Counted, Alone, SharedTypeOK
<1>7. Holds'
  BY <1>1, <1>2, <1>3 DEF Counted, Holds, Calling, InSequence, Alone, Knows, TakesOld, Late, SharedTypeOK
<1>8. Knows'
  BY <1>1, <1>2, <1>3 DEF Counted, Knows, InSequence, Alone, Late, SharedTypeOK
<1>9. TakesOld'
  BY <1>1, <1>2, <1>3 DEF Counted, TakesOld, Knows, InSequence, Late, SharedTypeOK
<1> QED BY <1>4, <1>5, <1>6, <1>7, <1>8, <1>9 DEF ClaimFacts

LEMMA OwnFacts ==
  ASSUME SharedTypeOK, ClaimFacts, NEW t \in Thread, th[t].pc \in {"insert", "reinsert"}, claim.copy = NoCopy,
         Own(th[t].copy), Owned(t), UNCHANGED <<starts, aged>>
  PROVE  ClaimFacts'
<1>1. Counted /\ InSequence /\ Alone /\ Holds /\ Knows /\ TakesOld
  BY DEF ClaimFacts
<1>2. /\ th'[t].pc = "call" /\ th'[t].copy = th[t].copy /\ th'[t].seen = NoCopy /\ th'[t].claimed
      /\ \A u \in Thread \ {t} : th'[u] = th[u]
  BY DEF SharedTypeOK, Owned, ThreadState
<1>3. claim'.copy = th[t].copy /\ ~claim'.stale
  BY DEF Own
<1>4. th[t].copy \in Copy /\ \A u \in Thread \ {t} : th[u].copy = th[t].copy => starts[th[t].copy] = 2
  BY <1>1 DEF Counted, Alone
<1>5. Counted'
  BY <1>1, <1>2, <1>3, <1>4 DEF Counted, SharedTypeOK, ThreadState
<1>6. InSequence'
  BY <1>1, <1>2, <1>3, <1>4 DEF InSequence, Late, Counted
<1>7. Alone'
  BY <1>1, <1>2, <1>3, <1>4 DEF Counted, Alone, SharedTypeOK
<1>8. Holds'
  BY <1>1, <1>2, <1>3, <1>4 DEF Counted, Holds, Calling, InSequence, Alone, Knows, TakesOld, Late, SharedTypeOK
<1>9. Knows'
  BY <1>1, <1>2, <1>3, <1>4 DEF Counted, Knows, InSequence, Alone, Late, SharedTypeOK
<1>10. TakesOld'
  BY <1>1, <1>2, <1>3, <1>4 DEF Counted, TakesOld, Knows, InSequence, Late, SharedTypeOK
<1> QED BY <1>5, <1>6, <1>7, <1>8, <1>9, <1>10 DEF ClaimFacts

LEMMA OwnAgainFacts ==
  ASSUME SharedTypeOK, ClaimFacts, NEW t \in Thread, th[t].pc # "idle", starts[th[t].copy] = 2,
         Owned(t), UNCHANGED <<claim, starts, aged>>
  PROVE  ClaimFacts'
<1>1. Counted /\ InSequence /\ Alone /\ Holds /\ Knows /\ TakesOld
  BY DEF ClaimFacts
<1>2. /\ th'[t].pc = "call" /\ th'[t].copy = th[t].copy /\ th'[t].seen = NoCopy /\ th'[t].claimed
      /\ \A u \in Thread \ {t} : th'[u] = th[u]
  BY DEF SharedTypeOK, Owned, ThreadState
<1>3. Counted'
  BY <1>1, <1>2 DEF Counted, SharedTypeOK, ThreadState
<1>4. InSequence'
  BY <1>1, <1>2 DEF InSequence, Late, Counted
<1>5. Alone'
  BY <1>1, <1>2 DEF Counted, Alone, SharedTypeOK
<1>6. Holds'
  BY <1>1, <1>2 DEF Counted, Holds, Calling, InSequence, Alone, Knows, TakesOld, Late, SharedTypeOK
<1>7. Knows'
  BY <1>1, <1>2 DEF Counted, Knows, InSequence, Alone, Late, SharedTypeOK
<1>8. TakesOld'
  BY <1>1, <1>2 DEF Counted, TakesOld, Knows, InSequence, Late, SharedTypeOK
<1> QED BY <1>3, <1>4, <1>5, <1>6, <1>7, <1>8 DEF ClaimFacts

LEMMA SeeFacts ==
  ASSUME SharedTypeOK, ClaimFacts, NEW t \in Thread, th[t].pc = "read", claim.copy # NoCopy, claim.stale,
         th' = [th EXCEPT ![t] = [@ EXCEPT !.pc = "takeover", !.seen = claim.copy]],
         UNCHANGED <<claim, starts, aged>>
  PROVE  ClaimFacts'
<1>1. Counted /\ InSequence /\ Alone /\ Holds /\ Knows /\ TakesOld
  BY DEF ClaimFacts
<1>2. /\ th'[t].pc = "takeover" /\ th'[t].copy = th[t].copy /\ th'[t].seen = claim.copy
      /\ th'[t].claimed = th[t].claimed /\ \A u \in Thread \ {t} : th'[u] = th[u]
  BY DEF SharedTypeOK, ThreadState
<1>3. ~th[t].claimed
  BY <1>1 DEF InSequence, Late
<1>4. Counted'
  BY <1>1, <1>2, <1>3 DEF Counted, SharedTypeOK, ThreadState
<1>5. InSequence'
  BY <1>1, <1>2, <1>3 DEF InSequence, Late, Counted
<1>6. Alone'
  BY <1>1, <1>2, <1>3 DEF Counted, Alone, SharedTypeOK
<1>7. Holds'
  BY <1>1, <1>2, <1>3 DEF Counted, Holds, Calling, InSequence, Alone, Knows, TakesOld, Late, SharedTypeOK
<1>8. Knows'
  BY <1>1, <1>2, <1>3 DEF Counted, Knows, InSequence, Alone, Late, SharedTypeOK
<1>9. TakesOld'
  BY <1>1, <1>2, <1>3 DEF Counted, TakesOld, Knows, InSequence, Late, SharedTypeOK
<1> QED BY <1>4, <1>5, <1>6, <1>7, <1>8, <1>9 DEF ClaimFacts

LEMMA DeleteFacts ==
  ASSUME SharedTypeOK, ClaimFacts, NEW t \in Thread, TakeoverDelete(t)
  PROVE  ClaimFacts'
<1>1. Counted /\ InSequence /\ Alone /\ Holds /\ Knows /\ TakesOld
  BY DEF ClaimFacts
<1>2. /\ th[t].pc = "takeover" /\ th'[t].pc = "reinsert" /\ th'[t].copy = th[t].copy
      /\ th'[t].seen = th[t].seen /\ th'[t].claimed = th[t].claimed
      /\ (\A u \in Thread \ {t} : th'[u] = th[u]) /\ UNCHANGED <<starts, aged>>
  BY DEF SharedTypeOK, TakeoverDelete, Goto, ThreadState
<1>3. \/ claim' = claim
      \/ claim'.copy = NoCopy /\ claim'.stale = FALSE /\ claim.copy = th[t].seen
  BY DEF TakeoverDelete, NoClaim
<1>4. ~th[t].claimed
  BY <1>1, <1>2 DEF InSequence, Late
<1>5. Counted'
  BY <1>1, <1>2, <1>3, <1>4 DEF Counted, SharedTypeOK, ThreadState
<1>6. InSequence'
  BY <1>1, <1>2, <1>3, <1>4 DEF InSequence, Late, Counted
<1>7. Alone'
  BY <1>1, <1>2, <1>3, <1>4 DEF Counted, Alone, SharedTypeOK
<1>8. Holds'
  BY <1>1, <1>2, <1>3, <1>4 DEF Counted, Holds, Calling, InSequence, Alone, Knows, TakesOld, Late, SharedTypeOK
<1>9. Knows'
  BY <1>1, <1>2, <1>3, <1>4 DEF Counted, Knows, InSequence, Alone, Late, SharedTypeOK
<1>10. TakesOld'
  BY <1>1, <1>2, <1>3, <1>4 DEF Counted, TakesOld, Knows, InSequence, Late, SharedTypeOK
<1> QED BY <1>5, <1>6, <1>7, <1>8, <1>9, <1>10 DEF ClaimFacts

LEMMA ReleaseFacts ==
  ASSUME SharedTypeOK, ClaimFacts, NEW t \in Thread, ReleaseShared(t)
  PROVE  ClaimFacts'
<1>1. Counted /\ InSequence /\ Alone /\ Holds /\ Knows /\ TakesOld
  BY DEF ClaimFacts
<1>2. /\ th[t].pc = "release" /\ UNCHANGED starts /\ \A u \in Thread \ {t} : th'[u] = th[u]
  BY DEF SharedTypeOK, ReleaseShared, Leave, Goto
<1>3. \/ /\ th'[t].pc = "consume" /\ th'[t].copy = th[t].copy /\ th'[t].seen = th[t].seen
         /\ th'[t].claimed = th[t].claimed /\ th'[t].answered = th[t].answered /\ th[t].answered
         /\ UNCHANGED aged
      \/ /\ th'[t].pc = "idle" /\ th'[t].copy = NoCopy /\ th'[t].seen = NoCopy
         /\ ~th'[t].claimed /\ aged' = aged \ {t}
  <2>1. CASE th[t].answered
    <3>1. Goto(t, "consume") /\ UNCHANGED aged
      BY <2>1 DEF ReleaseShared
    <3> QED BY <2>1, <3>1 DEF SharedTypeOK, Goto, ThreadState
  <2>2. CASE ~th[t].answered
    BY <2>2 DEF SharedTypeOK, ReleaseShared, Leave, Idle, Handling
  <2> QED BY <2>1, <2>2
<1>4. \/ claim' = claim
      \/ claim'.copy = NoCopy /\ claim'.stale = FALSE /\ claim.copy = th[t].copy
  BY DEF ReleaseShared, NoClaim
<1>5. Counted'
  BY <1>1, <1>2, <1>3, <1>4 DEF Counted, SharedTypeOK, ThreadState
<1>6. InSequence'
  BY <1>1, <1>2, <1>3, <1>4 DEF InSequence, Late, Counted
<1>7. Alone'
  BY <1>1, <1>2, <1>3, <1>4 DEF Counted, Alone, SharedTypeOK
<1>8. Holds'
  BY <1>1, <1>2, <1>3, <1>4 DEF Counted, Holds, Calling, InSequence, Alone, Knows, TakesOld, Late, SharedTypeOK
<1>9. Knows'
  BY <1>1, <1>2, <1>3, <1>4 DEF Counted, Knows, InSequence, Alone, Late, SharedTypeOK
<1>10. TakesOld'
  BY <1>1, <1>2, <1>3, <1>4 DEF Counted, TakesOld, Knows, InSequence, Late, SharedTypeOK
<1> QED BY <1>5, <1>6, <1>7, <1>8, <1>9, <1>10 DEF ClaimFacts

LEMMA AgeFacts ==
  ASSUME SharedTypeOK, ClaimFacts, AgeClaim
  PROVE  ClaimFacts'
<1>1. Counted /\ InSequence /\ Alone /\ Holds /\ Knows /\ TakesOld
  BY DEF ClaimFacts
<1>2. /\ claim.copy # NoCopy /\ claim'.copy = claim.copy /\ claim'.stale = TRUE
      /\ aged' = aged \cup {t \in Thread : th[t].copy = claim.copy} /\ UNCHANGED <<starts, th>>
  BY DEF SharedTypeOK, AgeClaim
<1>3. Counted'
  BY <1>1, <1>2 DEF Counted, SharedTypeOK, ThreadState
<1>4. InSequence'
  BY <1>1, <1>2 DEF InSequence, Late, Counted
<1>5. Alone'
  BY <1>1, <1>2 DEF Counted, Alone, SharedTypeOK
<1>6. Holds'
  BY <1>1, <1>2 DEF Counted, Holds, Calling, InSequence, Alone, Knows, TakesOld, Late, SharedTypeOK
<1>7. Knows'
  BY <1>1, <1>2 DEF Counted, Knows, InSequence, Alone, Late, SharedTypeOK
<1>8. TakesOld'
  BY <1>1, <1>2 DEF Counted, TakesOld, Knows, InSequence, Late, SharedTypeOK
<1> QED BY <1>3, <1>4, <1>5, <1>6, <1>7, <1>8 DEF ClaimFacts

-----------------------------------------------------------------------------
(* The moves of a thread, with their types.                                 *)
LEMMA GotoFacts ==
  ASSUME SharedTypeOK, ClaimFacts, NEW t \in Thread,
         NEW p \in At \ {"idle", "takeover", "reinsert", "consume"}, Goto(t, p),
         th[t].pc \notin {"idle", "consume"}, th[t].pc \in Late => p \in Late,
         UNCHANGED <<claim, starts, aged>>
  PROVE  th' \in [Thread -> ThreadState] /\ ClaimFacts'
<1> DEFINE v == [th[t] EXCEPT !.pc = p]
<1>1. th[t] \in ThreadState
  BY DEF SharedTypeOK
<1>2. v \in ThreadState
  BY <1>1 DEF ThreadState
<1>3. v.pc = p /\ v.copy = th[t].copy /\ v.seen = th[t].seen /\ v.claimed = th[t].claimed
  BY <1>1 DEF ThreadState
<1>4. th' = [th EXCEPT ![t] = v]
  BY DEF Goto
<1> HIDE DEF v
<1>5. th[t].claimed => th[t].pc \in Late
  BY DEF ClaimFacts, InSequence
<1>6. Calling(t) \/ ~v.claimed
  BY <1>3, <1>5 DEF Calling, Late
<1>7. ClaimFacts'
  BY <1>2, <1>3, <1>4, <1>5, <1>6, MoveFacts
<1> QED BY <1>2, <1>4, <1>7 DEF SharedTypeOK

LEMMA AnsweredFacts ==
  ASSUME SharedTypeOK, ClaimFacts, NEW t \in Thread,
         NEW p \in Late, Answered(t, p),
         th[t].pc \notin {"idle", "consume"}, UNCHANGED <<claim, starts, aged>>
  PROVE  th' \in [Thread -> ThreadState] /\ ClaimFacts'
<1> DEFINE v == [th[t] EXCEPT !.pc = p, !.answered = TRUE]
<1>1. th[t] \in ThreadState /\ p \in At
  BY DEF SharedTypeOK, Late, At
<1>2. v \in ThreadState
  BY <1>1 DEF ThreadState
<1>3. /\ v.pc = p /\ v.copy = th[t].copy /\ v.seen = th[t].seen /\ v.claimed = th[t].claimed
      /\ v.answered
  BY <1>1 DEF ThreadState
<1>4. th' = [th EXCEPT ![t] = v]
  BY DEF Answered
<1> HIDE DEF v
<1>5. th[t].claimed => th[t].pc \in Late
  BY DEF ClaimFacts, InSequence
<1>6. Calling(t) \/ ~v.claimed
  BY <1>3, <1>5 DEF Calling, Late
<1>7. v.pc \notin {"idle", "takeover", "reinsert"}
  BY <1>3 DEF Late
<1>8. ClaimFacts'
  BY <1>2, <1>3, <1>4, <1>6, <1>7, MoveFacts
<1> QED BY <1>2, <1>4, <1>8 DEF SharedTypeOK

LEMMA OthersFacts ==
  ASSUME SharedTypeOK, ClaimFacts, NEW t \in Thread, Others(t),
         th[t].pc \in {"read", "reinsert"}, UNCHANGED <<claim, starts, aged>>
  PROVE  th' \in [Thread -> ThreadState] /\ ClaimFacts'
<1> DEFINE v == [th[t] EXCEPT !.pc = "wait", !.seen = NoCopy]
<1>1. th[t] \in ThreadState
  BY DEF SharedTypeOK
<1>2. v \in ThreadState
  BY <1>1 DEF ThreadState, At
<1>3. v.pc = "wait" /\ v.copy = th[t].copy /\ v.seen = NoCopy /\ v.claimed = th[t].claimed
  BY <1>1 DEF ThreadState
<1>4. th' = [th EXCEPT ![t] = v]
  BY DEF Others
<1> HIDE DEF v
<1>5. ~th[t].claimed
  BY DEF ClaimFacts, InSequence, Late
<1>6. ClaimFacts'
  BY <1>2, <1>3, <1>4, <1>5, MoveFacts
<1> QED BY <1>2, <1>4, <1>6 DEF SharedTypeOK

LEMMA OwnedType ==
  ASSUME SharedTypeOK, NEW t \in Thread, Owned(t) PROVE th' \in [Thread -> ThreadState]
<1>1. th[t] \in ThreadState
  BY DEF SharedTypeOK
<1>2. [th[t] EXCEPT !.pc = "call", !.claimed = TRUE, !.seen = NoCopy] \in ThreadState
  BY <1>1 DEF ThreadState, At
<1> QED BY <1>2 DEF Owned, SharedTypeOK

LEMMA LeaveType ==
  ASSUME SharedTypeOK, NEW t \in Thread, Leave(t)
  PROVE  th' \in [Thread -> ThreadState] /\ aged' \in SUBSET Thread
<1>1. Idle \in ThreadState
  BY DEF Idle, Handling, ThreadState, At
<1> QED BY <1>1 DEF Leave, SharedTypeOK

LEMMA CopyHandled ==
  ASSUME SharedTypeOK, ClaimFacts, NEW t \in Thread, th[t].pc # "idle"
  PROVE  th[t].copy \in Copy /\ starts[th[t].copy] \in {1, 2} /\ TenantOf[th[t].copy] \in Tenant
BY DEF SharedTypeOK, ClaimFacts, Counted

SharedInv == SharedTypeOK /\ ClaimFacts

(* One step per action.                                                     *)
LEMMA StartCopyInv ==
  ASSUME SharedInv, NEW t \in Thread, NEW c \in Copy, StartCopy(t, c) PROVE SharedInv'
<1>1. Handling("local", c) \in ThreadState
  BY DEF Handling, ThreadState, At
<1>2. th' \in [Thread -> ThreadState] /\ starts' \in [Copy -> 0..2]
  BY <1>1 DEF SharedInv, SharedTypeOK, StartCopy
<1>3. SharedTypeOK'
  BY <1>2 DEF SharedInv, SharedTypeOK, StartCopy
<1> QED BY <1>3, StartFacts DEF SharedInv

LEMMA LookupInv ==
  ASSUME SharedInv, NEW t \in Thread, LocalLookup(t) \/ SharedLookup(t) PROVE SharedInv'
<1>1. /\ th[t].pc \in {"local", "shared"} /\ UNCHANGED <<row, starts, claim, table, shared, aged, faults>>
      /\ \/ Answered(t, "consume") \/ Goto(t, "shared") \/ Goto(t, "insert")
  BY DEF LocalLookup, SharedLookup
<1>2. th[t].pc \notin Late /\ {"shared", "insert"} \subseteq At /\ "consume" \in Late
  BY <1>1 DEF Late, At
<1>3. th' \in [Thread -> ThreadState] /\ ClaimFacts'
  BY <1>1, <1>2, GotoFacts, AnsweredFacts DEF SharedInv
<1>4. local' \in SUBSET Tenant
  BY <1>1, CopyHandled DEF SharedInv, SharedTypeOK, LocalLookup, SharedLookup
<1> QED BY <1>1, <1>3, <1>4 DEF SharedInv, SharedTypeOK

LEMMA ClaimInsertInv ==
  ASSUME SharedInv, NEW t \in Thread, ClaimInsertShared(t) PROVE SharedInv'
<1>1. th[t].pc = "insert" /\ UNCHANGED <<row, starts, table, local, shared, aged, faults>>
  BY DEF ClaimInsertShared
<1>2. CASE (Goto(t, "call") \/ Goto(t, "read")) /\ UNCHANGED claim
  <2>1. th[t].pc \notin Late /\ {"call", "read"} \subseteq At
    BY <1>1 DEF Late, At
  <2>2. th' \in [Thread -> ThreadState] /\ ClaimFacts'
    BY <1>1, <1>2, <2>1, GotoFacts DEF SharedInv
  <2> QED BY <1>1, <1>2, <2>2 DEF SharedInv, SharedTypeOK
<1>3. CASE claim.copy = NoCopy /\ Own(th[t].copy) /\ Owned(t)
  <2>1. ClaimFacts'
    BY <1>1, <1>3, OwnFacts DEF SharedInv
  <2>2. claim' \in [copy : Copy \cup {NoCopy}, stale : BOOLEAN]
    BY <1>1, <1>3, CopyHandled DEF SharedInv, Own
  <2> QED BY <1>1, <1>3, <2>1, <2>2, OwnedType DEF SharedInv, SharedTypeOK
<1> QED BY <1>2, <1>3 DEF ClaimInsertShared

LEMMA ClaimReadInv ==
  ASSUME SharedInv, NEW t \in Thread, ClaimReadShared(t) PROVE SharedInv'
<1>1. th[t].pc = "read" /\ UNCHANGED <<row, starts, claim, table, local, shared, aged, faults>>
  BY DEF ClaimReadShared
<1>2. CASE /\ claim.copy # NoCopy /\ claim.stale
           /\ th' = [th EXCEPT ![t] = [@ EXCEPT !.pc = "takeover", !.seen = claim.copy]]
  <2>1. ClaimFacts'
    BY <1>1, <1>2, SeeFacts DEF SharedInv
  <2>2. th[t] \in ThreadState /\ claim.copy \in Copy \cup {NoCopy}
    BY DEF SharedInv, SharedTypeOK
  <2>3. [th[t] EXCEPT !.pc = "takeover", !.seen = claim.copy] \in ThreadState
    BY <2>2 DEF ThreadState, At
  <2>4. th' \in [Thread -> ThreadState]
    BY <1>2, <2>3 DEF SharedInv, SharedTypeOK
  <2> QED BY <1>1, <2>1, <2>4 DEF SharedInv, SharedTypeOK
<1>3. CASE Others(t)
  <2>1. th' \in [Thread -> ThreadState] /\ ClaimFacts'
    BY <1>1, <1>3, OthersFacts DEF SharedInv
  <2> QED BY <1>1, <2>1 DEF SharedInv, SharedTypeOK
<1>4. CASE claim.copy = th[t].copy /\ Owned(t)
  <2>1. th[t].copy \in Copy /\ starts[th[t].copy] \in {1, 2}
    BY <1>1, CopyHandled DEF SharedInv
  <2>2. ~th[t].claimed
    BY <1>1 DEF SharedInv, ClaimFacts, InSequence, Late
  <2>3. starts[th[t].copy] = 2
    BY <1>4, <2>1, <2>2 DEF SharedInv, ClaimFacts, Knows
  <2>4. ClaimFacts'
    BY <1>1, <1>4, <2>3, OwnAgainFacts DEF SharedInv
  <2> QED BY <1>1, <1>4, <2>4, OwnedType DEF SharedInv, SharedTypeOK
<1> QED BY <1>2, <1>3, <1>4 DEF ClaimReadShared

LEMMA TakeoverDeleteInv ==
  ASSUME SharedInv, NEW t \in Thread, TakeoverDelete(t) PROVE SharedInv'
<1>1. th[t] \in ThreadState /\ "reinsert" \in At
  BY DEF SharedInv, SharedTypeOK, At
<1>2. [th[t] EXCEPT !.pc = "reinsert"] \in ThreadState
  BY <1>1 DEF ThreadState
<1>3. th' \in [Thread -> ThreadState]
  BY <1>2 DEF SharedInv, SharedTypeOK, TakeoverDelete, Goto
<1>4. claim' \in [copy : Copy \cup {NoCopy}, stale : BOOLEAN]
  BY DEF SharedInv, SharedTypeOK, TakeoverDelete, NoClaim
<1>5. UNCHANGED <<row, starts, table, local, shared, aged, faults>>
  BY DEF TakeoverDelete
<1>6. SharedTypeOK'
  BY <1>3, <1>4, <1>5 DEF SharedInv, SharedTypeOK
<1> QED BY <1>6, DeleteFacts DEF SharedInv

LEMMA TakeoverInsertInv ==
  ASSUME SharedInv, NEW t \in Thread, TakeoverInsert(t) PROVE SharedInv'
<1>1. th[t].pc = "reinsert" /\ UNCHANGED <<row, starts, table, local, shared, aged, faults>>
  BY DEF TakeoverInsert
<1>2. CASE claim.copy = NoCopy /\ Own(th[t].copy) /\ Owned(t)
  <2>1. ClaimFacts'
    BY <1>1, <1>2, OwnFacts DEF SharedInv
  <2>2. claim' \in [copy : Copy \cup {NoCopy}, stale : BOOLEAN]
    BY <1>1, <1>2, CopyHandled DEF SharedInv, Own
  <2> QED BY <1>1, <1>2, <2>1, <2>2, OwnedType DEF SharedInv, SharedTypeOK
<1>3. CASE Others(t) /\ UNCHANGED claim
  <2>1. th' \in [Thread -> ThreadState] /\ ClaimFacts'
    BY <1>1, <1>3, OthersFacts DEF SharedInv
  <2> QED BY <1>1, <1>3, <2>1 DEF SharedInv, SharedTypeOK
<1>4. CASE th[t].seen = th[t].copy /\ Owned(t) /\ UNCHANGED claim
  <2>1. th[t].copy \in Copy /\ starts[th[t].copy] \in {1, 2}
    BY <1>1, CopyHandled DEF SharedInv
  <2>2. ~th[t].claimed
    BY <1>1 DEF SharedInv, ClaimFacts, InSequence, Late
  <2>3. starts[th[t].copy] = 2
    BY <1>1, <1>4, <2>1, <2>2 DEF SharedInv, ClaimFacts, TakesOld
  <2>4. ClaimFacts'
    BY <1>1, <1>4, <2>3, OwnAgainFacts DEF SharedInv
  <2> QED BY <1>1, <1>4, <2>4, OwnedType DEF SharedInv, SharedTypeOK
<1> QED BY <1>2, <1>3, <1>4 DEF TakeoverInsert

(* A thread leaves; at most its row is consumed and a fault counted.        *)
LEMMA LeaveInv ==
  ASSUME SharedInv, NEW t \in Thread, Leave(t), UNCHANGED <<claim, starts, table, local, shared>>,
         row' \in [Copy -> {"queued", "consumed"}], faults' \in 0..MaxFaults
  PROVE  SharedInv'
<1>1. ClaimFacts'
  BY LeaveFacts DEF SharedInv
<1> QED BY <1>1, LeaveType DEF SharedInv, SharedTypeOK

LEMMA FaultType ==
  ASSUME SharedTypeOK, Fault PROVE faults' \in 0..MaxFaults
BY DEF SharedTypeOK, Fault

LEMMA EndInv ==
  ASSUME SharedInv, NEW t \in Thread, ClaimRaises(t) \/ CrashShared(t) \/ ConsumeCopy(t)
  PROVE  SharedInv'
<1>1. Leave(t) /\ UNCHANGED <<claim, starts, table, local, shared>>
  BY DEF ClaimRaises, CrashShared, ConsumeCopy
<1>2. row' \in [Copy -> {"queued", "consumed"}]
  BY DEF SharedInv, SharedTypeOK, ClaimRaises, CrashShared, ConsumeCopy
<1>3. faults' \in 0..MaxFaults
  BY FaultType DEF SharedInv, SharedTypeOK, ClaimRaises, CrashShared, ConsumeCopy
<1> QED BY <1>1, <1>2, <1>3, LeaveInv

LEMMA AwaitAnswerInv ==
  ASSUME SharedInv, NEW t \in Thread, AwaitAnswer(t) PROVE SharedInv'
<1>1. th[t].pc = "wait" /\ UNCHANGED <<row, starts, claim, table, shared, faults>>
  BY DEF AwaitAnswer
<1>2. CASE Leave(t) /\ UNCHANGED local
  BY <1>1, <1>2, LeaveInv DEF SharedInv, SharedTypeOK
<1>3. CASE /\ Answered(t, "consume") /\ UNCHANGED aged
           /\ local' \in {local, local \cup {TenantOf[th[t].copy]}}
  <2>1. th' \in [Thread -> ThreadState] /\ ClaimFacts'
    BY <1>1, <1>3, AnsweredFacts DEF SharedInv, Late
  <2>2. local' \in SUBSET Tenant
    BY <1>1, <1>3, CopyHandled DEF SharedInv, SharedTypeOK
  <2> QED BY <1>1, <1>3, <2>1, <2>2 DEF SharedInv, SharedTypeOK
<1> QED BY <1>2, <1>3 DEF AwaitAnswer

LEMMA ProviderInv ==
  ASSUME SharedInv, NEW t \in Thread, ProviderAnswers(t) \/ ProviderFails(t) PROVE SharedInv'
<1>1. th[t].pc = "call" /\ UNCHANGED <<row, starts, claim, table, local, shared, aged>>
  BY DEF ProviderAnswers, ProviderFails
<1>2. faults' \in 0..MaxFaults
  BY FaultType DEF SharedInv, SharedTypeOK, ProviderAnswers, ProviderFails
<1>3. \/ \E p \in {"cache", "consume", "release"} : Answered(t, p)
      \/ Goto(t, "release")
  BY DEF ProviderAnswers, ProviderFails
<1>4. {"cache", "consume", "release"} \subseteq Late /\ "release" \in At
  BY DEF Late, At
<1>5. th' \in [Thread -> ThreadState] /\ ClaimFacts'
  BY <1>1, <1>3, <1>4, GotoFacts, AnsweredFacts DEF SharedInv
<1> QED BY <1>1, <1>2, <1>5 DEF SharedInv, SharedTypeOK

LEMMA StoreInv ==
  ASSUME SharedInv, NEW t \in Thread, CacheStore(t) \/ SharedStore(t) PROVE SharedInv'
<1>1. /\ th[t].pc \in {"cache", "publish"} /\ UNCHANGED <<row, starts, claim, table, aged, faults>>
      /\ Goto(t, "publish") \/ Goto(t, "release")
  BY DEF CacheStore, SharedStore
<1>2. {"publish", "release"} \subseteq Late \cap At
  BY DEF Late, At
<1>3. th' \in [Thread -> ThreadState] /\ ClaimFacts'
  BY <1>1, <1>2, GotoFacts DEF SharedInv
<1>4. local' \in SUBSET Tenant /\ shared' \in BOOLEAN
  BY <1>1, CopyHandled DEF SharedInv, SharedTypeOK, CacheStore, SharedStore
<1> QED BY <1>1, <1>3, <1>4 DEF SharedInv, SharedTypeOK

LEMMA ReleaseInv ==
  ASSUME SharedInv, NEW t \in Thread, ReleaseShared(t) PROVE SharedInv'
<1>1. UNCHANGED <<row, starts, table, local, shared, faults>>
  BY DEF ReleaseShared
<1>2. claim' \in [copy : Copy \cup {NoCopy}, stale : BOOLEAN]
  <2>1. claim' = claim \/ claim' = NoClaim
    BY DEF ReleaseShared
  <2>2. NoClaim \in [copy : Copy \cup {NoCopy}, stale : BOOLEAN]
    BY DEF NoClaim
  <2> QED BY <2>1, <2>2 DEF SharedInv, SharedTypeOK
<1>3. th' \in [Thread -> ThreadState] /\ aged' \in SUBSET Thread
  <2>1. CASE Leave(t)
    BY <2>1, LeaveType DEF SharedInv
  <2>2. CASE Goto(t, "consume") /\ UNCHANGED aged
    <3>1. th[t] \in ThreadState /\ "consume" \in At
      BY DEF SharedInv, SharedTypeOK, At
    <3>2. [th[t] EXCEPT !.pc = "consume"] \in ThreadState
      BY <3>1 DEF ThreadState
    <3> QED BY <2>2, <3>2 DEF SharedInv, SharedTypeOK, Goto
  <2> QED BY <2>1, <2>2 DEF ReleaseShared
<1>4. SharedTypeOK'
  BY <1>1, <1>2, <1>3 DEF SharedInv, SharedTypeOK
<1> QED BY <1>4, ReleaseFacts DEF SharedInv

LEMMA AgeClaimInv ==
  ASSUME SharedInv, AgeClaim PROVE SharedInv'
<1>1. claim' \in [copy : Copy \cup {NoCopy}, stale : BOOLEAN]
  BY DEF SharedInv, SharedTypeOK, AgeClaim
<1>2. aged' \in SUBSET Thread /\ UNCHANGED <<row, starts, table, local, shared, th, faults>>
  BY DEF SharedInv, SharedTypeOK, AgeClaim
<1>3. SharedTypeOK'
  BY <1>1, <1>2 DEF SharedInv, SharedTypeOK
<1> QED BY <1>3, AgeFacts DEF SharedInv

-----------------------------------------------------------------------------
LEMMA SharedInvInit == SharedInit => SharedInv
<1> SUFFICES ASSUME SharedInit PROVE SharedInv
  OBVIOUS
<1>1. Idle \in ThreadState /\ Idle.pc = "idle" /\ Idle.copy = NoCopy /\ Idle.seen = NoCopy
      /\ ~Idle.claimed
  BY DEF Idle, Handling, ThreadState, At
<1>2. SharedTypeOK
  <2>1. NoClaim \in [copy : Copy \cup {NoCopy}, stale : BOOLEAN]
    BY DEF NoClaim
  <2>2. th \in [Thread -> ThreadState] /\ row \in [Copy -> {"queued", "consumed"}]
        /\ starts \in [Copy -> 0..2]
    BY <1>1 DEF SharedInit
  <2>3. faults \in 0..MaxFaults /\ aged \in SUBSET Thread /\ local \in SUBSET Tenant
    BY DEF SharedInit
  <2>4. table \in BOOLEAN /\ shared \in BOOLEAN
    BY DEF SharedInit
  <2> QED BY <2>1, <2>2, <2>3, <2>4 DEF SharedInit, SharedTypeOK
<1>3. \A t \in Thread : th[t] = Idle
  BY DEF SharedInit
<1>4. ClaimFacts
  BY <1>1, <1>3 DEF ClaimFacts, Counted, InSequence, Alone, Holds, Knows, TakesOld, Calling,
                    SharedInit, NoClaim
<1> QED BY <1>2, <1>4 DEF SharedInv

LEMMA SharedInvNext == SharedInv /\ [SharedNext]_sharedVars => SharedInv'
<1> SUFFICES ASSUME SharedInv, [SharedNext]_sharedVars PROVE SharedInv'
  OBVIOUS
<1>1. CASE UNCHANGED sharedVars
  BY <1>1 DEF sharedVars, SharedInv, SharedTypeOK, ClaimFacts, Counted, InSequence, Alone, Holds,
              Knows, TakesOld, Calling
<1>2. ASSUME NEW t \in Thread, ThreadStep(t) \/ CrashShared(t) PROVE SharedInv'
  BY <1>2, StartCopyInv, LookupInv, ClaimInsertInv, ClaimReadInv, TakeoverDeleteInv,
     TakeoverInsertInv, EndInv, AwaitAnswerInv, ProviderInv, StoreInv, ReleaseInv
     DEF ThreadStep, ClaimStep
<1>3. CASE AgeClaim
  BY <1>3, AgeClaimInv
<1> QED BY <1>1, <1>2, <1>3 DEF SharedNext, AllConsumed

LEMMA SharedInvariant == SharedSpec => []SharedInv
<1> QED BY SharedInvInit, SharedInvNext, PTL DEF SharedSpec

(* The claim table, the caches and the threads keep their types under any   *)
(* interleaving and any fault.                                              *)
THEOREM SharedTypeCorrect == SharedSpec => []SharedTypeOK
<1>1. SharedInv => SharedTypeOK
  BY DEF SharedInv
<1> QED BY <1>1, SharedInvariant, PTL

(* claim_shared_extraction_hash: calls under the claim exclude one another, *)
(* except past its ten minutes and for copies that are handled again.       *)
THEOREM SharedCallsSerialised == SharedSpec => []CallsSerialised
<1>1. SharedInv => CallsSerialised
  <2> SUFFICES ASSUME SharedInv, NEW t \in Thread, NEW u \in Thread, t # u,
                      Calling(t), Calling(u), t \notin aged, u \notin aged
               PROVE  starts[th[t].copy] = 2 \/ starts[th[u].copy] = 2
    BY DEF CallsSerialised
  <2>1. th[t].pc # "idle" /\ th[u].pc # "idle"
    BY DEF Calling
  <2>2. /\ th[t].copy \in Copy /\ starts[th[t].copy] \in {1, 2}
        /\ th[u].copy \in Copy /\ starts[th[u].copy] \in {1, 2}
    BY <2>1, CopyHandled DEF SharedInv
  <2>3. Holds /\ Alone
    BY DEF SharedInv, ClaimFacts
  <2>4. CASE starts[th[t].copy] = 1 /\ starts[th[u].copy] = 1
    <3>1. claim.copy = th[t].copy /\ claim.copy = th[u].copy
      BY <2>3, <2>4 DEF Holds
    <3> QED BY <2>2, <2>3, <3>1 DEF Alone
  <2> QED BY <2>2, <2>4
<1> QED BY <1>1, SharedInvariant, PTL

(* process_raw_message: only a thread that has an answer consumes its row.  *)
THEOREM SharedConsumesAnswers == SharedSpec => ConsumedWithAnswer
<1>1. ASSUME SharedInv, [SharedNext]_sharedVars
      PROVE  [\A c \in Copy : row'[c] # row[c] =>
               \E t \in Thread : th[t].copy = c /\ th[t].answered]_sharedVars
  <2>1. CASE UNCHANGED row
    BY <2>1
  <2>2. ASSUME NEW t \in Thread, ConsumeCopy(t), NEW c \in Copy, row'[c] # row[c]
        PROVE  th[t].copy = c /\ th[t].answered
    <3>1. row' = [row EXCEPT ![th[t].copy] = "consumed"] /\ th[t].pc = "consume"
      BY <2>2 DEF ConsumeCopy
    <3>2. th[t].copy = c
      BY <2>2, <3>1 DEF SharedInv, SharedTypeOK
    <3>3. th[t].answered
      <4>1. InSequence
        BY <1>1 DEF SharedInv, ClaimFacts
      <4> QED BY Zenon, <3>1, <4>1 DEF InSequence
    <3> QED BY <3>2, <3>3
  <2>3. (\E t \in Thread : ConsumeCopy(t)) \/ UNCHANGED row
    BY <1>1 DEF SharedNext, ThreadStep, ClaimStep, StartCopy, LocalLookup, SharedLookup,
       ClaimInsertShared, ClaimReadShared, TakeoverDelete, TakeoverInsert, ClaimRaises,
       AwaitAnswer, ProviderAnswers, ProviderFails, CacheStore, SharedStore, ReleaseShared,
       CrashShared, AgeClaim, AllConsumed, sharedVars
  <2> QED BY <2>1, <2>2, <2>3
<1> QED BY <1>1, SharedInvariant, PTL DEF SharedSpec, ConsumedWithAnswer
=============================================================================
