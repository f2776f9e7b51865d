-------------------------- MODULE IntakeStoreProofs --------------------------
(***************************************************************************)
(* The two ends of the pipeline, each on its own: WebhookIntake for any    *)
(* messages, chats, requests, refreshes and slots, and TypedStore for any  *)
(* messages, tables and threads.                                           *)
(***************************************************************************)
EXTENDS TypedStore, WebhookIntake, FiniteSetTheorems, TLAPS

(* Intake: every request that still has to write the directory has a stored *)
(* message of its own that nothing in the directory counts yet.             *)

(* The requests between the stored row and the directory's entry for it,    *)
(* and the messages of a chat that are stored and past that.                *)
Touching == {"touch", "bump", "fresh", "put"}
Counted(c) == {m \in StoredIn(c) : \A h \in Handler : hd[h].pc \in Touching => hd[h].msg # m}

(* Activity v is no more than that of the messages C, at a time of S.       *)
Fits(v, C, S) == v.count <= Cardinality(C) /\ v.last \in {0} \cup {TimeOf[m] : m \in S}

(* A request is about a message, one that touches the directory about a     *)
(* stored WhatsApp message that no other one touches it for.                *)
RequestFacts ==
  /\ \A h \in Handler : hd[h].pc # "idle" => hd[h].msg \in Message
  /\ \A h \in Handler : hd[h].pc = "allow" => hd[h].msg \notin Mail
  /\ \A h \in Handler : hd[h].pc \in Touching => hd[h].msg \notin Mail /\ raws[hd[h].msg] > 0
  /\ \A h, g \in Handler : hd[h].pc \in Touching /\ hd[g].pc \in Touching /\ h # g
                             => hd[h].msg # hd[g].msg

PoolBalanced == IsFiniteSet(pool) /\ SlotsBalanced

IntakeInv == IntakeTypeOK /\ RequestFacts /\ PoolBalanced

(* What the directory shows, and what a request or a refresh has read of    *)
(* it, leaves a message uncounted for every request still to write.         *)
ActivityFits ==
  /\ IsFiniteSet({m \in Message : raws[m] > 0})
  /\ \A c \in Chat : Fits(dir[c], Counted(c), StoredIn(c))
  /\ \A h \in Handler, c \in Chat :
       hd[h].pc \in {"bump", "put"} /\ ChatOf[hd[h].msg] = c
         => Fits(hd[h].seen, Counted(c), StoredIn(c))
  /\ \A t \in Refresher, c \in Chat : Fits(rf[t].seen[c], Counted(c), StoredIn(c))

USE IntakeAssumption

LEMMA NothingFits == NoConv \in Conv /\ NoConv.count = 0 /\ NoConv.last = 0 /\ NoConv.id = 0
BY DEF NoConv, Conv, Times

LEMMA NoneInConv == /\ NoRequest \in Request /\ NoRequest.pc = "idle"
                    /\ NoTask \in RefreshTask /\ NoTask.pc = "idle" /\ NoTask.seen = [c \in Chat |-> NoConv]
BY NothingFits DEF NoRequest, Request, NoTask, RefreshTask

LEMMA IntakeInitInv == IntakeInit => IntakeInv /\ ActivityFits
<1> SUFFICES ASSUME IntakeInit PROVE IntakeInv /\ ActivityFits
  OBVIOUS
<1>1. IntakeTypeOK
  BY NothingFits, NoneInConv DEF IntakeInit, IntakeTypeOK
<1>2. RequestFacts
  BY NoneInConv DEF IntakeInit, RequestFacts, Touching
<1>3. PoolBalanced
  BY FS_EmptySet DEF IntakeInit, PoolBalanced, SlotsBalanced
<1>4. {m \in Message : raws[m] > 0} = {}
  BY DEF IntakeInit
<1>5. \A C, S : IsFiniteSet(C) => Fits(NoConv, C, S)
  BY NothingFits, FS_CardinalityType DEF Fits
<1>6. \A c \in Chat : StoredIn(c) = {} /\ Counted(c) = {}
  BY DEF IntakeInit, StoredIn, Counted
<1>7. ActivityFits
  <2>1. \A C, S : C = {} => Fits(NoConv, C, S)
    BY <1>5, FS_EmptySet
  <2>2. IsFiniteSet({m \in Message : raws[m] > 0})
    BY <1>4, FS_EmptySet
  <2>3. \A c \in Chat : dir[c] = NoConv /\ Fits(dir[c], Counted(c), StoredIn(c))
    BY <1>6, <2>1 DEF IntakeInit
  <2>4. \A h \in Handler : hd[h].pc = "idle"
    BY NoneInConv DEF IntakeInit
  <2>5. \A t \in Refresher, c \in Chat : Fits(rf[t].seen[c], Counted(c), StoredIn(c))
    BY <1>6, <2>1, NoneInConv DEF IntakeInit
  <2> QED BY <2>2, <2>3, <2>4, <2>5 DEF ActivityFits
<1> QED BY <1>1, <1>2, <1>3, <1>7 DEF IntakeInv

-----------------------------------------------------------------------------
(* The pool. *)

LEMMA SubmitBalanced ==
  ASSUME IntakeInv, NEW m \in Message, Submit(m)
  PROVE PoolBalanced' /\ pool' \subseteq Message \X (1..Slots) /\ slots' \in 0..Slots /\ flops' = flops
<1>1. PICK k \in 1..Slots : <<m, k>> \notin pool /\ pool' = pool \cup {<<m, k>>}
  BY DEF Submit
<1>2. IsFiniteSet(pool') /\ Cardinality(pool') = Cardinality(pool) + 1
  BY <1>1, FS_AddElement DEF IntakeInv, PoolBalanced
<1>3. Cardinality(pool) \in Nat
  BY FS_CardinalityType DEF IntakeInv, PoolBalanced
<1>4. slots > 0 /\ slots' = slots - 1 /\ slots \in 0..Slots
  BY DEF Submit, IntakeInv, IntakeTypeOK
<1>5. slots' + Cardinality(pool') = Slots
  BY <1>2, <1>3, <1>4 DEF IntakeInv, PoolBalanced, SlotsBalanced
<1> QED BY <1>1, <1>2, <1>4, <1>5 DEF PoolBalanced, SlotsBalanced, Submit, IntakeInv, IntakeTypeOK

LEMMA RefusedBalanced ==
  ASSUME IntakeInv, Refused
  PROVE /\ PoolBalanced' /\ pool' \subseteq Message \X (1..Slots) /\ slots' \in 0..Slots
        /\ flops' \in 0..MaxFlops
BY DEF IntakeInv, IntakeTypeOK, Refused, Flop, PoolBalanced, SlotsBalanced

LEMMA EndsBalanced ==
  ASSUME IntakeInv, NEW m \in Message, ExtractionEnds(m)
  PROVE PoolBalanced' /\ pool' \subseteq Message \X (1..Slots) /\ slots' \in 0..Slots
<1>1. PICK k \in 1..Slots : <<m, k>> \in pool /\ pool' = pool \ {<<m, k>>}
  BY DEF ExtractionEnds
<1>2. IsFiniteSet(pool') /\ Cardinality(pool') = Cardinality(pool) - 1
  BY <1>1, FS_RemoveElement DEF IntakeInv, PoolBalanced
<1>3. Cardinality(pool) \in Nat /\ Cardinality(pool') \in Nat
  BY <1>2, FS_CardinalityType DEF IntakeInv, PoolBalanced
<1>4. slots' = slots + 1 /\ slots \in 0..Slots
  BY DEF ExtractionEnds, IntakeInv, IntakeTypeOK
<1>5. slots' + Cardinality(pool') = Slots /\ slots' \in 0..Slots
  BY <1>2, <1>3, <1>4 DEF IntakeInv, PoolBalanced, SlotsBalanced
<1> QED BY <1>1, <1>2, <1>4, <1>5 DEF PoolBalanced, SlotsBalanced, IntakeInv, IntakeTypeOK

-----------------------------------------------------------------------------
(* What makes the directory's bounds last. *)

(* No stored row is lost, and a request begins to touch the directory only  *)
(* for a message that was not stored.                                       *)
RowsLast ==
  /\ \A m \in Message : raws[m] > 0 => raws'[m] > 0
  /\ \A h \in Handler : hd'[h].pc \in Touching =>
       \/ hd[h].pc \in Touching /\ hd'[h].msg = hd[h].msg
       \/ ~(raws[hd'[h].msg] > 0)

LEMMA CountedLasts ==
  ASSUME RowsLast, NEW c \in Chat
  PROVE Counted(c) \subseteq Counted(c)' /\ StoredIn(c) \subseteq StoredIn(c)'
<1>1. StoredIn(c) \subseteq StoredIn(c)'
  BY DEF RowsLast, StoredIn
<1>2. ASSUME NEW m \in Counted(c) PROVE m \in Counted(c)'
  <2>1. m \in StoredIn(c)' /\ m \in Message /\ raws[m] > 0
    BY <1>1 DEF Counted, StoredIn
  <2>2. ASSUME NEW h \in Handler, hd'[h].pc \in Touching, hd'[h].msg = m PROVE FALSE
    BY <2>1, <2>2 DEF RowsLast, Counted
  <2> QED BY <2>1, <2>2 DEF Counted
<1> QED BY <1>1, <1>2

LEMMA CountedFinite ==
  ASSUME ActivityFits, NEW c \in Chat
  PROVE IsFiniteSet(Counted(c)) /\ Cardinality(Counted(c)) \in Nat
<1>1. Counted(c) \subseteq {m \in Message : raws[m] > 0}
  BY DEF Counted, StoredIn
<1> QED BY <1>1, FS_Subset, FS_CardinalityType DEF ActivityFits

LEMMA FitsMore ==
  ASSUME NEW C, NEW D, C \subseteq D, IsFiniteSet(D), NEW S, NEW T, S \subseteq T,
         NEW v \in Conv, Fits(v, C, S)
  PROVE Fits(v, D, T)
<1>1. Cardinality(C) <= Cardinality(D) /\ Cardinality(C) \in Nat /\ Cardinality(D) \in Nat
  BY FS_Subset, FS_CardinalityType
<1>2. v.count \in Nat
  BY DEF Conv
<1> QED BY <1>1, <1>2 DEF Fits

(* What was read or written before the step still fits after it; the rest   *)
(* is what the step itself reads or writes.                                 *)
LEMMA ActivityLasts ==
  ASSUME IntakeInv, ActivityFits, RowsLast,
         IsFiniteSet({m \in Message : raws'[m] > 0}),
         \A c \in Chat : dir'[c] = dir[c] \/ Fits(dir'[c], Counted(c)', StoredIn(c)'),
         \A h \in Handler, c \in Chat :
           hd'[h].pc \in {"bump", "put"} /\ ChatOf[hd'[h].msg] = c =>
             \/ hd'[h] = hd[h]
             \/ Fits(hd'[h].seen, Counted(c)', StoredIn(c)')
             \/ hd'[h].seen = dir[c],
         \A t \in Refresher, c \in Chat :
           rf'[t].seen[c] \in {rf[t].seen[c], NoConv, dir[c]}
  PROVE ActivityFits'
<1> DEFINE Kept(v, c) == Fits(v, Counted(c)', StoredIn(c)')
<1>1. ASSUME NEW c \in Chat
      PROVE /\ IsFiniteSet(Counted(c)') /\ Counted(c) \subseteq Counted(c)'
            /\ StoredIn(c) \subseteq StoredIn(c)'
  <2>1. Counted(c)' \subseteq {m \in Message : raws'[m] > 0}
    BY DEF Counted, StoredIn
  <2> QED BY <2>1, FS_Subset, CountedLasts
<1>2. ASSUME NEW c \in Chat, NEW v \in Conv, Fits(v, Counted(c), StoredIn(c)) PROVE Kept(v, c)
  BY <1>1, <1>2, FitsMore
<1>3. ASSUME NEW c \in Chat PROVE Kept(NoConv, c)
  BY <1>1, NothingFits, FS_CardinalityType DEF Fits
<1>4. ASSUME NEW c \in Chat PROVE Kept(dir[c], c)
  BY <1>2 DEF ActivityFits, IntakeInv, IntakeTypeOK
<1>5. ASSUME NEW c \in Chat PROVE Fits(dir'[c], Counted(c)', StoredIn(c)')
  BY <1>4
<1>6. ASSUME NEW h \in Handler, NEW c \in Chat,
             hd'[h].pc \in {"bump", "put"}, ChatOf[hd'[h].msg] = c
      PROVE Fits(hd'[h].seen, Counted(c)', StoredIn(c)')
  <2>1. CASE hd'[h] = hd[h]
    <3>1. hd[h].seen \in Conv
      BY DEF IntakeInv, IntakeTypeOK, Request
    <3>2. Fits(hd[h].seen, Counted(c), StoredIn(c))
      BY <1>6, <2>1 DEF ActivityFits
    <3> QED BY <2>1, <3>1, <3>2, <1>2
  <2>2. CASE hd'[h].seen = dir[c]
    BY <2>2, <1>4
  <2> QED BY <1>6, <2>1, <2>2
<1>7. ASSUME NEW t \in Refresher, NEW c \in Chat
      PROVE Fits(rf'[t].seen[c], Counted(c)', StoredIn(c)')
  <2>1. Kept(rf[t].seen[c], c)
    <3>1. rf[t].seen[c] \in Conv
      BY DEF IntakeInv, IntakeTypeOK, RefreshTask
    <3> QED BY <1>2, <3>1 DEF ActivityFits
  <2> QED BY <1>3, <1>4, <2>1
<1> QED BY <1>5, <1>6, <1>7 DEF ActivityFits

(* A request that is done with the directory adds its message.              *)
LEMMA OneMoreCounted ==
  ASSUME IntakeInv, ActivityFits, NEW h \in Handler, hd[h].pc \in Touching,
         hd'[h].pc \notin Touching, \A g \in Handler : g = h \/ hd'[g] = hd[g],
         UNCHANGED raws, NEW c \in Chat, c = ChatOf[hd[h].msg]
  PROVE /\ hd[h].msg \in StoredIn(c)'
        /\ Cardinality(Counted(c)) + 1 <= Cardinality(Counted(c)')
        /\ Cardinality(Counted(c)) \in Nat /\ Cardinality(Counted(c)') \in Nat
<1> DEFINE m == hd[h].msg
<1>1. m \in Message \ Mail /\ raws[m] > 0
  BY DEF IntakeInv, RequestFacts, Touching
<1>2. m \in StoredIn(c)' /\ m \notin Counted(c)
  BY <1>1 DEF StoredIn, Counted
<1>3. ASSUME NEW g \in Handler, hd'[g].pc \in Touching PROVE hd'[g].msg # m
  BY <1>3 DEF IntakeInv, RequestFacts
<1>4. m \in Counted(c)'
  BY <1>2, <1>3 DEF Counted
<1>5. Counted(c) \subseteq Counted(c)'
  BY CountedLasts DEF RowsLast
<1>6. IsFiniteSet(Counted(c)')
  <2>1. Counted(c)' \subseteq {x \in Message : raws[x] > 0}
    BY DEF Counted, StoredIn
  <2> QED BY <2>1, FS_Subset DEF ActivityFits
<1>7. IsFiniteSet(Counted(c)) /\ Cardinality(Counted(c) \cup {m}) = Cardinality(Counted(c)) + 1
  BY <1>2, CountedFinite, FS_AddElement
<1>8. Cardinality(Counted(c) \cup {m}) <= Cardinality(Counted(c)')
  BY <1>4, <1>5, <1>6, FS_Subset
<1> QED BY <1>2, <1>6, <1>7, <1>8, FS_CardinalityType

-----------------------------------------------------------------------------
(* The steps of a request. *)

(* One request moves on; the others, and what it does not name, stay.       *)
Moves(h) == \A g \in Handler : g = h \/ hd'[g] = hd[g]

LEMMA HandlerPut ==
  ASSUME NEW q \in [Handler -> Request], NEW h \in Handler, NEW v \in Request,
         NEW p, p = [q EXCEPT ![h] = v]
  PROVE /\ p \in [Handler -> Request] /\ p[h] = v
        /\ \A g \in Handler : g = h \/ p[g] = q[g]
OBVIOUS

LEMMA ReplyMoves ==
  ASSUME IntakeTypeOK, NEW h \in Handler, Reply(h)
  PROVE hd' \in [Handler -> Request] /\ Moves(h) /\ hd'[h].pc = "idle"
BY NoneInConv, HandlerPut DEF IntakeTypeOK, Reply, Moves

LEMMA EnterMoves ==
  ASSUME IntakeTypeOK, NEW h \in Handler,
         NEW pc \in {"dup", "save", "touch", "fresh", "schedule"}, Enter(h, pc)
  PROVE /\ hd' \in [Handler -> Request] /\ Moves(h)
        /\ hd'[h].pc = pc /\ hd'[h].msg = hd[h].msg
<1> DEFINE v == [hd[h] EXCEPT !.pc = pc]
<1>1. hd \in [Handler -> Request] /\ hd[h] \in Request
  BY DEF IntakeTypeOK
<1>2. v \in Request /\ v.pc = pc /\ v.msg = hd[h].msg
  BY <1>1 DEF Request
<1>3. hd' = [hd EXCEPT ![h] = v]
  BY <1>1 DEF Enter
<1> HIDE DEF v
<1> QED BY <1>1, <1>2, <1>3, HandlerPut DEF Moves

Reads(h, pc, d) == hd' = [hd EXCEPT ![h].pc = pc, ![h].seen = d]

LEMMA ReadMoves ==
  ASSUME IntakeTypeOK, NEW h \in Handler, NEW pc \in {"bump", "put"}, NEW d \in Conv,
         Reads(h, pc, d)
  PROVE /\ hd' \in [Handler -> Request] /\ Moves(h)
        /\ hd'[h].pc = pc /\ hd'[h].msg = hd[h].msg /\ hd'[h].seen = d
<1> DEFINE v == [hd[h] EXCEPT !.pc = pc, !.seen = d]
<1>1. hd \in [Handler -> Request] /\ hd[h] \in Request
  BY DEF IntakeTypeOK
<1>2. v \in Request /\ v.pc = pc /\ v.msg = hd[h].msg /\ v.seen = d
  BY <1>1 DEF Request
<1>3. hd' = [hd EXCEPT ![h] = v]
  BY <1>1 DEF Reads
<1> HIDE DEF v
<1> QED BY <1>1, <1>2, <1>3, HandlerPut DEF Moves

(* Where nothing but the requests and the pool changes.                     *)
LEMMA OnlyRequests ==
  ASSUME IntakeInv, ActivityFits, UNCHANGED <<raws, dir, rf>>,
         \A h \in Handler : \/ hd'[h] = hd[h] \/ hd'[h].pc \notin Touching
                            \/ hd[h].pc \in Touching /\ hd'[h].msg = hd[h].msg
                                 /\ hd'[h].pc \notin {"bump", "put"}
  PROVE ActivityFits'
<1>1. RowsLast
  BY DEF RowsLast
<1>2. \A h \in Handler : hd'[h].pc \in {"bump", "put"} => hd'[h] = hd[h]
  BY DEF Touching
<1>3. IsFiniteSet({m \in Message : raws'[m] > 0})
  BY DEF ActivityFits
<1> QED BY <1>1, <1>2, <1>3, ActivityLasts

LEMMA DeliverInv ==
  ASSUME IntakeInv, NEW h \in Handler, NEW m \in Message, Deliver(h, m)
  PROVE IntakeInv' /\ (ActivityFits => ActivityFits')
<1>0. /\ hd' \in [Handler -> Request] /\ Moves(h)
      /\ hd'[h].msg = m /\ hd'[h].pc = IF m \in Mail THEN "dup" ELSE "allow"
  <2> DEFINE v == [NoRequest EXCEPT !.msg = m, !.pc = IF m \in Mail THEN "dup" ELSE "allow"]
  <2>1. v \in Request /\ v.msg = m /\ v.pc = IF m \in Mail THEN "dup" ELSE "allow"
    BY NoneInConv DEF Request
  <2>2. hd \in [Handler -> Request] /\ hd' = [hd EXCEPT ![h] = v]
    BY DEF Deliver, IntakeInv, IntakeTypeOK
  <2> HIDE DEF v
  <2> QED BY <2>1, <2>2, HandlerPut DEF Moves
<1>1. IntakeTypeOK'
  BY <1>0 DEF IntakeInv, IntakeTypeOK, dirVars, poolVars, Deliver
<1>2. RequestFacts'
  BY <1>0 DEF IntakeInv, IntakeTypeOK, RequestFacts, Touching, Moves, Deliver
<1>3. PoolBalanced'
  BY DEF IntakeInv, PoolBalanced, SlotsBalanced, poolVars, Deliver
<1>4. ASSUME ActivityFits PROVE ActivityFits'
  BY <1>0, <1>4, OnlyRequests DEF dirVars, Touching, Moves, Deliver
<1> QED BY <1>1, <1>2, <1>3, <1>4 DEF IntakeInv

LEMMA CheckGroupInv ==
  ASSUME IntakeInv, NEW h \in Handler, CheckGroup(h)
  PROVE IntakeInv' /\ (ActivityFits => ActivityFits')
<1>0. /\ hd' \in [Handler -> Request] /\ Moves(h)
      /\ hd'[h].pc = "idle" \/ (hd'[h].pc = "dup" /\ hd'[h].msg = hd[h].msg)
  BY ReplyMoves, EnterMoves DEF CheckGroup, IntakeInv
<1>1. IntakeTypeOK'
  BY <1>0 DEF IntakeInv, IntakeTypeOK, dirVars, poolVars, CheckGroup
<1>2. RequestFacts'
  BY <1>0 DEF IntakeInv, IntakeTypeOK, RequestFacts, Touching, Moves, CheckGroup
<1>3. PoolBalanced'
  BY DEF IntakeInv, PoolBalanced, SlotsBalanced, poolVars, CheckGroup
<1>4. ASSUME ActivityFits PROVE ActivityFits'
  BY <1>0, <1>4, OnlyRequests DEF dirVars, Touching, Moves, CheckGroup
<1> QED BY <1>1, <1>2, <1>3, <1>4 DEF IntakeInv

LEMMA CheckDuplicateInv ==
  ASSUME IntakeInv, NEW h \in Handler, CheckDuplicate(h)
  PROVE IntakeInv' /\ (ActivityFits => ActivityFits')
<1>0. /\ hd' \in [Handler -> Request] /\ Moves(h)
      /\ hd'[h].pc = "idle" \/ (hd'[h].pc = "save" /\ hd'[h].msg = hd[h].msg)
  BY ReplyMoves, EnterMoves DEF CheckDuplicate, IntakeInv
<1>1. IntakeTypeOK'
  BY <1>0 DEF IntakeInv, IntakeTypeOK, dirVars, poolVars, CheckDuplicate
<1>2. RequestFacts'
  BY <1>0 DEF IntakeInv, IntakeTypeOK, RequestFacts, Touching, Moves, CheckDuplicate
<1>3. PoolBalanced'
  BY DEF IntakeInv, PoolBalanced, SlotsBalanced, poolVars, CheckDuplicate
<1>4. ASSUME ActivityFits PROVE ActivityFits'
  BY <1>0, <1>4, OnlyRequests DEF dirVars, Touching, Moves, CheckDuplicate
<1> QED BY <1>1, <1>2, <1>3, <1>4 DEF IntakeInv

LEMMA SaveRawInv ==
  ASSUME IntakeInv, NEW h \in Handler, SaveRaw(h)
  PROVE IntakeInv' /\ (ActivityFits => ActivityFits')
<1> DEFINE m == hd[h].msg
<1>m. m \in Message
  BY DEF IntakeInv, RequestFacts, SaveRaw
<1>0. /\ hd' \in [Handler -> Request] /\ Moves(h)
      /\ \/ hd'[h].pc = "idle" /\ (raws' = raws \/ raws' = [raws EXCEPT ![m] = @ + 1])
         \/ /\ hd'[h].pc = "touch" /\ hd'[h].msg = m /\ raws' = [raws EXCEPT ![m] = @ + 1]
            /\ m \notin Mail /\ ~(raws[m] > 0)
  BY ReplyMoves, EnterMoves DEF SaveRaw, IntakeInv
<1>a. /\ raws' \in [Message -> Nat] /\ \A n \in Message : n = m \/ raws'[n] = raws[n]
      /\ \A n \in Message : raws[n] > 0 => raws'[n] > 0
      /\ hd'[h].pc = "touch" => raws'[m] > 0
  BY <1>0, <1>m DEF IntakeInv, IntakeTypeOK
<1>1. IntakeTypeOK'
  BY <1>0, <1>a DEF IntakeInv, IntakeTypeOK, dirVars, poolVars, SaveRaw
<1>2. RequestFacts'
  <2>1. \A g \in Handler : hd[g].pc \in Touching => hd[g].msg \in Message /\ hd[g].pc # "idle"
    BY DEF IntakeInv, RequestFacts, Touching
  <2> QED BY <1>0, <1>a, <1>m, <2>1 DEF IntakeInv, RequestFacts, Moves, Touching
<1>3. PoolBalanced'
  BY DEF IntakeInv, PoolBalanced, SlotsBalanced, poolVars, SaveRaw
<1>4. ASSUME ActivityFits PROVE ActivityFits'
  <2>1. IsFiniteSet({n \in Message : raws'[n] > 0})
    <3>1. IsFiniteSet({n \in Message : raws[n] > 0} \cup {m})
      BY <1>4, FS_AddElement DEF ActivityFits
    <3>2. {n \in Message : raws'[n] > 0} \subseteq {n \in Message : raws[n] > 0} \cup {m}
      BY <1>a
    <3> QED BY <3>1, <3>2, FS_Subset
  <2>2. RowsLast
    BY <1>0, <1>a DEF RowsLast, Moves, Touching
  <2>3. UNCHANGED <<dir, rf>>
    BY DEF SaveRaw, dirVars
  <2>4. \A g \in Handler : hd'[g].pc \in {"bump", "put"} => hd'[g] = hd[g]
    BY <1>0 DEF Moves
  <2> QED BY <1>4, <2>1, <2>2, <2>3, <2>4, ActivityLasts
<1> QED BY <1>1, <1>2, <1>3, <1>4 DEF IntakeInv

LEMMA TouchReadInv ==
  ASSUME IntakeInv, NEW h \in Handler, TouchRead(h)
  PROVE IntakeInv' /\ (ActivityFits => ActivityFits')
<1>c. hd[h].msg \in Message \ Mail /\ ChatOf[hd[h].msg] \in Chat /\ dir[ChatOf[hd[h].msg]] \in Conv
  BY DEF IntakeInv, IntakeTypeOK, RequestFacts, TouchRead, Touching
<1>0. /\ hd' \in [Handler -> Request] /\ Moves(h) /\ hd'[h].msg = hd[h].msg
      /\ hd'[h].pc = "fresh" \/ (hd'[h].pc = "bump" /\ hd'[h].seen = dir[ChatOf[hd[h].msg]])
  BY <1>c, EnterMoves, ReadMoves DEF TouchRead, IntakeInv, Reads
<1>1. IntakeTypeOK'
  BY <1>0 DEF IntakeInv, IntakeTypeOK, dirVars, poolVars, TouchRead
<1>2. RequestFacts'
  BY <1>0 DEF IntakeInv, IntakeTypeOK, RequestFacts, Touching, Moves, TouchRead
<1>3. PoolBalanced'
  BY DEF IntakeInv, PoolBalanced, SlotsBalanced, poolVars, TouchRead
<1>4. ASSUME ActivityFits PROVE ActivityFits'
  <2>1. RowsLast
    BY <1>0 DEF RowsLast, TouchRead, Touching, Moves
  <2>2. UNCHANGED <<raws, dir, rf>>
    BY DEF TouchRead, dirVars
  <2>3. IsFiniteSet({m \in Message : raws'[m] > 0})
    BY <1>4, <2>2 DEF ActivityFits
  <2>4. ASSUME NEW g \in Handler, NEW c \in Chat, hd'[g].pc \in {"bump", "put"}, ChatOf[hd'[g].msg] = c
        PROVE hd'[g] = hd[g] \/ hd'[g].seen = dir[c]
    BY <1>0, <2>4 DEF Moves
  <2> QED BY <1>4, <2>1, <2>2, <2>3, <2>4, ActivityLasts
<1> QED BY <1>1, <1>2, <1>3, <1>4 DEF IntakeInv

LEMMA FreshReadInv ==
  ASSUME IntakeInv, NEW h \in Handler, FreshRead(h)
  PROVE IntakeInv' /\ (ActivityFits => ActivityFits')
<1>c. hd[h].msg \in Message \ Mail /\ ChatOf[hd[h].msg] \in Chat /\ dir[ChatOf[hd[h].msg]] \in Conv
  BY DEF IntakeInv, IntakeTypeOK, RequestFacts, FreshRead, Touching
<1>0. /\ hd' \in [Handler -> Request] /\ Moves(h) /\ hd'[h].msg = hd[h].msg
      /\ hd'[h].pc = "put" /\ hd'[h].seen = dir[ChatOf[hd[h].msg]]
  BY <1>c, ReadMoves DEF FreshRead, IntakeInv, Reads
<1>1. IntakeTypeOK'
  BY <1>0 DEF IntakeInv, IntakeTypeOK, dirVars, poolVars, FreshRead
<1>2. RequestFacts'
  BY <1>0 DEF IntakeInv, IntakeTypeOK, RequestFacts, Touching, Moves, FreshRead
<1>3. PoolBalanced'
  BY DEF IntakeInv, PoolBalanced, SlotsBalanced, poolVars, FreshRead
<1>4. ASSUME ActivityFits PROVE ActivityFits'
  <2>1. RowsLast
    BY <1>0 DEF RowsLast, FreshRead, Touching, Moves
  <2>2. UNCHANGED <<raws, dir, rf>>
    BY DEF FreshRead, dirVars
  <2>3. IsFiniteSet({m \in Message : raws'[m] > 0})
    BY <1>4, <2>2 DEF ActivityFits
  <2>4. ASSUME NEW g \in Handler, NEW c \in Chat, hd'[g].pc \in {"bump", "put"}, ChatOf[hd'[g].msg] = c
        PROVE hd'[g] = hd[g] \/ hd'[g].seen = dir[c]
    BY <1>0, <2>4 DEF Moves
  <2> QED BY <1>4, <2>1, <2>2, <2>3, <2>4, ActivityLasts
<1> QED BY <1>1, <1>2, <1>3, <1>4 DEF IntakeInv

LEMMA TouchBumpInv ==
  ASSUME IntakeInv, NEW h \in Handler, TouchBump(h)
  PROVE IntakeInv' /\ (ActivityFits => ActivityFits')
<1>m. hd[h].msg \in Message \ Mail /\ ChatOf[hd[h].msg] \in Chat /\ hd[h].pc \in Touching
  BY DEF IntakeInv, IntakeTypeOK, RequestFacts, TouchBump, Touching
<1>d. PICK m \in Message \ Mail, c \in Chat : m = hd[h].msg /\ c = ChatOf[m]
  BY <1>m
<1>c. dir[c] \in Conv /\ hd[h].seen \in Conv /\ TimeOf[m] \in Nat /\ TimeOf[m] \in Times
  BY DEF IntakeInv, IntakeTypeOK, Request, Times
<1>0. hd' \in [Handler -> Request] /\ Moves(h) /\ hd'[h].msg = m /\ hd'[h].pc = "schedule"
  BY <1>d, EnterMoves DEF TouchBump, IntakeInv
<1>a. /\ dir' \in [Chat -> Conv] /\ \A e \in Chat : e = c \/ dir'[e] = dir[e]
      /\ dir'[c] = dir[c] \/ (dir'[c].count = hd[h].seen.count + 1 /\ dir'[c].last = TimeOf[m])
  <2> DEFINE d == IF dir[c].id # hd[h].seen.id THEN dir[c]
                  ELSE [dir[c] EXCEPT !.count = hd[h].seen.count + 1, !.last = TimeOf[m]]
  <2>1. dir \in [Chat -> Conv] /\ dir' = [dir EXCEPT ![c] = d]
    BY <1>d DEF TouchBump, IntakeInv, IntakeTypeOK
  <2>2. hd[h].seen.count + 1 \in Nat
    BY <1>c DEF Conv
  <2>3. /\ d \in Conv
        /\ d = dir[c] \/ (d.count = hd[h].seen.count + 1 /\ d.last = TimeOf[m])
    BY <1>c, <2>2 DEF Conv
  <2> HIDE DEF d
  <2> QED BY <1>c, <2>1, <2>3
<1>1. IntakeTypeOK'
  BY <1>0, <1>a DEF IntakeInv, IntakeTypeOK, dirVars, poolVars, TouchBump
<1>2. RequestFacts'
  BY <1>0, <1>a DEF IntakeInv, IntakeTypeOK, RequestFacts, Touching, Moves, TouchBump
<1>3. PoolBalanced'
  BY DEF IntakeInv, PoolBalanced, SlotsBalanced, poolVars, TouchBump
<1>4. ASSUME ActivityFits PROVE ActivityFits'
  <2>1. RowsLast
    BY <1>0 DEF RowsLast, TouchBump, Moves, Touching
  <2>2. UNCHANGED <<raws, rf>>
    BY DEF TouchBump
  <2>3. IsFiniteSet({n \in Message : raws'[n] > 0})
    BY <1>4, <2>2 DEF ActivityFits
  <2>4. \A g \in Handler : hd'[g].pc \in {"bump", "put"} => hd'[g] = hd[g]
    BY <1>0 DEF Moves
  <2>5. /\ m \in StoredIn(c)' /\ Cardinality(Counted(c)) + 1 <= Cardinality(Counted(c)')
        /\ Cardinality(Counted(c)) \in Nat /\ Cardinality(Counted(c)') \in Nat
    BY <1>m, <1>d, <1>0, <1>4, <2>2, OneMoreCounted DEF Moves, Touching
  <2>6. Fits(hd[h].seen, Counted(c), StoredIn(c)) /\ StoredIn(c) \subseteq StoredIn(c)'
    BY <1>d, <1>4, <2>1, CountedLasts DEF ActivityFits, TouchBump
  <2>7. dir'[c] = dir[c] \/ Fits(dir'[c], Counted(c)', StoredIn(c)')
    <3>1. hd[h].seen.count \in Nat /\ hd[h].seen.count <= Cardinality(Counted(c))
      BY <1>c, <2>6 DEF Fits, Conv
    <3> QED BY <1>a, <2>5, <3>1 DEF Fits
  <2>8. \A e \in Chat : e = c \/ dir'[e] = dir[e]
    BY <1>a
  <2> QED BY <1>4, <2>1, <2>2, <2>3, <2>4, <2>7, <2>8, ActivityLasts
<1> QED BY <1>1, <1>2, <1>3, <1>4 DEF IntakeInv

LEMMA UpsertedConv ==
  ASSUME IntakeTypeOK, NEW c \in Chat, NEW seen \in Conv, NEW count \in Nat, NEW t \in Times
  PROVE /\ Upserted(c, seen, count, t) \in Conv
        /\ Upserted(c, seen, count, t).count = Later(seen.count, count)
        /\ Upserted(c, seen, count, t).last = Later(seen.last, t)
<1>1. dir[c] \in Conv /\ dir[c].id \in Nat /\ ids[c] + 1 \in Nat
  BY DEF IntakeTypeOK, Conv
<1>2. seen.count \in Nat /\ seen.last \in Times
  BY DEF Conv
<1>3. Later(seen.count, count) \in Nat /\ Later(seen.last, t) \in Times
  BY <1>2 DEF Later
<1> QED BY <1>1, <1>3 DEF Upserted, Conv

LEMMA FreshPutInv ==
  ASSUME IntakeInv, NEW h \in Handler, FreshPut(h)
  PROVE IntakeInv' /\ (ActivityFits => ActivityFits')
<1>m. hd[h].msg \in Message \ Mail /\ ChatOf[hd[h].msg] \in Chat /\ hd[h].pc \in Touching
  BY DEF IntakeInv, IntakeTypeOK, RequestFacts, FreshPut, Touching
<1>d. PICK m \in Message \ Mail, c \in Chat : m = hd[h].msg /\ c = ChatOf[m]
  BY <1>m
<1>c. dir[c] \in Conv /\ hd[h].seen \in Conv /\ TimeOf[m] \in Nat /\ TimeOf[m] \in Times
  BY DEF IntakeInv, IntakeTypeOK, Request, Times
<1>0. hd' \in [Handler -> Request] /\ Moves(h) /\ hd'[h].msg = m /\ hd'[h].pc = "schedule"
  BY <1>d, EnterMoves DEF FreshPut, IntakeInv
<1>a. /\ dir' \in [Chat -> Conv] /\ \A e \in Chat : e = c \/ dir'[e] = dir[e]
      /\ dir'[c].count = Later(hd[h].seen.count, 1) /\ dir'[c].last = Later(hd[h].seen.last, TimeOf[m])
  <2> DEFINE d == Upserted(c, hd[h].seen, 1, TimeOf[m])
  <2>1. dir \in [Chat -> Conv] /\ dir' = [dir EXCEPT ![c] = d]
    BY <1>d DEF FreshPut, IntakeInv, IntakeTypeOK
  <2>2. /\ d \in Conv /\ d.count = Later(hd[h].seen.count, 1)
        /\ d.last = Later(hd[h].seen.last, TimeOf[m])
    <3>1. PICK x \in Conv, y \in Times, n \in Nat : x = hd[h].seen /\ y = TimeOf[m] /\ n = 1
      BY <1>c
    <3>2. IntakeTypeOK
      BY DEF IntakeInv
    <3>3. /\ Upserted(c, x, n, y) \in Conv
          /\ Upserted(c, x, n, y).count = Later(x.count, n)
          /\ Upserted(c, x, n, y).last = Later(x.last, y)
      BY <3>2, UpsertedConv
    <3> QED BY <3>1, <3>3
  <2> HIDE DEF d
  <2> QED BY <1>c, <2>1, <2>2
<1>b. ids' \in [Chat -> Nat]
  <2>1. dir'[c].id \in Nat /\ ids[c] \in Nat
    BY <1>c, <1>a DEF Conv, IntakeInv, IntakeTypeOK
  <2> QED BY <1>d, <2>1 DEF FreshPut, Later, IntakeInv, IntakeTypeOK
<1>1. IntakeTypeOK'
  BY <1>0, <1>a, <1>b DEF IntakeInv, IntakeTypeOK, poolVars, FreshPut
<1>2. RequestFacts'
  BY <1>0, <1>a DEF IntakeInv, IntakeTypeOK, RequestFacts, Touching, Moves, FreshPut
<1>3. PoolBalanced'
  BY DEF IntakeInv, PoolBalanced, SlotsBalanced, poolVars, FreshPut
<1>4. ASSUME ActivityFits PROVE ActivityFits'
  <2>1. RowsLast
    BY <1>0 DEF RowsLast, FreshPut, Moves, Touching
  <2>2. UNCHANGED <<raws, rf>>
    BY DEF FreshPut
  <2>3. IsFiniteSet({n \in Message : raws'[n] > 0})
    BY <1>4, <2>2 DEF ActivityFits
  <2>4. \A g \in Handler : hd'[g].pc \in {"bump", "put"} => hd'[g] = hd[g]
    BY <1>0 DEF Moves
  <2>5. /\ m \in StoredIn(c)' /\ Cardinality(Counted(c)) + 1 <= Cardinality(Counted(c)')
        /\ Cardinality(Counted(c)) \in Nat /\ Cardinality(Counted(c)') \in Nat
    BY <1>m, <1>d, <1>0, <1>4, <2>2, OneMoreCounted DEF Moves, Touching
  <2>6. Fits(hd[h].seen, Counted(c), StoredIn(c)) /\ StoredIn(c) \subseteq StoredIn(c)'
    BY <1>d, <1>4, <2>1, CountedLasts DEF ActivityFits, FreshPut
  <2>7. Fits(dir'[c], Counted(c)', StoredIn(c)')
    <3>1. hd[h].seen.count \in Nat /\ hd[h].seen.count <= Cardinality(Counted(c))
      BY <1>c, <2>6 DEF Fits, Conv
    <3>2. dir'[c].count <= Cardinality(Counted(c)')
      BY <1>a, <2>5, <3>1 DEF Later
    <3>3. dir'[c].last \in {hd[h].seen.last, TimeOf[m]}
      BY <1>a DEF Later
    <3> QED BY <2>5, <2>6, <3>2, <3>3 DEF Fits
  <2>8. \A e \in Chat : e = c \/ dir'[e] = dir[e]
    BY <1>a
  <2> QED BY <1>4, <2>1, <2>2, <2>3, <2>4, <2>7, <2>8, ActivityLasts
<1> QED BY <1>1, <1>2, <1>3, <1>4 DEF IntakeInv

LEMMA ScheduleInv ==
  ASSUME IntakeInv, NEW h \in Handler, Schedule(h)
  PROVE IntakeInv' /\ (ActivityFits => ActivityFits')
<1>m. hd[h].msg \in Message
  BY DEF IntakeInv, RequestFacts, Schedule
<1>0. hd' \in [Handler -> Request] /\ Moves(h) /\ hd'[h].pc = "idle"
  BY ReplyMoves DEF Schedule, IntakeInv
<1>a. /\ PoolBalanced' /\ pool' \subseteq Message \X (1..Slots) /\ slots' \in 0..Slots
      /\ flops' \in 0..MaxFlops
  BY <1>m, SubmitBalanced, RefusedBalanced DEF Schedule, IntakeInv, IntakeTypeOK
<1>b. later' \subseteq Message \X (1..Retries)
  BY <1>m DEF Schedule, IntakeInv, IntakeTypeOK
<1>1. IntakeTypeOK'
  BY <1>0, <1>a, <1>b DEF IntakeInv, IntakeTypeOK, dirVars, poolVars, Schedule
<1>2. RequestFacts'
  BY <1>0, <1>a, <1>b DEF IntakeInv, IntakeTypeOK, RequestFacts, Touching, Moves, Schedule
<1>3. PoolBalanced'
  BY <1>a
<1>4. ASSUME ActivityFits PROVE ActivityFits'
  BY <1>0, <1>4, OnlyRequests DEF dirVars, Touching, Moves, Schedule
<1> QED BY <1>1, <1>2, <1>3, <1>4 DEF IntakeInv

LEMMA RetryScheduleInv ==
  ASSUME IntakeInv, NEW m \in Message, NEW k \in 1..Retries, RetrySchedule(m, k)
  PROVE IntakeInv' /\ (ActivityFits => ActivityFits')
<1>a. /\ PoolBalanced' /\ pool' \subseteq Message \X (1..Slots) /\ slots' \in 0..Slots
      /\ flops' \in 0..MaxFlops
  BY SubmitBalanced, RefusedBalanced DEF RetrySchedule, IntakeInv, IntakeTypeOK
<1>b. later' \subseteq Message \X (1..Retries)
  BY DEF RetrySchedule, IntakeInv, IntakeTypeOK
<1>1. IntakeTypeOK'
  BY <1>a, <1>b DEF IntakeInv, IntakeTypeOK, dirVars, poolVars, RetrySchedule
<1>2. RequestFacts'
  BY <1>a, <1>b DEF IntakeInv, IntakeTypeOK, RequestFacts, Touching, Moves, RetrySchedule
<1>3. PoolBalanced'
  BY <1>a
<1>4. ASSUME ActivityFits PROVE ActivityFits'
  BY <1>4, OnlyRequests DEF dirVars, Touching, Moves, RetrySchedule
<1> QED BY <1>1, <1>2, <1>3, <1>4 DEF IntakeInv

LEMMA TriggerExtractionInv ==
  ASSUME IntakeInv, NEW m \in Message, TriggerExtraction(m)
  PROVE IntakeInv' /\ (ActivityFits => ActivityFits')
<1>a. /\ PoolBalanced' /\ pool' \subseteq Message \X (1..Slots) /\ slots' \in 0..Slots
      /\ flops' \in 0..MaxFlops
  BY SubmitBalanced, RefusedBalanced DEF TriggerExtraction, IntakeInv, IntakeTypeOK
<1>b. later' \subseteq Message \X (1..Retries)
  BY DEF TriggerExtraction, IntakeInv, IntakeTypeOK
<1>1. IntakeTypeOK'
  BY <1>a, <1>b DEF IntakeInv, IntakeTypeOK, dirVars, poolVars, TriggerExtraction
<1>2. RequestFacts'
  BY <1>a, <1>b DEF IntakeInv, IntakeTypeOK, RequestFacts, Touching, Moves, TriggerExtraction
<1>3. PoolBalanced'
  BY <1>a
<1>4. ASSUME ActivityFits PROVE ActivityFits'
  BY <1>4, OnlyRequests DEF dirVars, Touching, Moves, TriggerExtraction
<1> QED BY <1>1, <1>2, <1>3, <1>4 DEF IntakeInv

LEMMA ExtractionEndsInv ==
  ASSUME IntakeInv, NEW m \in Message, ExtractionEnds(m)
  PROVE IntakeInv' /\ (ActivityFits => ActivityFits')
<1>a. PoolBalanced' /\ pool' \subseteq Message \X (1..Slots) /\ slots' \in 0..Slots
  BY EndsBalanced
<1>1. IntakeTypeOK'
  BY <1>a DEF IntakeInv, IntakeTypeOK, dirVars, poolVars, ExtractionEnds
<1>2. RequestFacts'
  BY <1>a DEF IntakeInv, IntakeTypeOK, RequestFacts, Touching, Moves, ExtractionEnds
<1>3. PoolBalanced'
  BY <1>a
<1>4. ASSUME ActivityFits PROVE ActivityFits'
  BY <1>4, OnlyRequests DEF dirVars, Touching, Moves, ExtractionEnds
<1> QED BY <1>1, <1>2, <1>3, <1>4 DEF IntakeInv

LEMMA PollWorkerInv ==
  ASSUME IntakeInv, NEW m \in Message, PollWorker(m)
  PROVE IntakeInv' /\ (ActivityFits => ActivityFits')
<1>1. IntakeTypeOK'
  BY DEF IntakeInv, IntakeTypeOK, dirVars, poolVars, PollWorker
<1>2. RequestFacts'
  BY DEF IntakeInv, IntakeTypeOK, RequestFacts, Touching, Moves, PollWorker
<1>3. PoolBalanced'
  BY DEF IntakeInv, PoolBalanced, SlotsBalanced, poolVars, PollWorker
<1>4. ASSUME ActivityFits PROVE ActivityFits'
  BY <1>4, OnlyRequests DEF dirVars, Touching, Moves, PollWorker
<1> QED BY <1>1, <1>2, <1>3, <1>4 DEF IntakeInv

-----------------------------------------------------------------------------
(* The refresh tasks. *)

LEMMA TaskPut ==
  ASSUME NEW q \in [Refresher -> RefreshTask], NEW t \in Refresher, NEW v \in RefreshTask,
         NEW p, p = [q EXCEPT ![t] = v]
  PROVE /\ p \in [Refresher -> RefreshTask] /\ p[t] = v
        /\ \A u \in Refresher : u = t \/ p[u] = q[u]
OBVIOUS

LEMMA StartRefreshInv ==
  ASSUME IntakeInv, NEW t \in Refresher, NEW S \in SUBSET Chat, StartRefresh(t, S)
  PROVE IntakeInv' /\ (ActivityFits => ActivityFits')
<1>0. /\ rf' \in [Refresher -> RefreshTask]
      /\ \A u \in Refresher, c \in Chat : rf'[u].seen[c] \in {rf[u].seen[c], NoConv, dir[c]}
  <2> DEFINE v == [NoTask EXCEPT !.pc = "read", !.snap = S]
  <2>1. rf \in [Refresher -> RefreshTask] /\ rf[t] \in RefreshTask /\ dir \in [Chat -> Conv]
    BY DEF IntakeInv, IntakeTypeOK
  <2>2. v \in RefreshTask /\ \A c \in Chat : v.seen[c] \in {rf[t].seen[c], NoConv, dir[c]}
    BY <2>1, NoneInConv, NothingFits DEF RefreshTask
  <2>3. rf' = [rf EXCEPT ![t] = v]
    BY <2>1 DEF StartRefresh
  <2> HIDE DEF v
  <2> QED BY <2>1, <2>2, <2>3, TaskPut
<1>1. IntakeTypeOK'
  BY <1>0 DEF IntakeInv, IntakeTypeOK, dirVars, poolVars, StartRefresh
<1>2. RequestFacts'
  BY DEF IntakeInv, IntakeTypeOK, RequestFacts, Touching, Moves, StartRefresh
<1>3. PoolBalanced'
  BY DEF IntakeInv, PoolBalanced, SlotsBalanced, poolVars, StartRefresh
<1>4. ASSUME ActivityFits PROVE ActivityFits'
  <2>1. RowsLast
    BY DEF RowsLast, StartRefresh, dirVars
  <2>2. UNCHANGED <<raws, hd>>
    BY DEF StartRefresh
  <2>3. IsFiniteSet({m \in Message : raws'[m] > 0})
    BY <1>4, <2>2 DEF ActivityFits
  <2>4. \A c \in Chat : dir'[c] = dir[c] \/ Fits(dir'[c], Counted(c)', StoredIn(c)')
    BY DEF StartRefresh, dirVars
  <2> QED BY <1>0, <1>4, <2>1, <2>2, <2>3, <2>4, ActivityLasts
<1> QED BY <1>1, <1>2, <1>3, <1>4 DEF IntakeInv

LEMMA RefreshReadInv ==
  ASSUME IntakeInv, NEW t \in Refresher, RefreshRead(t)
  PROVE IntakeInv' /\ (ActivityFits => ActivityFits')
<1>0. /\ rf' \in [Refresher -> RefreshTask]
      /\ \A u \in Refresher, c \in Chat : rf'[u].seen[c] \in {rf[u].seen[c], NoConv, dir[c]}
  <2> DEFINE v == [rf[t] EXCEPT !.pc = "write", !.seen = dir]
  <2>1. rf \in [Refresher -> RefreshTask] /\ rf[t] \in RefreshTask /\ dir \in [Chat -> Conv]
    BY DEF IntakeInv, IntakeTypeOK
  <2>2. v \in RefreshTask /\ \A c \in Chat : v.seen[c] \in {rf[t].seen[c], NoConv, dir[c]}
    BY <2>1, NoneInConv, NothingFits DEF RefreshTask
  <2>3. rf' = [rf EXCEPT ![t] = v]
    BY <2>1 DEF RefreshRead
  <2> HIDE DEF v
  <2> QED BY <2>1, <2>2, <2>3, TaskPut
<1>1. IntakeTypeOK'
  BY <1>0 DEF IntakeInv, IntakeTypeOK, dirVars, poolVars, RefreshRead
<1>2. RequestFacts'
  BY DEF IntakeInv, IntakeTypeOK, RequestFacts, Touching, Moves, RefreshRead
<1>3. PoolBalanced'
  BY DEF IntakeInv, PoolBalanced, SlotsBalanced, poolVars, RefreshRead
<1>4. ASSUME ActivityFits PROVE ActivityFits'
  <2>1. RowsLast
    BY DEF RowsLast, RefreshRead, dirVars
  <2>2. UNCHANGED <<raws, hd>>
    BY DEF RefreshRead
  <2>3. IsFiniteSet({m \in Message : raws'[m] > 0})
    BY <1>4, <2>2 DEF ActivityFits
  <2>4. \A c \in Chat : dir'[c] = dir[c] \/ Fits(dir'[c], Counted(c)', StoredIn(c)')
    BY DEF RefreshRead, dirVars
  <2> QED BY <1>0, <1>4, <2>1, <2>2, <2>3, <2>4, ActivityLasts
<1> QED BY <1>1, <1>2, <1>3, <1>4 DEF IntakeInv

LEMMA RefreshWriteInv ==
  ASSUME IntakeInv, NEW t \in Refresher, RefreshWrite(t)
  PROVE IntakeInv' /\ (ActivityFits => ActivityFits')
<1>0. /\ rf' \in [Refresher -> RefreshTask]
      /\ \A u \in Refresher, c \in Chat : rf'[u].seen[c] \in {rf[u].seen[c], NoConv, dir[c]}
  <2> DEFINE v == [rf[t] EXCEPT !.pc = "scan"]
  <2>1. rf \in [Refresher -> RefreshTask] /\ rf[t] \in RefreshTask /\ dir \in [Chat -> Conv]
    BY DEF IntakeInv, IntakeTypeOK
  <2>2. v \in RefreshTask /\ \A c \in Chat : v.seen[c] \in {rf[t].seen[c], NoConv, dir[c]}
    BY <2>1, NoneInConv, NothingFits DEF RefreshTask
  <2>3. rf' = [rf EXCEPT ![t] = v]
    BY <2>1 DEF RefreshWrite
  <2> HIDE DEF v
  <2> QED BY <2>1, <2>2, <2>3, TaskPut
<1>a. /\ dir' \in [Chat -> Conv] /\ ids' \in [Chat -> Nat]
      /\ \A c \in Chat : IF c \in rf[t].snap
           THEN dir'[c].count = rf[t].seen[c].count /\ dir'[c].last = rf[t].seen[c].last
           ELSE dir'[c] = dir[c]
  <2>1. ASSUME NEW c \in Chat
        PROVE LET d == Upserted(c, rf[t].seen[c], 0, 0)
              IN d \in Conv /\ d.count = rf[t].seen[c].count /\ d.last = rf[t].seen[c].last
    <3>1. rf[t].seen[c] \in Conv
      BY DEF IntakeInv, IntakeTypeOK, RefreshTask
    <3>2. rf[t].seen[c].count \in Nat /\ rf[t].seen[c].last \in Nat
      BY <3>1 DEF Conv, Times
    <3>3. Later(rf[t].seen[c].count, 0) = rf[t].seen[c].count
          /\ Later(rf[t].seen[c].last, 0) = rf[t].seen[c].last
      BY <3>2 DEF Later
    <3>4. 0 \in Times
      BY DEF Times
    <3> QED BY <3>1, <3>3, <3>4, UpsertedConv DEF IntakeInv
  <2>2. dir' = [c \in Chat |-> IF c \in rf[t].snap THEN Upserted(c, rf[t].seen[c], 0, 0) ELSE dir[c]]
    BY DEF RefreshWrite
  <2>3. \A c \in Chat : dir[c] \in Conv /\ ids[c] \in Nat
    BY DEF IntakeInv, IntakeTypeOK
  <2>4. dir' \in [Chat -> Conv]
    BY <2>1, <2>2, <2>3
  <2>5. \A c \in Chat : Later(ids[c], dir'[c].id) \in Nat
    BY <2>3, <2>4 DEF Later, Conv
  <2>6. ids' \in [Chat -> Nat]
    BY <2>3, <2>5 DEF RefreshWrite
  <2> QED BY <2>1, <2>2, <2>4, <2>6
<1>1. IntakeTypeOK'
  BY <1>0, <1>a DEF IntakeInv, IntakeTypeOK, dirVars, poolVars, RefreshWrite
<1>2. RequestFacts'
  BY DEF IntakeInv, IntakeTypeOK, RequestFacts, Touching, Moves, RefreshWrite
<1>3. PoolBalanced'
  BY DEF IntakeInv, PoolBalanced, SlotsBalanced, poolVars, RefreshWrite
<1>4. ASSUME ActivityFits PROVE ActivityFits'
  <2>1. RowsLast
    BY DEF RowsLast, RefreshWrite, dirVars
  <2>2. UNCHANGED <<raws, hd>>
    BY DEF RefreshWrite
  <2>3. IsFiniteSet({m \in Message : raws'[m] > 0})
    BY <1>4, <2>2 DEF ActivityFits
  <2>4. \A c \in Chat : dir'[c] = dir[c] \/ Fits(dir'[c], Counted(c)', StoredIn(c)')
    <3>1. ASSUME NEW c \in Chat, c \in rf[t].snap PROVE Fits(dir'[c], Counted(c)', StoredIn(c)')
      <4>1. Fits(rf[t].seen[c], Counted(c), StoredIn(c)) /\ rf[t].seen[c] \in Conv
        BY <1>4 DEF ActivityFits, IntakeInv, IntakeTypeOK, RefreshTask
      <4>2. dir'[c].count = rf[t].seen[c].count /\ dir'[c].last = rf[t].seen[c].last
        BY <1>a, <3>1
      <4>3. Counted(c)' = Counted(c) /\ StoredIn(c)' = StoredIn(c)
        BY <2>2 DEF Counted, StoredIn
      <4> QED BY <4>1, <4>2, <4>3 DEF Fits
    <3> QED BY <3>1, <1>a
  <2> QED BY <1>0, <1>4, <2>1, <2>2, <2>3, <2>4, ActivityLasts
<1> QED BY <1>1, <1>2, <1>3, <1>4 DEF IntakeInv

LEMMA PruneScanInv ==
  ASSUME IntakeInv, NEW t \in Refresher, PruneScan(t)
  PROVE IntakeInv' /\ (ActivityFits => ActivityFits')
<1>0. /\ rf' \in [Refresher -> RefreshTask]
      /\ \A u \in Refresher, c \in Chat : rf'[u].seen[c] \in {rf[u].seen[c], NoConv, dir[c]}
  <2> DEFINE v == [rf[t] EXCEPT !.pc = "drop", !.seen = [c \in Chat |->
                IF c \in rf[t].snap THEN NoConv ELSE dir[c]]]
  <2>1. rf \in [Refresher -> RefreshTask] /\ rf[t] \in RefreshTask /\ dir \in [Chat -> Conv]
    BY DEF IntakeInv, IntakeTypeOK
  <2>2. v \in RefreshTask /\ \A c \in Chat : v.seen[c] \in {rf[t].seen[c], NoConv, dir[c]}
    BY <2>1, NoneInConv, NothingFits DEF RefreshTask
  <2>3. rf' = [rf EXCEPT ![t] = v]
    BY <2>1 DEF PruneScan
  <2> HIDE DEF v
  <2> QED BY <2>1, <2>2, <2>3, TaskPut
<1>1. IntakeTypeOK'
  BY <1>0 DEF IntakeInv, IntakeTypeOK, dirVars, poolVars, PruneScan
<1>2. RequestFacts'
  BY DEF IntakeInv, IntakeTypeOK, RequestFacts, Touching, Moves, PruneScan
<1>3. PoolBalanced'
  BY DEF IntakeInv, PoolBalanced, SlotsBalanced, poolVars, PruneScan
<1>4. ASSUME ActivityFits PROVE ActivityFits'
  <2>1. RowsLast
    BY DEF RowsLast, PruneScan, dirVars
  <2>2. UNCHANGED <<raws, hd>>
    BY DEF PruneScan
  <2>3. IsFiniteSet({m \in Message : raws'[m] > 0})
    BY <1>4, <2>2 DEF ActivityFits
  <2>4. \A c \in Chat : dir'[c] = dir[c] \/ Fits(dir'[c], Counted(c)', StoredIn(c)')
    BY DEF PruneScan, dirVars
  <2> QED BY <1>0, <1>4, <2>1, <2>2, <2>3, <2>4, ActivityLasts
<1> QED BY <1>1, <1>2, <1>3, <1>4 DEF IntakeInv

LEMMA RefreshFlopsInv ==
  ASSUME IntakeInv, NEW t \in Refresher, RefreshFlops(t)
  PROVE IntakeInv' /\ (ActivityFits => ActivityFits')
<1>0. /\ rf' \in [Refresher -> RefreshTask]
      /\ \A u \in Refresher, c \in Chat : rf'[u].seen[c] \in {rf[u].seen[c], NoConv, dir[c]}
  <2> DEFINE v == IF rf[t].pc \in {"read", "write"} THEN [rf[t] EXCEPT !.pc = "scan"] ELSE NoTask
  <2>1. rf \in [Refresher -> RefreshTask] /\ rf[t] \in RefreshTask /\ dir \in [Chat -> Conv]
    BY DEF IntakeInv, IntakeTypeOK
  <2>2. v \in RefreshTask /\ \A c \in Chat : v.seen[c] \in {rf[t].seen[c], NoConv, dir[c]}
    BY <2>1, NoneInConv, NothingFits DEF RefreshTask
  <2>3. rf' = [rf EXCEPT ![t] = v]
    BY <2>1 DEF RefreshFlops
  <2> HIDE DEF v
  <2> QED BY <2>1, <2>2, <2>3, TaskPut
<1>1. IntakeTypeOK'
  BY <1>0 DEF IntakeInv, IntakeTypeOK, dirVars, poolVars, RefreshFlops, Flop
<1>2. RequestFacts'
  BY DEF IntakeInv, IntakeTypeOK, RequestFacts, Touching, Moves, RefreshFlops
<1>3. PoolBalanced'
  BY DEF IntakeInv, PoolBalanced, SlotsBalanced, poolVars, RefreshFlops
<1>4. ASSUME ActivityFits PROVE ActivityFits'
  <2>1. RowsLast
    BY DEF RowsLast, RefreshFlops, dirVars
  <2>2. UNCHANGED <<raws, hd>>
    BY DEF RefreshFlops
  <2>3. IsFiniteSet({m \in Message : raws'[m] > 0})
    BY <1>4, <2>2 DEF ActivityFits
  <2>4. \A c \in Chat : dir'[c] = dir[c] \/ Fits(dir'[c], Counted(c)', StoredIn(c)')
    BY DEF RefreshFlops, dirVars
  <2> QED BY <1>0, <1>4, <2>1, <2>2, <2>3, <2>4, ActivityLasts
<1> QED BY <1>1, <1>2, <1>3, <1>4 DEF IntakeInv

LEMMA PruneDeleteInv ==
  ASSUME IntakeInv, NEW t \in Refresher, PruneDelete(t)
  PROVE IntakeInv' /\ (ActivityFits => ActivityFits')
<1>0. /\ rf' \in [Refresher -> RefreshTask]
      /\ \A u \in Refresher, c \in Chat : rf'[u].seen[c] \in {rf[u].seen[c], NoConv, dir[c]}
  <2>1. rf \in [Refresher -> RefreshTask] /\ rf[t] \in RefreshTask
    BY DEF IntakeInv, IntakeTypeOK
  <2>2. PICK v \in RefreshTask : /\ rf' = [rf EXCEPT ![t] = v]
                                 /\ \A c \in Chat : v.seen[c] \in {rf[t].seen[c], NoConv}
    <3>1. CASE rf' = [rf EXCEPT ![t] = NoTask]
      BY <3>1, NoneInConv
    <3>2. CASE \E c \in Chat : rf' = [rf EXCEPT ![t].seen[c] = NoConv]
      <4>1. PICK c \in Chat : rf' = [rf EXCEPT ![t].seen[c] = NoConv]
        BY <3>2
      <4> DEFINE s == [rf[t].seen EXCEPT ![c] = NoConv]
                 v == [rf[t] EXCEPT !.seen = s]
      <4>2. s \in [Chat -> Conv] /\ \A e \in Chat : s[e] \in {rf[t].seen[e], NoConv}
        BY <2>1, NothingFits DEF RefreshTask
      <4>3. rf' = [rf EXCEPT ![t] = v]
        BY <2>1, <4>1
      <4>4. v \in RefreshTask /\ v.seen = s
        BY <2>1, <4>2 DEF RefreshTask
      <4> QED BY <4>2, <4>3, <4>4
    <3> QED BY <3>1, <3>2 DEF PruneDelete
  <2> QED BY <2>1, <2>2, TaskPut
<1>a. dir' \in [Chat -> Conv] /\ \A c \in Chat : dir'[c] \in {dir[c], NoConv}
  BY NothingFits DEF IntakeInv, IntakeTypeOK, PruneDelete
<1>1. IntakeTypeOK'
  BY <1>0, <1>a DEF IntakeInv, IntakeTypeOK, dirVars, poolVars, PruneDelete
<1>2. RequestFacts'
  BY DEF IntakeInv, RequestFacts, PruneDelete
<1>3. PoolBalanced'
  BY DEF IntakeInv, PoolBalanced, SlotsBalanced, poolVars, PruneDelete
<1>4. ASSUME ActivityFits PROVE ActivityFits'
  <2>1. RowsLast
    BY DEF RowsLast, PruneDelete, dirVars
  <2>2. UNCHANGED <<raws, hd>>
    BY DEF PruneDelete
  <2>3. IsFiniteSet({m \in Message : raws'[m] > 0})
    BY <1>4, <2>2 DEF ActivityFits
  <2>4. \A c \in Chat : dir'[c] = dir[c] \/ Fits(dir'[c], Counted(c)', StoredIn(c)')
    <3>1. \A c \in Chat : Fits(NoConv, Counted(c)', StoredIn(c)')
      <4>1. \A c \in Chat : Counted(c)' = Counted(c)
        BY <2>2 DEF Counted, StoredIn
      <4> QED BY <1>4, <4>1, CountedFinite, NothingFits DEF Fits
    <3> QED BY <1>a, <3>1
  <2> QED BY <1>0, <1>4, <2>1, <2>2, <2>3, <2>4, ActivityLasts
<1> QED BY <1>1, <1>2, <1>3, <1>4 DEF IntakeInv

-----------------------------------------------------------------------------
(* Failures. *)

LEMMA RequestFlopsInv ==
  ASSUME IntakeInv, NEW h \in Handler, RequestFlops(h)
  PROVE IntakeInv' /\ (ActivityFits => ActivityFits')
<1>0. /\ hd' \in [Handler -> Request] /\ Moves(h)
      /\ hd'[h].pc = "idle" \/ (hd'[h].pc = "schedule" /\ hd'[h].msg = hd[h].msg)
  BY ReplyMoves, EnterMoves DEF RequestFlops, IntakeInv
<1>1. IntakeTypeOK'
  BY <1>0 DEF IntakeInv, IntakeTypeOK, dirVars, poolVars, RequestFlops, Flop
<1>2. RequestFacts'
  BY <1>0 DEF IntakeInv, IntakeTypeOK, RequestFacts, Touching, Moves, RequestFlops
<1>3. PoolBalanced'
  BY DEF IntakeInv, PoolBalanced, SlotsBalanced, poolVars, RequestFlops
<1>4. ASSUME ActivityFits PROVE ActivityFits'
  BY <1>0, <1>4, OnlyRequests DEF dirVars, Touching, Moves, RequestFlops
<1> QED BY <1>1, <1>2, <1>3, <1>4 DEF IntakeInv

LEMMA CrashApiInv ==
  ASSUME IntakeInv, CrashApi
  PROVE IntakeInv' /\ (ActivityFits => ActivityFits')
<1>0. /\ hd' \in [Handler -> Request] /\ \A h \in Handler : hd'[h].pc = "idle"
      /\ rf' \in [Refresher -> RefreshTask]
      /\ \A u \in Refresher, c \in Chat : rf'[u].seen[c] = NoConv
  BY NoneInConv DEF CrashApi
<1>1. IntakeTypeOK'
  BY <1>0 DEF IntakeInv, IntakeTypeOK, dirVars, CrashApi, Flop
<1>2. RequestFacts'
  BY <1>0 DEF RequestFacts, Touching
<1>3. PoolBalanced'
  BY FS_EmptySet DEF PoolBalanced, SlotsBalanced, CrashApi
<1>4. ASSUME ActivityFits PROVE ActivityFits'
  <2>1. RowsLast
    BY <1>0 DEF RowsLast, CrashApi, Touching
  <2>2. UNCHANGED <<raws, dir>>
    BY DEF CrashApi, dirVars
  <2>3. IsFiniteSet({m \in Message : raws'[m] > 0})
    BY <1>4, <2>2 DEF ActivityFits
  <2> QED BY <1>0, <1>4, <2>1, <2>2, <2>3, ActivityLasts
<1> QED BY <1>1, <1>2, <1>3, <1>4 DEF IntakeInv

LEMMA IntakeNextInv ==
  ASSUME IntakeInv, [IntakeNext]_intakeVars
  PROVE IntakeInv' /\ (ActivityFits => ActivityFits')
<1> DEFINE Goal == IntakeInv' /\ (ActivityFits => ActivityFits')
<1>1. ASSUME UNCHANGED intakeVars PROVE Goal
  <2>1. IntakeInv'
    BY <1>1 DEF intakeVars, IntakeInv, IntakeTypeOK, RequestFacts, PoolBalanced, SlotsBalanced
  <2>2. ActivityFits => ActivityFits'
    <3>1. \A c \in Chat : Counted(c)' = Counted(c) /\ StoredIn(c)' = StoredIn(c)
      BY <1>1 DEF intakeVars, Counted, StoredIn
    <3> QED BY <1>1, <3>1 DEF intakeVars, ActivityFits
  <2> QED BY <2>1, <2>2
<1>2. ASSUME CrashApi \/ IntakeAtRest PROVE Goal
  BY <1>1, <1>2, CrashApiInv DEF IntakeAtRest
<1>3. ASSUME NEW h \in Handler, Handle(h) \/ RequestFlops(h) PROVE Goal
  <2>1. CASE CheckGroup(h) \/ CheckDuplicate(h) \/ SaveRaw(h) \/ TouchRead(h) \/ TouchBump(h)
    BY <2>1, CheckGroupInv, CheckDuplicateInv, SaveRawInv, TouchReadInv, TouchBumpInv
  <2>2. CASE FreshRead(h) \/ FreshPut(h) \/ Schedule(h) \/ RequestFlops(h)
    BY <2>2, FreshReadInv, FreshPutInv, ScheduleInv, RequestFlopsInv
  <2> QED BY <1>3, <2>1, <2>2 DEF Handle
<1>4. ASSUME NEW h \in Handler, NEW m \in Message, Deliver(h, m) PROVE Goal
  BY <1>4, DeliverInv
<1>5. ASSUME NEW m \in Message, TriggerExtraction(m) \/ ExtractionEnds(m) \/ PollWorker(m) PROVE Goal
  BY <1>5, TriggerExtractionInv, ExtractionEndsInv, PollWorkerInv
<1>6. ASSUME NEW m \in Message, NEW k \in 1..Retries, RetrySchedule(m, k) PROVE Goal
  BY <1>6, RetryScheduleInv
<1>7. ASSUME NEW t \in Refresher, Refresh(t) \/ RefreshFlops(t) PROVE Goal
  BY <1>7, RefreshReadInv, RefreshWriteInv, PruneScanInv, PruneDeleteInv, RefreshFlopsInv DEF Refresh
<1>8. ASSUME NEW t \in Refresher, NEW S \in SUBSET Chat, StartRefresh(t, S) PROVE Goal
  BY <1>8, StartRefreshInv
<1> HIDE DEF Goal
<1>9. Goal
  BY <1>1, <1>2, <1>3, <1>4, <1>5, <1>6, <1>7, <1>8 DEF IntakeNext
<1> QED BY <1>9 DEF Goal

LEMMA IntakeSafe == IntakeSpec => [](IntakeInv /\ ActivityFits)
<1>1. IntakeInit => IntakeInv /\ ActivityFits
  BY IntakeInitInv
<1>2. (IntakeInv /\ ActivityFits) /\ [IntakeNext]_intakeVars => (IntakeInv /\ ActivityFits)'
  BY IntakeNextInv
<1> QED BY <1>1, <1>2, PTL DEF IntakeSpec

(* The state of the API's intake keeps its types; in particular a deferred  *)
(* submission never has an attempt beyond those                             *)
(* _retry_schedule_raw_extraction is given.                                 *)
THEOREM IntakeTypeCorrect == IntakeSpec => []IntakeTypeOK
<1>1. IntakeInv /\ ActivityFits => IntakeTypeOK
  BY DEF IntakeInv
<1> QED BY <1>1, IntakeSafe, PTL

(* For any limit, every slot of _EXTRACTION_SLOTS is free or held by one    *)
(* submitted extraction.                                                    *)
THEOREM SlotsStayBalanced == IntakeSpec => []SlotsBalanced
<1>1. IntakeInv /\ ActivityFits => SlotsBalanced
  BY DEF IntakeInv, PoolBalanced
<1> QED BY <1>1, IntakeSafe, PTL

(* For any messages, chats, requests and refreshes, the conversation        *)
(* directory shows no more activity than there are stored messages, and no  *)
(* time that is not one of theirs.                                          *)
THEOREM DirectoryShowsStored == IntakeSpec => []ActivityIsStored
<1>1. ASSUME IntakeInv, ActivityFits PROVE ActivityIsStored
  <2>1. ASSUME NEW c \in Chat PROVE dir[c].count <= Cardinality(StoredIn(c))
    <3>1. StoredIn(c) \subseteq {m \in Message : raws[m] > 0} /\ Counted(c) \subseteq StoredIn(c)
      BY DEF StoredIn, Counted
    <3>2. IsFiniteSet(StoredIn(c))
      BY <1>1, <3>1, FS_Subset DEF ActivityFits
    <3>3. Fits(dir[c], StoredIn(c), StoredIn(c))
      BY <1>1, <3>1, <3>2, FitsMore DEF ActivityFits, IntakeInv, IntakeTypeOK
    <3> QED BY <3>3 DEF Fits
  <2>2. ASSUME NEW c \in Chat PROVE dir[c].last \in {0} \cup {TimeOf[m] : m \in StoredIn(c)}
    BY <1>1 DEF ActivityFits, Fits
  <2> QED BY <2>1, <2>2 DEF ActivityIsStored
<1> QED BY <1>1, IntakeSafe, PTL

-----------------------------------------------------------------------------
(* Store: a source fingerprint is unique in each table, and between the     *)
(* clean-up and the write of a message with one thread no listing of it is  *)
(* left outside the table the write goes to.                                *)

(* What a thread holds.                                                     *)
ThreadFacts ==
  \A t \in Extractor :
    /\ ex[t].pc \in {"clean", "upsert"} => ex[t].raw \in Raw /\ ex[t].table \in Table
    /\ ex[t].pc \in {"find", "review", "mark"} => ex[t].slot \in Slot
    /\ ex[t].pc = "find" => ex[t].raw \in Arrived
    /\ ex[t].pc \in {"ask", "clean", "upsert"} => ex[t].raw \in Arrived
    /\ ex[t].pc = "mark" => ex[t].slot[1] \in Listings

(* The identity sequence is ahead of the rows, and the source fingerprint   *)
(* is unique in each table.                                                 *)
RowFacts ==
  /\ \A s \in Stored : s[2] <= last[s[1]]
  /\ \A s, d \in Stored : s[1] = d[1] /\ rows[s].raw = rows[d].raw => s = d

(* Unless it is torn, a message has one thread, and its write finds no      *)
(* listing of it outside its own table.                                     *)
RouteFacts ==
  /\ \A t, u \in Extractor : t # u /\ ex[t].raw = ex[u].raw /\ ex[t].raw \in Raw => ex[t].raw \in torn
  /\ \A t \in Extractor, s \in Stored :
       ex[t].pc = "upsert" /\ ex[t].raw \notin torn /\ rows[s].raw = ex[t].raw /\ s[1] \in Listings
         => s[1] = ex[t].table
  /\ \A s, d \in Stored :
       rows[s].raw = rows[d].raw /\ rows[s].raw \notin torn /\ s[1] \in Listings /\ d[1] \in Listings
         => s = d

StoreInv == StoreTypeOK /\ ThreadFacts /\ RowFacts /\ RouteFacts /\ DemandNeverMerged

(* The step of ProjectionKept.                                              *)
KeepsRows == \A r \in Raw \ torn' : HasRow(r) => HasRow(r)'

USE StoreAssumption

LEMMA EmptyRow ==
  /\ NoRow \in TypedRow /\ NoRow.status = "none"
  /\ NoWork \in Work /\ NoWork.pc = "idle" /\ NoWork.raw = 0
<1>1. NoRow \in TypedRow /\ NoRow.status = "none"
  BY DEF NoRow, TypedRow
<1> QED BY <1>1 DEF NoWork, Work, SlotOrNone

LEMMA StoreInitInv == StoreInit => StoreInv
<1> SUFFICES ASSUME StoreInit PROVE StoreInv
  OBVIOUS
<1>1. StoreTypeOK
  BY EmptyRow DEF StoreInit, StoreTypeOK
<1>2. Stored = {}
  BY EmptyRow DEF StoreInit, Stored
<1>3. \A t \in Extractor : ex[t].pc = "idle" /\ ex[t].raw = 0
  BY EmptyRow DEF StoreInit
<1>4. ThreadFacts /\ RowFacts /\ RouteFacts /\ DemandNeverMerged
  BY <1>2, <1>3 DEF ThreadFacts, RowFacts, RouteFacts, DemandNeverMerged, Raw
<1> QED BY <1>1, <1>4 DEF StoreInv

(* No row appears or changes hands; no row disappears.                      *)
RowsShrink ==
  \A s \in Slot : rows'[s].status # "none" =>
    rows[s].status # "none" /\ rows'[s].raw = rows[s].raw

RowsStay ==
  \A s \in Slot : rows[s].status # "none" =>
    rows'[s].status # "none" /\ rows'[s].raw = rows[s].raw

LEMMA RowFactsLast ==
  ASSUME RowFacts, RowsShrink, UNCHANGED last PROVE RowFacts'
BY DEF RowFacts, RowsShrink, Stored

(* Threads go on with the message and the table they have.                  *)
ThreadsGoOn ==
  \A t \in Extractor :
    /\ ex'[t].raw \in {ex[t].raw, 0}
    /\ ex'[t].pc = "upsert" => ex[t].pc = "upsert" /\ ex'[t].raw = ex[t].raw
                                 /\ ex'[t].table = ex[t].table

LEMMA RouteFactsLast ==
  ASSUME RouteFacts, RowsShrink, ThreadsGoOn, torn \subseteq torn' PROVE RouteFacts'
<1>1. ASSUME NEW t \in Extractor, NEW u \in Extractor, t # u, ex'[t].raw = ex'[u].raw, ex'[t].raw \in Raw
      PROVE ex'[t].raw \in torn'
  <2>1. ex'[t].raw # 0
    BY <1>1 DEF Raw
  <2>2. ex'[t].raw = ex[t].raw /\ ex'[u].raw = ex[u].raw
    BY <1>1, <2>1 DEF ThreadsGoOn
  <2> QED BY <1>1, <2>2 DEF RouteFacts
<1>2. ASSUME NEW t \in Extractor, NEW s \in Stored', ex'[t].pc = "upsert", ex'[t].raw \notin torn',
             rows'[s].raw = ex'[t].raw, s[1] \in Listings
      PROVE s[1] = ex'[t].table
  BY <1>2 DEF RouteFacts, ThreadsGoOn, RowsShrink, Stored
<1>3. ASSUME NEW s \in Stored', NEW d \in Stored', rows'[s].raw = rows'[d].raw,
             rows'[s].raw \notin torn', s[1] \in Listings, d[1] \in Listings
      PROVE s = d
  BY <1>3 DEF RouteFacts, RowsShrink, Stored
<1> QED BY <1>1, <1>2, <1>3 DEF RouteFacts

LEMMA KeepsRowsLast ==
  ASSUME RowsStay,
         \A t \in Extractor : ex[t].pc = "upsert" =>
           ex[t].raw \in torn' \/ (ex'[t].pc = "upsert" /\ ex'[t].raw = ex[t].raw)
  PROVE KeepsRows
<1> SUFFICES ASSUME NEW r \in Raw \ torn', HasRow(r) PROVE HasRow(r)'
  BY DEF KeepsRows
<1>1. CASE RowsOf(r) # {}
  <2>1. PICK s \in RowsOf(r) : TRUE
    BY <1>1
  <2>2. s \in RowsOf(r)'
    BY <2>1 DEF RowsOf, Stored, RowsStay
  <2> QED BY <2>2 DEF HasRow
<1>2. CASE \E t \in Extractor : ex[t].raw = r /\ ex[t].pc = "upsert"
  BY <1>2 DEF HasRow
<1> QED BY <1>1, <1>2 DEF HasRow

(* Demand's rows are only emptied, distinct, flagged or left alone.         *)
LEMMA DemandLasts ==
  ASSUME DemandNeverMerged,
         \A s \in Slot : s[1] \in Demands =>
           rows'[s].status \in {"none", "distinct", "flagged", rows[s].status}
  PROVE DemandNeverMerged'
BY DEF DemandNeverMerged, Stored

LEMMA WorkPut ==
  ASSUME NEW q \in [Extractor -> Work], NEW t \in Extractor, NEW v \in Work,
         NEW p, p = [q EXCEPT ![t] = v]
  PROVE /\ p \in [Extractor -> Work] /\ p[t] = v
        /\ \A u \in Extractor : u = t \/ p[u] = q[u]
OBVIOUS

(* The thread is done with its item.                                        *)
Leaves(t) ==
  /\ ex' \in [Extractor -> Work]
  /\ ex'[t].pc = "idle" /\ ex'[t].raw = 0
  /\ \A u \in Extractor : u = t \/ ex'[u] = ex[u]

LEMMA EndLeaves ==
  ASSUME StoreTypeOK, NEW t \in Extractor, ex' = [ex EXCEPT ![t] = NoWork]
  PROVE Leaves(t)
<1>1. ex \in [Extractor -> Work]
  BY DEF StoreTypeOK
<1> QED BY <1>1, EmptyRow, WorkPut DEF Leaves

LEMMA LeaveFacts ==
  ASSUME StoreInv, NEW t \in Extractor, Leaves(t), UNCHANGED posted
  PROVE ThreadFacts' /\ ThreadsGoOn
<1>1. ThreadsGoOn
  BY DEF Leaves, ThreadsGoOn
<1>2. ThreadFacts'
  BY DEF Leaves, ThreadFacts, StoreInv, Arrived
<1> QED BY <1>1, <1>2

LEMMA NextDayInv ==
  ASSUME StoreInv, NextDay PROVE StoreInv' /\ KeepsRows
<1>0. /\ UNCHANGED <<rows, last, ex, torn>> /\ RowsShrink /\ RowsStay /\ ThreadsGoOn
      /\ Arrived \subseteq Arrived'
  BY DEF NextDay, RowsShrink, RowsStay, ThreadsGoOn, Arrived, StoreInv, StoreTypeOK
<1>1. StoreTypeOK'
  BY DEF StoreInv, StoreTypeOK, NextDay
<1>2. ThreadFacts'
  BY <1>0 DEF StoreInv, ThreadFacts
<1>3. RowFacts'
  BY <1>0, RowFactsLast DEF StoreInv
<1>4. RouteFacts'
  BY <1>0, RouteFactsLast DEF StoreInv
<1>5. DemandNeverMerged'
  BY <1>0, DemandLasts DEF StoreInv
<1>6. KeepsRows
  BY <1>0, KeepsRowsLast
<1> QED BY <1>1, <1>2, <1>3, <1>4, <1>5, <1>6 DEF StoreInv

LEMMA ArriveInv ==
  ASSUME StoreInv, NEW r \in Raw, Arrive(r) PROVE StoreInv' /\ KeepsRows
<1>0. /\ UNCHANGED <<rows, last, ex, torn>> /\ RowsShrink /\ RowsStay /\ ThreadsGoOn
      /\ Arrived \subseteq Arrived'
  BY DEF Arrive, RowsShrink, RowsStay, ThreadsGoOn, Arrived, StoreInv, StoreTypeOK
<1>1. StoreTypeOK'
  BY DEF StoreInv, StoreTypeOK, Arrive
<1>2. ThreadFacts'
  BY <1>0 DEF StoreInv, ThreadFacts
<1>3. RowFacts'
  BY <1>0, RowFactsLast DEF StoreInv
<1>4. RouteFacts'
  BY <1>0, RouteFactsLast DEF StoreInv
<1>5. DemandNeverMerged'
  BY <1>0, DemandLasts DEF StoreInv
<1>6. KeepsRows
  BY <1>0, KeepsRowsLast
<1> QED BY <1>1, <1>2, <1>3, <1>4, <1>5, <1>6 DEF StoreInv

LEMMA RestartWorkerInv ==
  ASSUME StoreInv, RestartWorker PROVE StoreInv' /\ KeepsRows
<1>0. /\ UNCHANGED <<rows, last, ex, torn>> /\ RowsShrink /\ RowsStay /\ ThreadsGoOn
      /\ Arrived \subseteq Arrived'
  BY DEF RestartWorker, RowsShrink, RowsStay, ThreadsGoOn, Arrived, StoreInv, StoreTypeOK
<1>1. StoreTypeOK'
  BY DEF StoreInv, StoreTypeOK, RestartWorker
<1>2. ThreadFacts'
  BY <1>0 DEF StoreInv, ThreadFacts
<1>3. RowFacts'
  BY <1>0, RowFactsLast DEF StoreInv
<1>4. RouteFacts'
  BY <1>0, RouteFactsLast DEF StoreInv
<1>5. DemandNeverMerged'
  BY <1>0, DemandLasts DEF StoreInv
<1>6. KeepsRows
  BY <1>0, KeepsRowsLast
<1> QED BY <1>1, <1>2, <1>3, <1>4, <1>5, <1>6 DEF StoreInv

LEMMA RepeatSeenInv ==
  ASSUME StoreInv, NEW r \in Raw, NEW q \in Raw, RepeatSeen(r, q) PROVE StoreInv' /\ KeepsRows
<1>0. UNCHANGED <<day, posted, last, routes, ex, trouble, torn>> /\ ThreadsGoOn
  BY DEF RepeatSeen, ThreadsGoOn
<1>a. /\ rows' \in [Slot -> TypedRow]
      /\ \A s \in Slot : rows'[s].raw = rows[s].raw /\ rows'[s].status = rows[s].status
  <2>1. posted[r] \in 0..MaxDay
    BY DEF StoreInv, StoreTypeOK, RepeatSeen, Arrived
  <2>2. \A x \in TypedRow : /\ [x EXCEPT !.seen = posted[r]] \in TypedRow
                            /\ [x EXCEPT !.seen = posted[r]].raw = x.raw
                            /\ [x EXCEPT !.seen = posted[r]].status = x.status
    BY <2>1 DEF TypedRow
  <2>3. rows \in [Slot -> TypedRow]
    BY DEF StoreInv, StoreTypeOK
  <2> QED BY <2>2, <2>3 DEF RepeatSeen
<1>b. RowsShrink /\ RowsStay
  BY <1>a DEF RowsShrink, RowsStay
<1>1. StoreTypeOK'
  BY <1>0, <1>a DEF StoreInv, StoreTypeOK
<1>2. ThreadFacts'
  BY <1>0 DEF StoreInv, ThreadFacts, Arrived
<1>3. RowFacts'
  BY <1>0, <1>b, RowFactsLast DEF StoreInv
<1>4. RouteFacts'
  BY <1>0, <1>b, RouteFactsLast DEF StoreInv
<1>5. DemandNeverMerged'
  BY <1>a, DemandLasts DEF StoreInv
<1>6. KeepsRows
  BY <1>0, <1>b, KeepsRowsLast
<1> QED BY <1>1, <1>2, <1>3, <1>4, <1>5, <1>6 DEF StoreInv

LEMMA FindCandidateInv ==
  ASSUME StoreInv, NEW t \in Extractor, NEW r \in Raw, FindCandidate(t, r) PROVE StoreInv' /\ KeepsRows
<1>0. UNCHANGED <<day, posted, rows, last, routes, trouble>> /\ torn \subseteq torn' /\ r \in Arrived
  BY DEF FindCandidate
<1>a. /\ ex' \in [Extractor -> Work] /\ ex'[t].pc = "ask" /\ ex'[t].raw = r
      /\ \A u \in Extractor : u = t \/ ex'[u] = ex[u]
  <2>1. PICK c \in {<<None, 0>>} \cup {s \in Stored : s[1] \in Listings} :
          ex' = [ex EXCEPT ![t] = [NoWork EXCEPT !.pc = "ask", !.raw = r, !.cand = c,
                                     !.old = IF c \in Stored THEN rows[c] ELSE NoRow]]
    BY DEF FindCandidate
  <2> DEFINE o == IF c \in Stored THEN rows[c] ELSE NoRow
             v == [NoWork EXCEPT !.pc = "ask", !.raw = r, !.cand = c, !.old = o]
  <2>2. c \in SlotOrNone /\ o \in TypedRow /\ r \in 0..MaxRaw
    BY EmptyRow DEF Stored, SlotOrNone, StoreInv, StoreTypeOK, Raw
  <2> HIDE DEF o
  <2>3. v \in Work /\ v.pc = "ask" /\ v.raw = r
    BY <2>2, EmptyRow DEF Work
  <2>4. ex \in [Extractor -> Work] /\ ex' = [ex EXCEPT ![t] = v]
    BY <2>1 DEF StoreInv, StoreTypeOK, o
  <2> HIDE DEF v
  <2> QED BY <2>3, <2>4, WorkPut
<1>b. RowsShrink /\ RowsStay
  BY <1>0 DEF RowsShrink, RowsStay
<1>c. torn' \subseteq Raw /\ \A u \in Extractor : u # t /\ ex[u].raw = r => r \in torn'
  BY DEF FindCandidate, StoreInv, StoreTypeOK
<1>1. StoreTypeOK'
  BY <1>0, <1>a, <1>c DEF StoreInv, StoreTypeOK
<1>2. ThreadFacts'
  BY <1>0, <1>a DEF StoreInv, ThreadFacts, Arrived
<1>3. RowFacts'
  BY <1>0, <1>b, RowFactsLast DEF StoreInv
<1>4. RouteFacts'
  <2>1. ASSUME NEW u \in Extractor, NEW w \in Extractor, u # w, ex'[u].raw = ex'[w].raw, ex'[u].raw \in Raw
        PROVE ex'[u].raw \in torn'
    BY <1>0, <1>a, <1>c, <2>1 DEF StoreInv, RouteFacts
  <2>2. \A u \in Extractor : ex'[u].pc = "upsert" => ex'[u] = ex[u]
    BY <1>a
  <2> QED BY <1>0, <2>1, <2>2 DEF StoreInv, RouteFacts, Stored
<1>5. DemandNeverMerged'
  BY <1>0, DemandLasts DEF StoreInv
<1>6. KeepsRows
  <2>1. ex[t].pc # "upsert"
    BY DEF FindCandidate
  <2> QED BY <1>a, <1>b, <2>1, KeepsRowsLast
<1> QED BY <1>1, <1>2, <1>3, <1>4, <1>5, <1>6 DEF StoreInv

LEMMA AskModelInv ==
  ASSUME StoreInv, NEW t \in Extractor, AskModel(t) PROVE StoreInv' /\ KeepsRows
<1>0. UNCHANGED <<day, posted, rows, last, routes, trouble, torn>>
  BY DEF AskModel
<1>a. /\ ex' \in [Extractor -> Work] /\ ex'[t].pc = "clean" /\ ex'[t].raw = ex[t].raw
      /\ ex'[t].table \in Table /\ \A u \in Extractor : u = t \/ ex'[u] = ex[u]
  <2>1. PICK tb \in Table, un \in Unit :
          ex' = [ex EXCEPT ![t].pc = "clean", ![t].table = tb, ![t].unit = un]
    BY DEF AskModel
  <2> DEFINE v == [ex[t] EXCEPT !.pc = "clean", !.table = tb, !.unit = un]
  <2>2. ex \in [Extractor -> Work] /\ ex[t] \in Work
    BY DEF StoreInv, StoreTypeOK
  <2>3. v \in Work /\ v.pc = "clean" /\ v.raw = ex[t].raw /\ v.table = tb
    BY <2>2 DEF Work
  <2>4. ex' = [ex EXCEPT ![t] = v]
    BY <2>1, <2>2
  <2> HIDE DEF v
  <2> QED BY <2>2, <2>3, <2>4, WorkPut
<1>b. RowsShrink /\ RowsStay /\ ThreadsGoOn
  BY <1>0, <1>a DEF RowsShrink, RowsStay, ThreadsGoOn
<1>c. ex[t].pc = "ask" /\ ex[t].raw \in Arrived /\ Arrived \subseteq Raw
  BY DEF AskModel, StoreInv, ThreadFacts, Arrived
<1>1. StoreTypeOK'
  BY <1>0, <1>a DEF StoreInv, StoreTypeOK
<1>2. ThreadFacts'
  BY <1>0, <1>a, <1>c DEF StoreInv, ThreadFacts, Arrived
<1>3. RowFacts'
  BY <1>0, <1>b, RowFactsLast DEF StoreInv
<1>4. RouteFacts'
  BY <1>0, <1>b, RouteFactsLast DEF StoreInv
<1>5. DemandNeverMerged'
  BY <1>0, DemandLasts DEF StoreInv
<1>6. KeepsRows
  BY <1>a, <1>b, <1>c, KeepsRowsLast
<1> QED BY <1>1, <1>2, <1>3, <1>4, <1>5, <1>6 DEF StoreInv

LEMMA CleanRoutesInv ==
  ASSUME StoreInv, NEW t \in Extractor, CleanRoutes(t) PROVE StoreInv' /\ KeepsRows
<1> DEFINE stale == {s \in RowsOf(ex[t].raw) : s[1] \in StaleTables(ex[t].table)}
<1>0. /\ UNCHANGED <<day, posted, last, routes>> /\ torn \subseteq torn' /\ ex[t].pc = "clean"
      /\ \/ rows' = [s \in Slot |-> IF s \in stale THEN NoRow ELSE rows[s]]
         \/ rows' = rows /\ ex[t].raw \in torn'
  BY DEF CleanRoutes
<1>a. ex[t].raw \in Raw /\ ex[t].table \in Table /\ ex[t].raw \in Arrived
  BY <1>0 DEF StoreInv, ThreadFacts
<1>b. /\ ex' \in [Extractor -> Work] /\ ex'[t].pc = "upsert" /\ ex'[t].raw = ex[t].raw
      /\ ex'[t].table = ex[t].table /\ \A u \in Extractor : u = t \/ ex'[u] = ex[u]
  <2> DEFINE v == [ex[t] EXCEPT !.pc = "upsert"]
  <2>1. ex \in [Extractor -> Work] /\ ex[t] \in Work
    BY DEF StoreInv, StoreTypeOK
  <2>2. v \in Work /\ v.pc = "upsert" /\ v.raw = ex[t].raw /\ v.table = ex[t].table
    BY <2>1 DEF Work
  <2>3. ex' = [ex EXCEPT ![t] = v]
    BY <2>1 DEF CleanRoutes
  <2> HIDE DEF v
  <2> QED BY <2>1, <2>2, <2>3, WorkPut
<1>c. /\ \A s \in Slot : rows'[s] \in {rows[s], NoRow} /\ (rows'[s] = rows[s] \/ rows[s].raw = ex[t].raw)
      /\ RowsShrink
  BY <1>0, EmptyRow DEF RowsOf, RowsShrink
<1>d. rows' \in [Slot -> TypedRow] /\ torn' \subseteq Raw /\ trouble' \in 0..MaxTrouble
  BY <1>a, EmptyRow DEF CleanRoutes, StoreInv, StoreTypeOK
<1>1. StoreTypeOK'
  BY <1>0, <1>b, <1>d DEF StoreInv, StoreTypeOK
<1>2. ThreadFacts'
  BY <1>0, <1>a, <1>b DEF StoreInv, ThreadFacts, Arrived
<1>3. RowFacts'
  BY <1>0, <1>c, RowFactsLast DEF StoreInv
<1>4. RouteFacts'
  <2>1. ASSUME NEW u \in Extractor, NEW w \in Extractor, u # w, ex'[u].raw = ex'[w].raw, ex'[u].raw \in Raw
        PROVE ex'[u].raw \in torn'
    <3>1. ex'[u].raw = ex[u].raw /\ ex'[w].raw = ex[w].raw
      BY <1>b
    <3> QED BY <1>0, <2>1, <3>1 DEF StoreInv, RouteFacts
  <2>2. ASSUME NEW u \in Extractor, NEW s \in Stored', ex'[u].pc = "upsert", ex'[u].raw \notin torn',
               rows'[s].raw = ex'[u].raw, s[1] \in Listings
        PROVE s[1] = ex'[u].table
    <3>1. s \in Slot /\ s \in Stored /\ rows[s].raw = rows'[s].raw
      BY <1>c DEF Stored, RowsShrink
    <3>2. CASE u = t
      <4>1. rows' = [d \in Slot |-> IF d \in stale THEN NoRow ELSE rows[d]]
        BY <1>0, <1>b, <2>2, <3>2
      <4>2. s \notin stale
        BY <3>1, <4>1, EmptyRow DEF Stored
      <4>3. s \in RowsOf(ex[t].raw)
        BY <1>b, <2>2, <3>1, <3>2 DEF RowsOf
      <4>4. s[1] \notin Listings \ {ex[t].table}
        BY <4>2, <4>3 DEF StaleTables
      <4> QED BY <1>b, <2>2, <3>2, <4>4
    <3>3. CASE u # t
      BY <1>0, <1>b, <2>2, <3>1, <3>3 DEF StoreInv, RouteFacts
    <3> QED BY <3>2, <3>3
  <2>3. ASSUME NEW s \in Stored', NEW d \in Stored', rows'[s].raw = rows'[d].raw,
               rows'[s].raw \notin torn', s[1] \in Listings, d[1] \in Listings
        PROVE s = d
    BY <1>0, <1>c, <2>3 DEF StoreInv, RouteFacts, RowsShrink, Stored
  <2> QED BY <2>1, <2>2, <2>3 DEF RouteFacts
<1>5. DemandNeverMerged'
  BY <1>c, EmptyRow, DemandLasts DEF StoreInv
<1>6. KeepsRows
  <2> SUFFICES ASSUME NEW r \in Raw \ torn', HasRow(r) PROVE HasRow(r)'
    BY DEF KeepsRows
  <2>1. CASE r = ex[t].raw
    BY <1>b, <2>1 DEF HasRow
  <2>2. CASE r # ex[t].raw /\ RowsOf(r) # {}
    <3>1. PICK s \in RowsOf(r) : TRUE
      BY <2>2
    <3>2. s \in Slot /\ rows[s].status # "none" /\ rows[s].raw = r
      BY <3>1 DEF RowsOf, Stored
    <3>3. s \in RowsOf(r)'
      BY <1>c, <2>2, <3>2 DEF RowsOf, Stored
    <3> QED BY <3>3 DEF HasRow
  <2>3. CASE r # ex[t].raw /\ \E u \in Extractor : ex[u].raw = r /\ ex[u].pc = "upsert"
    BY <1>b, <2>3 DEF HasRow
  <2> QED BY <2>1, <2>2, <2>3 DEF HasRow
<1> QED BY <1>1, <1>2, <1>3, <1>4, <1>5, <1>6 DEF StoreInv

LEMMA SaveFailsInv ==
  ASSUME StoreInv, NEW t \in Extractor, SaveFails(t) PROVE StoreInv' /\ KeepsRows
<1>0. UNCHANGED <<day, posted, rows, last, routes>> /\ torn' = torn \cup {ex[t].raw} /\ ex[t].raw \in Raw
  BY DEF SaveFails, StoreInv, ThreadFacts
<1>a. Leaves(t)
  BY EndLeaves DEF SaveFails, StoreInv
<1>b. RowsShrink /\ RowsStay
  BY <1>0 DEF RowsShrink, RowsStay
<1>1. StoreTypeOK'
  BY <1>0, <1>a DEF StoreInv, StoreTypeOK, Leaves, SaveFails
<1>2. ThreadFacts'
  BY <1>0, <1>a, LeaveFacts
<1>3. RowFacts'
  BY <1>0, <1>b, RowFactsLast DEF StoreInv
<1>4. RouteFacts'
  BY <1>0, <1>a, <1>b, LeaveFacts, RouteFactsLast DEF StoreInv
<1>5. DemandNeverMerged'
  BY <1>0, DemandLasts DEF StoreInv
<1>6. KeepsRows
  BY <1>0, <1>a, <1>b, KeepsRowsLast DEF Leaves
<1> QED BY <1>1, <1>2, <1>3, <1>4, <1>5, <1>6 DEF StoreInv

(* Columns of rows that exist are rewritten: nothing is added or removed.   *)
Recorded ==
  /\ rows' \in [Slot -> TypedRow]
  /\ \A s \in Slot : /\ rows'[s].raw = rows[s].raw
                     /\ rows'[s].status = "none" <=> rows[s].status = "none"
                     /\ s[1] \in Demands =>
                          rows'[s].status \in {"none", "distinct", "flagged", rows[s].status}

LEMMA RecordedRows ==
  ASSUME Recorded PROVE RowsShrink /\ RowsStay
BY DEF Recorded, RowsShrink, RowsStay

LEMMA StatusPut ==
  ASSUME NEW x \in TypedRow, NEW st \in {"none", "distinct", "flagged", "merged"}
  PROVE /\ [x EXCEPT !.status = st] \in TypedRow
        /\ [x EXCEPT !.status = st].raw = x.raw
        /\ [x EXCEPT !.status = st].status = st
BY DEF TypedRow

LEMMA MarkMergedInv ==
  ASSUME StoreInv, NEW t \in Extractor, MarkMerged(t) PROVE StoreInv' /\ KeepsRows
<1>0. UNCHANGED <<day, posted, last, routes, trouble, torn>> /\ ex[t].pc = "mark"
  BY DEF MarkMerged
<1>a. Recorded
  <2>1. ex[t].slot \in Slot /\ ex[t].slot[1] \in Listings /\ rows \in [Slot -> TypedRow]
    BY <1>0 DEF StoreInv, ThreadFacts, StoreTypeOK
  <2>2. PICK s \in Slot : s = ex[t].slot
    BY <2>1
  <2>3. /\ \A d \in Slot : d = s \/ rows'[d] = rows[d]
        /\ rows'[s] = IF rows[s].status = "none" THEN rows[s] ELSE [rows[s] EXCEPT !.status = "merged"]
        /\ rows' = [d \in Slot |-> rows'[d]]
    BY <2>1, <2>2 DEF MarkMerged
  <2>4. rows[s] \in TypedRow
    BY <2>1
  <2>5. /\ rows'[s] \in TypedRow /\ rows'[s].raw = rows[s].raw
        /\ rows'[s].status = "none" <=> rows[s].status = "none"
    BY <2>3, <2>4, StatusPut
  <2>6. s[1] \notin Demands
    BY <2>1, <2>2
  <2>7. \A d \in Slot : rows'[d] \in TypedRow
    BY <2>1, <2>3, <2>5
  <2>8. rows' \in [Slot -> TypedRow]
    BY <2>3, <2>7
  <2> QED BY <2>3, <2>5, <2>6, <2>8 DEF Recorded
<1>b. Leaves(t)
  BY EndLeaves DEF MarkMerged, StoreInv
<1>c. RowsShrink /\ RowsStay
  BY <1>a, RecordedRows
<1>1. StoreTypeOK'
  BY <1>0, <1>a, <1>b DEF StoreInv, StoreTypeOK, Leaves, Recorded
<1>2. ThreadFacts'
  BY <1>0, <1>b, LeaveFacts
<1>3. RowFacts'
  BY <1>0, <1>c, RowFactsLast DEF StoreInv
<1>4. RouteFacts'
  BY <1>0, <1>b, <1>c, LeaveFacts, RouteFactsLast DEF StoreInv
<1>5. DemandNeverMerged'
  BY <1>a, DemandLasts DEF StoreInv, Recorded
<1>6. KeepsRows
  BY <1>0, <1>b, <1>c, KeepsRowsLast DEF Leaves
<1> QED BY <1>1, <1>2, <1>3, <1>4, <1>5, <1>6 DEF StoreInv

(* Writing one status, of a row that exists.                                *)
LEMMA OneRecorded ==
  ASSUME rows \in [Slot -> TypedRow], NEW s \in Slot, rows[s].status # "none",
         NEW st \in {"distinct", "flagged", "merged"}, st = "merged" => s[1] \notin Demands,
         rows' = [rows EXCEPT ![s].status = st]
  PROVE Recorded
<1> DEFINE v == [rows[s] EXCEPT !.status = st]
<1>0. rows[s] \in TypedRow
  OBVIOUS
<1>1. v \in TypedRow /\ v.raw = rows[s].raw /\ v.status = st
  BY <1>0, StatusPut
<1>2. rows' = [rows EXCEPT ![s] = v]
  OBVIOUS
<1> HIDE DEF v
<1>3. rows' \in [Slot -> TypedRow] /\ rows'[s] = v /\ \A d \in Slot : d = s \/ rows'[d] = rows[d]
  BY <1>1, <1>2
<1> QED BY <1>1, <1>3 DEF Recorded

LEMMA ReviewDemandInv ==
  ASSUME StoreInv, NEW t \in Extractor, ReviewDemand(t) PROVE StoreInv' /\ KeepsRows
<1>0. UNCHANGED <<day, posted, last, routes, trouble, torn>> /\ ex[t].pc = "review"
  BY DEF ReviewDemand
<1>a. Recorded
  <2>1. ex[t].slot \in Slot /\ rows \in [Slot -> TypedRow]
    BY <1>0 DEF StoreInv, ThreadFacts, StoreTypeOK
  <2>2. CASE rows' = rows
    BY <2>1, <2>2 DEF Recorded
  <2>3. CASE rows' # rows
    <3>1. PICK d \in Stored : rows' = [rows EXCEPT ![d].status = "flagged", ![ex[t].slot].status = "flagged"]
                              /\ rows[ex[t].slot].status # "none"
      BY <2>3 DEF ReviewDemand
    <3>2. PICK s \in Slot : s = ex[t].slot
      BY <2>1
    <3>3. d \in Slot /\ rows[d].status # "none"
      BY DEF Stored
    <3> DEFINE x == [rows[d] EXCEPT !.status = "flagged"]
               y == [rows[s] EXCEPT !.status = "flagged"]
    <3>4. /\ x \in TypedRow /\ x.raw = rows[d].raw /\ x.status = "flagged"
          /\ y \in TypedRow /\ y.raw = rows[s].raw /\ y.status = "flagged"
      BY <2>1, <3>3, StatusPut
    <3>5. \A e \in Slot : rows'[e] = IF e = s THEN (IF s = d THEN [x EXCEPT !.status = "flagged"] ELSE y)
                                     ELSE IF e = d THEN x ELSE rows[e]
      BY <2>1, <3>1, <3>2, <3>3
    <3>6. [x EXCEPT !.status = "flagged"] \in TypedRow /\ [x EXCEPT !.status = "flagged"].raw = x.raw
          /\ [x EXCEPT !.status = "flagged"].status = "flagged"
      BY <3>4, StatusPut
    <3> HIDE DEF x, y
    <3>7. rows' = [e \in Slot |-> rows'[e]]
      BY <2>1, <3>1
    <3>8. ASSUME NEW e \in Slot
          PROVE /\ rows'[e] \in TypedRow /\ rows'[e].raw = rows[e].raw
                /\ rows'[e].status \in {"flagged", rows[e].status}
                /\ rows'[e].status = "none" <=> rows[e].status = "none"
      BY <2>1, <3>1, <3>2, <3>3, <3>4, <3>5, <3>6
    <3>9. rows' \in [Slot -> TypedRow]
      BY <3>7, <3>8
    <3> QED BY <3>8, <3>9 DEF Recorded
  <2> QED BY <2>2, <2>3
<1>b. Leaves(t)
  BY EndLeaves DEF ReviewDemand, StoreInv
<1>c. RowsShrink /\ RowsStay
  BY <1>a, RecordedRows
<1>1. StoreTypeOK'
  BY <1>0, <1>a, <1>b DEF StoreInv, StoreTypeOK, Leaves, Recorded
<1>2. ThreadFacts'
  BY <1>0, <1>b, LeaveFacts
<1>3. RowFacts'
  BY <1>0, <1>c, RowFactsLast DEF StoreInv
<1>4. RouteFacts'
  BY <1>0, <1>b, <1>c, LeaveFacts, RouteFactsLast DEF StoreInv
<1>5. DemandNeverMerged'
  BY <1>a, DemandLasts DEF StoreInv, Recorded
<1>6. KeepsRows
  BY <1>0, <1>b, <1>c, KeepsRowsLast DEF Leaves
<1> QED BY <1>1, <1>2, <1>3, <1>4, <1>5, <1>6 DEF StoreInv

LEMMA ClassifyInv ==
  ASSUME StoreInv, NEW t \in Extractor, Classify(t) PROVE StoreInv' /\ KeepsRows
<1>0. UNCHANGED <<day, posted, last, routes, trouble, torn>> /\ ex[t].pc = "find"
  BY DEF Classify
<1>t. ex \in [Extractor -> Work] /\ ex[t] \in Work /\ rows \in [Slot -> TypedRow]
  BY DEF StoreInv, StoreTypeOK
<1>s. GetTyped(ex[t].slot[2]) \subseteq Stored
  BY DEF GetTyped
<1>a. Recorded /\ (Leaves(t) \/ (/\ ex' \in [Extractor -> Work] /\ ex'[t].pc = "mark"
                               /\ ex'[t].raw = ex[t].raw /\ ex'[t].slot \in Slot /\ ex'[t].slot[1] \in Listings
                               /\ \A u \in Extractor : u = t \/ ex'[u] = ex[u]))
  <2>1. CASE rows' = rows /\ ex' = [ex EXCEPT ![t] = NoWork]
    BY <1>t, <2>1, EndLeaves DEF Recorded, StoreInv
  <2>2. ASSUME NEW s \in Stored, s[1] \in Listings, NEW v \in {"distinct", "flagged"},
               rows' = [rows EXCEPT ![s].status = v], ex' = [ex EXCEPT ![t] = NoWork]
        PROVE Recorded /\ Leaves(t)
    <3>1. s \in Slot /\ rows[s].status # "none"
      BY DEF Stored
    <3> QED BY <1>t, <2>2, <3>1, OneRecorded, EndLeaves DEF StoreInv
  <2>3. ASSUME NEW s \in Stored, s[1] \in Listings,
               rows' = [rows EXCEPT ![ex[t].cand] = IF @.status = "none" THEN @
                                                    ELSE [@ EXCEPT !.status = "distinct"]],
               ex' = [ex EXCEPT ![t].pc = "mark", ![t].slot = s]
        PROVE /\ Recorded /\ ex' \in [Extractor -> Work] /\ ex'[t].pc = "mark"
              /\ ex'[t].raw = ex[t].raw /\ ex'[t].slot \in Slot /\ ex'[t].slot[1] \in Listings
              /\ \A u \in Extractor : u = t \/ ex'[u] = ex[u]
    <3> DEFINE v == [ex[t] EXCEPT !.pc = "mark", !.slot = s]
    <3>1. s \in Slot /\ s \in SlotOrNone
      BY DEF Stored, SlotOrNone
    <3>2. v \in Work /\ v.pc = "mark" /\ v.raw = ex[t].raw /\ v.slot = s
      BY <1>t, <3>1 DEF Work
    <3>3. ex' = [ex EXCEPT ![t] = v]
      BY <1>t, <2>3
    <3> HIDE DEF v
    <3>4. /\ ex' \in [Extractor -> Work] /\ ex'[t].pc = "mark"
          /\ ex'[t].raw = ex[t].raw /\ ex'[t].slot \in Slot /\ ex'[t].slot[1] \in Listings
          /\ \A u \in Extractor : u = t \/ ex'[u] = ex[u]
      <4>1. s[1] \in Listings
        BY <2>3
      <4> QED BY <1>t, <3>1, <3>2, <3>3, <4>1, WorkPut
    <3>5. CASE rows' = rows
      BY <1>t, <3>4, <3>5 DEF Recorded
    <3>6. CASE rows' # rows
      <4>1. ex[t].cand \in Slot /\ rows[ex[t].cand].status # "none"
        BY <1>t, <2>3, <3>6
      <4>2. PICK c \in Slot : c = ex[t].cand
        BY <4>1
      <4>3. rows' = [rows EXCEPT ![c].status = "distinct"] /\ rows[c].status # "none"
        BY <1>t, <2>3, <4>1, <4>2
      <4> QED BY <1>t, <3>4, <4>3, OneRecorded
    <3> QED BY <3>5, <3>6
  <2>4. \A s \in Stored : Verdict(rows[s], ex[t].raw, ex[t].old) \subseteq {"distinct", "flagged", "merged"}
    BY DEF Verdict
  <2>5. CASE \E s \in GetTyped(ex[t].slot[2]) : \E v \in Verdict(rows[s], ex[t].raw, ex[t].old) :
               /\ s[1] \in Listings
               /\ IF v = "merged"
                    THEN /\ rows' = [rows EXCEPT ![ex[t].cand] = IF @.status = "none" THEN @
                                                                ELSE [@ EXCEPT !.status = "distinct"]]
                         /\ ex' = [ex EXCEPT ![t].pc = "mark", ![t].slot = s]
                    ELSE /\ rows' = [rows EXCEPT ![s].status = v]
                         /\ ex' = [ex EXCEPT ![t] = NoWork]
    <3>1. PICK s \in Stored, v \in {"distinct", "flagged", "merged"} :
               /\ s[1] \in Listings
               /\ IF v = "merged"
                    THEN /\ rows' = [rows EXCEPT ![ex[t].cand] = IF @.status = "none" THEN @
                                                                ELSE [@ EXCEPT !.status = "distinct"]]
                         /\ ex' = [ex EXCEPT ![t].pc = "mark", ![t].slot = s]
                    ELSE /\ rows' = [rows EXCEPT ![s].status = v]
                         /\ ex' = [ex EXCEPT ![t] = NoWork]
      BY <1>s, <2>4, <2>5
    <3>2. CASE v = "merged"
      BY <2>3, <3>1, <3>2
    <3>3. CASE v # "merged"
      BY <2>2, <3>1, <3>3
    <3> QED BY <3>2, <3>3
  <2> QED BY <2>1, <2>5 DEF Classify
<1>c. RowsShrink /\ RowsStay
  BY <1>a, RecordedRows
<1>d. ThreadFacts' /\ ThreadsGoOn
  <2>1. CASE Leaves(t)
    BY <1>0, <2>1, LeaveFacts
  <2>2. CASE ~Leaves(t)
    BY <1>0, <1>a, <2>2 DEF StoreInv, ThreadFacts, ThreadsGoOn, Arrived
  <2> QED BY <2>1, <2>2
<1>1. StoreTypeOK'
  BY <1>0, <1>a DEF StoreInv, StoreTypeOK, Leaves, Recorded
<1>2. ThreadFacts'
  BY <1>d
<1>3. RowFacts'
  BY <1>0, <1>c, RowFactsLast DEF StoreInv
<1>4. RouteFacts'
  BY <1>0, <1>c, <1>d, RouteFactsLast DEF StoreInv
<1>5. DemandNeverMerged'
  BY <1>a, DemandLasts DEF StoreInv, Recorded
<1>6. KeepsRows
  BY <1>0, <1>a, <1>c, KeepsRowsLast DEF Leaves
<1> QED BY <1>1, <1>2, <1>3, <1>4, <1>5, <1>6 DEF StoreInv

LEMMA SurfacedDay ==
  ASSUME StoreTypeOK, NEW r \in Raw PROVE SurfacedAt(r) \in 0..MaxDay
BY DEF StoreTypeOK, SurfacedAt, Arrived

LEMMA UpsertTypedInv ==
  ASSUME StoreInv, NEW t \in Extractor, UpsertTyped(t) PROVE StoreInv' /\ KeepsRows
<1>0. UNCHANGED <<day, posted, trouble, torn>> /\ ex[t].pc = "upsert"
  BY DEF UpsertTyped
<1>t. /\ ex \in [Extractor -> Work] /\ ex[t] \in Work /\ rows \in [Slot -> TypedRow]
      /\ last \in [Table -> 0..MaxId]
  BY DEF StoreInv, StoreTypeOK
<1>r. PICK r \in Raw, tb \in Table : r = ex[t].raw /\ tb = ex[t].table
  BY <1>0 DEF StoreInv, ThreadFacts
<1> DEFINE mine == {s \in RowsOf(r) : s[1] = tb}
           New(st, made) == [raw |-> r, unit |-> ex[t].unit, seen |-> SurfacedAt(r),
                             made |-> made, status |-> st]
           Written(s, row) ==
             /\ s[1] = tb /\ row.raw = r /\ row.status # "none"
             /\ row.status \in {"distinct", rows[s].status}
             /\ rows' = [rows EXCEPT ![s] = row]
             /\ ex' = [ex EXCEPT ![t].pc = IF tb \in Listings THEN "find" ELSE "review",
                                 ![t].slot = s]
             /\ \/ rows[s].status # "none" /\ rows[s].raw = r /\ UNCHANGED last
                \/ /\ mine = {} /\ last[tb] < MaxId
                   /\ s = <<tb, last[tb] + 1>> /\ last' = [last EXCEPT ![tb] = @ + 1]
<1>a. \E s \in Slot, row \in TypedRow : Written(s, row)
  <2>1. /\ SurfacedAt(r) \in 0..MaxDay /\ day \in 0..MaxDay
        /\ ex[t].unit \in Unit \cup {None} /\ r \in 0..MaxRaw
    BY <1>t, SurfacedDay DEF StoreInv, StoreTypeOK, Work, Raw
  <2>2. CASE \E s \in mine :
               /\ rows' = [rows EXCEPT ![s] = New(rows[s].status, rows[s].made)]
               /\ ex' = [ex EXCEPT ![t].pc = IF tb \in Listings THEN "find" ELSE "review",
                                   ![t].slot = s]
               /\ UNCHANGED last
    <3>1. PICK s \in mine :
               /\ rows' = [rows EXCEPT ![s] = New(rows[s].status, rows[s].made)]
               /\ ex' = [ex EXCEPT ![t].pc = IF tb \in Listings THEN "find" ELSE "review",
                                   ![t].slot = s]
               /\ UNCHANGED last
      BY <2>2
    <3>2. s \in Slot /\ s[1] = tb /\ rows[s].status # "none" /\ rows[s].raw = r /\ rows[s] \in TypedRow
      BY <1>t DEF RowsOf, Stored
    <3> DEFINE row == New(rows[s].status, rows[s].made)
    <3>3. row \in TypedRow /\ row.raw = r /\ row.status = rows[s].status
      BY <2>1, <3>2 DEF TypedRow
    <3>4. rows' = [rows EXCEPT ![s] = row]
      BY <3>1
    <3> HIDE DEF row
    <3>5. Written(s, row)
      BY <3>1, <3>2, <3>3, <3>4
    <3> QED BY <3>2, <3>3, <3>5
  <2>3. CASE /\ mine = {} /\ last[tb] < MaxId
             /\ last' = [last EXCEPT ![tb] = @ + 1]
             /\ rows' = [rows EXCEPT ![<<tb, last[tb] + 1>>] = New("distinct", day)]
             /\ ex' = [ex EXCEPT ![t].pc = IF tb \in Listings THEN "find" ELSE "review",
                                 ![t].slot = <<tb, last[tb] + 1>>]
    <3>1. last[tb] + 1 \in 1..MaxId
      BY <1>t, <2>3
    <3>2. PICK s \in Slot : s = <<tb, last[tb] + 1>> /\ s[1] = tb
      <4>1. PICK n \in 1..MaxId : n = last[tb] + 1
        BY <3>1
      <4>2. <<tb, n>> \in Slot /\ <<tb, n>>[1] = tb
        BY DEF Slot
      <4> QED BY <4>1, <4>2
    <3> DEFINE row == New("distinct", day)
    <3>3. row \in TypedRow /\ row.raw = r /\ row.status = "distinct"
      BY <2>1 DEF TypedRow
    <3>4. rows' = [rows EXCEPT ![s] = row]
      BY <2>3, <3>2
    <3> HIDE DEF row
    <3>5. Written(s, row)
      BY <2>3, <3>2, <3>3, <3>4
    <3> QED BY <3>3, <3>5
  <2> QED BY <1>r, <2>2, <2>3 DEF UpsertTyped
<1>b. PICK s \in Slot, row \in TypedRow : Written(s, row)
  BY <1>a
<1>c. /\ rows' \in [Slot -> TypedRow] /\ rows'[s].raw = r
      /\ rows'[s].status # "none" /\ rows'[s].status \in {"distinct", rows[s].status}
      /\ \A d \in Slot : d = s \/ rows'[d] = rows[d]
  BY <1>t, <1>b
<1>d. /\ ex' \in [Extractor -> Work] /\ ex'[t].pc \in {"find", "review"}
      /\ ex'[t].raw = r /\ ex'[t].slot = s /\ \A u \in Extractor : u = t \/ ex'[u] = ex[u]
  <2> DEFINE v == [ex[t] EXCEPT !.pc = IF tb \in Listings THEN "find" ELSE "review", !.slot = s]
  <2>1. s \in SlotOrNone
    BY DEF SlotOrNone
  <2>2. v \in Work /\ v.pc \in {"find", "review"} /\ v.raw = ex[t].raw /\ v.slot = s
    BY <1>t, <2>1 DEF Work
  <2>3. ex' = [ex EXCEPT ![t] = v]
    BY <1>t, <1>b
  <2> HIDE DEF v
  <2> QED BY <1>r, <1>t, <2>2, <2>3, WorkPut
<1>e. \A d \in Stored : d # s /\ d[1] = tb => rows[d].raw # r
  <2>1. CASE rows[s].status # "none" /\ rows[s].raw = r
    BY <1>b, <2>1 DEF StoreInv, RowFacts, Stored
  <2>2. CASE mine = {}
    BY <2>2 DEF RowsOf
  <2> QED BY <1>b, <2>1, <2>2
<1>f. /\ last' \in [Table -> 0..MaxId] /\ s[2] <= last'[tb]
      /\ \A x \in Table : last[x] <= last'[x]
      /\ rows[s].status = "none" \/ rows[s].raw = r
  <2>1. CASE rows[s].status # "none" /\ rows[s].raw = r /\ UNCHANGED last
    BY <1>b, <1>t, <2>1 DEF StoreInv, RowFacts, Stored
  <2>2. CASE /\ last[tb] < MaxId
             /\ s = <<tb, last[tb] + 1>> /\ last' = [last EXCEPT ![tb] = @ + 1]
    <3>1. last' \in [Table -> 0..MaxId] /\ last'[tb] = last[tb] + 1
          /\ \A x \in Table : last[x] <= last'[x]
      BY <1>t, <2>2
    <3>2. s[1] = tb /\ s[2] = last[tb] + 1
      BY <2>2
    <3>3. rows[s].status = "none"
      BY <1>t, <3>2 DEF StoreInv, RowFacts, Stored
    <3> QED BY <1>t, <3>1, <3>2, <3>3
  <2> QED BY <1>b, <2>1, <2>2
<1>g. routes' \in [SourceIds -> Table \cup {None}]
  <2>1. routes' = [routes EXCEPT ![SourceId(r)] = tb]
    BY <1>r DEF UpsertTyped
  <2> QED BY <2>1 DEF StoreInv, StoreTypeOK
<1>h. s[1] = tb /\ s[1] \in Table /\ tb = ex[t].table /\ r = ex[t].raw
  BY <1>b, <1>r
<1> HIDE DEF Written, mine, New
<1>1. StoreTypeOK'
  BY <1>0, <1>c, <1>d, <1>f, <1>g DEF StoreInv, StoreTypeOK
<1>2. ThreadFacts'
  <2>1. ex[t].raw \in Arrived
    BY <1>0 DEF StoreInv, ThreadFacts
  <2> QED BY <1>0, <1>d, <1>h, <2>1 DEF StoreInv, ThreadFacts, Arrived
<1>3. RowFacts'
  <2>1. ASSUME NEW d \in Stored' PROVE d[2] <= last'[d[1]]
    <3>1. d \in Slot /\ d[1] \in Table /\ d[2] \in 1..MaxId
      BY DEF Stored, Slot
    <3>2. CASE d = s
      BY <1>f, <1>h, <3>2
    <3>3. CASE d # s
      <4>1. d \in Stored
        BY <1>c, <3>1, <3>3 DEF Stored
      <4>2. d[2] <= last[d[1]]
        BY <4>1 DEF StoreInv, RowFacts
      <4>3. last[d[1]] \in Nat /\ last'[d[1]] \in Nat /\ last[d[1]] <= last'[d[1]]
        BY <1>f, <1>t, <3>1
      <4> QED BY <3>1, <4>2, <4>3
    <3> QED BY <3>2, <3>3
  <2>2. ASSUME NEW d \in Stored', NEW e \in Stored', d[1] = e[1], rows'[d].raw = rows'[e].raw
        PROVE d = e
    <3>1. d \in Slot /\ e \in Slot
      BY DEF Stored
    <3>2. \A x \in Stored' : x = s \/ (x \in Stored /\ rows'[x] = rows[x])
      BY <1>c DEF Stored
    <3> QED BY <1>c, <1>e, <1>h, <2>2, <3>1, <3>2 DEF StoreInv, RowFacts
  <2> QED BY <2>1, <2>2 DEF RowFacts
<1>4. RouteFacts'
  <2>0. \A x \in Stored' : x = s \/ (x \in Stored /\ rows'[x] = rows[x])
    BY <1>c DEF Stored
  <2>1. ASSUME NEW u \in Extractor, NEW w \in Extractor, u # w, ex'[u].raw = ex'[w].raw, ex'[u].raw \in Raw
        PROVE ex'[u].raw \in torn'
    <3>1. ex'[u].raw = ex[u].raw /\ ex'[w].raw = ex[w].raw
      BY <1>d, <1>h
    <3> QED BY <1>0, <2>1, <3>1 DEF StoreInv, RouteFacts
  <2>2. ASSUME NEW u \in Extractor, NEW d \in Stored', ex'[u].pc = "upsert", ex'[u].raw \notin torn',
               rows'[d].raw = ex'[u].raw, d[1] \in Listings
        PROVE d[1] = ex'[u].table
    <3>1. u # t /\ ex'[u] = ex[u]
      BY <1>d, <2>2
    <3>2. ex[u].raw \in Raw
      BY <2>2, <3>1 DEF StoreInv, ThreadFacts
    <3>3. d # s
      BY <1>0, <1>c, <1>h, <2>2, <3>1, <3>2 DEF StoreInv, RouteFacts
    <3> QED BY <1>0, <2>0, <2>2, <3>1, <3>3 DEF StoreInv, RouteFacts
  <2>3. ASSUME NEW d \in Stored', NEW e \in Stored', rows'[d].raw = rows'[e].raw,
               rows'[d].raw \notin torn', d[1] \in Listings, e[1] \in Listings
        PROVE d = e
    <3>1. ASSUME NEW x \in Stored', x # s, rows'[x].raw = r, x[1] \in Listings, r \notin torn, s[1] \in Listings
          PROVE FALSE
      <4>1. x \in Stored /\ rows[x].raw = r
        BY <2>0, <3>1
      <4>2. x[1] = tb
        BY <1>0, <1>h, <3>1, <4>1 DEF StoreInv, RouteFacts
      <4> QED BY <1>e, <3>1, <4>1, <4>2
    <3>2. CASE d = s \/ e = s
      BY <1>0, <1>c, <2>3, <3>1, <3>2
    <3>3. CASE d # s /\ e # s
      BY <1>0, <2>0, <2>3, <3>3 DEF StoreInv, RouteFacts
    <3> QED BY <3>2, <3>3
  <2> QED BY <2>1, <2>2, <2>3 DEF RouteFacts
<1>5. DemandNeverMerged'
  BY <1>c, DemandLasts DEF StoreInv
<1>6. KeepsRows
  <2> SUFFICES ASSUME NEW q \in Raw \ torn', HasRow(q) PROVE HasRow(q)'
    BY DEF KeepsRows
  <2>1. CASE q = r
    <3>1. s \in RowsOf(q)'
      BY <1>c, <2>1 DEF RowsOf, Stored
    <3> QED BY <3>1 DEF HasRow
  <2>2. CASE q # r /\ RowsOf(q) # {}
    <3>1. PICK d \in RowsOf(q) : TRUE
      BY <2>2
    <3>2. d \in Slot /\ rows[d].status # "none" /\ rows[d].raw = q
      BY <3>1 DEF RowsOf, Stored
    <3>3. d # s
      BY <1>f, <2>2, <3>2
    <3>4. d \in RowsOf(q)'
      BY <1>c, <3>2, <3>3 DEF RowsOf, Stored
    <3> QED BY <3>4 DEF HasRow
  <2>3. CASE q # r /\ \E u \in Extractor : ex[u].raw = q /\ ex[u].pc = "upsert"
    BY <1>d, <1>h, <2>3 DEF HasRow
  <2> QED BY <2>1, <2>2, <2>3 DEF HasRow
<1> QED BY <1>1, <1>2, <1>3, <1>4, <1>5, <1>6 DEF StoreInv

LEMMA StoreNextInv ==
  ASSUME StoreInv, [StoreNext]_storeVars PROVE StoreInv' /\ KeepsRows
<1> DEFINE Goal == StoreInv' /\ KeepsRows
<1>1. ASSUME UNCHANGED storeVars PROVE Goal
  <2>1. StoreInv'
    BY <1>1 DEF storeVars, StoreInv, StoreTypeOK, ThreadFacts, RowFacts, RouteFacts,
                DemandNeverMerged, Stored, Arrived
  <2>2. KeepsRows
    BY <1>1 DEF storeVars, KeepsRows, HasRow, RowsOf, Stored
  <2> QED BY <2>1, <2>2
<1>2. ASSUME NextDay \/ RestartWorker \/ StoreAtRest PROVE Goal
  BY <1>1, <1>2, NextDayInv, RestartWorkerInv DEF StoreAtRest
<1>3. ASSUME NEW r \in Raw, Arrive(r) PROVE Goal
  BY <1>3, ArriveInv
<1>4. ASSUME NEW r \in Raw, NEW q \in Raw, RepeatSeen(r, q) PROVE Goal
  BY <1>4, RepeatSeenInv
<1>5. ASSUME NEW t \in Extractor, NEW r \in Raw, FindCandidate(t, r) PROVE Goal
  BY <1>5, FindCandidateInv
<1>6. ASSUME NEW t \in Extractor, AskModel(t) \/ CleanRoutes(t) \/ UpsertTyped(t) \/ SaveFails(t)
      PROVE Goal
  BY <1>6, AskModelInv, CleanRoutesInv, UpsertTypedInv, SaveFailsInv
<1>7. ASSUME NEW t \in Extractor, Classify(t) \/ MarkMerged(t) \/ ReviewDemand(t) PROVE Goal
  BY <1>7, ClassifyInv, MarkMergedInv, ReviewDemandInv
<1> HIDE DEF Goal
<1>8. Goal
  BY <1>1, <1>2, <1>3, <1>4, <1>5, <1>6, <1>7 DEF StoreNext
<1> QED BY <1>8 DEF Goal

LEMMA StoreSafe == StoreSpec => []StoreInv
<1>1. StoreInv /\ [StoreNext]_storeVars => StoreInv'
  BY StoreNextInv
<1> QED BY <1>1, StoreInitInv, PTL DEF StoreSpec

(* The typed tables, the route table and the threads keep their types.      *)
THEOREM StoreTypeCorrect == StoreSpec => []StoreTypeOK
<1>1. StoreInv => StoreTypeOK
  BY DEF StoreInv
<1> QED BY <1>1, StoreSafe, PTL

(* For any messages, tables and threads, save_typed_listing leaves an item  *)
(* in at most one listing table, unless a clean-up failed or two threads    *)
(* had the message at once.                                                 *)
THEOREM ItemInOneListing == StoreSpec => []OneListing
<1>1. ASSUME StoreInv PROVE OneListing
  <2> SUFFICES ASSUME NEW r \in Raw \ torn
               PROVE Cardinality({s \in RowsOf(r) : s[1] \in Listings}) <= 1
    BY DEF OneListing
  <2> DEFINE L == {s \in RowsOf(r) : s[1] \in Listings}
  <2>1. \A s, d \in L : s = d
    BY <1>1 DEF StoreInv, RouteFacts, RowsOf
  <2>2. CASE L = {}
    <3> HIDE DEF L
    <3>1. Cardinality(L) = 0
      BY <2>2, FS_EmptySet
    <3> QED BY <3>1 DEF L
  <2>3. CASE L # {}
    <3>1. PICK s \in L : TRUE
      BY <2>3
    <3>2. L = {s}
      BY <2>1, <3>1
    <3> HIDE DEF L
    <3>3. Cardinality(L) = 1
      BY <3>2, FS_Singleton
    <3> QED BY <3>3 DEF L
  <2> QED BY <2>2, <2>3
<1> QED BY <1>1, StoreSafe, PTL

(* No row of a requirement table is ever hidden as merged, whichever row    *)
(* record_listing_repost finds under the number it is given.                *)
THEOREM DemandIsNeverMerged == StoreSpec => []DemandNeverMerged
<1>1. StoreInv => DemandNeverMerged
  BY DEF StoreInv
<1> QED BY <1>1, StoreSafe, PTL

(* No step takes the last row of an item away, but for a clean-up whose own *)
(* write is next, a failing save, or a second thread on the message.        *)
THEOREM ItemsKeepARow == StoreSpec => ProjectionKept
<1>1. StoreInv /\ [StoreNext]_storeVars => [KeepsRows]_storeVars
  BY StoreNextInv
<1>2. ProjectionKept <=> [][KeepsRows]_storeVars
  BY DEF ProjectionKept, KeepsRows
<1> QED BY <1>1, <1>2, StoreSafe, PTL DEF StoreSpec
=============================================================================
