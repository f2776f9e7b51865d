------------------------ MODULE BrokerSessionsProofs ------------------------
(***************************************************************************)
(* BrokerSessions, proved for any number of processes, requests, restarts  *)
(* and failures.  The session of a broker that runs holds the advisory     *)
(* lock: the invariant needed beside it is that a request that is loading  *)
(* the device already holds the lock the session will get.  From there, a  *)
(* code request made in a QR window is not lost, and the mapping names the *)
(* device of the session that runs; for the second, a request about to     *)
(* install has the mapping's device, and one that wipes a session runs in  *)
(* that session's process and, unless it is a reset, has cancelled it.     *)
(***************************************************************************)
EXTENDS BrokerSessions, TLAPS

Starting == {"load", "install"}

(* Whoever is about to install a session holds the lock.                    *)
StarterOwnsLock == \A p \in Proc : req[p].pc \in Starting => lock = p
LockInv == LiveOwnsLock /\ StarterOwnsLock

(* A request at work is one of some process, and one that closes a session  *)
(* has the session.                                                         *)
Aimed == {"retire", "unlink", "close"}
AtWork ==
  \A p \in Proc : /\ req[p].pc # "idle" => req[p].inst \in Instance
                  /\ req[p].pc \in Aimed => req[p].target \in Sess

(* A step rewrites one session, and does not bring one to life.             *)
Quiet(s) ==
  \E x \in Session : /\ sess' = [sess EXCEPT ![s] = x]
                     /\ x.pc \in Running /\ ~x.cancelled => Live(s)

LEMMA Bounds == MaxRequests \in Nat /\ MaxBoots \in Nat /\ MaxTrips \in Nat /\ MaxPairs \in Nat
BY SessionsAssumption

LEMMA Apart ==
  /\ NoOne \notin Proc /\ NoOne \notin Sess
  /\ \A p \in Proc : p \notin Sess
  /\ Req \subseteq Proc /\ Instance \subseteq Proc
  /\ 0 \notin Sess /\ 0 \notin Proc
BY SessionsAssumption DEF Proc, Sess

LEMMA UnbornType == Unborn \in Session /\ Unborn.pc = "unborn"
BY DEF Unborn, Session

LEMMA NoReqType == NoReq \in Request /\ NoReq.pc = "idle"
BY DEF NoReq, Request

LEMMA SetStatusType ==
  ASSUME NEW x \in Session, NEW a \in BOOLEAN, NEW b \in BOOLEAN
  PROVE  /\ SetStatus(x, a, b) \in Session
         /\ SetStatus(x, a, b).pc = x.pc
         /\ SetStatus(x, a, b).cancelled = x.cancelled
<1>1. (a /\ ~x.resetting) \in BOOLEAN /\ (b /\ ~(a /\ x.resetting)) \in BOOLEAN
  OBVIOUS
<1>2. ASSUME NEW c \in BOOLEAN, NEW d \in BOOLEAN
      PROVE  [x EXCEPT !.shown = c, !.failed = d] \in Session
  BY DEF Session
<1>3. SetStatus(x, a, b) \in Session
  BY <1>1, <1>2 DEF SetStatus
<1>4. SetStatus(x, a, b).pc = x.pc /\ SetStatus(x, a, b).cancelled = x.cancelled
  BY DEF SetStatus, Session
<1> QED BY <1>3, <1>4

(* What is read from a session.                                             *)
LEMMA Fields ==
  ASSUME NEW x \in Session
  PROVE  /\ x.gen \in Nat /\ x.seen \in Nat /\ x.answered \in Nat
         /\ x.device \in Dev \cup {0} /\ x.mode \in {"", "code", "qr"}
         /\ x.client \in {"none", "on", "off"} /\ x.cancelled \in BOOLEAN
         /\ x.shown \in BOOLEAN /\ x.failed \in BOOLEAN
         /\ x.beat \subseteq [shown : BOOLEAN, failed : BOOLEAN]
BY Zenon DEF Session

LEMMA Asked ==
  ASSUME NEW y \in Session, NEW j \in {"code", "qr"}, NEW g \in Nat
  PROVE  LET z == [y EXCEPT !.resetting = FALSE, !.mode = j, !.gen = g, !.token = TRUE]
         IN  z \in Session /\ z.pc = y.pc /\ z.cancelled = y.cancelled
BY DEF Session

LEMMA RequestPairingType ==
  ASSUME NEW x \in Session, NEW k
  PROVE  /\ RequestPairing(x, k) \in Session
         /\ RequestPairing(x, k).pc = x.pc
         /\ RequestPairing(x, k).cancelled = x.cancelled
<1>1. /\ SetStatus(x, FALSE, FALSE) \in Session
      /\ SetStatus(x, FALSE, FALSE).pc = x.pc
      /\ SetStatus(x, FALSE, FALSE).cancelled = x.cancelled
  BY SetStatusType
<1>5. x.gen \in Nat
  BY Fields, Zenon
<1>2. x.gen + 1 \in Nat
  BY <1>5
<1>3. CASE k \in {"code", "qr"}
  <2> DEFINE y == SetStatus(x, FALSE, FALSE)
             g == x.gen + 1
             z == [y EXCEPT !.resetting = FALSE, !.mode = k, !.gen = g, !.token = TRUE]
  <2>1. RequestPairing(x, k) = z
    BY <1>3 DEF RequestPairing
  <2>2. y \in Session /\ g \in Nat
    BY <1>1, <1>2
  <2> HIDE DEF y, g
  <2>3. z \in Session /\ z.pc = y.pc /\ z.cancelled = y.cancelled
    BY <1>3, <2>2, Asked
  <2> QED BY <1>1, <2>1, <2>3 DEF y
<1>4. CASE k \notin {"code", "qr"}
  BY <1>4 DEF RequestPairing
<1> QED BY <1>3, <1>4

LEMMA QuietPut ==
  ASSUME NEW s \in Sess, NEW y \in Session, Put(s, y),
         y.pc \in Running /\ ~y.cancelled => Live(s)
  PROVE  Quiet(s)
BY DEF Put, Quiet

(* Rewritings of a session, by the fields they touch.                       *)
Same(z, y) == z \in Session /\ z.cancelled = y.cancelled
SameStage(z, y) == Same(z, y) /\ z.pc = y.pc

LEMMA Moved ==
  ASSUME NEW y \in Session, NEW q \in Running \cup {"ended"}, NEW n \in Nat,
         NEW c \in {"none", "on", "off"}, NEW m \in {"", "code", "qr"}
  PROVE  /\ Same([y EXCEPT !.pc = q], y)
         /\ Same([y EXCEPT !.pc = q, !.client = c], y)
         /\ Same([y EXCEPT !.pc = q, !.client = c, !.disc = FALSE], y)
         /\ Same([y EXCEPT !.pc = q, !.client = c, !.woke = FALSE], y)
         /\ Same([y EXCEPT !.pc = q, !.seen = n], y)
         /\ Same([y EXCEPT !.pc = q, !.answered = n], y)
         /\ Same([y EXCEPT !.pc = q, !.answered = n, !.mode = ""], y)
         /\ Same([y EXCEPT !.woke = FALSE, !.pc = q], y)
         /\ Same([y EXCEPT !.mode = m, !.pc = q], y)
<1>1. Same([y EXCEPT !.pc = q], y)
  BY DEF Session, Same
<1>2. Same([y EXCEPT !.pc = q, !.client = c], y)
  BY DEF Session, Same
<1>3. Same([y EXCEPT !.pc = q, !.client = c, !.disc = FALSE], y)
  BY DEF Session, Same
<1>4. Same([y EXCEPT !.pc = q, !.client = c, !.woke = FALSE], y)
  BY DEF Session, Same
<1>5. Same([y EXCEPT !.pc = q, !.seen = n], y)
  BY DEF Session, Same
<1>6. Same([y EXCEPT !.pc = q, !.answered = n], y)
  BY DEF Session, Same
<1>7. Same([y EXCEPT !.pc = q, !.answered = n, !.mode = ""], y)
  BY DEF Session, Same
<1>8. Same([y EXCEPT !.woke = FALSE, !.pc = q], y)
  BY DEF Session, Same
<1>9. Same([y EXCEPT !.mode = m, !.pc = q], y)
  BY DEF Session, Same
<1> QED BY <1>1, <1>2, <1>3, <1>4, <1>5, <1>6, <1>7, <1>8, <1>9

LEMMA Marked ==
  ASSUME NEW y \in Session, NEW d \in Dev \cup {0}, NEW b \in BOOLEAN,
         NEW B \in SUBSET [shown : BOOLEAN, failed : BOOLEAN]
  PROVE  /\ SameStage([y EXCEPT !.token = FALSE, !.woke = TRUE], y)
         /\ SameStage([y EXCEPT !.beat = B], y)
         /\ SameStage([y EXCEPT !.device = d, !.kept = b], y)
         /\ SameStage([y EXCEPT !.disc = TRUE], y)
         /\ SameStage([y EXCEPT !.disc = TRUE, !.device = 0], y)
         /\ SameStage([y EXCEPT !.resetting = TRUE, !.mode = ""], y)
         /\ SameStage([y EXCEPT !.device = d], y)
<1>1. SameStage([y EXCEPT !.token = FALSE, !.woke = TRUE], y)
  BY DEF Session, Same, SameStage
<1>2. SameStage([y EXCEPT !.beat = B], y)
  BY DEF Session, Same, SameStage
<1>3. SameStage([y EXCEPT !.device = d, !.kept = b], y)
  BY DEF Session, Same, SameStage
<1>4. SameStage([y EXCEPT !.disc = TRUE], y)
  BY DEF Session, Same, SameStage
<1>5. SameStage([y EXCEPT !.disc = TRUE, !.device = 0], y)
  BY DEF Session, Same, SameStage
<1>6. SameStage([y EXCEPT !.resetting = TRUE, !.mode = ""], y)
  BY DEF Session, Same, SameStage
<1>7. SameStage([y EXCEPT !.device = d], y)
  BY DEF Session, Same, SameStage
<1> QED BY <1>1, <1>2, <1>3, <1>4, <1>5, <1>6, <1>7

LEMMA Stopped ==
  ASSUME NEW y \in Session
  PROVE  /\ Cancelled(y) \in Session /\ Cancelled(y).cancelled
         /\ [Cancelled(y) EXCEPT !.device = 0, !.client = "off"] \in Session
         /\ [Cancelled(y) EXCEPT !.device = 0, !.client = "off"].cancelled
BY DEF Session, Cancelled

LEMMA QuietSame ==
  ASSUME NEW s \in Sess, sess[s].pc \in Running, NEW z, Put(s, z), Same(z, sess[s])
  PROVE  Quiet(s)
BY QuietPut DEF Same, Live

(* The same, after a status was written.                                    *)
LEMMA QuietStatus ==
  ASSUME SessionsTypeOK, NEW s \in Sess, sess[s].pc \in Running,
         NEW a \in BOOLEAN, NEW b \in BOOLEAN, NEW z, Put(s, z), Same(z, SetStatus(sess[s], a, b))
  PROVE  Quiet(s)
<1>1. sess[s] \in Session
  BY DEF SessionsTypeOK
<1>2. SetStatus(sess[s], a, b).cancelled = sess[s].cancelled
  BY <1>1, SetStatusType
<1> QED BY <1>2, QuietSame DEF Same

LEMMA Stages ==
  /\ {"top", "dial", "exit", "first", "code", "qr", "open"} \subseteq Running
  /\ Waiting \subseteq Running
BY DEF Running, Waiting

LEMMA TopQuiet == ASSUME SessionsTypeOK, NEW s \in Sess, Top(s) PROVE Quiet(s)
<1> DEFINE x == sess[s]
           y == SetStatus(x, FALSE, FALSE)
<1>1. x \in Session /\ y \in Session /\ x.pc \in Running
  BY SetStatusType, Stages DEF SessionsTypeOK, Top
<1>2. CASE x.cancelled
  <2>1. Put(s, [x EXCEPT !.pc = "exit"])
    BY <1>2 DEF Top
  <2>2. Same([x EXCEPT !.pc = "exit"], x)
    BY <1>1, Moved, Stages
  <2> QED BY <1>1, <2>1, <2>2, QuietSame
<1>3. CASE ~x.cancelled
  <2>1. Put(s, [y EXCEPT !.pc = "dial", !.client = "on", !.disc = FALSE])
    BY <1>3 DEF Top
  <2>2. Same([y EXCEPT !.pc = "dial", !.client = "on", !.disc = FALSE], y)
    BY <1>1, Moved, Stages
  <2> QED BY <1>1, <2>1, <2>2, QuietStatus
<1> QED BY <1>2, <1>3

LEMMA DialQuiet == ASSUME SessionsTypeOK, NEW s \in Sess, Dial(s) PROVE Quiet(s)
<1> DEFINE x == sess[s]
           w == IF x.mode = "code" THEN "first" ELSE "qr"
<1>1. x \in Session /\ x.pc \in Running /\ w \in Running
  BY Stages DEF SessionsTypeOK, Dial
<1>2. CASE x.device # 0
  <2>1. Put(s, [x EXCEPT !.pc = "open"])
    BY <1>2 DEF Dial
  <2>2. Same([x EXCEPT !.pc = "open"], x)
    BY <1>1, Moved, Stages
  <2> QED BY <1>1, <2>1, <2>2, QuietSame
<1>3. CASE x.device = 0
  <2>1. Put(s, [x EXCEPT !.pc = w, !.seen = x.gen])
    BY <1>3 DEF Dial
  <2>2. x.gen \in Nat
    BY <1>1, Fields, Zenon
  <2> HIDE DEF w
  <2>3. Same([x EXCEPT !.pc = w, !.seen = x.gen], x)
    BY <1>1, <2>2, Moved
  <2> QED BY <1>1, <2>1, <2>3, QuietSame
<1> QED BY <1>2, <1>3

LEMMA FirstQRQuiet == ASSUME SessionsTypeOK, NEW s \in Sess, FirstQR(s) PROVE Quiet(s)
<1> DEFINE x == sess[s]
<1>1. x \in Session /\ x.pc \in Running
  BY Stages DEF SessionsTypeOK, FirstQR
<1>2. x.seen \in Nat
  BY <1>1, Fields, Zenon
<1>3. ASSUME NEW b \in BOOLEAN
      PROVE  LET y == SetStatus(x, FALSE, b)
             IN  /\ Same([y EXCEPT !.pc = "code", !.answered = x.seen], y)
                 /\ Same([y EXCEPT !.pc = "exit", !.answered = x.seen, !.mode = ""], y)
  <2> DEFINE y == SetStatus(x, FALSE, b)
  <2>1. y \in Session
    BY <1>1, SetStatusType
  <2> HIDE DEF y
  <2>2. /\ Same([y EXCEPT !.pc = "code", !.answered = x.seen], y)
        /\ Same([y EXCEPT !.pc = "exit", !.answered = x.seen, !.mode = ""], y)
    BY <1>2, <2>1, Moved, Stages
  <2> QED BY <2>2 DEF y
<1>4. CASE Put(s, [SetStatus(x, FALSE, FALSE) EXCEPT !.pc = "code", !.answered = x.seen])
  BY <1>1, <1>3, <1>4, QuietStatus
<1>5. CASE Put(s, [SetStatus(x, FALSE, TRUE) EXCEPT
                     !.pc = "exit", !.answered = x.seen, !.mode = ""])
  BY <1>1, <1>3, <1>5, QuietStatus
<1> QED BY <1>4, <1>5 DEF FirstQR

LEMMA WakeQuiet == ASSUME SessionsTypeOK, NEW s \in Sess, Wake(s) PROVE Quiet(s)
<1> DEFINE x == sess[s]
<1>1. x \in Session /\ x.pc \in Running /\ Put(s, [x EXCEPT !.token = FALSE, !.woke = TRUE])
  BY Stages DEF SessionsTypeOK, Wake
<1>2. Same([x EXCEPT !.token = FALSE, !.woke = TRUE], x)
  BY <1>1, Marked, Stages DEF SameStage
<1> QED BY <1>1, <1>2, QuietSame

LEMMA ReviewModeQuiet == ASSUME SessionsTypeOK, NEW s \in Sess, ReviewMode(s) PROVE Quiet(s)
<1> DEFINE x == sess[s]
<1>1. x \in Session /\ x.pc \in Running
  BY Stages DEF SessionsTypeOK, ReviewMode
<1>2. PICK q \in Running : Put(s, [x EXCEPT !.woke = FALSE, !.pc = q])
  BY Stages DEF ReviewMode
<1>3. Same([x EXCEPT !.woke = FALSE, !.pc = q], x)
  BY <1>1, Moved
<1> QED BY <1>1, <1>2, <1>3, QuietSame

LEMMA WindowClosesQuiet == ASSUME SessionsTypeOK, NEW s \in Sess, WindowCloses(s) PROVE Quiet(s)
<1> DEFINE x == sess[s]
<1>1. x \in Session /\ x.pc \in Running /\ x.mode \in {"", "code", "qr"}
  BY Stages, Fields DEF SessionsTypeOK, WindowCloses
<1>2. PICK q \in Running, m \in {"", "code", "qr"} : Put(s, [x EXCEPT !.mode = m, !.pc = q])
  BY <1>1, Stages DEF WindowCloses
<1>3. Same([x EXCEPT !.mode = m, !.pc = q], x)
  BY <1>1, Moved
<1> QED BY <1>1, <1>2, <1>3, QuietSame

LEMMA LeaveQuiet == ASSUME SessionsTypeOK, NEW s \in Sess, Leave(s) PROVE Quiet(s)
<1> DEFINE x == sess[s]
<1>1. x \in Session /\ x.pc \in Running
  BY Stages DEF SessionsTypeOK, Leave
<1>2. PICK q \in Running : Put(s, [x EXCEPT !.pc = q])
  BY Stages DEF Leave
<1>3. Same([x EXCEPT !.pc = q], x)
  BY <1>1, Moved
<1> QED BY <1>1, <1>2, <1>3, QuietSame

LEMMA ExitQuiet == ASSUME SessionsTypeOK, NEW s \in Sess, Exit(s) PROVE Quiet(s)
<1> DEFINE x == sess[s]
<1>1. x \in Session /\ x.pc \in Running /\ Put(s, [x EXCEPT !.pc = "ended", !.client = "off"])
  BY Stages DEF SessionsTypeOK, Exit
<1>2. Same([x EXCEPT !.pc = "ended", !.client = "off"], x)
  BY <1>1, Moved, Stages
<1> QED BY <1>1, <1>2, QuietSame

LEMMA PanicQuiet == ASSUME SessionsTypeOK, NEW s \in Sess, Panic(s) PROVE Quiet(s)
<1> DEFINE x == sess[s]
           y == SetStatus(x, FALSE, FALSE)
<1>1. x \in Session /\ x.pc \in Running /\ y \in Session
  BY SetStatusType DEF SessionsTypeOK, Panic
<1>2. PICK q \in Running \cup {"ended"}, c \in {"none", "on", "off"} :
        Put(s, [y EXCEPT !.pc = q, !.client = c, !.woke = FALSE])
  BY Stages DEF Panic
<1>3. Same([y EXCEPT !.pc = q, !.client = c, !.woke = FALSE], y)
  <2> HIDE DEF y
  <2> QED BY <1>1, Moved
<1> QED BY <1>1, <1>2, <1>3, QuietStatus

LEMMA DialFailsQuiet == ASSUME SessionsTypeOK, NEW s \in Sess, DialFails(s) PROVE Quiet(s)
<1> DEFINE x == sess[s]
<1>1. x \in Session /\ x.pc \in Running /\ Put(s, [x EXCEPT !.pc = "top"])
  BY Stages DEF SessionsTypeOK, DialFails
<1>2. Same([x EXCEPT !.pc = "top"], x)
  BY <1>1, Moved, Stages
<1> QED BY <1>1, <1>2, QuietSame

LEMMA FirstClosesQuiet == ASSUME SessionsTypeOK, NEW s \in Sess, FirstCloses(s) PROVE Quiet(s)
<1> DEFINE x == sess[s]
<1>1. x \in Session /\ x.pc \in Running /\ Put(s, [x EXCEPT !.pc = "code"])
  BY Stages DEF SessionsTypeOK, FirstCloses
<1>2. Same([x EXCEPT !.pc = "code"], x)
  BY <1>1, Moved, Stages
<1> QED BY <1>1, <1>2, QuietSame

LEMMA BeatReadQuiet == ASSUME SessionsTypeOK, NEW s \in Sess, BeatRead(s) PROVE Quiet(s)
<1> DEFINE x == sess[s]
           B == {[shown |-> x.shown, failed |-> x.failed]}
<1>1. x \in Session /\ x.pc \in Running /\ Put(s, [x EXCEPT !.beat = B])
  BY Stages DEF SessionsTypeOK, BeatRead
<1>4. x.shown \in BOOLEAN /\ x.failed \in BOOLEAN
  BY <1>1, Fields, Zenon
<1>2. B \in SUBSET [shown : BOOLEAN, failed : BOOLEAN]
  BY <1>4
<1> HIDE DEF B
<1>3. Same([x EXCEPT !.beat = B], x)
  BY <1>1, <1>2, Marked DEF SameStage
<1> QED BY <1>1, <1>3, QuietSame

LEMMA BeatWriteQuiet == ASSUME SessionsTypeOK, NEW s \in Sess, BeatWrite(s) PROVE Quiet(s)
<1> DEFINE x == sess[s]
<1>1. x \in Session
  BY DEF SessionsTypeOK
<1>2. PICK b \in x.beat : Put(s, [SetStatus(x, b.shown, b.failed) EXCEPT !.beat = {}])
  BY DEF BeatWrite
<1>3. b \in [shown : BOOLEAN, failed : BOOLEAN]
  BY <1>1, Fields, Zenon
<1>4. b.shown \in BOOLEAN /\ b.failed \in BOOLEAN
  BY <1>3
<1> DEFINE y == SetStatus(x, b.shown, b.failed)
<1>5. y \in Session /\ y.pc = x.pc /\ y.cancelled = x.cancelled
  BY <1>1, <1>4, SetStatusType
<1>6. SameStage([y EXCEPT !.beat = {}], y)
  <2> HIDE DEF y
  <2> QED BY <1>5, Marked
<1> QED BY <1>2, <1>5, <1>6, QuietPut DEF SameStage, Same, Live

LEMMA EvConnectedQuiet == ASSUME SessionsTypeOK, NEW s \in Sess, EvConnected(s) PROVE Quiet(s)
<1> DEFINE x == sess[s]
<1>1. x \in Session /\ x.pc \in Running /\ Put(s, SetStatus(x, x.device # 0, FALSE))
  BY Stages DEF SessionsTypeOK, EvConnected, Hooked
<1>2. (x.device # 0) \in BOOLEAN
  OBVIOUS
<1>3. SetStatus(x, x.device # 0, FALSE) \in Session
  BY <1>1, <1>2, SetStatusType
<1> QED BY <1>1, <1>2, <1>3, QuietStatus DEF Same

LEMMA EvPairSuccessQuiet ==
  ASSUME SessionsTypeOK, NEW s \in Sess, EvPairSuccess(s) PROVE Quiet(s) /\ pairs' \in Dev
<1> DEFINE x == sess[s]
           y == SetStatus(x, TRUE, FALSE)
           k == mapping' = pairs'
<1>1. x \in Session /\ x.pc \in Running /\ y \in Session
  BY Stages, SetStatusType DEF SessionsTypeOK, EvPairSuccess, Hooked
<1>2. pairs' \in Dev
  BY Bounds DEF SessionsTypeOK, EvPairSuccess, Dev
<1>3. Put(s, [y EXCEPT !.device = pairs', !.kept = k]) /\ k \in BOOLEAN
  BY DEF EvPairSuccess
<1>4. Same([y EXCEPT !.device = pairs', !.kept = k], y)
  <2> HIDE DEF y, k
  <2> QED BY <1>1, <1>2, <1>3, Marked DEF SameStage
<1> QED BY <1>1, <1>2, <1>3, <1>4, QuietStatus

LEMMA EvDisconnectedQuiet == ASSUME SessionsTypeOK, NEW s \in Sess, EvDisconnected(s) PROVE Quiet(s)
<1> DEFINE y == SetStatus(sess[s], FALSE, FALSE)
<1>1. sess[s] \in Session /\ sess[s].pc \in Running /\ y \in Session
  BY Stages, SetStatusType DEF SessionsTypeOK, EvDisconnected, Hooked
<1>2. Put(s, [y EXCEPT !.disc = TRUE])
  BY DEF EvDisconnected
<1>3. Same([y EXCEPT !.disc = TRUE], y)
  <2> HIDE DEF y
  <2> QED BY <1>1, Marked DEF SameStage
<1> QED BY <1>1, <1>2, <1>3, QuietStatus

LEMMA EvLoggedOutQuiet == ASSUME SessionsTypeOK, NEW s \in Sess, EvLoggedOut(s) PROVE Quiet(s)
<1> DEFINE y == SetStatus(sess[s], FALSE, FALSE)
<1>1. sess[s] \in Session /\ sess[s].pc \in Running /\ y \in Session
  BY Stages, SetStatusType DEF SessionsTypeOK, EvLoggedOut, Hooked
<1>2. Put(s, [y EXCEPT !.disc = TRUE, !.device = 0])
  BY DEF EvLoggedOut
<1>3. Same([y EXCEPT !.disc = TRUE, !.device = 0], y)
  <2> HIDE DEF y
  <2> QED BY <1>1, Marked DEF SameStage
<1> QED BY <1>1, <1>2, <1>3, QuietStatus

LEMMA TripType == ASSUME SessionsTypeOK, Trip PROVE trips' \in 0..MaxTrips
BY Bounds DEF SessionsTypeOK, Trip

LEMMA UnlockedType ==
  ASSUME SessionsTypeOK, NEW S PROVE Unlocked(S) \in Proc \cup Sess \cup {NoOne}
BY DEF SessionsTypeOK, Unlocked

LEMMA QuietType == ASSUME SessionsTypeOK, NEW s \in Sess, Quiet(s) PROVE sess' \in [Sess -> Session]
BY DEF SessionsTypeOK, Quiet

(* Nobody else comes to life.                                               *)
LEMMA QuietLive ==
  ASSUME SessionsTypeOK, NEW s \in Sess, Quiet(s) PROVE \A t \in Sess : Live(t)' => Live(t)
<1>1. PICK x \in Session : /\ sess' = [sess EXCEPT ![s] = x]
                           /\ x.pc \in Running /\ ~x.cancelled => Live(s)
  BY DEF Quiet
<1>2. sess'[s] = x /\ \A t \in Sess \ {s} : sess'[t] = sess[t]
  BY <1>1 DEF SessionsTypeOK
<1> QED BY <1>1, <1>2 DEF Live

(* The lock stays, or is given up by a session that ends or is astray.      *)
LEMMA KeepLock ==
  ASSUME SessionsTypeOK, LockInv, \A t \in Sess : Live(t)' => Live(t),
         stray \subseteq stray', lock' = lock,
         \A p \in Proc : req'[p].pc \in Starting => req[p].pc \in Starting
  PROVE  LockInv'
BY DEF LockInv, LiveOwnsLock, StarterOwnsLock

LEMMA GiveUpLock ==
  ASSUME SessionsTypeOK, LockInv, \A t \in Sess : Live(t)' => Live(t), stray \subseteq stray',
         NEW s \in Sess, lock' = Unlocked({s}), ~Live(s)' \/ s \in stray',
         \A p \in Proc : req'[p].pc \in Starting => req[p].pc \in Starting
  PROVE  LockInv'
<1>1. CASE lock = s
  BY <1>1, Apart DEF LockInv, LiveOwnsLock, StarterOwnsLock, Unlocked
<1>2. CASE lock # s
  <2>1. lock' = lock
    BY <1>2 DEF Unlocked
  <2> QED BY <2>1, KeepLock
<1> QED BY <1>1, <1>2

(* The steps of a session that touch nothing but the session and trips.     *)
LEMMA InsideKeeps ==
  ASSUME SessionsTypeOK, LockInv, NEW s \in Sess, Quiet(s), trips' \in 0..MaxTrips,
         UNCHANGED <<reg, lock, req, removers, up, deviceVars, countVars, stray>>
  PROVE  SessionsTypeOK' /\ LockInv'
<1>1. SessionsTypeOK'
  BY QuietType DEF SessionsTypeOK, deviceVars, countVars
<1>2. LockInv'
  BY QuietLive, KeepLock
<1> QED BY <1>1, <1>2

LEMMA StepKeeps ==
  ASSUME SessionsTypeOK, LockInv, NEW s \in Sess, Step(s) \/ WindowCloses(s)
  PROVE  SessionsTypeOK' /\ LockInv'
<1>1. trips \in 0..MaxTrips
  BY DEF SessionsTypeOK
<1>2. CASE Top(s)
  BY <1>1, <1>2, TopQuiet, InsideKeeps DEF Top
<1>3. CASE Dial(s)
  BY <1>1, <1>3, DialQuiet, InsideKeeps DEF Dial
<1>4. CASE FirstQR(s)
  BY <1>1, <1>4, FirstQRQuiet, InsideKeeps DEF FirstQR
<1>5. CASE Wake(s)
  BY <1>1, <1>5, WakeQuiet, InsideKeeps DEF Wake
<1>6. CASE ReviewMode(s)
  BY <1>1, <1>6, ReviewModeQuiet, InsideKeeps DEF ReviewMode
<1>7. CASE WindowCloses(s)
  BY <1>1, <1>7, WindowClosesQuiet, InsideKeeps DEF WindowCloses
<1>8. CASE Leave(s)
  BY <1>1, <1>8, LeaveQuiet, InsideKeeps DEF Leave
<1>9. CASE Exit(s)
  <2>1. SessionsTypeOK'
    BY <1>9, ExitQuiet, QuietType, UnlockedType DEF Exit, SessionsTypeOK, deviceVars, countVars
  <2>2. ~Live(s)'
    BY <1>9 DEF Exit, Put, SessionsTypeOK, Live, Running, Waiting, Session
  <2> QED BY <1>9, <2>1, <2>2, ExitQuiet, QuietLive, GiveUpLock DEF Exit
<1> QED BY <1>2, <1>3, <1>4, <1>5, <1>6, <1>7, <1>8, <1>9 DEF Step

LEMMA MishapKeeps ==
  ASSUME SessionsTypeOK, LockInv, NEW s \in Sess, DialFails(s) \/ FirstCloses(s) \/ Panic(s)
  PROVE  SessionsTypeOK' /\ LockInv'
<1>1. trips' \in 0..MaxTrips
  BY TripType DEF DialFails, FirstCloses, Panic
<1>2. CASE DialFails(s)
  BY <1>1, <1>2, DialFailsQuiet, InsideKeeps DEF DialFails
<1>3. CASE FirstCloses(s)
  BY <1>1, <1>3, FirstClosesQuiet, InsideKeeps DEF FirstCloses
<1>4. CASE Panic(s)
  <2>1. stray \subseteq stray' /\ stray' \subseteq Sess
    BY <1>4 DEF Panic, SessionsTypeOK
  <2>2. SessionsTypeOK'
    BY <1>1, <1>4, <2>1, PanicQuiet, QuietType, UnlockedType
    DEF Panic, SessionsTypeOK, deviceVars, countVars
  <2>3. ~Live(s)' \/ s \in stray'
    <3>1. CASE ~sess[s].cancelled
      BY <1>4, <3>1 DEF Panic
    <3>2. CASE sess[s].cancelled
      <4>1. ~Live(s)
        BY <3>2 DEF Live
      <4> QED BY <1>4, <4>1, PanicQuiet, QuietLive
    <3> QED BY <3>1, <3>2
  <2> QED BY <1>4, <2>1, <2>2, <2>3, PanicQuiet, QuietLive, GiveUpLock DEF Panic
<1> QED BY <1>2, <1>3, <1>4

LEMMA EventKeeps ==
  ASSUME SessionsTypeOK, LockInv, NEW s \in Sess, BeatRead(s) \/ BeatWrite(s) \/ Event(s)
  PROVE  SessionsTypeOK' /\ LockInv'
<1>1. trips \in 0..MaxTrips
  BY DEF SessionsTypeOK
<1>2. CASE BeatRead(s)
  BY <1>1, <1>2, BeatReadQuiet, InsideKeeps DEF BeatRead
<1>3. CASE BeatWrite(s)
  BY <1>1, <1>3, BeatWriteQuiet, InsideKeeps DEF BeatWrite
<1>4. CASE EvConnected(s)
  BY <1>1, <1>4, EvConnectedQuiet, InsideKeeps DEF EvConnected
<1>5. CASE EvDisconnected(s)
  BY <1>5, TripType, EvDisconnectedQuiet, InsideKeeps DEF EvDisconnected
<1>6. CASE EvPairSuccess(s)
  <2>1. Quiet(s) /\ pairs' \in Dev
    BY <1>6, EvPairSuccessQuiet
  <2>2. pairs' \in 0..MaxPairs /\ mapping' \in Dev \cup {0} /\ stored' \subseteq Dev
    BY <1>6, <2>1, Bounds DEF EvPairSuccess, SessionsTypeOK, Dev
  <2>3. trips' \in 0..MaxTrips /\ overtaken' \in BOOLEAN
    BY <1>1, <1>6, TripType DEF EvPairSuccess
  <2>4. UNCHANGED <<reg, lock, req, removers, up, countVars, stray>>
    BY <1>6 DEF EvPairSuccess
  <2>5. SessionsTypeOK'
    BY <2>1, <2>2, <2>3, <2>4, QuietType DEF SessionsTypeOK, countVars
  <2> QED BY <2>1, <2>4, <2>5, QuietLive, KeepLock
<1>7. CASE EvLoggedOut(s)
  <2>1. Quiet(s) /\ trips' \in 0..MaxTrips /\ overtaken' \in BOOLEAN
    BY <1>7, EvLoggedOutQuiet, TripType DEF EvLoggedOut
  <2>2. mapping' \in Dev \cup {0} /\ stored' \subseteq Dev
    BY <1>7 DEF EvLoggedOut, SessionsTypeOK
  <2>4. UNCHANGED <<reg, lock, req, removers, up, pairs, countVars, stray>>
    BY <1>7 DEF EvLoggedOut
  <2>5. SessionsTypeOK'
    BY <2>1, <2>2, <2>4, QuietType DEF SessionsTypeOK, countVars
  <2> QED BY <2>1, <2>4, <2>5, QuietLive, KeepLock
<1> QED BY <1>2, <1>3, <1>4, <1>5, <1>6, <1>7 DEF Event
-----------------------------------------------------------------------------
(* Requests *)

Stage == {"idle", "discard", "retire", "find", "acquire", "load", "install", "poll",
          "look", "unlink", "unmap", "close", "remove", "erase"}
NoStart == \A q \in Proc : req'[q].pc \in Starting => req[q].pc \in Starting
ReqKept == req' \in [Proc -> Request] /\ AtWork'

LEMMA ReqPut ==
  ASSUME SessionsTypeOK, AtWork, NEW p \in Proc, NEW v \in Request,
         req' = [req EXCEPT ![p] = v],
         v.pc # "idle" => v.inst \in Instance, v.pc \in Aimed => v.target \in Sess
  PROVE  /\ ReqKept
         /\ v.pc \notin Starting => NoStart
         /\ req'[p] = v /\ \A q \in Proc \ {p} : req'[q] = req[q]
<1>1. req'[p] = v /\ \A q \in Proc \ {p} : req'[q] = req[q]
  BY DEF SessionsTypeOK
<1>2. req' \in [Proc -> Request]
  BY DEF SessionsTypeOK
<1>3. AtWork'
  BY <1>1 DEF AtWork
<1> QED BY <1>1, <1>2, <1>3 DEF ReqKept, NoStart

LEMMA GotoReq ==
  ASSUME SessionsTypeOK, AtWork, NEW p \in Proc, NEW c \in Stage, Goto(p, c),
         req[p].pc # "idle", c \in Aimed => req[p].target \in Sess
  PROVE  /\ ReqKept
         /\ c \notin Starting => NoStart
         /\ req'[p].pc = c /\ \A q \in Proc \ {p} : req'[q] = req[q]
<1> DEFINE v == [req[p] EXCEPT !.pc = c]
<1>1. req[p] \in Request /\ req[p].inst \in Instance
  BY DEF SessionsTypeOK, AtWork
<1>2. v \in Request /\ v.pc = c /\ v.inst = req[p].inst /\ v.target = req[p].target
  BY <1>1 DEF Request, Stage
<1>3. req' = [req EXCEPT ![p] = v]
  BY DEF Goto
<1> HIDE DEF v
<1> QED BY <1>1, <1>2, <1>3, ReqPut

LEMMA DoneReq ==
  ASSUME SessionsTypeOK, AtWork, NEW p \in Proc, Done(p)
  PROVE  ReqKept /\ NoStart /\ req'[p].pc = "idle" /\ \A q \in Proc \ {p} : req'[q] = req[q]
<1>1. NoReq \in Request /\ NoReq.pc = "idle" /\ NoReq.pc \notin Starting /\ NoReq.pc \notin Aimed
  BY NoReqType DEF Starting, Aimed
<1>2. req' = [req EXCEPT ![p] = NoReq]
  BY DEF Done
<1> QED BY <1>1, <1>2, ReqPut

LEMMA RefusedReq ==
  ASSUME SessionsTypeOK, AtWork, NEW p \in Proc, Refused(p), req[p].pc # "idle"
  PROVE  /\ ReqKept /\ NoStart
         /\ req'[p].pc \notin Starting /\ \A q \in Proc \ {p} : req'[q] = req[q]
<1>1. CASE req[p].kind = "restore"
  <2>1. Goto(p, "poll") /\ "poll" \in Stage /\ "poll" \notin Aimed /\ "poll" \notin Starting
    BY <1>1 DEF Refused, Stage, Aimed, Starting
  <2> QED BY <2>1, GotoReq
<1>2. CASE req[p].kind # "restore"
  <2>1. Done(p)
    BY <1>2 DEF Refused
  <2> QED BY <2>1, DoneReq DEF Starting
<1> QED BY <1>1, <1>2

(* Steps that leave the sessions and the lock alone.                        *)
LEMMA ReqKeeps ==
  ASSUME SessionsTypeOK, LockInv, ReqKept, NoStart, UNCHANGED <<sess, lock, stray>>
  PROVE  LockInv'
<1>1. \A t \in Sess : Live(t)' => Live(t)
  BY DEF Live
<1> QED BY <1>1, KeepLock DEF NoStart

LEMMA BeginKeeps ==
  ASSUME SessionsTypeOK, LockInv, AtWork,
         NEW r \in Req, NEW i \in Instance, NEW k \in Kinds, Begin(r, i, k)
  PROVE  SessionsTypeOK' /\ LockInv' /\ AtWork'
<1> DEFINE v == [NoReq EXCEPT !.pc = FirstStep[k], !.kind = k, !.inst = i]
<1>1. FirstStep[k] \in {"find", "discard", "look"}
  BY SessionsAssumption DEF FirstStep
<1>2. v \in Request /\ v.pc = FirstStep[k] /\ v.inst = i
  BY <1>1, NoReqType DEF NoReq, Request
<1>3. req' = [req EXCEPT ![r] = v]
  BY DEF Begin
<1>4. v.pc \notin Aimed /\ v.pc \notin Starting
  BY <1>1, <1>2 DEF Aimed, Starting
<1> HIDE DEF v
<1>5. ReqKept /\ NoStart
  BY <1>2, <1>3, <1>4, Apart, ReqPut
<1>6. requests' \in 0..MaxRequests
  BY Bounds DEF Begin, SessionsTypeOK
<1>7. UNCHANGED <<sess, reg, lock, removers, up, deviceVars, boots, trips, stray>>
  BY DEF Begin
<1>8. SessionsTypeOK'
  BY <1>5, <1>6, <1>7 DEF SessionsTypeOK, ReqKept, deviceVars
<1> QED BY <1>5, <1>7, <1>8, ReqKeeps DEF ReqKept

LEMMA PollKeeps ==
  ASSUME SessionsTypeOK, LockInv, AtWork, NEW i \in Instance, Poll(i)
  PROVE  SessionsTypeOK' /\ LockInv' /\ AtWork'
<1>1. "find" \in Stage /\ "find" \notin Aimed /\ "find" \notin Starting
  BY DEF Stage, Aimed, Starting
<1>2. ReqKept /\ NoStart
  BY <1>1, Apart, GotoReq, DoneReq DEF Poll
<1>3. UNCHANGED <<sess, reg, lock, removers, up, deviceVars, countVars, trips, stray>>
  BY DEF Poll
<1>4. SessionsTypeOK'
  BY <1>2, <1>3 DEF SessionsTypeOK, ReqKept, deviceVars, countVars
<1> QED BY <1>2, <1>3, <1>4, ReqKeeps DEF ReqKept
LEMMA DiscardKeeps ==
  ASSUME SessionsTypeOK, LockInv, AtWork, NEW p \in Proc, Discard(p)
  PROVE  SessionsTypeOK' /\ LockInv' /\ AtWork'
<1> DEFINE i == req[p].inst
           s == reg[i]
           c == IF s = 0 THEN "find" ELSE "retire"
           v == [req[p] EXCEPT !.target = s, !.pc = c]
<1>1. req[p] \in Request /\ i \in Instance /\ s \in Sess \cup {0}
  BY DEF Discard, SessionsTypeOK, AtWork
<1>2. c \in {"find", "retire"} /\ (c \in Aimed => s \in Sess)
  BY <1>1 DEF Aimed
<1>3. v \in Request /\ v.pc = c /\ v.inst = i /\ v.target = s
  <2> HIDE DEF s, c
  <2> QED BY <1>1, <1>2 DEF Request
<1>4. req' = [req EXCEPT ![p] = v]
  BY DEF Discard
<1>5. v.pc \notin Starting
  BY <1>2, <1>3 DEF Starting
<1>6. ReqKept /\ NoStart
  <2> HIDE DEF v, c, s
  <2> QED BY <1>1, <1>2, <1>3, <1>4, <1>5, ReqPut
<1>7. reg' \in [Instance -> Sess \cup {0}]
  BY DEF Discard, SessionsTypeOK
<1>8. UNCHANGED <<sess, lock, removers, up, deviceVars, countVars, trips, stray>>
  BY DEF Discard
<1>9. SessionsTypeOK'
  BY <1>6, <1>7, <1>8 DEF SessionsTypeOK, ReqKept, deviceVars, countVars
<1> QED BY <1>6, <1>8, <1>9, ReqKeeps DEF ReqKept

(* Cancelling a session.                                                    *)
LEMMA CancelQuiet ==
  ASSUME SessionsTypeOK, NEW s \in Sess, Put(s, Cancelled(sess[s]))
  PROVE  Quiet(s) /\ ~Live(s)'
<1>1. Cancelled(sess[s]) \in Session /\ Cancelled(sess[s]).cancelled
  BY Stopped DEF SessionsTypeOK
<1>2. sess'[s] = Cancelled(sess[s])
  BY DEF Put, SessionsTypeOK
<1> QED BY <1>1, <1>2, QuietPut DEF Live

LEMMA RetireKeeps ==
  ASSUME SessionsTypeOK, LockInv, AtWork, NEW p \in Proc, Retire(p)
  PROVE  SessionsTypeOK' /\ LockInv' /\ AtWork'
<1>1. PICK s \in Sess : s = req[p].target /\ req[p].pc = "retire"
  BY DEF Retire, AtWork, Aimed
<1>2. "find" \in Stage /\ "find" \notin Aimed /\ "find" \notin Starting
  BY DEF Stage, Aimed, Starting
<1>3. ReqKept /\ NoStart
  BY <1>1, <1>2, GotoReq DEF Retire
<1>4. UNCHANGED <<reg, removers, up, deviceVars, countVars, trips, stray>>
  BY DEF Retire
<1>5. CASE sess[s].failed
  <2>1. Quiet(s) /\ ~Live(s)' /\ lock' = Unlocked({s})
    BY <1>1, <1>5, CancelQuiet DEF Retire
  <2>2. SessionsTypeOK'
    BY <1>1, <1>3, <1>4, <2>1, QuietType, UnlockedType
    DEF SessionsTypeOK, ReqKept, deviceVars, countVars
  <2> QED BY <1>1, <1>3, <1>4, <2>1, <2>2, QuietLive, GiveUpLock DEF ReqKept, NoStart
<1>6. CASE ~sess[s].failed
  <2>1. UNCHANGED <<sess, lock>>
    BY <1>1, <1>6 DEF Retire
  <2>2. SessionsTypeOK'
    BY <1>3, <1>4, <2>1 DEF SessionsTypeOK, ReqKept, deviceVars, countVars
  <2> QED BY <1>3, <1>4, <2>1, <2>2, ReqKeeps DEF ReqKept
<1> QED BY <1>5, <1>6

(* Asking a session for a pairing.                                          *)
LEMMA AskQuiet ==
  ASSUME SessionsTypeOK, NEW s \in Sess, NEW k, Put(s, RequestPairing(sess[s], k))
  PROVE  Quiet(s)
<1>1. sess[s] \in Session
  BY DEF SessionsTypeOK
<1> QED BY <1>1, RequestPairingType, QuietPut DEF Live

LEMMA FindKeeps ==
  ASSUME SessionsTypeOK, LockInv, AtWork, NEW p \in Proc, Find(p)
  PROVE  SessionsTypeOK' /\ LockInv' /\ AtWork'
<1> DEFINE s == reg[req[p].inst]
<1>1. s \in Sess \cup {0} /\ req[p].pc = "find"
  BY DEF Find, SessionsTypeOK, AtWork
<1>2. UNCHANGED <<reg, lock, removers, up, deviceVars, countVars, trips, stray>>
  BY DEF Find
<1>3. CASE s # 0
  <2>1. Quiet(s) /\ ReqKept /\ NoStart
    BY <1>1, <1>3, AskQuiet, DoneReq DEF Find
  <2>2. SessionsTypeOK'
    BY <1>1, <1>2, <1>3, <2>1, QuietType DEF SessionsTypeOK, ReqKept, deviceVars, countVars
  <2> QED BY <1>1, <1>2, <1>3, <2>1, <2>2, QuietLive, KeepLock DEF ReqKept, NoStart
<1>4. CASE s = 0
  <2>1. "acquire" \in Stage /\ "acquire" \notin Aimed /\ "acquire" \notin Starting
    BY DEF Stage, Aimed, Starting
  <2>2. UNCHANGED sess /\ ReqKept /\ NoStart
    BY <1>1, <1>4, <2>1, GotoReq DEF Find
  <2>3. SessionsTypeOK'
    BY <1>2, <2>2 DEF SessionsTypeOK, ReqKept, deviceVars, countVars
  <2> QED BY <1>2, <2>2, <2>3, ReqKeeps DEF ReqKept
<1> QED BY <1>3, <1>4

LEMMA AcquireKeeps ==
  ASSUME SessionsTypeOK, LockInv, AtWork, NEW p \in Proc, Acquire(p)
  PROVE  SessionsTypeOK' /\ LockInv' /\ AtWork'
<1>1. req[p].pc = "acquire" /\ UNCHANGED <<sess, reg, removers, up, deviceVars, countVars, trips, stray>>
  BY DEF Acquire
<1>2. CASE lock = NoOne
  <2>1. "load" \in Stage /\ "load" \notin Aimed
    BY DEF Stage, Aimed
  <2>2. lock' = p /\ ReqKept /\ \A q \in Proc \ {p} : req'[q] = req[q]
    BY <1>1, <1>2, <2>1, GotoReq DEF Acquire
  <2>3. SessionsTypeOK'
    BY <1>1, <2>2 DEF SessionsTypeOK, ReqKept, deviceVars, countVars
  <2>4. LiveOwnsLock'
    BY <1>1, <1>2, Apart DEF LockInv, LiveOwnsLock, Live
  <2>5. StarterOwnsLock'
    BY <1>2, <2>2, Apart DEF LockInv, StarterOwnsLock
  <2> QED BY <2>2, <2>3, <2>4, <2>5 DEF LockInv, ReqKept
<1>3. CASE lock # NoOne
  <2>1. UNCHANGED lock /\ ReqKept /\ NoStart
    BY <1>1, <1>3, RefusedReq DEF Acquire
  <2>2. SessionsTypeOK'
    BY <1>1, <2>1 DEF SessionsTypeOK, ReqKept, deviceVars, countVars
  <2> QED BY <1>1, <2>1, <2>2, ReqKeeps DEF ReqKept
<1> QED BY <1>2, <1>3

(* Whoever is starting gives the lock back: nobody else needed it.          *)
LEMMA StarterLetsGo ==
  ASSUME SessionsTypeOK, LockInv, NEW p \in Proc, req[p].pc \in Starting,
         \A t \in Sess : Live(t)' => Live(t), stray \subseteq stray', lock' = NoOne,
         req'[p].pc \notin Starting, \A q \in Proc \ {p} : req'[q] = req[q]
  PROVE  LockInv'
<1>1. lock = p
  BY DEF LockInv, StarterOwnsLock
<1>2. LiveOwnsLock'
  BY <1>1, Apart DEF LockInv, LiveOwnsLock
<1>3. StarterOwnsLock'
  BY <1>1 DEF LockInv, StarterOwnsLock
<1> QED BY <1>2, <1>3 DEF LockInv

LEMMA LoadKeeps ==
  ASSUME SessionsTypeOK, LockInv, AtWork, NEW p \in Proc, Load(p)
  PROVE  SessionsTypeOK' /\ LockInv' /\ AtWork'
<1>1. /\ req[p].pc = "load" /\ req[p].pc \in Starting /\ req[p] \in Request
      /\ req[p].inst \in Instance
      /\ UNCHANGED <<sess, reg, removers, up, deviceVars, countVars, stray>>
  BY DEF Load, Starting, SessionsTypeOK, AtWork
<1>2. \A t \in Sess : Live(t)' => Live(t)
  BY <1>1 DEF Live
<1>3. CASE UNCHANGED <<lock, trips>> /\
           req' = [req EXCEPT ![p].pc = "install", ![p].dev = IF mapping \in stored THEN mapping ELSE 0]
  <2> DEFINE d == IF mapping \in stored THEN mapping ELSE 0
             v == [req[p] EXCEPT !.pc = "install", !.dev = d]
  <2>1. d \in Dev \cup {0}
    BY DEF SessionsTypeOK
  <2>2. v \in Request /\ v.pc = "install" /\ v.inst = req[p].inst
    <3> HIDE DEF d
    <3> QED BY <1>1, <2>1 DEF Request
  <2>3. req' = [req EXCEPT ![p] = v] /\ v.pc \notin Aimed
    BY <1>3, <2>2 DEF Aimed
  <2>4. ReqKept /\ \A q \in Proc \ {p} : req'[q] = req[q]
    <3> HIDE DEF v
    <3> QED BY <1>1, <2>2, <2>3, ReqPut
  <2>5. NoStart
    BY <1>1, <2>4 DEF NoStart
  <2>6. SessionsTypeOK'
    BY <1>1, <1>3, <2>4 DEF SessionsTypeOK, ReqKept, deviceVars, countVars
  <2> QED BY <1>1, <1>3, <2>4, <2>5, <2>6, ReqKeeps DEF ReqKept
<1>4. CASE lock' = NoOne /\ Refused(p) /\ Trip
  <2>1. ReqKept /\ req'[p].pc \notin Starting /\ \A q \in Proc \ {p} : req'[q] = req[q]
    BY <1>1, <1>4, RefusedReq
  <2>2. SessionsTypeOK'
    BY <1>1, <1>4, <2>1, TripType DEF SessionsTypeOK, ReqKept, deviceVars, countVars
  <2> QED BY <1>1, <1>2, <1>4, <2>1, <2>2, StarterLetsGo DEF ReqKept
<1> QED BY <1>3, <1>4 DEF Load

(* A session is born: whoever bore it held the lock, or the lock was free.  *)
LEMMA BirthKeeps ==
  ASSUME SessionsTypeOK, LockInv, NEW s \in Sess, sess[s].pc = "unborn",
         NEW y \in Session, Put(s, y), lock' = s, UNCHANGED stray,
         \A t \in Sess \ stray : Live(t) => FALSE,
         \A q \in Proc : req'[q].pc \notin Starting
  PROVE  LockInv'
<1>1. \A t \in Sess \ {s} : sess'[t] = sess[t]
  BY DEF Put, SessionsTypeOK
<1> QED BY <1>1 DEF LockInv, LiveOwnsLock, StarterOwnsLock, Live

LEMMA InstallKeeps ==
  ASSUME SessionsTypeOK, LockInv, AtWork, NEW p \in Proc, Install(p)
  PROVE  SessionsTypeOK' /\ LockInv' /\ AtWork'
<1> DEFINE i == req[p].inst
           e == reg[i]
<1>1. /\ req[p].pc = "install" /\ req[p].pc \in Starting /\ i \in Instance
      /\ e \in Sess \cup {0} /\ req[p].dev \in Dev \cup {0}
      /\ Done(p) /\ UNCHANGED <<removers, up, deviceVars, countVars, trips, stray>>
  BY DEF Install, Starting, SessionsTypeOK, AtWork, Request
<1>2. ReqKept /\ req'[p].pc \notin Starting /\ \A q \in Proc \ {p} : req'[q] = req[q]
  BY <1>1, DoneReq DEF Starting
<1>3. CASE e # 0 /\ Put(e, RequestPairing(sess[e], req[p].kind)) /\ lock' = NoOne /\ UNCHANGED reg
  <2>1. Quiet(e) /\ e \in Sess
    BY <1>1, <1>3, AskQuiet
  <2>2. SessionsTypeOK'
    BY <1>1, <1>2, <1>3, <2>1, QuietType DEF SessionsTypeOK, ReqKept, deviceVars, countVars
  <2> QED BY <1>1, <1>2, <1>3, <2>1, <2>2, QuietLive, StarterLetsGo DEF ReqKept
<1>4. CASE e = 0 /\ \E s \in Sess : /\ IsNext(s)
                                    /\ Put(s, RequestPairing(Born(i, req[p].dev), req[p].kind))
                                    /\ reg' = [reg EXCEPT ![i] = s]
                                    /\ lock' = s
  <2>1. PICK s \in Sess : /\ IsNext(s)
                          /\ Put(s, RequestPairing(Born(i, req[p].dev), req[p].kind))
                          /\ reg' = [reg EXCEPT ![i] = s]
                          /\ lock' = s
    BY <1>4
  <2>2. Born(i, req[p].dev) \in Session
    <3>1. ASSUME NEW d \in Dev \cup {0}, NEW b \in BOOLEAN
          PROVE  [Unborn EXCEPT !.pc = "top", !.inst = i, !.device = d, !.kept = b] \in Session
      BY <1>1, Stages, UnbornType DEF Session
    <3> QED BY <1>1, <3>1 DEF Born
  <2>3. RequestPairing(Born(i, req[p].dev), req[p].kind) \in Session
    BY <2>2, RequestPairingType
  <2>4. sess' \in [Sess -> Session] /\ reg' \in [Instance -> Sess \cup {0}]
    BY <2>1, <2>3 DEF Put, SessionsTypeOK
  <2>5. SessionsTypeOK'
    BY <1>1, <1>2, <2>1, <2>4 DEF SessionsTypeOK, ReqKept, deviceVars, countVars
  <2>6. lock = p
    BY <1>1 DEF LockInv, StarterOwnsLock
  <2>7. \A t \in Sess \ stray : Live(t) => FALSE
    BY <2>6, Apart DEF LockInv, LiveOwnsLock
  <2>8. \A q \in Proc : req'[q].pc \notin Starting
    BY <1>2, <2>6 DEF LockInv, StarterOwnsLock
  <2> QED BY <1>1, <1>2, <2>1, <2>3, <2>5, <2>7, <2>8, BirthKeeps DEF IsNext, ReqKept
<1> QED BY <1>3, <1>4 DEF Install
LEMMA LookKeeps ==
  ASSUME SessionsTypeOK, LockInv, AtWork, NEW r \in Proc, Look(r)
  PROVE  SessionsTypeOK' /\ LockInv' /\ AtWork'
<1>1. PICK i \in Instance : i = req[r].inst /\ req[r].pc = "look" /\ req[r] \in Request
  BY DEF Look, SessionsTypeOK, AtWork
<1>2. PICK s \in Sess \cup {0} : s = reg[i]
  BY DEF SessionsTypeOK
<1>3. UNCHANGED <<reg, lock, up, deviceVars, countVars, trips, stray>>
  BY DEF Look
<1>4. removers' \in [Instance -> Nat]
  BY <1>1 DEF Look, SessionsTypeOK
<1>5. sess' \in [Sess -> Session] /\ \A t \in Sess : Live(t)' => Live(t)
  <2>1. CASE s # 0
    <3>1. s \in Sess /\ sess[s] \in Session
      BY <1>2, <2>1 DEF SessionsTypeOK
    <3>2. CASE req[r].kind = "reset"
      <4> DEFINE y == SetStatus(sess[s], FALSE, FALSE)
                 z == [y EXCEPT !.resetting = TRUE, !.mode = ""]
      <4>1. Put(s, z)
        BY <1>1, <1>2, <2>1, <3>2 DEF Look
      <4>2. y \in Session /\ y.pc = sess[s].pc /\ y.cancelled = sess[s].cancelled
        BY <3>1, SetStatusType
      <4>3. SameStage(z, y)
        <5> HIDE DEF y
        <5> QED BY <4>2, Marked
      <4>4. z \in Session /\ z.pc = sess[s].pc /\ z.cancelled = sess[s].cancelled
        BY <4>2, <4>3 DEF SameStage, Same
      <4>5. Quiet(s)
        <5> HIDE DEF z
        <5> QED BY <3>1, <4>1, <4>4, QuietPut DEF Live
      <4> QED BY <3>1, <4>5, QuietType, QuietLive
    <3>3. CASE req[r].kind # "reset"
      <4>1. Put(s, Cancelled(sess[s]))
        BY <1>1, <1>2, <2>1, <3>3 DEF Look
      <4> QED BY <3>1, <4>1, CancelQuiet, QuietType, QuietLive
    <3> QED BY <3>2, <3>3
  <2>2. CASE s = 0
    <3>1. UNCHANGED sess
      BY <1>1, <1>2, <2>2 DEF Look
    <3> QED BY <3>1 DEF SessionsTypeOK, Live
  <2> QED BY <2>1, <2>2
<1>6. ReqKept /\ NoStart
  <2>1. CASE req[r].kind = "disconnect"
    BY <1>1, <1>2, <2>1, DoneReq DEF Look, Done
  <2>2. CASE req[r].kind # "disconnect" /\ s # 0
    <3> DEFINE v == [req[r] EXCEPT !.pc = "unlink", !.target = s]
    <3>1. req' = [req EXCEPT ![r] = v]
      BY <1>1, <1>2, <2>2 DEF Look
    <3>2. v \in Request /\ v.inst = i /\ v.target = s /\ v.pc = "unlink"
      BY <1>1 DEF Request
    <3>3. v.pc \notin Starting /\ s \in Sess
      BY <1>2, <2>2, <3>2 DEF Starting
    <3> HIDE DEF v
    <3> QED BY <3>1, <3>2, <3>3, ReqPut
  <2>3. CASE req[r].kind # "disconnect" /\ s = 0
    <3> DEFINE d == IF mapping \in stored THEN mapping ELSE 0
               v == [req[r] EXCEPT !.pc = "erase", !.dev = d]
    <3>1. req' = [req EXCEPT ![r] = v]
      BY <1>1, <1>2, <2>3 DEF Look
    <3>2. d \in Dev \cup {0}
      BY DEF SessionsTypeOK
    <3>3. v \in Request /\ v.inst = i /\ v.pc = "erase"
      <4> HIDE DEF d
      <4> QED BY <1>1, <3>2 DEF Request
    <3>4. v.pc \notin Starting /\ v.pc \notin Aimed
      BY <3>3 DEF Starting, Aimed
    <3> HIDE DEF v
    <3> QED BY <3>1, <3>3, <3>4, ReqPut
  <2> QED BY <2>1, <2>2, <2>3
<1>7. SessionsTypeOK'
  BY <1>3, <1>4, <1>5, <1>6 DEF SessionsTypeOK, ReqKept, deviceVars, countVars
<1> QED BY <1>3, <1>5, <1>6, <1>7, KeepLock DEF ReqKept, NoStart

LEMMA LookFailsKeeps ==
  ASSUME SessionsTypeOK, LockInv, AtWork, NEW r \in Proc, LookFails(r)
  PROVE  SessionsTypeOK' /\ LockInv' /\ AtWork'
<1>1. ReqKept /\ NoStart /\ trips' \in 0..MaxTrips
  BY DoneReq, TripType DEF LookFails
<1>2. UNCHANGED <<sess, reg, lock, removers, up, deviceVars, countVars, stray>>
  BY DEF LookFails
<1>3. SessionsTypeOK'
  BY <1>1, <1>2 DEF SessionsTypeOK, ReqKept, deviceVars, countVars
<1> QED BY <1>1, <1>2, <1>3, ReqKeeps DEF ReqKept

LEMMA Ways ==
  /\ {"find", "unmap", "remove", "close"} \subseteq Stage
  /\ \A c \in {"unmap", "remove"} : c \notin Aimed
  /\ \A c \in {"unmap", "remove", "close"} : c \notin Starting
BY DEF Stage, Aimed, Starting

LEMMA UnlinkKeeps ==
  ASSUME SessionsTypeOK, LockInv, AtWork, NEW r \in Proc, Unlink(r)
  PROVE  SessionsTypeOK' /\ LockInv' /\ AtWork'
<1>1. PICK s \in Sess : s = req[r].target /\ req[r].pc = "unlink" /\ sess[s] \in Session
  BY DEF Unlink, AtWork, Aimed, SessionsTypeOK
<1> DEFINE x == sess[s]
<1>2. x.device \in Dev \cup {0}
  BY <1>1, Fields, Zenon
<1>3. PICK d \in Dev \cup {0} : Put(s, [x EXCEPT !.device = d])
  BY <1>1, <1>2 DEF Unlink
<1>4. SameStage([x EXCEPT !.device = d], x)
  BY <1>1, Marked
<1>5. Quiet(s)
  BY <1>3, <1>4, QuietPut DEF SameStage, Same, Live
<1>6. PICK c \in {"unmap", "remove"} : Goto(r, c)
  BY DEF Unlink
<1>7. ReqKept /\ NoStart
  BY <1>1, <1>6, GotoReq, Ways
<1>8. stored' \subseteq Dev /\ UNCHANGED <<reg, lock, removers, up, mapping, pairs, overtaken,
                                          countVars, trips, stray>>
  BY DEF Unlink, SessionsTypeOK
<1>9. SessionsTypeOK'
  BY <1>5, <1>7, <1>8, QuietType DEF SessionsTypeOK, ReqKept, countVars
<1> QED BY <1>5, <1>7, <1>8, <1>9, QuietLive, KeepLock DEF ReqKept, NoStart

LEMMA UnlinkFailsKeeps ==
  ASSUME SessionsTypeOK, LockInv, AtWork, NEW r \in Proc, UnlinkFails(r)
  PROVE  SessionsTypeOK' /\ LockInv' /\ AtWork'
<1>1. PICK s \in Sess : s = req[r].target /\ req[r].pc = "unlink" /\ sess[s] \in Session
  BY DEF UnlinkFails, AtWork, Aimed, SessionsTypeOK
<1>2. Quiet(s)
  <2>1. CASE req[r].kind = "reset"
    BY <1>1, <2>1, CancelQuiet DEF UnlinkFails
  <2>2. CASE req[r].kind # "reset"
    BY <1>1, <2>2, QuietPut DEF UnlinkFails, Live
  <2> QED BY <2>1, <2>2
<1>3. ReqKept /\ NoStart
  BY <1>1, GotoReq, Ways DEF UnlinkFails
<1>4. trips' \in 0..MaxTrips /\ UNCHANGED <<reg, lock, removers, up, deviceVars, countVars, stray>>
  BY TripType DEF UnlinkFails
<1>5. SessionsTypeOK'
  BY <1>2, <1>3, <1>4, QuietType DEF SessionsTypeOK, ReqKept, deviceVars, countVars
<1> QED BY <1>2, <1>3, <1>4, <1>5, QuietLive, KeepLock DEF ReqKept, NoStart

LEMMA EraseKeeps ==
  ASSUME SessionsTypeOK, LockInv, AtWork, NEW r \in Proc, Erase(r)
  PROVE  SessionsTypeOK' /\ LockInv' /\ AtWork'
<1>1. ReqKept /\ NoStart
  BY GotoReq, Ways DEF Erase
<1>2. stored' \subseteq Dev /\ trips' \in 0..MaxTrips
  BY TripType DEF Erase, SessionsTypeOK
<1>3. UNCHANGED <<sess, reg, lock, removers, up, mapping, pairs, overtaken, countVars, stray>>
  BY DEF Erase
<1>4. SessionsTypeOK'
  BY <1>1, <1>2, <1>3 DEF SessionsTypeOK, ReqKept, countVars
<1> QED BY <1>1, <1>3, <1>4, ReqKeeps DEF ReqKept

LEMMA UnmapKeeps ==
  ASSUME SessionsTypeOK, LockInv, AtWork, NEW r \in Proc, Unmap(r)
  PROVE  SessionsTypeOK' /\ LockInv' /\ AtWork'
<1>1. PICK s \in Sess \cup {0} : s = req[r].target /\ req[r].pc = "unmap"
  BY DEF Unmap, SessionsTypeOK, Request
<1>2. ReqKept /\ NoStart
  <2>1. Done(r) \/ Goto(r, "remove") \/ (s # 0 /\ Goto(r, "close"))
    BY <1>1 DEF Unmap
  <2> QED BY <1>1, <2>1, DoneReq, GotoReq, Ways
<1>3. sess' \in [Sess -> Session] /\ \A t \in Sess : Live(t)' => Live(t)
  <2>1. CASE UNCHANGED sess
    BY <2>1 DEF SessionsTypeOK, Live
  <2>2. CASE s # 0 /\ Put(s, Cancelled(sess[s]))
    BY <1>1, <2>2, CancelQuiet, QuietType, QuietLive
  <2> QED BY <1>1, <2>1, <2>2 DEF Unmap
<1>4. mapping' \in Dev \cup {0} /\ trips' \in 0..MaxTrips /\ overtaken' \in BOOLEAN
  BY TripType DEF Unmap, SessionsTypeOK
<1>5. UNCHANGED <<reg, lock, removers, up, stored, pairs, countVars, stray>>
  BY DEF Unmap
<1>6. SessionsTypeOK'
  BY <1>2, <1>3, <1>4, <1>5 DEF SessionsTypeOK, ReqKept, countVars
<1> QED BY <1>2, <1>3, <1>5, <1>6, KeepLock DEF ReqKept, NoStart

LEMMA CloseKeeps ==
  ASSUME SessionsTypeOK, LockInv, AtWork, NEW r \in Proc, Close(r)
  PROVE  SessionsTypeOK' /\ LockInv' /\ AtWork'
<1>1. PICK s \in Sess : s = req[r].target /\ req[r].pc = "close" /\ sess[s] \in Session
  BY DEF Close, AtWork, Aimed, SessionsTypeOK
<1>2. Quiet(s)
  BY <1>1, Stopped, QuietPut DEF Close
<1>3. ReqKept /\ NoStart
  BY <1>1, GotoReq, Ways DEF Close
<1>4. UNCHANGED <<reg, lock, removers, up, deviceVars, countVars, trips, stray>>
  BY DEF Close
<1>5. SessionsTypeOK'
  BY <1>2, <1>3, <1>4, QuietType DEF SessionsTypeOK, ReqKept, deviceVars, countVars
<1> QED BY <1>2, <1>3, <1>4, <1>5, QuietLive, KeepLock DEF ReqKept, NoStart

(* Remove frees the lock of the entry it drops, whoever that is.            *)
LEMMA RemoveLock ==
  ASSUME SessionsTypeOK, LockInv, NEW i \in Instance, Remove(i), UNCHANGED sess, NoStart
  PROVE  /\ LockInv' /\ reg' \in [Instance -> Sess \cup {0}]
         /\ lock' \in Proc \cup Sess \cup {NoOne} /\ stray' \subseteq Sess
<1>1. PICK e \in Sess \cup {0} : e = reg[i]
  BY DEF SessionsTypeOK
<1>2. reg' \in [Instance -> Sess \cup {0}]
  BY DEF Remove, SessionsTypeOK
<1>3. stray \subseteq stray' /\ stray' \subseteq Sess /\ \A t \in Sess : Live(t)' => Live(t)
  BY <1>1, Apart DEF Remove, SessionsTypeOK, Live
<1>4. CASE e = 0
  <2>1. lock' = lock
    BY <1>1, <1>4 DEF Remove
  <2> QED BY <1>2, <1>3, <2>1, KeepLock DEF NoStart, SessionsTypeOK
<1>5. CASE e # 0
  <2>1. e \in Sess /\ lock' = Unlocked({e})
    BY <1>1, <1>5 DEF Remove
  <2>2. ~Live(e)' \/ e \in stray'
    BY <1>1, <1>5 DEF Remove, Live
  <2> QED BY <1>2, <1>3, <2>1, <2>2, GiveUpLock, UnlockedType DEF NoStart
<1> QED BY <1>4, <1>5

LEMMA RemoveEntryKeeps ==
  ASSUME SessionsTypeOK, LockInv, AtWork, NEW r \in Proc, RemoveEntry(r)
  PROVE  SessionsTypeOK' /\ LockInv' /\ AtWork'
<1>1. PICK i \in Instance : i = req[r].inst /\ req[r].pc = "remove"
  BY DEF RemoveEntry, AtWork
<1>2. ReqKept /\ NoStart
  BY <1>1, DoneReq, GotoReq, Ways DEF RemoveEntry
<1>3. Remove(i) /\ UNCHANGED <<sess, removers, up, deviceVars, countVars, trips>>
  BY <1>1 DEF RemoveEntry
<1>4. /\ LockInv' /\ reg' \in [Instance -> Sess \cup {0}]
      /\ lock' \in Proc \cup Sess \cup {NoOne} /\ stray' \subseteq Sess
  BY <1>2, <1>3, RemoveLock
<1>5. SessionsTypeOK'
  BY <1>2, <1>3, <1>4 DEF SessionsTypeOK, ReqKept, deviceVars, countVars
<1> QED BY <1>2, <1>4, <1>5 DEF ReqKept

LEMMA LateRemoveKeeps ==
  ASSUME SessionsTypeOK, LockInv, AtWork, NEW i \in Instance, LateRemove(i)
  PROVE  SessionsTypeOK' /\ LockInv' /\ AtWork'
<1>1. Remove(i) /\ UNCHANGED <<sess, req, up, deviceVars, countVars, trips>>
  BY DEF LateRemove
<1>2. NoStart /\ AtWork'
  BY <1>1 DEF NoStart, AtWork
<1>3. removers' \in [Instance -> Nat]
  BY DEF LateRemove, SessionsTypeOK
<1>4. /\ LockInv' /\ reg' \in [Instance -> Sess \cup {0}]
      /\ lock' \in Proc \cup Sess \cup {NoOne} /\ stray' \subseteq Sess
  BY <1>1, <1>2, RemoveLock
<1>5. SessionsTypeOK'
  BY <1>1, <1>3, <1>4 DEF SessionsTypeOK, deviceVars, countVars
<1> QED BY <1>2, <1>4, <1>5
-----------------------------------------------------------------------------
(* Processes *)

LEMMA BootKeeps ==
  ASSUME SessionsTypeOK, LockInv, AtWork, NEW i \in Instance, Boot(i)
  PROVE  SessionsTypeOK' /\ LockInv' /\ AtWork'
<1>1. /\ up' \subseteq Instance /\ boots' \in 0..MaxBoots
      /\ UNCHANGED <<removers, stored, pairs, overtaken, requests, stray>>
  BY Bounds DEF Boot, SessionsTypeOK
<1>2. trips \in 0..MaxTrips /\ mapping \in Dev \cup {0}
  BY DEF SessionsTypeOK
<1>3. CASE UNCHANGED <<sess, reg, lock, req>> /\ trips' \in 0..MaxTrips /\ mapping' \in Dev \cup {0}
  <2>1. SessionsTypeOK'
    BY <1>1, <1>3 DEF SessionsTypeOK
  <2>2. AtWork' /\ NoStart /\ ReqKept
    BY <1>3 DEF AtWork, NoStart, ReqKept, SessionsTypeOK
  <2> QED BY <1>1, <1>3, <2>1, <2>2, ReqKeeps
<1>4. CASE /\ lock = NoOne
           /\ \E s \in Sess : /\ IsNext(s)
                              /\ Put(s, Born(i, mapping))
                              /\ reg' = [reg EXCEPT ![i] = s]
                              /\ lock' = s
           /\ UNCHANGED <<req, mapping, trips>>
  <2>1. PICK s \in Sess : /\ IsNext(s)
                          /\ Put(s, Born(i, mapping))
                          /\ reg' = [reg EXCEPT ![i] = s]
                          /\ lock' = s
    BY <1>4
  <2>2. Born(i, mapping) \in Session
    <3>1. ASSUME NEW d \in Dev \cup {0}, NEW b \in BOOLEAN
          PROVE  [Unborn EXCEPT !.pc = "top", !.inst = i, !.device = d, !.kept = b] \in Session
      BY Stages, UnbornType DEF Session
    <3> QED BY <1>2, <3>1 DEF Born
  <2>3. sess' \in [Sess -> Session] /\ reg' \in [Instance -> Sess \cup {0}]
    BY <2>1, <2>2 DEF Put, SessionsTypeOK
  <2>4. SessionsTypeOK'
    BY <1>1, <1>4, <2>1, <2>3 DEF SessionsTypeOK
  <2>5. \A t \in Sess \ stray : Live(t) => FALSE
    BY <1>4, Apart DEF LockInv, LiveOwnsLock
  <2>6. \A q \in Proc : req'[q].pc \notin Starting
    BY <1>4, Apart DEF LockInv, StarterOwnsLock
  <2>7. LockInv'
    BY <1>1, <2>1, <2>2, <2>5, <2>6, BirthKeeps DEF IsNext
  <2> QED BY <1>4, <2>4, <2>7 DEF AtWork
<1>5. CASE /\ req' = [req EXCEPT ![i] = [NoReq EXCEPT !.pc = "poll", !.kind = "restore", !.inst = i]]
           /\ UNCHANGED <<sess, reg, lock, mapping, trips>>
  <2> DEFINE v == [NoReq EXCEPT !.pc = "poll", !.kind = "restore", !.inst = i]
  <2>1. v \in Request /\ v.pc = "poll" /\ v.inst = i
    BY NoReqType DEF NoReq, Request
  <2>2. v.pc \notin Aimed /\ v.pc \notin Starting
    BY <2>1 DEF Aimed, Starting
  <2>3. req' = [req EXCEPT ![i] = v]
    BY <1>5
  <2> HIDE DEF v
  <2>4. ReqKept /\ NoStart
    BY <2>1, <2>2, <2>3, Apart, ReqPut
  <2>5. SessionsTypeOK'
    BY <1>1, <1>5, <2>4 DEF SessionsTypeOK, ReqKept
  <2> QED BY <1>1, <1>5, <2>4, <2>5, ReqKeeps DEF ReqKept
<1> QED BY <1>2, <1>3, <1>4, <1>5, TripType DEF Boot

LEMMA TerminateKeeps ==
  ASSUME SessionsTypeOK, LockInv, AtWork, NEW i \in Instance, Terminate(i)
  PROVE  SessionsTypeOK' /\ LockInv' /\ AtWork'
<1>1. PICK s \in Sess : s = reg[i]
  BY DEF Terminate, SessionsTypeOK
<1>2. Quiet(s)
  BY <1>1, CancelQuiet DEF Terminate
<1>3. UNCHANGED <<reg, lock, req, removers, up, deviceVars, countVars, trips, stray>>
  BY DEF Terminate
<1>4. trips' \in 0..MaxTrips
  BY <1>3 DEF SessionsTypeOK
<1> QED BY <1>2, <1>3, <1>4, InsideKeeps DEF AtWork

LEMMA ProcessEndsKeeps ==
  ASSUME SessionsTypeOK, LockInv, AtWork, NEW i \in Instance, ProcessEnds(i)
  PROVE  SessionsTypeOK' /\ LockInv' /\ AtWork'
<1> DEFINE mine == {s \in Sess : sess[s].inst = i}
           done == {p \in Proc : req[p].inst = i}
<1>1. ASSUME NEW x \in Session
      PROVE  /\ [x EXCEPT !.pc = "ended", !.client = "off", !.woke = FALSE, !.beat = {}] \in Session
             /\ [x EXCEPT !.pc = "ended", !.client = "off", !.woke = FALSE, !.beat = {}].pc = "ended"
  BY DEF Session
<1>2. sess' \in [Sess -> Session]
  BY <1>1 DEF ProcessEnds, SessionsTypeOK
<1>3. \A s \in Sess : IF s \in mine THEN sess'[s].pc = "ended" ELSE sess'[s] = sess[s]
  BY <1>1 DEF ProcessEnds, SessionsTypeOK
<1>4. \A p \in Proc : req'[p] = IF p \in done THEN NoReq ELSE req[p]
  BY DEF ProcessEnds
<1>5. req' \in [Proc -> Request]
  BY NoReqType DEF ProcessEnds, SessionsTypeOK
<1>6. /\ lock' = Unlocked(mine \cup done)
      /\ reg' \in [Instance -> Sess \cup {0}] /\ removers' \in [Instance -> Nat] /\ up' \subseteq Instance
      /\ UNCHANGED <<deviceVars, countVars, trips, stray>>
  BY DEF ProcessEnds, SessionsTypeOK
<1>7. SessionsTypeOK'
  BY <1>2, <1>5, <1>6, UnlockedType DEF SessionsTypeOK, deviceVars, countVars
<1>8. AtWork'
  BY <1>4, NoReqType DEF AtWork, Aimed
<1>9. LiveOwnsLock'
  <2>1. ASSUME NEW s \in Sess, s \notin stray', Live(s)' PROVE lock' = s
    <3>1. "ended" \notin Running
      BY DEF Running, Waiting
    <3>2. s \notin mine /\ Live(s)
      BY <1>3, <2>1, <3>1 DEF Live
    <3>3. lock = s /\ s \notin done
      BY <1>6, <2>1, <3>2, Apart DEF LockInv, LiveOwnsLock
    <3> QED BY <1>6, <3>2, <3>3 DEF Unlocked
  <2> QED BY <2>1 DEF LiveOwnsLock
<1>10. StarterOwnsLock'
  <2>1. ASSUME NEW p \in Proc, req'[p].pc \in Starting PROVE lock' = p
    <3>1. p \notin done /\ req[p].pc \in Starting
      BY <1>4, <2>1, NoReqType DEF Starting
    <3>2. lock = p /\ p \notin mine
      BY <3>1, Apart DEF LockInv, StarterOwnsLock
    <3> QED BY <1>6, <3>1, <3>2 DEF Unlocked
  <2> QED BY <2>1 DEF StarterOwnsLock
<1> QED BY <1>7, <1>8, <1>9, <1>10 DEF LockInv

-----------------------------------------------------------------------------
SessionsInv == SessionsTypeOK /\ LockInv /\ AtWork

LEMMA SessionsInvInit == SessionsInit => SessionsInv
<1> SUFFICES ASSUME SessionsInit PROVE SessionsInv
  OBVIOUS
<1>1. pairs \in 0..MaxPairs /\ mapping \in Dev \cup {0} /\ stored \subseteq Dev
  BY SessionsAssumption DEF SessionsInit, Dev
<1>5. sess \in [Sess -> Session] /\ req \in [Proc -> Request]
  BY UnbornType, NoReqType DEF SessionsInit
<1>6. /\ reg \in [Instance -> Sess \cup {0}] /\ removers \in [Instance -> Nat]
      /\ lock \in Proc \cup Sess \cup {NoOne}
  BY DEF SessionsInit
<1>7. requests \in 0..MaxRequests /\ boots \in 0..MaxBoots /\ trips \in 0..MaxTrips
  BY Bounds DEF SessionsInit
<1>8. up \subseteq Instance /\ stray \subseteq Sess /\ overtaken \in BOOLEAN
  BY DEF SessionsInit
<1>2. SessionsTypeOK
  BY <1>1, <1>5, <1>6, <1>7, <1>8 DEF SessionsTypeOK
<1>3. LiveOwnsLock
  BY UnbornType DEF SessionsInit, LiveOwnsLock, Live, Running, Waiting
<1>4. StarterOwnsLock /\ AtWork
  BY NoReqType DEF SessionsInit, StarterOwnsLock, Starting, AtWork, Aimed
<1> QED BY <1>2, <1>3, <1>4 DEF SessionsInv, LockInv

LEMMA SessionsInvNext == SessionsInv /\ [SessionsNext]_sessVars => SessionsInv'
<1> SUFFICES ASSUME SessionsInv, [SessionsNext]_sessVars PROVE SessionsInv'
  OBVIOUS
<1> USE DEF SessionsInv
<1>1. CASE UNCHANGED sessVars
  BY <1>1 DEF sessVars, SessionsTypeOK, LockInv, LiveOwnsLock, StarterOwnsLock, Live, AtWork
<1>2. ASSUME NEW s \in Sess,
             Step(s) \/ WindowCloses(s) \/ DialFails(s) \/ FirstCloses(s) \/ Panic(s)
               \/ BeatRead(s) \/ BeatWrite(s) \/ Event(s)
      PROVE  SessionsInv'
  <2>1. UNCHANGED req
    BY <1>2 DEF Step, Top, Dial, FirstQR, Wake, ReviewMode, Leave, Exit, WindowCloses, DialFails,
                FirstCloses, Panic, BeatRead, BeatWrite, Event, EvConnected, EvPairSuccess,
                EvDisconnected, EvLoggedOut
  <2>2. AtWork'
    BY <2>1 DEF AtWork
  <2> QED BY <1>2, <2>2, StepKeeps, MishapKeeps, EventKeeps
<1>3. ASSUME NEW p \in Proc, Handle(p) PROVE SessionsInv'
  BY <1>3, DiscardKeeps, RetireKeeps, FindKeeps, AcquireKeeps, LoadKeeps, InstallKeeps,
     LookKeeps, LookFailsKeeps, UnlinkKeeps, UnlinkFailsKeeps, EraseKeeps, UnmapKeeps,
     CloseKeeps, RemoveEntryKeeps
  DEF Handle
<1>4. ASSUME NEW i \in Instance,
             Poll(i) \/ LateRemove(i) \/ Boot(i) \/ Terminate(i) \/ ProcessEnds(i)
      PROVE  SessionsInv'
  BY <1>4, PollKeeps, LateRemoveKeeps, BootKeeps, TerminateKeeps, ProcessEndsKeeps
<1>5. ASSUME NEW r \in Req, NEW i \in Instance, NEW k \in Kinds, Begin(r, i, k)
      PROVE  SessionsInv'
  BY <1>5, BeginKeeps
<1>6. CASE SessionsAtRest
  BY <1>1, <1>6 DEF SessionsAtRest
<1> QED BY <1>1, <1>2, <1>3, <1>4, <1>5, <1>6 DEF SessionsNext

(* The model is typed, for any number of processes, requests and failures.  *)
THEOREM SessionsTyped == SessionsSpec => []SessionsTypeOK
<1>1. SessionsInv => SessionsTypeOK
  BY DEF SessionsInv
<1> QED BY <1>1, SessionsInvInit, SessionsInvNext, PTL DEF SessionsSpec

(* acquireBrokerLock keeps processes and restarts apart: a session that     *)
(* runs, is not cancelled and has not lost its lock to a panic or to the    *)
(* Remove of an earlier session holds the advisory lock, so that at most    *)
(* one such session of the broker exists anywhere.                          *)
THEOREM LockIsHeld == SessionsSpec => []LiveOwnsLock
<1>1. SessionsInv => LiveOwnsLock
  BY DEF SessionsInv, LockInv
<1> QED BY <1>1, SessionsInvInit, SessionsInvNext, PTL DEF SessionsSpec

-----------------------------------------------------------------------------
(* What a session keeps from step to step, and what it was asked            *)

(* A code request that a QR window has not looked at yet is newer than the  *)
(* one the window was opened for, and its wake-up is under way.             *)
Heard(x) ==
  /\ x.gen >= x.seen
  /\ x.pc = "qr" /\ x.mode = "code" => x.gen > x.seen /\ (x.token \/ x.woke)
AllHeard == \A s \in Sess : Heard(sess[s])

(* y is what became of x: a session of the same process, cancelled for      *)
(* good, with its device or none.                                           *)
Kin(y, x) ==
  /\ y \in Session
  /\ y.inst = x.inst /\ (x.cancelled => y.cancelled)
  /\ y.pc = "unborn" => x.pc = "unborn"
  /\ y.kept = x.kept /\ y.device \in {x.device, 0}
  /\ Heard(x) => Heard(y)
KinStep(s) == \E y \in Session : Put(s, y) /\ Kin(y, sess[s])

LEMMA KinPut ==
  ASSUME SessionsTypeOK, NEW s \in Sess, NEW y, Put(s, y), Kin(y, sess[s]) PROVE KinStep(s)
BY DEF KinStep, Kin

LEMMA KinSelf == ASSUME NEW x \in Session PROVE Kin(x, x)
BY DEF Kin

LEMMA KinKin ==
  ASSUME NEW x \in Session, NEW y, NEW z, Kin(z, y), Kin(y, x) PROVE Kin(z, x)
BY DEF Kin

LEMMA KinAll ==
  ASSUME SessionsTypeOK, NEW s \in Sess, KinStep(s)
  PROVE  \A t \in Sess : Kin(sess'[t], sess[t])
<1>1. PICK y \in Session : Put(s, y) /\ Kin(y, sess[s])
  BY DEF KinStep
<1>2. sess'[s] = y /\ \A t \in Sess \ {s} : sess'[t] = sess[t] /\ sess[t] \in Session
  BY <1>1 DEF Put, SessionsTypeOK
<1> QED BY <1>1, <1>2, KinSelf

(* A status leaves the rest of the session alone.                           *)
LEMMA StatusRest ==
  ASSUME NEW x \in Session, NEW a \in BOOLEAN, NEW b \in BOOLEAN
  PROVE  LET y == SetStatus(x, a, b)
         IN  /\ y \in Session /\ y.pc = x.pc /\ y.mode = x.mode /\ y.gen = x.gen
             /\ y.seen = x.seen /\ y.token = x.token /\ y.woke = x.woke
             /\ y.device = x.device /\ y.inst = x.inst /\ y.kept = x.kept
             /\ y.cancelled = x.cancelled
<1>1. SetStatus(x, a, b) \in Session
  BY SetStatusType
<1>2. PICK c, d : SetStatus(x, a, b) = [x EXCEPT !.shown = c, !.failed = d]
  BY DEF SetStatus
<1> QED BY <1>1, <1>2 DEF Session

LEMMA StatusKin ==
  ASSUME NEW x \in Session, NEW a \in BOOLEAN, NEW b \in BOOLEAN
  PROVE  Kin(SetStatus(x, a, b), x)
<1> DEFINE y == SetStatus(x, a, b)
<1>1. /\ y \in Session /\ y.pc = x.pc /\ y.mode = x.mode /\ y.gen = x.gen
      /\ y.seen = x.seen /\ y.token = x.token /\ y.woke = x.woke
      /\ y.device = x.device /\ y.inst = x.inst /\ y.kept = x.kept
      /\ y.cancelled = x.cancelled
  BY StatusRest
<1> HIDE DEF y
<1>2. Kin(y, x)
  BY <1>1 DEF Kin, Heard
<1> QED BY <1>2 DEF y

(* Rewritings, by the fields they touch; a window is entered only by Dial.  *)
LEMMA MovedKin ==
  ASSUME NEW y \in Session, NEW q \in (Running \cup {"ended"}) \ {"qr"}, NEW n \in Nat,
         NEW c \in {"none", "on", "off"}, NEW m \in {"", "code", "qr"}
  PROVE  /\ Kin([y EXCEPT !.pc = q], y)
         /\ Kin([y EXCEPT !.pc = q, !.client = c], y)
         /\ Kin([y EXCEPT !.pc = q, !.client = c, !.disc = FALSE], y)
         /\ Kin([y EXCEPT !.pc = q, !.client = c, !.woke = FALSE], y)
         /\ Kin([y EXCEPT !.pc = q, !.answered = n], y)
         /\ Kin([y EXCEPT !.pc = q, !.answered = n, !.mode = ""], y)
         /\ Kin([y EXCEPT !.woke = FALSE, !.pc = q], y)
         /\ Kin([y EXCEPT !.mode = m, !.pc = q], y)
<1>0. q # "qr" /\ q # "unborn" /\ q \in Running \cup {"ended"}
  BY DEF Running, Waiting
<1>1. Kin([y EXCEPT !.pc = q], y)
  BY <1>0 DEF Session, Kin, Heard
<1>2. Kin([y EXCEPT !.pc = q, !.client = c], y)
  BY <1>0 DEF Session, Kin, Heard
<1>3. Kin([y EXCEPT !.pc = q, !.client = c, !.disc = FALSE], y)
  <2> DEFINE z == [y EXCEPT !.pc = q, !.client = c, !.disc = FALSE]
  <2>1. z \in Session
    BY Moved DEF Same
  <2>2. z.pc = q /\ z.gen = y.gen /\ z.seen = y.seen /\ z.inst = y.inst
    BY DEF Session
  <2>3. z.cancelled = y.cancelled /\ z.device = y.device /\ z.kept = y.kept
    BY DEF Session
  <2> HIDE DEF z
  <2>4. Kin(z, y)
    BY <1>0, <2>1, <2>2, <2>3 DEF Kin, Heard
  <2> QED BY <2>4 DEF z
<1>4. Kin([y EXCEPT !.pc = q, !.client = c, !.woke = FALSE], y)
  <2> DEFINE z == [y EXCEPT !.pc = q, !.client = c, !.woke = FALSE]
  <2>1. z \in Session
    BY Moved DEF Same
  <2>2. z.pc = q /\ z.gen = y.gen /\ z.seen = y.seen /\ z.inst = y.inst
    BY DEF Session
  <2>3. z.cancelled = y.cancelled /\ z.device = y.device /\ z.kept = y.kept
    BY DEF Session
  <2> HIDE DEF z
  <2>4. Kin(z, y)
    BY <1>0, <2>1, <2>2, <2>3 DEF Kin, Heard
  <2> QED BY <2>4 DEF z
<1>5. Kin([y EXCEPT !.pc = q, !.answered = n], y)
  BY <1>0 DEF Session, Kin, Heard
<1>6. Kin([y EXCEPT !.pc = q, !.answered = n, !.mode = ""], y)
  BY <1>0 DEF Session, Kin, Heard
<1>7. Kin([y EXCEPT !.woke = FALSE, !.pc = q], y)
  BY <1>0 DEF Session, Kin, Heard
<1>8. Kin([y EXCEPT !.mode = m, !.pc = q], y)
  BY <1>0 DEF Session, Kin, Heard
<1> QED BY <1>1, <1>2, <1>3, <1>4, <1>5, <1>6, <1>7, <1>8

LEMMA MarkedKin ==
  ASSUME NEW y \in Session, NEW B \in SUBSET [shown : BOOLEAN, failed : BOOLEAN]
  PROVE  /\ Kin([y EXCEPT !.token = FALSE, !.woke = TRUE], y)
         /\ Kin([y EXCEPT !.beat = B], y)
         /\ Kin([y EXCEPT !.disc = TRUE], y)
         /\ Kin([y EXCEPT !.disc = TRUE, !.device = 0], y)
         /\ Kin([y EXCEPT !.resetting = TRUE, !.mode = ""], y)
         /\ Kin([y EXCEPT !.device = 0], y)
         /\ Kin([y EXCEPT !.device = y.device], y)
         /\ Kin(Cancelled(y), y)
         /\ Kin([Cancelled(y) EXCEPT !.device = 0, !.client = "off"], y)
<1>1. Kin([y EXCEPT !.token = FALSE, !.woke = TRUE], y)
  BY DEF Session, Kin, Heard
<1>2. Kin([y EXCEPT !.beat = B], y)
  BY DEF Session, Kin, Heard
<1>3. Kin([y EXCEPT !.disc = TRUE], y)
  BY DEF Session, Kin, Heard
<1>4. Kin([y EXCEPT !.disc = TRUE, !.device = 0], y)
  BY DEF Session, Kin, Heard
<1>5. Kin([y EXCEPT !.resetting = TRUE, !.mode = ""], y)
  BY DEF Session, Kin, Heard
<1>6. Kin([y EXCEPT !.device = 0], y)
  BY DEF Session, Kin, Heard
<1>7. Kin([y EXCEPT !.device = y.device], y)
  BY DEF Session, Kin, Heard
<1>8. Kin(Cancelled(y), y)
  BY DEF Session, Kin, Heard, Cancelled
<1>9. Kin([Cancelled(y) EXCEPT !.device = 0, !.client = "off"], y)
  BY DEF Session, Kin, Heard, Cancelled
<1> QED BY <1>1, <1>2, <1>3, <1>4, <1>5, <1>6, <1>7, <1>8, <1>9

LEMMA AskedKin ==
  ASSUME NEW x \in Session, NEW k PROVE Kin(RequestPairing(x, k), x)
<1>1. CASE k \in {"code", "qr"}
  <2> DEFINE y == SetStatus(x, FALSE, FALSE)
  <2>1. y \in Session /\ y.gen = x.gen /\ Kin(y, x)
    BY StatusRest, StatusKin
  <2>2. RequestPairing(x, k) = [y EXCEPT !.resetting = FALSE, !.mode = k, !.gen = y.gen + 1, !.token = TRUE]
    BY <1>1, <2>1 DEF RequestPairing
  <2> HIDE DEF y
  <2>3. y.gen \in Nat /\ y.seen \in Nat
    BY <2>1, Fields, Zenon
  <2> DEFINE g == y.gen + 1
             z == [y EXCEPT !.resetting = FALSE, !.mode = k, !.gen = g, !.token = TRUE]
  <2>8. g \in Nat
    BY <2>3
  <2>4. z \in Session /\ z.pc = y.pc /\ z.cancelled = y.cancelled
    <3> HIDE DEF g
    <3> QED BY <1>1, <2>1, <2>8, Asked
  <2>5. z.gen = y.gen + 1 /\ z.seen = y.seen /\ z.token /\ z.inst = y.inst
    BY <2>1 DEF Session
  <2>6. z.device = y.device /\ z.kept = y.kept
    BY <2>1 DEF Session
  <2> HIDE DEF z
  <2>7. Kin(z, y)
    BY <2>3, <2>4, <2>5, <2>6 DEF Kin, Heard
  <2> QED BY <2>1, <2>2, <2>7, KinKin DEF z
<1>2. CASE k \notin {"code", "qr"}
  BY <1>2, KinSelf DEF RequestPairing
<1> QED BY <1>1, <1>2

LEMMA TopKin == ASSUME SessionsTypeOK, NEW s \in Sess, Top(s) PROVE KinStep(s)
<1> DEFINE x == sess[s]
           y == SetStatus(x, FALSE, FALSE)
<1>1. x \in Session /\ y \in Session /\ Kin(y, x)
  BY StatusRest, StatusKin DEF SessionsTypeOK
<1>2. {"exit", "dial"} \subseteq Running \ {"qr"}
  BY DEF Running, Waiting
<1>3. CASE x.cancelled
  <2>1. Put(s, [x EXCEPT !.pc = "exit"])
    BY <1>3 DEF Top
  <2> QED BY <1>1, <1>2, <2>1, MovedKin, KinPut
<1>4. CASE ~x.cancelled
  <2>1. Put(s, [y EXCEPT !.pc = "dial", !.client = "on", !.disc = FALSE])
    BY <1>4 DEF Top
  <2> HIDE DEF y
  <2>2. Kin([y EXCEPT !.pc = "dial", !.client = "on", !.disc = FALSE], y)
    BY <1>1, <1>2, MovedKin
  <2> QED BY <1>1, <2>1, <2>2, KinKin, KinPut
<1> QED BY <1>3, <1>4

LEMMA DialKin == ASSUME SessionsTypeOK, NEW s \in Sess, Dial(s) PROVE KinStep(s)
<1> DEFINE x == sess[s]
<1>1. x \in Session
  BY DEF SessionsTypeOK
<1>2. "open" \in Running \ {"qr"}
  BY DEF Running, Waiting
<1>3. CASE x.device # 0
  <2>1. Put(s, [x EXCEPT !.pc = "open"])
    BY <1>3 DEF Dial
  <2> QED BY <1>1, <1>2, <2>1, MovedKin, KinPut
<1>4. CASE x.device = 0
  <2>1. PICK w \in {"first", "qr"} : /\ Put(s, [x EXCEPT !.pc = w, !.seen = x.gen])
                                     /\ w = "qr" => x.mode # "code"
    BY <1>4 DEF Dial
  <2>2. w \in Running /\ x.gen \in Nat
    BY <1>1, Fields, Zenon DEF Running, Waiting
  <2> DEFINE z == [x EXCEPT !.pc = w, !.seen = x.gen]
  <2>3. z \in Session
    BY <1>1, <2>2, Moved DEF Same
  <2>4. z.pc = w /\ z.seen = x.gen /\ z.gen = x.gen /\ z.mode = x.mode /\ z.inst = x.inst
    BY <1>1 DEF Session
  <2>5. z.cancelled = x.cancelled /\ z.device = x.device /\ z.kept = x.kept
    BY <1>1 DEF Session
  <2> HIDE DEF z
  <2>6. Kin(z, x)
    BY <2>1, <2>2, <2>3, <2>4, <2>5 DEF Kin, Heard
  <2> QED BY <2>1, <2>6, KinPut DEF z
<1> QED BY <1>3, <1>4

LEMMA FirstQRKin == ASSUME SessionsTypeOK, NEW s \in Sess, FirstQR(s) PROVE KinStep(s)
<1> DEFINE x == sess[s]
<1>1. x \in Session
  BY DEF SessionsTypeOK
<1>2. x.seen \in Nat
  BY <1>1, Fields, Zenon
<1>3. {"code", "exit"} \subseteq Running \ {"qr"}
  BY DEF Running, Waiting
<1>4. ASSUME NEW b \in BOOLEAN
      PROVE  LET y == SetStatus(x, FALSE, b)
             IN  /\ Kin([y EXCEPT !.pc = "code", !.answered = x.seen], x)
                 /\ Kin([y EXCEPT !.pc = "exit", !.answered = x.seen, !.mode = ""], x)
  <2> DEFINE y == SetStatus(x, FALSE, b)
  <2>1. y \in Session /\ Kin(y, x)
    BY <1>1, StatusRest, StatusKin
  <2> HIDE DEF y
  <2>2. /\ Kin([y EXCEPT !.pc = "code", !.answered = x.seen], y)
        /\ Kin([y EXCEPT !.pc = "exit", !.answered = x.seen, !.mode = ""], y)
    BY <1>2, <1>3, <2>1, MovedKin
  <2>3. /\ Kin([y EXCEPT !.pc = "code", !.answered = x.seen], x)
        /\ Kin([y EXCEPT !.pc = "exit", !.answered = x.seen, !.mode = ""], x)
    BY <1>1, <2>1, <2>2, KinKin
  <2> QED BY <2>3 DEF y
<1> QED BY <1>4, KinPut DEF FirstQR

LEMMA WakeKin == ASSUME SessionsTypeOK, NEW s \in Sess, Wake(s) PROVE KinStep(s)
<1>1. sess[s] \in Session
  BY DEF SessionsTypeOK
<1> QED BY <1>1, MarkedKin, KinPut DEF Wake

(* A QR window that has been woken up for a newer code request leaves.      *)
LEMMA ReviewModeKin == ASSUME SessionsTypeOK, NEW s \in Sess, ReviewMode(s) PROVE KinStep(s)
<1> DEFINE x == sess[s]
<1>1. x \in Session /\ x.pc \in Waiting
  BY DEF SessionsTypeOK, ReviewMode
<1>2. PICK q : /\ Put(s, [x EXCEPT !.woke = FALSE, !.pc = q])
               /\ q \in {"top", "code"} \/ q = x.pc
               /\ x.pc = "qr" /\ x.gen > x.seen /\ x.mode = "code" => q = "top"
  BY DEF ReviewMode
<1>3. q \in Running
  BY <1>1, <1>2, Stages
<1> DEFINE z == [x EXCEPT !.woke = FALSE, !.pc = q]
<1>4. z \in Session
  BY <1>1, <1>3, Moved DEF Same
<1>5. z.pc = q /\ z.seen = x.seen /\ z.gen = x.gen /\ z.mode = x.mode /\ z.inst = x.inst
  BY <1>1 DEF Session
<1>6. z.cancelled = x.cancelled /\ z.device = x.device /\ z.kept = x.kept
  BY <1>1 DEF Session
<1> HIDE DEF z
<1>7. q # "unborn"
  BY <1>3 DEF Running, Waiting
<1>8. Heard(x) => Heard(z)
  BY <1>1, <1>2, <1>5 DEF Heard
<1>9. Kin(z, x)
  BY <1>4, <1>5, <1>6, <1>7, <1>8 DEF Kin
<1> QED BY <1>2, <1>9, KinPut DEF z

LEMMA WindowClosesKin == ASSUME SessionsTypeOK, NEW s \in Sess, WindowCloses(s) PROVE KinStep(s)
<1> DEFINE x == sess[s]
<1>1. x \in Session /\ x.mode \in {"", "code", "qr"}
  BY Fields DEF SessionsTypeOK
<1>2. PICK q \in {"top", "open"}, m \in {"", "code", "qr"} : Put(s, [x EXCEPT !.mode = m, !.pc = q])
  BY <1>1 DEF WindowCloses
<1>3. q \in Running \ {"qr"}
  BY DEF Running, Waiting
<1> QED BY <1>1, <1>2, <1>3, MovedKin, KinPut

LEMMA LeaveKin == ASSUME SessionsTypeOK, NEW s \in Sess, Leave(s) PROVE KinStep(s)
<1>1. sess[s] \in Session
  BY DEF SessionsTypeOK
<1>2. PICK q \in {"top", "exit"} : Put(s, [sess[s] EXCEPT !.pc = q])
  BY DEF Leave
<1>3. q \in Running \ {"qr"}
  BY DEF Running, Waiting
<1> QED BY <1>1, <1>2, <1>3, MovedKin, KinPut

LEMMA ExitKin == ASSUME SessionsTypeOK, NEW s \in Sess, Exit(s) PROVE KinStep(s)
<1>1. sess[s] \in Session /\ Put(s, [sess[s] EXCEPT !.pc = "ended", !.client = "off"])
  BY DEF SessionsTypeOK, Exit
<1> QED BY <1>1, MovedKin, KinPut

LEMMA PanicKin == ASSUME SessionsTypeOK, NEW s \in Sess, Panic(s) PROVE KinStep(s)
<1> DEFINE x == sess[s]
           y == SetStatus(x, FALSE, FALSE)
<1>1. x \in Session /\ y \in Session /\ Kin(y, x)
  BY StatusRest, StatusKin DEF SessionsTypeOK
<1>2. PICK q \in {"top", "ended"}, c \in {"none", "on", "off"} :
        Put(s, [y EXCEPT !.pc = q, !.client = c, !.woke = FALSE])
  BY DEF Panic
<1>3. q \in (Running \cup {"ended"}) \ {"qr"}
  BY DEF Running, Waiting
<1> HIDE DEF y
<1>4. Kin([y EXCEPT !.pc = q, !.client = c, !.woke = FALSE], y)
  BY <1>1, <1>3, MovedKin
<1> QED BY <1>1, <1>2, <1>4, KinKin, KinPut

LEMMA DialFailsKin == ASSUME SessionsTypeOK, NEW s \in Sess, DialFails(s) PROVE KinStep(s)
<1>1. sess[s] \in Session /\ Put(s, [sess[s] EXCEPT !.pc = "top"])
  BY DEF SessionsTypeOK, DialFails
<1>2. "top" \in Running \ {"qr"}
  BY DEF Running
<1> QED BY <1>1, <1>2, MovedKin, KinPut

LEMMA FirstClosesKin == ASSUME SessionsTypeOK, NEW s \in Sess, FirstCloses(s) PROVE KinStep(s)
<1>1. sess[s] \in Session /\ Put(s, [sess[s] EXCEPT !.pc = "code"])
  BY DEF SessionsTypeOK, FirstCloses
<1>2. "code" \in Running \ {"qr"}
  BY DEF Running, Waiting
<1> QED BY <1>1, <1>2, MovedKin, KinPut

LEMMA BeatReadKin == ASSUME SessionsTypeOK, NEW s \in Sess, BeatRead(s) PROVE KinStep(s)
<1> DEFINE x == sess[s]
           B == {[shown |-> x.shown, failed |-> x.failed]}
<1>1. x \in Session /\ Put(s, [x EXCEPT !.beat = B])
  BY DEF SessionsTypeOK, BeatRead
<1>2. x.shown \in BOOLEAN /\ x.failed \in BOOLEAN
  BY <1>1, Fields, Zenon
<1>3. B \in SUBSET [shown : BOOLEAN, failed : BOOLEAN]
  BY <1>2
<1> HIDE DEF B
<1> QED BY <1>1, <1>3, MarkedKin, KinPut

LEMMA BeatWriteKin == ASSUME SessionsTypeOK, NEW s \in Sess, BeatWrite(s) PROVE KinStep(s)
<1> DEFINE x == sess[s]
<1>1. x \in Session
  BY DEF SessionsTypeOK
<1>2. PICK b \in x.beat : Put(s, [SetStatus(x, b.shown, b.failed) EXCEPT !.beat = {}])
  BY DEF BeatWrite
<1>3. b \in [shown : BOOLEAN, failed : BOOLEAN]
  BY <1>1, Fields, Zenon
<1>4. b.shown \in BOOLEAN /\ b.failed \in BOOLEAN
  BY <1>3
<1> DEFINE y == SetStatus(x, b.shown, b.failed)
<1>5. y \in Session /\ Kin(y, x)
  BY <1>1, <1>4, StatusRest, StatusKin
<1> HIDE DEF y
<1>6. Kin([y EXCEPT !.beat = {}], y)
  BY <1>5, MarkedKin
<1>7. Put(s, [y EXCEPT !.beat = {}])
  BY <1>2 DEF y
<1> QED BY <1>1, <1>5, <1>6, <1>7, KinKin, KinPut

LEMMA EvConnectedKin == ASSUME SessionsTypeOK, NEW s \in Sess, EvConnected(s) PROVE KinStep(s)
<1>1. sess[s] \in Session /\ Put(s, SetStatus(sess[s], sess[s].device # 0, FALSE))
  BY DEF SessionsTypeOK, EvConnected
<1>2. (sess[s].device # 0) \in BOOLEAN
  OBVIOUS
<1>3. Kin(SetStatus(sess[s], sess[s].device # 0, FALSE), sess[s])
  BY <1>1, <1>2, StatusKin
<1> QED BY <1>1, <1>3, KinPut

LEMMA EvDisconnectedKin == ASSUME SessionsTypeOK, NEW s \in Sess, EvDisconnected(s) PROVE KinStep(s)
<1> DEFINE y == SetStatus(sess[s], FALSE, FALSE)
<1>1. sess[s] \in Session /\ y \in Session /\ Kin(y, sess[s])
  BY StatusRest, StatusKin DEF SessionsTypeOK
<1>2. Put(s, [y EXCEPT !.disc = TRUE])
  BY DEF EvDisconnected
<1> HIDE DEF y
<1>3. Kin([y EXCEPT !.disc = TRUE], y)
  BY <1>1, MarkedKin
<1> QED BY <1>1, <1>2, <1>3, KinKin, KinPut

LEMMA EvLoggedOutKin ==
  ASSUME SessionsTypeOK, NEW s \in Sess, EvLoggedOut(s) PROVE KinStep(s) /\ sess'[s].device = 0
<1> DEFINE y == SetStatus(sess[s], FALSE, FALSE)
           z == [y EXCEPT !.disc = TRUE, !.device = 0]
<1>1. sess[s] \in Session /\ y \in Session /\ Kin(y, sess[s])
  BY StatusRest, StatusKin DEF SessionsTypeOK
<1>2. Put(s, z)
  BY DEF EvLoggedOut
<1> HIDE DEF y
<1>3. Kin(z, y) /\ z.device = 0
  BY <1>1, MarkedKin DEF Session
<1> HIDE DEF z
<1>4. sess'[s] = z
  BY <1>2 DEF Put, SessionsTypeOK
<1> QED BY <1>1, <1>2, <1>3, <1>4, KinKin, KinPut

(* Linking a phone changes the device, and leaves the request alone.        *)
LEMMA EvPairSuccessHeard ==
  ASSUME SessionsTypeOK, NEW s \in Sess, EvPairSuccess(s)
  PROVE  LET z == sess'[s]
         IN  /\ z.inst = sess[s].inst /\ z.cancelled = sess[s].cancelled /\ z.pc = sess[s].pc
             /\ z.device = pairs' /\ z.kept = (mapping' = pairs')
             /\ Heard(sess[s]) => Heard(z)
             /\ \A t \in Sess \ {s} : sess'[t] = sess[t]
<1> DEFINE x == sess[s]
           y == SetStatus(x, TRUE, FALSE)
           k == mapping' = pairs'
           z == [y EXCEPT !.device = pairs', !.kept = k]
<1>1. /\ y \in Session /\ y.pc = x.pc /\ y.mode = x.mode /\ y.gen = x.gen
      /\ y.seen = x.seen /\ y.token = x.token /\ y.woke = x.woke
      /\ y.inst = x.inst /\ y.cancelled = x.cancelled
  BY StatusRest DEF SessionsTypeOK
<1>2. Put(s, z) /\ k \in BOOLEAN
  BY DEF EvPairSuccess
<1> HIDE DEF y, k
<1>3. /\ z.pc = y.pc /\ z.mode = y.mode /\ z.gen = y.gen
      /\ z.seen = y.seen /\ z.token = y.token /\ z.woke = y.woke
  BY <1>1 DEF Session
<1>4. z.inst = y.inst /\ z.cancelled = y.cancelled /\ z.device = pairs' /\ z.kept = k
  BY <1>1 DEF Session
<1> HIDE DEF z
<1>5. sess'[s] = z /\ \A t \in Sess \ {s} : sess'[t] = sess[t]
  BY <1>2 DEF Put, SessionsTypeOK
<1>6. Heard(x) => Heard(z)
  BY <1>1, <1>3 DEF Heard
<1> QED BY <1>1, <1>3, <1>4, <1>5, <1>6 DEF k

-----------------------------------------------------------------------------
(* Where sessions are, and what the requests that wipe them aim at          *)

Wipe == {"unlink", "unmap", "close", "remove"}

(* A request that wipes a session was started in that session's process,    *)
(* and all but a reset have cancelled it.  A restore goroutine wipes none.  *)
Grounded(q) ==
  /\ q.pc \in {"look", "erase"} => q.target = 0
  /\ q.pc \in Wipe /\ q.target # 0 => /\ sess[q.target].inst = q.inst
                                      /\ q.kind # "reset" => sess[q.target].cancelled
Aims ==
  /\ \A p \in Proc : Grounded(req[p])
  /\ \A i \in Instance : req[i].pc \notin Wipe \cup {"look", "erase"}
Places ==
  /\ \A s \in Sess : sess[s].pc = "unborn" => sess[s].inst = NoOne
  /\ \A i \in Instance : reg[i] # 0 => sess[reg[i]].inst = i

(* A request that is about to install a device has the one of the mapping.  *)
Loaded ==
  \A p \in Proc : req[p].pc = "install" /\ req[p].dev \in stored /\ ~overtaken
                  => mapping = req[p].dev
(* A device that is linked next is a new one.                               *)
Fresh ==
  /\ mapping <= pairs
  /\ \A s \in Sess : sess[s].device <= pairs
  /\ \A p \in Proc : req[p].dev <= pairs

PairInv == AllHeard /\ Places /\ Aims /\ PairedSurvivesRestart /\ Loaded /\ Fresh

(* v is what became of the request u.                                       *)
Onward(v, u) ==
  /\ v.dev \in {u.dev, 0} /\ (v.pc = "install" => v = u)
  /\ \/ v = u
     \/ v.pc \notin Wipe \cup {"look", "erase"}
     \/ /\ v.pc \in Wipe /\ u.pc \in Wipe \cup {"erase"}
        /\ v.target = u.target /\ v.inst = u.inst /\ v.kind = u.kind
Orderly == \A q \in Proc : Onward(req'[q], req[q])
Follows == \A t \in Sess : Kin(sess'[t], sess[t]) /\ (Live(t)' => Live(t))
ClosingStays == \A t \in Sess : Closing(t) => Closing(t)' \/ ~Live(t)'
RegShrinks == \A i \in Instance : reg'[i] \in {reg[i], 0}

LEMMA HeardKept == ASSUME AllHeard, Follows PROVE AllHeard'
BY DEF AllHeard, Follows, Kin

LEMMA PlacesKept == ASSUME SessionsTypeOK, Places, Follows, RegShrinks PROVE Places'
<1>1. \A s \in Sess : sess'[s].inst = sess[s].inst /\ (sess'[s].pc = "unborn" => sess[s].pc = "unborn")
  BY DEF Follows, Kin
<1>2. \A i \in Instance : reg[i] \in Sess \cup {0} /\ reg'[i] \in {reg[i], 0}
  BY DEF SessionsTypeOK, RegShrinks
<1> QED BY <1>1, <1>2 DEF Places

LEMMA GroundedKept ==
  ASSUME SessionsTypeOK, Aims, Follows, NEW p \in Proc, Onward(req'[p], req[p])
  PROVE  Grounded(req[p])'
<1>1. \A s \in Sess : sess'[s].inst = sess[s].inst /\ (sess[s].cancelled => sess'[s].cancelled)
  BY DEF Follows, Kin
<1>2. PICK u : u = req[p] /\ u.target \in Sess \cup {0} /\ Grounded(u)
  BY DEF SessionsTypeOK, Request, Aims
<1>3. PICK v : v = req'[p]
  OBVIOUS
<1>4. Onward(v, u)
  BY <1>2, <1>3
<1>5. Grounded(v)'
  <2>1. CASE v = u
    BY <1>1, <1>2, <2>1 DEF Grounded
  <2>2. CASE v.pc \notin Wipe \cup {"look", "erase"}
    BY <2>2 DEF Grounded
  <2>4. CASE /\ v.pc \in Wipe /\ u.pc \in Wipe \cup {"erase"}
             /\ v.target = u.target /\ v.inst = u.inst /\ v.kind = u.kind
    <3>1. v.pc \notin {"look", "erase"}
      BY <2>4 DEF Wipe
    <3> QED BY <1>1, <1>2, <2>4, <3>1 DEF Grounded
  <2> QED BY <1>4, <2>1, <2>2, <2>4 DEF Onward
<1> QED BY <1>3, <1>5 DEF Grounded

LEMMA RestoresKept ==
  ASSUME Aims, Orderly
  PROVE  \A i \in Instance : req'[i].pc \notin Wipe \cup {"look", "erase"}
<1>1. ASSUME NEW i \in Instance PROVE req'[i].pc \notin Wipe \cup {"look", "erase"}
  <2>1. PICK u, v : u = req[i] /\ v = req'[i]
    OBVIOUS
  <2>2. Onward(v, u) /\ u.pc \notin Wipe \cup {"look", "erase"}
    BY <2>1, Apart DEF Orderly, Aims
  <2> QED BY <2>1, <2>2 DEF Onward, Wipe
<1> QED BY <1>1

LEMMA AimsKept == ASSUME SessionsTypeOK, Aims, Follows, Orderly PROVE Aims'
<1>1. \A p \in Proc : Grounded(req[p])'
  BY GroundedKept DEF Orderly
<1> QED BY <1>1, RestoresKept DEF Aims

LEMMA FreshKept ==
  ASSUME SessionsTypeOK, Fresh, Follows, Orderly, pairs' = pairs, mapping' \in {mapping, 0}
  PROVE  Fresh'
<1>1. pairs \in Nat
  BY Bounds DEF SessionsTypeOK
<1>2. \A s \in Sess : sess'[s].device \in {sess[s].device, 0}
  BY DEF Follows, Kin
<1>3. \A p \in Proc : req'[p].dev \in {req[p].dev, 0}
  BY DEF Orderly, Onward
<1> QED BY <1>1, <1>2, <1>3 DEF Fresh

LEMMA LoadedKept ==
  ASSUME SessionsTypeOK, Loaded, Orderly, stored' \subseteq stored, overtaken' = overtaken,
         mapping \in stored => mapping' = mapping
  PROVE  Loaded'
<1>1. ASSUME NEW p \in Proc, req'[p].pc = "install", req'[p].dev \in stored', ~overtaken'
      PROVE  mapping' = req'[p].dev
  <2>1. req'[p] = req[p]
    BY <1>1 DEF Orderly, Onward
  <2> QED BY <1>1, <2>1 DEF Loaded
<1> QED BY <1>1 DEF Loaded

LEMMA SurvivesKept ==
  ASSUME SessionsTypeOK, PairedSurvivesRestart, Follows, ClosingStays, stray \subseteq stray',
         stored' \subseteq stored, overtaken' = overtaken, mapping \in stored => mapping' = mapping
  PROVE  PairedSurvivesRestart'
<1>1. ASSUME NEW s \in Sess, s \notin stray', Live(s)', sess'[s].kept, sess'[s].device \in stored',
             ~Closing(s)', ~overtaken'
      PROVE  mapping' = sess'[s].device
  <2>1. 0 \notin stored
    BY DEF SessionsTypeOK, Dev
  <2>2. Live(s) /\ sess[s].kept /\ sess'[s].device = sess[s].device
    BY <1>1, <2>1 DEF Follows, Kin
  <2>3. ~Closing(s) /\ s \notin stray /\ sess[s].device \in stored
    BY <1>1, <2>2 DEF ClosingStays
  <2> QED BY <1>1, <2>2, <2>3 DEF PairedSurvivesRestart
<1> QED BY <1>1 DEF PairedSurvivesRestart

(* The steps that leave the mapping, or drop it without its device.         *)
LEMMA PairKept ==
  ASSUME SessionsTypeOK, PairInv, Follows, Orderly, ClosingStays, RegShrinks,
         stray \subseteq stray', stored' \subseteq stored, pairs' = pairs, overtaken' = overtaken,
         mapping' \in {mapping, 0}, mapping \in stored => mapping' = mapping
  PROVE  PairInv'
BY HeardKept, PlacesKept, AimsKept, FreshKept, LoadedKept, SurvivesKept DEF PairInv

LEMMA OnwardSelf == ASSUME NEW u PROVE Onward(u, u)
BY DEF Onward

LEMMA ReqStays == ASSUME req' = req PROVE Orderly /\ (\A t \in Sess : Closing(t) => Closing(t)')
BY OnwardSelf DEF Orderly, Closing

LEMMA KinFollows ==
  ASSUME SessionsTypeOK, NEW s \in Sess, KinStep(s), Quiet(s) PROVE Follows
BY KinAll, QuietLive DEF Follows

LEMMA SessionStays == ASSUME SessionsTypeOK, sess' = sess PROVE Follows
<1>1. \A t \in Sess : sess[t] \in Session
  BY DEF SessionsTypeOK
<1> QED BY <1>1, KinSelf DEF Follows, Live

(* A session's own steps.                                                   *)
LEMMA InsidePaired ==
  ASSUME SessionsTypeOK, PairInv, NEW s \in Sess, KinStep(s), Quiet(s),
         UNCHANGED <<reg, req, deviceVars>>, stray \subseteq stray'
  PROVE  PairInv'
<1>1. Follows /\ Orderly /\ ClosingStays
  BY KinFollows, ReqStays DEF ClosingStays
<1>2. RegShrinks
  BY DEF RegShrinks
<1> QED BY <1>1, <1>2, PairKept DEF deviceVars

LEMMA StepPaired ==
  ASSUME SessionsTypeOK, PairInv, NEW s \in Sess,
         Step(s) \/ WindowCloses(s) \/ DialFails(s) \/ FirstCloses(s) \/ Panic(s)
           \/ BeatRead(s) \/ BeatWrite(s) \/ EvConnected(s) \/ EvDisconnected(s)
  PROVE  PairInv'
<1>1. CASE Top(s)
  BY <1>1, TopKin, TopQuiet, InsidePaired DEF Top
<1>2. CASE Dial(s)
  BY <1>2, DialKin, DialQuiet, InsidePaired DEF Dial
<1>3. CASE FirstQR(s)
  BY <1>3, FirstQRKin, FirstQRQuiet, InsidePaired DEF FirstQR
<1>4. CASE Wake(s)
  BY <1>4, WakeKin, WakeQuiet, InsidePaired DEF Wake
<1>5. CASE ReviewMode(s)
  BY <1>5, ReviewModeKin, ReviewModeQuiet, InsidePaired DEF ReviewMode
<1>6. CASE Leave(s)
  BY <1>6, LeaveKin, LeaveQuiet, InsidePaired DEF Leave
<1>7. CASE Exit(s)
  BY <1>7, ExitKin, ExitQuiet, InsidePaired DEF Exit
<1>8. CASE WindowCloses(s)
  BY <1>8, WindowClosesKin, WindowClosesQuiet, InsidePaired DEF WindowCloses
<1>9. CASE DialFails(s)
  BY <1>9, DialFailsKin, DialFailsQuiet, InsidePaired DEF DialFails
<1>10. CASE FirstCloses(s)
  BY <1>10, FirstClosesKin, FirstClosesQuiet, InsidePaired DEF FirstCloses
<1>11. CASE Panic(s)
  <2>1. stray \subseteq stray' /\ UNCHANGED <<reg, req, deviceVars>>
    BY <1>11 DEF Panic
  <2> QED BY <1>11, <2>1, PanicKin, PanicQuiet, InsidePaired
<1>12. CASE BeatRead(s)
  BY <1>12, BeatReadKin, BeatReadQuiet, InsidePaired DEF BeatRead
<1>13. CASE BeatWrite(s)
  BY <1>13, BeatWriteKin, BeatWriteQuiet, InsidePaired DEF BeatWrite
<1>14. CASE EvConnected(s)
  BY <1>14, EvConnectedKin, EvConnectedQuiet, InsidePaired DEF EvConnected
<1>15. CASE EvDisconnected(s)
  BY <1>15, EvDisconnectedKin, EvDisconnectedQuiet, InsidePaired DEF EvDisconnected
<1> QED BY <1>1, <1>2, <1>3, <1>4, <1>5, <1>6, <1>7, <1>8, <1>9, <1>10, <1>11, <1>12, <1>13,
           <1>14, <1>15 DEF Step

(* Whoever writes the mapping holds the lock, and then nobody else has a    *)
(* stake in it; or the write is on record.                                  *)
LEMMA OwnerAlone ==
  ASSUME LockInv, NEW s \in Sess, lock = s
  PROVE  /\ \A t \in Sess \ stray : Live(t) => t = s
         /\ \A p \in Proc : req[p].pc # "install"
BY Apart DEF LockInv, LiveOwnsLock, StarterOwnsLock, Starting

LEMMA LoggedOutPaired ==
  ASSUME SessionsTypeOK, LockInv, PairInv, NEW s \in Sess, EvLoggedOut(s) PROVE PairInv'
<1>1. KinStep(s) /\ Quiet(s) /\ sess'[s].device = 0
  BY EvLoggedOutKin, EvLoggedOutQuiet
<1>2. /\ UNCHANGED <<reg, lock, req, pairs, stray>>
      /\ stored' \subseteq stored /\ mapping' \in {0, mapping}
      /\ overtaken' = (overtaken \/ lock # s)
  BY DEF EvLoggedOut
<1>3. Follows /\ Orderly /\ RegShrinks
  BY <1>1, <1>2, KinFollows, ReqStays DEF RegShrinks
<1>4. AllHeard' /\ Places' /\ Aims' /\ Fresh'
  BY <1>2, <1>3, HeardKept, PlacesKept, AimsKept, FreshKept DEF PairInv
<1>5. CASE lock # s
  BY <1>2, <1>4, <1>5 DEF PairInv, PairedSurvivesRestart, Loaded
<1>6. CASE lock = s
  <2>1. 0 \notin stored
    BY DEF SessionsTypeOK, Dev
  <2>2. PairedSurvivesRestart'
    BY <1>1, <1>2, <1>3, <1>6, <2>1, OwnerAlone DEF PairedSurvivesRestart, Follows
  <2>3. Loaded'
    BY <1>2, <1>6, OwnerAlone DEF Loaded
  <2> QED BY <1>4, <2>2, <2>3 DEF PairInv
<1> QED BY <1>5, <1>6

LEMMA PairSuccessPaired ==
  ASSUME SessionsTypeOK, LockInv, PairInv, NEW s \in Sess, EvPairSuccess(s) PROVE PairInv'
<1>1. /\ sess'[s].inst = sess[s].inst /\ sess'[s].cancelled = sess[s].cancelled
      /\ sess'[s].pc = sess[s].pc
      /\ sess'[s].device = pairs' /\ sess'[s].kept = (mapping' = pairs')
      /\ Heard(sess[s]) => Heard(sess'[s])
      /\ \A t \in Sess \ {s} : sess'[t] = sess[t]
  BY EvPairSuccessHeard
<1>2. /\ UNCHANGED <<reg, lock, req, stray>>
      /\ pairs' = pairs + 1 /\ mapping' \in {mapping, pairs'}
      /\ overtaken' = (overtaken \/ lock # s)
  BY DEF EvPairSuccess
<1>3. pairs \in Nat /\ mapping \in Nat /\ \A t \in Sess : sess[t].device \in Nat
  <2>1. \A d \in Dev \cup {0} : d \in Nat
    BY Bounds DEF Dev
  <2>2. \A t \in Sess : sess[t].device \in Dev \cup {0}
    BY Fields DEF SessionsTypeOK
  <2>3. mapping \in Dev \cup {0} /\ pairs \in Nat
    BY Bounds DEF SessionsTypeOK
  <2> QED BY <2>1, <2>2, <2>3
<1>4. AllHeard'
  BY <1>1 DEF PairInv, AllHeard
<1>5. Places'
  <2>1. \A t \in Sess : sess'[t].inst = sess[t].inst /\ sess'[t].pc = sess[t].pc
    BY <1>1
  <2> QED BY <1>2, <2>1 DEF PairInv, Places, SessionsTypeOK
<1>6. Aims'
  <2>1. \A t \in Sess : sess'[t].inst = sess[t].inst /\ sess'[t].cancelled = sess[t].cancelled
    BY <1>1
  <2>2. \A p \in Proc : req[p].target \in Sess \cup {0}
    BY DEF SessionsTypeOK, Request
  <2> QED BY <1>2, <2>1, <2>2 DEF PairInv, Aims, Grounded
<1>7. Fresh'
  <2>1. \A p \in Proc : req[p].dev \in Nat
    <3>1. \A d \in Dev \cup {0} : d \in Nat
      BY Bounds DEF Dev
    <3>2. \A p \in Proc : req[p].dev \in Dev \cup {0}
      BY DEF SessionsTypeOK, Request
    <3> QED BY <3>1, <3>2
  <2>2. mapping' <= pairs' /\ \A p \in Proc : req'[p].dev <= pairs'
    BY <1>2, <1>3, <2>1 DEF PairInv, Fresh
  <2>3. \A t \in Sess : sess'[t].device <= pairs'
    BY <1>1, <1>2, <1>3 DEF PairInv, Fresh
  <2> QED BY <2>2, <2>3 DEF Fresh
<1>8. CASE lock # s
  BY <1>2, <1>4, <1>5, <1>6, <1>7, <1>8 DEF PairInv, PairedSurvivesRestart, Loaded
<1>9. CASE lock = s
  <2>1. \A t \in Sess \ stray : t # s => ~Live(t)'
    BY <1>1, <1>9, OwnerAlone DEF Live
  <2>2. PairedSurvivesRestart'
    BY <1>1, <1>2, <2>1 DEF PairedSurvivesRestart
  <2>3. Loaded'
    BY <1>2, <1>9, OwnerAlone DEF Loaded
  <2> QED BY <1>4, <1>5, <1>6, <1>7, <2>2, <2>3 DEF PairInv
<1> QED BY <1>8, <1>9

-----------------------------------------------------------------------------
(* Requests *)

LEMMA ReqOnward ==
  ASSUME SessionsTypeOK, NEW p \in Proc, NEW v, req' = [req EXCEPT ![p] = v], Onward(v, req[p])
  PROVE  /\ Orderly
         /\ req[p].pc # "close" => \A t \in Sess : Closing(t) => Closing(t)'
<1>1. req'[p] = v /\ \A q \in Proc \ {p} : req'[q] = req[q]
  BY DEF SessionsTypeOK
<1>2. Orderly
  BY <1>1, OnwardSelf DEF Orderly
<1>3. ASSUME req[p].pc # "close", NEW t \in Sess, Closing(t) PROVE Closing(t)'
  <2>1. PICK r \in Proc : req[r].pc = "close" /\ req[r].target = t
    BY <1>3 DEF Closing
  <2> QED BY <1>1, <1>3, <2>1 DEF Closing
<1> QED BY <1>2, <1>3

LEMMA GotoOnward ==
  ASSUME SessionsTypeOK, NEW p \in Proc, NEW c \in Stage, Goto(p, c),
         c \notin {"install", "look", "erase"},
         c \in Wipe => req[p].pc \in Wipe \cup {"erase"}
  PROVE  /\ Orderly
         /\ req[p].pc # "close" => \A t \in Sess : Closing(t) => Closing(t)'
         /\ req'[p].pc = c /\ req'[p].target = req[p].target
<1> DEFINE v == [req[p] EXCEPT !.pc = c]
<1>1. req[p] \in Request
  BY DEF SessionsTypeOK
<1>2. /\ v.pc = c /\ v.inst = req[p].inst /\ v.target = req[p].target
      /\ v.kind = req[p].kind /\ v.dev = req[p].dev
  BY <1>1 DEF Request
<1>3. req' = [req EXCEPT ![p] = v] /\ req'[p] = v
  BY DEF Goto, SessionsTypeOK
<1> HIDE DEF v
<1>4. Onward(v, req[p])
  BY <1>2 DEF Onward
<1> QED BY <1>2, <1>3, <1>4, ReqOnward

LEMMA DoneOnward ==
  ASSUME SessionsTypeOK, NEW p \in Proc, Done(p)
  PROVE  Orderly /\ (req[p].pc # "close" => \A t \in Sess : Closing(t) => Closing(t)')
<1>1. NoReq.pc = "idle" /\ NoReq.dev = 0
  BY DEF NoReq
<1>2. Onward(NoReq, req[p])
  BY <1>1 DEF Onward, Wipe
<1> QED BY <1>2, ReqOnward DEF Done

LEMMA RefusedOnward ==
  ASSUME SessionsTypeOK, NEW p \in Proc, Refused(p)
  PROVE  Orderly /\ (req[p].pc # "close" => \A t \in Sess : Closing(t) => Closing(t)')
<1>1. "poll" \in Stage /\ "poll" \notin Wipe
  BY DEF Stage, Wipe
<1> QED BY <1>1, DoneOnward, GotoOnward DEF Refused

(* Steps of a request that write one session, or none.                      *)
Calm == sess' = sess \/ \E s \in Sess : KinStep(s) /\ Quiet(s)

LEMMA CalmFollows == ASSUME SessionsTypeOK, Calm PROVE Follows
BY SessionStays, KinFollows DEF Calm

LEMMA RequestPaired ==
  ASSUME SessionsTypeOK, PairInv, Calm, Orderly, \A t \in Sess : Closing(t) => Closing(t)',
         RegShrinks, UNCHANGED <<mapping, pairs, overtaken>>, stored' \subseteq stored,
         stray \subseteq stray'
  PROVE  PairInv'
<1>1. Follows /\ ClosingStays
  BY CalmFollows DEF ClosingStays
<1> QED BY <1>1, PairKept

LEMMA CancelCalm == ASSUME SessionsTypeOK, NEW s \in Sess, Put(s, Cancelled(sess[s])) PROVE Calm
<1>1. sess[s] \in Session
  BY DEF SessionsTypeOK
<1>2. KinStep(s)
  BY <1>1, MarkedKin, KinPut
<1> QED BY <1>2, CancelQuiet DEF Calm

LEMMA AskCalm ==
  ASSUME SessionsTypeOK, NEW s \in Sess, NEW k, Put(s, RequestPairing(sess[s], k)) PROVE Calm
<1>1. sess[s] \in Session
  BY DEF SessionsTypeOK
<1>2. KinStep(s)
  BY <1>1, AskedKin, KinPut
<1> QED BY <1>2, AskQuiet DEF Calm

(* Steps that write one request and no session.                             *)
LEMMA RewritePaired ==
  ASSUME SessionsTypeOK, PairInv, NEW p \in Proc, NEW v, req' = [req EXCEPT ![p] = v],
         UNCHANGED <<sess, reg, deviceVars, stray>>, req[p].pc # "close", Grounded(v),
         p \in Instance => v.pc \notin Wipe \cup {"look", "erase"},
         v.dev \in {mapping, 0},
         v.pc = "install" /\ v.dev \in stored => mapping = v.dev
  PROVE  PairInv'
<1>1. req'[p] = v /\ \A q \in Proc \ {p} : req'[q] = req[q]
  BY DEF SessionsTypeOK
<1>2. Follows /\ RegShrinks
  BY SessionStays DEF RegShrinks
<1>3. AllHeard' /\ Places'
  BY <1>2, HeardKept, PlacesKept DEF PairInv
<1>4. Aims'
  <2>1. ASSUME NEW q \in Proc PROVE Grounded(req[q])'
    BY <1>1 DEF PairInv, Aims, Grounded
  <2>2. \A i \in Instance : req'[i].pc \notin Wipe \cup {"look", "erase"}
    BY <1>1, Apart DEF PairInv, Aims
  <2> QED BY <2>1, <2>2 DEF Aims
<1>5. Fresh'
  <2>1. pairs \in Nat
    BY Bounds DEF SessionsTypeOK
  <2> QED BY <1>1, <2>1 DEF PairInv, Fresh, deviceVars
<1>6. Loaded'
  BY <1>1 DEF PairInv, Loaded, deviceVars
<1>7. \A t \in Sess : Closing(t) => Closing(t)'
  <2>1. ASSUME NEW t \in Sess, Closing(t) PROVE Closing(t)'
    <3>1. PICK r \in Proc : req[r].pc = "close" /\ req[r].target = t
      BY <2>1 DEF Closing
    <3> QED BY <1>1, <3>1 DEF Closing
  <2> QED BY <2>1
<1>8. PairedSurvivesRestart'
  BY <1>2, <1>7, SurvivesKept DEF PairInv, ClosingStays, deviceVars
<1> QED BY <1>3, <1>4, <1>5, <1>6, <1>8 DEF PairInv

LEMMA BeginPaired ==
  ASSUME SessionsTypeOK, PairInv, NEW r \in Req, NEW i \in Instance, NEW k \in Kinds, Begin(r, i, k)
  PROVE  PairInv'
<1> DEFINE v == [NoReq EXCEPT !.pc = FirstStep[k], !.kind = k, !.inst = i]
<1>1. FirstStep[k] \in {"find", "discard", "look"}
  BY SessionsAssumption DEF FirstStep
<1>2. v.pc = FirstStep[k] /\ v.dev = 0 /\ v.target = 0
  BY DEF NoReq
<1>3. req' = [req EXCEPT ![r] = v] /\ req[r].pc # "close" /\ UNCHANGED <<sess, reg, deviceVars, stray>>
  BY DEF Begin
<1> HIDE DEF v
<1>4. Grounded(v) /\ v.pc # "install"
  BY <1>1, <1>2 DEF Grounded
<1>5. r \in Proc /\ r \notin Instance
  BY SessionsAssumption DEF Proc
<1> QED BY <1>2, <1>3, <1>4, <1>5, RewritePaired

LEMMA PollPaired ==
  ASSUME SessionsTypeOK, PairInv, NEW i \in Instance, Poll(i) PROVE PairInv'
<1>1. "find" \in Stage /\ "find" \notin Wipe
  BY DEF Stage, Wipe
<1>2. Orderly /\ \A t \in Sess : Closing(t) => Closing(t)'
  BY <1>1, Apart, GotoOnward, DoneOnward DEF Poll
<1>3. UNCHANGED <<sess, reg, deviceVars, stray>>
  BY DEF Poll
<1> QED BY <1>2, <1>3, RequestPaired DEF Calm, RegShrinks, deviceVars

LEMMA DiscardPaired ==
  ASSUME SessionsTypeOK, PairInv, AtWork, NEW p \in Proc, Discard(p) PROVE PairInv'
<1> DEFINE i == req[p].inst
           s == reg[i]
           c == IF s = 0 THEN "find" ELSE "retire"
           v == [req[p] EXCEPT !.target = s, !.pc = c]
<1>1. req[p] \in Request /\ req[p].pc # "close" /\ i \in Instance
  BY DEF Discard, SessionsTypeOK, AtWork
<1>2. req' = [req EXCEPT ![p] = v]
  BY DEF Discard
<1>3. v.pc = c /\ v.dev = req[p].dev
  BY <1>1 DEF Request
<1>4. c \in {"find", "retire"}
  OBVIOUS
<1> HIDE DEF v, c
<1>5. Onward(v, req[p])
  BY <1>3, <1>4 DEF Onward, Wipe
<1>6. Orderly /\ \A t \in Sess : Closing(t) => Closing(t)'
  BY <1>1, <1>2, <1>5, ReqOnward
<1>7. UNCHANGED <<sess, deviceVars, stray>>
  BY DEF Discard
<1>8. RegShrinks
  BY DEF Discard, RegShrinks, SessionsTypeOK
<1> QED BY <1>6, <1>7, <1>8, RequestPaired DEF Calm, deviceVars

LEMMA RetirePaired ==
  ASSUME SessionsTypeOK, PairInv, AtWork, NEW p \in Proc, Retire(p) PROVE PairInv'
<1>1. PICK s \in Sess : s = req[p].target /\ req[p].pc = "retire"
  BY DEF Retire, AtWork, Aimed
<1>2. "find" \in Stage /\ "find" \notin Wipe
  BY DEF Stage, Wipe
<1>3. Orderly /\ \A t \in Sess : Closing(t) => Closing(t)'
  BY <1>1, <1>2, GotoOnward DEF Retire
<1>4. UNCHANGED <<reg, deviceVars, stray>>
  BY DEF Retire
<1>5. Calm
  BY <1>1, CancelCalm DEF Retire, Calm
<1> QED BY <1>3, <1>4, <1>5, RequestPaired DEF RegShrinks, deviceVars

LEMMA FindPaired ==
  ASSUME SessionsTypeOK, PairInv, AtWork, NEW p \in Proc, Find(p) PROVE PairInv'
<1>1. PICK s \in Sess \cup {0} : s = reg[req[p].inst] /\ req[p].pc = "find"
  BY DEF Find, SessionsTypeOK, AtWork
<1>2. "acquire" \in Stage /\ "acquire" \notin Wipe
  BY DEF Stage, Wipe
<1>3. Orderly /\ \A t \in Sess : Closing(t) => Closing(t)'
  BY <1>1, <1>2, GotoOnward, DoneOnward DEF Find
<1>4. UNCHANGED <<reg, deviceVars, stray>>
  BY DEF Find
<1>5. Calm
  <2>1. CASE s # 0
    BY <1>1, <2>1, AskCalm DEF Find
  <2>2. CASE s = 0
    BY <1>1, <2>2 DEF Find, Calm
  <2> QED BY <2>1, <2>2
<1> QED BY <1>3, <1>4, <1>5, RequestPaired DEF RegShrinks, deviceVars

(* The wake-up and the device of a new session.                             *)
LEMMA Newborn ==
  ASSUME NEW i \in Instance, NEW d \in Dev \cup {0}, NEW k
  PROVE  LET y == RequestPairing(Born(i, d), k)
         IN  /\ Heard(y) /\ y.inst = i /\ y.device \in {d, 0} /\ y.pc = "top"
             /\ Born(i, d) \in Session
<1> DEFINE b == Born(i, d)
           y == RequestPairing(b, k)
<1>1. b \in Session
  <2>1. ASSUME NEW c \in BOOLEAN
        PROVE  [Unborn EXCEPT !.pc = "top", !.inst = i, !.device = d, !.kept = c] \in Session
    BY Stages, UnbornType DEF Session
  <2> QED BY <2>1 DEF Born
<1>2. b.gen = 0 /\ b.seen = 0 /\ b.pc = "top" /\ b.inst = i /\ b.device = d
  BY DEF Born, Unborn
<1> HIDE DEF b
<1>3. Heard(b)
  BY <1>2 DEF Heard
<1>4. Kin(y, b) /\ y.pc = b.pc
  BY <1>1, AskedKin, RequestPairingType
<1>5. Heard(y) /\ y.inst = i /\ y.device \in {d, 0} /\ y.pc = "top"
  BY <1>2, <1>3, <1>4 DEF Kin
<1> QED BY <1>1, <1>5 DEF b

(* A session is born to whoever holds the lock, or had it for the taking.   *)
LEMMA BirthPaired ==
  ASSUME SessionsTypeOK, PairInv, AtWork, NEW s \in Sess, sess[s].pc = "unborn",
         NEW i \in Instance, NEW y, Put(s, y), Heard(y), y.inst = i, y.pc = "top",
         y.device \in Dev \cup {0}, y.device \in stored /\ ~overtaken => mapping = y.device,
         y.device <= pairs, reg' = [reg EXCEPT ![i] = s], Orderly,
         UNCHANGED <<mapping, stored, pairs, overtaken, stray>>,
         \A t \in Sess \ stray : Live(t) => FALSE,
         \A q \in Proc : req'[q].pc # "install"
  PROVE  PairInv'
<1>1. sess'[s] = y /\ \A t \in Sess \ {s} : sess'[t] = sess[t]
  BY DEF Put, SessionsTypeOK
<1>2. sess[s].inst = NoOne /\ NoOne \notin Instance
  BY Apart DEF PairInv, Places
<1>3. AllHeard'
  BY <1>1 DEF PairInv, AllHeard
<1>4. Places'
  <2>1. reg'[i] = s /\ \A j \in Instance \ {i} : reg'[j] = reg[j]
    BY DEF SessionsTypeOK
  <2>4. \A j \in Instance : reg[j] # s
    BY <1>2, Apart DEF PairInv, Places
  <2>2. \A t \in Sess : sess'[t].pc = "unborn" => sess'[t].inst = NoOne
    BY <1>1 DEF PairInv, Places
  <2>3. \A j \in Instance : reg'[j] # 0 => sess'[reg'[j]].inst = j
    BY <1>1, <2>1, <2>4 DEF PairInv, Places, SessionsTypeOK
  <2> QED BY <2>2, <2>3 DEF Places
<1>5. Aims'
  <2>1. ASSUME NEW p \in Proc PROVE Grounded(req[p])'
    <3>1. PICK u : /\ u = req[p] /\ u.target \in Sess \cup {0} /\ Grounded(u)
                   /\ u.pc # "idle" => u.inst \in Instance
      BY DEF SessionsTypeOK, Request, PairInv, Aims, AtWork
    <3>2. PICK v : v = req'[p]
      OBVIOUS
    <3>3. Onward(v, u)
      BY <3>1, <3>2 DEF Orderly
    <3>4. u.pc \in Wipe /\ u.target # 0 => u.target # s /\ u.target \in Sess
      BY <1>2, <3>1 DEF Grounded, Wipe
    <3>5. Grounded(v)'
      <4>1. CASE v = u
        BY <1>1, <3>1, <3>4, <4>1 DEF Grounded
      <4>2. CASE v.pc \notin Wipe \cup {"look", "erase"}
        BY <4>2 DEF Grounded
      <4>4. CASE /\ v.pc \in Wipe /\ u.pc \in Wipe \cup {"erase"}
                 /\ v.target = u.target /\ v.inst = u.inst /\ v.kind = u.kind
        <5>1. v.pc \notin {"look", "erase"}
          BY <4>4 DEF Wipe
        <5> QED BY <1>1, <3>1, <3>4, <4>4, <5>1 DEF Grounded
      <4> QED BY <3>3, <4>1, <4>2, <4>4 DEF Onward
    <3> QED BY <3>2, <3>5 DEF Grounded
  <2> QED BY <2>1, RestoresKept DEF Aims, PairInv
<1>6. Fresh'
  <2>1. pairs \in Nat
    BY Bounds DEF SessionsTypeOK
  <2>2. \A p \in Proc : req'[p].dev \in {req[p].dev, 0}
    BY DEF Orderly, Onward
  <2> QED BY <1>1, <2>1, <2>2 DEF PairInv, Fresh
<1>7. PairedSurvivesRestart'
  <2>1. \A t \in Sess \ stray : t # s => ~Live(t)'
    BY <1>1 DEF Live
  <2> QED BY <1>1, <2>1 DEF PairedSurvivesRestart
<1>8. Loaded'
  BY DEF Loaded
<1> QED BY <1>3, <1>4, <1>5, <1>6, <1>7, <1>8 DEF PairInv

LEMMA InstallPaired ==
  ASSUME SessionsTypeOK, LockInv, AtWork, PairInv, NEW p \in Proc, Install(p) PROVE PairInv'
<1>1. PICK i \in Instance : i = req[p].inst /\ req[p].pc = "install"
  BY DEF Install, AtWork
<1>2. PICK e \in Sess \cup {0} : e = reg[i]
  BY DEF SessionsTypeOK
<1>3. PICK d \in Dev \cup {0} : d = req[p].dev
  BY DEF SessionsTypeOK, Request
<1>4. Done(p) /\ UNCHANGED <<deviceVars, stray>>
  BY DEF Install
<1>5. Orderly /\ \A t \in Sess : Closing(t) => Closing(t)'
  BY <1>1, <1>4, DoneOnward
<1>6. CASE e # 0 /\ Put(e, RequestPairing(sess[e], req[p].kind)) /\ UNCHANGED reg
  <2>1. Calm
    BY <1>6, AskCalm
  <2> QED BY <1>4, <1>5, <1>6, <2>1, RequestPaired DEF RegShrinks, deviceVars
<1>7. CASE \E s \in Sess : /\ IsNext(s)
                           /\ Put(s, RequestPairing(Born(i, d), req[p].kind))
                           /\ reg' = [reg EXCEPT ![i] = s]
  <2>1. PICK s \in Sess : /\ IsNext(s)
                          /\ Put(s, RequestPairing(Born(i, d), req[p].kind))
                          /\ reg' = [reg EXCEPT ![i] = s]
    BY <1>7
  <2> DEFINE y == RequestPairing(Born(i, d), req[p].kind)
  <2>2. Heard(y) /\ y.inst = i /\ y.device \in {d, 0} /\ y.pc = "top"
    BY Newborn
  <2> HIDE DEF y
  <2>3. lock = p
    BY <1>1 DEF LockInv, StarterOwnsLock, Starting
  <2>4. \A t \in Sess \ stray : Live(t) => FALSE
    BY <2>3, Apart DEF LockInv, LiveOwnsLock
  <2>5. \A q \in Proc : req'[q].pc # "install"
    <3>1. \A q \in Proc \ {p} : req'[q] = req[q] /\ req[q].pc # "install"
      BY <1>4, <2>3 DEF Done, SessionsTypeOK, LockInv, StarterOwnsLock, Starting
    <3>2. req'[p].pc = "idle"
      BY <1>4, NoReqType DEF Done, SessionsTypeOK
    <3> QED BY <3>1, <3>2
  <2>6. y.device \in stored /\ ~overtaken => mapping = y.device
    <3>1. 0 \notin stored
      BY DEF SessionsTypeOK, Dev
    <3> QED BY <1>1, <1>3, <2>2, <3>1 DEF PairInv, Loaded
  <2>7. y.device <= pairs /\ y.device \in Dev \cup {0}
    <3>1. d <= pairs /\ pairs \in Nat
      BY <1>3, Bounds DEF PairInv, Fresh, SessionsTypeOK
    <3> QED BY <1>3, <2>2, <3>1
  <2>8. Put(s, y) /\ sess[s].pc = "unborn"
    BY <2>1 DEF y, IsNext
  <2> QED BY <1>4, <1>5, <2>1, <2>2, <2>4, <2>5, <2>6, <2>7, <2>8, BirthPaired DEF deviceVars
<1> QED BY <1>1, <1>2, <1>3, <1>6, <1>7 DEF Install

LEMMA LoadPaired ==
  ASSUME SessionsTypeOK, PairInv, NEW p \in Proc, Load(p) PROVE PairInv'
<1>1. req[p].pc = "load" /\ req[p] \in Request /\ UNCHANGED <<sess, reg, deviceVars, stray>>
  BY DEF Load, SessionsTypeOK
<1>2. CASE Refused(p)
  BY <1>1, <1>2, RefusedOnward, RequestPaired DEF Calm, RegShrinks, deviceVars
<1>3. CASE req' = [req EXCEPT ![p].pc = "install", ![p].dev = IF mapping \in stored THEN mapping ELSE 0]
  <2> DEFINE d == IF mapping \in stored THEN mapping ELSE 0
             v == [req[p] EXCEPT !.pc = "install", !.dev = d]
  <2>1. req' = [req EXCEPT ![p] = v]
    BY <1>3
  <2>2. v.pc = "install" /\ v.dev = d
    BY <1>1 DEF Request
  <2>3. 0 \notin stored
    BY DEF SessionsTypeOK, Dev
  <2>4. d \in {mapping, 0} /\ (d \in stored => d = mapping)
    BY <2>3
  <2> HIDE DEF v, d
  <2>5. Grounded(v) /\ v.pc \notin Wipe \cup {"look", "erase"}
    BY <2>2 DEF Grounded, Wipe
  <2> QED BY <1>1, <2>1, <2>2, <2>4, <2>5, RewritePaired
<1> QED BY <1>2, <1>3 DEF Load

LEMMA AcquirePaired ==
  ASSUME SessionsTypeOK, PairInv, NEW p \in Proc, Acquire(p) PROVE PairInv'
<1>1. "load" \in Stage /\ "load" \notin Wipe
  BY DEF Stage, Wipe
<1>2. Orderly /\ \A t \in Sess : Closing(t) => Closing(t)'
  BY <1>1, GotoOnward, RefusedOnward DEF Acquire
<1>3. UNCHANGED <<sess, reg, deviceVars, stray>>
  BY DEF Acquire
<1> QED BY <1>2, <1>3, RequestPaired DEF Calm, RegShrinks, deviceVars

LEMMA LookFailsPaired ==
  ASSUME SessionsTypeOK, PairInv, NEW r \in Proc, LookFails(r) PROVE PairInv'
<1>1. Orderly /\ \A t \in Sess : Closing(t) => Closing(t)'
  BY DoneOnward DEF LookFails
<1>2. UNCHANGED <<sess, reg, deviceVars, stray>>
  BY DEF LookFails
<1> QED BY <1>1, <1>2, RequestPaired DEF Calm, RegShrinks, deviceVars

LEMMA LookPaired ==
  ASSUME SessionsTypeOK, AtWork, PairInv, NEW r \in Proc, Look(r) PROVE PairInv'
<1>1. PICK i \in Instance : i = req[r].inst /\ req[r].pc = "look" /\ req[r] \in Request
  BY DEF Look, SessionsTypeOK, AtWork
<1>2. PICK s \in Sess \cup {0} : s = reg[i]
  BY DEF SessionsTypeOK
<1>3. UNCHANGED <<reg, deviceVars, stray>>
  BY DEF Look
<1>4. Calm /\ (req[r].kind # "reset" /\ s # 0 => sess'[s].cancelled)
  <2>1. CASE s = 0
    BY <1>1, <1>2, <2>1 DEF Look, Calm
  <2>2. CASE s # 0 /\ req[r].kind # "reset"
    <3>1. Put(s, Cancelled(sess[s])) /\ s \in Sess
      BY <1>1, <1>2, <2>2 DEF Look
    <3>2. sess'[s].cancelled
      BY <3>1, Stopped DEF Put, SessionsTypeOK
    <3> QED BY <3>1, <3>2, CancelCalm
  <2>3. CASE s # 0 /\ req[r].kind = "reset"
    <3> DEFINE y == SetStatus(sess[s], FALSE, FALSE)
               z == [y EXCEPT !.resetting = TRUE, !.mode = ""]
    <3>1. Put(s, z) /\ s \in Sess /\ sess[s] \in Session
      BY <1>1, <1>2, <2>3 DEF Look, SessionsTypeOK
    <3>2. y \in Session /\ Kin(y, sess[s]) /\ y.pc = sess[s].pc /\ y.cancelled = sess[s].cancelled
      BY <3>1, StatusRest, StatusKin
    <3> HIDE DEF y
    <3>3. Kin(z, y) /\ SameStage(z, y)
      BY <3>2, MarkedKin, Marked
    <3> HIDE DEF z
    <3>4. KinStep(s)
      BY <3>1, <3>2, <3>3, KinKin, KinPut
    <3>5. Quiet(s)
      BY <3>1, <3>2, <3>3, QuietPut DEF SameStage, Same, Live
    <3> QED BY <2>3, <3>1, <3>4, <3>5 DEF Calm
  <2> QED BY <2>1, <2>2, <2>3
<1>5. Follows
  BY <1>4, CalmFollows
<1>6. CASE req[r].kind = "disconnect"
  <2>1. Done(r)
    BY <1>1, <1>2, <1>6 DEF Look, Done
  <2> QED BY <1>1, <1>3, <1>4, <2>1, DoneOnward, RequestPaired DEF RegShrinks, deviceVars
<1>7. CASE req[r].kind # "disconnect"
  <2> DEFINE d == IF mapping \in stored THEN mapping ELSE 0
             v == IF s # 0 THEN [req[r] EXCEPT !.pc = "unlink", !.target = s]
                           ELSE [req[r] EXCEPT !.pc = "erase", !.dev = d]
  <2>1. req' = [req EXCEPT ![r] = v]
    BY <1>1, <1>2, <1>7 DEF Look
  <2>2. /\ v.inst = i /\ v.kind = req[r].kind
        /\ s # 0 => v.pc = "unlink" /\ v.target = s /\ v.dev = req[r].dev
        /\ s = 0 => v.pc = "erase" /\ v.target = req[r].target /\ v.dev = d
    BY <1>1 DEF Request
  <2>3. req[r].target = 0
    BY <1>1 DEF PairInv, Aims, Grounded
  <2> HIDE DEF v
  <2>4. req'[r] = v /\ \A q \in Proc \ {r} : req'[q] = req[q]
    BY <2>1 DEF SessionsTypeOK
  <2>5. AllHeard' /\ Places'
    BY <1>3, <1>5, HeardKept, PlacesKept DEF PairInv, RegShrinks
  <2>6. Aims'
    <3>1. s # 0 => sess'[s].inst = i
      BY <1>2, <1>3, <2>5 DEF Places
    <3>2. Grounded(req[r])'
      BY <1>4, <2>2, <2>3, <2>4, <3>1 DEF Grounded, Wipe
    <3>3. ASSUME NEW q \in Proc, q # r PROVE Grounded(req[q])'
      <4>1. Onward(req'[q], req[q])
        BY <2>4, <3>3, OnwardSelf
      <4> QED BY <1>5, <4>1, GroundedKept DEF PairInv
    <3>4. \A j \in Instance : req'[j].pc \notin Wipe \cup {"look", "erase"}
      BY <1>1, <2>4, Apart DEF PairInv, Aims
    <3> QED BY <3>2, <3>3, <3>4 DEF Aims
  <2>7. Fresh'
    <3>1. pairs \in Nat /\ d \in {mapping, 0}
      BY Bounds DEF SessionsTypeOK
    <3>2. \A t \in Sess : sess'[t].device \in {sess[t].device, 0}
      BY <1>5 DEF Follows, Kin
    <3>3. \A q \in Proc : req'[q].dev \in {req[q].dev, mapping, 0}
      BY <2>2, <2>4, <3>1
    <3> QED BY <1>3, <3>1, <3>2, <3>3 DEF PairInv, Fresh, deviceVars
  <2>8. Loaded'
    BY <1>3, <2>2, <2>4 DEF PairInv, Loaded, deviceVars
  <2>9. \A t \in Sess : Closing(t) => Closing(t)'
    <3>1. ASSUME NEW t \in Sess, Closing(t) PROVE Closing(t)'
      <4>1. PICK q \in Proc : req[q].pc = "close" /\ req[q].target = t
        BY <3>1 DEF Closing
      <4> QED BY <1>1, <2>4, <4>1 DEF Closing
    <3> QED BY <3>1
  <2>10. PairedSurvivesRestart'
    BY <1>3, <1>5, <2>9, SurvivesKept DEF PairInv, ClosingStays, deviceVars
  <2> QED BY <2>5, <2>6, <2>7, <2>8, <2>10 DEF PairInv
<1> QED BY <1>6, <1>7

LEMMA WipeWays ==
  /\ Wipe \subseteq Stage
  /\ {"unmap", "remove", "close", "unlink"} \subseteq Wipe
  /\ \A c \in Wipe : c \notin {"install", "look", "erase"}
BY DEF Wipe, Stage

LEMMA UnlinkPaired ==
  ASSUME SessionsTypeOK, AtWork, PairInv, NEW r \in Proc, Unlink(r) PROVE PairInv'
<1>1. PICK s \in Sess : s = req[r].target /\ req[r].pc = "unlink" /\ sess[s] \in Session
  BY DEF Unlink, AtWork, Aimed, SessionsTypeOK
<1>2. PICK c \in {"unmap", "remove"} : Goto(r, c)
  BY DEF Unlink
<1>3. Orderly /\ \A t \in Sess : Closing(t) => Closing(t)'
  BY <1>1, <1>2, GotoOnward, WipeWays
<1>4. PICK d \in {sess[s].device, 0} : Put(s, [sess[s] EXCEPT !.device = d])
  BY <1>1 DEF Unlink
<1>5. d \in Dev \cup {0}
  BY <1>1, <1>4, Fields
<1>6. Kin([sess[s] EXCEPT !.device = d], sess[s]) /\ SameStage([sess[s] EXCEPT !.device = d], sess[s])
  BY <1>1, <1>4, <1>5, MarkedKin, Marked
<1>7. KinStep(s) /\ Quiet(s)
  BY <1>4, <1>6, KinPut, QuietPut DEF SameStage, Same, Live
<1>8. stored' \subseteq stored /\ UNCHANGED <<reg, mapping, pairs, overtaken, stray>>
  BY DEF Unlink
<1> QED BY <1>3, <1>7, <1>8, RequestPaired DEF Calm, RegShrinks

LEMMA UnlinkFailsPaired ==
  ASSUME SessionsTypeOK, AtWork, PairInv, NEW r \in Proc, UnlinkFails(r) PROVE PairInv'
<1>1. PICK s \in Sess : s = req[r].target /\ req[r].pc = "unlink" /\ sess[s] \in Session
  BY DEF UnlinkFails, AtWork, Aimed, SessionsTypeOK
<1>2. Orderly /\ \A t \in Sess : Closing(t) => Closing(t)'
  BY <1>1, GotoOnward, WipeWays DEF UnlinkFails
<1>3. Calm
  <2>1. CASE req[r].kind = "reset"
    BY <1>1, <2>1, CancelCalm DEF UnlinkFails
  <2>2. CASE req[r].kind # "reset"
    BY <1>1, <2>2 DEF UnlinkFails, Put, Calm, SessionsTypeOK
  <2> QED BY <2>1, <2>2
<1>4. UNCHANGED <<reg, deviceVars, stray>>
  BY DEF UnlinkFails
<1> QED BY <1>2, <1>3, <1>4, RequestPaired DEF RegShrinks, deviceVars

LEMMA ErasePaired ==
  ASSUME SessionsTypeOK, PairInv, NEW r \in Proc, Erase(r) PROVE PairInv'
<1>1. Orderly /\ \A t \in Sess : Closing(t) => Closing(t)'
  BY GotoOnward, WipeWays DEF Erase
<1>2. stored' \subseteq stored /\ UNCHANGED <<sess, reg, mapping, pairs, overtaken, stray>>
  BY DEF Erase
<1> QED BY <1>1, <1>2, RequestPaired DEF Calm, RegShrinks

(* The mapping is deleted: by the reset that closes its own session, after  *)
(* its session was cancelled, when there is none, or past the lock's holder.*)
LEMMA UnmapPaired ==
  ASSUME SessionsTypeOK, LockInv, PairInv, NEW r \in Proc, Unmap(r) PROVE PairInv'
<1>1. PICK s \in Sess \cup {0} : s = req[r].target /\ req[r].pc = "unmap"
  BY DEF Unmap, SessionsTypeOK, Request
<1>2. UNCHANGED <<reg, lock, stored, pairs, stray>>
  BY DEF Unmap
<1>3. /\ Done(r) \/ Goto(r, "remove") \/ (s # 0 /\ Goto(r, "close"))
      /\ s # 0 /\ req[r].kind = "reset" /\ mapping' # mapping => Goto(r, "close")
  BY <1>1 DEF Unmap
<1>4. Orderly /\ \A t \in Sess : Closing(t) => Closing(t)'
  BY <1>1, <1>3, DoneOnward, GotoOnward, WipeWays
<1>5. Calm
  BY <1>1, CancelCalm DEF Unmap, Calm
<1>6. CASE UNCHANGED <<mapping, overtaken>>
  BY <1>2, <1>4, <1>5, <1>6, RequestPaired DEF RegShrinks
<1>7. CASE /\ mapping' = 0 /\ overtaken' = (overtaken \/ lock \notin {NoOne, s}) /\ mapping' # mapping
  <2>1. Follows /\ RegShrinks
    BY <1>2, <1>5, CalmFollows DEF RegShrinks
  <2>2. AllHeard' /\ Places' /\ Aims' /\ Fresh'
    BY <1>2, <1>4, <1>7, <2>1, HeardKept, PlacesKept, AimsKept, FreshKept DEF PairInv
  <2>3. CASE lock \notin {NoOne, s}
    BY <1>7, <2>2, <2>3 DEF PairInv, PairedSurvivesRestart, Loaded
  <2>4. CASE lock \in {NoOne, s}
    <3>1. \A q \in Proc : req[q].pc # "install"
      BY <1>1, <2>4, Apart DEF LockInv, StarterOwnsLock, Starting
    <3>2. Loaded'
      BY <1>4, <3>1 DEF Loaded, Orderly, Onward
    <3>3. ASSUME NEW t \in Sess, t \notin stray', Live(t)' PROVE Closing(t)'
      <4>1. Live(t) /\ lock = t
        BY <1>2, <2>1, <3>3 DEF Follows, LockInv, LiveOwnsLock
      <4>2. t = s /\ s # 0
        BY <2>4, <4>1, Apart
      <4>3. req[r].kind = "reset"
        BY <1>1, <4>1, <4>2 DEF PairInv, Aims, Grounded, Wipe, Live
      <4>4. Goto(r, "close")
        BY <1>3, <1>7, <4>2, <4>3
      <4>5. req'[r].pc = "close" /\ req'[r].target = s
        BY <1>1, <4>4, GotoOnward, WipeWays
      <4> QED BY <4>2, <4>5 DEF Closing
    <3>4. PairedSurvivesRestart'
      BY <3>3 DEF PairedSurvivesRestart
    <3> QED BY <2>2, <3>2, <3>4 DEF PairInv
  <2> QED BY <2>3, <2>4
<1>8. CASE mapping' = mapping /\ overtaken' = (overtaken \/ lock \notin {NoOne, s})
  <2>1. CASE overtaken'
    <3>1. Follows /\ RegShrinks
      BY <1>2, <1>5, CalmFollows DEF RegShrinks
    <3>2. AllHeard' /\ Places' /\ Aims' /\ Fresh'
      BY <1>2, <1>4, <1>8, <3>1, HeardKept, PlacesKept, AimsKept, FreshKept DEF PairInv
    <3> QED BY <2>1, <3>2 DEF PairInv, PairedSurvivesRestart, Loaded
  <2>2. CASE ~overtaken'
    <3>1. overtaken' = overtaken
      BY <1>8, <2>2 DEF SessionsTypeOK
    <3> QED BY <1>6, <1>8, <3>1
  <2> QED BY <2>1, <2>2
<1> QED BY <1>1, <1>6, <1>7, <1>8 DEF Unmap

LEMMA ClosePaired ==
  ASSUME SessionsTypeOK, AtWork, PairInv, NEW r \in Proc, Close(r) PROVE PairInv'
<1>1. PICK s \in Sess : s = req[r].target /\ req[r].pc = "close" /\ sess[s] \in Session
  BY DEF Close, AtWork, Aimed, SessionsTypeOK
<1> DEFINE z == [Cancelled(sess[s]) EXCEPT !.device = 0, !.client = "off"]
<1>2. Put(s, z) /\ Goto(r, "remove") /\ UNCHANGED <<reg, deviceVars, stray>>
  BY <1>1 DEF Close
<1>3. Kin(z, sess[s]) /\ z \in Session /\ z.cancelled
  BY <1>1, MarkedKin, Stopped
<1> HIDE DEF z
<1>4. KinStep(s) /\ Quiet(s)
  BY <1>2, <1>3, KinPut, QuietPut
<1>5. Follows /\ RegShrinks
  BY <1>2, <1>4, KinFollows DEF RegShrinks
<1>6. Orderly
  BY <1>1, <1>2, GotoOnward, WipeWays
<1>7. ~Live(s)'
  BY <1>2, <1>3 DEF Put, SessionsTypeOK, Live
<1>8. ClosingStays
  <2>1. ASSUME NEW t \in Sess, Closing(t) PROVE Closing(t)' \/ ~Live(t)'
    <3>1. PICK q \in Proc : req[q].pc = "close" /\ req[q].target = t
      BY <2>1 DEF Closing
    <3>2. CASE q = r
      BY <1>1, <1>7, <3>1, <3>2
    <3>3. CASE q # r
      <4>1. req'[q] = req[q]
        BY <1>2, <3>3 DEF Goto, SessionsTypeOK
      <4> QED BY <3>1, <4>1 DEF Closing
    <3> QED BY <3>2, <3>3
  <2> QED BY <2>1 DEF ClosingStays
<1> QED BY <1>2, <1>5, <1>6, <1>8, PairKept DEF deviceVars

LEMMA RemoveShrinks ==
  ASSUME SessionsTypeOK, NEW i \in Instance, Remove(i) PROVE RegShrinks /\ stray \subseteq stray'
BY DEF SessionsTypeOK, Remove, RegShrinks

LEMMA RemoveEntryPaired ==
  ASSUME SessionsTypeOK, AtWork, PairInv, NEW r \in Proc, RemoveEntry(r) PROVE PairInv'
<1>1. req[r].inst \in Instance /\ req[r].pc = "remove"
  BY DEF RemoveEntry, AtWork
<1>2. Orderly /\ \A t \in Sess : Closing(t) => Closing(t)'
  BY <1>1, GotoOnward, DoneOnward, WipeWays DEF RemoveEntry
<1>3. Remove(req[r].inst) /\ UNCHANGED <<sess, deviceVars>>
  BY DEF RemoveEntry
<1> QED BY <1>1, <1>2, <1>3, RemoveShrinks, RequestPaired DEF Calm, deviceVars

LEMMA LateRemovePaired ==
  ASSUME SessionsTypeOK, PairInv, NEW i \in Instance, LateRemove(i) PROVE PairInv'
<1>1. Remove(i) /\ UNCHANGED <<sess, req, deviceVars>>
  BY DEF LateRemove
<1> QED BY <1>1, ReqStays, RemoveShrinks, RequestPaired DEF Calm, deviceVars

LEMMA BootPaired ==
  ASSUME SessionsTypeOK, LockInv, AtWork, PairInv, NEW i \in Instance, Boot(i) PROVE PairInv'
<1>1. UNCHANGED <<stored, pairs, overtaken, stray>>
  BY DEF Boot
<1>2. CASE /\ UNCHANGED <<sess, reg, req>> /\ mapping' \in {mapping, 0}
           /\ mapping \in stored => mapping' = mapping
  <2>1. Follows /\ Orderly /\ ClosingStays /\ RegShrinks
    BY <1>2, SessionStays, ReqStays DEF ClosingStays, RegShrinks
  <2> QED BY <1>1, <1>2, <2>1, PairKept
<1>3. CASE /\ lock = NoOne /\ mapping \in stored
           /\ \E s \in Sess : /\ IsNext(s)
                              /\ Put(s, Born(i, mapping))
                              /\ reg' = [reg EXCEPT ![i] = s]
           /\ UNCHANGED <<req, mapping>>
  <2>1. PICK s \in Sess : /\ IsNext(s)
                          /\ Put(s, Born(i, mapping))
                          /\ reg' = [reg EXCEPT ![i] = s]
    BY <1>3
  <2>2. mapping \in Dev \cup {0} /\ mapping <= pairs
    BY DEF SessionsTypeOK, PairInv, Fresh
  <2> DEFINE y == Born(i, mapping)
  <2>3. y.gen = 0 /\ y.seen = 0 /\ y.pc = "top" /\ y.inst = i /\ y.device = mapping
    BY DEF Born, Unborn
  <2>4. Put(s, y) /\ sess[s].pc = "unborn"
    BY <2>1 DEF IsNext
  <2> HIDE DEF y
  <2>5. Heard(y)
    BY <2>3 DEF Heard
  <2>6. \A t \in Sess \ stray : Live(t) => FALSE
    BY <1>3, Apart DEF LockInv, LiveOwnsLock
  <2>7. Orderly /\ \A q \in Proc : req'[q].pc # "install"
    BY <1>3, ReqStays, Apart DEF LockInv, StarterOwnsLock, Starting
  <2> QED BY <1>1, <1>3, <2>1, <2>2, <2>3, <2>4, <2>5, <2>6, <2>7, BirthPaired
<1>4. CASE /\ req' = [req EXCEPT ![i] = [NoReq EXCEPT !.pc = "poll", !.kind = "restore", !.inst = i]]
           /\ UNCHANGED <<sess, reg, mapping>>
  <2> DEFINE v == [NoReq EXCEPT !.pc = "poll", !.kind = "restore", !.inst = i]
  <2>1. v.pc = "poll" /\ v.dev = 0
    BY DEF NoReq
  <2>2. req' = [req EXCEPT ![i] = v]
    BY <1>4
  <2> HIDE DEF v
  <2>3. Grounded(v) /\ v.pc \notin Wipe \cup {"look", "erase"}
    BY <2>1 DEF Grounded, Wipe
  <2>4. req[i].pc # "close" /\ i \in Proc
    BY Apart DEF PairInv, Aims, Wipe
  <2> QED BY <1>1, <1>4, <2>1, <2>2, <2>3, <2>4, RewritePaired DEF deviceVars
<1> QED BY <1>2, <1>3, <1>4 DEF Boot

LEMMA TerminatePaired ==
  ASSUME SessionsTypeOK, PairInv, NEW i \in Instance, Terminate(i) PROVE PairInv'
<1>1. PICK s \in Sess : s = reg[i]
  BY DEF Terminate, SessionsTypeOK
<1>2. Calm /\ UNCHANGED <<reg, req, deviceVars, stray>>
  BY <1>1, CancelCalm DEF Terminate
<1> QED BY <1>2, ReqStays, RequestPaired DEF RegShrinks, deviceVars

(* A process ends with the requests that wipe its sessions, and with them.  *)
LEMMA ProcessEndsPaired ==
  ASSUME SessionsTypeOK, PairInv, NEW i \in Instance, ProcessEnds(i) PROVE PairInv'
<1>1. ASSUME NEW x \in Session
      PROVE  LET y == [x EXCEPT !.pc = "ended", !.client = "off", !.woke = FALSE, !.beat = {}]
             IN  Kin(y, x) /\ y.pc = "ended"
  <2> DEFINE y == [x EXCEPT !.pc = "ended", !.client = "off", !.woke = FALSE, !.beat = {}]
  <2>1. y \in Session
    BY DEF Session
  <2>2. y.pc = "ended" /\ y.gen = x.gen /\ y.seen = x.seen /\ y.inst = x.inst
    BY DEF Session
  <2>3. y.cancelled = x.cancelled /\ y.device = x.device /\ y.kept = x.kept
    BY DEF Session
  <2> HIDE DEF y
  <2>4. Kin(y, x)
    BY <2>1, <2>2, <2>3 DEF Kin, Heard
  <2> QED BY <2>2, <2>4 DEF y
<1>2. \A t \in Sess : /\ Kin(sess'[t], sess[t])
                      /\ sess[t].inst = i => sess'[t].pc = "ended"
                      /\ sess[t].inst # i => sess'[t] = sess[t]
  <2>1. ASSUME NEW t \in Sess
        PROVE  /\ Kin(sess'[t], sess[t])
               /\ sess[t].inst = i => sess'[t].pc = "ended"
               /\ sess[t].inst # i => sess'[t] = sess[t]
    <3>1. sess[t] \in Session
      BY DEF SessionsTypeOK
    <3>2. CASE sess[t].inst = i
      <4>1. sess'[t] = [sess[t] EXCEPT !.pc = "ended", !.client = "off", !.woke = FALSE, !.beat = {}]
        BY <3>2 DEF ProcessEnds
      <4> QED BY <1>1, <3>1, <3>2, <4>1
    <3>3. CASE sess[t].inst # i
      <4>1. sess'[t] = sess[t]
        BY <3>3 DEF ProcessEnds
      <4> QED BY <3>1, <3>3, <4>1, KinSelf
    <3> QED BY <3>2, <3>3
  <2> QED BY <2>1
<1>3. \A t \in Sess : sess[t].inst = i => ~Live(t)'
  BY <1>2 DEF Live, Running, Waiting
<1>4. Follows
  BY <1>2, <1>3 DEF Follows, Live
<1>5. \A p \in Proc : req'[p] = IF req[p].inst = i THEN NoReq ELSE req[p]
  BY DEF ProcessEnds
<1>6. Orderly
  <2>1. ASSUME NEW u PROVE Onward(NoReq, u) /\ Onward(u, u)
    BY OnwardSelf DEF Onward, NoReq, Wipe
  <2> QED BY <1>5, <2>1 DEF Orderly
<1>7. ClosingStays
  <2>1. ASSUME NEW t \in Sess, Closing(t) PROVE Closing(t)' \/ ~Live(t)'
    <3>1. PICK r \in Proc : req[r].pc = "close" /\ req[r].target = t
      BY <2>1 DEF Closing
    <3>2. sess[t].inst = req[r].inst
      BY <3>1, Apart DEF PairInv, Aims, Grounded, Wipe
    <3>3. CASE req[r].inst = i
      BY <1>3, <3>2, <3>3
    <3>4. CASE req[r].inst # i
      BY <1>5, <3>1, <3>4 DEF Closing
    <3> QED BY <3>3, <3>4
  <2> QED BY <2>1 DEF ClosingStays
<1>8. RegShrinks /\ UNCHANGED <<deviceVars, stray>>
  BY DEF RegShrinks, ProcessEnds, SessionsTypeOK
<1> QED BY <1>4, <1>6, <1>7, <1>8, PairKept DEF deviceVars

-----------------------------------------------------------------------------
BrokerInv == SessionsInv /\ PairInv

LEMMA BrokerInvInit == SessionsInit => BrokerInv
<1> SUFFICES ASSUME SessionsInit PROVE BrokerInv
  OBVIOUS
<1>1. SessionsInv
  BY SessionsInvInit
<1>2. /\ \A s \in Sess : sess[s] = Unborn
      /\ \A p \in Proc : req[p] = NoReq
      /\ \A i \in Instance : reg[i] = 0 /\ i \in Proc
      /\ mapping \in Nat /\ pairs = mapping
  BY Apart DEF SessionsInit
<1>3. /\ Unborn.gen = 0 /\ Unborn.seen = 0 /\ Unborn.pc = "unborn" /\ Unborn.inst = NoOne
      /\ Unborn.device = 0 /\ ~Unborn.kept
      /\ NoReq.pc = "idle" /\ NoReq.dev = 0
  BY DEF Unborn, NoReq
<1>4. AllHeard
  BY <1>2, <1>3 DEF AllHeard, Heard
<1>5. Places /\ Aims
  BY <1>2, <1>3 DEF Places, Aims, Grounded, Wipe
<1>6. Fresh
  BY <1>2, <1>3 DEF Fresh
<1>7. Loaded /\ PairedSurvivesRestart
  BY <1>2, <1>3 DEF Loaded, PairedSurvivesRestart
<1> QED BY <1>1, <1>4, <1>5, <1>6, <1>7 DEF BrokerInv, PairInv

LEMMA BrokerInvNext == BrokerInv /\ [SessionsNext]_sessVars => BrokerInv'
<1> SUFFICES ASSUME BrokerInv, [SessionsNext]_sessVars PROVE BrokerInv'
  OBVIOUS
<1>1. SessionsInv' /\ SessionsTypeOK /\ LockInv /\ AtWork /\ PairInv
  BY SessionsInvNext DEF BrokerInv, SessionsInv
<1>2. CASE UNCHANGED sessVars
  <2>1. Follows /\ Orderly /\ ClosingStays /\ RegShrinks
    BY <1>1, <1>2, SessionStays, ReqStays DEF ClosingStays, RegShrinks, sessVars
  <2>2. PairInv'
    BY <1>1, <1>2, <2>1, PairKept DEF sessVars
  <2> QED BY <1>1, <2>2 DEF BrokerInv
<1>3. ASSUME NEW s \in Sess,
             Step(s) \/ WindowCloses(s) \/ DialFails(s) \/ FirstCloses(s) \/ Panic(s)
               \/ BeatRead(s) \/ BeatWrite(s) \/ Event(s)
      PROVE  PairInv'
  BY <1>1, <1>3, StepPaired, LoggedOutPaired, PairSuccessPaired DEF Event
<1>4. ASSUME NEW p \in Proc, Handle(p) PROVE PairInv'
  BY <1>1, <1>4, DiscardPaired, RetirePaired, FindPaired, AcquirePaired, LoadPaired, InstallPaired,
     LookPaired, LookFailsPaired, UnlinkPaired, UnlinkFailsPaired, ErasePaired, UnmapPaired,
     ClosePaired, RemoveEntryPaired
  DEF Handle
<1>5. ASSUME NEW i \in Instance,
             Poll(i) \/ LateRemove(i) \/ Boot(i) \/ Terminate(i) \/ ProcessEnds(i)
      PROVE  PairInv'
  BY <1>1, <1>5, PollPaired, LateRemovePaired, BootPaired, TerminatePaired, ProcessEndsPaired
<1>6. ASSUME NEW r \in Req, NEW i \in Instance, NEW k \in Kinds, Begin(r, i, k)
      PROVE  PairInv'
  BY <1>1, <1>6, BeginPaired
<1>7. CASE SessionsAtRest
  BY <1>2, <1>7 DEF SessionsAtRest
<1> QED BY <1>1, <1>2, <1>3, <1>4, <1>5, <1>6, <1>7 DEF SessionsNext, BrokerInv

(* A code request reaches the QR window it was made in: as long as the      *)
(* window stands and the request with it, requestPairing's token is in the  *)
(* channel or has just been taken out of it, whatever panics, resets, dials *)
(* and other requests come between.                                         *)
THEOREM WakeupIsNotLost == SessionsSpec => []NoLostWakeup
<1>1. BrokerInv => NoLostWakeup
  BY DEF BrokerInv, PairInv, AllHeard, Heard, NoLostWakeup
<1> QED BY <1>1, BrokerInvInit, BrokerInvNext, PTL DEF SessionsSpec

(* The mapping a restart would restore from names the device of the session *)
(* that runs, whatever processes, requests, failures and panics come        *)
(* between: only the reset that is closing that session, or a write past    *)
(* the holder of the broker's lock, takes it away.                          *)
THEOREM RestartRestores == SessionsSpec => []PairedSurvivesRestart
<1>1. BrokerInv => PairedSurvivesRestart
  BY DEF BrokerInv, PairInv
<1> QED BY <1>1, BrokerInvInit, BrokerInvNext, PTL DEF SessionsSpec
=============================================================================
