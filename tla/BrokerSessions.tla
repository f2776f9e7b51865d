--------------------------- MODULE BrokerSessions ---------------------------
(***************************************************************************)
(* The session manager of the WhatsApp ingestor, for one broker.  A        *)
(* session is an object with a goroutine (runSession) that dials, shows a  *)
(* QR or phone code until the phone is linked, and then holds the socket;  *)
(* the registry of the process names at most one of them.  HTTP requests   *)
(* start, pair, reset, disconnect and delete it, events of the WhatsApp    *)
(* client and a heartbeat write its status, and a Postgres advisory lock   *)
(* keeps two processes (a deployment's old and new one) apart.             *)
(*                                                                         *)
(* Of a session's state only what the code tests is kept: whether          *)
(* ConnectionState is "pairing_error" (failed) and whether the phone is    *)
(* shown as connected (shown).                                             *)
(***************************************************************************)
EXTENDS Integers, FiniteSets

CONSTANTS
  Instance,      \* ingestor processes
  Req,           \* HTTP requests in progress
  Kinds,         \* what the requests ask for
  MaxRequests,   \* bound on requests
  MaxBoots,      \* bound on process starts
  MaxPairs,      \* bound on linked devices
  MaxTrips,      \* bound on failing calls, lost sockets, log-outs and panics
  NoOne          \* nobody holds the advisory lock

Sess == 1..(MaxRequests + MaxBoots)
Dev == 1..MaxPairs
Proc == Req \cup Instance    \* a process's restore goroutine goes by its name

ASSUME SessionsAssumption ==
  /\ Kinds \subseteq {"connect", "code", "qr", "reset", "disconnect", "delete"}
  /\ {MaxRequests, MaxBoots, MaxTrips} \subseteq Nat
  /\ MaxPairs \in Nat \ {0}
  /\ Req \cap Instance = {}
  /\ NoOne \notin Proc /\ NoOne \notin Sess
  /\ Proc \cap (Sess \cup {0}) = {}

VARIABLES
  sess,      \* the session objects
  reg,       \* sm.sessions of each process; 0: no entry
  lock,      \* holder of the advisory lock: a request, a session or NoOne
  req,       \* the requests and the restore goroutines
  removers,  \* Remove goroutines a disconnect left behind
  up,        \* running processes
  mapping,   \* broker_whatsapp_devices; 0: no row
  stored,    \* devices in the whatsmeow store
  pairs, requests, boots, trips,
  stray,     \* history: sessions whose lock somebody else released
  overtaken  \* history: the mapping was written past the holder of the lock

sessVars == <<sess, reg, lock, req, removers, up, mapping, stored,
              pairs, requests, boots, trips, stray, overtaken>>
deviceVars == <<mapping, stored, pairs, overtaken>>
countVars == <<requests, boots>>

Waiting == {"first", "code", "qr", "open"}
Running == Waiting \cup {"top", "dial", "exit"}

Unborn == [pc |-> "unborn", inst |-> NoOne, kept |-> FALSE, cancelled |-> FALSE, client |-> "none", device |-> 0,
           mode |-> "", gen |-> 0, seen |-> 0, answered |-> 0, token |-> FALSE,
           woke |-> FALSE, disc |-> FALSE, resetting |-> FALSE,
           shown |-> FALSE, failed |-> FALSE, beat |-> {}]
NoReq == [pc |-> "idle", kind |-> "", inst |-> NoOne, target |-> 0, dev |-> 0]

Session ==
  [pc : Running \cup {"unborn", "ended"}, inst : Instance \cup {NoOne},
   kept : BOOLEAN,  \* history: its device is the one of the mapping
   cancelled : BOOLEAN,
   client : {"none", "on", "off"}, device : Dev \cup {0},
   mode : {"", "code", "qr"}, gen : Nat, seen : Nat, answered : Nat,
   token : BOOLEAN, woke : BOOLEAN, disc : BOOLEAN, resetting : BOOLEAN,
   shown : BOOLEAN, failed : BOOLEAN,
   beat : SUBSET [shown : BOOLEAN, failed : BOOLEAN]]
Request ==
  [pc : {"idle", "discard", "retire", "find", "acquire", "load", "install", "poll",
         "look", "unlink", "unmap", "close", "remove", "erase"},
   kind : Kinds \cup {"", "restore"}, inst : Instance \cup {NoOne},
   target : Sess \cup {0}, dev : Dev \cup {0}]

SessionsTypeOK ==
  /\ sess \in [Sess -> Session]
  /\ reg \in [Instance -> Sess \cup {0}]
  /\ lock \in Proc \cup Sess \cup {NoOne}
  /\ req \in [Proc -> Request]
  /\ removers \in [Instance -> Nat]
  /\ up \subseteq Instance
  /\ mapping \in Dev \cup {0} /\ stored \subseteq Dev /\ pairs \in 0..MaxPairs
  /\ requests \in 0..MaxRequests /\ boots \in 0..MaxBoots /\ trips \in 0..MaxTrips
  /\ stray \subseteq Sess /\ overtaken \in BOOLEAN

(* A new broker, or one whose phone was linked before.                      *)
SessionsInit ==
  /\ sess = [s \in Sess |-> Unborn]
  /\ reg = [i \in Instance |-> 0]
  /\ lock = NoOne
  /\ req = [p \in Proc |-> NoReq]
  /\ removers = [i \in Instance |-> 0]
  /\ up = {}
  /\ mapping \in {0, 1} /\ stored = {mapping} \ {0} /\ pairs = mapping
  /\ requests = 0 /\ boots = 0 /\ trips = 0
  /\ stray = {} /\ overtaken = FALSE

Trip == trips < MaxTrips /\ trips' = trips + 1
Live(s) == sess[s].pc \in Running /\ ~sess[s].cancelled
Cancelled(x) == [x EXCEPT !.cancelled = TRUE]
Put(s, x) == sess' = [sess EXCEPT ![s] = x]
Unlocked(S) == IF lock \in S THEN NoOne ELSE lock

(* setStatus: what a session being wiped is told about a connection is      *)
(* turned into pairing_required.                                            *)
SetStatus(x, shown, failed) ==
  [x EXCEPT !.shown = shown /\ ~x.resetting,
            !.failed = failed /\ ~(shown /\ x.resetting)]

-----------------------------------------------------------------------------
(* runSession *)

(* The head of the loop: cancelled, or a new client with its handlers.      *)
Top(s) ==
  LET x == sess[s] IN
  /\ x.pc = "top"
  /\ Put(s, IF x.cancelled THEN [x EXCEPT !.pc = "exit"]
            ELSE [SetStatus(x, FALSE, FALSE) EXCEPT
                    !.pc = "dial", !.client = "on", !.disc = FALSE])
  /\ UNCHANGED <<reg, lock, req, removers, up, deviceVars, countVars, trips, stray>>

(* Connect: a linked device is opened; the others enter the pairing window  *)
(* of the mode that is read now, with the generation of that request.       *)
Dial(s) ==
  LET x == sess[s] IN
  /\ x.pc = "dial"
  /\ Put(s, IF x.device # 0 THEN [x EXCEPT !.pc = "open"]
            ELSE [x EXCEPT !.pc = IF x.mode = "code" THEN "first" ELSE "qr",
                           !.seen = x.gen])
  /\ UNCHANGED <<reg, lock, req, removers, up, deviceVars, countVars, trips, stray>>

DialFails(s) ==
  /\ sess[s].pc = "dial" /\ Trip
  /\ Put(s, [sess[s] EXCEPT !.pc = "top"])
  /\ UNCHANGED <<reg, lock, req, removers, up, deviceVars, countVars, stray>>

(* The first QR event of a code window: PairPhone shows a code, or          *)
(* failCodePairing ends the goroutine and leaves the error to be read.      *)
FirstQR(s) ==
  LET x == sess[s] IN
  /\ x.pc = "first" /\ ~x.woke
  /\ \/ Put(s, [SetStatus(x, FALSE, FALSE) EXCEPT !.pc = "code", !.answered = x.seen])
     \/ Put(s, [SetStatus(x, FALSE, TRUE) EXCEPT
                  !.pc = "exit", !.answered = x.seen, !.mode = ""])
  /\ UNCHANGED <<reg, lock, req, removers, up, deviceVars, countVars, trips, stray>>

(* A window's select takes the token of pairingModeChanged ...              *)
Wake(s) ==
  LET x == sess[s] IN
  /\ x.pc \in Waiting \ {"open"} /\ x.token /\ ~x.woke
  /\ Put(s, [x EXCEPT !.token = FALSE, !.woke = TRUE])
  /\ UNCHANGED <<reg, lock, req, removers, up, deviceVars, countVars, trips, stray>>

(* ... and then reads what was asked for: a newer request of the other mode *)
(* starts the loop anew.  Otherwise the window goes on, a code window       *)
(* without waiting for its first event any more.                            *)
ReviewMode(s) ==
  LET x == sess[s]
      switch == x.gen > x.seen /\ x.mode # (IF x.pc = "qr" THEN "qr" ELSE "code") IN
  /\ x.pc \in Waiting /\ x.woke
  /\ Put(s, [x EXCEPT !.woke = FALSE,
                      !.pc = CASE switch -> "top"
                               [] x.pc = "first" /\ ~switch -> "code"
                               [] OTHER -> x.pc])
  /\ UNCHANGED <<reg, lock, req, removers, up, deviceVars, countVars, trips, stray>>

(* The QR channel closes: linked, or over.  A code window forgets the mode. *)
WindowCloses(s) ==
  LET x == sess[s] IN
  /\ x.pc \in {"code", "qr"} /\ ~x.woke
  /\ Put(s, [x EXCEPT !.mode = IF x.pc = "code" THEN "" ELSE x.mode,
                      !.pc = IF x.device = 0 THEN "top" ELSE "open"])
  /\ UNCHANGED <<reg, lock, req, removers, up, deviceVars, countVars, trips, stray>>

(* It closes, or says something else, before the first code.                *)
FirstCloses(s) ==
  /\ sess[s].pc = "first" /\ ~sess[s].woke /\ Trip
  /\ Put(s, [sess[s] EXCEPT !.pc = "code"])
  /\ UNCHANGED <<reg, lock, req, removers, up, deviceVars, countVars, stray>>

(* The closed disconnected channel, and the cancelled context.              *)
Leave(s) ==
  LET x == sess[s] IN
  /\ x.pc \in Waiting /\ ~x.woke
  /\ \/ x.disc /\ Put(s, [x EXCEPT !.pc = "top"])
     \/ x.cancelled /\ Put(s, [x EXCEPT !.pc = "exit"])
  /\ UNCHANGED <<reg, lock, req, removers, up, deviceVars, countVars, trips, stray>>

(* The deferred calls: the client's handlers and socket, then the lock.     *)
Exit(s) ==
  /\ sess[s].pc = "exit"
  /\ Put(s, [sess[s] EXCEPT !.pc = "ended", !.client = "off"])
  /\ lock' = Unlocked({s})
  /\ UNCHANGED <<reg, req, removers, up, deviceVars, countVars, trips, stray>>

(* A panic runs them too, and then starts the goroutine again.              *)
Panic(s) ==
  LET x == sess[s] IN
  /\ x.pc \in Running \ {"exit"} /\ Trip
  /\ Put(s, [SetStatus(x, FALSE, FALSE) EXCEPT
               !.pc = IF x.cancelled THEN "ended" ELSE "top",
               !.client = IF x.client = "none" THEN "none" ELSE "off", !.woke = FALSE])
  /\ lock' = Unlocked({s})
  /\ stray' = IF x.cancelled THEN stray ELSE stray \cup {s}
  /\ UNCHANGED <<reg, req, removers, up, deviceVars, countVars>>

Step(s) == Top(s) \/ Dial(s) \/ FirstQR(s) \/ Wake(s) \/ ReviewMode(s)
             \/ Leave(s) \/ Exit(s)

-----------------------------------------------------------------------------
(* The heartbeat copies the status and writes the copy back.                *)

BeatRead(s) ==
  LET x == sess[s] IN
  /\ x.pc \in Waiting /\ x.beat = {}
  /\ Put(s, [x EXCEPT !.beat = {[shown |-> x.shown, failed |-> x.failed]}])
  /\ UNCHANGED <<reg, lock, req, removers, up, deviceVars, countVars, trips, stray>>

BeatWrite(s) ==
  LET x == sess[s] IN
  /\ \E b \in x.beat : Put(s, [SetStatus(x, b.shown, b.failed) EXCEPT !.beat = {}])
  /\ UNCHANGED <<reg, lock, req, removers, up, deviceVars, countVars, trips, stray>>

-----------------------------------------------------------------------------
(* handleEvent; only a client with its handlers reports.                    *)

Hooked(s) == sess[s].client = "on" /\ sess[s].pc \in Waiting

EvConnected(s) ==
  LET x == sess[s] IN
  /\ Hooked(s) /\ (x.pc = "open" \/ x.device # 0)
  /\ Put(s, SetStatus(x, x.device # 0, FALSE))
  /\ UNCHANGED <<reg, lock, req, removers, up, deviceVars, countVars, trips, stray>>

(* The phone was linked; saving the mapping may fail and is only logged.    *)
EvPairSuccess(s) ==
  LET x == sess[s] IN
  /\ Hooked(s) /\ x.pc # "open" /\ x.device = 0 /\ pairs < MaxPairs
  /\ pairs' = pairs + 1
  /\ \/ mapping' = pairs' /\ UNCHANGED trips
     \/ UNCHANGED mapping /\ Trip
  /\ Put(s, [SetStatus(x, TRUE, FALSE) EXCEPT !.device = pairs',
                                              !.kept = mapping' = pairs'])
  /\ stored' = stored \cup {pairs'}
  /\ overtaken' = (overtaken \/ lock # s)
  /\ UNCHANGED <<reg, lock, req, removers, up, countVars, stray>>

(* Mutant: a lost socket is treated like a log-out.                         *)
MutLostSocketWipes(s) ==
  LET x == sess[s] IN
  /\ Hooked(s) /\ Trip
  /\ Put(s, [SetStatus(x, FALSE, FALSE) EXCEPT !.disc = TRUE])
  /\ mapping' = 0
  /\ UNCHANGED <<reg, lock, req, removers, up, stored, pairs, overtaken, countVars, stray>>

(* Disconnected, StreamReplaced and a handler that panicked.                *)
EvDisconnected(s) ==
  LET x == sess[s] IN
  /\ Hooked(s) /\ Trip
  /\ Put(s, [SetStatus(x, FALSE, FALSE) EXCEPT !.disc = TRUE])
  /\ UNCHANGED <<reg, lock, req, removers, up, deviceVars, countVars, stray>>

(* Both deletions may fail; neither error is looked at.                     *)
EvLoggedOut(s) ==
  LET x == sess[s] IN
  /\ Hooked(s) /\ x.device # 0 /\ Trip
  /\ Put(s, [SetStatus(x, FALSE, FALSE) EXCEPT !.disc = TRUE, !.device = 0])
  /\ stored' \in {stored \ {x.device}, stored}
  /\ mapping' \in {0, mapping}
  /\ overtaken' = (overtaken \/ lock # s)
  /\ UNCHANGED <<reg, lock, req, removers, up, pairs, countVars, stray>>

Event(s) == EvConnected(s) \/ EvPairSuccess(s) \/ EvDisconnected(s) \/ EvLoggedOut(s)

-----------------------------------------------------------------------------
(* Requests that start or pair: startOrGet, startOrGetForPairing, and the   *)
(* goroutine that waits for the old process's lock.                         *)

Goto(p, pc) == req' = [req EXCEPT ![p].pc = pc]
Done(p) == req' = [req EXCEPT ![p] = NoReq]
(* Mutant: a restore that finds the lock taken gives up.                    *)
MutRefused(p) == Done(p)

(* A request is turned away; the restore goroutine tries again.             *)
Refused(p) == IF req[p].kind = "restore" THEN Goto(p, "poll") ELSE Done(p)

FirstStep == [connect |-> "find", code |-> "discard", qr |-> "discard",
              reset |-> "look", disconnect |-> "look", delete |-> "look"]

Begin(r, i, k) ==
  /\ req[r].pc = "idle" /\ i \in up /\ requests < MaxRequests
  /\ requests' = requests + 1
  /\ req' = [req EXCEPT ![r] = [NoReq EXCEPT !.pc = FirstStep[k], !.kind = k, !.inst = i]]
  /\ UNCHANGED <<sess, reg, lock, removers, up, deviceVars, boots, trips, stray>>

(* restoreSessionWhenAvailable: until there is an entry or no mapping.      *)
Poll(i) ==
  /\ req[i].pc = "poll"
  /\ IF reg[i] # 0 \/ mapping = 0 THEN Done(i) ELSE Goto(i, "find")
  /\ UNCHANGED <<sess, reg, lock, removers, up, deviceVars, countVars, trips, stray>>

(* Mutant: a session that has not failed is thrown out too.                 *)
MutDiscardAny(p) ==
  LET i == req[p].inst s == reg[i] IN
  /\ req[p].pc = "discard"
  /\ reg' = [reg EXCEPT ![i] = 0]
  /\ req' = [req EXCEPT ![p].target = s, ![p].pc = IF s = 0 THEN "find" ELSE "retire"]
  /\ lock' = IF s # 0 THEN Unlocked({s}) ELSE lock
  /\ UNCHANGED <<sess, removers, up, deviceVars, countVars, trips, stray>>

(* An entry whose pairing failed leaves the registry ...                    *)
Discard(p) ==
  LET i == req[p].inst s == reg[i] IN
  /\ req[p].pc = "discard"
  /\ reg' = IF s # 0 /\ sess[s].failed THEN [reg EXCEPT ![i] = 0] ELSE reg
  /\ req' = [req EXCEPT ![p].target = s, ![p].pc = IF s = 0 THEN "find" ELSE "retire"]
  /\ UNCHANGED <<sess, lock, removers, up, deviceVars, countVars, trips, stray>>

(* ... and, if its status still says so, is cancelled and unlocked.         *)
Retire(p) ==
  LET s == req[p].target IN
  /\ req[p].pc = "retire"
  /\ IF sess[s].failed THEN /\ Put(s, Cancelled(sess[s]))
                            /\ lock' = Unlocked({s})
                       ELSE UNCHANGED <<sess, lock>>
  /\ Goto(p, "find")
  /\ UNCHANGED <<reg, removers, up, deviceVars, countVars, trips, stray>>

(* Mutant: the wake-up is not sent.                                         *)
MutRequestPairing(x, k) ==
  IF k \in {"code", "qr"}
  THEN [SetStatus(x, FALSE, FALSE) EXCEPT !.resetting = FALSE, !.mode = k,
                                          !.gen = x.gen + 1]
  ELSE x

(* requestPairing, and the status "pairing_requested"; a plain connect      *)
(* changes nothing.                                                         *)
RequestPairing(x, k) ==
  IF k \in {"code", "qr"}
  THEN [SetStatus(x, FALSE, FALSE) EXCEPT !.resetting = FALSE, !.mode = k,
                                          !.gen = x.gen + 1, !.token = TRUE]
  ELSE x

Find(p) ==
  LET s == reg[req[p].inst] IN
  /\ req[p].pc = "find"
  /\ IF s # 0 THEN Put(s, RequestPairing(sess[s], req[p].kind)) /\ Done(p)
              ELSE UNCHANGED sess /\ Goto(p, "acquire")
  /\ UNCHANGED <<reg, lock, removers, up, deviceVars, countVars, trips, stray>>

Acquire(p) ==
  /\ req[p].pc = "acquire"
  /\ IF lock = NoOne THEN lock' = p /\ Goto(p, "load") ELSE UNCHANGED lock /\ Refused(p)
  /\ UNCHANGED <<sess, reg, removers, up, deviceVars, countVars, trips, stray>>

(* lookupDeviceJID and GetDevice; without a device a new one is made.  A    *)
(* lock query that fails ends the same way as a failing look-up.            *)
Load(p) ==
  /\ req[p].pc = "load"
  /\ \/ /\ req' = [req EXCEPT ![p].pc = "install",
                              ![p].dev = IF mapping \in stored THEN mapping ELSE 0]
        /\ UNCHANGED <<lock, trips>>
     \/ lock' = NoOne /\ Refused(p) /\ Trip
  /\ UNCHANGED <<sess, reg, removers, up, deviceVars, countVars, stray>>

IsNext(s) == sess[s].pc = "unborn" /\ \A t \in 1..(s - 1) : sess[t].pc # "unborn"
Born(i, d) == [Unborn EXCEPT !.pc = "top", !.inst = i, !.device = d, !.kept = d # 0]

(* An entry somebody made meanwhile is preferred.                           *)
Install(p) ==
  LET i == req[p].inst e == reg[i] IN
  /\ req[p].pc = "install"
  /\ \/ /\ e # 0
        /\ Put(e, RequestPairing(sess[e], req[p].kind))
        /\ lock' = NoOne
        /\ UNCHANGED reg
     \/ /\ e = 0
        /\ \E s \in Sess : /\ IsNext(s)
                           /\ Put(s, RequestPairing(Born(i, req[p].dev), req[p].kind))
                           /\ reg' = [reg EXCEPT ![i] = s]
                           /\ lock' = s
  /\ Done(p)
  /\ UNCHANGED <<removers, up, deviceVars, countVars, trips, stray>>

-----------------------------------------------------------------------------
(* Requests that end a session: reset, disconnect, delete-session.          *)

(* Remove takes whatever entry there is now, and its lock.                  *)
Remove(i) ==
  LET e == reg[i] IN
  /\ reg' = [reg EXCEPT ![i] = 0]
  /\ lock' = IF e = 0 THEN lock ELSE Unlocked({e})
  /\ stray' = IF e # 0 /\ Live(e) THEN stray \cup {e} ELSE stray

(* Each looks the session up.  A reset marks it and says pairing_required;  *)
(* disconnect and delete cancel it, disconnect answering at once.           *)
Look(r) ==
  LET i == req[r].inst  k == req[r].kind  s == reg[i] IN
  /\ req[r].pc = "look"
  /\ CASE k = "reset" /\ s # 0 ->
            Put(s, [SetStatus(sess[s], FALSE, FALSE) EXCEPT !.resetting = TRUE, !.mode = ""])
       [] k # "reset" /\ s # 0 -> Put(s, Cancelled(sess[s]))
       [] OTHER -> UNCHANGED sess
  /\ removers' = IF k = "disconnect" /\ s # 0
                 THEN [removers EXCEPT ![i] = removers[i] + 1] ELSE removers
  /\ req' = [req EXCEPT ![r] =
               CASE k = "disconnect" -> NoReq
                 [] k # "disconnect" /\ s # 0 -> [req[r] EXCEPT !.pc = "unlink", !.target = s]
                 [] OTHER -> [req[r] EXCEPT !.pc = "erase",
                                !.dev = IF mapping \in stored THEN mapping ELSE 0]]
  /\ UNCHANGED <<reg, lock, up, deviceVars, countVars, trips, stray>>

(* The lookup of persisted credentials fails, and so does the request.      *)
LookFails(r) ==
  /\ req[r].pc = "look" /\ req[r].kind # "disconnect" /\ reg[req[r].inst] = 0 /\ Trip
  /\ Done(r)
  /\ UNCHANGED <<sess, reg, lock, removers, up, deviceVars, countVars, stray>>

(* unlinkAndClearDevice or clearDevice: the device of the session's client  *)
(* is deleted, if it has a client yet.                                      *)
Unlink(r) ==
  LET s == req[r].target  x == sess[s]  d == IF x.client = "none" THEN 0 ELSE x.device IN
  /\ req[r].pc = "unlink"
  /\ Put(s, [x EXCEPT !.device = IF d = 0 THEN x.device ELSE 0])
  /\ stored' = stored \ {d}
  /\ Goto(r, IF req[r].kind = "reset" THEN "unmap" ELSE "remove")
  /\ UNCHANGED <<reg, lock, removers, up, mapping, pairs, overtaken,
                 countVars, trips, stray>>

(* A failing reset still cancels and removes; delete goes on regardless.    *)
UnlinkFails(r) ==
  LET s == req[r].target IN
  /\ req[r].pc = "unlink" /\ sess[s].client # "none" /\ sess[s].device # 0 /\ Trip
  /\ Put(s, IF req[r].kind = "reset" THEN Cancelled(sess[s]) ELSE sess[s])
  /\ Goto(r, "remove")
  /\ UNCHANGED <<reg, lock, removers, up, deviceVars, countVars, stray>>

(* Without an entry the persisted device is deleted, or is left to itself.  *)
Erase(r) ==
  /\ req[r].pc = "erase"
  /\ \/ stored' = stored \ {req[r].dev} /\ UNCHANGED trips
     \/ UNCHANGED stored /\ Trip
  /\ Goto(r, "unmap")
  /\ UNCHANGED <<sess, reg, lock, removers, up, mapping, pairs, overtaken,
                 countVars, stray>>

(* deleteDeviceMapping; when it fails, a reset cancels and removes.         *)
Unmap(r) ==
  LET s == req[r].target  closing == req[r].kind = "reset" /\ s # 0 IN
  /\ req[r].pc = "unmap"
  /\ \/ /\ mapping' = 0
        /\ overtaken' = (overtaken \/ lock \notin {NoOne, s})
        /\ IF closing THEN Goto(r, "close") ELSE Done(r)
        /\ UNCHANGED <<sess, trips>>
     \/ /\ Trip
        /\ IF closing THEN Put(s, Cancelled(sess[s])) /\ Goto(r, "remove")
                      ELSE UNCHANGED sess /\ Done(r)
        /\ UNCHANGED <<mapping, overtaken>>
  /\ UNCHANGED <<reg, lock, removers, up, stored, pairs, countVars, stray>>

Close(r) ==
  LET s == req[r].target IN
  /\ req[r].pc = "close"
  /\ Put(s, [Cancelled(sess[s]) EXCEPT !.device = 0, !.client = "off"])
  /\ Goto(r, "remove")
  /\ UNCHANGED <<reg, lock, removers, up, deviceVars, countVars, trips, stray>>

RemoveEntry(r) ==
  /\ req[r].pc = "remove"
  /\ Remove(req[r].inst)
  /\ IF req[r].kind = "delete" THEN Goto(r, "unmap") ELSE Done(r)
  /\ UNCHANGED <<sess, removers, up, deviceVars, countVars, trips>>

(* The goroutine a disconnect leaves behind.                                *)
LateRemove(i) ==
  /\ removers[i] > 0
  /\ removers' = [removers EXCEPT ![i] = removers[i] - 1]
  /\ Remove(i)
  /\ UNCHANGED <<sess, req, up, deviceVars, countVars, trips>>

Handle(p) == \/ Discard(p) \/ Retire(p) \/ Find(p) \/ Acquire(p) \/ Load(p) \/ Install(p)
             \/ Look(p) \/ LookFails(p) \/ Unlink(p) \/ UnlinkFails(p) \/ Erase(p) \/ Unmap(p)
             \/ Close(p) \/ RemoveEntry(p)

-----------------------------------------------------------------------------
(* Processes *)

(* main: a mapping without its device is dropped; with the lock the session *)
(* is restored at once, without it a goroutine waits.  When the database    *)
(* does not answer, the broker is passed over.                              *)
Boot(i) ==
  /\ i \notin up /\ boots < MaxBoots
  /\ up' = up \cup {i} /\ boots' = boots + 1
  /\ \/ /\ mapping \notin stored
        /\ mapping' = 0
        /\ UNCHANGED <<sess, reg, lock, req, trips>>
     \/ /\ mapping \in stored /\ lock = NoOne
        /\ \E s \in Sess : /\ IsNext(s)
                           /\ Put(s, Born(i, mapping))
                           /\ reg' = [reg EXCEPT ![i] = s]
                           /\ lock' = s
        /\ UNCHANGED <<req, mapping, trips>>
     \/ /\ mapping \in stored /\ lock # NoOne
        /\ req' = [req EXCEPT ![i] = [NoReq EXCEPT !.pc = "poll", !.kind = "restore",
                                                   !.inst = i]]
        /\ UNCHANGED <<sess, reg, lock, mapping, trips>>
     \/ Trip /\ UNCHANGED <<sess, reg, lock, req, mapping>>
  /\ UNCHANGED <<removers, stored, pairs, overtaken, requests, stray>>

(* SIGTERM cancels what is registered; the process then ends.               *)
Terminate(i) ==
  /\ i \in up /\ reg[i] # 0
  /\ Put(reg[i], Cancelled(sess[reg[i]]))
  /\ UNCHANGED <<reg, lock, req, removers, up, deviceVars, countVars, trips, stray>>

(* The process ends, of itself or not, with its goroutines; its database    *)
(* connections close and their lock is free.                                *)
ProcessEnds(i) ==
  LET mine == {s \in Sess : sess[s].inst = i} IN
  /\ i \in up
  /\ up' = up \ {i}
  /\ sess' = [s \in Sess |-> IF s \in mine
                            THEN [sess[s] EXCEPT !.pc = "ended", !.client = "off",
                                                 !.woke = FALSE, !.beat = {}]
                            ELSE sess[s]]
  /\ reg' = [reg EXCEPT ![i] = 0]
  /\ req' = [p \in Proc |-> IF req[p].inst = i THEN NoReq ELSE req[p]]
  /\ removers' = [removers EXCEPT ![i] = 0]
  /\ lock' = Unlocked(mine \cup {p \in Proc : req[p].inst = i})
  /\ UNCHANGED <<deviceVars, countVars, trips, stray>>

(* Nothing is going on but open sockets.                                    *)
SessionsAtRest ==
  /\ \A s \in Sess : \/ sess[s].pc \in {"unborn", "ended"}
                     \/ sess[s].pc = "open" /\ ~sess[s].disc /\ ~sess[s].cancelled
  /\ \A p \in Proc : req[p].pc = "idle"
  /\ UNCHANGED sessVars

SessionsNext ==
  \/ SessionsAtRest
  \/ \E s \in Sess : \/ Step(s) \/ WindowCloses(s) \/ DialFails(s) \/ FirstCloses(s) \/ Panic(s)
                     \/ BeatRead(s) \/ BeatWrite(s) \/ Event(s)
  \/ \E p \in Proc : Handle(p)
  \/ \E r \in Req, i \in Instance, k \in Kinds : Begin(r, i, k)
  \/ \E i \in Instance : Poll(i) \/ LateRemove(i) \/ Boot(i) \/ Terminate(i)
                           \/ ProcessEnds(i)

SessionsSpec == SessionsInit /\ [][SessionsNext]_sessVars

(* Goroutines that can go on do so; a QR channel may stay open for long.    *)
SessionsFairness ==
  /\ \A s \in Sess : WF_sessVars(Step(s)) /\ WF_sessVars(BeatWrite(s))
  /\ \A p \in Proc : WF_sessVars(Handle(p))
  /\ \A i \in Instance : WF_sessVars(Poll(i)) /\ WF_sessVars(LateRemove(i))
PromptSessions == SessionsSpec /\ SessionsFairness

(* The library closes every QR channel in the end.                          *)
FairSessions == PromptSessions /\ \A s \in Sess : WF_sessVars(WindowCloses(s))

-----------------------------------------------------------------------------
(* Properties *)

(* A session that runs and has not been cancelled holds the advisory lock,  *)
(* across processes, restores, failed pairings, resets and restarts: unless *)
(* a panic or the removal of an earlier session took it away.               *)
LiveOwnsLock == \A s \in Sess \ stray : Live(s) => lock = s

(* A code request that finds the session in its QR window is not lost: the  *)
(* wake-up is in the channel or has just been taken out of it.              *)
NoLostWakeup ==
  \A s \in Sess : sess[s].pc = "qr" /\ sess[s].mode = "code"
                  => sess[s].token \/ sess[s].woke

(* A running session whose device is in the store is the one a restart      *)
(* would restore: network trouble, failed pairings and requests leave the   *)
(* mapping alone.  The reset of this very session may be about to close it; *)
(* otherwise only a write past the holder of the lock can overwrite it: a   *)
(* late event of a session that lost the lock, or a wipe that was started   *)
(* for another session or in another process.                               *)
Closing(s) == \E r \in Proc : req[r].pc = "close" /\ req[r].target = s
PairedSurvivesRestart ==
  \A s \in Sess \ stray :
    Live(s) /\ sess[s].kept /\ sess[s].device \in stored /\ ~Closing(s) /\ ~overtaken
      => mapping = sess[s].device

(* A code that is asked for is shown or refused, unless the session ends or *)
(* the phone is linked.                                                     *)
CodeRequestAnswered ==
  \A s \in Sess :
    sess[s].mode = "code" /\ sess[s].gen > sess[s].answered
      ~> \/ sess[s].gen = sess[s].answered \/ sess[s].device # 0
         \/ sess[s].cancelled \/ sess[s].pc = "ended"

(* The new process of a deployment gets its session once the old one has    *)
(* gone.                                                                    *)
HandoffCompletes ==
  \A i \in Instance :
    req[i].kind = "restore"
      ~> reg[i] # 0 \/ mapping = 0 \/ i \notin up \/ \E j \in up : j # i
=============================================================================
