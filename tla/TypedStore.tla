------------------------------ MODULE TypedStore ------------------------------
(***************************************************************************)
(* The typed tables.  One item of a raw message is saved into the table    *)
(* its route names: process_raw_message looks for a near duplicate, asks   *)
(* the model, and save_typed_listing deletes the item's rows from the      *)
(* other tables, upserts by source fingerprint and returns the table's own *)
(* id.  Then the row is classified as a repost of the candidate, or, for   *)
(* demand, flagged against an equal one.                                   *)
(*                                                                         *)
(* A message holds one item here (listing_index 0).  Times are days.       *)
(***************************************************************************)
EXTENDS Naturals, FiniteSets

CONSTANTS
  MaxRaw,     \* raw messages 1..MaxRaw
  Listings,   \* the listing tables
  Demands,    \* the requirement tables
  MaxId,      \* bound on a table's identity sequence
  Stride,     \* 1000 in _typed_source_id; small, so that ids do meet
  Unit,       \* what the structured fields of an item describe
  Extractor,  \* threads running process_raw_message
  MaxDay,     \* bound on the calendar
  MaxTrouble, \* bound on failing writes and dying threads
  None

ASSUME StoreAssumption ==
  /\ {MaxRaw, MaxId, Stride} \subseteq Nat \ {0}
  /\ {MaxDay, MaxTrouble} \subseteq Nat
  /\ Listings \cap Demands = {}
  /\ None \notin Listings \cup Demands \cup Unit

Raw == 1..MaxRaw
Table == Listings \cup Demands
Slot == Table \X (1..MaxId)
SourceIds == 0..MaxRaw * Stride + 1

VARIABLES
  day,      \* today
  posted,   \* timestamp of a raw message, None before it arrives
  rows,     \* the typed rows by table and id
  last,     \* the identity sequences of the tables
  routes,   \* _typed_table_by_source_id of the process
  ex,       \* the extraction threads
  trouble,
  torn      \* history: messages a write failed for, or two threads had at once

storeVars == <<day, posted, rows, last, routes, ex, trouble, torn>>

NoRow == [raw |-> 0, unit |-> None, seen |-> 0, made |-> 0, status |-> "none"]
NoWork == [pc |-> "idle", raw |-> 0, table |-> None, unit |-> None,
           cand |-> <<None, 0>>, old |-> NoRow, slot |-> <<None, 0>>]

SlotOrNone == Slot \cup {<<None, 0>>}

TypedRow == [raw : 0..MaxRaw, unit : Unit \cup {None}, seen : 0..MaxDay,
             made : 0..MaxDay, status : {"none", "distinct", "flagged", "merged"}]

Work == [pc : {"idle", "ask", "clean", "upsert", "find", "review", "mark"},
         raw : 0..MaxRaw, table : Table \cup {None}, unit : Unit \cup {None},
         cand : SlotOrNone, old : TypedRow, slot : SlotOrNone]

StoreTypeOK ==
  /\ day \in 0..MaxDay
  /\ posted \in [Raw -> 0..MaxDay \cup {None}]
  /\ rows \in [Slot -> TypedRow]
  /\ last \in [Table -> 0..MaxId]
  /\ routes \in [SourceIds -> Table \cup {None}]
  /\ ex \in [Extractor -> Work]
  /\ trouble \in 0..MaxTrouble
  /\ torn \in SUBSET Raw

StoreInit ==
  /\ day = 0
  /\ posted = [r \in Raw |-> None]
  /\ rows = [s \in Slot |-> NoRow]
  /\ last = [tb \in Table |-> 0]
  /\ routes = [n \in SourceIds |-> None]
  /\ ex = [t \in Extractor |-> NoWork]
  /\ trouble = 0
  /\ torn = {}

Stored == {s \in Slot : rows[s].status # "none"}
RowsOf(r) == {s \in Stored : rows[s].raw = r}
Arrived == {r \in Raw : posted[r] # None}

(* _typed_source_id of the first item of a raw message. *)
SourceId(r) == r * Stride + 1

-----------------------------------------------------------------------------
NextDay ==
  /\ day < MaxDay
  /\ day' = day + 1
  /\ UNCHANGED <<posted, rows, last, routes, ex, trouble, torn>>

(* A message arrives; raw ids are handed out in order. *)
Arrive(r) ==
  /\ posted[r] = None /\ \A q \in 1..(r - 1) : posted[q] # None
  /\ posted' = [posted EXCEPT ![r] = day]
  /\ UNCHANGED <<day, rows, last, routes, ex, trouble, torn>>

(* find_near_duplicate_candidate: no candidate, or a listing row as it is   *)
(* now; the embedding search knows the message's own earlier row too.       *)
FindCandidate(t, r) ==
  /\ ex[t].pc = "idle" /\ r \in Arrived
  /\ \A tb \in Table : last[tb] + Cardinality({u \in Extractor : ex[u].pc # "idle"}) < MaxId
  /\ \E c \in {<<None, 0>>} \cup {s \in Stored : s[1] \in Listings} :
       ex' = [ex EXCEPT ![t] = [NoWork EXCEPT !.pc = "ask", !.raw = r, !.cand = c,
                                  !.old = IF c \in Stored THEN rows[c] ELSE NoRow]]
  /\ torn' = IF \E u \in Extractor \ {t} : ex[u].raw = r THEN torn \cup {r} ELSE torn
  /\ UNCHANGED <<day, posted, rows, last, routes, trouble>>

(* The model's answer decides the route and the fields. *)
AskModel(t) ==
  /\ ex[t].pc = "ask"
  /\ \E tb \in Table, u \in Unit :
       ex' = [ex EXCEPT ![t].pc = "clean", ![t].table = tb, ![t].unit = u]
  /\ UNCHANGED <<day, posted, rows, last, routes, trouble, torn>>

(* Mutant: only the requirement tables are cleared.                         *)
MutStaleDemands(tb) == IF tb \in Demands THEN Demands \ {tb} ELSE {}

(* The tables save_typed_listing clears of the item: every other listing    *)
(* table and, for demand, every other requirement table.                    *)
StaleTables(tb) ==
  (Listings \ {tb}) \cup (IF tb \in Demands THEN Demands \ {tb} ELSE {})

(* A table whose clean-up fails is skipped. *)
CleanRoutes(t) ==
  LET stale == {s \in RowsOf(ex[t].raw) : s[1] \in StaleTables(ex[t].table)} IN
  /\ ex[t].pc = "clean"
  /\ \/ /\ rows' = [s \in Slot |-> IF s \in stale THEN NoRow ELSE rows[s]]
        /\ UNCHANGED <<trouble, torn>>
     \/ /\ stale # {} /\ trouble < MaxTrouble
        /\ trouble' = trouble + 1
        /\ torn' = torn \cup {ex[t].raw}
        /\ UNCHANGED rows
  /\ ex' = [ex EXCEPT ![t].pc = "upsert"]
  /\ UNCHANGED <<day, posted, last, routes>>

(* The day a row counts as seen: save_typed_listing looks the source id up  *)
(* among the raw ids, and takes today when there is no such message.        *)
SurfacedAt(r) ==
  IF SourceId(r) \in Arrived THEN posted[SourceId(r)] ELSE day

(* Upsert on the source fingerprint; the duplicate columns are not written. *)
UpsertTyped(t) ==
  LET r == ex[t].raw
      tb == ex[t].table
      mine == {s \in RowsOf(r) : s[1] = tb}
      write(s, st, made) ==
        /\ rows' = [rows EXCEPT ![s] = [raw |-> r, unit |-> ex[t].unit,
                                        seen |-> SurfacedAt(r), made |-> made,
                                        status |-> st]]
        /\ ex' = [ex EXCEPT ![t].pc = IF tb \in Listings THEN "find" ELSE "review",
                            ![t].slot = s]
  IN
  /\ ex[t].pc = "upsert"
  /\ \/ /\ \E s \in mine : write(s, rows[s].status, rows[s].made)
        /\ UNCHANGED last
     \/ /\ mine = {} /\ last[tb] < MaxId
        /\ last' = [last EXCEPT ![tb] = @ + 1]
        /\ write(<<tb, last[tb] + 1>>, "distinct", day)
  /\ routes' = [routes EXCEPT ![SourceId(r)] = tb]
  /\ UNCHANGED <<day, posted, trouble, torn>>

(* The upsert raises (or the thread dies there): the item is not saved.     *)
SaveFails(t) ==
  /\ ex[t].pc \in {"clean", "upsert"}
  /\ trouble < MaxTrouble
  /\ trouble' = trouble + 1
  /\ torn' = torn \cup {ex[t].raw}
  /\ ex' = [ex EXCEPT ![t] = NoWork]
  /\ UNCHANGED <<day, posted, rows, last, routes>>

(* _get_typed_observation(n): in the table recorded for source id n, else   *)
(* in all of them, the row whose source id is n; and with a recorded table, *)
(* failing that, the row with that id there.                                *)
GetTyped(n) ==
  LET bySource == {s \in Stored : SourceId(rows[s].raw) = n /\ routes[n] \in {s[1], None}}
      byId == {s \in Stored : s = <<routes[n], n>>}
  IN IF n \notin DOMAIN routes THEN {}
     ELSE IF bySource # {} THEN bySource ELSE byId

(* Mutant: a status the duplicate columns do not know.                      *)
MutVerdictRepost(row, r, old) ==
  IF old.status = "none" THEN {"distinct"} ELSE {"repost"}

(* record_listing_repost reads the row by the number the table gave it.     *)
(* The same unit on the same day is merged, the same unit otherwise         *)
(* flagged, another one distinct, or flagged when its price and area are    *)
(* close; the candidate is the one read before the model was asked.         *)
Verdict(row, r, old) ==
  CASE old.status = "none" -> {"distinct"}
    [] old.status # "none" /\ row.unit = old.unit ->
         IF posted[r] = old.made THEN {"merged"} ELSE {"flagged"}
    [] OTHER -> {"distinct", "flagged"}

(* Mutant: the table of the row that was found is not looked at.            *)
MutClassifyAnyTable(t) ==
  LET found == GetTyped(ex[t].slot[2]) IN
  /\ ex[t].pc = "find"
  /\ \/ /\ found = {}
        /\ ex' = [ex EXCEPT ![t] = NoWork]
        /\ UNCHANGED rows
     \/ \E s \in found : \E v \in Verdict(rows[s], ex[t].raw, ex[t].old) :
          /\ rows' = [rows EXCEPT ![s].status = v]
          /\ ex' = [ex EXCEPT ![t] = NoWork]
  /\ UNCHANGED <<day, posted, last, routes, trouble, torn>>

Classify(t) ==
  LET found == GetTyped(ex[t].slot[2]) IN
  /\ ex[t].pc = "find"
  /\ \/ /\ \A s \in found : s[1] \in Demands
        /\ ex' = [ex EXCEPT ![t] = NoWork]
        /\ UNCHANGED rows
     \/ \E s \in found : \E v \in Verdict(rows[s], ex[t].raw, ex[t].old) :
          /\ s[1] \in Listings
          /\ IF v = "merged"
               THEN \* the candidate is written first ...
                    /\ rows' = [rows EXCEPT ![ex[t].cand] =
                                  IF @.status = "none" THEN @
                                  ELSE [@ EXCEPT !.status = "distinct"]]
                    /\ ex' = [ex EXCEPT ![t].pc = "mark", ![t].slot = s]
               ELSE /\ rows' = [rows EXCEPT ![s].status = v]
                    /\ ex' = [ex EXCEPT ![t] = NoWork]
  /\ UNCHANGED <<day, posted, last, routes, trouble, torn>>

(* Mutant: the repost is deleted instead of hidden.                         *)
MutMarkDeletes(t) ==
  /\ ex[t].pc = "mark"
  /\ rows' = [rows EXCEPT ![ex[t].slot] = NoRow]
  /\ ex' = [ex EXCEPT ![t] = NoWork]
  /\ UNCHANGED <<day, posted, last, routes, trouble, torn>>

(* ... and then the row itself. *)
MarkMerged(t) ==
  /\ ex[t].pc = "mark"
  /\ rows' = [rows EXCEPT ![ex[t].slot] =
                IF @.status = "none" THEN @ ELSE [@ EXCEPT !.status = "merged"]]
  /\ ex' = [ex EXCEPT ![t] = NoWork]
  /\ UNCHANGED <<day, posted, last, routes, trouble, torn>>

(* record_requirement_duplicate: flag this demand and an equal one. *)
ReviewDemand(t) ==
  LET s == ex[t].slot
      same == {d \in Stored : d # s /\ d[1] = s[1] /\ rows[d].unit = rows[s].unit}
  IN
  /\ ex[t].pc = "review"
  /\ \/ /\ rows[s].status = "none" \/ same = {}
        /\ UNCHANGED rows
     \/ \E d \in same :
          /\ rows[s].status # "none"
          /\ rows' = [rows EXCEPT ![d].status = "flagged", ![s].status = "flagged"]
  /\ ex' = [ex EXCEPT ![t] = NoWork]
  /\ UNCHANGED <<day, posted, last, routes, trouble, torn>>

(* record_repeat_observation: a verbatim repost refreshes the baseline.     *)
RepeatSeen(r, q) ==
  /\ r # q /\ r \in Arrived /\ RowsOf(q) # {} /\ RowsOf(r) = {}
  /\ \A t \in Extractor : ex[t].raw # r
  /\ \E s \in RowsOf(q) : rows[s].seen # posted[r]
  /\ rows' = [s \in Slot |-> IF s \in RowsOf(q) THEN [rows[s] EXCEPT !.seen = posted[r]]
                             ELSE rows[s]]
  /\ UNCHANGED <<day, posted, last, routes, ex, trouble, torn>>

(* The worker is restarted between messages: the route table is empty.      *)
RestartWorker ==
  /\ \A t \in Extractor : ex[t].pc = "idle"
  /\ \E n \in DOMAIN routes : routes[n] # None
  /\ routes' = [n \in DOMAIN routes |-> None]
  /\ UNCHANGED <<day, posted, rows, last, ex, trouble, torn>>

(* The bounds are used up. *)
StoreAtRest ==
  /\ \A t \in Extractor : ex[t].pc = "idle"
  /\ UNCHANGED storeVars

StoreNext ==
  \/ NextDay \/ RestartWorker \/ StoreAtRest
  \/ \E r \in Raw : Arrive(r) \/ \E q \in Raw : RepeatSeen(r, q)
  \/ \E t \in Extractor :
       \/ \E r \in Raw : FindCandidate(t, r)
       \/ AskModel(t) \/ CleanRoutes(t) \/ UpsertTyped(t) \/ SaveFails(t)
       \/ Classify(t) \/ MarkMerged(t) \/ ReviewDemand(t)

StoreSpec == StoreInit /\ [][StoreNext]_storeVars

-----------------------------------------------------------------------------
(* Properties *)

(* "Remove only the same raw message/listing index in the other typed route *)
(* tables": an item is never shown by two listing tables, unless a          *)
(* clean-up failed or two threads had the message at once.                  *)
OneListing ==
  \A r \in Raw \ torn : Cardinality({s \in RowsOf(r) : s[1] \in Listings}) <= 1

(* The item has a row, or a thread is about to write one.                   *)
HasRow(r) ==
  RowsOf(r) # {} \/ \E t \in Extractor : ex[t].raw = r /\ ex[t].pc = "upsert"

(* An item once saved keeps a row: deleting the old route and writing the   *)
(* new one are two statements, and only a failure between them, or a second *)
(* thread, can lose it; no repost, verdict or other item's write does.      *)
ProjectionKept == [][\A r \in Raw \ torn' : HasRow(r) => HasRow(r)']_storeVars

(* "This deliberately never merges" (record_requirement_duplicate): no      *)
(* demand is hidden as a repost, whichever row the classification of a      *)
(* listing finds under the number it was given.                             *)
DemandNeverMerged ==
  \A s \in Stored : s[1] \in Demands => rows[s].status # "merged"
=============================================================================
