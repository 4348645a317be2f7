---------------------------- MODULE WarehouseSync ----------------------------
(***************************************************************************)
(* The copy of the price observations that readers see:                    *)
(* foundry/src/warehouse/sync.ts, offers.ts and schema.ts.  SQLite is      *)
(* where prices change, one transaction at a time, each changed row        *)
(* stamped with the clock of its statement.  A sync, started by the API    *)
(* after a job or by the evening's command line, copies what lies past a   *)
(* saved cursor into PostgreSQL in batches, replaces the offers, and       *)
(* refreshes two materialized views.  Nothing keeps two syncs apart.       *)
(*                                                                         *)
(* A step of a sync is one statement to SQLite or one transaction of       *)
(* PostgreSQL: prices change, and other syncs run, between any two.        *)
(***************************************************************************)
EXTENDS Integers, FiniteSets

CONSTANTS
    MaxRows,    \* rows of price_observation (bound)
    MaxStamp,   \* the last stamp of the clock (bound)
    Key,        \* effective keys: one price in force for each
    Pub,        \* source publications
    Syncer,     \* processes that may run a sync
    BatchSize,  \* options.batchSize
    Apart,      \* TRUE: two transactions never carry the same stamp
    Weather     \* what a behaviour may meet: some of "overlap", "failure"

Id == 1..MaxRows

Stamp == 0..MaxStamp

ASSUME WarehouseAssumption ==
    /\ MaxRows \in Nat
    /\ MaxStamp \in Nat
    /\ BatchSize \in Nat \ {0}
    /\ Apart \in BOOLEAN
    /\ Weather \subseteq SUBSET {"overlap", "failure"}

VARIABLES
    clock,   \* the stamp the next change gets
    pubs,    \* source_publication
    obs,     \* price_observation of SQLite
    copy,    \* price_observation of the warehouse
    refs,    \* publication of the warehouse
    saved,   \* sync_state: the cursor
    offers,  \* store_offer of the warehouse
    daily,   \* what daily_item_price was computed from
    latest,  \* what latest_item_price was computed from
    syn,     \* syn[p]: where the sync of p stands and what it has read
    weather  \* what this behaviour meets: syncs that overlap, syncs that fail

ops == <<clock, pubs, obs>>

views == <<daily, latest>>

vars == <<ops, copy, refs, saved, offers, views, syn, weather>>

-----------------------------------------------------------------------------
(* Rows, their order, and what is read of them.                            *)

Status == {"none", "active", "superseded"}

NoRow == [status |-> "none", key |-> 0, pub |-> 0, stamp |-> 0]

Row == [status : Status, key : Key \cup {0}, pub : Pub \cup {0}, stamp : Stamp]

\* A cursor is the stamp and the id of the last row sent; Start is the empty one.
Cursor == [stamp : Stamp, id : Id \cup {0}]

Start == [stamp |-> 0, id |-> 0]

\* (stamp, id) > (?, ?)
Past(stamp, i, c) == stamp > c.stamp \/ (stamp = c.stamp /\ i > c.id)

\* A row as a batch holds it.
Sent == [id : Id, row : Row]

Changed(c) == {i \in Id : obs[i].status # "none" /\ Past(obs[i].stamp, i, c)}

\* ORDER BY stamp, id LIMIT batchSize
IsBatch(B, c) ==
    /\ B \subseteq Changed(c)
    /\ Cardinality(B) = IF Cardinality(Changed(c)) < BatchSize
                        THEN Cardinality(Changed(c)) ELSE BatchSize
    /\ \A i \in B, j \in Changed(c) \ B : Past(obs[j].stamp, j, [stamp |-> obs[i].stamp, id |-> i])

\* The cursor after a batch: its last row.
CursorOf(rows) ==
    LET last == CHOOSE s \in rows : \A t \in rows :
                    s = t \/ Past(s.row.stamp, s.id, [stamp |-> t.row.stamp, id |-> t.id])
    IN  [stamp |-> last.row.stamp, id |-> last.id]

InForce(table) == {i \in Id : table[i].status = "active"}

\* The rows of recent snapshots that carry an offer, with whether the offer is tied to an item.
OffersNow == {[row |-> i, mapped |-> obs[i].status = "active"] :
                 i \in {j \in Id : obs[j].status # "none"}}

PC == {"idle", "refs", "state", "read", "commit", "offers", "replace", "daily", "latest"}

NotSyncing == [pc |-> "idle", pubs |-> {}, cur |-> Start, rows |-> {}, offers |-> {}]

\* Types, and what a sync may hold at the step where it stands.
TypeOK ==
    /\ clock \in 1..(MaxStamp + 1)
    /\ pubs \subseteq Pub /\ refs \subseteq pubs
    /\ obs \in [Id -> Row] /\ copy \in [Id -> Row]
    /\ saved \in Cursor
    /\ offers \subseteq [row : Id, mapped : BOOLEAN]
    /\ daily \subseteq Id /\ latest \subseteq Id
    /\ syn \in [Syncer -> [pc : PC, pubs : SUBSET pubs, cur : Cursor, rows : SUBSET Sent,
                           offers : SUBSET [row : Id, mapped : BOOLEAN]]]
    /\ \A p \in Syncer : syn[p].rows # {} <=> syn[p].pc = "commit"

Init ==
    /\ clock = 1
    /\ pubs = {}
    /\ obs = [i \in Id |-> NoRow]
    /\ copy = [i \in Id |-> NoRow]
    /\ refs = {}
    /\ saved = Start
    /\ offers = {}
    /\ daily = {} /\ latest = {}
    /\ syn = [p \in Syncer |-> NotSyncing]
    /\ weather \in Weather

-----------------------------------------------------------------------------
(* SQLite: what captures and bulletins do to prices.                       *)

warehouse == <<copy, refs, saved, offers, views>>

\* A transaction ends: the next one is stamped later, or in the same millisecond.
ClockMoves == clock' \in IF Apart THEN {clock + 1} ELSE {clock, clock + 1}

AddPublication(p) ==
    /\ pubs' = pubs \cup {p}
    /\ UNCHANGED <<clock, obs, warehouse, syn, weather>>

\* (slip) a row that is superseded keeps the stamp it had
StampedInsertOnly(i, row, losers) ==
    [j \in Id |-> IF j = i THEN row
                  ELSE IF j \in losers THEN [obs[j] EXCEPT !.status = "superseded"] ELSE obs[j]]

\* The statements of one promotion: the new row, and the rows it supersedes.
Stamped(i, row, losers) ==
    [j \in Id |-> IF j = i THEN row
                  ELSE IF j \in losers THEN [obs[j] EXCEPT !.status = "superseded", !.stamp = clock]
                  ELSE obs[j]]

\* A row is promoted: it supersedes the price in force, or comes too late and is history.
\* Ids are random: nothing ties their order to the order of insertion.
Promote(k, p, i) ==
    LET current == {j \in InForce(obs) : obs[j].key = k} IN
    /\ clock <= MaxStamp
    /\ p \in pubs
    /\ obs[i].status = "none"
    /\ \/ obs' = Stamped(i, [status |-> "active", key |-> k, pub |-> p, stamp |-> clock], current)
       \/ /\ current # {}
          /\ obs' = Stamped(i, [status |-> "superseded", key |-> k, pub |-> p, stamp |-> clock], {})
    /\ ClockMoves
    /\ UNCHANGED <<pubs, warehouse, syn, weather>>

\* The label is no longer mapped: its price goes out of force.
Withdraw(i) ==
    /\ clock <= MaxStamp
    /\ obs[i].status = "active"
    /\ obs' = [obs EXCEPT ![i].status = "superseded", ![i].stamp = clock]
    /\ ClockMoves
    /\ UNCHANGED <<pubs, warehouse, syn, weather>>

-----------------------------------------------------------------------------
(* One sync.                                                               *)

\* syncReferences: the publications are read, and then upserted.
ReadRefs(p) ==
    /\ syn[p].pc = "idle"
    /\ "overlap" \in weather \/ \A q \in Syncer : syn[q].pc = "idle"
    /\ syn' = [syn EXCEPT ![p] = [NotSyncing EXCEPT !.pc = "refs", !.pubs = pubs]]
    /\ UNCHANGED <<ops, warehouse, weather>>

UpsertRefs(p) ==
    /\ syn[p].pc = "refs"
    /\ refs' = refs \cup syn[p].pubs
    /\ syn' = [syn EXCEPT ![p].pc = "state", ![p].pubs = {}]
    /\ UNCHANGED <<ops, copy, saved, offers, views, weather>>

\* The saved cursor, or none for a full sync.
ReadCursor(p) ==
    /\ syn[p].pc = "state"
    /\ \E c \in {saved, Start} : syn' = [syn EXCEPT ![p].pc = "read", ![p].cur = c]
    /\ UNCHANGED <<ops, warehouse, weather>>

\* The next rows past the cursor; none, and the sync turns to the offers.
ReadBatch(p) ==
    /\ syn[p].pc = "read"
    /\ \E B \in SUBSET Id :
          /\ IsBatch(B, syn[p].cur)
          /\ syn' = [syn EXCEPT ![p].rows = {[id |-> i, row |-> obs[i]] : i \in B},
                                ![p].pc = IF B = {} THEN "offers" ELSE "commit"]
    /\ UNCHANGED <<ops, warehouse, weather>>

\* (slip) a row the copy already has is left alone
UpsertedNewOnly(rows) ==
    [i \in Id |-> IF copy[i].status = "none" /\ \E s \in rows : s.id = i
                  THEN (CHOOSE s \in rows : s.id = i).row ELSE copy[i]]

\* The rows of a batch over what the copy holds.
Upserted(rows) ==
    [i \in Id |-> IF \E s \in rows : s.id = i THEN (CHOOSE s \in rows : s.id = i).row ELSE copy[i]]

\* The foreign key of price_observation: every publication is there.
Referenced(rows) == \A s \in rows : s.row.pub \in refs

\* Rows and cursor in one transaction.  Its answer may be lost: it is then sent again.
CommitBatch(p) ==
    LET rows == syn[p].rows
        last == CursorOf(rows)
    IN  /\ syn[p].pc = "commit"
        /\ Referenced(rows)
        /\ copy' = Upserted(rows)
        /\ saved' = last
        /\ \/ syn' = [syn EXCEPT ![p].rows = {}, ![p].cur = last,
                                 ![p].pc = IF Cardinality(rows) < BatchSize THEN "offers" ELSE "read"]
           \/ "failure" \in weather /\ UNCHANGED syn
        /\ UNCHANGED <<ops, refs, offers, views, weather>>

\* A publication is missing: not a transient error, the sync ends there.
RejectBatch(p) ==
    /\ syn[p].pc = "commit"
    /\ ~Referenced(syn[p].rows)
    /\ syn' = [syn EXCEPT ![p] = NotSyncing]
    /\ UNCHANGED <<ops, warehouse, weather>>

\* syncOffers: the window is read from SQLite, and replaced.
ReadOffers(p) ==
    /\ syn[p].pc = "offers"
    /\ syn' = [syn EXCEPT ![p].pc = "replace", ![p].offers = OffersNow]
    /\ UNCHANGED <<ops, warehouse, weather>>

ReplaceOffers(p) ==
    /\ syn[p].pc = "replace"
    /\ offers' = syn[p].offers
    /\ syn' = [syn EXCEPT ![p].pc = "daily", ![p].offers = {}]
    /\ UNCHANGED <<ops, copy, refs, saved, views, weather>>

\* refreshAggregates: one view, then the other, which reads the first.
RefreshDaily(p) ==
    /\ syn[p].pc = "daily"
    /\ daily' = InForce(copy)
    /\ syn' = [syn EXCEPT ![p].pc = "latest"]
    /\ UNCHANGED <<ops, copy, refs, saved, offers, latest, weather>>

RefreshLatest(p) ==
    /\ syn[p].pc = "latest"
    /\ latest' = daily
    /\ syn' = [syn EXCEPT ![p] = NotSyncing]
    /\ UNCHANGED <<ops, copy, refs, saved, offers, daily, weather>>

\* A sync fails, after its retries or at once, or its process stops.
Fail(p) ==
    /\ "failure" \in weather
    /\ syn[p].pc # "idle"
    /\ syn' = [syn EXCEPT ![p] = NotSyncing]
    /\ UNCHANGED <<ops, warehouse, weather>>

Step(p) ==
    \/ ReadRefs(p) \/ UpsertRefs(p) \/ ReadCursor(p)
    \/ ReadBatch(p) \/ CommitBatch(p) \/ RejectBatch(p)
    \/ ReadOffers(p) \/ ReplaceOffers(p)
    \/ RefreshDaily(p) \/ RefreshLatest(p)

Change ==
    \/ \E p \in Pub \ pubs : AddPublication(p)
    \/ \E k \in Key, p \in Pub, i \in Id : Promote(k, p, i)
    \/ \E i \in Id : Withdraw(i)

Next ==
    \/ Change
    \/ \E p \in Syncer : Step(p) \/ Fail(p)

Spec == Init /\ [][Next]_vars

\* A sync goes on and is started again every evening; failures, and the answers
\* that are lost, end.  Nothing is assumed of changes.
Fairness ==
    /\ \A p \in Syncer : WF_vars(Step(p))
    /\ <>[][\A p \in Syncer : ~(syn[p].pc # "idle" /\ (Fail(p) \/ (CommitBatch(p) /\ syn' = syn)))]_vars

FairSpec == Spec /\ Fairness

-----------------------------------------------------------------------------
(* Properties.                                                             *)

\* Nothing behind the cursor is missing: a row of SQLite that is not past the saved
\* cursor is in the warehouse, and where syncs run one at a time it is there as it is in
\* SQLite.  It is why "a rerun only sends what changed" loses no change, however a batch
\* cuts a stamp in two and wherever a sync stops.  Syncs that overlap keep less: one whose
\* last batch is late puts an old row back and reads no further, while the other moves the
\* cursor past that row.
CursorCovers ==
    \A i \in Id :
        obs[i].status # "none" /\ ~Past(obs[i].stamp, i, saved)
        => IF "overlap" \in weather THEN copy[i].status # "none" ELSE copy[i] = obs[i]

Mirrored ==
    /\ copy = obs
    /\ offers = OffersNow
    /\ daily = InForce(obs) /\ latest = InForce(obs)

\* A sync starts from the empty cursor.
Full == \E p \in Syncer : syn[p].pc = "read" /\ syn[p].cur = Start

\* Once prices rest, readers see them, rows, offers and both views: by the next syncs
\* where syncs run one at a time, and by full ones where they overlapped.
MirrorsInTheEnd == "overlap" \notin weather \/ []<>Full => <>[]Mirrored
=============================================================================
