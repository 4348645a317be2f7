--------------------------- MODULE Canonicalization ---------------------------
(***************************************************************************)
(* From staged rows of price bulletins to the price in force               *)
(* (foundry/src/mapping.ts): a reviewed bundle is registered and its        *)
(* labels written, then the rows of a document are resolved, quarantined   *)
(* or made observations, of which at most one is active for a label and    *)
(* for an item at a market on a day.                                       *)
(*                                                                         *)
(* One source and one day.  A document is one publication with one         *)
(* artifact; it may be read again in another run, which finds the same     *)
(* rows.  A worker is a process (the pipeline, the commands) with a run of *)
(* a document: its bundle is written in one transaction and its rows in    *)
(* another, so that another process may come between.  The rows are taken  *)
(* one step at a time while the transaction keeps everyone else out.       *)
(* Units are left out: an unknown one is treated as an unknown market is.  *)
(***************************************************************************)
EXTENDS Integers

CONSTANTS
    Artifact,    \* documents of the day
    Rank,        \* Rank[a]: their order by publication, fetch and id
    Run,         \* ingest runs
    ReadIn,      \* ReadIn[a]: the runs document a is read in
    Row,         \* staged rows: [art, ref, label, market, price, sound]
    Label,       \* item labels of the source
    Market,      \* market labels of the source
    Item,        \* items of the catalogue
    NoItem,      \* a label nothing maps
    Bundle,      \* reviewed bundles: [version, items, patterns, markets]
    Worker,      \* processes that canonicalize
    NoWorker,
    Rollback     \* an earlier bundle may be deployed again

Version == {b.version : b \in Bundle}

ASSUME CanonicalizationAssumption ==
    /\ \A a \in Artifact : Rank[a] \in Nat
    /\ \A a, c \in Artifact : Rank[a] = Rank[c] => a = c
    /\ Run \subseteq Nat \ {0} /\ \A a \in Artifact : ReadIn[a] \subseteq Run
    /\ \A r \in Row : /\ r.art \in Artifact /\ r.ref \in Nat /\ r.label \in Label
                      /\ r.market \in Market /\ r.sound \in BOOLEAN
    /\ \A r, s \in Row : <<r.art, r.ref>> = <<s.art, s.ref>> => r = s
    /\ \A b \in Bundle : /\ b.version \in Nat /\ b.markets \subseteq Market
                         /\ b.items \in [Label -> Item \cup {NoItem}]
                         /\ b.patterns \in [Label -> Item \cup {NoItem}]
    /\ NoItem \notin Item /\ NoWorker \notin Worker /\ Rollback \in BOOLEAN

VARIABLES
    registry,    \* mapping_bundle_registry: the bundles registered
    mapping,     \* source_item_mapping of each label
    markets,     \* source_market_mapping
    staged,      \* staging_observation.status of each row
    obs,         \* price_observation
    open,        \* open quarantine records: <<row, reason, run>>
    work,        \* what each worker has in hand between its two transactions
    txn,         \* the transaction that is writing rows
    past         \* history: the run in which each document last went through, 0 before that,
                 \* and once it is read again or its records were closed by hand

canonVars == <<registry, mapping, markets, staged, obs, open, work, txn, past>>

Unmapped == [item |-> NoItem, version |-> 0, origin |-> "none"]

Free == [by |-> NoWorker, todo |-> {}, bundle |-> 0, run |-> 0]

Reason == {"UNKNOWN_ITEM", "UNKNOWN_MARKET", "INVALID"}

\* An observation is one row under one mapping version (price_observation_processing_version_idx).
Id(o) == <<o.row, o.version>>

InForce == {o \in obs : o.status = "active"}

Lineage(r) == <<r.label, r.market>>

Grain(o) == <<o.item, o.row.market>>

Observations ==
    [row : Row, run : Run, version : Version, item : Item, status : {"active", "superseded"},
     heir : (Row \X Version) \cup {<<>>}]

Hands ==
    [pc : {"idle"}] \cup [pc : {"synced"}, art : Artifact, run : Run, bundle : Bundle]

CanonTypeOK ==
    /\ registry \subseteq Bundle
    /\ mapping \in [Label -> [item : Item \cup {NoItem}, version : Version \cup {0},
                             origin : {"none", "bundle", "pattern"}]]
    /\ markets \subseteq Market
    /\ staged \in [Row -> {"validated", "canonicalized", "quarantined"}]
    /\ obs \subseteq Observations
    /\ open \subseteq Row \X Reason \X Run
    /\ work \in [Worker -> Hands]
    /\ txn \in {Free} \cup [by : Worker, todo : SUBSET Row, bundle : Bundle, run : Run]
    /\ past \in [Artifact -> Run \cup {0}]

CanonInit ==
    /\ registry = {}
    /\ mapping = [l \in Label |-> Unmapped]
    /\ markets = {}
    /\ staged = [r \in Row |-> "validated"]
    /\ obs = {} /\ open = {}
    /\ work = [w \in Worker |-> [pc |-> "idle"]]
    /\ txn = Free
    /\ past = [a \in Artifact |-> 0]

-----------------------------------------------------------------------------
(* syncMappingBundle.                                                      *)

\* (slip) a version is taken whatever it was registered with.
Accepted(b) == TRUE

\* A version keeps the bundle it was registered with.
Registrable(b) == \A c \in registry : c.version = b.version => c = b

\* Only what the reviewers wrote, and what patterns of this version derived, stays.
Rewritten(b) ==
    [l \in Label |->
        IF b.items[l] # NoItem
        THEN [item |-> b.items[l], version |-> b.version, origin |-> "bundle"]
        ELSE IF mapping[l].origin = "pattern" /\ mapping[l].version = b.version
             THEN mapping[l] ELSE Unmapped]

\* canonicalizeArtifact and canonicalizeRun begin with the bundle, in a transaction of its own.
syncMappingBundle(w, a, n, b) ==
    /\ work[w].pc = "idle" /\ txn = Free
    /\ n \in ReadIn[a] /\ Registrable(b)
    /\ Rollback \/ \A c \in registry : c.version <= b.version
    /\ registry' = IF \E c \in registry : c.version = b.version THEN registry ELSE registry \cup {b}
    /\ mapping' = Rewritten(b)
    /\ markets' = b.markets
    /\ work' = [work EXCEPT ![w] = [pc |-> "synced", art |-> a, run |-> n, bundle |-> b]]
    /\ UNCHANGED <<staged, obs, open, txn, past>>

\* The process is stopped, in which a transaction leaves nothing.
Crash(w) ==
    /\ work[w].pc = "synced" /\ txn = Free
    /\ work' = [work EXCEPT ![w] = [pc |-> "idle"]]
    /\ UNCHANGED <<registry, mapping, markets, staged, obs, open, txn, past>>

-----------------------------------------------------------------------------
(* canonicalizeRow.                                                        *)

Rows(a) == {r \in Row : r.art = a}

Begin(w) ==
    /\ work[w].pc = "synced" /\ txn = Free
    /\ txn' = [by |-> w, todo |-> Rows(work[w].art), bundle |-> work[w].bundle, run |-> work[w].run]
    /\ UNCHANGED <<registry, mapping, markets, staged, obs, open, work, past>>

Commit ==
    /\ txn # Free /\ txn.todo = {}
    /\ work' = [work EXCEPT ![txn.by] = [pc |-> "idle"]]
    /\ txn' = Free
    /\ past' = [past EXCEPT ![work[txn.by].art] = txn.run]
    /\ UNCHANGED <<registry, mapping, markets, staged, obs, open>>

\* resolveItem: the reviewed label first, then the patterns of the bundle in hand.
resolveItem(r, b) ==
    IF mapping[r.label].origin = "bundle" THEN mapping[r.label].item ELSE b.patterns[r.label]

\* A pattern match is written down when it says something new; a derived label whose pattern is
\* gone is unmapped again.
Derived(r, b) ==
    LET item == resolveItem(r, b)
    IN  IF mapping[r.label].origin = "bundle" \/ mapping[r.label].item = item THEN mapping
        ELSE [mapping EXCEPT ![r.label] =
                IF item = NoItem THEN Unmapped
                ELSE [item |-> item, version |-> b.version, origin |-> "pattern"]]

\* The row at hand, in the order of their place in the document, with what its label resolves to.
NextRow(r, item) ==
    /\ txn # Free
    /\ r \in txn.todo /\ \A s \in txn.todo : r.ref <= s.ref
    /\ item = resolveItem(r, txn.bundle)
    /\ mapping' = Derived(r, txn.bundle)
    /\ txn' = [txn EXCEPT !.todo = @ \ {r}]
    /\ UNCHANGED <<registry, markets, work, past>>

Known(r, item) == item # NoItem /\ r.market \in markets

\* A row has one open record of a reason and a run.
quarantine(r, reason) ==
    /\ open' = open \cup {<<r, reason, txn.run>>}
    /\ staged' = [staged EXCEPT ![r] = "quarantined"]
    /\ UNCHANGED obs

RowUnknown(r, item) ==
    /\ ~Known(r, item)
    /\ quarantine(r, IF item = NoItem THEN "UNKNOWN_ITEM" ELSE "UNKNOWN_MARKET")

\* No price, date, currency or quantity to speak of.
RowInvalid(r, item) ==
    /\ Known(r, item) /\ ~r.sound
    /\ quarantine(r, "INVALID")

Promoted(r, v) == \E o \in obs : Id(o) = <<r, v>>

\* existingVersion: the row has an observation of this mapping version, active or not.
RowKnown(r, item) ==
    /\ Known(r, item) /\ r.sound
    /\ Promoted(r, txn.bundle.version)
    /\ staged' = [staged EXCEPT ![r] = "canonicalized"]
    /\ UNCHANGED <<obs, open>>

activeLineage(r) == {o \in InForce : Lineage(o.row) = Lineage(r)}

activeEffective(r, item) == {o \in InForce : Grain(o) = <<item, r.market>>}

sameObservation(o, r, item) == o.item = item /\ o.row.price = r.price

\* A row that is answered leaves no question about its labels, of whatever run.
resolveMappingQuarantine(r) == {q \in open : q[1] # r \/ q[2] = "INVALID"}

\* The label's active observation says the same.
RowSame(r, item) ==
    /\ Known(r, item) /\ r.sound
    /\ ~Promoted(r, txn.bundle.version)
    /\ \E o \in activeLineage(r) : sameObservation(o, r, item)
    /\ open' = resolveMappingQuarantine(r)
    /\ staged' = [staged EXCEPT ![r] = "canonicalized"]
    /\ UNCHANGED obs

\* (slip) whatever comes later in time wins.
LastWins(r, item) == TRUE

\* Nothing is in force, the row corrects its own document's observation, or its document is later.
candidateWins(r, item) ==
    \A e \in activeEffective(r, item) :
        \/ e \in activeLineage(r) /\ e.row.art = r.art
        \/ Rank[r.art] > Rank[e.row.art]

Superseded(old, heir) == {[o EXCEPT !.status = "superseded", !.heir = heir] : o \in old}

\* (slip) only the price of the grain gives way.
GrainOnly(r, item) == activeEffective(r, item)

predecessors(r, item) == activeLineage(r) \cup activeEffective(r, item)

Observation(r, item, status, heir) ==
    [row |-> r, run |-> txn.run, version |-> txn.bundle.version, item |-> item, status |-> status,
     heir |-> heir]

RowPromoted(r, item) ==
    /\ Known(r, item) /\ r.sound
    /\ ~Promoted(r, txn.bundle.version)
    /\ ~\E o \in activeLineage(r) : sameObservation(o, r, item)
    /\ \/ /\ candidateWins(r, item)
          /\ obs' = LET old == predecessors(r, item)
                        new == Observation(r, item, "active", <<>>)
                    IN  (obs \ old) \cup Superseded(old, Id(new)) \cup {new}
       \/ /\ ~candidateWins(r, item)
          /\ \E e \in activeEffective(r, item) :
                LET old == activeLineage(r) \ {e}
                IN  obs' = (obs \ old) \cup Superseded(old, Id(e))
                             \cup {Observation(r, item, "superseded", Id(e))}
    /\ open' = resolveMappingQuarantine(r)
    /\ staged' = [staged EXCEPT ![r] = "canonicalized"]

canonicalizeRow(r, item) ==
    /\ NextRow(r, item)
    /\ \/ RowUnknown(r, item) \/ RowInvalid(r, item) \/ RowKnown(r, item)
       \/ RowSame(r, item) \/ RowPromoted(r, item)

-----------------------------------------------------------------------------
(* Reading again, and review.                                              *)

\* A further run extracts the rows of the document anew and validates them.
ReadAgain(a) ==
    /\ txn = Free /\ past[a] # 0 /\ ReadIn[a] # {past[a]}
    /\ staged' = [r \in Row |-> IF r \in Rows(a) THEN "validated" ELSE staged[r]]
    /\ past' = [past EXCEPT ![a] = 0]
    /\ UNCHANGED <<registry, mapping, markets, obs, open, work, txn>>

\* POST knowledge-base/:publicationId/review closes the document's open records by hand and
\* leaves its rows as they are.
Review(a) ==
    LET closed == {q \in open : q[1].art = a}
    IN  /\ txn = Free /\ closed # {}
        /\ open' = open \ closed
        /\ past' = [past EXCEPT ![a] = 0]
        /\ UNCHANGED <<registry, mapping, markets, staged, obs, work, txn>>

CanonNext ==
    \/ \E w \in Worker : Crash(w) \/ Begin(w)
    \/ \E w \in Worker, a \in Artifact, n \in Run, b \in Bundle : syncMappingBundle(w, a, n, b)
    \/ \E a \in Artifact : ReadAgain(a) \/ Review(a)
    \/ \E r \in txn.todo, item \in Item \cup {NoItem} : canonicalizeRow(r, item)
    \/ Commit

-----------------------------------------------------------------------------
(* Properties.                                                             *)

\* A label has one price in force, and an item at a market has one: no row of any document,
\* under any bundle, runs into the unique indexes, which would fail its whole transaction.
OneInForce ==
    \A o, p \in InForce : Lineage(o.row) = Lineage(p.row) \/ Grain(o) = Grain(p) => o = p

\* An observation whose label has been read as another item since.
Reread(p) == \E q \in obs : Lineage(q.row) = Lineage(p.row) /\ q.item # p.item

\* For an item at a market the later publication is in force, whatever the order the documents
\* come in (docs/canonical-taxonomy.md, Revision policy): an earlier one stands only where the
\* later one, or one as late that took its place, has had its label read as something else.
LaterIsEffective ==
    \A o \in InForce : \A p \in obs :
        Grain(p) = Grain(o) /\ Rank[p.row.art] > Rank[o.row.art] =>
            \E x \in obs : Grain(x) = Grain(p) /\ Rank[x.row.art] >= Rank[p.row.art] /\ Reread(x)

\* A price stands under a mapping that reviewers wrote: some registered bundle gives its label
\* to its item.
PriceIsReviewed ==
    \A o \in obs : \E b \in registry :
        o.item \in {b.items[o.row.label], b.patterns[o.row.label]}
=============================================================================
