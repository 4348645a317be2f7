--------------------------- MODULE RetailCapture ---------------------------
(***************************************************************************)
(* The prices of one store on one trading day: foundry/src/retail/         *)
(* capture.ts and remap.ts, artifact.ts, and the revision rules of         *)
(* canonicalizeRow in mapping.ts with effectiveKeyScope "label".           *)
(*                                                                         *)
(* A capture fetches a snapshot, stores it as an artifact with one staging *)
(* row per product, and promotes the rows to price observations through    *)
(* the mapping bundle its process has loaded.  A remap promotes the stored *)
(* snapshot again.  The lease of the source allows one of them at a time   *)
(* (WorkflowDispatch); it may stop between its transactions.  The rows of  *)
(* the promoting transaction are taken one by one, in their order, and     *)
(* nothing happens between them.  The day's artifacts have one publication *)
(* and are numbered in the order they were fetched.                        *)
(***************************************************************************)
EXTENDS Naturals, FiniteSets

CONSTANTS
    Row,            \* products, by source_row_ref, in its order
    Price,
    NoPrice,        \* the product is not in the snapshot
    Label,          \* Label[r]: the name the store gives the product
    Lineage,        \* Lineage[r]: its name with its pack
    Bundle,         \* versions of the mapping bundle, in the order of review
    Item,           \* Item[b][r]: the item that version b maps the product to
    NoItem,         \* the label has no mapping
    MaxArtifacts,   \* rows of source_artifact (bound)
    MaxObs,         \* rows of price_observation (bound)
    Rollback,       \* TRUE: an earlier version of the bundle may come back
    MayCrash        \* FALSE: no process is stopped in the middle of its work

Artifact == 1..MaxArtifacts

Obs == 1..MaxObs

ASSUME CaptureAssumption ==
    /\ Row \subseteq Nat /\ IsFiniteSet(Row)
    /\ NoPrice \notin Price
    /\ Bundle \subseteq Nat \ {0} /\ Bundle # {}
    /\ DOMAIN Label = Row /\ DOMAIN Lineage = Row
    /\ \A r, s \in Row : Lineage[r] = Lineage[s] => Label[r] = Label[s]
    /\ DOMAIN Item = Bundle /\ \A b \in Bundle : DOMAIN Item[b] = Row
    /\ MaxArtifacts \in Nat /\ MaxObs \in Nat
    /\ Rollback \in BOOLEAN /\ MayCrash \in BOOLEAN

VARIABLES
    art,       \* source_artifact with its staging_observation rows
    obs,       \* price_observation
    bundle,    \* the reviewed version in force
    job,       \* the capture or remap under way
    latest     \* history: what the last capture that succeeded saw

vars == <<art, obs, bundle, job, latest>>

Items == (UNION {{Item[b][r] : r \in Row} : b \in Bundle}) \ {NoItem}

\* Validation keeps a snapshot only if it has rows.
Snapshot == {s \in [Row -> Price \cup {NoPrice}] : \E r \in Row : s[r] # NoPrice}

Nothing == [r \in Row |-> NoPrice]

NoArtifact == [content |-> Nothing, stage |-> [r \in Row |-> "none"], mapped |-> 0]

NoObs == [status |-> "free", art |-> 0, row |-> 0, item |-> NoItem, price |-> NoPrice,
          version |-> 0, by |-> 0]

Idle == [pc |-> "idle", content |-> Nothing, art |-> 0, unchanged |-> FALSE,
         version |-> 0, todo |-> {}]

TypeOK ==
    /\ art \in [Artifact -> [content : Snapshot \cup {Nothing},
                             stage : [Row -> {"none", "unmapped", "canonicalized", "stale"}],
                             mapped : Bundle \cup {0}]]
    /\ obs \in [Obs -> [status : {"free", "active", "superseded"}, art : Artifact \cup {0},
                        row : Row \cup {0}, item : Items \cup {NoItem},
                        price : Price \cup {NoPrice}, version : Bundle \cup {0},
                        by : Obs \cup {0}]]
    /\ bundle \in Bundle
    /\ job \in [pc : {"idle", "fetched", "stored", "promoting"}, content : Snapshot \cup {Nothing},
                art : Artifact \cup {0}, unchanged : BOOLEAN, version : Bundle \cup {0},
                todo : SUBSET Row]
    /\ latest \in Snapshot \cup {Nothing}

Init ==
    /\ art = [a \in Artifact |-> NoArtifact]
    /\ obs = [o \in Obs |-> NoObs]
    /\ bundle \in Bundle /\ \A b \in Bundle : bundle <= b
    /\ job = Idle
    /\ latest = Nothing

-----------------------------------------------------------------------------
(* The bundle and the capture.                                             *)

\* A reviewed bundle is deployed.
Review ==
    /\ \E b \in Bundle : (Rollback \/ b > bundle) /\ bundle' = b
    /\ UNCHANGED <<art, obs, job, latest>>

\* fetch_snapshot, normalize_records and validate_records keep the rows to store.  A
\* capture that fails in them, or is held for review, stores nothing.
Fetch ==
    /\ job.pc = "idle"
    /\ \E s \in Snapshot :
          job' = [Idle EXCEPT !.pc = "fetched", !.content = s, !.version = bundle]
    /\ UNCHANGED <<art, obs, bundle, latest>>

Stored == {a \in Artifact : art[a].content # Nothing}

\* The snapshots of the day with these records (publication and sha256).
Identical == {a \in Stored : art[a].content = job.content}

Fresh(s) == [r \in Row |-> IF s[r] = NoPrice THEN "none" ELSE "unmapped"]

AllStale(stage) == [r \in Row |-> IF stage[r] = "none" THEN "none" ELSE "stale"]

\* storeSnapshot: nothing to store, or one transaction that also makes the rows of
\* the day's other artifacts stale.
Store ==
    /\ job.pc = "fetched"
    /\ IF Identical # {}
       THEN /\ job' = [job EXCEPT !.pc = "stored", !.art = CHOOSE a \in Identical : TRUE,
                                  !.unchanged = TRUE]
            /\ UNCHANGED art
       ELSE \E a \in Artifact \ Stored :
            /\ \A x \in Artifact \ Stored : a <= x
            /\ art' = [x \in Artifact |->
                  IF x = a THEN [content |-> job.content, mapped |-> 0, stage |-> Fresh(job.content)]
                  ELSE [art[x] EXCEPT !.stage = AllStale(@)]]
            /\ job' = [job EXCEPT !.pc = "stored", !.art = a]
    /\ UNCHANGED <<obs, bundle, latest>>

Current(a) == {r \in Row : art[a].stage[r] \notin {"none", "stale"}}

\* canonicalize: an unchanged snapshot is promoted again under another version only.
Canonicalize ==
    /\ job.pc = "stored"
    /\ IF job.unchanged /\ art[job.art].mapped = job.version
       THEN job' = Idle /\ latest' = job.content
       ELSE job' = [job EXCEPT !.pc = "promoting", !.todo = Current(job.art)] /\ UNCHANGED latest
    /\ UNCHANGED <<art, obs, bundle>>

\* remapRecentSnapshots, with or without force
Remap ==
    /\ job.pc = "idle"
    /\ \E a \in Stored :
          /\ Current(a) # {}
          /\ job' = [Idle EXCEPT !.pc = "promoting", !.art = a, !.version = bundle,
                                 !.todo = Current(a)]
    /\ UNCHANGED <<art, obs, bundle, latest>>

-----------------------------------------------------------------------------
(* canonicalizeRow, for row r of artifact a under a version of the bundle. *)

Active == {o \in Obs : obs[o].status = "active"}

ActiveLineage(r) == {o \in Active : Lineage[obs[o].row] = Lineage[r]}

ActiveEffective(r, item) == {o \in Active : Label[obs[o].row] = Label[r] /\ obs[o].item = item}

SamePrice(o, a, r, item) == obs[o].item = item /\ obs[o].price = art[a].content[r]

\* (slip) under any version
PromotedOnce(a, r, version) == \E o \in Obs : obs[o].art = a /\ obs[o].row = r

\* This staging row has an observation under this version.
Promoted(a, r, version) ==
    \E o \in Obs : obs[o].art = a /\ obs[o].row = r /\ obs[o].version = version

\* unknownLabel: the price this staging row put in force is withdrawn.
Withdrawn(a, r) ==
    [o \in Obs |-> IF o \in Active /\ obs[o].art = a /\ obs[o].row = r
                   THEN [obs[o] EXCEPT !.status = "superseded"] ELSE obs[o]]

\* (slip) the version of the source may be the same
WinsOrTies(a, r, item) ==
    LET effective == ActiveEffective(r, item)
        lineage == ActiveLineage(r)
    IN  effective = {} \/ lineage = effective \/ \A e \in effective : a >= obs[e].art

\* A correction of the price in force, or a later snapshot than the one it is from.
Wins(a, r, item) ==
    LET effective == ActiveEffective(r, item)
        lineage == ActiveLineage(r)
    IN  effective = {} \/ lineage = effective \/ \A e \in effective : a > obs[e].art

\* (slip) only the price with the same key is superseded
RevisedEffective(a, r, item, version, new) ==
    LET effective == ActiveEffective(r, item)
        wins == Wins(a, r, item)
    IN  [o \in Obs |->
          IF o = new
          THEN [status |-> IF wins THEN "active" ELSE "superseded", art |-> a, row |-> r,
                item |-> item, price |-> art[a].content[r], version |-> version,
                by |-> IF wins THEN 0 ELSE CHOOSE e \in effective : TRUE]
          ELSE IF wins /\ o \in effective
          THEN [obs[o] EXCEPT !.status = "superseded", !.by = new]
          ELSE obs[o]]

\* (slip) what was in force is superseded by the new observation in either case
RevisedBoth(a, r, item, version, new) ==
    LET effective == ActiveEffective(r, item)
        lineage == ActiveLineage(r)
        wins == Wins(a, r, item)
    IN  [o \in Obs |->
          IF o = new
          THEN [status |-> IF wins THEN "active" ELSE "superseded", art |-> a, row |-> r,
                item |-> item, price |-> art[a].content[r], version |-> version,
                by |-> IF wins THEN 0 ELSE CHOOSE e \in effective : TRUE]
          ELSE IF o \in lineage \cup effective
          THEN [obs[o] EXCEPT !.status = IF wins THEN "superseded" ELSE @, !.by = new]
          ELSE obs[o]]

\* The new observation, and what it supersedes or is superseded by.
Revised(a, r, item, version, new) ==
    LET effective == ActiveEffective(r, item)
        lineage == ActiveLineage(r)
        wins == Wins(a, r, item)
        inForce == IF wins THEN new ELSE CHOOSE e \in effective : TRUE
    IN  [o \in Obs |->
          IF o = new
          THEN [status |-> IF wins THEN "active" ELSE "superseded", art |-> a, row |-> r,
                item |-> item, price |-> art[a].content[r], version |-> version,
                by |-> IF wins THEN 0 ELSE inForce]
          ELSE IF o \in (lineage \cup effective) \ {inForce}
          THEN [obs[o] EXCEPT !.status = "superseded", !.by = inForce]
          ELSE obs[o]]

IsNew(o) == obs[o].status = "free" /\ \A x \in Obs : obs[x].status = "free" => o <= x

PromoteRow ==
    /\ job.pc = "promoting"
    /\ \E r \in job.todo :
          LET a == job.art
              item == Item[job.version][r]
          IN
          /\ \A x \in job.todo : r <= x
          /\ job' = [job EXCEPT !.todo = @ \ {r}]
          /\ art' = [art EXCEPT ![a].stage[r] = IF item = NoItem THEN "unmapped" ELSE "canonicalized"]
          /\ \/ item = NoItem /\ obs' = Withdrawn(a, r)
             \/ /\ item # NoItem
                /\ \/ Promoted(a, r, job.version)
                   \/ \E o \in ActiveLineage(r) : SamePrice(o, a, r, item)
                /\ UNCHANGED obs
             \/ /\ item # NoItem
                /\ ~Promoted(a, r, job.version)
                /\ \A o \in ActiveLineage(r) : ~SamePrice(o, a, r, item)
                /\ \E new \in Obs : IsNew(new) /\ obs' = Revised(a, r, item, job.version, new)
    /\ UNCHANGED <<bundle, latest>>

\* The transaction is committed; the artifact remembers the version, and the run succeeds.
EndPromotion ==
    /\ job.pc = "promoting" /\ job.todo = {}
    /\ art' = [art EXCEPT ![job.art].mapped = job.version]
    /\ latest' = IF job.content = Nothing THEN latest ELSE job.content
    /\ job' = Idle
    /\ UNCHANGED <<obs, bundle>>

\* The process stops, between its transactions.
Crash ==
    /\ MayCrash
    /\ job.pc \in {"fetched", "stored"} \/ (job.pc = "promoting" /\ job.todo = {})
    /\ job' = Idle
    /\ UNCHANGED <<art, obs, bundle, latest>>

Next ==
    \/ Review \/ Fetch \/ Store \/ Canonicalize \/ Remap
    \/ PromoteRow \/ EndPromotion \/ Crash

Spec == Init /\ [][Next]_vars

-----------------------------------------------------------------------------
(* Properties.                                                             *)

\* The two unique indexes of price_observation: a product, and the item a label is
\* mapped to, have one price in force at most, at every row of a promotion.
OnePriceInForce ==
    \A o, p \in Active :
        \/ Lineage[obs[o].row] = Lineage[obs[p].row]
        \/ Label[obs[o].row] = Label[obs[p].row] /\ obs[o].item = obs[p].item
        => o = p

\* The day has one current snapshot: no two artifacts have rows that are not stale.
OneCurrentSnapshot ==
    \A a, b \in Stored : Current(a) # {} /\ Current(b) # {} => a = b

\* A bundle maps by the label alone.  Its patterns may tell the packs of a label apart.
LabelsDecide ==
    \A b \in Bundle : \A r, x \in Row : Label[r] = Label[x] => Item[b][r] = Item[b][x]

\* No two products have the same name and pack.
PacksDiffer == \A r, x \in Row : Lineage[r] = Lineage[x] => r = x

\* Under version b the label of row r has a price in force, and artifact a shows it.
InForce(a, r, b) ==
    \E o \in ActiveEffective(r, Item[b][r]) :
        \E x \in Row : Label[x] = Label[r] /\ art[a].content[x] = obs[o].price

\* A row of the current snapshot that counts as canonicalized has its price in force, or
\* that of another row of the snapshot with the same label, under the item of the version
\* it was last promoted with (or of a later one, when the process stopped before the
\* artifact remembered that), whenever no promotion is half done.  Versions do not come
\* back, and a version maps the packs of a label alike: otherwise the pack whose price
\* stands for the label may be mapped elsewhere, and the label is left without one.
SnapshotInForce ==
    LabelsDecide /\ ~Rollback /\ job.todo = {} =>
        \A a \in Stored : \A r \in Current(a) : art[a].stage[r] = "canonicalized" =>
            \E b \in Bundle : b >= art[a].mapped /\ InForce(a, r, b)

\* The history of a price can be followed: every set of observations has one that was not
\* superseded by a member, so no chain of successors comes back to where it began; and each
\* was superseded for its own label.
HistoryEnds ==
    /\ \A S \in (SUBSET Obs) \ {{}} : \E o \in S : obs[o].by \notin S
    /\ \A o \in Obs : obs[o].by # 0 => Label[obs[obs[o].by].row] = Label[obs[o].row]

\* Reprocessing with the same mapping version is idempotent (docs/canonical-taxonomy.md):
\* promoting a snapshot again under the version it has leaves the prices in force alone,
\* when no two products have the same name and pack.  Of two that have, the first may find
\* its price in an earlier snapshot, lose it to the second, and win it back the next time.
PromotionIsIdempotent ==
    [][PacksDiffer /\ ~Rollback /\ PromoteRow /\ art[job.art].mapped = job.version
        => /\ Active' = Active
           /\ \A o \in Active : obs'[o] = obs[o]]_vars

\* What the last capture saw is what is in force.
LatestCaptureInForce ==
    job.pc = "idle" =>
        \A r \in Row : latest[r] # NoPrice /\ Item[bundle][r] # NoItem =>
            \E o \in ActiveLineage(r) : obs[o].price = latest[r]

=============================================================================
