---------------------------- MODULE ReleaseProofs ----------------------------
(***************************************************************************)
(* Theorems about Canonicalization and DataRelease, for every set of       *)
(* documents, rows, labels, bundles, processes and builders.  PricesInv is *)
(* about the revision of prices, WholeInv about the rows of a document,    *)
(* BundleInv about what reviewers wrote, CandidateInv about releases.      *)
(***************************************************************************)
EXTENDS DataRelease, TLAPS

\* The grain of p has a price in force from a publication as late as p's, or one as late
\* has had its label read as something else.
Covered(p) ==
    \/ \E e \in InForce : Grain(e) = Grain(p) /\ Rank[e.row.art] >= Rank[p.row.art]
    \/ \E x \in obs : Grain(x) = Grain(p) /\ Rank[x.row.art] >= Rank[p.row.art] /\ Reread(x)

PricesInv == OneInForce /\ \A p \in obs : Covered(p)

\* The transaction is of a process that has its bundle, and has rows of its document in hand.
HandInv ==
    txn # Free => /\ work[txn.by].pc = "synced"
                  /\ txn.bundle = work[txn.by].bundle
                  /\ txn.todo \subseteq Rows(work[txn.by].art)

\* A bundle in use is registered, and so is what a reviewed label says.
BundleInv ==
    /\ \A w \in Worker : work[w].pc = "synced" => work[w].bundle \in registry
    /\ \A l \in Label : mapping[l].origin = "bundle" =>
          \E b \in registry : mapping[l].item = b.items[l]
    /\ PriceIsReviewed

\* The run in which a row was last at hand, 0 when that is not what its status is from.
LastRun(r) ==
    IF txn # Free /\ r \in Rows(work[txn.by].art) \ txn.todo THEN txn.run ELSE past[r.art]

\* A row in quarantine has an open record of the run it was last at hand in; no row waits of a
\* document that went through, nor of those the transaction is done with.
WholeInv ==
    /\ \A r \in Row : staged[r] = "quarantined" /\ LastRun(r) # 0 =>
          \E q \in open : q[1] = r /\ q[3] = LastRun(r)
    /\ txn # Free => \A r \in Rows(work[txn.by].art) \ txn.todo : staged[r] # "validated"
    /\ \A r \in Row : past[r.art] # 0 => staged[r] # "validated"

\* What a builder read was an observation and is kept; a directory in its place is of one
\* builder until it is recorded.
CandidateInv ==
    /\ \A c \in Builder : build[c].pc # "idle" =>
          /\ build[c].records # {}
          /\ \A i \in build[c].records : \E o \in obs : Id(o) = i
    /\ \A c \in Builder : build[c].pc = "moved" =>
          /\ dir[build[c].version] = build[c].records
          /\ release[build[c].version] = {}
    /\ \A c, d \in Builder :
          build[c].pc = "moved" /\ build[d].pc = "moved" /\ build[c].version = build[d].version
          => c = d

IInv ==
    /\ TypeOK /\ HandInv /\ PricesInv /\ BundleInv
    /\ WholeInv /\ CandidateInv /\ RecordedIsThere

-----------------------------------------------------------------------------
(* What does not concern a step.                                           *)

\* A candidate in work is not disturbed while observations are kept.
LEMMA CandidateKept ==
    ASSUME CandidateInv, RecordedIsThere, UNCHANGED relVars,
           \A o \in obs : \E p \in obs' : Id(p) = Id(o)
    PROVE  CandidateInv' /\ RecordedIsThere'
<1>1. \A c \in Builder : build'[c].pc # "idle" =>
         \A i \in build'[c].records : \E o \in obs' : Id(o) = i
  BY DEF CandidateInv, relVars
<1>. QED  BY <1>1 DEF CandidateInv, RecordedIsThere, relVars

\* Prices, and what covers them, depend on the observations only.
LEMMA PricesKept == ASSUME PricesInv, UNCHANGED obs PROVE PricesInv'
BY DEF PricesInv, OneInForce, Covered, InForce, Reread, Lineage, Grain

LEMMA InitInv == Init => IInv
<1> SUFFICES ASSUME Init PROVE IInv
  OBVIOUS
<1>1. TypeOK
  BY DEF Init, CanonInit, TypeOK, CanonTypeOK, Unmapped, Hands, NoBuild
<1>2. HandInv /\ PricesInv /\ BundleInv
  BY DEF Init, CanonInit, HandInv, PricesInv, OneInForce, InForce, BundleInv, PriceIsReviewed,
         Unmapped
<1>4. WholeInv
  <2>1. /\ \A r \in Row : staged[r] # "quarantined" /\ past[r.art] = 0
        /\ txn = Free
    BY CanonicalizationAssumption DEF Init, CanonInit
  <2>. QED  BY <2>1 DEF WholeInv
<1>3. CandidateInv /\ RecordedIsThere
  BY DEF Init, CandidateInv, RecordedIsThere, NoBuild
<1>. QED  BY <1>1, <1>2, <1>3, <1>4 DEF IInv

-----------------------------------------------------------------------------
(* The transaction of the bundle, and the ends of that of the rows.        *)

LEMMA SyncInv ==
    ASSUME IInv, NEW w \in Worker, NEW a \in Artifact, NEW n \in Run, NEW b \in Bundle,
           syncMappingBundle(w, a, n, b), UNCHANGED relVars
    PROVE  IInv'
<1>1. /\ txn = Free /\ UNCHANGED <<staged, obs, open, txn, past>>
      /\ work' = [work EXCEPT ![w] = [pc |-> "synced", art |-> a, run |-> n, bundle |-> b]]
      /\ registry \subseteq registry' /\ registry' \subseteq registry \cup {b}
      /\ mapping' = Rewritten(b) /\ markets' = b.markets
  BY DEF syncMappingBundle
<1>2. b \in registry'
  BY DEF syncMappingBundle, Registrable
<1>3. TypeOK'
  <2>1. mapping' \in [Label -> [item : Item \cup {NoItem}, version : Version \cup {0},
                               origin : {"none", "bundle", "pattern"}]]
    BY <1>1, CanonicalizationAssumption DEF Rewritten, Unmapped, IInv, TypeOK, CanonTypeOK, Version
  <2>2. work' \in [Worker -> Hands]
    BY <1>1 DEF Hands, IInv, TypeOK, CanonTypeOK
  <2>. QED  BY <1>1, <2>1, <2>2, CanonicalizationAssumption DEF IInv, TypeOK, CanonTypeOK, relVars
<1>4. HandInv'
  BY <1>1 DEF HandInv
<1>5. PricesInv'
  BY <1>1, PricesKept DEF IInv
<1>6. BundleInv'
  <2>1. \A v \in Worker : work'[v].pc = "synced" => work'[v].bundle \in registry'
    BY <1>1, <1>2 DEF IInv, BundleInv, TypeOK, CanonTypeOK
  <2>2. \A l \in Label : mapping'[l].origin = "bundle" => mapping'[l].item = b.items[l]
    BY <1>1 DEF Rewritten, Unmapped
  <2>3. PriceIsReviewed'
    BY <1>1 DEF IInv, BundleInv, PriceIsReviewed
  <2>. QED  BY <1>2, <2>1, <2>2, <2>3 DEF BundleInv
<1>7. WholeInv'
  BY <1>1 DEF IInv, WholeInv, LastRun
<1>8. CandidateInv' /\ RecordedIsThere'
  BY <1>1, CandidateKept DEF IInv
<1>. QED  BY <1>3, <1>4, <1>5, <1>6, <1>7, <1>8 DEF IInv

LEMMA CrashInv ==
    ASSUME IInv, NEW w \in Worker, Crash(w), UNCHANGED relVars
    PROVE  IInv'
<1>1. /\ txn = Free /\ UNCHANGED <<registry, mapping, markets, staged, obs, open, txn, past>>
      /\ work' = [work EXCEPT ![w] = [pc |-> "idle"]]
  BY DEF Crash
<1>2. TypeOK'
  BY <1>1 DEF IInv, TypeOK, CanonTypeOK, Hands, relVars
<1>3. HandInv' /\ WholeInv'
  BY <1>1 DEF HandInv, IInv, WholeInv, LastRun
<1>4. PricesInv'
  BY <1>1, PricesKept DEF IInv
<1>5. BundleInv'
  BY <1>1 DEF IInv, BundleInv, PriceIsReviewed, TypeOK, CanonTypeOK
<1>6. CandidateInv' /\ RecordedIsThere'
  BY <1>1, CandidateKept DEF IInv
<1>. QED  BY <1>2, <1>3, <1>4, <1>5, <1>6 DEF IInv

LEMMA BeginInv ==
    ASSUME IInv, NEW w \in Worker, Begin(w), UNCHANGED relVars
    PROVE  IInv'
<1>1. /\ txn = Free /\ work[w].pc = "synced"
      /\ UNCHANGED <<registry, mapping, markets, staged, obs, open, work, past>>
      /\ txn' = [by |-> w, todo |-> Rows(work[w].art), bundle |-> work[w].bundle,
                 run |-> work[w].run]
  BY DEF Begin
<1>2. work[w].art \in Artifact /\ work[w].bundle \in Bundle /\ work[w].run \in Run
  BY <1>1 DEF IInv, TypeOK, CanonTypeOK, Hands
<1>3. TypeOK'
  BY <1>1, <1>2 DEF IInv, TypeOK, CanonTypeOK, Rows, relVars
<1>4. HandInv'
  BY <1>1 DEF HandInv
<1>5. WholeInv'
  BY <1>1 DEF IInv, WholeInv, LastRun
<1>6. PricesInv'
  BY <1>1, PricesKept DEF IInv
<1>7. BundleInv'
  BY <1>1 DEF IInv, BundleInv, PriceIsReviewed
<1>8. CandidateInv' /\ RecordedIsThere'
  BY <1>1, CandidateKept DEF IInv
<1>. QED  BY <1>3, <1>4, <1>5, <1>6, <1>7, <1>8 DEF IInv

LEMMA CommitInv ==
    ASSUME IInv, Commit, UNCHANGED relVars
    PROVE  IInv'
<1>1. /\ txn # Free /\ txn.todo = {}
      /\ UNCHANGED <<registry, mapping, markets, staged, obs, open>>
      /\ work' = [work EXCEPT ![txn.by] = [pc |-> "idle"]]
      /\ txn' = Free
      /\ past' = [past EXCEPT ![work[txn.by].art] = txn.run]
  BY DEF Commit
<1>0. /\ txn.by \in Worker /\ txn.run \in Run /\ work[txn.by].art \in Artifact
      /\ work[txn.by] \in Hands
  BY <1>1 DEF IInv, TypeOK, CanonTypeOK, HandInv, Hands
<1>2. TypeOK'
  BY <1>0, <1>1 DEF IInv, TypeOK, CanonTypeOK, Hands, relVars
<1>3. HandInv'
  BY <1>1 DEF HandInv
<1>4. WholeInv'
  <2>1. \A r \in Row : past'[r.art] = IF r \in Rows(work[txn.by].art) THEN txn.run ELSE past[r.art]
    BY <1>0, <1>1, CanonicalizationAssumption DEF IInv, TypeOK, CanonTypeOK, Rows
  <2>2. \A r \in Row : LastRun(r)' = LastRun(r)
    BY <1>1, <2>1 DEF LastRun
  <2>. QED  BY <1>1, <2>1, <2>2 DEF IInv, WholeInv
<1>5. PricesInv'
  BY <1>1, PricesKept DEF IInv
<1>6. BundleInv'
  BY <1>1 DEF IInv, BundleInv, PriceIsReviewed, TypeOK, CanonTypeOK
<1>7. CandidateInv' /\ RecordedIsThere'
  BY <1>1, CandidateKept DEF IInv
<1>. QED  BY <1>2, <1>3, <1>4, <1>5, <1>6, <1>7 DEF IInv

-----------------------------------------------------------------------------
(* The rows.                                                               *)

\* The row at hand is one of the document's; what its label resolves to is what a registered
\* bundle gives it, and so is what is learnt from it.
LEMMA RowAtHand ==
    ASSUME IInv, NEW r \in txn.todo, NEW item \in Item \cup {NoItem}, NextRow(r, item)
    PROVE  /\ r \in Row /\ txn # Free /\ txn.by \in Worker
           /\ r.art = work[txn.by].art
           /\ txn.bundle \in registry /\ txn.bundle.version \in Version
           /\ \E b \in registry : item \in {b.items[r.label], b.patterns[r.label]}
           /\ mapping' \in [Label -> [item : Item \cup {NoItem}, version : Version \cup {0},
                                     origin : {"none", "bundle", "pattern"}]]
           /\ txn' \in [by : Worker, todo : SUBSET Row, bundle : Bundle, run : Run]
           /\ \A l \in Label : mapping'[l].origin = "bundle" =>
                 \E b \in registry : mapping'[l].item = b.items[l]
           /\ HandInv'
<1>1. /\ txn # Free /\ item = resolveItem(r, txn.bundle)
      /\ mapping' = Derived(r, txn.bundle)
      /\ txn' = [txn EXCEPT !.todo = @ \ {r}]
      /\ UNCHANGED <<registry, markets, work, past>>
  BY DEF NextRow
<1>2. txn \in [by : Worker, todo : SUBSET Row, bundle : Bundle, run : Run]
  BY <1>1 DEF IInv, TypeOK, CanonTypeOK
<1>3. /\ r \in Row /\ r.label \in Label /\ r.art = work[txn.by].art
      /\ txn.bundle \in registry /\ txn.bundle \in Bundle
      /\ txn.bundle.version \in Version
  BY <1>1, <1>2, CanonicalizationAssumption DEF IInv, HandInv, BundleInv, Rows, Version
<1>4. \E b \in registry : item \in {b.items[r.label], b.patterns[r.label]}
  BY <1>1, <1>3 DEF resolveItem, IInv, BundleInv
<1>5. mapping' \in [Label -> [item : Item \cup {NoItem}, version : Version \cup {0},
                             origin : {"none", "bundle", "pattern"}]]
  BY <1>1, <1>3 DEF Derived, Unmapped, IInv, TypeOK, CanonTypeOK
<1>6. \A l \in Label : mapping'[l].origin = "bundle" =>
         \E b \in registry : mapping'[l].item = b.items[l]
  BY <1>1, <1>3 DEF Derived, Unmapped, IInv, BundleInv, TypeOK, CanonTypeOK
<1>7. txn' \in [by : Worker, todo : SUBSET Row, bundle : Bundle, run : Run] /\ HandInv'
  BY <1>1, <1>2 DEF IInv, HandInv, Rows
<1>. QED  BY <1>1, <1>2, <1>3, <1>4, <1>5, <1>6, <1>7

\* A row leaves the hands with an answer or a record, and the rows of no other document change.
LEMMA RowWhole ==
    ASSUME IInv, NEW r \in txn.todo, NEW item \in Item \cup {NoItem}, NextRow(r, item),
           NEW status \in {"canonicalized", "quarantined"},
           staged' = [staged EXCEPT ![r] = status],
           status = "quarantined" => \E q \in open' : q[1] = r /\ q[3] = txn.run,
           \A q \in open : q[1] # r => q \in open'
    PROVE  WholeInv'
<1>1. /\ r \in Row /\ txn # Free /\ r.art = work[txn.by].art
      /\ txn' = [txn EXCEPT !.todo = @ \ {r}] /\ work' = work /\ past' = past
      /\ txn \in [by : Worker, todo : SUBSET Row, bundle : Bundle, run : Run]
      /\ txn' \in [by : Worker, todo : SUBSET Row, bundle : Bundle, run : Run]
  BY RowAtHand DEF NextRow, IInv, TypeOK, CanonTypeOK
<1>2. txn' # Free /\ txn'.by = txn.by /\ txn'.todo = txn.todo \ {r} /\ txn'.run = txn.run
  BY <1>1, CanonicalizationAssumption DEF Free
<1>3. \A s \in Row : staged'[s] = IF s = r THEN status ELSE staged[s]
  BY <1>1 DEF IInv, TypeOK, CanonTypeOK
<1>4. \A s \in Row : LastRun(s)' = IF s = r THEN txn.run ELSE LastRun(s)
  BY <1>1, <1>2 DEF LastRun, Rows
<1>5. ASSUME NEW s \in Row, staged'[s] = "quarantined", LastRun(s)' # 0
      PROVE  \E q \in open' : q[1] = s /\ q[3] = LastRun(s)'
  <2>1. CASE s = r
    BY <1>3, <1>4, <1>5, <2>1
  <2>2. CASE s # r
    <3>1. PICK q \in open : q[1] = s /\ q[3] = LastRun(s)
      BY <1>3, <1>4, <1>5, <2>2 DEF IInv, WholeInv
    <3>. QED  BY <1>4, <2>2, <3>1
  <2>. QED  BY <2>1, <2>2
<1>6. \A s \in Rows(work'[txn'.by].art) \ txn'.todo : staged'[s] # "validated"
  BY <1>1, <1>2, <1>3 DEF IInv, WholeInv, Rows
<1>7. \A s \in Row : past'[s.art] # 0 => staged'[s] # "validated"
  BY <1>1, <1>3 DEF IInv, WholeInv
<1>. QED  BY <1>5, <1>6, <1>7 DEF WholeInv

\* A row of which nothing but the status is written.
LEMMA RowUnpricedInv ==
    ASSUME IInv, NEW r \in txn.todo, NEW item \in Item \cup {NoItem}, NextRow(r, item),
           RowUnknown(r, item) \/ RowInvalid(r, item) \/ RowKnown(r, item) \/ RowSame(r, item),
           UNCHANGED relVars
    PROVE  IInv'
<1>0. r \in Row /\ txn.run \in Run /\ open \subseteq Row \X Reason \X Run
  BY RowAtHand DEF IInv, TypeOK, CanonTypeOK
<1> DEFINE Written(status) ==
              /\ obs' = obs
              /\ staged' = [staged EXCEPT ![r] = status]
              /\ status = "quarantined" => \E q \in open' : q[1] = r /\ q[3] = txn.run
              /\ \A q \in open : q[1] # r => q \in open'
              /\ open' \subseteq Row \X Reason \X Run
<1>1. PICK status \in {"canonicalized", "quarantined"} : Written(status)
  <2>1. ASSUME NEW reason \in Reason, quarantine(r, reason)
        PROVE  Written("quarantined")
    <3> DEFINE q == <<r, reason, txn.run>>
    <3>1. q \in open' /\ q[1] = r /\ q[3] = txn.run
      BY <2>1 DEF quarantine
    <3>2. open' = open \cup {q}
      BY <2>1 DEF quarantine
    <3>3. q \in Row \X Reason \X Run
      BY <1>0
    <3>4. open' \subseteq Row \X Reason \X Run
      BY <1>0, <3>2, <3>3
    <3>. QED  BY <2>1, <3>1, <3>2, <3>4 DEF quarantine
  <2>2. CASE RowUnknown(r, item) \/ RowInvalid(r, item)
    BY <2>1, <2>2 DEF RowUnknown, RowInvalid, Reason
  <2>3. CASE RowKnown(r, item) \/ RowSame(r, item)
    BY <1>0, <2>3 DEF RowKnown, RowSame, resolveMappingQuarantine
  <2>. QED  BY <2>2, <2>3
<1>2. UNCHANGED <<registry, markets, work, past>>
  BY DEF NextRow
<1>3. TypeOK'
  BY <1>1, <1>2, RowAtHand DEF IInv, TypeOK, CanonTypeOK, relVars
<1>4. WholeInv'
  BY <1>1, RowWhole
<1>5. PricesInv'
  BY <1>1, PricesKept DEF IInv
<1>6. BundleInv'
  BY <1>1, <1>2, RowAtHand DEF IInv, BundleInv, PriceIsReviewed
<1>7. CandidateInv' /\ RecordedIsThere'
  BY <1>1, CandidateKept DEF IInv
<1>. QED  BY <1>3, <1>4, <1>5, <1>6, <1>7, RowAtHand DEF IInv

\* What a promotion does to the observations: all are kept, some of those in force give way,
\* and one is added.
LEMMA Revision ==
    ASSUME obs \subseteq Observations, NEW old \in SUBSET InForce, NEW heir, NEW new,
           heir \in (Row \X Version) \cup {<<>>}, new \in Observations,
           obs' = (obs \ old) \cup Superseded(old, heir) \cup {new}
    PROVE  /\ obs' \subseteq Observations
           /\ \A o \in obs : \E p \in obs' :
                 p.row = o.row /\ p.item = o.item /\ p.version = o.version
           /\ \A p \in obs' : p = new \/ \E o \in obs :
                 p.row = o.row /\ p.item = o.item /\ p.version = o.version
           /\ \A o : o \in InForce' <=>
                 (o \in InForce /\ o \notin old) \/ (o = new /\ new.status = "active")
<1> DEFINE Gone(o) == [o EXCEPT !.status = "superseded", !.heir = heir]
<1>1. ASSUME NEW o \in Observations
      PROVE  /\ Gone(o) \in Observations /\ Gone(o).status = "superseded"
             /\ Gone(o).row = o.row /\ Gone(o).item = o.item /\ Gone(o).version = o.version
  BY DEF Observations
<1>2. old \subseteq obs
  BY DEF InForce
<1>3. Superseded(old, heir) = {Gone(o) : o \in old}
  BY DEF Superseded
<1> HIDE DEF Gone
<1>4. /\ \A p \in Superseded(old, heir) : /\ p \in Observations /\ p.status = "superseded"
                                          /\ \E o \in old : p.row = o.row /\ p.item = o.item
                                                           /\ p.version = o.version
      /\ \A o \in old : \E p \in Superseded(old, heir) :
            p.row = o.row /\ p.item = o.item /\ p.version = o.version
  BY <1>1, <1>2, <1>3
<1>5. obs' \subseteq Observations
  BY <1>4
<1>6. ASSUME NEW o \in obs
      PROVE  \E p \in obs' : p.row = o.row /\ p.item = o.item /\ p.version = o.version
  BY <1>4
<1>7. ASSUME NEW p \in obs'
      PROVE  p = new \/ \E o \in obs : p.row = o.row /\ p.item = o.item /\ p.version = o.version
  BY <1>2, <1>4
<1>8. ASSUME NEW o
      PROVE  o \in InForce' <=>
                (o \in InForce /\ o \notin old) \/ (o = new /\ new.status = "active")
  <2>1. o \in Superseded(old, heir) => o.status # "active"
    BY <1>4
  <2>2. o \in InForce' <=> o \in obs' /\ o.status = "active"
    BY DEF InForce
  <2>3. o \in InForce <=> o \in obs /\ o.status = "active"
    BY DEF InForce
  <2>. QED  BY <2>1, <2>2, <2>3
<1>. QED  BY <1>5, <1>6, <1>7, <1>8

LEMMA RowPromotedInv ==
    ASSUME IInv, NEW r \in txn.todo, NEW item \in Item \cup {NoItem}, NextRow(r, item),
           RowPromoted(r, item), UNCHANGED relVars
    PROVE  IInv'
<1> DEFINE v == txn.bundle.version
<1>1. /\ r \in Row /\ r.art \in Artifact /\ item \in Item /\ v \in Version
      /\ obs \subseteq Observations
      /\ txn.run \in Run
      /\ UNCHANGED <<registry, markets, work, past>>
  BY RowAtHand, CanonicalizationAssumption
     DEF RowPromoted, Known, NextRow, IInv, TypeOK, CanonTypeOK
<1>2. \A o \in Observations : /\ o.row \in Row /\ o.version \in Version /\ o.item \in Item
                             /\ Rank[o.row.art] \in Nat /\ Id(o) \in Row \X Version
  BY CanonicalizationAssumption DEF Observations, Id
<1>3. Rank[r.art] \in Nat
  BY <1>1, CanonicalizationAssumption
<1> DEFINE Wins == candidateWins(r, item)
           New(status, heir) == Observation(r, item, status, heir)
<1>4. ASSUME NEW status \in {"active", "superseded"}, NEW h \in (Row \X Version) \cup {<<>>}
      PROVE  /\ New(status, h) \in Observations
             /\ New(status, h).row = r /\ New(status, h).item = item
             /\ New(status, h).version = v /\ New(status, h).status = status
             /\ Id(New(status, h)) = <<r, v>>
  BY <1>1 DEF Observation, Observations, Id
<1>5. PICK old \in SUBSET InForce, heir \in (Row \X Version) \cup {<<>>}, new \in Observations :
         /\ obs' = (obs \ old) \cup Superseded(old, heir) \cup {new}
         /\ new.row = r /\ new.item = item /\ new.version = v
         /\ \/ Wins /\ new.status = "active" /\ old = predecessors(r, item)
            \/ /\ ~Wins /\ new.status = "superseded"
               /\ \E e \in activeEffective(r, item) : old = activeLineage(r) \ {e}
  <2>1. CASE Wins
    <3>1. predecessors(r, item) \in SUBSET InForce
      BY DEF predecessors, activeLineage, activeEffective
    <3>2. <<r, v>> \in Row \X Version
      BY <1>1
    <3>3. obs' = (obs \ predecessors(r, item)) \cup Superseded(predecessors(r, item), <<r, v>>)
                   \cup {New("active", <<>>)}
      BY <1>4, <2>1 DEF RowPromoted
    <3>. QED  BY <1>4, <2>1, <3>1, <3>2, <3>3
  <2>2. CASE ~Wins
    <3>1. PICK e \in activeEffective(r, item) :
             obs' = (obs \ (activeLineage(r) \ {e}))
                      \cup Superseded(activeLineage(r) \ {e}, Id(e))
                      \cup {New("superseded", Id(e))}
      BY <2>2 DEF RowPromoted
    <3>2. Id(e) \in Row \X Version /\ activeLineage(r) \ {e} \in SUBSET InForce
      BY <1>1, <1>2 DEF activeEffective, activeLineage, InForce
    <3>. QED  BY <1>4, <2>2, <3>1, <3>2
  <2>. QED  BY <2>1, <2>2
<1>6. /\ obs' \subseteq Observations
      /\ \A o \in obs : \E p \in obs' :
            p.row = o.row /\ p.item = o.item /\ p.version = o.version
      /\ \A p \in obs' : p = new \/ \E o \in obs :
            p.row = o.row /\ p.item = o.item /\ p.version = o.version
      /\ \A o : o \in InForce' <=>
            (o \in InForce /\ o \notin old) \/ (o = new /\ new.status = "active")
  BY <1>1, <1>5, Revision
<1>7. PricesInv'
  <2>1. /\ Lineage(new.row) = Lineage(r) /\ Grain(new) = <<item, r.market>>
        /\ activeLineage(r) = {o \in InForce : Lineage(o.row) = Lineage(r)}
        /\ activeEffective(r, item) = {o \in InForce : Grain(o) = <<item, r.market>>}
    BY <1>5 DEF Grain, activeLineage, activeEffective
  <2>2. \A o, p \in obs \cup obs' : /\ o.row = p.row => Lineage(o.row) = Lineage(p.row)
                                  /\ o.row = p.row /\ o.item = p.item => Grain(o) = Grain(p)
    BY DEF Grain
  <2>3. \A o, p \in obs \cup obs' :
           Lineage(o.row) = Lineage(p.row) /\ o.item = p.item => Grain(o) = Grain(p)
    BY DEF Lineage, Grain
  <2>4. OneInForce'
    <3>1. CASE Wins
      <4>1. old = activeLineage(r) \cup activeEffective(r, item)
        BY <1>5, <3>1 DEF predecessors
      <4>. QED  BY <1>6, <2>1, <4>1 DEF IInv, PricesInv, OneInForce
    <3>2. CASE ~Wins
      BY <1>5, <1>6, <3>2 DEF IInv, PricesInv, OneInForce
    <3>. QED  BY <3>1, <3>2
  <2>5. \A o \in InForce : o \in Observations /\ o \in obs
    BY <1>1 DEF InForce
  <2>6. ~Wins => \E e \in InForce' : Grain(e) = Grain(new) /\ Rank[e.row.art] >= Rank[new.row.art]
    <3> SUFFICES ASSUME ~Wins
                 PROVE  \E e \in InForce' : Grain(e) = Grain(new) /\ Rank[e.row.art] >= Rank[r.art]
      BY <1>5
    <3>1. PICK e \in activeEffective(r, item) : old = activeLineage(r) \ {e}
      BY <1>5
    <3>2. PICK f \in activeEffective(r, item) : ~(Rank[r.art] > Rank[f.row.art])
      BY DEF candidateWins
    <3>3. e = f
      BY <2>1, <3>1, <3>2 DEF IInv, PricesInv, OneInForce
    <3>4. e \in InForce' /\ Grain(e) = Grain(new)
      BY <1>6, <2>1, <3>1
    <3>5. Rank[e.row.art] \in Nat
      BY <1>2, <2>1, <2>5, <3>1
    <3>. QED  BY <1>3, <3>2, <3>3, <3>4, <3>5
  \* What covered p still does, or its successor does, or its label is now the row's.
  <2>7. ASSUME NEW p \in obs
        PROVE  \/ \E e \in InForce' : Grain(e) = Grain(p) /\ Rank[e.row.art] >= Rank[p.row.art]
               \/ \E x, q \in obs' : /\ Grain(x) = Grain(p) /\ Rank[x.row.art] >= Rank[p.row.art]
                                   /\ Lineage(q.row) = Lineage(x.row) /\ q.item # x.item
    <3>1. CASE \E e \in InForce : Grain(e) = Grain(p) /\ Rank[e.row.art] >= Rank[p.row.art]
      <4>1. PICK e \in InForce : Grain(e) = Grain(p) /\ Rank[e.row.art] >= Rank[p.row.art]
        BY <3>1
      <4>2. PICK x \in obs' : x.row = e.row /\ x.item = e.item
        BY <1>6, <2>5
      <4>3. Grain(x) = Grain(e) /\ Lineage(x.row) = Lineage(e.row)
        BY <4>2 DEF Grain
      <4>4. /\ Rank[e.row.art] \in Nat /\ Rank[p.row.art] \in Nat /\ new \in obs'
        BY <1>1, <1>2, <1>5, <2>5
      <4>5. CASE e \in InForce'
        BY <4>1, <4>5
      <4>6. CASE e \in old /\ e.item # item /\ Lineage(e.row) = Lineage(r)
        BY <1>5, <2>1, <4>1, <4>2, <4>3, <4>4, <4>6
      <4>7. CASE Wins /\ e \in activeEffective(r, item)
        <5>1. new \in InForce' /\ Grain(new) = Grain(p)
          BY <1>5, <1>6, <2>1, <4>1, <4>7
        <5>2. Rank[new.row.art] >= Rank[e.row.art]
          BY <1>3, <1>5, <4>4, <4>7 DEF candidateWins
        <5>. QED  BY <1>3, <1>5, <4>1, <4>4, <5>1, <5>2
      <4>8. ASSUME e \in old, ~(Wins /\ e \in activeEffective(r, item))
            PROVE  e.item # item /\ Lineage(e.row) = Lineage(r)
        <5>1. e \in activeLineage(r)
          BY <1>5, <4>8 DEF predecessors
        <5>2. Lineage(e.row) = Lineage(r) /\ e.row.market = r.market
          BY <2>1, <5>1 DEF Lineage
        <5>3. e.item = item => e \in activeEffective(r, item)
          BY <2>1, <5>2 DEF Grain
        <5>4. CASE Wins
          BY <4>8, <5>2, <5>3, <5>4
        <5>5. CASE ~Wins
          <6>1. PICK f \in activeEffective(r, item) : old = activeLineage(r) \ {f}
            BY <1>5, <5>5
          <6>2. e \in activeEffective(r, item) => e = f
            BY <2>1, <6>1 DEF IInv, PricesInv, OneInForce
          <6>. QED  BY <4>8, <5>2, <5>3, <6>1, <6>2
        <5>. QED  BY <5>4, <5>5
      <4>. QED  BY <1>6, <4>5, <4>6, <4>7, <4>8
    <3>2. CASE \E x \in obs : /\ Grain(x) = Grain(p) /\ Rank[x.row.art] >= Rank[p.row.art]
                              /\ Reread(x)
      <4>1. PICK x \in obs, q \in obs : /\ Grain(x) = Grain(p) /\ Rank[x.row.art] >= Rank[p.row.art]
                                     /\ Lineage(q.row) = Lineage(x.row) /\ q.item # x.item
        BY <3>2 DEF Reread
      <4>2. PICK y \in obs' : y.row = x.row /\ y.item = x.item
        BY <1>6
      <4>3. PICK s \in obs' : s.row = q.row /\ s.item = q.item
        BY <1>6
      <4>4. Grain(y) = Grain(x)
        BY <4>2 DEF Grain
      <4>. QED  BY <4>1, <4>2, <4>3, <4>4
    <3>. QED  BY <3>1, <3>2 DEF IInv, PricesInv, Covered
  <2>8. ASSUME NEW p \in obs' PROVE Covered(p)'
    <3> SUFFICES \/ \E e \in InForce' : Grain(e) = Grain(p) /\ Rank[e.row.art] >= Rank[p.row.art]
                 \/ \E x, q \in obs' : /\ Grain(x) = Grain(p) /\ Rank[x.row.art] >= Rank[p.row.art]
                                     /\ Lineage(q.row) = Lineage(x.row) /\ q.item # x.item
      BY DEF Covered, Reread, Grain, Lineage
    <3>1. CASE p = new
      <4>1. Wins => new \in InForce'
        BY <1>5, <1>6
      <4>. QED  BY <1>3, <1>5, <2>6, <3>1, <4>1
    <3>2. CASE p # new
      <4>1. PICK o \in obs : p.row = o.row /\ p.item = o.item
        BY <1>6, <3>2
      <4>2. Grain(p) = Grain(o)
        BY <4>1 DEF Grain
      <4>. QED  BY <2>7, <4>1, <4>2
    <3>. QED  BY <3>1, <3>2
  <2>. QED  BY <2>4, <2>8 DEF PricesInv
<1>8. TypeOK'
  <2>1. open' \subseteq Row \X Reason \X Run
    BY DEF RowPromoted, resolveMappingQuarantine, IInv, TypeOK, CanonTypeOK
  <2>2. staged' \in [Row -> {"validated", "canonicalized", "quarantined"}]
    BY DEF RowPromoted, IInv, TypeOK, CanonTypeOK
  <2>. QED  BY <1>1, <1>6, <2>1, <2>2, RowAtHand DEF IInv, TypeOK, CanonTypeOK, relVars
<1>9. WholeInv'
  <2>1. \A q \in open : q[1] # r => q \in open'
    BY <1>1 DEF RowPromoted, resolveMappingQuarantine
  <2>3. staged' = [staged EXCEPT ![r] = "canonicalized"]
    BY DEF RowPromoted
  <2>. QED  BY <2>1, <2>3, RowWhole
<1>10. BundleInv'
  <2>1. PriceIsReviewed'
    <3>1. \E b \in registry : item \in {b.items[r.label], b.patterns[r.label]}
      BY RowAtHand
    <3>. QED  BY <1>1, <1>5, <1>6, <3>1 DEF IInv, BundleInv, PriceIsReviewed
  <2>. QED  BY <1>1, <2>1, RowAtHand DEF IInv, BundleInv
<1>11. CandidateInv' /\ RecordedIsThere'
  <2>1. \A o \in obs : \E p \in obs' : Id(p) = Id(o)
    BY <1>6 DEF Id
  <2>. QED  BY <2>1, CandidateKept DEF IInv
<1>. QED  BY <1>7, <1>8, <1>9, <1>10, <1>11, RowAtHand DEF IInv

\* A document that is read again, or closed by hand, has not gone through.
LEMMA ReadAgainInv ==
    ASSUME IInv, NEW a \in Artifact, ReadAgain(a), UNCHANGED relVars
    PROVE  IInv'
<1>1. /\ txn = Free /\ UNCHANGED <<registry, mapping, markets, obs, open, work, txn>>
      /\ staged' = [r \in Row |-> IF r \in Rows(a) THEN "validated" ELSE staged[r]]
      /\ past' = [past EXCEPT ![a] = 0]
  BY DEF ReadAgain
<1>2. TypeOK'
  BY <1>1 DEF IInv, TypeOK, CanonTypeOK, relVars
<1>3. HandInv'
  BY <1>1 DEF HandInv
<1>4. WholeInv'
  <2>1. \A r \in Row : past'[r.art] = IF r \in Rows(a) THEN 0 ELSE past[r.art]
    BY <1>1, CanonicalizationAssumption DEF IInv, TypeOK, CanonTypeOK, Rows
  <2>2. \A r \in Row : LastRun(r)' = past'[r.art] /\ LastRun(r) = past[r.art]
    BY <1>1 DEF LastRun
  <2>. QED  BY <1>1, <2>1, <2>2 DEF IInv, WholeInv
<1>5. PricesInv'
  BY <1>1, PricesKept DEF IInv
<1>6. BundleInv'
  BY <1>1 DEF IInv, BundleInv, PriceIsReviewed
<1>7. CandidateInv' /\ RecordedIsThere'
  BY <1>1, CandidateKept DEF IInv
<1>. QED  BY <1>2, <1>3, <1>4, <1>5, <1>6, <1>7 DEF IInv

LEMMA ReviewInv ==
    ASSUME IInv, NEW a \in Artifact, Review(a), UNCHANGED relVars
    PROVE  IInv'
<1>1. /\ txn = Free /\ UNCHANGED <<registry, mapping, markets, staged, obs, work, txn>>
      /\ open' = {q \in open : q[1].art # a}
      /\ past' = [past EXCEPT ![a] = 0]
  BY DEF Review
<1>2. TypeOK'
  BY <1>1 DEF IInv, TypeOK, CanonTypeOK, relVars
<1>3. HandInv'
  BY <1>1 DEF HandInv
<1>4. WholeInv'
  <2>1. \A r \in Row : past'[r.art] = IF r.art = a THEN 0 ELSE past[r.art]
    BY <1>1, CanonicalizationAssumption DEF IInv, TypeOK, CanonTypeOK
  <2>2. \A r \in Row : LastRun(r)' = past'[r.art] /\ LastRun(r) = past[r.art]
    BY <1>1 DEF LastRun
  <2>. QED  BY <1>1, <2>1, <2>2 DEF IInv, WholeInv
<1>5. PricesInv'
  BY <1>1, PricesKept DEF IInv
<1>6. BundleInv'
  BY <1>1 DEF IInv, BundleInv, PriceIsReviewed
<1>7. CandidateInv' /\ RecordedIsThere'
  BY <1>1, CandidateKept DEF IInv
<1>. QED  BY <1>2, <1>3, <1>4, <1>5, <1>6, <1>7 DEF IInv

-----------------------------------------------------------------------------
(* The builders.                                                           *)

\* What canonicalization keeps stays when a builder takes a step.
LEMMA CanonKept ==
    ASSUME IInv, UNCHANGED canonVars
    PROVE  CanonTypeOK' /\ HandInv' /\ PricesInv' /\ BundleInv' /\ WholeInv'
<1>1. CanonTypeOK'
  BY DEF canonVars, IInv, TypeOK, CanonTypeOK
<1>2. HandInv' /\ WholeInv'
  BY DEF canonVars, IInv, HandInv, WholeInv, LastRun
<1>3. PricesInv'
  BY PricesKept DEF canonVars, IInv
<1>4. BundleInv'
  BY DEF canonVars, IInv, BundleInv, PriceIsReviewed
<1>. QED  BY <1>1, <1>2, <1>3, <1>4

\* A builder that has something in hand has a version and observations.
LEMMA InHand ==
    ASSUME IInv, NEW c \in Builder, build[c].pc # "idle"
    PROVE  build[c] \in [pc : {"read", "written", "moved"}, version : DataVersion,
                         records : SUBSET (Row \X Version)]
BY DEF IInv, TypeOK, NoBuild

\* A step in which a builder lets go.
LEMMA LetGo ==
    ASSUME IInv, UNCHANGED canonVars, NEW c \in Builder,
           build' = [build EXCEPT ![c] = NoBuild],
           dir' \in [DataVersion -> SUBSET (Row \X Version)],
           release' \in [DataVersion -> SUBSET (Row \X Version)],
           \A d \in Builder : d # c /\ build[d].pc = "moved" =>
              /\ dir'[build[d].version] = dir[build[d].version]
              /\ release'[build[d].version] = release[build[d].version],
           RecordedIsThere'
    PROVE  IInv'
<1>1. \A d \in Builder : build'[d] = IF d = c THEN NoBuild ELSE build[d]
  BY DEF IInv, TypeOK
<1>2. build' \in [Builder -> {NoBuild} \cup
                     [pc : {"read", "written", "moved"}, version : DataVersion,
                      records : SUBSET (Row \X Version)]]
  BY DEF IInv, TypeOK
<1>3. \A d \in Builder : build'[d].pc # "idle" => d # c /\ build'[d] = build[d]
  BY <1>1 DEF NoBuild
<1>4. obs' = obs
  BY DEF canonVars
<1>5. \A d \in Builder : build'[d].pc # "idle" =>
         /\ build'[d].records # {}
         /\ \A i \in build'[d].records : \E o \in obs' : Id(o) = i
  BY <1>3, <1>4 DEF IInv, CandidateInv
<1>6. \A d \in Builder : build'[d].pc = "moved" =>
         /\ dir'[build'[d].version] = build'[d].records
         /\ release'[build'[d].version] = {}
  BY <1>3 DEF IInv, CandidateInv
<1>7. CandidateInv'
  BY <1>3, <1>5, <1>6 DEF IInv, CandidateInv
<1>. QED  BY <1>2, <1>7, CanonKept DEF IInv, TypeOK

LEMMA ReadInv ==
    ASSUME IInv, NEW c \in Builder, NEW v \in DataVersion, ReadRecords(c, v), UNCHANGED canonVars
    PROVE  IInv'
<1> DEFINE records == {Id(o) : o \in InForce}
           new == [pc |-> "read", version |-> v, records |-> records]
<1>1. /\ InForce # {} /\ build' = [build EXCEPT ![c] = new] /\ UNCHANGED <<dir, release>>
  BY DEF ReadRecords
<1>2. /\ records # {} /\ records \subseteq Row \X Version
      /\ \A i \in records : \E o \in obs : Id(o) = i
  <2>1. \A o \in InForce : o \in obs /\ o.row \in Row /\ o.version \in Version
    BY DEF InForce, IInv, TypeOK, CanonTypeOK, Observations
  <2>2. \A o \in InForce : Id(o) \in Row \X Version
    BY <2>1 DEF Id
  <2>3. records # {}
    BY <1>1
  <2>4. records \subseteq Row \X Version
    BY <2>2
  <2>. QED  BY <2>1, <2>3, <2>4
<1> HIDE DEF records
<1>3. \A d \in Builder : build'[d] = IF d = c THEN new ELSE build[d]
  BY <1>1 DEF IInv, TypeOK
<1>4. TypeOK'
  BY <1>1, <1>2, CanonKept DEF IInv, TypeOK
<1>5. CandidateInv'
  BY <1>1, <1>2, <1>3 DEF IInv, CandidateInv, canonVars
<1>6. RecordedIsThere'
  BY <1>1 DEF IInv, RecordedIsThere
<1>. QED  BY <1>4, <1>5, <1>6, CanonKept DEF IInv

LEMMA WriteInv ==
    ASSUME IInv, NEW c \in Builder, Write(c), UNCHANGED canonVars
    PROVE  IInv'
<1>1. build[c].pc = "read" /\ UNCHANGED <<dir, release>>
  BY DEF Write
<1>2. RecordedIsThere'
  BY <1>1 DEF IInv, RecordedIsThere
<1>3. CASE build' = [build EXCEPT ![c] = NoBuild]
  BY <1>1, <1>2, <1>3, LetGo DEF IInv, TypeOK
<1>4. CASE build' = [build EXCEPT ![c] = [build[c] EXCEPT !.pc = "written"]]
  <2> DEFINE new == [build[c] EXCEPT !.pc = "written"]
  <2>1. /\ new \in [pc : {"read", "written", "moved"}, version : DataVersion,
                     records : SUBSET (Row \X Version)]
        /\ new.pc = "written" /\ new.records = build[c].records
    BY <1>1, InHand
  <2> HIDE DEF new
  <2>2. \A d \in Builder : build'[d] = IF d = c THEN new ELSE build[d]
    BY <1>4 DEF IInv, TypeOK, new
  <2>3. TypeOK'
    BY <1>1, <1>4, <2>1, CanonKept DEF IInv, TypeOK, new
  <2>4. CandidateInv'
    BY <1>1, <2>1, <2>2 DEF IInv, CandidateInv, canonVars
  <2>. QED  BY <1>2, <2>3, <2>4, CanonKept DEF IInv
<1>. QED  BY <1>3, <1>4 DEF Write

\* Only an empty place is taken, which is nobody's and not recorded.
LEMMA MoveInv ==
    ASSUME IInv, NEW c \in Builder, Move(c), UNCHANGED canonVars
    PROVE  IInv'
<1> DEFINE v == build[c].version
<1>1. build[c].pc = "written" /\ UNCHANGED release
  BY DEF Move
<1>2. v \in DataVersion /\ build[c].records \subseteq Row \X Version /\ build[c].records # {}
  BY <1>1, InHand DEF IInv, CandidateInv
<1>3. CASE dir[v] = {}
  <2> DEFINE new == [build[c] EXCEPT !.pc = "moved"]
  <2>1. /\ build' = [build EXCEPT ![c] = new]
        /\ dir' = [dir EXCEPT ![v] = build[c].records]
    BY <1>3 DEF Move, Moved
  <2>2. /\ new \in [pc : {"read", "written", "moved"}, version : DataVersion,
                     records : SUBSET (Row \X Version)]
        /\ new.pc = "moved" /\ new.records = build[c].records /\ new.version = v
    BY <1>1, InHand
  <2> HIDE DEF new
  <2>3. /\ \A d \in Builder : build'[d] = IF d = c THEN new ELSE build[d]
        /\ \A u \in DataVersion : dir'[u] = IF u = v THEN build[c].records ELSE dir[u]
    BY <1>2, <2>1 DEF IInv, TypeOK
  <2>4. TypeOK'
    BY <1>1, <1>2, <2>1, <2>2, CanonKept DEF IInv, TypeOK
  <2>5. release[v] = {}
    BY <1>2, <1>3 DEF IInv, RecordedIsThere
  <2>6. \A d \in Builder : build[d].pc = "moved" =>
           build[d].version # v /\ build[d].version \in DataVersion
    BY <1>3, InHand DEF IInv, CandidateInv
  <2>7. \A d \in Builder : build'[d].pc # "idle" =>
           /\ build'[d].records # {}
           /\ \A i \in build'[d].records : \E o \in obs' : Id(o) = i
    BY <1>1, <2>2, <2>3 DEF IInv, CandidateInv, canonVars
  <2>8. CandidateInv'
    BY <1>1, <1>2, <2>2, <2>3, <2>5, <2>6, <2>7 DEF IInv, CandidateInv
  <2>9. RecordedIsThere'
    BY <1>1, <2>3, <2>5 DEF IInv, RecordedIsThere
  <2>. QED  BY <2>4, <2>8, <2>9, CanonKept DEF IInv
<1>4. CASE dir[v] # {}
  <2>1. build' = [build EXCEPT ![c] = NoBuild] /\ dir' = dir
    BY <1>4 DEF Move, Moved
  <2>2. RecordedIsThere'
    BY <1>1, <2>1 DEF IInv, RecordedIsThere
  <2>. QED  BY <1>1, <2>1, <2>2, LetGo DEF IInv, TypeOK
<1>. QED  BY <1>3, <1>4

\* The directory that is removed is the builder's own, and no other's.
LEMMA RecordInv ==
    ASSUME IInv, NEW c \in Builder, Record(c), UNCHANGED canonVars
    PROVE  IInv'
<1> DEFINE v == build[c].version
<1>1. build[c].pc = "moved" /\ build' = [build EXCEPT ![c] = NoBuild]
  BY DEF Record
<1>2. /\ v \in DataVersion /\ build[c].records \in SUBSET (Row \X Version)
      /\ dir[v] = build[c].records /\ release[v] = {}
  BY <1>1, InHand DEF IInv, CandidateInv
<1>3. \A d \in Builder : d # c /\ build[d].pc = "moved" =>
         build[d].version # v /\ build[d].version \in DataVersion
  BY <1>1, InHand DEF IInv, CandidateInv
<1>4. CASE release' = [release EXCEPT ![v] = build[c].records] /\ dir' = dir
  <2>1. RecordedIsThere'
    BY <1>2, <1>4 DEF IInv, TypeOK, RecordedIsThere
  <2>2. release' \in [DataVersion -> SUBSET (Row \X Version)]
    BY <1>2, <1>4 DEF IInv, TypeOK
  <2>3. \A d \in Builder : d # c /\ build[d].pc = "moved" =>
           release'[build[d].version] = release[build[d].version]
    BY <1>3, <1>4 DEF IInv, TypeOK
  <2>. QED  BY <1>1, <1>4, <2>1, <2>2, <2>3, LetGo DEF IInv, TypeOK
<1>5. CASE dir' = [dir EXCEPT ![v] = {}] /\ release' = release
  <2>1. RecordedIsThere'
    BY <1>2, <1>5 DEF IInv, TypeOK, RecordedIsThere
  <2>2. dir' \in [DataVersion -> SUBSET (Row \X Version)]
    BY <1>2, <1>5 DEF IInv, TypeOK
  <2>3. \A d \in Builder : d # c /\ build[d].pc = "moved" =>
           dir'[build[d].version] = dir[build[d].version]
    BY <1>3, <1>5 DEF IInv, TypeOK
  <2>. QED  BY <1>1, <1>5, <2>1, <2>2, <2>3, LetGo DEF IInv, TypeOK
<1>. QED  BY <1>4, <1>5 DEF Record

LEMMA StopInv ==
    ASSUME IInv, NEW c \in Builder, Stop(c), UNCHANGED canonVars
    PROVE  IInv'
<1>1. build' = [build EXCEPT ![c] = NoBuild] /\ UNCHANGED <<dir, release>>
  BY DEF Stop
<1>2. RecordedIsThere'
  BY <1>1 DEF IInv, RecordedIsThere
<1>. QED  BY <1>1, <1>2, LetGo DEF IInv, TypeOK

-----------------------------------------------------------------------------
(* Theorems.                                                               *)

LEMMA StepInv == IInv /\ [Next]_vars => IInv'
<1> SUFFICES ASSUME IInv, [Next]_vars PROVE IInv'
  OBVIOUS
<1>1. CASE CanonNext /\ UNCHANGED relVars
  <2>1. ASSUME NEW w \in Worker, Crash(w) PROVE IInv'
    BY <1>1, <2>1, CrashInv
  <2>2. ASSUME NEW w \in Worker, Begin(w) PROVE IInv'
    BY <1>1, <2>2, BeginInv
  <2>3. ASSUME NEW w \in Worker, NEW a \in Artifact, NEW n \in Run, NEW b \in Bundle,
               syncMappingBundle(w, a, n, b)
        PROVE  IInv'
    BY <1>1, <2>3, SyncInv
  <2>4. ASSUME NEW r \in txn.todo, NEW item \in Item \cup {NoItem}, canonicalizeRow(r, item)
        PROVE  IInv'
    BY <1>1, <2>4, RowUnpricedInv, RowPromotedInv DEF canonicalizeRow
  <2>5. CASE Commit
    BY <1>1, <2>5, CommitInv
  <2>6. ASSUME NEW a \in Artifact, ReadAgain(a) \/ Review(a) PROVE IInv'
    BY <1>1, <2>6, ReadAgainInv, ReviewInv
  <2>. QED  BY <1>1, <2>1, <2>2, <2>3, <2>4, <2>5, <2>6 DEF CanonNext
<1>2. CASE RelNext /\ UNCHANGED canonVars
  BY <1>2, ReadInv, WriteInv, MoveInv, RecordInv, StopInv DEF RelNext
<1>3. CASE UNCHANGED vars
  <2>1. UNCHANGED canonVars /\ UNCHANGED relVars
    BY <1>3 DEF vars, canonVars, relVars
  <2>2. CandidateInv' /\ RecordedIsThere'
    BY <2>1, CandidateKept DEF IInv, canonVars
  <2>3. TypeOK'
    BY <2>1, CanonKept DEF relVars, IInv, TypeOK
  <2>. QED  BY <2>1, <2>2, <2>3, CanonKept DEF IInv
<1>. QED  BY <1>1, <1>2, <1>3 DEF Next

\* What every reachable state of canonicalization and release building satisfies.
THEOREM Invariance == Spec => []IInv
BY InitInv, StepInv, PTL DEF Spec

\* Every variable keeps to its type.
THEOREM TypeCorrect == Spec => []TypeOK
<1>1. IInv => TypeOK
  BY DEF IInv
<1>. QED  BY <1>1, Invariance, PTL

\* The unique indexes of price_observation are never run into: a label, and an item at a market,
\* have one price in force.
THEOREM OnePrice == Spec => []OneInForce
<1>1. IInv => OneInForce
  BY DEF IInv, PricesInv
<1>. QED  BY <1>1, Invariance, PTL

\* However many documents of a day there are, and in whatever order they and the bundles come,
\* the later publication is in force.
THEOREM Later == Spec => []LaterIsEffective
<1>1. ASSUME IInv PROVE LaterIsEffective
  <2> SUFFICES ASSUME NEW o \in InForce, NEW p \in obs, Grain(p) = Grain(o),
                      Rank[p.row.art] > Rank[o.row.art]
               PROVE  \E x \in obs : /\ Grain(x) = Grain(p) /\ Rank[x.row.art] >= Rank[p.row.art]
                                     /\ Reread(x)
    BY DEF LaterIsEffective
  <2>1. Rank[p.row.art] \in Nat /\ Rank[o.row.art] \in Nat
    BY <1>1, CanonicalizationAssumption DEF InForce, IInv, TypeOK, CanonTypeOK, Observations
  <2>2. ~\E e \in InForce : Grain(e) = Grain(p) /\ Rank[e.row.art] >= Rank[p.row.art]
    BY <1>1, <2>1 DEF IInv, PricesInv, OneInForce
  <2>. QED  BY <1>1, <2>2 DEF IInv, PricesInv, Covered
<1>. QED  BY <1>1, Invariance, PTL

\* No price stands under a mapping that nobody reviewed.
THEOREM Reviewed == Spec => []PriceIsReviewed
<1>1. IInv => PriceIsReviewed
  BY DEF IInv, BundleInv
<1>. QED  BY <1>1, Invariance, PTL

\* A recorded candidate has its files, whatever other builders do.
THEOREM Recorded == Spec => []RecordedIsThere
<1>1. IInv => RecordedIsThere
  BY DEF IInv
<1>. QED  BY <1>1, Invariance, PTL

\* What is written with a price of the run its document last went through in draws on a
\* document that is canonicalized whole.
THEOREM Whole == Spec => WholeDocuments
<1>1. ASSUME IInv, Next, NEW c \in Builder, build[c].pc = "read", build'[c].pc = "written",
             NEW o \in obs, Id(o) \in build[c].records, o.run = past[o.row.art],
             NEW r \in Rows(o.row.art)
      PROVE  staged[r] = "canonicalized"
  <2>1. build \in [Builder -> {NoBuild} \cup
                     [pc : {"read", "written", "moved"}, version : DataVersion,
                      records : SUBSET (Row \X Version)]]
    BY <1>1 DEF IInv, TypeOK
  <2>2. txn = Free /\ OpenIn(build[c].records) = {}
    <3>1. PICK d \in Builder : \/ \E v \in DataVersion : ReadRecords(d, v)
                              \/ Write(d) \/ Move(d) \/ Record(d) \/ Stop(d)
      BY <1>1 DEF Next, RelNext, relVars
    <3>2. d = c
      BY <1>1, <2>1, <3>1 DEF ReadRecords, Write, Move, Record, Stop
    <3>3. Write(c)
      BY <1>1, <2>1, <3>1, <3>2 DEF ReadRecords, Move, Record, Stop, NoBuild
    <3>4. txn = Free /\ (OpenIn(build[c].records) # {} => build'[c] = NoBuild)
      BY <2>1, <3>3 DEF Write
    <3>. QED  BY <1>1, <3>4 DEF NoBuild
  <2>3. o.run \in Run /\ r \in Row /\ r.art = o.row.art
    BY <1>1 DEF Rows, IInv, TypeOK, CanonTypeOK, Observations
  <2>4. past[r.art] = o.run /\ past[r.art] # 0
    BY <1>1, <2>3, CanonicalizationAssumption
  <2>5. staged[r] # "validated"
    BY <1>1, <2>3, <2>4 DEF IInv, WholeInv
  <2>6. staged[r] # "quarantined"
    <3>1. LastRun(r) = o.run
      BY <2>2, <2>4 DEF LastRun
    <3>2. ~\E q \in open : q[1] = r /\ q[3] = o.run
      BY <1>1, <2>2 DEF OpenIn
    <3>. QED  BY <1>1, <2>3, <2>4, <3>1, <3>2 DEF IInv, WholeInv
  <2>. QED  BY <1>1, <2>3, <2>5, <2>6 DEF IInv, TypeOK, CanonTypeOK
<1>2. ASSUME IInv, [Next]_vars
      PROVE  [\A c \in Builder : build[c].pc = "read" /\ build'[c].pc = "written" =>
                \A o \in obs : Id(o) \in build[c].records /\ o.run = past[o.row.art] =>
                    \A r \in Rows(o.row.art) : staged[r] = "canonicalized"]_vars
  <2>1. CASE Next
    BY <1>1, <1>2, <2>1
  <2>2. CASE UNCHANGED vars
    BY <2>2
  <2>. QED  BY <1>2, <2>1, <2>2
<1>. QED  BY <1>2, Invariance, PTL DEF Spec, WholeDocuments
=============================================================================
