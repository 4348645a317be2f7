--------------------------- MODULE DocumentProofs ---------------------------
(***************************************************************************)
(* Theorems about DocumentProcessing, for any documents, rows, timers and  *)
(* operators, any stages that may fail, and every bound on runs, attempts  *)
(* and mishaps.  DocInv is enough for the types and for what a succeeded   *)
(* run is; what it leaves of its document, where nobody starts work on a   *)
(* document another works on, takes LandInv besides.  Both are proved      *)
(* handler by handler: a lemma says what the handler does, the next that   *)
(* it keeps DocInv, a third (...Lands) that it keeps LandInv.              *)
(***************************************************************************)
EXTENDS DocumentProcessing, TLAPS

(* The records of TypeOK, by name. *)

DocRecords ==
    [text : BOOLEAN, rows : [Row -> RowStatus], observed : SUBSET Row, open : SUBSET Row,
     assessment : {"none", "not_configured", "assessed"}, artifact : ArtifactStatus, publication : PublicationStatus, quarantined : BOOLEAN]

StageRows == [processingStages -> [status : StageStatus, attempts : 0..MaxAttempts]]

RunRecords ==
    [status : RunStatus, of : Doc \cup {0}, lapsed : BOOLEAN, artifact : BOOLEAN, stage : StageRows]

DocHands ==
    [pc : {"idle", "checked", "stage"}, mode : {"none", "full", "retry"},
     run : Run \cup {0}, stage : processingStages \cup {0},
     bytes : BOOLEAN, items : BOOLEAN, bundle : BOOLEAN]

Plans ==
    [phase : {"idle", "new", "recover", "sweep"}, docs : SUBSET Doc, failed : SUBSET Doc,
     round : 0..Rounds, runs : SUBSET (Run \X processingStages),
     candidate : (Run \X (1..(canonicalize_data + 1))) \cup {<<0, 0>>}, bundle : BOOLEAN]

\* A run that began is of a document.
BegunInv == \A r \in Run : irun[r].status # "free" => irun[r].of \in Doc

\* A process at work has a run that began, and a stage of it.
AtWork(w) ==
    /\ work[w].pc = "idle" => work[w].run = 0
    /\ work[w].pc # "idle" => /\ work[w].run \in Run /\ work[w].stage \in processingStages
                              /\ irun[work[w].run].status # "free"
    /\ work[w].pc = "checked" => work[w].mode = "retry"

AtWorkInv == \A w \in Worker : AtWork(w)

\* The run of a process is alive and nobody else's, has gone through the stages before and
\* begun none after.
Fresh(w) ==
    /\ irun[work[w].run].status = "running" /\ ~irun[work[w].run].lapsed
    /\ \A s \in processingStages :
          /\ s < work[w].stage => irun[work[w].run].stage[s].status = "succeeded"
          /\ s > work[w].stage => irun[work[w].run].stage[s].status = "none"
    /\ \A v \in Worker \ {w} : work[v].run # work[w].run

\* So is a run that is executed afresh.
FreshInv == \A w \in Worker : work[w].pc = "stage" /\ work[w].mode = "full" => Fresh(w)

DocInv == TypeOK /\ BegunInv /\ AtWorkInv /\ FreshInv /\ SucceededIsWhole

-----------------------------------------------------------------------------

LEMMA StagesDef == processingStages = 1..7 /\ canonicalize_data = 7
BY DEF processingStages, retrieve_pdf, canonicalize_data

LEMMA Typed ==
    TypeOK <=> /\ doc \in [Doc -> DocRecords]
               /\ irun \in [Run -> RunRecords]
               /\ work \in [Worker -> DocHands]
               /\ plan \in [Timer -> Plans]
               /\ config \in BOOLEAN
               /\ last \in [Doc -> [run : Run \cup {0}, alone : BOOLEAN]]
               /\ used \in [mishaps : Nat, manual : Nat]
BY DEF TypeOK, DocRecords, RunRecords, StageRows, DocHands, Plans

LEMMA TypedNext ==
    TypeOK' <=> /\ doc' \in [Doc -> DocRecords]
                /\ irun' \in [Run -> RunRecords]
                /\ work' \in [Worker -> DocHands]
                /\ plan' \in [Timer -> Plans]
                /\ config' \in BOOLEAN
                /\ last' \in [Doc -> [run : Run \cup {0}, alone : BOOLEAN]]
                /\ used' \in [mishaps : Nat, manual : Nat]
BY DEF TypeOK, DocRecords, RunRecords, StageRows, DocHands, Plans

LEMMA RestTyped == Rest \in DocHands
BY DEF Rest, DocHands

LEMMA BetweenTyped == ASSUME DocumentAssumption PROVE Between \in Plans
BY DEF Between, Plans, DocumentAssumption

LEMMA StartTyped ==
    ASSUME DocumentAssumption, NEW row \in RunRecords, NEW s \in processingStages
    PROVE  /\ startStage(row, s) \in RunRecords
           /\ startStage(row, s).stage[s].status = "running"
           /\ \A q \in processingStages \ {s} : startStage(row, s).stage[q] = row.stage[q]
           /\ startStage(row, s).status = row.status /\ startStage(row, s).of = row.of
           /\ startStage(row, s).lapsed = row.lapsed
           /\ startStage(row, s).artifact = row.artifact
<1> DEFINE a == IF row.stage[s].attempts < MaxAttempts THEN row.stage[s].attempts + 1
                ELSE row.stage[s].attempts
           st == [row.stage EXCEPT ![s] = [status |-> "running", attempts |-> a]]
<1>1. startStage(row, s) = [row EXCEPT !.stage = st]
  BY DEF RunRecords, StageRows, startStage
<1>2. row.stage[s].attempts \in 0..MaxAttempts
  BY DEF RunRecords, StageRows
<1>3. a \in 0..MaxAttempts
  BY <1>2 DEF DocumentAssumption
<1> HIDE DEF a
<1>4. /\ st \in StageRows
      /\ st[s].status = "running"
      /\ \A q \in processingStages \ {s} : st[q] = row.stage[q]
  BY <1>3 DEF RunRecords, StageRows, StageStatus
<1> HIDE DEF st
<1> QED BY <1>1, <1>4 DEF RunRecords

LEMMA BlockTyped ==
    ASSUME NEW row \in RunRecords, NEW s \in processingStages
    PROVE  /\ blockStages(row, s) \in RunRecords
           /\ \A q \in processingStages :
                 blockStages(row, s).stage[q].status =
                     IF q > s THEN "blocked" ELSE row.stage[q].status
           /\ blockStages(row, s).status = row.status /\ blockStages(row, s).of = row.of
           /\ blockStages(row, s).lapsed = row.lapsed
           /\ blockStages(row, s).artifact = row.artifact
BY DEF blockStages, RunRecords, StageRows, StageStatus

LEMMA NoRunTyped == ASSUME DocumentAssumption PROVE NoRun \in RunRecords
BY DEF NoRun, RunRecords, StageRows, RunStatus, StageStatus, DocumentAssumption

LEMMA ExpireTyped ==
    ASSUME irun \in [Run -> RunRecords]
    PROVE  /\ ExpireLapsed(irun) \in [Run -> RunRecords]
           /\ \A r \in Run :
                 /\ ExpireLapsed(irun)[r].of = irun[r].of
                 /\ ExpireLapsed(irun)[r].stage = irun[r].stage
                 /\ ExpireLapsed(irun)[r].lapsed = irun[r].lapsed
                 /\ ExpireLapsed(irun)[r].artifact = irun[r].artifact
                 /\ ExpireLapsed(irun)[r].status =
                       IF irun[r].status = "running" /\ irun[r].lapsed THEN "failed"
                       ELSE irun[r].status
BY DEF ExpireLapsed, RunRecords, RunStatus

LEMMA RetiredTyped ==
    ASSUME NEW d \in Doc, doc \in [Doc -> DocRecords]
    PROVE  Retired(d) \in [Row -> RowStatus] /\ \A x \in Row : Retired(d)[x] \in {"none", "stale"}
BY DEF Retired, RowStatus

\* What invalidateProcessingOutputs leaves, stage by stage.
LEMMA InvalidatedIs ==
    ASSUME NEW d \in Doc, NEW s \in processingStages
    PROVE  /\ s \in {1, 2} => Invalidated(d, s) =
                 [doc[d] EXCEPT !.text = FALSE, !.rows = Retired(d), !.assessment = "none",
                                !.artifact = "fetched"]
           /\ s = 3 => Invalidated(d, s) =
                 [doc[d] EXCEPT !.rows = Retired(d), !.assessment = "none",
                                !.artifact = "processed"]
           /\ s = 4 => Invalidated(d, s) =
                 [doc[d] EXCEPT !.rows = [x \in Row |-> IF @[x] = "none" THEN "none"
                                                        ELSE "pending_validation"],
                                !.assessment = "none", !.artifact = "processed"]
           /\ s = 6 => Invalidated(d, s) = [doc[d] EXCEPT !.assessment = "none"]
           /\ s \in {5, 7} => Invalidated(d, s) = doc[d]
BY DEF Invalidated, retrieve_pdf, parse_pdf, extract_data, validate_data, assess_completeness

LEMMA InvalidatedTyped ==
    ASSUME NEW d \in Doc, NEW s \in processingStages, doc \in [Doc -> DocRecords]
    PROVE  Invalidated(d, s) \in DocRecords
<1>1. doc[d] \in DocRecords
  OBVIOUS
<1>2. CASE s \in {1, 2, 3}
  <2>1. Retired(d) \in [Row -> RowStatus]
    BY RetiredTyped
  <2>2. CASE s \in {1, 2}
    <3>1. Invalidated(d, s) = [doc[d] EXCEPT !.text = FALSE, !.rows = Retired(d),
                                            !.assessment = "none", !.artifact = "fetched"]
      BY <2>2, InvalidatedIs, Zenon
    <3> QED BY <1>1, <2>1, <3>1 DEF DocRecords, ArtifactStatus
  <2>3. CASE s = 3
    <3>1. Invalidated(d, s) = [doc[d] EXCEPT !.rows = Retired(d), !.assessment = "none",
                                            !.artifact = "processed"]
      BY <2>3, InvalidatedIs, Zenon
    <3> QED BY <1>1, <2>1, <3>1 DEF DocRecords, ArtifactStatus
  <2> QED BY <1>2, <2>2, <2>3
<1>3. CASE s = 4
  <2> DEFINE rows == [x \in Row |-> IF doc[d].rows[x] = "none" THEN "none"
                                    ELSE "pending_validation"]
  <2>1. Invalidated(d, s) = [doc[d] EXCEPT !.rows = rows, !.assessment = "none",
                                           !.artifact = "processed"]
    BY <1>1, <1>3, InvalidatedIs, Zenon DEF DocRecords
  <2>2. rows \in [Row -> RowStatus]
    BY DEF RowStatus
  <2> HIDE DEF rows
  <2> QED BY <1>1, <2>1, <2>2 DEF DocRecords, ArtifactStatus
<1>4. CASE s \in {5, 6, 7}
  <2>1. \/ Invalidated(d, s) = [doc[d] EXCEPT !.assessment = "none"]
        \/ Invalidated(d, s) = doc[d]
    BY <1>4, InvalidatedIs, Zenon
  <2> QED BY <1>1, <2>1 DEF DocRecords
<1> QED BY <1>2, <1>3, <1>4, StagesDef

LEMMA SetLiveTyped ==
    ASSUME NEW d \in Doc, NEW status \in RowStatus, doc \in [Doc -> DocRecords]
    PROVE  SetLive(d, status) \in [Row -> RowStatus]
BY DEF SetLive, DocRecords

LEMMA ResultsAre ==
    ASSUME NEW w \in Worker, NEW d \in Doc, NEW s \in processingStages
    PROVE  /\ s = 1 => Results(w, s, d) = retrievePdf(d)
           /\ s = 2 => Results(w, s, d) = parsePdf(d)
           /\ s = 3 => Results(w, s, d) = extractData(w, d)
           /\ s = 4 => Results(w, s, d) = validateData(d)
           /\ s = 5 => Results(w, s, d) = insertData(d)
           /\ s = 6 => Results(w, s, d) = assessCompleteness(w, d)
           /\ s = 7 => Results(w, s, d) = canonicalizeData(w, d)
BY DEF Results, retrieve_pdf, parse_pdf, extract_data, validate_data, insert_data,
       assess_completeness, canonicalize_data

\* A row is canonicalized, or in quarantine with an open record.
Answered(o, x) ==
    o.rows[x] = "canonicalized" \/ (o.rows[x] = "quarantined" /\ x \in o.open)

\* The last stage leaves o of document d, with the rows in out in quarantine.
Sorted(d, out, o) ==
    /\ o \in DocRecords
    /\ o.text = doc[d].text /\ o.assessment = doc[d].assessment
    /\ \A x \in Row : o.rows[x] = IF x \in out THEN "quarantined"
                                 ELSE IF x \in Live(d) THEN "canonicalized"
                                 ELSE doc[d].rows[x]
    /\ out \subseteq o.open

LEMMA CanonicalizedTyped ==
    ASSUME NEW d \in Doc, doc[d] \in DocRecords, NEW out \in SUBSET Live(d),
           NEW equal \in SUBSET Live(d), NEW kept \in SUBSET doc[d].open
    PROVE  Sorted(d, out, Canonicalized(d, out, equal, kept))
<1> DEFINE o == Canonicalized(d, out, equal, kept)
           rows == [x \in Row |-> IF x \in out THEN "quarantined"
                                 ELSE IF x \in Live(d) THEN "canonicalized"
                                 ELSE doc[d].rows[x]]
           observed == doc[d].observed \cup (Live(d) \ (out \cup equal))
           open == (doc[d].open \ Live(d)) \cup out \cup kept
<1>1. Live(d) \subseteq Row /\ doc[d].observed \subseteq Row /\ doc[d].open \subseteq Row
  BY DEF Live, DocRecords
<1>2. rows \in [Row -> RowStatus]
  BY DEF DocRecords, RowStatus
<1>3. observed \in SUBSET Row /\ open \in SUBSET Row /\ out \subseteq open
  BY <1>1
<1>4. o =
        [doc[d] EXCEPT !.rows = rows, !.observed = observed, !.open = open,
                       !.artifact = "canonicalized", !.publication = "canonicalized"]
  BY DEF Canonicalized, DocRecords
<1>5. \A x \in Row : rows[x] = IF x \in out THEN "quarantined"
                               ELSE IF x \in Live(d) THEN "canonicalized"
                               ELSE doc[d].rows[x]
  OBVIOUS
<1> HIDE DEF rows, observed, open, o
<1>6. "canonicalized" \in ArtifactStatus /\ "canonicalized" \in PublicationStatus
  BY DEF ArtifactStatus, PublicationStatus
<1>7. Sorted(d, out, o)
  BY <1>2, <1>3, <1>4, <1>5, <1>6 DEF DocRecords, Sorted
<1> QED BY <1>7 DEF o

\* What the last stage leaves: every live row is answered for, and no other becomes live.
LEMMA CanonicalizedIs ==
    ASSUME NEW w \in Worker, NEW d \in Doc, doc[d] \in DocRecords,
           NEW o \in canonicalizeData(w, d)
    PROVE  /\ o \in DocRecords
           /\ o.text = doc[d].text /\ o.assessment = doc[d].assessment
           /\ ~work[w].bundle => o = doc[d]
           /\ work[w].bundle => \A x \in Row : IF x \in Live(d) THEN Answered(o, x)
                                               ELSE o.rows[x] = doc[d].rows[x]
<1>1. CASE ~work[w].bundle
  BY <1>1 DEF canonicalizeData
<1>2. CASE work[w].bundle
  <2>1. PICK out \in SUBSET Live(d), equal \in SUBSET Live(d), kept \in SUBSET doc[d].open :
           o = Canonicalized(d, out, equal, kept)
    BY <1>2 DEF canonicalizeData
  <2>2. /\ o \in DocRecords /\ o.text = doc[d].text /\ o.assessment = doc[d].assessment
        /\ \A x \in Row : o.rows[x] = IF x \in out THEN "quarantined"
                                      ELSE IF x \in Live(d) THEN "canonicalized"
                                      ELSE doc[d].rows[x]
        /\ out \subseteq o.open
    <3>1. Sorted(d, out, Canonicalized(d, out, equal, kept))
      BY CanonicalizedTyped
    <3> QED BY <2>1, <3>1 DEF Sorted
  <2>3. ASSUME NEW x \in Row
        PROVE  IF x \in Live(d) THEN Answered(o, x) ELSE o.rows[x] = doc[d].rows[x]
    <3>1. CASE x \in out
      BY <2>2, <3>1 DEF Answered
    <3>2. CASE x \notin out
      BY <2>2, <3>2 DEF Answered
    <3> QED BY <3>1, <3>2
  <2> QED BY <1>2, <2>2, <2>3
<1> QED BY <1>1, <1>2

LEMMA ResultsTyped ==
    ASSUME NEW w \in Worker, NEW d \in Doc, NEW s \in processingStages,
           doc \in [Doc -> DocRecords], NEW o \in Results(w, s, d)
    PROVE  o \in DocRecords
<1>1. doc[d] \in DocRecords
  OBVIOUS
<1>2. CASE s = 1
  <2>1. o = [doc[d] EXCEPT !.artifact = "fetched"]
    <3>1. o \in retrievePdf(d)
      BY <1>2, ResultsAre
    <3> QED BY <3>1 DEF retrievePdf
  <2> QED BY <1>1, <2>1 DEF DocRecords, ArtifactStatus
<1>3. CASE s = 2
  <2>1. o = [doc[d] EXCEPT !.text = TRUE, !.artifact = "processed"]
    <3>1. o \in parsePdf(d)
      BY <1>3, ResultsAre
    <3> QED BY <3>1 DEF parsePdf
  <2> QED BY <1>1, <2>1 DEF DocRecords, ArtifactStatus
<1>4. CASE s = 3
  <2>1. PICK found \in SUBSET Row :
           o = [doc[d] EXCEPT !.text = TRUE, !.rows = Extracted(d, found),
                              !.artifact = "processed"]
    <3>1. o \in extractData(w, d)
      BY <1>4, ResultsAre
    <3> QED BY <3>1 DEF extractData
  <2>2. Extracted(d, found) \in [Row -> RowStatus]
    BY DEF Extracted, RowStatus
  <2> QED BY <1>1, <2>1, <2>2 DEF DocRecords, ArtifactStatus
<1>5. CASE s = 4
  <2>1. o = [doc[d] EXCEPT !.rows = SetLive(d, "validated"), !.artifact = "validated"]
    <3>1. o \in validateData(d)
      BY <1>5, ResultsAre
    <3> QED BY <3>1 DEF validateData
  <2>2. SetLive(d, "validated") \in [Row -> RowStatus]
    BY SetLiveTyped DEF RowStatus
  <2> QED BY <1>1, <2>1, <2>2 DEF DocRecords, ArtifactStatus
<1>6. CASE s = 5
  <2>1. o = [doc[d] EXCEPT !.rows = SetLive(d, "unmapped"), !.artifact = "parsed",
                           !.publication = "parsed"]
    <3>1. o \in insertData(d)
      BY <1>6, ResultsAre
    <3> QED BY <3>1 DEF insertData
  <2>2. SetLive(d, "unmapped") \in [Row -> RowStatus]
    BY SetLiveTyped DEF RowStatus
  <2> QED BY <1>1, <2>1, <2>2 DEF DocRecords, ArtifactStatus, PublicationStatus
<1>7. CASE s = 6
  <2>1. \E a \in {"assessed", "not_configured"} : o = [doc[d] EXCEPT !.assessment = a]
    <3>1. o \in assessCompleteness(w, d)
      BY <1>7, ResultsAre
    <3> QED BY <3>1 DEF assessCompleteness
  <2> QED BY <1>1, <2>1 DEF DocRecords
<1>8. CASE s = 7
  <2>1. o \in canonicalizeData(w, d)
    BY <1>8, ResultsAre
  <2> QED BY <1>1, <2>1, CanonicalizedIs
<1> QED BY <1>2, <1>3, <1>4, <1>5, <1>6, <1>7, <1>8, StagesDef

LEMMA ReportedTyped ==
    ASSUME NEW w \in Worker, NEW d \in Doc, plan \in [Timer -> Plans]
    PROVE  /\ Reported(w, d) \in [Timer -> Plans]
           /\ \A t \in Timer : /\ Reported(w, d)[t].phase = plan[t].phase
                               /\ Reported(w, d)[t].bundle = plan[t].bundle
<1>1. CASE w \notin Timer
  BY <1>1 DEF Reported
<1>2. CASE w \in Timer
  <2> DEFINE f == IF plan[w].phase = "sweep" THEN plan[w].failed \cup {d} ELSE plan[w].failed
             c == IF plan[w].phase = "recover" THEN <<0, 0>> ELSE plan[w].candidate
  <2>1. Reported(w, d) = [plan EXCEPT ![w] = [plan[w] EXCEPT !.failed = f, !.candidate = c]]
    BY <1>2 DEF Reported, Plans
  <2>2. plan[w] \in Plans
    BY <1>2
  <2>3. f \in SUBSET Doc /\ c \in (Run \X (1..(canonicalize_data + 1))) \cup {<<0, 0>>}
    BY <2>2 DEF Plans
  <2> HIDE DEF f, c
  <2>4. [plan[w] EXCEPT !.failed = f, !.candidate = c] \in Plans
    BY <2>2, <2>3 DEF Plans
  <2>5. /\ [plan[w] EXCEPT !.failed = f, !.candidate = c].phase = plan[w].phase
        /\ [plan[w] EXCEPT !.failed = f, !.candidate = c].bundle = plan[w].bundle
    BY <2>2 DEF Plans
  <2> QED BY <1>2, <2>1, <2>2, <2>4, <2>5
<1> QED BY <1>1, <1>2

-----------------------------------------------------------------------------
(* One step.                                                               *)

LEMMA ZeroNoRun == 0 \notin Run
BY DEF Run

\* Nobody has a run that is free.
LEMMA FreeUnused ==
    ASSUME DocInv, NEW r \in Run, irun[r].status = "free", NEW v \in Worker
    PROVE  work[v].run # r
<1>1. work[v].pc \in {"idle", "checked", "stage"}
  BY Typed DEF DocInv, DocHands
<1> QED BY <1>1, ZeroNoRun DEF DocInv, AtWorkInv, AtWork

\* Lapsed runs are failed.
LEMMA ExpireKeeps ==
    ASSUME DocInv, irun' = ExpireLapsed(irun), work' = work
    PROVE  /\ irun' \in [Run -> RunRecords]
           /\ BegunInv' /\ AtWorkInv' /\ FreshInv' /\ SucceededIsWhole'
<1>1. irun \in [Run -> RunRecords] /\ work \in [Worker -> DocHands]
  BY Typed DEF DocInv
<1>2. /\ irun' \in [Run -> RunRecords]
      /\ \A r \in Run : /\ irun'[r].of = irun[r].of /\ irun'[r].stage = irun[r].stage
                        /\ irun'[r].lapsed = irun[r].lapsed
                        /\ irun'[r].status = IF irun[r].status = "running" /\ irun[r].lapsed
                                             THEN "failed" ELSE irun[r].status
  BY <1>1, ExpireTyped
<1>3. BegunInv'
  BY <1>2 DEF DocInv, BegunInv
<1>4. AtWorkInv'
  BY <1>1, <1>2 DEF DocInv, AtWorkInv, AtWork
<1>5. FreshInv'
  <2> SUFFICES ASSUME NEW w \in Worker, work[w].pc = "stage", work[w].mode = "full"
               PROVE  Fresh(w)'
    BY DEF FreshInv
  <2>1. work[w].run \in Run /\ Fresh(w)
    BY DEF DocInv, AtWorkInv, AtWork, FreshInv
  <2> QED BY <1>2, <2>1 DEF Fresh
<1>6. SucceededIsWhole'
  BY <1>2 DEF DocInv, SucceededIsWhole
<1> QED BY <1>2, <1>3, <1>4, <1>5, <1>6

\* runPdfProcessing passes over a document.
Skipped == irun' = ExpireLapsed(irun) /\ work' = work /\ last' = last

\* It begins run r of document d.
Begun(w, d, bundle, r) ==
    /\ irun[r].status = "free" /\ IsNextRun(r)
    /\ irun' \in [Run -> RunRecords]
    /\ \A q \in Run \ {r} : irun'[q] = ExpireLapsed(irun)[q]
    /\ irun'[r].status = "running" /\ ~irun'[r].lapsed /\ irun'[r].of = d
    /\ irun'[r].artifact = FALSE
    /\ \A s \in processingStages :
          irun'[r].stage[s].status = IF s = 1 THEN "running" ELSE "none"
    /\ work' = [work EXCEPT ![w] = [Rest EXCEPT !.pc = "stage", !.mode = "full",
                    !.run = r, !.stage = retrieve_pdf, !.bundle = bundle]]
    /\ last' = [last EXCEPT ![d] = [run |-> r, alone |-> TRUE]]

LEMMA StartFullIs ==
    ASSUME DocumentAssumption, DocInv, NEW w \in Worker, NEW d \in Doc,
           NEW bundle \in BOOLEAN,
           StartFull(w, d, bundle)
    PROVE  Skipped \/ \E r \in Run : Begun(w, d, bundle, r)
<1> DEFINE table == ExpireLapsed(irun)
           row == [NoRun EXCEPT !.status = "running", !.of = d]
<1>1. CASE ActiveRun(table, d)
  BY <1>1 DEF StartFull, Skipped
<1>2. CASE ~ActiveRun(table, d)
  <2>1. PICK r \in Run :
           /\ IsNextRun(r)
           /\ irun' = [table EXCEPT ![r] = startStage(row, retrieve_pdf)]
           /\ work' = [work EXCEPT ![w] = [Rest EXCEPT !.pc = "stage", !.mode = "full",
                                 !.run = r, !.stage = retrieve_pdf, !.bundle = bundle]]
           /\ last' = [last EXCEPT ![d] = [run |-> r, alone |-> TRUE]]
    BY <1>2 DEF StartFull
  <2>2. table \in [Run -> RunRecords]
    BY Typed, ExpireTyped DEF DocInv
  <2>3. row \in RunRecords
    BY NoRunTyped DEF RunRecords, RunStatus
  <2>4. /\ row.status = "running" /\ row.of = d /\ row.lapsed = FALSE /\ row.artifact = FALSE
        /\ \A s \in processingStages : row.stage[s].status = "none"
    BY DEF NoRun
  <2> HIDE DEF row, table
  <2>5. retrieve_pdf \in processingStages /\ retrieve_pdf = 1
    BY StagesDef DEF retrieve_pdf
  <2>6. irun'[r] = startStage(row, retrieve_pdf)
    BY <2>1, <2>2
  <2>7. \A q \in Run \ {r} : irun'[q] = table[q]
    BY <2>1, <2>2
  <2>8. irun' \in [Run -> RunRecords]
    BY <2>1, <2>2, <2>3, <2>5, StartTyped
  <2>9. \A s \in processingStages :
           irun'[r].stage[s].status = IF s = 1 THEN "running" ELSE "none"
    BY <2>3, <2>4, <2>5, <2>6, StartTyped
  <2>10. /\ irun'[r].status = "running" /\ ~irun'[r].lapsed /\ irun'[r].of = d
         /\ irun'[r].artifact = FALSE
    BY <2>3, <2>4, <2>5, <2>6, StartTyped
  <2>11. irun[r].status = "free"
    BY <2>1 DEF IsNextRun
  <2> QED BY <2>1, <2>7, <2>8, <2>9, <2>10, <2>11 DEF Begun, table
<1> QED BY <1>1, <1>2

LEMMA StartFullKeeps ==
    ASSUME DocumentAssumption, DocInv, NEW w \in Worker, NEW d \in Doc,
           NEW bundle \in BOOLEAN,
           StartFull(w, d, bundle)
    PROVE  /\ irun' \in [Run -> RunRecords] /\ work' \in [Worker -> DocHands]
           /\ last' \in [Doc -> [run : Run \cup {0}, alone : BOOLEAN]]
           /\ BegunInv' /\ AtWorkInv' /\ FreshInv' /\ SucceededIsWhole'
<1>1. /\ irun \in [Run -> RunRecords] /\ work \in [Worker -> DocHands]
      /\ last \in [Doc -> [run : Run \cup {0}, alone : BOOLEAN]]
  BY Typed DEF DocInv
<1>2. CASE Skipped
  BY <1>1, <1>2, ExpireKeeps DEF Skipped
<1>3. ASSUME NEW r \in Run, Begun(w, d, bundle, r)
      PROVE  /\ irun' \in [Run -> RunRecords] /\ work' \in [Worker -> DocHands]
             /\ last' \in [Doc -> [run : Run \cup {0}, alone : BOOLEAN]]
             /\ BegunInv' /\ AtWorkInv' /\ FreshInv' /\ SucceededIsWhole'
  <2>0. /\ irun[r].status = "free"
        /\ irun' \in [Run -> RunRecords]
        /\ \A q \in Run \ {r} : irun'[q] = ExpireLapsed(irun)[q]
        /\ irun'[r].status = "running" /\ ~irun'[r].lapsed /\ irun'[r].of = d
        /\ \A s \in processingStages :
              irun'[r].stage[s].status = IF s = 1 THEN "running" ELSE "none"
        /\ last' = [last EXCEPT ![d] = [run |-> r, alone |-> TRUE]]
    BY <1>3 DEF Begun
  <2> DEFINE new == [Rest EXCEPT !.pc = "stage", !.mode = "full", !.run = r,
                                 !.stage = retrieve_pdf, !.bundle = bundle]
  <2>1. /\ new \in DocHands /\ new.pc = "stage" /\ new.mode = "full" /\ new.run = r
        /\ new.stage = 1
    <3>1. 1 \in processingStages /\ retrieve_pdf = 1
      BY StagesDef DEF retrieve_pdf
    <3> QED BY <3>1 DEF Rest, DocHands
  <2>2. work' = [work EXCEPT ![w] = new]
    BY <1>3 DEF Begun
  <2> HIDE DEF new
  <2>3. \A v \in Worker : work'[v] = IF v = w THEN new ELSE work[v]
    BY <1>1, <2>2
  <2>4. \A v \in Worker : work[v].run # r
    BY <2>0, FreeUnused
  <2>5. \A q \in Run \ {r} :
           /\ irun'[q].of = irun[q].of /\ irun'[q].stage = irun[q].stage
           /\ irun'[q].lapsed = irun[q].lapsed
           /\ irun'[q].status = IF irun[q].status = "running" /\ irun[q].lapsed
                                THEN "failed" ELSE irun[q].status
    BY <1>1, <2>0, ExpireTyped
  <2>6. work' \in [Worker -> DocHands]
    BY <1>1, <2>1, <2>2
  <2>7. last' \in [Doc -> [run : Run \cup {0}, alone : BOOLEAN]]
    BY <1>1, <2>0
  <2>8. BegunInv'
    BY <2>0, <2>5 DEF DocInv, BegunInv
  <2>9. AtWorkInv'
    <3> SUFFICES ASSUME NEW v \in Worker PROVE AtWork(v)'
      BY DEF AtWorkInv
    <3>1. CASE v = w
      <4>1. work'[v].pc = "stage" /\ work'[v].run = r /\ work'[v].stage = 1
        BY <2>1, <2>3, <3>1
      <4>2. 1 \in processingStages /\ irun'[r].status # "free"
        BY <2>0, StagesDef
      <4> QED BY <4>1, <4>2 DEF AtWork
    <3>2. CASE v # w
      <4>1. work'[v] = work[v] /\ work[v].run # r
        BY <2>3, <2>4, <3>2
      <4>2. \A q \in Run \ {r} : irun[q].status # "free" => irun'[q].status # "free"
        BY <2>5
      <4> QED BY <4>1, <4>2 DEF DocInv, AtWorkInv, AtWork
    <3> QED BY <3>1, <3>2
  <2>10. FreshInv'
    <3> SUFFICES ASSUME NEW v \in Worker, work'[v].pc = "stage", work'[v].mode = "full"
                 PROVE  Fresh(v)'
      BY DEF FreshInv
    <3>1. CASE v = w
      <4>1. work'[v].run = r /\ work'[v].stage = 1
        BY <2>1, <2>3, <3>1
      <4>2. \A q \in processingStages : /\ ~(q < 1)
                                        /\ q > 1 => irun'[r].stage[q].status = "none"
        BY <2>0, StagesDef
      <4>3. \A u \in Worker \ {v} : work'[u].run # r
        BY <2>3, <2>4, <3>1
      <4> QED BY <2>0, <4>1, <4>2, <4>3 DEF Fresh
    <3>2. CASE v # w
      <4>1. work'[v] = work[v] /\ work[v].run \in Run /\ work[v].run # r
        BY <2>3, <2>4, <3>2 DEF DocInv, AtWorkInv, AtWork
      <4>2. Fresh(v)
        BY <2>3, <3>2 DEF DocInv, FreshInv
      <4> QED BY <2>1, <2>3, <2>4, <2>5, <3>2, <4>1, <4>2 DEF Fresh
    <3> QED BY <3>1, <3>2
  <2>11. SucceededIsWhole'
    BY <2>0, <2>5 DEF DocInv, SucceededIsWhole
  <2> QED BY <2>0, <2>6, <2>7, <2>8, <2>9, <2>10, <2>11
<1> QED BY <1>2, <1>3, StartFullIs

\* A retry is checked: nobody executes its run afresh, which is not running.
LEMMA CheckRetryKeeps ==
    ASSUME DocumentAssumption, DocInv, NEW w \in Worker, NEW r \in Run,
           NEW s \in processingStages, NEW bundle \in BOOLEAN, work[w].pc = "idle",
           CheckRetry(w, r, s, bundle), irun' = irun
    PROVE  /\ work' \in [Worker -> DocHands]
           /\ BegunInv' /\ AtWorkInv' /\ FreshInv' /\ SucceededIsWhole'
<1>1. irun \in [Run -> RunRecords] /\ work \in [Worker -> DocHands]
  BY Typed DEF DocInv
<1> DEFINE new == [Rest EXCEPT !.pc = "checked", !.mode = "retry", !.run = r,
                               !.stage = s, !.bundle = bundle]
<1>2. /\ new \in DocHands /\ new.pc = "checked" /\ new.mode = "retry" /\ new.run = r
      /\ new.stage = s
  BY DEF Rest, DocHands
<1>3. work' = [work EXCEPT ![w] = new]
  BY DEF CheckRetry
<1> HIDE DEF new
<1>4. \A v \in Worker : work'[v] = IF v = w THEN new ELSE work[v]
  BY <1>1, <1>3
<1>5. irun[r].status \in {"succeeded", "failed", "blocked"}
  BY DEF CheckRetry, CanRetry
<1>6. AtWorkInv'
  BY <1>2, <1>4, <1>5 DEF DocInv, AtWorkInv, AtWork
<1>7. FreshInv'
  BY <1>2, <1>4, <1>5 DEF DocInv, FreshInv, Fresh
<1>8. work' \in [Worker -> DocHands]
  BY <1>1, <1>2, <1>3
<1> QED BY <1>6, <1>7, <1>8 DEF DocInv, BegunInv, SucceededIsWhole

\* What the end of the check of a retry leaves of its run.
LEMMA BeginRetryIs ==
    ASSUME DocumentAssumption, DocInv, NEW w \in Worker, BeginRetry(w)
    PROVE  LET r == work[w].run
               s == work[w].stage
           IN  /\ r \in Run /\ s \in processingStages
               /\ work[w].pc = "checked" /\ work[w].mode = "retry"
               /\ irun' \in [Run -> RunRecords]
               /\ \A q \in Run \ {r} : irun'[q] = irun[q]
               /\ irun'[r].status = "running" /\ ~irun'[r].lapsed
               /\ irun'[r].of = irun[r].of /\ irun'[r].artifact = irun[r].artifact
               /\ \A q \in processingStages :
                     irun'[r].stage[q].status =
                         IF q = s THEN "running"
                         ELSE IF q > s THEN "blocked" ELSE irun[r].stage[q].status
               /\ work' \in [Worker -> DocHands]
               /\ \A v \in Worker \ {w} : work'[v] = work[v]
               /\ work'[w] = [work[w] EXCEPT !.pc = "stage"]
<1> DEFINE r == work[w].run
           s == work[w].stage
           live == [irun[r] EXCEPT !.status = "running", !.lapsed = FALSE]
           row == blockStages(live, s)
<1>1. irun \in [Run -> RunRecords] /\ work \in [Worker -> DocHands]
  BY Typed DEF DocInv
<1>2. work[w].pc = "checked"
  BY Zenon DEF BeginRetry
<1>3. r \in Run /\ s \in processingStages /\ work[w].mode = "retry"
  BY <1>2 DEF DocInv, AtWorkInv, AtWork
<1>4. /\ live \in RunRecords /\ live.status = "running" /\ live.lapsed = FALSE
      /\ live.of = irun[r].of /\ live.artifact = irun[r].artifact
      /\ live.stage = irun[r].stage
  <2>1. irun[r] \in RunRecords
    BY <1>1, <1>3
  <2> QED BY <2>1 DEF RunRecords, RunStatus
<1>5. /\ row \in RunRecords
      /\ \A q \in processingStages :
            row.stage[q].status = IF q > s THEN "blocked" ELSE live.stage[q].status
      /\ row.status = live.status /\ row.of = live.of /\ row.lapsed = live.lapsed
      /\ row.artifact = live.artifact
  BY <1>3, <1>4, BlockTyped, Zenon
<1>6. irun' = [irun EXCEPT ![r] = startStage(row, s)]
  BY Zenon DEF BeginRetry
<1>7. work' = [work EXCEPT ![w].pc = "stage"]
  BY Zenon DEF BeginRetry
<1> HIDE DEF live, row
<1>8. /\ startStage(row, s) \in RunRecords
      /\ startStage(row, s).stage[s].status = "running"
      /\ \A q \in processingStages \ {s} : startStage(row, s).stage[q] = row.stage[q]
      /\ startStage(row, s).status = row.status /\ startStage(row, s).of = row.of
      /\ startStage(row, s).lapsed = row.lapsed
      /\ startStage(row, s).artifact = row.artifact
  BY <1>3, <1>5, StartTyped
<1>9. irun' \in [Run -> RunRecords] /\ irun'[r] = startStage(row, s)
      /\ \A q \in Run \ {r} : irun'[q] = irun[q]
  BY <1>1, <1>3, <1>6, <1>8
<1>10. \A q \in processingStages :
          irun'[r].stage[q].status =
              IF q = s THEN "running" ELSE IF q > s THEN "blocked" ELSE irun[r].stage[q].status
  BY <1>4, <1>5, <1>8, <1>9
<1>11. /\ irun'[r].status = "running" /\ ~irun'[r].lapsed
       /\ irun'[r].of = irun[r].of /\ irun'[r].artifact = irun[r].artifact
  BY <1>4, <1>5, <1>8, <1>9
<1>12. /\ work' \in [Worker -> DocHands]
       /\ \A v \in Worker \ {w} : work'[v] = work[v]
       /\ work'[w] = [work[w] EXCEPT !.pc = "stage"]
  BY <1>1, <1>7 DEF DocHands
<1> QED BY <1>2, <1>3, <1>9, <1>10, <1>11, <1>12

LEMMA BeginRetryKeeps ==
    ASSUME DocumentAssumption, DocInv, NEW w \in Worker, BeginRetry(w)
    PROVE  DocInv'
<1> DEFINE r == work[w].run
           s == work[w].stage
           d == irun[r].of
<1>1. /\ irun \in [Run -> RunRecords] /\ work \in [Worker -> DocHands]
      /\ doc \in [Doc -> DocRecords]
      /\ last \in [Doc -> [run : Run \cup {0}, alone : BOOLEAN]]
  BY Typed DEF DocInv
<1>2. /\ r \in Run /\ s \in processingStages
      /\ work[w].pc = "checked" /\ work[w].mode = "retry"
      /\ irun' \in [Run -> RunRecords]
      /\ \A q \in Run \ {r} : irun'[q] = irun[q]
      /\ irun'[r].status = "running" /\ ~irun'[r].lapsed
      /\ irun'[r].of = irun[r].of /\ irun'[r].artifact = irun[r].artifact
      /\ \A q \in processingStages :
            irun'[r].stage[q].status =
                IF q = s THEN "running"
                ELSE IF q > s THEN "blocked" ELSE irun[r].stage[q].status
      /\ work' \in [Worker -> DocHands]
      /\ \A v \in Worker \ {w} : work'[v] = work[v]
      /\ work'[w] = [work[w] EXCEPT !.pc = "stage"]
  BY BeginRetryIs
<1>3. irun[r].status # "free" /\ d \in Doc
  BY <1>2 DEF DocInv, AtWorkInv, AtWork, BegunInv
<1>4. /\ work'[w].pc = "stage" /\ work'[w].mode = "retry" /\ work'[w].run = r
      /\ work'[w].stage = s
  BY <1>1, <1>2 DEF DocHands
<1>5. doc' \in [Doc -> DocRecords]
  <2>1. doc' = [doc EXCEPT ![d] = IF irun[r].artifact THEN Invalidated(d, s) ELSE @]
    BY DEF BeginRetry
  <2>2. Invalidated(d, s) \in DocRecords
    BY <1>1, <1>2, <1>3, InvalidatedTyped
  <2> QED BY <1>1, <1>3, <2>1, <2>2
<1>6. last' \in [Doc -> [run : Run \cup {0}, alone : BOOLEAN]]
  <2>1. last' = [last EXCEPT ![d] = [run |-> r, alone |-> @.alone /\ @.run = r]]
    BY DEF BeginRetry
  <2> DEFINE b == last[d].alone /\ last[d].run = r
  <2>2. b \in BOOLEAN
    OBVIOUS
  <2>3. last' = [last EXCEPT ![d] = [run |-> r, alone |-> b]]
    BY <2>1
  <2> HIDE DEF b
  <2> QED BY <1>1, <1>2, <1>3, <2>2, <2>3
<1>7. plan' = plan /\ config' = config /\ used' = used
  BY DEF BeginRetry
<1>8. TypeOK'
  BY <1>2, <1>5, <1>6, <1>7, Typed, TypedNext DEF DocInv
<1>9. BegunInv'
  BY <1>2, <1>3 DEF DocInv, BegunInv
<1>10. AtWorkInv'
  <2> SUFFICES ASSUME NEW v \in Worker PROVE AtWork(v)'
    BY DEF AtWorkInv
  <2>1. CASE v = w
    BY <1>2, <1>4, <2>1 DEF AtWork
  <2>2. CASE v # w
    <3>1. work'[v] = work[v] /\ AtWork(v)
      BY <1>2, <2>2 DEF DocInv, AtWorkInv, AtWork
    <3> QED BY <1>2, <3>1 DEF AtWork
  <2> QED BY <2>1, <2>2
<1>11. FreshInv'
  <2> SUFFICES ASSUME NEW v \in Worker, work'[v].pc = "stage", work'[v].mode = "full"
               PROVE  Fresh(v)'
    BY DEF FreshInv, Fresh
  <2>1. v # w
    BY <1>4
  <2>2. work'[v] = work[v]
    BY <1>2, <2>1
  <2>3. Fresh(v) /\ work[v].run \in Run /\ work[v].run # r
    BY <2>1, <2>2 DEF DocInv, FreshInv, AtWorkInv, AtWork, Fresh
  <2>4. \A u \in Worker : work'[u].run = work[u].run
    BY <1>2, <1>4, Zenon
  <2> QED BY <1>2, <2>2, <2>3, <2>4 DEF Fresh
<1>12. SucceededIsWhole'
  BY <1>2 DEF DocInv, SucceededIsWhole
<1> QED BY <1>8, <1>9, <1>10, <1>11, <1>12 DEF DocInv

\* Run r keeps what a stage does not touch.
OtherRunsKept(r) ==
    /\ irun' \in [Run -> RunRecords]
    /\ \A q \in Run \ {r} : irun'[q] = irun[q]
    /\ irun'[r].of = irun[r].of

OthersKept(w) ==
    /\ work' \in [Worker -> DocHands]
    /\ \A v \in Worker \ {w} : work'[v] = work[v]

\* A run goes on to its next stage with what the stage left of the document.
GoesOn(w, o) ==
    LET r == work[w].run
        s == work[w].stage
    IN  /\ work[w].mode = "full" /\ s < 7
        /\ doc' = [doc EXCEPT ![irun[r].of] = o]
        /\ OtherRunsKept(r) /\ OthersKept(w)
        /\ irun'[r].status = irun[r].status
        /\ irun'[r].lapsed => irun[r].lapsed
        /\ \A q \in processingStages :
              irun'[r].stage[q].status = IF q = s THEN "succeeded"
                                         ELSE IF q = s + 1 THEN "running"
                                         ELSE irun[r].stage[q].status
        /\ irun'[r].artifact = (irun[r].artifact \/ s = 1)
        /\ work'[w].pc = "stage" /\ work'[w].mode = "full" /\ work'[w].run = r
        /\ work'[w].stage = s + 1 /\ work'[w].bundle = work[w].bundle

\* A run ends with its last stage, or a retry with its only one.
EndsWell(w, o) ==
    LET r == work[w].run
        s == work[w].stage
    IN  /\ work[w].mode = "full" => s = 7
        /\ doc' = [doc EXCEPT ![irun[r].of] = IF irun'[r].status = "succeeded"
                                              THEN [o EXCEPT !.quarantined = FALSE] ELSE o]
        /\ OtherRunsKept(r) /\ OthersKept(w)
        /\ irun'[r].status \in {"succeeded", "blocked"}
        /\ irun'[r].status = "succeeded" =>
              work[w].mode = "full" \/ \A q \in processingStages :
                                          irun'[r].stage[q].status = "succeeded"
        /\ \A q \in processingStages :
              irun'[r].stage[q].status = IF q = s THEN "succeeded" ELSE irun[r].stage[q].status
        /\ irun'[r].artifact = (irun[r].artifact \/ s = 1)
        /\ work'[w] = Rest

LEMMA StageSucceedsIs ==
    ASSUME DocumentAssumption, DocInv, NEW w \in Worker, StageSucceeds(w)
    PROVE  /\ work[w].run \in Run /\ work[w].stage \in processingStages
           /\ work[w].pc = "stage"
           /\ \E o \in Results(w, work[w].stage, irun[work[w].run].of) :
                 GoesOn(w, o) \/ EndsWell(w, o)
<1> DEFINE r == work[w].run
           s == work[w].stage
           d == irun[r].of
           row == [irun[r] EXCEPT !.stage[s].status = "succeeded",
                                  !.artifact = @ \/ s = retrieve_pdf]
           whole == Whole(row, work[w].mode)
<1>1. irun \in [Run -> RunRecords] /\ work \in [Worker -> DocHands]
  BY Typed DEF DocInv
<1>2. work[w].pc = "stage"
  BY DEF StageSucceeds
<1>3. r \in Run /\ s \in processingStages
  BY <1>2 DEF DocInv, AtWorkInv, AtWork
<1>4. irun[r] \in RunRecords
  BY <1>1, <1>3
<1>5. /\ row \in RunRecords
      /\ row.status = irun[r].status /\ row.of = irun[r].of /\ row.lapsed = irun[r].lapsed
      /\ row.artifact = (irun[r].artifact \/ s = 1)
      /\ \A q \in processingStages :
            row.stage[q].status = IF q = s THEN "succeeded" ELSE irun[r].stage[q].status
  <2> DEFINE st == [irun[r].stage EXCEPT ![s].status = "succeeded"]
             art == irun[r].artifact \/ s = retrieve_pdf
  <2>1. row = [irun[r] EXCEPT !.stage = st, !.artifact = art]
    BY <1>4 DEF RunRecords
  <2>2. /\ st \in StageRows
        /\ \A q \in processingStages :
              st[q].status = IF q = s THEN "succeeded" ELSE irun[r].stage[q].status
    <3>1. irun[r].stage \in StageRows
      BY <1>4, Zenon DEF RunRecords
    <3> QED BY <1>3, <3>1 DEF StageRows, StageStatus
  <2>3. art \in BOOLEAN /\ art = (irun[r].artifact \/ s = 1)
    BY <1>4 DEF RunRecords, retrieve_pdf
  <2> HIDE DEF st, art
  <2> QED BY <1>4, <2>1, <2>2, <2>3, Zenon DEF RunRecords
<1>6. PICK o \in Results(w, s, d) :
        IF work[w].mode = "full" /\ s < canonicalize_data
        THEN /\ doc' = [doc EXCEPT ![d] = o]
             /\ irun' = [irun EXCEPT ![r] =
                   startStage([row EXCEPT !.lapsed = @ /\ row.status # "running"], s + 1)]
             /\ work' = [work EXCEPT ![w].stage = s + 1,
                                     ![w].bytes = @ \/ s \in {retrieve_pdf, parse_pdf},
                                     ![w].items = @ \/ s \in {parse_pdf, extract_data}]
        ELSE /\ doc' = [doc EXCEPT ![d] = IF whole THEN [o EXCEPT !.quarantined = FALSE] ELSE o]
             /\ irun' = [irun EXCEPT ![r] = [row EXCEPT
                   !.status = IF whole THEN "succeeded" ELSE "blocked"]]
             /\ work' = [work EXCEPT ![w] = Rest]
  BY Zenon DEF StageSucceeds
<1> HIDE DEF row
<1>7. ASSUME work[w].mode = "full" /\ s < canonicalize_data
      PROVE  GoesOn(w, o)
  <2> DEFINE next == [row EXCEPT !.lapsed = @ /\ row.status # "running"]
             by == work[w].bytes \/ s \in {retrieve_pdf, parse_pdf}
             it == work[w].items \/ s \in {parse_pdf, extract_data}
             new == [work[w] EXCEPT !.stage = s + 1, !.bytes = by, !.items = it]
  <2>1. s + 1 \in processingStages /\ s < 7
    BY <1>3, <1>7, StagesDef
  <2>2. /\ next \in RunRecords /\ next.status = row.status /\ next.of = row.of
        /\ next.lapsed => row.lapsed
        /\ next.artifact = row.artifact /\ next.stage = row.stage
    BY <1>5 DEF RunRecords
  <2>3. irun' = [irun EXCEPT ![r] = startStage(next, s + 1)]
    BY <1>6, <1>7
  <2>4. work' = [work EXCEPT ![w] = new]
    BY <1>1, <1>6, <1>7, Zenon DEF DocHands
  <2>5. by \in BOOLEAN /\ it \in BOOLEAN
    BY <1>1 DEF DocHands
  <2> HIDE DEF next, by, it
  <2>6. /\ new \in DocHands /\ new.pc = work[w].pc /\ new.mode = work[w].mode
        /\ new.run = r /\ new.stage = s + 1 /\ new.bundle = work[w].bundle
    BY <1>1, <2>1, <2>5, Zenon DEF DocHands
  <2> HIDE DEF new
  <2>7. OthersKept(w) /\ work'[w] = new
    BY <1>1, <2>4, <2>6 DEF OthersKept
  <2>8. /\ startStage(next, s + 1) \in RunRecords
        /\ startStage(next, s + 1).stage[s + 1].status = "running"
        /\ \A q \in processingStages \ {s + 1} :
              startStage(next, s + 1).stage[q] = next.stage[q]
        /\ startStage(next, s + 1).status = next.status /\ startStage(next, s + 1).of = next.of
        /\ startStage(next, s + 1).lapsed = next.lapsed
        /\ startStage(next, s + 1).artifact = next.artifact
    BY <2>1, <2>2, StartTyped
  <2>9. irun'[r] = startStage(next, s + 1)
    BY <1>1, <1>3, <2>3
  <2>10. OtherRunsKept(r)
    BY <1>1, <1>3, <1>5, <2>2, <2>3, <2>8, <2>9 DEF OtherRunsKept
  <2>11. \A q \in processingStages :
              irun'[r].stage[q].status = IF q = s THEN "succeeded"
                                         ELSE IF q = s + 1 THEN "running"
                                         ELSE irun[r].stage[q].status
    <3> TAKE q \in processingStages
    <3>1. CASE q = s + 1
      BY <2>8, <2>9, <3>1, <1>3, StagesDef
    <3>2. CASE q # s + 1
      <4>1. irun'[r].stage[q] = row.stage[q]
        BY <2>2, <2>8, <2>9, <3>2
      <4> QED BY <1>5, <3>2, <4>1
    <3> QED BY <3>1, <3>2
  <2>12. /\ irun'[r].status = irun[r].status
         /\ irun'[r].lapsed => irun[r].lapsed
         /\ irun'[r].artifact = (irun[r].artifact \/ s = 1)
    BY <1>5, <2>2, <2>8, <2>9
  <2>13. doc' = [doc EXCEPT ![d] = o]
    BY <1>6, <1>7
  <2> QED BY <1>2, <1>7, <2>1, <2>6, <2>7, <2>10, <2>11, <2>12, <2>13, Zenon DEF GoesOn
<1>8. ASSUME ~(work[w].mode = "full" /\ s < canonicalize_data)
      PROVE  EndsWell(w, o)
  <2> DEFINE stat == IF whole THEN "succeeded" ELSE "blocked"
             last7 == [row EXCEPT !.status = stat]
  <2>1. /\ doc' = [doc EXCEPT ![d] = IF whole THEN [o EXCEPT !.quarantined = FALSE] ELSE o]
        /\ irun' = [irun EXCEPT ![r] = last7]
        /\ work' = [work EXCEPT ![w] = Rest]
    BY <1>6, <1>8
  <2>2. stat \in {"succeeded", "blocked"} /\ (stat = "succeeded" <=> whole)
    OBVIOUS
  <2> HIDE DEF stat
  <2>3. /\ last7 \in RunRecords /\ last7.status = stat /\ last7.of = row.of
        /\ last7.artifact = row.artifact /\ last7.stage = row.stage
    BY <1>5, <2>2 DEF RunRecords, RunStatus
  <2> HIDE DEF last7
  <2>4. irun'[r] = last7
    BY <1>1, <1>3, <2>1
  <2>5. OtherRunsKept(r)
    BY <1>1, <1>3, <1>5, <2>1, <2>3, <2>4 DEF OtherRunsKept
  <2>6. OthersKept(w) /\ work'[w] = Rest
    BY <1>1, <2>1, RestTyped DEF OthersKept
  <2>7. \A q \in processingStages :
              irun'[r].stage[q].status = IF q = s THEN "succeeded" ELSE irun[r].stage[q].status
    BY <1>5, <2>3, <2>4
  <2>8. irun'[r].status = "succeeded" =>
              work[w].mode = "full" \/ \A q \in processingStages :
                                          irun'[r].stage[q].status = "succeeded"
    BY <2>2, <2>3, <2>4 DEF Whole
  <2>9. work[w].mode = "full" => s = 7
    BY <1>3, <1>8, StagesDef
  <2>10. doc' = [doc EXCEPT ![d] = IF irun'[r].status = "succeeded"
                                   THEN [o EXCEPT !.quarantined = FALSE] ELSE o]
    BY <2>1, <2>2, <2>3, <2>4
  <2>11. irun'[r].artifact = (irun[r].artifact \/ s = 1)
    BY <1>5, <2>3, <2>4
  <2> QED BY <2>2, <2>3, <2>4, <2>5, <2>6, <2>7, <2>8, <2>9, <2>10, <2>11, Zenon DEF EndsWell
<1> QED BY <1>2, <1>3, <1>7, <1>8

LEMMA StageSucceedsKeeps ==
    ASSUME DocumentAssumption, DocInv, NEW w \in Worker, StageSucceeds(w)
    PROVE  DocInv'
<1> DEFINE r == work[w].run
           s == work[w].stage
           d == irun[r].of
<1>1. /\ irun \in [Run -> RunRecords] /\ work \in [Worker -> DocHands]
      /\ doc \in [Doc -> DocRecords]
  BY Typed DEF DocInv
<1>2. r \in Run /\ s \in processingStages /\ work[w].pc = "stage"
  BY StageSucceedsIs
<1>3. irun[r].status # "free" /\ d \in Doc
  BY <1>2 DEF DocInv, AtWorkInv, AtWork, BegunInv
<1>4. PICK o \in Results(w, s, d) : GoesOn(w, o) \/ EndsWell(w, o)
  BY StageSucceedsIs
<1>5. o \in DocRecords /\ [o EXCEPT !.quarantined = FALSE] \in DocRecords
  <2>1. o \in DocRecords
    BY <1>1, <1>2, <1>3, ResultsTyped
  <2> QED BY <2>1 DEF DocRecords
<1>6. plan' = plan /\ config' = config /\ last' = last /\ used' = used
  BY Zenon DEF StageSucceeds
<1>7. /\ OtherRunsKept(r) /\ OthersKept(w)
      /\ doc' \in [Doc -> DocRecords]
  <2>1. OtherRunsKept(r) /\ OthersKept(w)
    BY <1>4, Zenon DEF GoesOn, EndsWell
  <2>2. \E z \in DocRecords : doc' = [doc EXCEPT ![d] = z]
    BY <1>4, <1>5, Zenon DEF GoesOn, EndsWell
  <2> QED BY <1>1, <2>1, <2>2
<1>8. TypeOK'
  BY <1>6, <1>7, Typed, TypedNext DEF DocInv, OtherRunsKept, OthersKept
<1>9. irun'[r].status # "free"
  BY <1>3, <1>4, Zenon DEF GoesOn, EndsWell
<1>10. BegunInv'
  BY <1>3, <1>7 DEF DocInv, BegunInv, OtherRunsKept
<1>11. \/ work'[w] = Rest
       \/ /\ GoesOn(w, o) /\ s + 1 \in processingStages /\ s < 7
          /\ work'[w].pc = "stage" /\ work'[w].run = r /\ work'[w].stage = s + 1
  <2>1. CASE EndsWell(w, o)
    BY <2>1 DEF EndsWell
  <2>2. CASE GoesOn(w, o)
    <3>1. /\ s < 7 /\ work'[w].pc = "stage" /\ work'[w].run = r /\ work'[w].stage = s + 1
      BY <2>2 DEF GoesOn
    <3>2. s + 1 \in processingStages
      BY <1>2, <3>1, StagesDef
    <3> QED BY <2>2, <3>1, <3>2
  <2> QED BY <1>4, <2>1, <2>2
<1>12. AtWorkInv'
  <2> SUFFICES ASSUME NEW v \in Worker PROVE AtWork(v)'
    BY DEF AtWorkInv
  <2>1. CASE v = w
    BY <1>2, <1>9, <1>11, <2>1 DEF AtWork, Rest
  <2>2. CASE v # w
    <3>1. work'[v] = work[v] /\ AtWork(v)
      BY <1>7, <2>2 DEF DocInv, AtWorkInv, OthersKept
    <3> QED BY <1>7, <1>9, <3>1 DEF AtWork, OtherRunsKept
  <2> QED BY <2>1, <2>2
<1>13. FreshInv'
  <2> SUFFICES ASSUME NEW v \in Worker, work'[v].pc = "stage", work'[v].mode = "full"
               PROVE  Fresh(v)'
    BY DEF FreshInv
  <2>0. \A u \in Worker : work'[u].run \in {work[u].run, 0}
    BY <1>7, <1>11 DEF OthersKept, Rest
  <2>1. CASE v = w
    <3>1. /\ GoesOn(w, o) /\ s + 1 \in processingStages /\ s < 7
          /\ work'[w].run = r /\ work'[w].stage = s + 1
      BY <1>11, <2>1 DEF Rest
    <3>2. Fresh(w)
      BY <1>2, <3>1 DEF DocInv, FreshInv, GoesOn
    <3>3. irun'[r].status = "running" /\ ~irun'[r].lapsed
      BY <3>1, <3>2, Zenon DEF GoesOn, Fresh
    <3>4. ASSUME NEW q \in processingStages
          PROVE  /\ q < s + 1 => irun'[r].stage[q].status = "succeeded"
                 /\ q > s + 1 => irun'[r].stage[q].status = "none"
      <4>1. irun'[r].stage[q].status = IF q = s THEN "succeeded"
                                       ELSE IF q = s + 1 THEN "running"
                                       ELSE irun[r].stage[q].status
        BY <3>1 DEF GoesOn
      <4>2. /\ q < s => irun[r].stage[q].status = "succeeded"
            /\ q > s => irun[r].stage[q].status = "none"
        BY <3>2 DEF Fresh
      <4>3. q \in Int /\ s \in Int
        BY <1>2, StagesDef
      <4> QED BY <4>1, <4>2, <4>3
    <3>5. \A u \in Worker \ {w} : work'[u].run # r
      BY <1>2, <2>0, <3>2, ZeroNoRun DEF Fresh
    <3> QED BY <2>1, <3>1, <3>3, <3>4, <3>5 DEF Fresh
  <2>2. CASE v # w
    <3>1. work'[v] = work[v]
      BY <1>7, <2>2 DEF OthersKept
    <3>2. Fresh(v) /\ work[v].run \in Run /\ work[v].run # r
      BY <2>2, <3>1 DEF DocInv, FreshInv, AtWorkInv, AtWork, Fresh
    <3>3. irun'[work[v].run] = irun[work[v].run]
      BY <1>7, <3>2 DEF OtherRunsKept
    <3> QED BY <2>0, <3>1, <3>2, <3>3, ZeroNoRun DEF Fresh
  <2> QED BY <2>1, <2>2
<1>14. SucceededIsWhole'
  <2> SUFFICES ASSUME NEW q \in Run, irun'[q].status = "succeeded",
                      NEW p \in processingStages
               PROVE  irun'[q].stage[p].status = "succeeded"
    BY DEF SucceededIsWhole
  <2>1. CASE q # r
    BY <1>7, <2>1 DEF DocInv, SucceededIsWhole, OtherRunsKept
  <2>2. CASE q = r /\ GoesOn(w, o)
    BY <1>2, <2>2, Zenon DEF DocInv, FreshInv, Fresh, GoesOn
  <2>3. CASE q = r /\ EndsWell(w, o)
    <3>1. CASE work[w].mode = "full"
      <4>1. Fresh(w) /\ s = 7
        BY <1>2, <2>3, <3>1 DEF DocInv, FreshInv, EndsWell
      <4>2. p < 7 \/ p = 7
        BY StagesDef
      <4> QED BY <2>3, <4>1, <4>2, Zenon DEF Fresh, EndsWell
    <3>2. CASE work[w].mode # "full"
      BY <2>3, <3>2 DEF EndsWell
    <3> QED BY <3>1, <3>2
  <2> QED BY <1>4, <2>1, <2>2, <2>3
<1> QED BY <1>8, <1>10, <1>12, <1>13, <1>14 DEF DocInv

\* A stage fails: its run fails or is blocked, with the stages after it.
FailsWith(w) ==
    LET r == work[w].run
        s == work[w].stage
    IN  /\ OtherRunsKept(r) /\ OthersKept(w) /\ work'[w] = Rest
        /\ irun'[r].status \in {"failed", "blocked"}
        /\ irun'[r].artifact = irun[r].artifact
        /\ \A q \in processingStages :
              irun'[r].stage[q].status = IF q = s THEN "failed"
                                         ELSE IF q > s THEN "blocked"
                                         ELSE irun[r].stage[q].status

LEMMA StageFailsIs ==
    ASSUME DocInv, NEW w \in Worker, StageFails(w)
    PROVE  /\ work[w].run \in Run /\ work[w].stage \in processingStages
           /\ work[w].pc = "stage" /\ irun[work[w].run].of \in Doc
           /\ FailsWith(w)
           /\ doc' = doc \/ doc' = [doc EXCEPT ![irun[work[w].run].of] = Quarantined(@)]
           /\ plan' = plan \/ plan' = Reported(w, irun[work[w].run].of)
           /\ used' \in [mishaps : Nat, manual : Nat]
           /\ config' = config /\ last' = last
<1> DEFINE r == work[w].run
           s == work[w].stage
           d == irun[r].of
           bad == [irun[r] EXCEPT !.stage[s].status = "failed"]
           row == blockStages(bad, s)
<1>1. /\ irun \in [Run -> RunRecords] /\ work \in [Worker -> DocHands]
      /\ used \in [mishaps : Nat, manual : Nat]
  BY Typed DEF DocInv
<1>2. work[w].pc = "stage"
  BY Zenon DEF StageFails
<1>3. r \in Run /\ s \in processingStages /\ d \in Doc
  BY <1>2 DEF DocInv, AtWorkInv, AtWork, BegunInv
<1>4. irun[r] \in RunRecords
  BY <1>1, <1>3
<1>5. /\ bad \in RunRecords /\ bad.of = irun[r].of /\ bad.artifact = irun[r].artifact
      /\ \A q \in processingStages :
            bad.stage[q].status = IF q = s THEN "failed" ELSE irun[r].stage[q].status
  <2> DEFINE st == [irun[r].stage EXCEPT ![s].status = "failed"]
  <2>1. bad = [irun[r] EXCEPT !.stage = st]
    BY <1>4 DEF RunRecords
  <2>2. /\ st \in StageRows
        /\ \A q \in processingStages :
              st[q].status = IF q = s THEN "failed" ELSE irun[r].stage[q].status
    <3>1. irun[r].stage \in StageRows
      BY <1>4, Zenon DEF RunRecords
    <3> QED BY <1>3, <3>1 DEF StageRows, StageStatus
  <2> HIDE DEF st
  <2>3. bad.stage = st /\ bad.of = irun[r].of /\ bad.artifact = irun[r].artifact
    BY <1>4, <2>1, Zenon DEF RunRecords
  <2>4. bad \in RunRecords
    BY <1>4, <2>1, <2>2, Zenon DEF RunRecords
  <2> QED BY <2>2, <2>3, <2>4, Zenon
<1> HIDE DEF bad
<1>6. /\ row \in RunRecords /\ row.of = irun[r].of /\ row.artifact = irun[r].artifact
      /\ \A q \in processingStages :
            row.stage[q].status = IF q = s THEN "failed"
                                  ELSE IF q > s THEN "blocked" ELSE irun[r].stage[q].status
  <2>1. \A q \in processingStages : q = s => ~(q > s)
    BY <1>3, StagesDef
  <2> QED BY <1>3, <1>5, <2>1, BlockTyped
<1>7. /\ \E st \in {"failed", "blocked"} : irun' = [irun EXCEPT ![r] = [row EXCEPT !.status = st]]
      /\ doc' = doc \/ doc' = [doc EXCEPT ![d] = Quarantined(@)]
      /\ plan' = plan \/ plan' = Reported(w, d)
      /\ used' = used \/ used' = [used EXCEPT !.mishaps = @ + 1]
      /\ work' = [work EXCEPT ![w] = Rest]
      /\ config' = config /\ last' = last
  BY Zenon DEF StageFails, bad
<1> HIDE DEF row
<1>8. PICK st \in {"failed", "blocked"} : irun' = [irun EXCEPT ![r] = [row EXCEPT !.status = st]]
  BY <1>7
<1>9. /\ [row EXCEPT !.status = st] \in RunRecords
      /\ [row EXCEPT !.status = st].status = st
      /\ [row EXCEPT !.status = st].of = row.of
      /\ [row EXCEPT !.status = st].artifact = row.artifact
      /\ [row EXCEPT !.status = st].stage = row.stage
  BY <1>6 DEF RunRecords, RunStatus
<1>10. irun'[r] = [row EXCEPT !.status = st]
  BY <1>1, <1>3, <1>8
<1>11. OtherRunsKept(r)
  BY <1>1, <1>3, <1>6, <1>8, <1>9, <1>10 DEF OtherRunsKept
<1>12. OthersKept(w) /\ work'[w] = Rest
  BY <1>1, <1>7, RestTyped DEF OthersKept
<1>13. FailsWith(w)
  BY <1>6, <1>9, <1>10, <1>11, <1>12 DEF FailsWith
<1>14. used' \in [mishaps : Nat, manual : Nat]
  BY <1>1, <1>7
<1> QED BY <1>2, <1>3, <1>7, <1>13, <1>14

LEMMA StageFailsKeeps ==
    ASSUME DocInv, NEW w \in Worker, StageFails(w)
    PROVE  DocInv'
<1> DEFINE r == work[w].run
           d == irun[r].of
<1>1. /\ irun \in [Run -> RunRecords] /\ work \in [Worker -> DocHands]
      /\ doc \in [Doc -> DocRecords] /\ plan \in [Timer -> Plans]
  BY Typed DEF DocInv
<1>2. /\ r \in Run /\ work[w].pc = "stage" /\ d \in Doc
      /\ OtherRunsKept(r) /\ OthersKept(w) /\ work'[w] = Rest
      /\ irun'[r].status \in {"failed", "blocked"}
  BY StageFailsIs DEF FailsWith
<1>3. doc' \in [Doc -> DocRecords]
  <2>1. Quarantined(doc[d]) \in DocRecords
    <3>1. doc[d] \in DocRecords
      BY <1>1, <1>2
    <3> QED BY <3>1, Zenon DEF Quarantined, DocRecords, ArtifactStatus, PublicationStatus
  <2>2. doc' = doc \/ doc' = [doc EXCEPT ![d] = Quarantined(@)]
    BY StageFailsIs
  <2> QED BY <1>1, <1>2, <2>1, <2>2
<1>4. plan' \in [Timer -> Plans]
  BY <1>1, <1>2, StageFailsIs, ReportedTyped
<1>5. TypeOK'
  BY <1>2, <1>3, <1>4, Typed, TypedNext, StageFailsIs DEF DocInv, OtherRunsKept, OthersKept
<1>6. BegunInv'
  BY <1>2 DEF DocInv, BegunInv, OtherRunsKept
<1>7. AtWorkInv'
  <2> SUFFICES ASSUME NEW v \in Worker PROVE AtWork(v)'
    BY DEF AtWorkInv
  <2>1. CASE v = w
    BY <1>2, <2>1 DEF AtWork, Rest
  <2>2. CASE v # w
    <3>1. work'[v] = work[v] /\ AtWork(v)
      BY <1>2, <2>2 DEF DocInv, AtWorkInv, OthersKept
    <3> QED BY <1>2, <3>1 DEF AtWork, OtherRunsKept
  <2> QED BY <2>1, <2>2
<1>8. FreshInv'
  <2> SUFFICES ASSUME NEW v \in Worker, work'[v].pc = "stage", work'[v].mode = "full"
               PROVE  Fresh(v)'
    BY DEF FreshInv
  <2>1. v # w
    BY <1>2 DEF Rest
  <2>2. work'[v] = work[v]
    BY <1>2, <2>1 DEF OthersKept
  <2>3. Fresh(v) /\ work[v].run \in Run /\ work[v].run # r
    BY <2>1, <2>2 DEF DocInv, FreshInv, AtWorkInv, AtWork, Fresh
  <2>4. irun'[work[v].run] = irun[work[v].run]
    BY <1>2, <2>3 DEF OtherRunsKept
  <2>5. \A u \in Worker : work'[u].run \in {work[u].run, 0}
    BY <1>2 DEF OthersKept, Rest
  <2> QED BY <2>2, <2>3, <2>4, <2>5, ZeroNoRun DEF Fresh
<1>9. SucceededIsWhole'
  BY <1>2 DEF DocInv, SucceededIsWhole, OtherRunsKept
<1> QED BY <1>5, <1>6, <1>7, <1>8, <1>9 DEF DocInv

\* A step that leaves documents' runs and hands alone, and what was written of them typed.
LEMMA QuietKeeps ==
    ASSUME DocInv, irun' = irun, work' = work, last' = last,
           doc' \in [Doc -> DocRecords], plan' \in [Timer -> Plans], config' \in BOOLEAN,
           used' \in [mishaps : Nat, manual : Nat]
    PROVE  DocInv'
<1>1. TypeOK'
  BY Typed, TypedNext DEF DocInv
<1>2. AtWorkInv'
  BY DEF DocInv, AtWorkInv, AtWork
<1>3. FreshInv'
  BY DEF DocInv, FreshInv, Fresh
<1> QED BY <1>1, <1>2, <1>3 DEF DocInv, BegunInv, SucceededIsWhole

LEMMA StopKeeps ==
    ASSUME DocumentAssumption, DocInv, NEW w \in Worker, Stop(w)
    PROVE  DocInv'
<1>1. /\ irun \in [Run -> RunRecords] /\ work \in [Worker -> DocHands]
      /\ plan \in [Timer -> Plans] /\ used \in [mishaps : Nat, manual : Nat]
  BY Typed DEF DocInv
<1>2. irun' = irun /\ doc' = doc /\ config' = config /\ last' = last
  BY DEF Stop
<1>3. /\ work' \in [Worker -> DocHands] /\ work'[w] = Rest
      /\ \A v \in Worker \ {w} : work'[v] = work[v]
  BY <1>1, RestTyped DEF Stop
<1>4. plan' \in [Timer -> Plans]
  BY <1>1, BetweenTyped DEF Stop
<1>5. used' \in [mishaps : Nat, manual : Nat]
  BY <1>1 DEF Stop
<1>6. TypeOK'
  BY <1>2, <1>3, <1>4, <1>5, Typed, TypedNext DEF DocInv
<1>7. AtWorkInv'
  <2> SUFFICES ASSUME NEW v \in Worker PROVE AtWork(v)'
    BY DEF AtWorkInv
  <2>1. CASE v = w
    BY <1>3, <2>1 DEF AtWork, Rest
  <2>2. CASE v # w
    BY <1>2, <1>3, <2>2 DEF DocInv, AtWorkInv, AtWork
  <2> QED BY <2>1, <2>2
<1>8. FreshInv'
  <2> SUFFICES ASSUME NEW v \in Worker, work'[v].pc = "stage", work'[v].mode = "full"
               PROVE  Fresh(v)'
    BY DEF FreshInv
  <2>1. v # w
    BY <1>3 DEF Rest
  <2>2. work'[v] = work[v]
    BY <1>3, <2>1
  <2>3. Fresh(v) /\ work[v].run \in Run
    BY <2>1, <2>2 DEF DocInv, FreshInv, AtWorkInv, AtWork
  <2>4. \A u \in Worker : work'[u].run \in {work[u].run, 0}
    BY <1>3 DEF Rest
  <2> QED BY <1>2, <2>2, <2>3, <2>4, ZeroNoRun DEF Fresh
<1> QED BY <1>2, <1>6, <1>7, <1>8 DEF DocInv, BegunInv, SucceededIsWhole

LEMMA LeaseLapsesKeeps ==
    ASSUME DocInv, NEW r \in Run, LeaseLapses(r)
    PROVE  DocInv'
<1>1. irun \in [Run -> RunRecords] /\ work \in [Worker -> DocHands]
  BY Typed DEF DocInv
<1>2. /\ doc' = doc /\ work' = work /\ plan' = plan /\ config' = config /\ last' = last
      /\ used' = used /\ irun' = [irun EXCEPT ![r].lapsed = TRUE]
      /\ \A w \in Worker : work[w].run # r
  BY DEF LeaseLapses
<1>3. /\ irun' \in [Run -> RunRecords]
      /\ \A q \in Run : /\ irun'[q].status = irun[q].status /\ irun'[q].of = irun[q].of
                        /\ irun'[q].stage = irun[q].stage
                        /\ q # r => irun'[q] = irun[q]
  BY <1>1, <1>2, Zenon DEF RunRecords
<1>4. TypeOK'
  BY <1>2, <1>3, Typed, TypedNext DEF DocInv
<1>5. AtWorkInv'
  BY <1>2, <1>3 DEF DocInv, AtWorkInv, AtWork
<1>6. FreshInv'
  <2> SUFFICES ASSUME NEW v \in Worker, work[v].pc = "stage", work[v].mode = "full"
               PROVE  Fresh(v)'
    BY <1>2 DEF FreshInv
  <2>1. Fresh(v) /\ work[v].run \in Run
    BY DEF DocInv, FreshInv, AtWorkInv, AtWork
  <2> QED BY <1>2, <1>3, <2>1 DEF Fresh
<1> QED BY <1>3, <1>4, <1>5, <1>6 DEF DocInv, BegunInv, SucceededIsWhole

LEMMA BeginCycleKeeps ==
    ASSUME DocumentAssumption, DocInv, NEW t \in Timer, BeginCycle(t) \/ CycleFails(t)
    PROVE  DocInv'
<1>1. /\ doc \in [Doc -> DocRecords] /\ plan \in [Timer -> Plans] /\ config \in BOOLEAN
      /\ used \in [mishaps : Nat, manual : Nat] /\ work \in [Worker -> DocHands]
      /\ last \in [Doc -> [run : Run \cup {0}, alone : BOOLEAN]]
  BY Typed DEF DocInv
<1>2. irun' = ExpireLapsed(irun) /\ work' = work /\ last' = last /\ config' = config
  BY DEF BeginCycle, CycleFails
<1>3. /\ irun' \in [Run -> RunRecords]
      /\ BegunInv' /\ AtWorkInv' /\ FreshInv' /\ SucceededIsWhole'
  BY <1>2, ExpireKeeps
<1>4. CASE CycleFails(t)
  <2>1. doc' = doc /\ plan' = plan /\ used' = used
    BY <1>4 DEF CycleFails
  <2> QED BY <1>1, <1>2, <1>3, <2>1, TypedNext DEF DocInv
<1>5. CASE BeginCycle(t)
  <2>1. PICK found \in SUBSET (Doc \ Archived) :
           /\ doc' = [d \in Doc |-> IF d \in found
                                    THEN [doc[d] EXCEPT !.publication = "archived"] ELSE doc[d]]
           /\ plan' = [plan EXCEPT ![t] = [Between EXCEPT !.phase = "new", !.docs = found,
                                                          !.bundle = config]]
    BY <1>5 DEF BeginCycle
  <2>2. doc' \in [Doc -> DocRecords]
    <3>1. \A d \in Doc : [doc[d] EXCEPT !.publication = "archived"] \in DocRecords
      <4> TAKE d \in Doc
      <4>1. doc[d] \in DocRecords
        BY <1>1
      <4> QED BY <4>1 DEF DocRecords, PublicationStatus
    <3> QED BY <1>1, <2>1, <3>1
  <2>3. plan' \in [Timer -> Plans]
    <3>1. [Between EXCEPT !.phase = "new", !.docs = found, !.bundle = config] \in Plans
      BY <1>1, BetweenTyped DEF Plans
    <3> QED BY <1>1, <2>1, <3>1
  <2>4. used' \in [mishaps : Nat, manual : Nat]
    <3>1. used' = used \/ used' = [used EXCEPT !.mishaps = @ + 1]
      BY <1>1, <1>5 DEF BeginCycle
    <3> QED BY <1>1, <3>1
  <2> QED BY <1>1, <1>2, <1>3, <2>2, <2>3, <2>4, TypedNext DEF DocInv
<1> QED BY <1>4, <1>5

LEMMA NextDocumentKeeps ==
    ASSUME DocumentAssumption, DocInv, NEW t \in Timer, NextDocument(t)
    PROVE  DocInv'
<1>1. /\ doc \in [Doc -> DocRecords] /\ plan \in [Timer -> Plans] /\ config \in BOOLEAN
      /\ used \in [mishaps : Nat, manual : Nat]
  BY Typed DEF DocInv
<1>2. PICK d \in plan[t].docs :
         /\ StartFull(t, d, plan[t].bundle)
         /\ plan' = [plan EXCEPT ![t].docs = @ \ {d}]
  BY DEF NextDocument
<1>3. d \in Doc /\ plan[t].bundle \in BOOLEAN /\ t \in Worker
  BY <1>1 DEF Plans, Worker
<1>4. doc' = doc /\ config' = config /\ used' = used
  BY DEF NextDocument
<1>5. plan' \in [Timer -> Plans]
  <2>1. plan[t] \in Plans
    BY <1>1
  <2>2. [plan[t] EXCEPT !.docs = @ \ {d}] \in Plans
    BY <2>1 DEF Plans
  <2> QED BY <1>1, <1>2, <2>2
<1> QED BY <1>1, <1>2, <1>3, <1>4, <1>5, StartFullKeeps, TypedNext DEF DocInv

\* A set of stages has a first.
LEMMA FirstStage ==
    ASSUME NEW S, S \subseteq processingStages, S # {}
    PROVE  \E s \in S : \A q \in S : s <= q
<1>1. S \subseteq 1..7
  BY StagesDef
<1>2. CASE 1 \in S
  BY <1>1, <1>2
<1>3. CASE 1 \notin S /\ 2 \in S
  BY <1>1, <1>3
<1>4. CASE S \cap {1, 2} = {} /\ 3 \in S
  BY <1>1, <1>4
<1>5. CASE S \cap {1, 2, 3} = {} /\ 4 \in S
  BY <1>1, <1>5
<1>6. CASE S \cap {1, 2, 3, 4} = {} /\ 5 \in S
  BY <1>1, <1>6
<1>7. CASE S \cap {1, 2, 3, 4, 5} = {} /\ 6 \in S
  BY <1>1, <1>7
<1>8. CASE S \cap {1, 2, 3, 4, 5, 6} = {}
  <2>1. \A q \in S : q = 7
    BY <1>1, <1>8
  <2> QED BY <2>1
<1> QED BY <1>2, <1>3, <1>4, <1>5, <1>6, <1>7, <1>8

\* The next stage of a candidate is checked, or the candidate is done with.
LEMMA RetryCandidateIs ==
    ASSUME DocInv, NEW t \in Timer, RetryCandidate(t)
    PROVE  /\ t \in Worker /\ work[t].pc = "idle" /\ plan[t].phase = "recover"
           /\ irun' = irun /\ doc' = doc /\ last' = last /\ config' = config /\ used' = used
           /\ plan' \in [Timer -> Plans]
           /\ \A v \in Timer : plan'[v].phase = plan[v].phase /\ plan'[v].bundle = plan[v].bundle
           /\ \/ work' = work
              \/ \E r \in Run, s \in processingStages : CheckRetry(t, r, s, plan[t].bundle)
<1> DEFINE r == plan[t].candidate[1]
           open7 == {s \in plan[t].candidate[2]..canonicalize_data :
                       irun[r].stage[s].status # "succeeded"}
           next == CHOOSE s \in open7 : \A q \in open7 : s <= q
<1>1. plan \in [Timer -> Plans]
  BY Typed DEF DocInv
<1>2. /\ plan[t].phase = "recover" /\ work[t].pc = "idle" /\ plan[t].candidate # <<0, 0>>
      /\ irun' = irun /\ doc' = doc /\ last' = last /\ config' = config /\ used' = used
  BY Zenon DEF RetryCandidate
<1>3. plan[t] \in Plans /\ t \in Worker
  BY <1>1 DEF Worker
<1>4. r \in Run /\ plan[t].candidate[2] \in 1..8
  <2>1. plan[t].candidate \in Run \X (1..(canonicalize_data + 1))
    BY <1>2, <1>3 DEF Plans
  <2> QED BY <2>1, StagesDef
<1>5. open7 \subseteq processingStages
  BY <1>4, StagesDef
<1>6. [plan[t] EXCEPT !.candidate = <<0, 0>>] \in Plans
  BY <1>3 DEF Plans
<1>7. CASE open7 # {} /\ CanRetry(r, next)
  <2>1. next \in open7
    BY <1>5, <1>7, FirstStage, Zenon
  <2>2. next \in processingStages
    BY <1>5, <2>1, Zenon
  <2>3. /\ CheckRetry(t, r, next, plan[t].bundle)
        /\ plan' = [plan EXCEPT ![t].candidate = <<r, next + 1>>]
    BY <1>7, Zenon DEF RetryCandidate
  <2> HIDE DEF next, open7
  <2>4. <<r, next + 1>> \in Run \X (1..(canonicalize_data + 1))
    <3>1. next + 1 \in 1..(canonicalize_data + 1)
      BY <2>2, StagesDef
    <3> QED BY <1>4, <3>1
  <2>5. [plan[t] EXCEPT !.candidate = <<r, next + 1>>] \in Plans
    BY <1>3, <2>4 DEF Plans
  <2>6. plan' = [plan EXCEPT ![t] = [plan[t] EXCEPT !.candidate = <<r, next + 1>>]]
    BY <1>1, <2>3
  <2>7. \A v \in Timer : plan'[v].phase = plan[v].phase /\ plan'[v].bundle = plan[v].bundle
    BY <1>1, <1>3, <2>6 DEF Plans
  <2> QED BY <1>1, <1>2, <1>3, <1>4, <2>2, <2>3, <2>5, <2>6, <2>7
<1>8. CASE ~(open7 # {} /\ CanRetry(r, next))
  <2>1. plan' = [plan EXCEPT ![t].candidate = <<0, 0>>] /\ work' = work
    BY <1>8, Zenon DEF RetryCandidate
  <2>2. plan' = [plan EXCEPT ![t] = [plan[t] EXCEPT !.candidate = <<0, 0>>]]
    BY <1>1, <2>1
  <2>3. \A v \in Timer : plan'[v].phase = plan[v].phase /\ plan'[v].bundle = plan[v].bundle
    BY <1>1, <1>3, <2>2 DEF Plans
  <2> QED BY <1>1, <1>2, <1>3, <1>6, <2>1, <2>2, <2>3
<1> QED BY <1>7, <1>8, Zenon

LEMMA RetryCandidateKeeps ==
    ASSUME DocumentAssumption, DocInv, NEW t \in Timer, RetryCandidate(t)
    PROVE  DocInv'
<1>1. /\ t \in Worker /\ work[t].pc = "idle" /\ plan' \in [Timer -> Plans]
      /\ irun' = irun /\ doc' = doc /\ last' = last /\ config' = config /\ used' = used
  BY RetryCandidateIs
<1>2. /\ plan \in [Timer -> Plans] /\ doc \in [Doc -> DocRecords] /\ config \in BOOLEAN
      /\ irun \in [Run -> RunRecords] /\ used \in [mishaps : Nat, manual : Nat]
      /\ last \in [Doc -> [run : Run \cup {0}, alone : BOOLEAN]]
  BY Typed DEF DocInv
<1>3. CASE work' = work
  BY <1>1, <1>2, <1>3, QuietKeeps
<1>4. ASSUME NEW r \in Run, NEW s \in processingStages, CheckRetry(t, r, s, plan[t].bundle)
      PROVE  DocInv'
  <2>1. plan[t].bundle \in BOOLEAN
    BY <1>2 DEF Plans
  <2>2. /\ work' \in [Worker -> DocHands]
        /\ BegunInv' /\ AtWorkInv' /\ FreshInv' /\ SucceededIsWhole'
    BY <1>1, <1>4, <2>1, CheckRetryKeeps
  <2> QED BY <1>1, <1>2, <2>2, TypedNext DEF DocInv
<1> QED BY <1>3, <1>4, RetryCandidateIs

\* The other steps of a timer only plan.
Planning(t) == ListFailed(t) \/ NextCandidate(t) \/ ListPending(t) \/ NextRound(t)

LEMMA PlanningIs ==
    ASSUME DocumentAssumption, DocInv, NEW t \in Timer, Planning(t)
    PROVE  /\ irun' = irun /\ work' = work /\ last' = last /\ doc' = doc /\ config' = config
           /\ used' = used /\ plan' \in [Timer -> Plans]
           /\ plan[t].phase # "idle"
           /\ \A v \in Timer : \/ plan'[v].phase # "idle" /\ plan[v].phase # "idle"
                                  /\ plan'[v].bundle = plan[v].bundle
                               \/ plan'[v] = plan[v] \/ plan'[v] = Between
<1>1. plan \in [Timer -> Plans]
  BY Typed DEF DocInv
<1>2. /\ irun' = irun /\ work' = work /\ last' = last /\ doc' = doc /\ config' = config
      /\ used' = used
  BY Zenon DEF Planning, ListFailed, NextCandidate, ListPending, NextRound
<1>3. plan[t] \in Plans
  BY <1>1
<1>4. plan[t].phase \in {"new", "recover", "sweep"}
  BY Zenon DEF Planning, ListFailed, NextCandidate, ListPending, NextRound
<1>5. ASSUME NEW p \in Plans, plan' = [plan EXCEPT ![t] = p],
             p = Between \/ (p.phase # "idle" /\ p.bundle = plan[t].bundle)
      PROVE  /\ plan' \in [Timer -> Plans]
             /\ \A v \in Timer : \/ plan'[v].phase # "idle" /\ plan[v].phase # "idle"
                                    /\ plan'[v].bundle = plan[v].bundle
                                 \/ plan'[v] = plan[v] \/ plan'[v] = Between
  BY <1>1, <1>4, <1>5
<1>6. CASE ListFailed(t)
  <2> DEFINE failed == {c \in Run \X recoverableStages :
                          /\ irun[c[1]].status = "failed"
                          /\ irun[c[1]].stage[c[2]].status = "failed"
                          /\ irun[c[1]].stage[c[2]].attempts < MaxAttempts}
             p == [plan[t] EXCEPT !.phase = "recover", !.runs = failed]
  <2>1. failed \in SUBSET (Run \X processingStages)
    BY StagesDef DEF recoverableStages, extract_data
  <2>2. plan' = [plan EXCEPT ![t].phase = "recover", ![t].runs = failed]
    BY <1>6 DEF ListFailed
  <2> HIDE DEF failed
  <2>3. plan' = [plan EXCEPT ![t] = p]
    BY <1>1, <2>2
  <2>4. p \in Plans /\ p.phase = "recover" /\ p.bundle = plan[t].bundle
    BY <1>3, <2>1 DEF Plans
  <2> QED BY <1>2, <1>4, <1>5, <2>3, <2>4
<1>7. CASE NextCandidate(t)
  <2>1. PICK c \in plan[t].runs :
           plan' = [plan EXCEPT ![t].runs = @ \ {c},
                                ![t].candidate = IF CanRetry(c[1], c[2]) THEN c ELSE <<0, 0>>]
    BY <1>7 DEF NextCandidate
  <2> DEFINE cand == IF CanRetry(c[1], c[2]) THEN c ELSE <<0, 0>>
             p == [plan[t] EXCEPT !.runs = @ \ {c}, !.candidate = cand]
  <2>2. cand \in (Run \X (1..(canonicalize_data + 1))) \cup {<<0, 0>>}
    <3>1. c \in Run \X processingStages
      BY <1>3 DEF Plans
    <3>2. c \in Run \X (1..(canonicalize_data + 1))
      BY <3>1, StagesDef
    <3> QED BY <3>2
  <2>3. plan' = [plan EXCEPT ![t].runs = @ \ {c}, ![t].candidate = cand]
    BY <2>1
  <2> HIDE DEF cand
  <2>4. plan' = [plan EXCEPT ![t] = p]
    BY <1>1, <2>3
  <2>5. p \in Plans /\ p.phase = plan[t].phase /\ p.bundle = plan[t].bundle
    BY <1>3, <2>2 DEF Plans
  <2> QED BY <1>2, <1>4, <1>5, <2>4, <2>5
<1>8. CASE ListPending(t)
  <2> DEFINE p == [plan[t] EXCEPT !.phase = "sweep", !.docs = Pending, !.round = 1]
  <2>1. Pending \in SUBSET Doc
    BY DEF Pending, Archived
  <2>2. plan' = [plan EXCEPT ![t] = p]
    BY <1>1, <1>8 DEF ListPending
  <2>3. 1 \in 0..Rounds
    BY DEF DocumentAssumption
  <2>4. p \in Plans /\ p.phase = "sweep" /\ p.bundle = plan[t].bundle
    BY <1>3, <2>1, <2>3 DEF Plans
  <2> QED BY <1>2, <1>4, <1>5, <2>2, <2>4
<1>9. CASE NextRound(t)
  <2>1. CASE plan[t].round < Rounds /\ plan[t].failed # {}
    <3> DEFINE p == [plan[t] EXCEPT !.docs = plan[t].failed, !.failed = {}, !.round = @ + 1]
    <3>1. plan' = [plan EXCEPT ![t].docs = plan[t].failed, ![t].failed = {}, ![t].round = @ + 1]
      BY <1>9, <2>1 DEF NextRound
    <3>2. plan' = [plan EXCEPT ![t] = p]
      BY <1>1, <3>1
    <3>3. plan[t].round + 1 \in 0..Rounds
      BY <1>3, <2>1 DEF Plans, DocumentAssumption
    <3>4. p \in Plans /\ p.phase = plan[t].phase /\ p.bundle = plan[t].bundle
      BY <1>3, <3>3 DEF Plans
    <3> QED BY <1>2, <1>4, <1>5, <3>2, <3>4
  <2>2. CASE ~(plan[t].round < Rounds /\ plan[t].failed # {})
    <3>1. plan' = [plan EXCEPT ![t] = Between]
      BY <1>9, <2>2 DEF NextRound
    <3> QED BY <1>2, <1>4, <1>5, <3>1, BetweenTyped
  <2> QED BY <2>1, <2>2
<1> QED BY <1>6, <1>7, <1>8, <1>9 DEF Planning

LEMMA RerunKeeps ==
    ASSUME DocumentAssumption, DocInv, NEW o \in Operator, Rerun(o)
    PROVE  DocInv'
<1>1. /\ doc \in [Doc -> DocRecords] /\ plan \in [Timer -> Plans] /\ config \in BOOLEAN
      /\ used \in [mishaps : Nat, manual : Nat]
  BY Typed DEF DocInv
<1>2. PICK d \in Doc : StartFull(o, d, config)
  BY DEF Rerun
<1>3. used' \in [mishaps : Nat, manual : Nat] /\ doc' = doc /\ plan' = plan /\ config' = config
  BY <1>1 DEF Rerun
<1>4. o \in Worker
  BY DEF Worker
<1> QED BY <1>1, <1>2, <1>3, <1>4, StartFullKeeps, TypedNext DEF DocInv

LEMMA RetryStageKeeps ==
    ASSUME DocumentAssumption, DocInv, NEW o \in Operator, RetryStage(o)
    PROVE  DocInv'
<1>1. /\ doc \in [Doc -> DocRecords] /\ plan \in [Timer -> Plans] /\ config \in BOOLEAN
      /\ irun \in [Run -> RunRecords] /\ used \in [mishaps : Nat, manual : Nat]
      /\ last \in [Doc -> [run : Run \cup {0}, alone : BOOLEAN]]
  BY Typed DEF DocInv
<1>2. PICK r \in Run, s \in processingStages : CheckRetry(o, r, s, config)
  BY DEF RetryStage
<1>3. /\ used' \in [mishaps : Nat, manual : Nat] /\ doc' = doc /\ plan' = plan
      /\ config' = config /\ irun' = irun /\ last' = last /\ work[o].pc = "idle"
  BY <1>1 DEF RetryStage
<1>4. o \in Worker
  BY DEF Worker
<1>5. /\ work' \in [Worker -> DocHands]
      /\ BegunInv' /\ AtWorkInv' /\ FreshInv' /\ SucceededIsWhole'
  BY <1>1, <1>2, <1>3, <1>4, CheckRetryKeeps
<1> QED BY <1>1, <1>3, <1>5, TypedNext DEF DocInv

LEMMA ReviewKeeps ==
    ASSUME DocInv, Review \/ Configure
    PROVE  DocInv'
<1>1. /\ doc \in [Doc -> DocRecords] /\ plan \in [Timer -> Plans] /\ config \in BOOLEAN
      /\ used \in [mishaps : Nat, manual : Nat]
  BY Typed DEF DocInv
<1>2. CASE Review
  <2>1. PICK d \in Archived :
           doc' = [doc EXCEPT ![d].quarantined = FALSE, ![d].open = {},
                    ![d].publication = "reviewed", ![d].artifact = IF @ \in {"quarantined", "fetched", "parsed"}
                                    THEN "reviewed" ELSE @]
    BY <1>2 DEF Review
  <2>2. d \in Doc /\ doc[d] \in DocRecords
    BY <1>1 DEF Archived
  <2> DEFINE a == IF doc[d].artifact \in {"quarantined", "fetched", "parsed"}
                  THEN "reviewed" ELSE doc[d].artifact
             o == [doc[d] EXCEPT !.quarantined = FALSE, !.open = {},
                                 !.publication = "reviewed", !.artifact = a]
  <2>3. doc' = [doc EXCEPT ![d] = o]
    BY <1>1, <2>1, <2>2 DEF DocRecords
  <2>4. a \in ArtifactStatus
    BY <2>2 DEF DocRecords, ArtifactStatus
  <2> HIDE DEF a
  <2>5. o \in DocRecords
    BY <2>2, <2>4 DEF DocRecords, PublicationStatus
  <2>6. doc' \in [Doc -> DocRecords]
    BY <1>1, <2>3, <2>5
  <2>7. used' \in [mishaps : Nat, manual : Nat]
    <3>1. used' = [used EXCEPT !.manual = @ + 1]
      BY <1>2 DEF Review
    <3> QED BY <1>1, <3>1
  <2>8. irun' = irun /\ work' = work /\ last' = last /\ plan' = plan /\ config' = config
    BY <1>2 DEF Review
  <2> QED BY <1>1, <2>6, <2>7, <2>8, QuietKeeps
<1>3. CASE Configure
  BY <1>1, <1>3, QuietKeeps DEF Configure
<1> QED BY <1>2, <1>3

-----------------------------------------------------------------------------
(* Types, and runs that succeed.                                           *)

LEMMA DocInvInit == ASSUME DocumentAssumption, Init PROVE DocInv
<1>1. doc \in [Doc -> DocRecords]
  BY DEF Init, NewDoc, DocRecords, RowStatus, ArtifactStatus, PublicationStatus
<1>2. irun \in [Run -> RunRecords]
  BY NoRunTyped DEF Init
<1>3. work \in [Worker -> DocHands]
  BY RestTyped DEF Init
<1>4. plan \in [Timer -> Plans]
  BY BetweenTyped DEF Init
<1>5. TypeOK
  BY <1>1, <1>2, <1>3, <1>4, Typed DEF Init
<1>6. \A r \in Run : irun[r].status = "free"
  BY DEF Init, NoRun
<1>7. \A w \in Worker : work[w].pc = "idle" /\ work[w].run = 0
  BY DEF Init, Rest
<1> QED BY <1>5, <1>6, <1>7 DEF DocInv, BegunInv, AtWorkInv, AtWork, FreshInv, SucceededIsWhole

LEMMA DocInvNext == ASSUME DocumentAssumption, DocInv, [Next]_vars PROVE DocInv'
<1>1. CASE UNCHANGED vars
  BY <1>1, Typed, QuietKeeps DEF vars, DocInv
<1>2. ASSUME NEW t \in Timer, BeginCycle(t) \/ CycleFails(t) PROVE DocInv'
  BY <1>2, BeginCycleKeeps
<1>3. ASSUME NEW t \in Timer, NextDocument(t) PROVE DocInv'
  BY <1>3, NextDocumentKeeps
<1>4. ASSUME NEW t \in Timer, Planning(t) PROVE DocInv'
  <2>1. /\ irun' = irun /\ work' = work /\ last' = last /\ doc' = doc /\ config' = config
        /\ used' = used /\ plan' \in [Timer -> Plans]
    BY <1>4, PlanningIs
  <2> QED BY <2>1, Typed, QuietKeeps DEF DocInv
<1>5. ASSUME NEW t \in Timer, RetryCandidate(t) PROVE DocInv'
  BY <1>5, RetryCandidateKeeps
<1>6. ASSUME NEW w \in Worker, BeginRetry(w) PROVE DocInv'
  BY <1>6, BeginRetryKeeps
<1>7. ASSUME NEW w \in Worker, StageSucceeds(w) PROVE DocInv'
  BY <1>7, StageSucceedsKeeps
<1>8. ASSUME NEW w \in Worker, StageFails(w) PROVE DocInv'
  BY <1>8, StageFailsKeeps
<1>9. ASSUME NEW w \in Worker, Stop(w) PROVE DocInv'
  BY <1>9, StopKeeps
<1>10. ASSUME NEW o \in Operator, Rerun(o) PROVE DocInv'
  BY <1>10, RerunKeeps
<1>11. ASSUME NEW o \in Operator, RetryStage(o) PROVE DocInv'
  BY <1>11, RetryStageKeeps
<1>12. ASSUME NEW r \in Run, LeaseLapses(r) PROVE DocInv'
  BY <1>12, LeaseLapsesKeeps
<1>13. CASE Review \/ Configure
  BY <1>13, ReviewKeeps
<1> QED BY <1>1, <1>2, <1>3, <1>4, <1>5, <1>6, <1>7, <1>8, <1>9, <1>10, <1>11, <1>12, <1>13
        DEF Next, TimerStep, WorkStep, Planning

LEMMA DocInvAlways == Spec => []DocInv
<1>1. Init => DocInv
  BY DocInvInit, DocumentAssumption
<1>2. DocInv /\ [Next]_vars => DocInv'
  BY DocInvNext, DocumentAssumption
<1> QED BY <1>1, <1>2, PTL DEF Spec

\* Documents, runs with their stages, processes and timers stay well typed.
THEOREM DocumentsTypeCorrect == Spec => []TypeOK
<1>1. DocInv => TypeOK
  BY DEF DocInv
<1> QED BY <1>1, DocInvAlways, PTL

\* A run succeeds only as a whole, however its stages were retried and by whom, also by
\* several at once (completeProcessingRun, the incomplete check of retryProcessingStage).
THEOREM RunsEndWhole == Spec => []SucceededIsWhole
<1>1. DocInv => SucceededIsWhole
  BY DEF DocInv
<1> QED BY <1>1, DocInvAlways, PTL

-----------------------------------------------------------------------------
(* What a succeeded run leaves, while nobody starts work on a document      *)
(* another works on.                                                       *)

\* The rows that count.
LiveOf(o) == {x \in Row : o.rows[x] \notin {"none", "stale"}}

Newest(d, r) == irun[r].of = d /\ \A q \in Run : irun[q].of = d => q <= r

Succeeded(r, s) == irun[r].stage[s].status = "succeeded"

\* Runs are begun in order.
InOrder ==
    /\ \A r \in Run : irun[r].status = "free" => irun[r] = NoRun
    /\ \A q, r \in Run : q < r /\ irun[r].status # "free" => irun[q].status # "free"

\* A retry has its input, and has made away with what depends on it.
RetryReady(w, r, s, d) ==
    /\ s > 1 => irun[r].artifact
    /\ s \in {5, 6} => LiveOf(doc[d]) # {}
    /\ s = 7 => doc[d].assessment # "none" /\ Succeeded(r, 6)
    /\ work[w].pc = "stage" =>
          /\ s \in {2, 3, 4, 6} => doc[d].assessment = "none"
          /\ \A q \in processingStages : q > s => irun[r].stage[q].status = "blocked"

\* A run executed afresh is the newest; from its fifth stage on it has rows.
FullReady(r, s, d) ==
    /\ Newest(d, r)
    /\ s \in {5, 6, 7} => LiveOf(doc[d]) # {}
    /\ s = 7 => doc[d].assessment # "none"

\* A process has its document to itself, and once it has begun its run is alive and the last.
HandReady(w) ==
    LET r == work[w].run
        s == work[w].stage
        d == irun[r].of
    IN  /\ work[w].bundle = config
        /\ work[w].mode \in {"full", "retry"}
        /\ \A v \in Worker \ {w} : work[v].pc # "idle" => irun[work[v].run].of # d
        /\ work[w].pc = "stage" =>
              last[d].run = r /\ irun[r].status = "running" /\ ~irun[r].lapsed
        /\ work[w].mode = "retry" => RetryReady(w, r, s, d)
        /\ work[w].mode = "full" => FullReady(r, s, d)

\* An assessment of the newest run stands on rows, and the text is there for a run that
\* parsed it with nobody between.
DocReady(d) ==
    /\ doc[d].assessment = "assessed" => config
    /\ \A r \in Run : Newest(d, r) /\ Succeeded(r, 6) /\ doc[d].assessment # "none"
          => LiveOf(doc[d]) # {}
    /\ last[d].run # 0 =>
          /\ irun[last[d].run].of = d
          /\ last[d].alone /\ Succeeded(last[d].run, 2) => doc[d].text
    /\ NewestWasLast(d) /\ irun[last[d].run].status = "succeeded" => NoneWaits(d)

TimerReady(t) == plan[t].phase # "idle" => plan[t].bundle = config

LandInv ==
    /\ InOrder
    /\ \A t \in Timer : TimerReady(t)
    /\ \A w \in Worker : work[w].pc # "idle" => HandReady(w)
    /\ \A d \in Doc : DocReady(d)

\* What a stage leaves of the document: of its text, of its assessment, of the rows that count.
Leaves(w, s, d, o) ==
    /\ o.text = IF s \in {2, 3} THEN TRUE ELSE doc[d].text
    /\ s # 6 => o.assessment = doc[d].assessment
    /\ s = 6 => /\ o.assessment \in {"assessed", "not_configured"}
                /\ o.assessment = "assessed" => work[w].bundle
    /\ s # 3 => LiveOf(o) = LiveOf(doc[d])
    /\ s \in {4, 5} => LiveOf(doc[d]) # {}
    /\ s = 7 /\ work[w].bundle =>
          \A x \in LiveOf(o) : Answered(o, x)

LEMMA ResultsAbout ==
    ASSUME NEW w \in Worker, NEW d \in Doc, NEW s \in processingStages,
           doc \in [Doc -> DocRecords], NEW o \in Results(w, s, d)
    PROVE  Leaves(w, s, d, o)
<1> USE DEF Leaves
<1>1. doc[d] \in DocRecords /\ Live(d) = LiveOf(doc[d])
  BY DEF Live, LiveOf
<1>2. ASSUME NEW status \in RowStatus \ {"none", "stale"}, NEW p \in DocRecords,
             p.rows = SetLive(d, status)
      PROVE  LiveOf(p) = LiveOf(doc[d]) /\ \A x \in LiveOf(p) : p.rows[x] = status
  BY <1>1, <1>2 DEF SetLive, LiveOf
<1>3. CASE s = 1
  <2>1. o = [doc[d] EXCEPT !.artifact = "fetched"]
    <3>1. o \in retrievePdf(d)
      BY <1>3, ResultsAre
    <3> QED BY <3>1 DEF retrievePdf
  <2> QED BY <1>1, <1>3, <2>1 DEF DocRecords, LiveOf
<1>4. CASE s = 2
  <2>1. o = [doc[d] EXCEPT !.text = TRUE, !.artifact = "processed"]
    <3>1. o \in parsePdf(d)
      BY <1>4, ResultsAre
    <3> QED BY <3>1 DEF parsePdf
  <2> QED BY <1>1, <1>4, <2>1 DEF DocRecords, LiveOf
<1>5. CASE s = 3
  <2>1. PICK found \in SUBSET Row :
           o = [doc[d] EXCEPT !.text = TRUE, !.rows = Extracted(d, found),
                              !.artifact = "processed"]
    <3>1. o \in extractData(w, d)
      BY <1>5, ResultsAre
    <3> QED BY <3>1 DEF extractData
  <2> QED BY <1>1, <1>5, <2>1 DEF DocRecords
<1>6. CASE s = 4
  <2>1. /\ o = [doc[d] EXCEPT !.rows = SetLive(d, "validated"), !.artifact = "validated"]
        /\ Live(d) # {}
    <3>1. o \in validateData(d)
      BY <1>6, ResultsAre
    <3> QED BY <3>1 DEF validateData
  <2>2. o \in DocRecords
    BY ResultsTyped
  <2>3. o.rows = SetLive(d, "validated") /\ o.text = doc[d].text
        /\ o.assessment = doc[d].assessment
    BY <1>1, <2>1 DEF DocRecords
  <2>4. LiveOf(o) = LiveOf(doc[d])
    BY <1>2, <2>2, <2>3 DEF RowStatus
  <2> QED BY <1>1, <1>6, <2>1, <2>3, <2>4
<1>7. CASE s = 5
  <2>1. /\ o = [doc[d] EXCEPT !.rows = SetLive(d, "unmapped"), !.artifact = "parsed",
                              !.publication = "parsed"]
        /\ Live(d) # {}
    <3>1. o \in insertData(d)
      BY <1>7, ResultsAre
    <3> QED BY <3>1 DEF insertData
  <2>2. o \in DocRecords
    BY ResultsTyped
  <2>3. o.rows = SetLive(d, "unmapped") /\ o.text = doc[d].text
        /\ o.assessment = doc[d].assessment
    BY <1>1, <2>1 DEF DocRecords
  <2>4. LiveOf(o) = LiveOf(doc[d])
    BY <1>2, <2>2, <2>3 DEF RowStatus
  <2> QED BY <1>1, <1>7, <2>1, <2>3, <2>4
<1>8. CASE s = 6
  <2>1. o = [doc[d] EXCEPT !.assessment =
               IF work[w].bundle THEN "assessed" ELSE "not_configured"]
    <3>1. o \in assessCompleteness(w, d)
      BY <1>8, ResultsAre
    <3> QED BY <3>1 DEF assessCompleteness
  <2> QED BY <1>1, <1>8, <2>1 DEF DocRecords, LiveOf
<1>9. CASE s = 7
  <2>1. /\ o.text = doc[d].text /\ o.assessment = doc[d].assessment
        /\ ~work[w].bundle => o = doc[d]
        /\ work[w].bundle => \A x \in Row : IF x \in Live(d) THEN Answered(o, x)
                                            ELSE o.rows[x] = doc[d].rows[x]
    BY <1>1, <1>9, ResultsAre, CanonicalizedIs
  <2>2. CASE ~work[w].bundle
    BY <1>9, <2>1, <2>2
  <2>3. CASE work[w].bundle
    <3>1. \A x \in Live(d) : o.rows[x] \in {"canonicalized", "quarantined"} /\ Answered(o, x)
      BY <2>1, <2>3 DEF Live, Answered
    <3>2. LiveOf(o) = Live(d)
      BY <2>1, <2>3, <3>1 DEF LiveOf, Live
    <3> QED BY <1>1, <1>9, <2>1, <3>1, <3>2
  <2> QED BY <2>2, <2>3
<1>10. s = 1 \/ s = 2 \/ s = 3 \/ s = 4 \/ s = 5 \/ s = 6 \/ s = 7
  BY StagesDef
<1> QED BY Zenon, <1>3, <1>4, <1>5, <1>6, <1>7, <1>8, <1>9, <1>10

\* A step says nothing of what a document's readiness is about.
Kept(d) ==
    /\ doc'[d].rows = doc[d].rows
    /\ doc'[d].assessment = doc[d].assessment /\ doc'[d].text = doc[d].text
    /\ irun'[last[d].run].status = "succeeded" =>
          \A x \in Row : Accounted(doc[d], x) => Accounted(doc'[d], x)

LEMMA HandReadyKept ==
    ASSUME NEW v \in Worker, HandReady(v), config' = config, work'[v] = work[v],
           LET r == work[v].run
               d == irun[r].of
           IN  /\ irun'[r].of = d /\ irun'[r].artifact = irun[r].artifact
               /\ irun'[r].stage = irun[r].stage
               /\ work[v].pc = "stage" => /\ irun'[r].status = irun[r].status
                                          /\ irun'[r].lapsed = irun[r].lapsed
                                          /\ last'[d].run = last[d].run
               /\ LiveOf(doc'[d]) = LiveOf(doc[d])
               /\ doc'[d].assessment = doc[d].assessment
               /\ \A q \in Run : irun'[q].of = d => irun[q].of = d
               /\ \A u \in Worker \ {v} : work'[u].pc # "idle" => irun'[work'[u].run].of # d
    PROVE  HandReady(v)'
<1> DEFINE r == work[v].run
           s == work[v].stage
           d == irun[r].of
<1>1. work'[v].run = r /\ work'[v].stage = s /\ irun'[r].of = d
  OBVIOUS
<1>2. ASSUME work[v].mode = "retry" PROVE RetryReady(v, r, s, d)'
  <2>1. RetryReady(v, r, s, d)
    BY <1>2, Zenon DEF HandReady
  <2>2. (LiveOf(doc[d]))' = LiveOf(doc[d])
    BY Zenon DEF LiveOf
  <2>3. /\ irun'[r].artifact = irun[r].artifact
        /\ \A q \in processingStages : irun'[r].stage[q] = irun[r].stage[q]
        /\ irun'[r].stage[6] = irun[r].stage[6]
        /\ doc'[d].assessment = doc[d].assessment /\ work'[v].pc = work[v].pc
    OBVIOUS
  <2>4. /\ s > 1 => irun'[r].artifact
        /\ s \in {5, 6} => (LiveOf(doc[d]))' # {}
        /\ s = 7 => doc'[d].assessment # "none" /\ irun'[r].stage[6].status = "succeeded"
    BY <2>1, <2>2, <2>3, Zenon DEF RetryReady, Succeeded
  <2>5. work'[v].pc = "stage" =>
          /\ s \in {2, 3, 4, 6} => doc'[d].assessment = "none"
          /\ \A q \in processingStages : q > s => irun'[r].stage[q].status = "blocked"
    <3> HIDE DEF r, s, d
    <3>1. work[v].pc = "stage" =>
             /\ s \in {2, 3, 4, 6} => doc[d].assessment = "none"
             /\ \A q \in processingStages : q > s => irun[r].stage[q].status = "blocked"
      BY <2>1, Zenon DEF RetryReady
    <3> QED BY <2>3, <3>1, Zenon
  <2>6. r' = r /\ s' = s /\ d' = d
    BY <1>1
  <2> HIDE DEF r, s, d
  <2> QED BY <2>4, <2>5, <2>6, Zenon DEF RetryReady, Succeeded
<1>3. ASSUME work[v].mode = "full" PROVE FullReady(r, s, d)'
  <2>1. FullReady(r, s, d)
    BY <1>3, Zenon DEF HandReady
  <2>2. (LiveOf(doc[d]))' = LiveOf(doc[d])
    BY Zenon DEF LiveOf
  <2> QED BY <2>1, <2>2, Zenon DEF FullReady, Newest
<1> QED BY <1>1, <1>2, <1>3, Zenon DEF HandReady

\* Runs may fail, no stage succeeds.
NoneSucceeds(r) ==
    /\ irun'[r].status = "succeeded" => irun[r].status = "succeeded"
    /\ \A s \in {2, 6} : irun'[r].stage[s].status = "succeeded" => Succeeded(r, s)

LEMMA DocReadyKept ==
    ASSUME NEW d \in Doc, DocReady(d), Kept(d), config => config', last'[d] = last[d],
           last[d].run \in Run \cup {0},
           \A q \in Run : irun'[q].of = d <=> irun[q].of = d,
           \A q \in Run : irun[q].of = d => NoneSucceeds(q)
    PROVE  DocReady(d)'
<1>1. LiveOf(doc[d])' = LiveOf(doc[d]) /\ Live(d)' = Live(d)
  BY DEF LiveOf, Live, Kept
<1>2. \A r \in Run : Newest(d, r)' => Newest(d, r)
  BY DEF Newest
<1>3. doc'[d].assessment = "assessed" => config'
  BY DEF DocReady, Kept
<1>4. \A r \in Run : Newest(d, r)' /\ Succeeded(r, 6)' /\ doc'[d].assessment # "none"
         => LiveOf(doc[d])' # {}
  <2> SUFFICES ASSUME NEW r \in Run, Newest(d, r)', Succeeded(r, 6)',
                      doc'[d].assessment # "none"
               PROVE  LiveOf(doc[d]) # {}
    BY <1>1
  <2>1. Newest(d, r) /\ irun[r].of = d
    BY <1>2 DEF Newest
  <2>2. Succeeded(r, 6)
    BY <2>1 DEF NoneSucceeds, Succeeded
  <2> QED BY <2>1, <2>2 DEF DocReady, Kept
<1>5. last[d].run # 0 => /\ irun'[last[d].run].of = d
                         /\ last[d].alone /\ Succeeded(last[d].run, 2)' => doc'[d].text
  <2> SUFFICES ASSUME last[d].run # 0
               PROVE  /\ irun'[last[d].run].of = d
                      /\ last[d].alone /\ Succeeded(last[d].run, 2)' => doc'[d].text
    OBVIOUS
  <2>1. irun[last[d].run].of = d /\ last[d].run \in Run
    BY DEF DocReady
  <2>2. Succeeded(last[d].run, 2)' => Succeeded(last[d].run, 2)
    BY <2>1 DEF NoneSucceeds, Succeeded
  <2> QED BY <2>1, <2>2 DEF DocReady, Kept
<1>6. NewestWasLast(d)' /\ irun'[last'[d].run].status = "succeeded" => NoneWaits(d)'
  <2> SUFFICES ASSUME NewestWasLast(d)', irun'[last[d].run].status = "succeeded"
               PROVE  NoneWaits(d)'
    OBVIOUS
  <2>1. NewestWasLast(d)
    BY DEF NewestWasLast
  <2>2. irun[last[d].run].of = d /\ last[d].run \in Run
    BY <2>1 DEF NewestWasLast, DocReady
  <2>3. irun[last[d].run].status = "succeeded"
    BY <2>2 DEF NoneSucceeds
  <2>4. NoneWaits(d)
    BY <2>1, <2>3 DEF DocReady
  <2>5. doc'[d].assessment = doc[d].assessment
        /\ \A x \in Row : Accounted(doc[d], x) => Accounted(doc[d], x)'
    BY DEF Kept, Accounted
  <2>6. \A x \in Live(d) : x \in Row
    BY DEF Live
  <2> QED BY <1>1, <2>4, <2>5, <2>6, Zenon DEF NoneWaits
<1>7. last'[d].run # 0 => /\ irun'[last'[d].run].of = d
                          /\ last'[d].alone /\ Succeeded(last[d].run, 2)' => doc'[d].text
  BY <1>5 DEF Succeeded
<1> QED BY <1>3, <1>4, <1>6, <1>7 DEF DocReady, Succeeded

\* Nothing begins and nothing succeeds.
LEMMA FrameKeeps ==
    ASSUME DocumentAssumption, DocInv, DocInv', LandInv, last' = last, config' = config,
           \A d \in Doc : Kept(d),
           \A t \in Timer : TimerReady(t)',
           \A q \in Run : /\ irun'[q].of = irun[q].of /\ irun'[q].artifact = irun[q].artifact
                          /\ NoneSucceeds(q)
                          /\ irun'[q].status = "free" <=> irun[q].status = "free"
                          /\ irun[q].status = "free" => irun'[q] = irun[q],
           \A v \in Worker :
              \/ work'[v] = Rest
              \/ /\ work'[v] = work[v]
                 /\ work[v].pc # "idle" => irun'[work[v].run].stage = irun[work[v].run].stage
                 /\ work[v].pc = "stage" =>
                       /\ irun'[work[v].run].status = irun[work[v].run].status
                       /\ irun'[work[v].run].lapsed = irun[work[v].run].lapsed
    PROVE  LandInv'
<1>1. /\ irun \in [Run -> RunRecords] /\ work \in [Worker -> DocHands]
      /\ last \in [Doc -> [run : Run \cup {0}, alone : BOOLEAN]]
  BY Typed DEF DocInv
<1>2. InOrder'
  BY DEF LandInv, InOrder
<1>3. ASSUME NEW v \in Worker, work'[v].pc # "idle" PROVE HandReady(v)'
  <2>1. work'[v] = work[v] /\ HandReady(v)
    BY <1>3 DEF Rest, LandInv
  <2>2. work[v].run \in Run /\ irun[work[v].run].of \in Doc
    BY <1>3, <2>1 DEF DocInv, AtWorkInv, AtWork, BegunInv
  <2>3. \A u \in Worker \ {v} : work'[u].pc # "idle" =>
           irun'[work'[u].run].of # irun[work[v].run].of
    <3> SUFFICES ASSUME NEW u \in Worker \ {v}, work'[u].pc # "idle"
                 PROVE  irun'[work'[u].run].of # irun[work[v].run].of
      OBVIOUS
    <3>1. work'[u] = work[u]
      BY DEF Rest
    <3>2. work[u].run \in Run
      BY <3>1 DEF DocInv, AtWorkInv, AtWork
    <3> QED BY <2>1, <3>1, <3>2 DEF HandReady
  <2>4. LiveOf(doc'[irun[work[v].run].of]) = LiveOf(doc[irun[work[v].run].of])
    BY <2>2, Zenon DEF Kept, LiveOf
  <2>5. /\ irun'[work[v].run].stage = irun[work[v].run].stage
        /\ work[v].pc = "stage" => /\ irun'[work[v].run].status = irun[work[v].run].status
                                   /\ irun'[work[v].run].lapsed = irun[work[v].run].lapsed
    BY <1>3, <2>1 DEF Rest
  <2>6. doc'[irun[work[v].run].of].assessment = doc[irun[work[v].run].of].assessment
    BY <2>2 DEF Kept
  <2> QED BY <2>1, <2>2, <2>3, <2>4, <2>5, <2>6, HandReadyKept, Zenon
<1>4. ASSUME NEW d \in Doc PROVE DocReady(d)'
  <2>1. DocReady(d) /\ Kept(d) /\ last[d].run \in Run \cup {0}
    BY <1>1 DEF LandInv
  <2> QED BY <2>1, DocReadyKept
<1> QED BY <1>2, <1>3, <1>4 DEF LandInv

\* A step of w on its document says nothing of the others.
LEMMA OthersReady ==
    ASSUME DocInv, LandInv, NEW w \in Worker, work[w].pc # "idle", config' = config,
           OtherRunsKept(work[w].run), OthersKept(w), irun'[work[w].run].status # "free",
           work'[w].pc = "idle" \/ work'[w].run = work[w].run,
           \A e \in Doc \ {irun[work[w].run].of} : doc'[e] = doc[e] /\ last'[e] = last[e]
    PROVE  /\ \A v \in Worker \ {w} : work'[v].pc # "idle" =>
                 HandReady(v)' /\ irun'[work'[v].run].of # irun[work[w].run].of
           /\ \A e \in Doc \ {irun[work[w].run].of} : DocReady(e)'
           /\ InOrder'
<1> DEFINE r == work[w].run
           d == irun[r].of
<1>1. /\ irun \in [Run -> RunRecords] /\ work \in [Worker -> DocHands]
      /\ last \in [Doc -> [run : Run \cup {0}, alone : BOOLEAN]]
  BY Typed DEF DocInv
<1>2. r \in Run /\ irun[r].status # "free" /\ HandReady(w)
  BY DEF DocInv, AtWorkInv, AtWork, LandInv
<1>3. /\ \A q \in Run \ {r} : irun'[q] = irun[q]
      /\ \A q \in Run : irun'[q].of = irun[q].of
      /\ \A v \in Worker \ {w} : work'[v] = work[v]
  BY DEF OtherRunsKept, OthersKept
<1>4. ASSUME NEW v \in Worker \ {w}, work'[v].pc # "idle"
      PROVE  HandReady(v)' /\ irun'[work'[v].run].of # d
  <2>1. work'[v] = work[v] /\ work[v].pc # "idle" /\ HandReady(v)
    BY <1>3, <1>4 DEF LandInv
  <2>2. work[v].run \in Run /\ irun[work[v].run].of \in Doc
    BY <2>1 DEF DocInv, AtWorkInv, AtWork, BegunInv
  <2>3. irun[work[v].run].of # d
    BY <1>2, <2>1 DEF HandReady
  <2>4. irun'[work[v].run] = irun[work[v].run]
    BY <1>3, <2>2, <2>3
  <2>5. \A u \in Worker \ {v} : work'[u].pc # "idle" =>
           irun'[work'[u].run].of # irun[work[v].run].of
    <3> SUFFICES ASSUME NEW u \in Worker \ {v}, work'[u].pc # "idle"
                 PROVE  irun'[work'[u].run].of # irun[work[v].run].of
      OBVIOUS
    <3>1. CASE u = w
      BY <1>2, <1>3, <2>3, <3>1
    <3>2. CASE u # w
      <4>1. work'[u] = work[u]
        BY <1>3, <3>2
      <4>2. work[u].run \in Run
        BY <4>1 DEF DocInv, AtWorkInv, AtWork
      <4> QED BY <1>3, <2>1, <4>1, <4>2 DEF HandReady
    <3> QED BY <3>1, <3>2
  <2>6. /\ doc'[irun[work[v].run].of] = doc[irun[work[v].run].of]
        /\ last'[irun[work[v].run].of] = last[irun[work[v].run].of]
    BY <2>2, <2>3
  <2>7. LiveOf(doc'[irun[work[v].run].of]) = LiveOf(doc[irun[work[v].run].of])
    BY <2>6
  <2>8. HandReady(v)'
    BY <1>3, <2>1, <2>4, <2>5, <2>6, <2>7, HandReadyKept, Zenon
  <2> QED BY <2>1, <2>3, <2>4, <2>8
<1>5. ASSUME NEW e \in Doc \ {d} PROVE DocReady(e)'
  <2>1. DocReady(e) /\ Kept(e) /\ last'[e] = last[e] /\ last[e].run \in Run \cup {0}
    BY <1>1 DEF LandInv, Kept
  <2>2. \A q \in Run : irun[q].of = e => NoneSucceeds(q)
    <3> SUFFICES ASSUME NEW q \in Run, irun[q].of = e PROVE NoneSucceeds(q)
      OBVIOUS
    <3>1. irun'[q] = irun[q]
      BY <1>3
    <3> QED BY <3>1 DEF NoneSucceeds, Succeeded
  <2> QED BY <1>3, <2>1, <2>2, DocReadyKept
<1>6. InOrder'
  BY <1>2, <1>3 DEF LandInv, InOrder
<1> QED BY <1>4, <1>5, <1>6

LEMMA InvalidatedAbout ==
    ASSUME NEW d \in Doc, NEW s \in processingStages, doc \in [Doc -> DocRecords]
    PROVE  /\ Invalidated(d, s).assessment # "none" => Invalidated(d, s) = doc[d]
           /\ s \in {2, 3, 4, 6} => Invalidated(d, s).assessment = "none"
           /\ s \in {5, 7} => Invalidated(d, s) = doc[d]
           /\ s > 2 => Invalidated(d, s).text = doc[d].text
           /\ s = 6 => LiveOf(Invalidated(d, s)) = LiveOf(doc[d])
<1>1. doc[d] \in DocRecords
  OBVIOUS
<1>2. CASE s \in {1, 2}
  <2>1. Invalidated(d, s) = [doc[d] EXCEPT !.text = FALSE, !.rows = Retired(d),
                                          !.assessment = "none", !.artifact = "fetched"]
    BY <1>2, InvalidatedIs, Zenon
  <2>2. Invalidated(d, s).assessment = "none"
    BY <1>1, <2>1 DEF DocRecords
  <2> QED BY <1>2, <2>2
<1>3. CASE s = 3
  <2>1. Invalidated(d, s) = [doc[d] EXCEPT !.rows = Retired(d), !.assessment = "none",
                                          !.artifact = "processed"]
    BY <1>3, InvalidatedIs, Zenon
  <2>2. Invalidated(d, s).assessment = "none" /\ Invalidated(d, s).text = doc[d].text
    BY <1>1, <2>1 DEF DocRecords
  <2> QED BY <1>3, <2>2
<1>4. CASE s = 4
  <2> DEFINE rows == [x \in Row |-> IF doc[d].rows[x] = "none" THEN "none"
                                    ELSE "pending_validation"]
  <2>1. Invalidated(d, s) = [doc[d] EXCEPT !.rows = rows, !.assessment = "none",
                                           !.artifact = "processed"]
    BY <1>1, <1>4, InvalidatedIs, Zenon DEF DocRecords
  <2> HIDE DEF rows
  <2>2. Invalidated(d, s).assessment = "none" /\ Invalidated(d, s).text = doc[d].text
    BY <1>1, <2>1 DEF DocRecords
  <2> QED BY <1>4, <2>2
<1>5. CASE s = 6
  <2>1. Invalidated(d, s) = [doc[d] EXCEPT !.assessment = "none"]
    BY <1>5, InvalidatedIs, Zenon
  <2> QED BY <1>1, <1>5, <2>1 DEF DocRecords, LiveOf
<1>6. CASE s \in {5, 7}
  <2>1. Invalidated(d, s) = doc[d]
    BY <1>6, InvalidatedIs, Zenon
  <2> QED BY <1>6, <2>1
<1> QED BY <1>2, <1>3, <1>4, <1>5, <1>6, StagesDef

LEMMA BeginRetryLands ==
    ASSUME DocumentAssumption, DocInv, LandInv, NEW w \in Worker, BeginRetry(w)
    PROVE  LandInv'
<1> DEFINE r == work[w].run
           s == work[w].stage
           d == irun[r].of
           inv == Invalidated(d, s)
<1>1. /\ irun \in [Run -> RunRecords] /\ work \in [Worker -> DocHands]
      /\ doc \in [Doc -> DocRecords]
      /\ last \in [Doc -> [run : Run \cup {0}, alone : BOOLEAN]]
  BY Typed DEF DocInv
<1>2. /\ r \in Run /\ s \in processingStages
      /\ work[w].pc = "checked" /\ work[w].mode = "retry"
      /\ irun' \in [Run -> RunRecords]
      /\ \A q \in Run \ {r} : irun'[q] = irun[q]
      /\ irun'[r].status = "running" /\ ~irun'[r].lapsed
      /\ irun'[r].of = irun[r].of /\ irun'[r].artifact = irun[r].artifact
      /\ \A q \in processingStages :
            irun'[r].stage[q].status =
                IF q = s THEN "running"
                ELSE IF q > s THEN "blocked" ELSE irun[r].stage[q].status
      /\ work' \in [Worker -> DocHands]
      /\ \A v \in Worker \ {w} : work'[v] = work[v]
      /\ work'[w] = [work[w] EXCEPT !.pc = "stage"]
  BY BeginRetryIs
<1>2a. \A q \in processingStages :
           irun'[r].stage[q].status = IF q = s THEN "running"
                                      ELSE IF q > s THEN "blocked" ELSE irun[r].stage[q].status
  BY <1>2, Zenon
<1>3. irun[r].status # "free" /\ d \in Doc
  BY <1>2 DEF DocInv, AtWorkInv, AtWork, BegunInv
<1>4. /\ work'[w].pc = "stage" /\ work'[w].mode = "retry" /\ work'[w].run = r
      /\ work'[w].stage = s /\ work'[w].bundle = work[w].bundle
  BY <1>1, <1>2 DEF DocHands
<1>5. plan' = plan /\ config' = config
  BY Zenon DEF BeginRetry
<1>6. /\ \A e \in Doc \ {d} : doc'[e] = doc[e] /\ last'[e] = last[e]
      /\ doc'[d] = IF irun[r].artifact THEN inv ELSE doc[d]
      /\ last'[d].run = r
      /\ last'[d].alone => last[d].alone /\ last[d].run = r
  BY <1>1, <1>3, Zenon DEF BeginRetry
<1>7. /\ inv.assessment # "none" => inv = doc[d]
      /\ s \in {2, 3, 4, 6} => inv.assessment = "none"
      /\ s \in {5, 7} => inv = doc[d]
      /\ s > 2 => inv.text = doc[d].text
      /\ s = 6 => LiveOf(inv) = LiveOf(doc[d])
  BY <1>1, <1>2, <1>3, InvalidatedAbout
<1>8. OtherRunsKept(r) /\ OthersKept(w)
  BY <1>2 DEF OtherRunsKept, OthersKept
<1>9. /\ \A v \in Worker \ {w} : work'[v].pc # "idle" => HandReady(v)' /\ irun'[work'[v].run].of # d
      /\ \A e \in Doc \ {d} : DocReady(e)'
      /\ InOrder'
  BY <1>2, <1>4, <1>5, <1>6, <1>8, OthersReady, Zenon
<1>10. HandReady(w) /\ RetryReady(w, r, s, d) /\ DocReady(d)
  BY <1>2, <1>3 DEF LandInv, HandReady
<1> HIDE DEF inv
<1>11. /\ s > 1 => irun'[r].artifact
       /\ s \in {5, 6} => LiveOf(doc'[d]) # {}
       /\ s = 7 => doc'[d].assessment # "none" /\ irun'[r].stage[6].status = "succeeded"
       /\ s \in {2, 3, 4, 6} => doc'[d].assessment = "none"
       /\ \A q \in processingStages : q > s => irun'[r].stage[q].status = "blocked"
  <2>1. s > 1 => irun[r].artifact
    BY <1>10 DEF RetryReady
  <2>2. s \in {5, 6} => LiveOf(doc'[d]) # {}
    BY <1>6, <1>7, <1>10, Zenon DEF RetryReady
  <2>3. s = 7 => doc'[d].assessment # "none" /\ irun'[r].stage[6].status = "succeeded"
    <3> SUFFICES ASSUME s = 7
                 PROVE  doc'[d].assessment # "none" /\ irun'[r].stage[6].status = "succeeded"
      OBVIOUS
    <3>1. doc[d].assessment # "none" /\ irun[r].stage[6].status = "succeeded"
      BY <1>10 DEF RetryReady, Succeeded
    <3>2. doc'[d] = doc[d]
      BY <1>6, <1>7
    <3>3. 6 \in processingStages
      BY StagesDef
    <3> QED BY <1>2a, <3>1, <3>2, <3>3
  <2>4. s \in {2, 3, 4, 6} => doc'[d].assessment = "none"
    BY <1>6, <1>7, <2>1
  <2>5. \A q \in processingStages : q > s => irun'[r].stage[q].status = "blocked"
    BY <1>2a, StagesDef
  <2> QED BY <1>2, <2>1, <2>2, <2>3, <2>4, <2>5, Zenon
<1>12. HandReady(w)'
  <2>1. r' = r /\ s' = s /\ d' = d
    BY <1>2, <1>4
  <2> HIDE DEF r, s, d
  <2>2. LiveOf(doc[d])' = LiveOf(doc'[d])
    BY <2>1 DEF LiveOf
  <2>3. RetryReady(w, r, s, d)'
    BY <1>11, <2>1, <2>2 DEF RetryReady, Succeeded
  <2>4. /\ work'[w].bundle = config' /\ work'[w].mode = "retry"
        /\ \A v \in Worker \ {w} : work'[v].pc # "idle" => irun'[work'[v].run].of # d
        /\ last'[d].run = r /\ irun'[r].status = "running" /\ ~irun'[r].lapsed
    BY <1>2, <1>4, <1>5, <1>6, <1>9, <1>10 DEF HandReady
  <2> QED BY <1>2, <1>4, <2>1, <2>3, <2>4, Zenon DEF HandReady, r, s, d
<1>13. ASSUME NEW e \in Doc, e = d PROVE DocReady(e)'
  <2>1. doc'[d].assessment # "none" => doc'[d] = doc[d]
    BY <1>6, <1>7
  <2>2. doc'[d].assessment = "assessed" => config'
    BY <1>5, <1>10, <2>1, Zenon DEF DocReady
  <2>3. \A q \in Run : Newest(e, q)' => Newest(e, q)
    BY <1>2 DEF Newest
  <2>4. ASSUME NEW q \in Run, Newest(e, q)', irun'[q].stage[6].status = "succeeded",
               doc'[d].assessment # "none"
        PROVE  LiveOf(doc'[d]) # {}
    <3>1. Newest(e, q)
      BY <2>3, <2>4
    <3>2. 6 \in processingStages
      BY StagesDef
    <3>3. Succeeded(q, 6)
      BY <1>2, <2>4, <3>2 DEF Succeeded
    <3> QED BY <1>10, <1>13, <2>1, <2>4, <3>1, <3>3, Zenon DEF DocReady
  <2>5. last'[d].alone /\ irun'[r].stage[2].status = "succeeded" => doc'[d].text
    <3> SUFFICES ASSUME last'[d].alone, irun'[r].stage[2].status = "succeeded"
                 PROVE  doc'[d].text
      OBVIOUS
    <3>0. s \in processingStages
      BY <1>2, Zenon
    <3>1. 2 \in processingStages /\ s \in 1..7
      BY <3>0, StagesDef
    <3>2. s > 2 /\ irun[r].stage[2].status = "succeeded"
      BY <1>2a, <3>1
    <3>3. last[d].alone /\ last[d].run = r /\ r # 0
      BY <1>2, <1>6, ZeroNoRun, Zenon
    <3>4. doc[d].text
      BY <1>10, <3>2, <3>3, Zenon DEF DocReady, Succeeded
    <3> QED BY <1>6, <1>7, <3>2, <3>4
  <2>6. LiveOf(doc[e])' = LiveOf(doc'[e]) /\ last'[d].run = r /\ irun'[r].of = d
    BY <1>2, <1>6, Zenon DEF LiveOf
  <2> HIDE DEF r, s, d
  <2>7. /\ doc'[e].assessment = "assessed" => config'
        /\ \A q \in Run : /\ Newest(e, q)' /\ irun'[q].stage[6].status = "succeeded"
                           /\ doc'[e].assessment # "none" => LiveOf(doc'[e]) # {}
        /\ last'[e].run = r /\ irun'[r].of = e /\ irun'[r].status = "running"
        /\ last'[e].alone /\ irun'[r].stage[2].status = "succeeded" => doc'[e].text
    BY <1>2, <1>13, <2>2, <2>4, <2>5, <2>6
  <2> QED BY <2>6, <2>7 DEF DocReady, Succeeded
<1>14. \A t \in Timer : TimerReady(t)'
  BY <1>5 DEF LandInv, TimerReady
<1> HIDE DEF d
<1> QED BY <1>9, <1>12, <1>13, <1>14 DEF LandInv

\* A stage succeeds and the run goes on.
LEMMA GoesOnLands ==
    ASSUME DocumentAssumption, DocInv, LandInv, NEW w \in Worker, StageSucceeds(w),
           NEW r \in Run, NEW s \in processingStages, NEW d \in Doc,
           r = work[w].run, s = work[w].stage, d = irun[r].of, work[w].pc = "stage",
           NEW o \in Results(w, s, d), GoesOn(w, o)
    PROVE  LandInv'
<1>1. /\ irun \in [Run -> RunRecords] /\ work \in [Worker -> DocHands]
      /\ doc \in [Doc -> DocRecords]
      /\ last \in [Doc -> [run : Run \cup {0}, alone : BOOLEAN]]
  BY Typed DEF DocInv
<1>2. plan' = plan /\ config' = config /\ last' = last
  BY DEF StageSucceeds
<1>3. /\ work[w].mode = "full" /\ s < 7 /\ doc' = [doc EXCEPT ![d] = o]
      /\ OtherRunsKept(r) /\ OthersKept(w)
      /\ irun'[r].status = irun[r].status
      /\ irun'[r].lapsed => irun[r].lapsed
      /\ \A q \in processingStages :
            irun'[r].stage[q].status = IF q = s THEN "succeeded"
                                       ELSE IF q = s + 1 THEN "running"
                                       ELSE irun[r].stage[q].status
      /\ work'[w].pc = "stage" /\ work'[w].mode = "full" /\ work'[w].run = r
      /\ work'[w].stage = s + 1 /\ work'[w].bundle = work[w].bundle
  BY DEF GoesOn
<1>3a. s < 7 /\ OtherRunsKept(r) /\ OthersKept(w)
  BY <1>3, Zenon
<1>3b. \A q \in processingStages :
           irun'[r].stage[q].status = IF q = s THEN "succeeded"
                                      ELSE IF q = s + 1 THEN "running"
                                      ELSE irun[r].stage[q].status
  BY <1>3, Zenon
<1>4. irun'[r].of = d /\ irun'[r].status = "running" /\ irun'[r].status # "free"
      /\ ~irun[r].lapsed /\ ~irun'[r].lapsed
  BY <1>3 DEF DocInv, FreshInv, Fresh, OtherRunsKept
<1>5. /\ doc'[d] = o
      /\ \A e \in Doc \ {d} : doc'[e] = doc[e] /\ last'[e] = last[e]
  BY <1>1, <1>2, <1>3
<1>6. /\ \A v \in Worker \ {w} : work'[v].pc # "idle" => HandReady(v)' /\ irun'[work'[v].run].of # d
      /\ \A e \in Doc \ {d} : DocReady(e)'
      /\ InOrder'
  BY <1>2, <1>3, <1>4, <1>5, OthersReady
<1>7. /\ HandReady(w) /\ DocReady(d) /\ FullReady(r, s, d)
      /\ work[w].bundle = config /\ last[d].run = r
  BY <1>3, Zenon DEF LandInv, HandReady
<1>8. /\ o.text = IF s \in {2, 3} THEN TRUE ELSE doc[d].text
      /\ s # 6 => o.assessment = doc[d].assessment
      /\ s = 6 => /\ o.assessment \in {"assessed", "not_configured"}
                  /\ o.assessment = "assessed" => work[w].bundle
      /\ s # 3 => LiveOf(o) = LiveOf(doc[d])
      /\ s \in {4, 5} => LiveOf(doc[d]) # {}
      /\ s = 7 /\ work[w].bundle =>
            \A x \in LiveOf(o) : Answered(o, x)
  <2>1. Leaves(w, s, d, o)
    BY <1>1, ResultsAbout
  <2> QED BY <2>1 DEF Leaves
<1>8a. s = 6 => LiveOf(o) # {}
  <2> SUFFICES ASSUME s = 6 PROVE LiveOf(o) # {}
    OBVIOUS
  <2>1. s # 3 /\ s \in {5, 6, 7}
    OBVIOUS
  <2> QED BY <1>7, <1>8, <2>1, Zenon DEF FullReady
<1>9. s \in 1..6
  BY <1>3a, StagesDef
<1>10. \A q \in Run : Newest(d, q)' <=> Newest(d, q)
  BY <1>3 DEF Newest, OtherRunsKept
<1>11. HandReady(w)'
  <2>1. LiveOf(doc[d])' = LiveOf(o)
    BY <1>5 DEF LiveOf
  <2>2. s + 1 \in {5, 6, 7} => LiveOf(o) # {}
    <3>1. CASE s \in {4, 5}
      BY <1>8, <3>1
    <3>2. CASE s = 6
      BY <1>8a, <3>2
    <3>3. CASE s \in {1, 2, 3}
      BY <3>3
    <3> QED BY <1>9, <3>1, <3>2, <3>3
  <2>3. s + 1 = 7 => o.assessment # "none"
    BY <1>8, <1>9
  <2>4. /\ Newest(d, r)'
        /\ s + 1 \in {5, 6, 7} => LiveOf(doc[d])' # {}
        /\ s + 1 = 7 => doc'[d].assessment # "none"
    BY <1>5, <1>7, <1>10, <2>1, <2>2, <2>3 DEF FullReady
  <2>5. /\ work'[w].bundle = config' /\ work'[w].mode = "full"
        /\ work'[w].run = r /\ work'[w].stage = s + 1 /\ irun'[r].of = d
        /\ \A v \in Worker \ {w} : work'[v].pc # "idle" => irun'[work'[v].run].of # d
        /\ last'[d].run = r /\ irun'[r].status = "running" /\ ~irun'[r].lapsed
    BY <1>2, <1>3, <1>4, <1>6, <1>7, Zenon
  <2> QED BY <2>4, <2>5, Zenon DEF HandReady, FullReady, Newest, LiveOf
<1>12. DocReady(d)'
  <2>1. doc'[d].assessment = "assessed" => config'
    BY <1>2, <1>5, <1>7, <1>8, Zenon DEF DocReady
  <2>2. ASSUME NEW q \in Run, Newest(d, q)', irun'[q].stage[6].status = "succeeded"
        PROVE  LiveOf(doc'[d]) # {}
    <3>1. q = r
      BY <1>7, <1>10, <2>2 DEF FullReady, Newest, Run
    <3>2. 6 \in processingStages
      BY StagesDef
    <3>3. s = 6
      <4> SUFFICES ASSUME s # 6 PROVE FALSE
        OBVIOUS
      <4>1. s < 6
        BY <1>9
      <4>2. irun[r].stage[6].status = "none"
        BY <1>3, <3>2, <4>1 DEF DocInv, FreshInv, Fresh
      <4> QED BY <1>3b, <2>2, <3>1, <3>2, <4>1, <4>2
    <3> QED BY <1>5, <1>8a, <3>3
  <2>3. last[d].alone /\ irun'[r].stage[2].status = "succeeded" => doc'[d].text
    <3> SUFFICES ASSUME last[d].alone, irun'[r].stage[2].status = "succeeded"
                 PROVE  doc'[d].text
      OBVIOUS
    <3>1. CASE s \in {2, 3}
      BY <1>5, <1>8, <3>1
    <3>2. CASE s \notin {2, 3}
      <4>1. 2 \in processingStages /\ r # 0
        BY StagesDef, ZeroNoRun
      <4>2. irun[r].stage[2].status = "succeeded"
        BY <1>3b, <1>9, <3>2, <4>1
      <4>3. irun[r].stage[2].status = "succeeded" /\ r # 0
        BY <4>1, <4>2
      <4> QED BY <1>5, <1>7, <1>8, <3>2, <4>3, Zenon DEF DocReady, Succeeded
    <3> QED BY <3>1, <3>2
  <2>4. LiveOf(doc[d])' = LiveOf(doc'[d])
    BY DEF LiveOf
  <2> QED BY <1>2, <1>4, <1>7, <2>1, <2>2, <2>3, <2>4, Zenon DEF DocReady, Succeeded
<1>13. \A t \in Timer : TimerReady(t)'
  BY <1>2 DEF LandInv, TimerReady
<1> QED BY <1>6, <1>11, <1>12, <1>13 DEF LandInv

\* A stage succeeds and the run ends: after a retry it succeeds at the last stage only, as the
\* stages after any other are blocked.
LEMMA EndsWellLands ==
    ASSUME DocumentAssumption, DocInv, LandInv, NEW w \in Worker, StageSucceeds(w),
           NEW r \in Run, NEW s \in processingStages, NEW d \in Doc,
           r = work[w].run, s = work[w].stage, d = irun[r].of, work[w].pc = "stage",
           NEW o \in Results(w, s, d), EndsWell(w, o)
    PROVE  LandInv'
<1>1. /\ irun \in [Run -> RunRecords] /\ work \in [Worker -> DocHands]
      /\ doc \in [Doc -> DocRecords]
      /\ last \in [Doc -> [run : Run \cup {0}, alone : BOOLEAN]]
  BY Typed DEF DocInv
<1>2. plan' = plan /\ config' = config /\ last' = last
  BY DEF StageSucceeds
<1>3. /\ work[w].mode = "full" => s = 7
      /\ doc' = [doc EXCEPT ![d] = IF irun'[r].status = "succeeded"
                                   THEN [o EXCEPT !.quarantined = FALSE] ELSE o]
      /\ OtherRunsKept(r) /\ OthersKept(w)
      /\ irun'[r].status \in {"succeeded", "blocked"}
      /\ irun'[r].status = "succeeded" =>
            work[w].mode = "full" \/ \A q \in processingStages :
                                        irun'[r].stage[q].status = "succeeded"
      /\ \A q \in processingStages :
            irun'[r].stage[q].status = IF q = s THEN "succeeded" ELSE irun[r].stage[q].status
      /\ work'[w] = Rest
  BY Zenon DEF EndsWell
<1>4. irun'[r].of = d /\ irun'[r].status # "free" /\ work'[w].pc = "idle"
  BY <1>3 DEF OtherRunsKept, Rest
<1>5. /\ doc'[d].text = o.text /\ doc'[d].assessment = o.assessment
      /\ doc'[d].rows = o.rows /\ doc'[d].open = o.open
      /\ \A e \in Doc \ {d} : doc'[e] = doc[e] /\ last'[e] = last[e]
  <2>1. o \in DocRecords
    BY <1>1, ResultsTyped
  <2>2. doc'[d] = o \/ doc'[d] = [o EXCEPT !.quarantined = FALSE]
    BY <1>1, <1>3
  <2>3. /\ doc'[d].text = o.text /\ doc'[d].assessment = o.assessment
        /\ doc'[d].rows = o.rows /\ doc'[d].open = o.open
    BY <2>1, <2>2 DEF DocRecords
  <2> QED BY <1>1, <1>2, <1>3, <2>3, Zenon
<1>6. /\ \A v \in Worker \ {w} : work'[v].pc # "idle" => HandReady(v)' /\ irun'[work'[v].run].of # d
      /\ \A e \in Doc \ {d} : DocReady(e)'
      /\ InOrder'
  <2>1. OtherRunsKept(r) /\ OthersKept(w)
    BY <1>3
  <2>2. \A e \in Doc \ {d} : doc'[e] = doc[e] /\ last'[e] = last[e]
    BY <1>5
  <2> QED BY <1>2, <1>4, <2>1, <2>2, OthersReady
<1>7. /\ HandReady(w) /\ DocReady(d) /\ work[w].bundle = config /\ last[d].run = r
      /\ work[w].mode \in {"full", "retry"}
      /\ work[w].mode = "full" => FullReady(r, s, d)
      /\ work[w].mode = "retry" => RetryReady(w, r, s, d)
  BY DEF LandInv, HandReady
<1>8. /\ o.text = IF s \in {2, 3} THEN TRUE ELSE doc[d].text
      /\ s # 6 => o.assessment = doc[d].assessment
      /\ s = 6 => /\ o.assessment \in {"assessed", "not_configured"}
                  /\ o.assessment = "assessed" => work[w].bundle
      /\ s # 3 => LiveOf(o) = LiveOf(doc[d])
      /\ s \in {4, 5} => LiveOf(doc[d]) # {}
      /\ s = 7 /\ work[w].bundle =>
            \A x \in LiveOf(o) : Answered(o, x)
  <2>1. Leaves(w, s, d, o)
    BY <1>1, ResultsAbout
  <2> QED BY <2>1 DEF Leaves
<1>8a. s = 7 /\ FullReady(r, s, d) => LiveOf(o) # {}
  <2> SUFFICES ASSUME s = 7, FullReady(r, s, d) PROVE LiveOf(o) # {}
    OBVIOUS
  <2>1. s # 3 /\ s \in {5, 6, 7}
    OBVIOUS
  <2> QED BY <1>8, <2>1, Zenon DEF FullReady
<1>9. s \in 1..7
  BY StagesDef
<1>10. \A q \in Run : Newest(d, q)' <=> Newest(d, q)
  BY <1>3 DEF Newest, OtherRunsKept
<1>11. LiveOf(doc[d])' = LiveOf(o) /\ Live(d)' = LiveOf(o)
  BY <1>5 DEF LiveOf, Live
<1>12. work[w].mode = "retry" => /\ s \in {2, 3, 4, 6} => doc[d].assessment = "none"
                                 /\ \A q \in processingStages :
                                       q > s => irun[r].stage[q].status = "blocked"
                                 /\ s = 7 => doc[d].assessment # "none" /\ Succeeded(r, 6)
                                 /\ s \in {5, 6} => LiveOf(doc[d]) # {}
  BY <1>7, Zenon DEF RetryReady
<1>13. doc'[d].assessment = "assessed" => config'
  BY <1>2, <1>5, <1>7, <1>8, Zenon DEF DocReady
<1>14. ASSUME NEW q \in Run, Newest(d, q)', irun'[q].stage[6].status = "succeeded",
              o.assessment # "none"
       PROVE  LiveOf(o) # {}
  <2>0. Newest(d, q) /\ 6 \in processingStages
    BY <1>10, <1>14, StagesDef
  <2>1. CASE work[w].mode = "full"
    <3>1. s = 7 /\ FullReady(r, s, d)
      BY <1>3, <1>7, <2>1, Zenon
    <3> QED BY <1>8a, <3>1
  <2>2. CASE work[w].mode = "retry" /\ s = 6
    <3>1. s # 3 /\ s \in {5, 6}
      BY <2>2
    <3> QED BY <1>8, <1>12, <2>2, <3>1, Zenon
  <2>3. CASE work[w].mode = "retry" /\ s # 6
    <3>1. doc[d].assessment # "none" /\ s # 3
      BY <1>8, <1>12, <1>14, <2>3, Zenon
    <3>2. Succeeded(q, 6)
      <4>1. OtherRunsKept(r)
        BY <1>3, Zenon
      <4>2. 6 # s
        BY <2>3
      <4>3. irun'[r].stage[6].status = irun[r].stage[6].status
        BY <1>3, <2>0, <4>2, Zenon
      <4> QED BY <1>14, <4>1, <4>3 DEF Succeeded, OtherRunsKept
    <3> QED BY <1>7, <1>8, <2>0, <3>1, <3>2, Zenon DEF DocReady
  <2> QED BY <1>7, <2>1, <2>2, <2>3
<1>15. last[d].alone /\ irun'[r].stage[2].status = "succeeded" => doc'[d].text
  <2> SUFFICES ASSUME last[d].alone, irun'[r].stage[2].status = "succeeded"
               PROVE  doc'[d].text
    OBVIOUS
  <2>1. CASE s \in {2, 3}
    BY <1>5, <1>8, <2>1, Zenon
  <2>2. CASE s \notin {2, 3}
    <3>0. r # 0
      BY ZeroNoRun
    <3>1. s # 2 /\ 2 \in processingStages
      BY <2>2, StagesDef
    <3>2. irun'[r].stage[2].status = irun[r].stage[2].status
      BY <1>3, <3>1
    <3>3. irun[r].stage[2].status = "succeeded"
      BY <3>2
    <3> QED BY <1>5, <1>7, <1>8, <2>2, <3>0, <3>3, Zenon DEF DocReady, Succeeded
  <2> QED BY <2>1, <2>2
<1>16. ASSUME NewestWasLast(d)', irun'[r].status = "succeeded" PROVE NoneWaits(d)'
  <2>1. s = 7
    <3>1. CASE work[w].mode = "full"
      BY <1>3, <3>1
    <3>2. CASE work[w].mode = "retry"
      <4> SUFFICES ASSUME s # 7 PROVE FALSE
        OBVIOUS
      <4>1. 7 \in processingStages /\ 7 > s
        BY <1>9, StagesDef
      <4>2. irun'[r].stage[7].status = "succeeded"
        BY <1>3, <1>16, <3>2, <4>1, Zenon
      <4>3. irun[r].stage[7].status = "blocked"
        BY <1>12, <3>2, <4>1
      <4> QED BY <1>3, <4>1, <4>2, <4>3
    <3> QED BY <1>7, <3>1, <3>2
  <2>2. o.assessment = doc[d].assessment /\ doc[d].assessment \in {"assessed", "not_configured"}
    <3>1. doc[d].assessment # "none"
      BY <1>7, <1>12, <2>1 DEF FullReady
    <3>2. doc[d].assessment \in {"none", "not_configured", "assessed"}
      BY <1>1 DEF DocRecords
    <3>3. s # 6
      BY <2>1
    <3>4. o.assessment = doc[d].assessment
      BY <1>8, <3>3, Zenon
    <3> QED BY <3>1, <3>2, <3>4
  <2>3. CASE doc[d].assessment = "not_configured"
    BY <1>5, <2>2, <2>3 DEF NoneWaits
  <2>4. CASE doc[d].assessment = "assessed"
    <3>1. work[w].bundle
      BY <1>7, <2>4 DEF DocReady
    <3>2. Newest(d, r)
      BY <1>2, <1>4, <1>7, <1>10, <1>16 DEF NewestWasLast, Newest
    <3>3. LiveOf(o) # {}
      <4>1. CASE work[w].mode = "full"
        BY <1>7, <1>8a, <2>1, <4>1
      <4>2. CASE work[w].mode = "retry"
        BY <1>7, <1>8, <1>12, <2>1, <2>2, <3>2, <4>2, Zenon DEF DocReady
      <4> QED BY <1>7, <4>1, <4>2
    <3>4. \A x \in LiveOf(o) : Answered(o, x)
      BY <1>8, <2>1, <3>1
    <3>5. doc'[d].assessment = "assessed" /\ Live(d)' # {}
      BY <1>5, <1>11, <2>2, <2>4, <3>3
    <3>6. \A x \in Live(d)' : Accounted(doc[d], x)'
      BY <1>5, <1>11, <3>4 DEF Answered, Accounted
    <3> QED BY <3>5, <3>6, Zenon DEF NoneWaits
  <2> QED BY <2>2, <2>3, <2>4
<1>17. DocReady(d)'
  BY <1>2, <1>4, <1>5, <1>7, <1>11, <1>13, <1>14, <1>15, <1>16, Zenon DEF DocReady, Succeeded
<1>18. \A t \in Timer : TimerReady(t)'
  BY <1>2 DEF LandInv, TimerReady
<1> QED BY <1>4, <1>6, <1>17, <1>18 DEF LandInv

LEMMA StageSucceedsLands ==
    ASSUME DocumentAssumption, DocInv, LandInv, NEW w \in Worker, StageSucceeds(w)
    PROVE  LandInv'
<1>1. work[w].run \in Run /\ work[w].stage \in processingStages /\ work[w].pc = "stage"
  BY StageSucceedsIs
<1>2. irun[work[w].run].of \in Doc
  BY <1>1 DEF DocInv, AtWorkInv, AtWork, BegunInv
<1>3. PICK o \in Results(w, work[w].stage, irun[work[w].run].of) :
         GoesOn(w, o) \/ EndsWell(w, o)
  BY StageSucceedsIs
<1>4. CASE GoesOn(w, o)
  BY <1>1, <1>2, <1>4, GoesOnLands
<1>5. CASE EndsWell(w, o)
  BY <1>1, <1>2, <1>5, EndsWellLands
<1> QED BY <1>3, <1>4, <1>5

\* Nobody else has a document in hand that w may start work on.
LEMMA NobodyElse ==
    ASSUME Alone, NEW w \in Worker, NEW d \in Doc, MayWorkOn(w, d),
           NEW v \in Worker \ {w}, work[v].pc # "idle"
    PROVE  irun[work[v].run].of # d
BY DEF MayWorkOn, WorkOn

\* Lapsed runs are failed; nobody executes one.
LEMMA ExpiredLands ==
    ASSUME DocInv, LandInv, NEW q \in Run
    PROVE  LET run == ExpireLapsed(irun)[q]
           IN  /\ run.of = irun[q].of /\ run.artifact = irun[q].artifact
               /\ run.stage = irun[q].stage /\ run.lapsed = irun[q].lapsed
               /\ run.status = "succeeded" => irun[q].status = "succeeded"
               /\ run.status = "free" <=> irun[q].status = "free"
               /\ irun[q].status = "free" => run = irun[q]
               /\ \A v \in Worker : work[v].pc = "stage" /\ work[v].run = q
                                       => run.status = irun[q].status
<1> DEFINE run == ExpireLapsed(irun)[q]
<1>1. irun \in [Run -> RunRecords]
  BY Typed DEF DocInv
<1>2. /\ run.of = irun[q].of /\ run.artifact = irun[q].artifact
      /\ run.stage = irun[q].stage /\ run.lapsed = irun[q].lapsed
      /\ run.status = IF irun[q].status = "running" /\ irun[q].lapsed THEN "failed"
                      ELSE irun[q].status
  BY <1>1, ExpireTyped
<1>3. irun[q].status = "free" => run = irun[q]
  BY <1>1 DEF ExpireLapsed
<1>4. \A v \in Worker : work[v].pc = "stage" /\ work[v].run = q => ~irun[q].lapsed
  BY DEF LandInv, HandReady
<1> HIDE DEF run
<1>5. /\ run.status = "succeeded" => irun[q].status = "succeeded"
      /\ run.status = "free" <=> irun[q].status = "free"
      /\ \A v \in Worker : work[v].pc = "stage" /\ work[v].run = q
                              => run.status = irun[q].status
  BY <1>2, <1>4
<1> QED BY <1>2, <1>3, <1>5 DEF run

LEMMA ExpireLands ==
    ASSUME DocumentAssumption, DocInv, DocInv', LandInv, irun' = ExpireLapsed(irun),
           work' = work, last' = last, config' = config, \A d \in Doc : Kept(d),
           \A t \in Timer : TimerReady(t)'
    PROVE  LandInv'
<1>1. \A q \in Run : /\ irun'[q].of = irun[q].of /\ irun'[q].artifact = irun[q].artifact
                     /\ irun'[q].stage = irun[q].stage /\ irun'[q].lapsed = irun[q].lapsed
                     /\ irun'[q].status = "succeeded" => irun[q].status = "succeeded"
                     /\ irun'[q].status = "free" <=> irun[q].status = "free"
                     /\ irun[q].status = "free" => irun'[q] = irun[q]
                     /\ \A v \in Worker : work[v].pc = "stage" /\ work[v].run = q
                                             => irun'[q].status = irun[q].status
  BY ExpiredLands
<1>2. \A q \in Run : NoneSucceeds(q)
  BY <1>1 DEF NoneSucceeds, Succeeded
<1>3. \A v \in Worker : work[v].pc # "idle" => work[v].run \in Run
  BY DEF DocInv, AtWorkInv, AtWork
<1>4. \A v \in Worker : work[v].pc = "stage" => work[v].pc # "idle"
  OBVIOUS
<1> QED BY <1>1, <1>2, <1>3, <1>4, FrameKeeps

\* A run begins, the newest of its document.
LEMMA BegunLands ==
    ASSUME DocumentAssumption, Alone, DocInv, DocInv', LandInv,
           NEW w \in Worker, NEW d \in Doc, NEW bundle, NEW r \in Run,
           Begun(w, d, bundle, r), work[w].pc = "idle", MayWorkOn(w, d), bundle = config,
           doc' = doc, config' = config, \A t \in Timer : TimerReady(t)'
    PROVE  LandInv'
<1> DEFINE table == ExpireLapsed(irun)
           new == [Rest EXCEPT !.pc = "stage", !.mode = "full", !.run = r,
                               !.stage = retrieve_pdf, !.bundle = bundle]
<1>1. /\ irun \in [Run -> RunRecords] /\ work \in [Worker -> DocHands]
      /\ last \in [Doc -> [run : Run \cup {0}, alone : BOOLEAN]]
  BY Typed DEF DocInv
<1>2. /\ irun[r].status = "free" /\ IsNextRun(r)
      /\ \A q \in Run \ {r} : irun'[q] = table[q]
      /\ irun'[r].status = "running" /\ ~irun'[r].lapsed /\ irun'[r].of = d
      /\ \A s \in processingStages :
            irun'[r].stage[s].status = IF s = 1 THEN "running" ELSE "none"
      /\ work' = [work EXCEPT ![w] = new]
      /\ last' = [last EXCEPT ![d] = [run |-> r, alone |-> TRUE]]
  BY DEF Begun
<1>3. /\ work'[w].pc = "stage" /\ work'[w].mode = "full" /\ work'[w].run = r
      /\ work'[w].stage = 1 /\ work'[w].bundle = bundle
      /\ \A v \in Worker \ {w} : work'[v] = work[v]
  BY <1>1, <1>2 DEF Rest, retrieve_pdf
<1>4. \A q \in Run \ {r} :
         /\ irun'[q].of = irun[q].of /\ irun'[q].artifact = irun[q].artifact
         /\ irun'[q].stage = irun[q].stage /\ irun'[q].lapsed = irun[q].lapsed
         /\ irun'[q].status = "succeeded" => irun[q].status = "succeeded"
         /\ irun'[q].status = "free" <=> irun[q].status = "free"
         /\ irun[q].status = "free" => irun'[q] = irun[q]
         /\ \A v \in Worker : work[v].pc = "stage" /\ work[v].run = q
                                 => irun'[q].status = irun[q].status
  BY <1>2, ExpiredLands
<1>5. /\ last'[d].run = r
      /\ \A e \in Doc \ {d} : last'[e] = last[e]
  BY <1>1, <1>2
<1>6. irun[r].of = 0 /\ 0 \notin Doc
  BY <1>2 DEF LandInv, InOrder, NoRun, DocumentAssumption
<1> HIDE DEF new, table
<1>7. InOrder'
  <2>1. \A q \in Run : irun'[q].status = "free" => irun'[q] = NoRun
    BY <1>2, <1>4 DEF LandInv, InOrder
  <2>2. ASSUME NEW q \in Run, NEW p \in Run, q < p, irun'[p].status # "free"
        PROVE  irun'[q].status # "free"
    <3>1. CASE q = r
      BY <1>2, <3>1
    <3>2. CASE p = r /\ q # r
      BY <1>2, <1>4, <2>2, <3>2 DEF IsNextRun, Run
    <3>3. CASE p # r /\ q # r
      BY <1>4, <2>2, <3>3 DEF LandInv, InOrder
    <3> QED BY <3>1, <3>2, <3>3
  <2> QED BY <2>1, <2>2 DEF InOrder
<1>8. \A v \in Worker \ {w} : work[v].pc # "idle" => irun[work[v].run].of # d
  BY NobodyElse
<1>9. \A v \in Worker \ {w} : work[v].pc # "idle" =>
         /\ work[v].run \in Run /\ work[v].run # r /\ irun[work[v].run].of \in Doc
         /\ irun'[work[v].run].of # d
  BY <1>2, <1>4, <1>8 DEF DocInv, AtWorkInv, AtWork, BegunInv
<1>10. ASSUME NEW v \in Worker \ {w}, work'[v].pc # "idle" PROVE HandReady(v)'
  <2>1. work'[v] = work[v] /\ work[v].pc # "idle" /\ HandReady(v)
    BY <1>3, <1>10 DEF LandInv
  <2> DEFINE p == work[v].run
             e == irun[p].of
  <2>2. p \in Run /\ p # r /\ e \in Doc /\ e # d
    BY <1>8, <1>9, <2>1
  <2>3. \A u \in Worker \ {v} : work'[u].pc # "idle" => irun'[work'[u].run].of # e
    <3> SUFFICES ASSUME NEW u \in Worker \ {v}, work'[u].pc # "idle"
                 PROVE  irun'[work'[u].run].of # e
      OBVIOUS
    <3>1. CASE u = w
      BY <1>2, <1>3, <2>2, <3>1
    <3>2. CASE u # w
      <4>1. work'[u] = work[u] /\ work[u].pc # "idle"
        BY <1>3, <3>2
      <4>2. irun'[work[u].run].of = irun[work[u].run].of
        BY <1>4, <1>9, <3>2, <4>1
      <4> QED BY <2>1, <4>1, <4>2 DEF HandReady
    <3> QED BY <3>1, <3>2
  <2>4. \A q \in Run : irun'[q].of = e => irun[q].of = e
    BY <1>2, <1>4, <2>2
  <2>5. /\ irun'[p].of = e /\ irun'[p].artifact = irun[p].artifact
        /\ irun'[p].stage = irun[p].stage /\ irun'[p].lapsed = irun[p].lapsed
        /\ work[v].pc = "stage" => irun'[p].status = irun[p].status
    BY <1>4, <2>2
  <2>6. last'[e] = last[e] /\ LiveOf(doc'[e]) = LiveOf(doc[e])
        /\ doc'[e].assessment = doc[e].assessment
    BY <1>5, <2>2
  <2> QED BY <2>1, <2>3, <2>4, <2>5, <2>6, HandReadyKept, Zenon
<1>11. \A q \in Run : irun'[q].of = d => q <= r
  <2> SUFFICES ASSUME NEW q \in Run, irun'[q].of = d, q > r PROVE FALSE
    BY DEF Run
  <2>1. q # r
    BY DEF Run
  <2>2. irun[q].of = d
    BY <1>4, <2>1
  <2>3. irun[q].status # "free"
    BY <1>6, <2>2 DEF LandInv, InOrder, NoRun
  <2> QED BY <1>2, <2>3 DEF LandInv, InOrder
<1>12. HandReady(w)'
  <2>1. \A v \in Worker \ {w} : work'[v].pc # "idle" => irun'[work'[v].run].of # d
    BY <1>3, <1>9
  <2> QED BY <1>2, <1>3, <1>5, <1>11, <2>1 DEF HandReady, FullReady, Newest
<1>13. ASSUME NEW e \in Doc \ {d} PROVE DocReady(e)'
  <2>1. DocReady(e) /\ Kept(e) /\ last'[e] = last[e] /\ last[e].run \in Run \cup {0}
    BY <1>1, <1>5 DEF LandInv, Kept
  <2>2. \A q \in Run : irun'[q].of = e <=> irun[q].of = e
    BY <1>2, <1>4, <1>6
  <2>3. \A q \in Run : irun[q].of = e => NoneSucceeds(q)
    BY <1>4, <1>6 DEF NoneSucceeds, Succeeded
  <2> QED BY <2>1, <2>2, <2>3, DocReadyKept
<1>14. DocReady(d)'
  <2>1. \A q \in Run : Newest(d, q)' => q = r
    BY <1>2, <1>11 DEF Newest, Run
  <2>2. irun'[r].stage[2].status = "none" /\ irun'[r].stage[6].status = "none"
    BY <1>2, StagesDef
  <2>3. doc'[d].assessment = "assessed" => config'
    BY DEF LandInv, DocReady
  <2> QED BY <1>2, <1>5, <2>1, <2>2, <2>3 DEF DocReady, Succeeded
<1> QED BY <1>7, <1>10, <1>12, <1>13, <1>14 DEF LandInv

LEMMA StartFullLands ==
    ASSUME DocumentAssumption, Alone, DocInv, DocInv', LandInv, NEW w \in Worker, NEW d \in Doc,
           NEW bundle \in BOOLEAN,
           StartFull(w, d, bundle), work[w].pc = "idle", bundle = config,
           doc' = doc, config' = config, \A t \in Timer : TimerReady(t)'
    PROVE  LandInv'
<1>1. MayWorkOn(w, d)
  BY DEF StartFull
<1>2. CASE Skipped
  <2>1. \A e \in Doc : Kept(e)
    BY DEF Kept
  <2> QED BY <1>2, <2>1, ExpireLands DEF Skipped
<1>3. ASSUME NEW r \in Run, Begun(w, d, bundle, r) PROVE LandInv'
  BY <1>1, <1>3, BegunLands
<1> QED BY <1>2, <1>3, StartFullIs

\* A retry is checked: its input is there, and nobody else has its document in hand.
LEMMA CheckRetryLands ==
    ASSUME DocumentAssumption, Alone, DocInv, DocInv', LandInv, NEW w \in Worker, NEW r \in Run,
           NEW s \in processingStages, NEW bundle, work[w].pc = "idle", bundle = config,
           CheckRetry(w, r, s, bundle),
           irun' = irun, doc' = doc, last' = last, config' = config,
           \A t \in Timer : TimerReady(t)'
    PROVE  LandInv'
<1> DEFINE new == [Rest EXCEPT !.pc = "checked", !.mode = "retry", !.run = r,
                               !.stage = s, !.bundle = bundle]
<1>1. work \in [Worker -> DocHands]
      /\ last \in [Doc -> [run : Run \cup {0}, alone : BOOLEAN]]
  BY Typed DEF DocInv
<1>2. CanRetry(r, s) /\ MayWorkOn(w, irun[r].of) /\ work' = [work EXCEPT ![w] = new]
  BY DEF CheckRetry
<1>3. /\ work'[w].pc = "checked" /\ work'[w].mode = "retry" /\ work'[w].run = r
      /\ work'[w].stage = s /\ work'[w].bundle = bundle
      /\ \A v \in Worker \ {w} : work'[v] = work[v]
  BY <1>1, <1>2 DEF Rest
<1> HIDE DEF new
<1>4. irun[r].status # "free" /\ irun[r].of \in Doc
  BY <1>2 DEF CanRetry, DocInv, BegunInv
<1>5. \A v \in Worker \ {w} : work[v].pc # "idle" => irun[work[v].run].of # irun[r].of
  BY <1>2, <1>4, NobodyElse
<1>6. ASSUME NEW v \in Worker \ {w}, work'[v].pc # "idle" PROVE HandReady(v)'
  <2>1. work'[v] = work[v] /\ work[v].pc # "idle" /\ HandReady(v)
    BY <1>3, <1>6 DEF LandInv
  <2>2. \A u \in Worker \ {v} : work'[u].pc # "idle" =>
           irun'[work'[u].run].of # irun[work[v].run].of
    <3> SUFFICES ASSUME NEW u \in Worker \ {v}, work'[u].pc # "idle"
                 PROVE  irun'[work'[u].run].of # irun[work[v].run].of
      OBVIOUS
    <3>1. CASE u = w
      BY <1>3, <1>5, <2>1, <3>1
    <3>2. CASE u # w
      BY <1>3, <2>1, <3>2 DEF HandReady
    <3> QED BY <3>1, <3>2
  <2> QED BY <2>1, <2>2, HandReadyKept
<1>7. HandReady(w)'
  <2>1. InputsPresent(r, s) /\ (s > 1 => irun[r].stage[s - 1].status = "succeeded")
    BY <1>2 DEF CanRetry, retrieve_pdf
  <2>2. Live(irun[r].of) = LiveOf(doc[irun[r].of])
    BY DEF Live, LiveOf
  <2>3. /\ s > 1 => irun[r].artifact
        /\ s \in {5, 6} => LiveOf(doc[irun[r].of]) # {}
        /\ s = 7 => doc[irun[r].of].assessment # "none" /\ irun[r].stage[6].status = "succeeded"
    BY <2>1, <2>2, StagesDef DEF InputsPresent, retrieve_pdf, extract_data, validate_data,
       insert_data, assess_completeness
  <2>4. \A v \in Worker \ {w} : work'[v].pc # "idle" => irun'[work'[v].run].of # irun[r].of
    BY <1>3, <1>5
  <2> QED BY <1>3, <2>3, <2>4 DEF HandReady, RetryReady, LiveOf, Succeeded
<1>8. ASSUME NEW d \in Doc PROVE DocReady(d)'
  <2>1. DocReady(d) /\ Kept(d) /\ last[d].run \in Run \cup {0}
    BY <1>1 DEF LandInv, Kept
  <2>2. \A q \in Run : NoneSucceeds(q)
    BY DEF NoneSucceeds, Succeeded
  <2> QED BY <2>1, <2>2, DocReadyKept
<1>9. InOrder'
  BY DEF LandInv, InOrder
<1> QED BY <1>6, <1>7, <1>8, <1>9 DEF LandInv

LEMMA StageFailsLands ==
    ASSUME DocumentAssumption, DocInv, DocInv', LandInv, NEW w \in Worker, StageFails(w)
    PROVE  LandInv'
<1> DEFINE r == work[w].run
           s == work[w].stage
           d == irun[r].of
<1>1. /\ doc \in [Doc -> DocRecords] /\ plan \in [Timer -> Plans]
  BY Typed DEF DocInv
<1>2. /\ r \in Run /\ s \in processingStages /\ work[w].pc = "stage" /\ d \in Doc
      /\ FailsWith(w)
      /\ doc' = doc \/ doc' = [doc EXCEPT ![d] = Quarantined(@)]
      /\ plan' = plan \/ plan' = Reported(w, d)
      /\ config' = config /\ last' = last
  BY StageFailsIs
<1>3. /\ \A q \in Run \ {r} : irun'[q] = irun[q]
      /\ irun'[r].of = d /\ irun'[r].artifact = irun[r].artifact
      /\ irun'[r].status \in {"failed", "blocked"}
      /\ \A q \in processingStages :
            irun'[r].stage[q].status = "succeeded" => irun[r].stage[q].status = "succeeded"
      /\ work'[w] = Rest /\ \A v \in Worker \ {w} : work'[v] = work[v]
  BY <1>2, Zenon DEF FailsWith, OtherRunsKept, OthersKept
<1>4. irun[r].status # "free"
  BY <1>2 DEF DocInv, AtWorkInv, AtWork
<1>5. \A e \in Doc : Kept(e)
  <2>1. doc[d] \in DocRecords
    BY <1>1, <1>2
  <2>2. /\ Quarantined(doc[d]).rows = doc[d].rows
        /\ Quarantined(doc[d]).assessment = doc[d].assessment
        /\ Quarantined(doc[d]).text = doc[d].text
    BY <2>1 DEF Quarantined, DocRecords
  <2>3. \A e \in Doc : doc'[e] = doc[e] \/ (e = d /\ doc'[e] = Quarantined(doc[d]))
    BY <1>1, <1>2
  <2>4. irun'[last[d].run].status # "succeeded"
    BY <1>2, <1>3 DEF LandInv, HandReady
  <2> QED BY <2>2, <2>3, <2>4, Zenon DEF Kept
<1>6. \A t \in Timer : TimerReady(t)'
  <2>1. \A t \in Timer : plan'[t].phase = plan[t].phase /\ plan'[t].bundle = plan[t].bundle
    BY <1>1, <1>2, ReportedTyped
  <2> QED BY <1>2, <2>1 DEF LandInv, TimerReady
<1>7. ASSUME NEW q \in Run
      PROVE  /\ irun'[q].of = irun[q].of /\ irun'[q].artifact = irun[q].artifact
             /\ NoneSucceeds(q)
             /\ irun'[q].status = "free" <=> irun[q].status = "free"
             /\ irun[q].status = "free" => irun'[q] = irun[q]
  <2>1. CASE q = r
    <3>1. 2 \in processingStages /\ 6 \in processingStages
      BY StagesDef
    <3>2. NoneSucceeds(r)
      BY <1>3, <3>1 DEF NoneSucceeds, Succeeded
    <3> QED BY <1>3, <1>4, <2>1, <3>2
  <2>2. CASE q # r
    BY <1>3, <2>2 DEF NoneSucceeds, Succeeded
  <2> QED BY <2>1, <2>2
<1>8. ASSUME NEW v \in Worker \ {w}, work[v].pc # "idle"
      PROVE  irun'[work[v].run] = irun[work[v].run]
  <2>1. HandReady(w) /\ work[v].run \in Run
    BY <1>2, <1>8 DEF LandInv, DocInv, AtWorkInv, AtWork
  <2>2. irun[work[v].run].of # d
    BY <1>8, <2>1 DEF HandReady
  <2> QED BY <1>3, <2>1, <2>2
<1>9. ASSUME NEW v \in Worker
      PROVE  \/ work'[v] = Rest
             \/ /\ work'[v] = work[v]
                /\ work[v].pc # "idle" => irun'[work[v].run].stage = irun[work[v].run].stage
                /\ work[v].pc = "stage" =>
                      /\ irun'[work[v].run].status = irun[work[v].run].status
                      /\ irun'[work[v].run].lapsed = irun[work[v].run].lapsed
  BY <1>3, <1>8
<1> QED BY <1>2, <1>5, <1>6, <1>7, <1>9, FrameKeeps, Zenon

\* Neither a run nor a document changes, and hands stay as they are or are put down.
LEMMA QuietLands ==
    ASSUME DocumentAssumption, DocInv, DocInv', LandInv, irun' = irun, last' = last,
           config' = config, \A d \in Doc : Kept(d), \A t \in Timer : TimerReady(t)',
           \A v \in Worker : work'[v] = Rest \/ work'[v] = work[v]
    PROVE  LandInv'
<1>1. \A q \in Run : NoneSucceeds(q)
  BY DEF NoneSucceeds, Succeeded
<1> QED BY <1>1, FrameKeeps

LEMMA StopLands ==
    ASSUME DocumentAssumption, DocInv, DocInv', LandInv, NEW w \in Worker, Stop(w)
    PROVE  LandInv'
<1>1. work \in [Worker -> DocHands]
  BY Typed DEF DocInv
<1>2. /\ irun' = irun /\ doc' = doc /\ config' = config /\ last' = last
      /\ work' = [work EXCEPT ![w] = Rest]
      /\ plan' = [t \in Timer |-> IF t = w THEN Between ELSE plan[t]]
  BY DEF Stop
<1>3. \A t \in Timer : TimerReady(t)'
  BY <1>2 DEF LandInv, TimerReady, Between
<1>4. \A d \in Doc : Kept(d)
  BY <1>2 DEF Kept
<1>5. \A v \in Worker : work'[v] = Rest \/ work'[v] = work[v]
  BY <1>1, <1>2
<1> QED BY <1>2, <1>3, <1>4, <1>5, QuietLands

LEMMA LeaseLapsesLands ==
    ASSUME DocumentAssumption, DocInv, DocInv', LandInv, NEW r \in Run, LeaseLapses(r)
    PROVE  LandInv'
<1>1. irun \in [Run -> RunRecords] /\ work \in [Worker -> DocHands]
  BY Typed DEF DocInv
<1>2. /\ doc' = doc /\ work' = work /\ plan' = plan /\ config' = config /\ last' = last
      /\ irun' = [irun EXCEPT ![r].lapsed = TRUE] /\ irun[r].status = "running"
      /\ \A w \in Worker : work[w].run # r
  BY DEF LeaseLapses
<1>3. \A q \in Run : /\ irun'[q].status = irun[q].status /\ irun'[q].of = irun[q].of
                     /\ irun'[q].stage = irun[q].stage /\ irun'[q].artifact = irun[q].artifact
                     /\ q # r => irun'[q] = irun[q]
  BY <1>1, <1>2 DEF RunRecords
<1>4. \A q \in Run : NoneSucceeds(q)
  BY <1>3 DEF NoneSucceeds, Succeeded
<1>5. \A q \in Run : irun[q].status = "free" => irun'[q] = irun[q]
  BY <1>2, <1>3
<1>6. \A v \in Worker : work[v].pc # "idle" => irun'[work[v].run] = irun[work[v].run]
  BY <1>2, <1>3 DEF DocInv, AtWorkInv, AtWork
<1>7. \A t \in Timer : TimerReady(t)'
  BY <1>2 DEF LandInv, TimerReady
<1>8. \A d \in Doc : Kept(d)
  BY <1>2 DEF Kept
<1>9. ASSUME NEW v \in Worker, work[v].pc = "stage"
      PROVE  /\ irun'[work[v].run].status = irun[work[v].run].status
             /\ irun'[work[v].run].lapsed = irun[work[v].run].lapsed
  BY <1>6, <1>9
<1> QED BY <1>2, <1>3, <1>4, <1>5, <1>6, <1>7, <1>8, <1>9, FrameKeeps

LEMMA BeginCycleLands ==
    ASSUME DocumentAssumption, DocInv, DocInv', LandInv, NEW t \in Timer,
           BeginCycle(t) \/ CycleFails(t)
    PROVE  LandInv'
<1>1. doc \in [Doc -> DocRecords] /\ plan \in [Timer -> Plans]
  BY Typed DEF DocInv
<1>2. irun' = ExpireLapsed(irun) /\ work' = work /\ last' = last /\ config' = config
  BY DEF BeginCycle, CycleFails
<1>3. CASE CycleFails(t)
  <2>1. (\A d \in Doc : Kept(d)) /\ (\A u \in Timer : TimerReady(u)')
    BY <1>3 DEF CycleFails, Kept, LandInv, TimerReady
  <2> QED BY <1>2, <2>1, ExpireLands
<1>4. CASE BeginCycle(t)
  <2>1. PICK found \in SUBSET (Doc \ Archived) :
           /\ doc' = [d \in Doc |-> IF d \in found
                                    THEN [doc[d] EXCEPT !.publication = "archived"] ELSE doc[d]]
           /\ plan' = [plan EXCEPT ![t] = [Between EXCEPT !.phase = "new", !.docs = found,
                                                          !.bundle = config]]
    BY <1>4 DEF BeginCycle
  <2>2. ASSUME NEW d \in Doc PROVE Kept(d)
    <3>1. doc[d] \in DocRecords /\ (doc'[d] = doc[d]
             \/ doc'[d] = [doc[d] EXCEPT !.publication = "archived"])
      BY <1>1, <2>1
    <3>2. /\ doc'[d].rows = doc[d].rows /\ doc'[d].assessment = doc[d].assessment
          /\ doc'[d].text = doc[d].text /\ doc'[d].open = doc[d].open
          /\ doc[d].publication = "reviewed" => doc'[d].publication = "reviewed"
      <4>1. doc'[d].publication = "archived" => doc[d].publication = "discovered"
                                             \/ doc'[d] = doc[d]
        BY <2>1 DEF Archived
      <4> QED BY <3>1, <4>1 DEF DocRecords
    <3> QED BY <3>2 DEF Kept, Accounted
  <2>3. ASSUME NEW u \in Timer PROVE TimerReady(u)'
    <3>1. CASE u = t
      <4>1. plan'[u].bundle = config
        BY <1>1, <2>1, <3>1 DEF Between
      <4> QED BY <1>2, <4>1 DEF TimerReady
    <3>2. CASE u # t
      <4>1. plan'[u] = plan[u]
        BY <1>1, <2>1, <3>2
      <4> QED BY <1>2, <4>1 DEF LandInv, TimerReady
    <3> QED BY <3>1, <3>2
  <2> QED BY <1>2, <2>2, <2>3, ExpireLands
<1> QED BY <1>3, <1>4

LEMMA NextDocumentLands ==
    ASSUME DocumentAssumption, Alone, DocInv, DocInv', LandInv, NEW t \in Timer, NextDocument(t)
    PROVE  LandInv'
<1>1. plan \in [Timer -> Plans]
  BY Typed DEF DocInv
<1>2. PICK d \in plan[t].docs :
         /\ StartFull(t, d, plan[t].bundle)
         /\ plan' = [plan EXCEPT ![t].docs = @ \ {d}]
  BY DEF NextDocument
<1>3. d \in Doc /\ plan[t].bundle \in BOOLEAN /\ t \in Worker
  BY <1>1 DEF Plans, Worker
<1>4. doc' = doc /\ config' = config /\ work[t].pc = "idle" /\ plan[t].phase # "idle"
  BY DEF NextDocument
<1>5. plan[t].bundle = config
  BY <1>4 DEF LandInv, TimerReady
<1>6. \A u \in Timer : plan'[u].phase = plan[u].phase /\ plan'[u].bundle = plan[u].bundle
  BY <1>1, <1>2 DEF Plans
<1>7. \A u \in Timer : TimerReady(u)'
  BY <1>4, <1>6 DEF LandInv, TimerReady
<1> QED BY <1>2, <1>3, <1>4, <1>5, <1>7, StartFullLands

LEMMA PlanningLands ==
    ASSUME DocumentAssumption, DocInv, DocInv', LandInv, NEW t \in Timer, Planning(t)
    PROVE  LandInv'
<1>1. /\ irun' = irun /\ work' = work /\ last' = last /\ doc' = doc /\ config' = config
      /\ \A v \in Timer : \/ plan'[v].phase # "idle" /\ plan[v].phase # "idle"
                             /\ plan'[v].bundle = plan[v].bundle
                          \/ plan'[v] = plan[v] \/ plan'[v] = Between
  BY PlanningIs
<1>2. \A v \in Timer : TimerReady(v)'
  BY <1>1 DEF LandInv, TimerReady, Between
<1>3. \A d \in Doc : Kept(d)
  BY <1>1 DEF Kept
<1> QED BY <1>1, <1>2, <1>3, QuietLands

LEMMA RetryCandidateLands ==
    ASSUME DocumentAssumption, Alone, DocInv, DocInv', LandInv, NEW t \in Timer,
           RetryCandidate(t)
    PROVE  LandInv'
<1>1. /\ t \in Worker /\ work[t].pc = "idle" /\ plan[t].phase = "recover"
      /\ irun' = irun /\ doc' = doc /\ last' = last /\ config' = config
      /\ \A v \in Timer : plan'[v].phase = plan[v].phase /\ plan'[v].bundle = plan[v].bundle
      /\ \/ work' = work
         \/ \E r \in Run, s \in processingStages : CheckRetry(t, r, s, plan[t].bundle)
  BY RetryCandidateIs
<1>2. \A v \in Timer : TimerReady(v)'
  BY <1>1 DEF LandInv, TimerReady
<1>3. plan[t].bundle = config
  BY <1>1 DEF LandInv, TimerReady
<1>4. CASE work' = work
  <2>1. \A d \in Doc : Kept(d)
    BY <1>1 DEF Kept
  <2> QED BY <1>1, <1>2, <1>4, <2>1, QuietLands
<1>5. ASSUME NEW r \in Run, NEW s \in processingStages, CheckRetry(t, r, s, plan[t].bundle)
      PROVE  LandInv'
  BY <1>1, <1>2, <1>3, <1>5, CheckRetryLands
<1> QED BY <1>1, <1>4, <1>5

LEMMA OperatorLands ==
    ASSUME DocumentAssumption, Alone, DocInv, DocInv', LandInv, NEW o \in Operator,
           Rerun(o) \/ RetryStage(o)
    PROVE  LandInv'
<1>1. o \in Worker /\ config \in BOOLEAN
  BY Typed DEF Worker, DocInv
<1>2. work[o].pc = "idle" /\ doc' = doc /\ plan' = plan /\ config' = config
  BY DEF Rerun, RetryStage
<1>3. \A t \in Timer : TimerReady(t)'
  BY <1>2 DEF LandInv, TimerReady
<1>4. CASE Rerun(o)
  <2>1. PICK d \in Doc : StartFull(o, d, config)
    BY <1>4 DEF Rerun
  <2> QED BY <1>1, <1>2, <1>3, <2>1, StartFullLands
<1>5. CASE RetryStage(o)
  <2>1. PICK r \in Run, s \in processingStages : CheckRetry(o, r, s, config)
    BY <1>5 DEF RetryStage
  <2>2. irun' = irun /\ last' = last
    BY <1>5 DEF RetryStage
  <2> QED BY <1>1, <1>2, <1>3, <2>1, <2>2, CheckRetryLands
<1> QED BY <1>4, <1>5

LEMMA ReviewLands ==
    ASSUME DocumentAssumption, DocInv, DocInv', LandInv, Review
    PROVE  LandInv'
<1>1. doc \in [Doc -> DocRecords]
  BY Typed DEF DocInv
<1>2. irun' = irun /\ work' = work /\ last' = last /\ plan' = plan /\ config' = config
  BY DEF Review
<1>3. PICK d \in Archived :
         doc' = [doc EXCEPT ![d].quarantined = FALSE, ![d].open = {},
                  ![d].publication = "reviewed", ![d].artifact = IF @ \in {"quarantined", "fetched", "parsed"}
                                  THEN "reviewed" ELSE @]
  BY DEF Review
<1>4. d \in Doc /\ doc[d] \in DocRecords
  BY <1>1 DEF Archived
<1>5. /\ doc'[d].rows = doc[d].rows /\ doc'[d].publication = "reviewed"
      /\ doc'[d].assessment = doc[d].assessment /\ doc'[d].text = doc[d].text
      /\ \A e \in Doc \ {d} : doc'[e] = doc[e]
  BY <1>1, <1>3, <1>4 DEF DocRecords
<1>6. \A e \in Doc : Kept(e)
  BY <1>5 DEF Kept, Accounted
<1>7. \A t \in Timer : TimerReady(t)'
  BY <1>2 DEF LandInv, TimerReady
<1> QED BY <1>2, <1>6, <1>7, QuietLands

\* The bundle comes while nobody is at work.
LEMMA ConfigureLands ==
    ASSUME DocInv, LandInv, Configure
    PROVE  LandInv'
<1>1. /\ config' = TRUE /\ doc' = doc /\ irun' = irun /\ work' = work /\ plan' = plan
      /\ last' = last
      /\ \A w \in Worker : work[w].pc = "idle"
      /\ \A t \in Timer : plan[t].phase = "idle"
      /\ last \in [Doc -> [run : Run \cup {0}, alone : BOOLEAN]]
  BY Typed DEF Configure, DocInv
<1>2. ASSUME NEW d \in Doc PROVE DocReady(d)'
  <2>1. DocReady(d) /\ Kept(d) /\ last[d].run \in Run \cup {0}
    BY <1>1 DEF LandInv, Kept
  <2>2. \A q \in Run : NoneSucceeds(q)
    BY <1>1 DEF NoneSucceeds, Succeeded
  <2> QED BY <1>1, <2>1, <2>2, DocReadyKept
<1>3. InOrder'
  BY <1>1 DEF LandInv, InOrder
<1> QED BY <1>1, <1>2, <1>3 DEF LandInv, TimerReady

LEMMA LandInvInit == ASSUME DocumentAssumption, Init PROVE LandInv
<1>1. /\ \A r \in Run : irun[r] = NoRun
      /\ \A w \in Worker : work[w].pc = "idle"
      /\ \A t \in Timer : plan[t].phase = "idle"
      /\ \A d \in Doc : doc[d].assessment = "none" /\ last[d].run = 0
  BY DEF Init, Rest, Between, NewDoc
<1>2. \A d \in Doc : DocReady(d)
  BY <1>1 DEF DocReady, NewestWasLast
<1>3. InOrder
  BY <1>1 DEF InOrder, NoRun
<1> QED BY <1>1, <1>2, <1>3 DEF LandInv, TimerReady

LEMMA LandInvNext ==
    ASSUME DocumentAssumption, Alone, DocInv, LandInv, [Next]_vars
    PROVE  LandInv'
<1>0. DocInv'
  BY DocInvNext
<1>1. CASE UNCHANGED vars
  <2>1. /\ irun' = irun /\ last' = last /\ config' = config /\ doc' = doc /\ plan' = plan
        /\ work' = work
    BY <1>1 DEF vars
  <2>2. (\A d \in Doc : Kept(d)) /\ (\A t \in Timer : TimerReady(t)')
    BY <2>1 DEF Kept, LandInv, TimerReady
  <2> QED BY <1>0, <2>1, <2>2, QuietLands
<1>2. ASSUME NEW t \in Timer, BeginCycle(t) \/ CycleFails(t) PROVE LandInv'
  BY <1>0, <1>2, BeginCycleLands
<1>3. ASSUME NEW t \in Timer, NextDocument(t) PROVE LandInv'
  BY <1>0, <1>3, NextDocumentLands
<1>4. ASSUME NEW t \in Timer, Planning(t) PROVE LandInv'
  BY <1>0, <1>4, PlanningLands
<1>5. ASSUME NEW t \in Timer, RetryCandidate(t) PROVE LandInv'
  BY <1>0, <1>5, RetryCandidateLands
<1>6. ASSUME NEW w \in Worker, BeginRetry(w) PROVE LandInv'
  BY <1>6, BeginRetryLands
<1>7. ASSUME NEW w \in Worker, StageSucceeds(w) PROVE LandInv'
  BY <1>7, StageSucceedsLands
<1>8. ASSUME NEW w \in Worker, StageFails(w) PROVE LandInv'
  BY <1>0, <1>8, StageFailsLands
<1>9. ASSUME NEW w \in Worker, Stop(w) PROVE LandInv'
  BY <1>0, <1>9, StopLands
<1>10. ASSUME NEW o \in Operator, Rerun(o) \/ RetryStage(o) PROVE LandInv'
  BY <1>0, <1>10, OperatorLands
<1>11. ASSUME NEW r \in Run, LeaseLapses(r) PROVE LandInv'
  BY <1>0, <1>11, LeaseLapsesLands
<1>12. CASE Review
  BY <1>0, <1>12, ReviewLands
<1>13. CASE Configure
  BY <1>13, ConfigureLands
<1> QED BY <1>1, <1>2, <1>3, <1>4, <1>5, <1>6, <1>7, <1>8, <1>9, <1>10, <1>11, <1>12, <1>13
        DEF Next, TimerStep, WorkStep, Planning

\* A succeeded run went through the parse, so the text is there.
LEMMA LandInvLands == ASSUME DocInv, LandInv PROVE SucceededLosesNoRow
<1> SUFFICES ASSUME NEW d \in Doc, NewestWasLast(d), irun[last[d].run].status = "succeeded"
             PROVE  NoneWaits(d) /\ (last[d].alone => doc[d].text)
  BY DEF SucceededLosesNoRow
<1>1. last \in [Doc -> [run : Run \cup {0}, alone : BOOLEAN]]
  BY Typed DEF DocInv
<1>2. last[d].run \in Run /\ last[d].run # 0
  BY <1>1 DEF NewestWasLast
<1>3. Succeeded(last[d].run, 2)
  BY <1>2, StagesDef DEF DocInv, SucceededIsWhole, Succeeded
<1> QED BY <1>2, <1>3 DEF LandInv, DocReady

\* While nobody starts work on a document another works on, the success of the newest run of a
\* document, when it was the last at work, means that every row of it is accounted for, with a
\* price or with an open quarantine record, unless it waits for a bundle; and that its text is
\* there when no older run came between.
THEOREM NoRowIsLost == ASSUME Alone PROVE Spec => []SucceededLosesNoRow
<1>1. Init => DocInv /\ LandInv
  BY DocInvInit, LandInvInit, DocumentAssumption
<1>2. DocInv /\ LandInv /\ [Next]_vars => (DocInv /\ LandInv)'
  BY DocInvNext, LandInvNext, DocumentAssumption
<1>3. DocInv /\ LandInv => SucceededLosesNoRow
  BY LandInvLands
<1> QED BY <1>1, <1>2, <1>3, PTL DEF Spec
=============================================================================
