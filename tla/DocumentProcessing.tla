------------------------- MODULE DocumentProcessing -------------------------
(***************************************************************************)
(* The processing of archived bulletins of one source: the seven stages of *)
(* foundry/src/pipeline.ts, run afresh (runPdfProcessing), one stage at a  *)
(* time (retryProcessingStage), by the recovery of failed runs and by the  *)
(* sweep of pending archives.  A timer is a `foundry sync` process: it     *)
(* processes what its source sync archived, then recovers, then sweeps.    *)
(* An operator reruns documents, retries stages and reviews documents from *)
(* the admin.                                                              *)
(*                                                                         *)
(* A step ends where the code awaits (the archive's settings, a download,  *)
(* the PDF inspector) or where a stage ends; processes interleave between  *)
(* steps and may stop there.  The end of a stage, the log lines, the       *)
(* blocking of the later stages and the end of the run or the start of the *)
(* next stage are one step.                                                *)
(***************************************************************************)
EXTENDS Integers, FiniteSets

CONSTANTS
    Doc,          \* archived documents of the source
    Row,          \* the rows a document's price table may have
    Timer,        \* `foundry sync` processes
    Operator,     \* admins at work
    MaxAttempts,  \* maxAttempts of pendingArchives and recoverFailedProcessing
    Rounds,       \* retry.attempts of the sweep
    FailAt,       \* the stages whose operation may fail
    Alone,        \* TRUE: nobody starts work on a document another works on
    MaxRuns,      \* rows of ingest_run (bound)
    MaxMishaps,   \* processes that stop half-way, downloads that fail, and cycles begun
                  \* before a mapping bundle is configured, taken together (bound)
    MaxManual     \* what operators rerun, retry and review (bound)

Run == 1..MaxRuns

Worker == Timer \cup Operator

retrieve_pdf == 1
parse_pdf == 2
extract_data == 3
validate_data == 4
insert_data == 5
assess_completeness == 6
canonicalize_data == 7

processingStages == retrieve_pdf..canonicalize_data

recoverableStages == extract_data..canonicalize_data

ASSUME DocumentAssumption ==
    /\ 0 \notin Doc
    /\ Timer \cap Operator = {}
    /\ MaxAttempts \in Nat \ {0} /\ Rounds \in Nat \ {0}
    /\ FailAt \subseteq processingStages
    /\ Alone \in BOOLEAN
    /\ {MaxRuns, MaxMishaps, MaxManual} \subseteq Nat

VARIABLES
    doc,     \* what the database holds of a document
    irun,    \* ingest_run, with the run_stage rows of each run
    work,    \* work[w]: the run a process executes, and how far it is
    plan,    \* plan[t]: what a timer still has to do in this cycle
    config,  \* TRUE once the source has a mapping bundle
    last,    \* last[d]: the run that last worked on d, and whether it is alone in that
             \* since the newest run of d began (history)
    used     \* how much of each bound is used

vars == <<doc, irun, work, plan, config, last, used>>

RowStatus == {"none", "pending_validation", "validated", "unmapped", "canonicalized",
              "quarantined", "stale"}

ArtifactStatus == {"none", "fetched", "processed", "validated", "parsed",
                   "canonicalized", "quarantined", "reviewed"}

PublicationStatus == {"discovered", "archived", "parsed", "canonicalized",
                      "quarantined", "reviewed"}

RunStatus == {"free", "running", "succeeded", "failed", "blocked"}

StageStatus == {"none", "running", "succeeded", "failed", "blocked"}

\* observed: the rows a price observation stands on; open: the rows with an open quarantine
\* record of their own; quarantined: one of the document as a whole.
NewDoc == [text |-> FALSE, rows |-> [x \in Row |-> "none"], observed |-> {}, open |-> {},
           assessment |-> "none", artifact |-> "none", publication |-> "discovered",
           quarantined |-> FALSE]

NoRun == [status |-> "free", of |-> 0, lapsed |-> FALSE, artifact |-> FALSE,
          stage |-> [s \in processingStages |-> [status |-> "none", attempts |-> 0]]]

\* A process at work on nothing.
Rest == [pc |-> "idle", mode |-> "none", run |-> 0, stage |-> 0,
         bytes |-> FALSE, items |-> FALSE, bundle |-> FALSE]

\* A timer between cycles.
Between == [phase |-> "idle", docs |-> {}, failed |-> {}, round |-> 0,
            runs |-> {}, candidate |-> <<0, 0>>, bundle |-> FALSE]

TypeOK ==
    /\ doc \in [Doc -> [text : BOOLEAN, rows : [Row -> RowStatus], observed : SUBSET Row,
                        open : SUBSET Row, assessment : {"none", "not_configured", "assessed"},
                        artifact : ArtifactStatus, publication : PublicationStatus,
                        quarantined : BOOLEAN]]
    /\ irun \in [Run -> [status : RunStatus, of : Doc \cup {0},
                         lapsed : BOOLEAN, artifact : BOOLEAN,
                         stage : [processingStages ->
                                    [status : StageStatus, attempts : 0..MaxAttempts]]]]
    /\ work \in [Worker -> [pc : {"idle", "checked", "stage"}, mode : {"none", "full", "retry"},
                            run : Run \cup {0}, stage : processingStages \cup {0},
                            bytes : BOOLEAN, items : BOOLEAN, bundle : BOOLEAN]]
    /\ plan \in [Timer -> [phase : {"idle", "new", "recover", "sweep"}, docs : SUBSET Doc,
                           failed : SUBSET Doc, round : 0..Rounds,
                           runs : SUBSET (Run \X processingStages),
                           candidate : (Run \X (1..(canonicalize_data + 1))) \cup {<<0, 0>>},
                           bundle : BOOLEAN]]
    /\ config \in BOOLEAN
    /\ last \in [Doc -> [run : Run \cup {0}, alone : BOOLEAN]]
    /\ used \in [mishaps : Nat, manual : Nat]

Init ==
    /\ doc = [d \in Doc |-> NewDoc]
    /\ irun = [r \in Run |-> NoRun]
    /\ work = [w \in Worker |-> Rest]
    /\ plan = [t \in Timer |-> Between]
    /\ config \in BOOLEAN
    /\ last = [d \in Doc |-> [run |-> 0, alone |-> TRUE]]
    /\ used = [mishaps |-> 0, manual |-> 0]

Archived == {d \in Doc : doc[d].publication # "discovered"}

Live(d) == {x \in Row : doc[d].rows[x] \notin {"none", "stale"}}

\* Who works on d: a process that executes a run of it or is about to, a timer between two
\* stages of its recovery.
WorkOn(d) ==
    {w \in Worker : work[w].pc # "idle" /\ irun[work[w].run].of = d}
        \cup {t \in Timer : plan[t].candidate[1] # 0 /\ irun[plan[t].candidate[1]].of = d}

\* Nobody else works on d, where the instance says so.
MayWorkOn(w, d) == Alone => WorkOn(d) \subseteq {w}

-----------------------------------------------------------------------------
(* Runs and their stages (db.ts).                                          *)

\* (slip) a lapsed lease is not noticed.
LapsedStay(table) == table

\* startRun first fails the runs of the source whose lease has lapsed.
ExpireLapsed(table) ==
    [r \in Run |-> IF table[r].status = "running" /\ table[r].lapsed
                   THEN [table[r] EXCEPT !.status = "failed"] ELSE table[r]]

ActiveRun(table, d) == \E r \in Run : table[r].of = d /\ table[r].status = "running"

IsNextRun(r) == irun[r].status = "free" /\ \A q \in Run : irun[q].status = "free" => r <= q

\* INSERT ... ON CONFLICT: a stage begun again counts one more attempt.
startStage(row, s) ==
    [row EXCEPT !.stage[s] =
        [status |-> "running",
         attempts |-> IF @.attempts < MaxAttempts THEN @.attempts + 1 ELSE @.attempts]]

\* blockStages: every stage after s, whatever it was.
blockStages(row, s) ==
    [row EXCEPT !.stage = [q \in processingStages |->
        IF q > s THEN [@[q] EXCEPT !.status = "blocked"] ELSE @[q]]]

\* runPdfProcessing up to the first await: startRun, and the first stage begun unless a
\* run of the document holds its lease, in which case the call returns "skipped".
StartFull(w, d, bundle) ==
    LET table == ExpireLapsed(irun)
    IN  /\ d \in Archived /\ MayWorkOn(w, d)
        /\ IF ActiveRun(table, d)
           THEN irun' = table /\ UNCHANGED <<work, last>>
           ELSE \E r \in Run :
                   /\ IsNextRun(r)
                   /\ irun' = [table EXCEPT ![r] =
                         startStage([NoRun EXCEPT !.status = "running", !.of = d], retrieve_pdf)]
                   /\ work' = [work EXCEPT ![w] = [Rest EXCEPT !.pc = "stage", !.mode = "full",
                                 !.run = r, !.stage = retrieve_pdf, !.bundle = bundle]]
                   /\ last' = [last EXCEPT ![d] = [run |-> r, alone |-> TRUE]]

\* missingProcessingInputs
InputsPresent(r, s) ==
    LET d == doc[irun[r].of]
        live == Live(irun[r].of)
    IN  \/ s = retrieve_pdf
        \/ /\ irun[r].artifact
           /\ s = extract_data => d.text
           /\ s = validate_data => \E x \in Row : d.rows[x] # "none"
           /\ s = insert_data => live # {} /\ \A x \in live : d.rows[x] = "validated"
           /\ s = assess_completeness => live # {}
           /\ s = canonicalize_data => d.assessment # "none"

\* workflowRetryState(...).canRetry
CanRetry(r, s) ==
    /\ irun[r].status \in {"succeeded", "failed", "blocked"}
    /\ irun[r].stage[s].status \in {"failed", "blocked"}
    /\ s > retrieve_pdf => irun[r].stage[s - 1].status = "succeeded"
    /\ InputsPresent(r, s)

\* retryProcessingStage up to the await of the archive's settings.
CheckRetry(w, r, s, bundle) ==
    /\ CanRetry(r, s) /\ MayWorkOn(w, irun[r].of)
    /\ work' = [work EXCEPT ![w] = [Rest EXCEPT !.pc = "checked", !.mode = "retry", !.run = r,
                                                !.stage = s, !.bundle = bundle]]

\* retireStagingRows: only rows an observation stands on are kept, as stale.
Retired(d) == [x \in Row |-> IF x \in doc[d].observed THEN "stale" ELSE "none"]

\* (slip) every late stage drops the assessment.
InvalidatedLate(d, s) ==
    IF s >= assess_completeness THEN [doc[d] EXCEPT !.assessment = "none"] ELSE doc[d]

\* invalidateProcessingOutputs
Invalidated(d, s) ==
    LET o == doc[d]
    IN  CASE s \in {retrieve_pdf, parse_pdf} ->
               [o EXCEPT !.text = FALSE, !.rows = Retired(d), !.assessment = "none",
                         !.artifact = "fetched"]
          [] s = extract_data ->
               [o EXCEPT !.rows = Retired(d), !.assessment = "none", !.artifact = "processed"]
          [] s = validate_data ->
               [o EXCEPT !.rows = [x \in Row |-> IF @[x] = "none" THEN "none"
                                                 ELSE "pending_validation"],
                         !.assessment = "none", !.artifact = "processed"]
          [] s = assess_completeness -> [o EXCEPT !.assessment = "none"]
          [] OTHER -> o

\* The rest of retryProcessingStage up to the operation: the run is running again,
\* whatever became of it and of the document since the check.
BeginRetry(w) ==
    LET r == work[w].run
        s == work[w].stage
        d == irun[r].of
    IN  /\ work[w].pc = "checked"
        /\ irun' = [irun EXCEPT ![r] =
              startStage(blockStages([@ EXCEPT !.status = "running", !.lapsed = FALSE], s), s)]
        /\ doc' = [doc EXCEPT ![d] = IF irun[r].artifact THEN Invalidated(d, s) ELSE @]
        /\ work' = [work EXCEPT ![w].pc = "stage"]
        /\ last' = [last EXCEPT ![d] = [run |-> r, alone |-> @.alone /\ @.run = r]]
        /\ UNCHANGED <<plan, config, used>>

-----------------------------------------------------------------------------
(* The operations of the stages: what each leaves in the database.         *)

\* Live rows take a status; the others keep theirs.
SetLive(d, status) ==
    [x \in Row |-> IF x \in Live(d) THEN status ELSE doc[d].rows[x]]

\* persistProcessedArtifact for a parse that found the rows in found.
Extracted(d, found) ==
    [x \in Row |-> IF x \in found THEN "pending_validation"
                   ELSE IF x \in doc[d].observed THEN "stale" ELSE "none"]

\* What each operation may leave of a document when it succeeds; nothing when its input is
\* not there and it must fail.
retrievePdf(d) == {[doc[d] EXCEPT !.artifact = "fetched"]}

parsePdf(d) == {[doc[d] EXCEPT !.text = TRUE, !.artifact = "processed"]}

extractData(w, d) ==
    {[doc[d] EXCEPT !.text = TRUE, !.rows = Extracted(d, found), !.artifact = "processed"] :
        found \in IF work[w].items \/ doc[d].text THEN SUBSET Row ELSE {}}

validateData(d) ==
    {[o EXCEPT !.rows = SetLive(d, "validated"), !.artifact = "validated"] :
        o \in IF Live(d) # {} THEN {doc[d]} ELSE {}}

insertData(d) ==
    {[o EXCEPT !.rows = SetLive(d, "unmapped"), !.artifact = "parsed", !.publication = "parsed"] :
        o \in IF Live(d) # {} /\ \A x \in Live(d) : doc[d].rows[x] = "validated"
              THEN {doc[d]} ELSE {}}

assessCompleteness(w, d) ==
    {[doc[d] EXCEPT !.assessment = IF work[w].bundle THEN "assessed" ELSE "not_configured"]}

\* What canonicalizeRow makes of the live rows: those in out, of a label the bundle does not
\* know or of a value it does not take, are put in quarantine, on record; the others have a
\* price, those in equal the one already in force, without an observation of their own.  The
\* records of rows no longer read stay open, and so may those in kept, of a bad value or of
\* a row this bundle had canonicalized before.
Canonicalized(d, out, equal, kept) ==
    [doc[d] EXCEPT
        !.rows = [x \in Row |-> IF x \in out THEN "quarantined"
                                ELSE IF x \in Live(d) THEN "canonicalized" ELSE @[x]],
        !.observed = @ \cup (Live(d) \ (out \cup equal)),
        !.open = (@ \ Live(d)) \cup out \cup kept,
        !.artifact = "canonicalized", !.publication = "canonicalized"]

\* Without a bundle the rows are retained as they are; the stage succeeds in either case.
canonicalizeData(w, d) ==
    IF work[w].bundle
    THEN {Canonicalized(d, out, equal, kept) :
             out \in SUBSET Live(d), equal \in SUBSET Live(d), kept \in SUBSET doc[d].open}
    ELSE {doc[d]}

\* executeProcessingStage
Results(w, s, d) ==
    CASE s = retrieve_pdf -> retrievePdf(d)
      [] s = parse_pdf -> parsePdf(d)
      [] s = extract_data -> extractData(w, d)
      [] s = validate_data -> validateData(d)
      [] s = insert_data -> insertData(d)
      [] s = assess_completeness -> assessCompleteness(w, d)
      [] s = canonicalize_data -> canonicalizeData(w, d)

\* (slip) a stage that is still blocked is overlooked.
NoneFailed(row, mode) == \A q \in processingStages : row.stage[q].status # "failed"

\* A run is whole when it went through its stages, or when a retry leaves none wanting.
Whole(row, mode) ==
    mode = "full" \/ \A q \in processingStages : row.stage[q].status = "succeeded"

\* parsePdf and extractData may find that the document is not for them:
\* PDF_OCR_REQUIRED, SOURCE_TEMPLATE_CHANGED, UNSUPPORTED_DOCUMENT, PDF_PARSE_FAILED.
Rejecting == {parse_pdf, extract_data} \cap FailAt

\* recordProcessingQuarantine
Quarantined(o) ==
    [o EXCEPT !.quarantined = TRUE, !.artifact = "quarantined", !.publication = "quarantined"]

\* What a timer makes of the failure of the run or the retry it awaited.
Reported(w, d) ==
    IF w \in Timer
    THEN [plan EXCEPT ![w].failed = IF plan[w].phase = "sweep" THEN @ \cup {d} ELSE @,
                      ![w].candidate = IF plan[w].phase = "recover" THEN <<0, 0>> ELSE @]
    ELSE plan

\* A stage succeeds (executeLoggedStage, heartbeatRun).  A run goes on to its next stage;
\* at its last one, or after a retry that leaves no stage wanting, completeProcessingRun
\* resolves the quarantine and the run succeeds; any other retry leaves it blocked.
StageSucceeds(w) ==
    LET r == work[w].run
        s == work[w].stage
        d == irun[r].of
        row == [irun[r] EXCEPT !.stage[s].status = "succeeded",
                               !.artifact = @ \/ s = retrieve_pdf]
        more == work[w].mode = "full" /\ s < canonicalize_data
        whole == Whole(row, work[w].mode)
    IN  /\ work[w].pc = "stage"
        /\ \E o \in Results(w, s, d) :
              IF more
              THEN /\ doc' = [doc EXCEPT ![d] = o]
                   /\ irun' = [irun EXCEPT ![r] =
                         startStage([row EXCEPT !.lapsed = @ /\ row.status # "running"], s + 1)]
                   /\ work' = [work EXCEPT ![w].stage = s + 1,
                                           ![w].bytes = @ \/ s \in {retrieve_pdf, parse_pdf},
                                           ![w].items = @ \/ s \in {parse_pdf, extract_data}]
              ELSE /\ doc' = [doc EXCEPT ![d] = IF whole THEN [o EXCEPT !.quarantined = FALSE]
                                                         ELSE o]
                   /\ irun' = [irun EXCEPT ![r] = [row EXCEPT
                         !.status = IF whole THEN "succeeded" ELSE "blocked"]]
                   /\ work' = [work EXCEPT ![w] = Rest]
        /\ UNCHANGED <<plan, config, last, used>>

\* It fails: the stages after it are blocked and the run failed.  runPdfProcessing blocks
\* the run instead when it quarantines the document; a retry never does.
StageFails(w) ==
    LET r == work[w].run
        s == work[w].stage
        d == irun[r].of
        row == blockStages([irun[r] EXCEPT !.stage[s].status = "failed"], s)
        outage == s = retrieve_pdf \/ (s = parse_pdf /\ ~work[w].bytes)
    IN  /\ work[w].pc = "stage"
        /\ \E rejected \in BOOLEAN :
              /\ rejected => s \in Rejecting
              /\ ~rejected =>
                    \/ Results(w, s, d) = {}
                    \/ s \in FailAt /\ (outage => used.mishaps < MaxMishaps)
              /\ used' = IF outage /\ ~rejected /\ s \in FailAt
                         THEN [used EXCEPT !.mishaps = @ + 1] ELSE used
              /\ IF rejected /\ work[w].mode = "full"
                 THEN /\ doc' = [doc EXCEPT ![d] = Quarantined(@)]
                      /\ irun' = [irun EXCEPT ![r] = [row EXCEPT !.status = "blocked"]]
                      /\ UNCHANGED plan
                 ELSE /\ irun' = [irun EXCEPT ![r] = [row EXCEPT !.status = "failed"]]
                      /\ plan' = Reported(w, d)
                      /\ UNCHANGED doc
        /\ work' = [work EXCEPT ![w] = Rest]
        /\ UNCHANGED <<config, last>>

\* The process stops.  A timer that stops comes back to its next cycle.
Stop(w) ==
    /\ used.mishaps < MaxMishaps
    /\ work[w].pc # "idle" \/ (w \in Timer /\ plan[w].phase # "idle")
    /\ used' = [used EXCEPT !.mishaps = @ + 1]
    /\ work' = [work EXCEPT ![w] = Rest]
    /\ plan' = [t \in Timer |-> IF t = w THEN Between ELSE plan[t]]
    /\ UNCHANGED <<doc, irun, config, last>>

\* Half an hour after the last heartbeat of a run nobody works on any more.
LeaseLapses(r) ==
    /\ irun[r].status = "running" /\ ~irun[r].lapsed
    /\ \A w \in Worker : work[w].run # r
    /\ irun' = [irun EXCEPT ![r].lapsed = TRUE]
    /\ UNCHANGED <<doc, work, plan, config, last, used>>

-----------------------------------------------------------------------------
(* `foundry sync`: the source sync, then the recovery, then the sweep.     *)

\* The source sync begins (its startRun fails the lapsed runs of the source) and records
\* the documents in found; each gets a run of its own.
BeginCycle(t) ==
    /\ plan[t].phase = "idle"
    /\ config \/ used.mishaps < MaxMishaps
    /\ used' = [used EXCEPT !.mishaps = IF config THEN @ ELSE @ + 1]
    /\ irun' = ExpireLapsed(irun)
    /\ \E found \in SUBSET (Doc \ Archived) :
          /\ doc' = [d \in Doc |-> IF d \in found THEN [doc[d] EXCEPT !.publication = "archived"]
                                                  ELSE doc[d]]
          /\ plan' = [plan EXCEPT ![t] = [Between EXCEPT !.phase = "new", !.docs = found,
                                                         !.bundle = config]]
    /\ UNCHANGED <<work, config, last>>

\* The sync throws: the source's recovery and sweep wait for the next cycle.
CycleFails(t) ==
    /\ plan[t].phase = "idle"
    /\ irun' = ExpireLapsed(irun)
    /\ UNCHANGED <<doc, work, plan, config, last, used>>

\* The next document of the sync or of the sweep.
NextDocument(t) ==
    /\ plan[t].phase \in {"new", "sweep"} /\ work[t].pc = "idle"
    /\ \E d \in plan[t].docs :
          /\ StartFull(t, d, plan[t].bundle)
          /\ plan' = [plan EXCEPT ![t].docs = @ \ {d}]
    /\ UNCHANGED <<doc, config, used>>

\* The SELECT of recoverFailedProcessing, with the candidates its loop passes over.
ListFailed(t) ==
    /\ plan[t].phase = "new" /\ plan[t].docs = {} /\ work[t].pc = "idle"
    /\ plan' = [plan EXCEPT ![t].phase = "recover",
                            ![t].runs = {c \in Run \X recoverableStages :
                                /\ irun[c[1]].status = "failed"
                                /\ irun[c[1]].stage[c[2]].status = "failed"
                                /\ irun[c[1]].stage[c[2]].attempts < MaxAttempts}]
    /\ UNCHANGED <<doc, irun, work, config, last, used>>

\* The next failed run, oldest first, unless its stage can no longer be retried.
NextCandidate(t) ==
    /\ plan[t].phase = "recover" /\ work[t].pc = "idle" /\ plan[t].candidate = <<0, 0>>
    /\ \E c \in plan[t].runs :
          /\ \A e \in plan[t].runs : c[1] <= e[1]
          /\ plan' = [plan EXCEPT ![t].runs = @ \ {c},
                                  ![t].candidate = IF CanRetry(c[1], c[2]) THEN c ELSE <<0, 0>>]
    /\ UNCHANGED <<doc, irun, work, config, last, used>>

\* The failed stage of the candidate and every stage after it, passing those that
\* succeeded and ending at the first that cannot be retried.
RetryCandidate(t) ==
    LET r == plan[t].candidate[1]
        open == {s \in plan[t].candidate[2]..canonicalize_data :
                    irun[r].stage[s].status # "succeeded"}
        next == CHOOSE s \in open : \A q \in open : s <= q
    IN  /\ plan[t].phase = "recover" /\ work[t].pc = "idle" /\ plan[t].candidate # <<0, 0>>
        /\ IF open # {} /\ CanRetry(r, next)
           THEN /\ CheckRetry(t, r, next, plan[t].bundle)
                /\ plan' = [plan EXCEPT ![t].candidate = <<r, next + 1>>]
           ELSE /\ plan' = [plan EXCEPT ![t].candidate = <<0, 0>>]
                /\ UNCHANGED work
        /\ UNCHANGED <<doc, irun, config, last, used>>

Failures(d) == {r \in Run : irun[r].of = d /\ irun[r].status = "failed"
                            /\ irun[r].stage[retrieve_pdf].status # "failed"}

HasRun(d, statuses) == \E r \in Run : irun[r].of = d /\ irun[r].status \in statuses

\* The SELECT of pendingArchives.
Pending ==
    {d \in Archived :
        /\ ~HasRun(d, {"succeeded"}) \/ doc[d].assessment = "not_configured"
        /\ ~HasRun(d, {"blocked", "running"})
        /\ Cardinality(Failures(d)) < MaxAttempts}

\* processPendingArchives reads its list once.
ListPending(t) ==
    /\ plan[t].phase = "recover" /\ work[t].pc = "idle"
    /\ plan[t].runs = {} /\ plan[t].candidate = <<0, 0>>
    /\ plan' = [plan EXCEPT ![t].phase = "sweep", ![t].docs = Pending, ![t].round = 1]
    /\ UNCHANGED <<doc, irun, work, config, last, used>>

\* A retry round over what failed in the round before, or the end of the cycle.
NextRound(t) ==
    /\ plan[t].phase = "sweep" /\ plan[t].docs = {} /\ work[t].pc = "idle"
    /\ plan' = IF plan[t].round < Rounds /\ plan[t].failed # {}
               THEN [plan EXCEPT ![t].docs = plan[t].failed, ![t].failed = {}, ![t].round = @ + 1]
               ELSE [plan EXCEPT ![t] = Between]
    /\ UNCHANGED <<doc, irun, work, config, last, used>>

-----------------------------------------------------------------------------
(* The admin (api/src/app.ts).                                             *)

\* POST runs/:id/rerun of a run of document d
Rerun(o) ==
    /\ work[o].pc = "idle" /\ used.manual < MaxManual
    /\ used' = [used EXCEPT !.manual = @ + 1]
    /\ \E d \in Doc : HasRun(d, RunStatus \ {"free"}) /\ StartFull(o, d, config)
    /\ UNCHANGED <<doc, plan, config>>

\* POST runs/:id/stages/:stage/retry
RetryStage(o) ==
    /\ work[o].pc = "idle" /\ used.manual < MaxManual
    /\ used' = [used EXCEPT !.manual = @ + 1]
    /\ \E r \in Run, s \in processingStages : CheckRetry(o, r, s, config)
    /\ UNCHANGED <<doc, irun, plan, config, last>>

\* POST knowledge-base/:publicationId/review
Review ==
    /\ Operator # {} /\ used.manual < MaxManual
    /\ used' = [used EXCEPT !.manual = @ + 1]
    /\ \E d \in Archived :
          doc' = [doc EXCEPT ![d].quarantined = FALSE, ![d].open = {},
                    ![d].publication = "reviewed", ![d].artifact = IF @ \in {"quarantined", "fetched", "parsed"}
                                    THEN "reviewed" ELSE @]
    /\ UNCHANGED <<irun, work, plan, config, last>>

\* The source gets a reviewed mapping bundle: processes read the catalog when they start,
\* so it reaches them with a deployment, between their pieces of work.
Configure ==
    /\ ~config /\ config' = TRUE
    /\ \A w \in Worker : work[w].pc = "idle"
    /\ \A t \in Timer : plan[t].phase = "idle"
    /\ UNCHANGED <<doc, irun, work, plan, last, used>>

TimerStep(t) ==
    \/ BeginCycle(t) \/ NextDocument(t) \/ ListFailed(t) \/ NextCandidate(t)
    \/ RetryCandidate(t) \/ ListPending(t) \/ NextRound(t)

WorkStep(w) == BeginRetry(w) \/ StageSucceeds(w) \/ StageFails(w)

Next ==
    \/ \E t \in Timer : TimerStep(t) \/ CycleFails(t)
    \/ \E w \in Worker : WorkStep(w) \/ Stop(w)
    \/ \E o \in Operator : Rerun(o) \/ RetryStage(o)
    \/ \E r \in Run : LeaseLapses(r)
    \/ Review
    \/ Configure

Spec == Init /\ [][Next]_vars

\* The hourly timer fires again and again, an awaited call returns, a lease nobody
\* renews lapses and a bundle is configured in the end.
Fairness ==
    /\ \A t \in Timer : WF_vars(TimerStep(t))
    /\ \A w \in Worker : WF_vars(WorkStep(w))
    /\ \A r \in Run : WF_vars(LeaseLapses(r))
    /\ SF_vars(Configure)

FairSpec == Spec /\ Fairness

-----------------------------------------------------------------------------
(* Properties.                                                             *)

\* A run succeeds only as a whole: however its stages were retried, and by whom, no stage
\* of a succeeded run is missing, failed or still to be rerun (completeProcessingRun and
\* the incomplete check of retryProcessingStage).
SucceededIsWhole ==
    \A r \in Run : irun[r].status = "succeeded" =>
        \A s \in processingStages : irun[r].stage[s].status = "succeeded"

\* The newest run of a document is the last that worked on it.
NewestWasLast(d) == last[d].run # 0 /\ \A r \in Run : irun[r].of = d => r <= last[d].run

\* A row is accounted for: canonicalized, or in quarantine with a record that is open until
\* an operator closes the document's records by hand.
Accounted(o, x) ==
    \/ o.rows[x] = "canonicalized"
    \/ o.rows[x] = "quarantined" /\ (x \in o.open \/ o.publication = "reviewed")

\* No row still read from a document is left waiting, or the document is marked as waiting
\* for a bundle, which is what makes the sweep take it up again.
NoneWaits(d) ==
    \/ doc[d].assessment = "not_configured"
    \/ /\ doc[d].assessment = "assessed"
       /\ Live(d) # {}
       /\ \A x \in Live(d) : Accounted(doc[d], x)

\* When the newest run of a document is the last that worked on it, and it succeeded, every
\* row of the document is accounted for; and its text is there, when no older run came
\* between.  It does not say that every row has a price: canonicalizeData succeeds whatever
\* it puts in quarantine.  An older run makes no such promise: a stage of it retried after a
\* newer run read the document anew finds its input, the assessment, still there, and the
\* run ends "succeeded" over other rows.  Nor does the newest when an older one has dropped
\* the text in between: its own validation takes up the stale rows that older observations
\* stand on.
SucceededLosesNoRow ==
    \A d \in Doc :
        NewestWasLast(d) /\ irun[last[d].run].status = "succeeded"
            => NoneWaits(d) /\ (last[d].alone => doc[d].text)

\* Every archived document comes to rest: it is processed with a bundle, or it is blocked for
\* an operator, or its attempts are spent.  Crashes at any step, an archive that fails for a
\* while and a bundle that comes late do not leave it behind.
Settled(d) ==
    \/ HasRun(d, {"succeeded"}) /\ doc[d].assessment # "not_configured"
    \/ HasRun(d, {"blocked"})
    \/ Cardinality(Failures(d)) >= MaxAttempts

DocumentsSettle == \A d \in Doc : (d \in Archived) ~> Settled(d)
=============================================================================
