# A TLA+ model of Lanka Price Lens

This directory models the parts of Lanka Price Lens whose correctness depends on
*order*: the notification outbox, the content calendar and the daily mails that go
through it, people's accounts, the dispatch queue and run leases of the data pipeline,
the processing of bulletins, the revision of prices, release candidates, and the copy of
prices in the warehouse. Each module is translated from the source files named in its
header; `PROJECT.json` maps every definition to the lines it stands for.

## Contents

1. [The system](#the-system)
2. [Modules](#modules)
3. [Runs](#runs)
4. [Fairness](#fairness)
5. [What is proved](#what-is-proved)
6. [Disagreements between the code and its words](#disagreements)
7. [Bounds and abstractions](#bounds-and-abstractions)
8. [What is not modelled](#what-is-not-modelled)
9. [Plan](#plan)
10. [Running it](#running-it)

## The system

Lanka Price Lens collects food prices in Sri Lanka (official bulletins as PDF,
four supermarkets' web stores), maps the labels of each source to a reviewed list
of items, and publishes prices, deals, recipes, mails and posts.

| Part | State it keeps | Operations | Why it is hard |
| --- | --- | --- | --- |
| Notification outbox (`notify`) | `notify_outbox` (SQLite) | enqueue, claimDue, markSent, reschedule, markDead, purge; `dispatchOutbox` | several callers of `dispatchOutbox` in one process interleave at every await; stale claims; crashes; lost answers; a partial unique index |
| Content calendar (`api/src/social`) | `content_item`, `content_schedule`, `content_asset` | plan, call off, Post now, the minute tick | rows read before an await are used after it; two ticks overlap; two records (calendar, outbox) must agree |
| Channel jobs, newsletters (`api/src/newsletters`, `social/jobs.ts`) | `channel_job`, `newsletter_run`, `newsletter_delivery`, `account_watch` | a tick per minute, Run now, one run per kind and day, `newsletter run` in a shell | jobs marked as run before they run, several writes without a transaction, a lock known to one process |
| Accounts (`api/src/account`) | `account`, `account_session`, `account_token`, `account_identity`, `account_telegram` | register, sign in, links in mail, password and address changes, Google, Telegram | links that live for a day beside each other, an address looked at long before it is written, requests that await a mail before they start a session |
| Community, favourites, feedback (`api`) | rows per account | request handlers | one synchronous statement each |
| Dispatch queue (`foundry/src/workflows.ts`) | `workflow_dispatch` | enqueue, claim, execute, recover, retry | several scheduler processes; stops between any two statements |
| Run leases (`foundry/src/db.ts`) | `ingest_run` | startRun, heartbeatRun, finishRun | one run per source at a time, expiry of leases |
| Retail capture (`foundry/src/retail`) | `source_artifact`, `staging_observation`, `source.paused_until` | capture, remap, import | several transactions per capture, re-captures within a day, changing mapping bundles |
| Canonicalization (`foundry/src/mapping.ts`) | `price_observation`, mapping registry | canonicalizeArtifact | revisions: which observation is in force, what superseded it |
| Document pipeline (`foundry/src/pipeline.ts`) | `archived_pdf`, `run_stage` | sync, process, retry a stage | per-stage retries over shared rows |
| Releases (`foundry/src/release.ts`) | `data_release`, a directory per version | build | two stores without a common transaction, several builders |
| Warehouse sync (`foundry/src/warehouse`) | PostgreSQL: observations, offers, views, `sync_state` | sync after each job and every evening | a cursor over change stamps, batches, retries, two syncs at once |
| Daily deals (`foundry/src/deals`) | `deal_day` | compute | none: a ranking saved per day |
| Web, admin, MCP, archive worker | none of their own | read, render | out of scope |

How they interact: a scheduler process claims a **dispatch**, which opens a **run**
that holds the lease of its source; a retail run stores an **artifact** and promotes
its rows to **observations**; the API reads them and its timers put mails and posts
into the **outbox**; `dispatchOutbox` hands them to channels. The calendar is the one
component that both writes the outbox and reads back what became of its entry.

What makes each part correct:

* *Outbox*: one live row per target and dedupe key; no two calls hold an entry; a row
  says sent only if the channel took the message; outcomes are final; every message
  gets one.
* *Calendar*: published means the platform has it, failed means it has not, and a
  failed post is not retried behind the owner's back; a queued schedule gets its outcome.
* *Dispatch queue*: a dispatch has one executor, one outcome that agrees with its runs,
  one successor per attempt, and does get its outcome whatever stops.
* *Run leases*: one worker per source while leases are kept up.
* *Retail capture*: the day has one current snapshot, each product and label one price in
  force, taken from that snapshot under the mapping it was promoted with; history can be
  followed; promoting again changes nothing.
* *Canonicalization*: one price in force for a label and for an item at a market, the one
  of the later publication, under a mapping somebody reviewed, whichever process comes
  between the bundle and the rows.
* *Document pipeline*: a run that succeeded did so in every stage and left no row waiting:
  each is canonicalized or in quarantine, on record; no archived document is left behind.
* *Releases*: a recorded candidate has its files; it draws on documents whose last run left
  nothing in quarantine.
* *Warehouse*: nothing behind the cursor is missing, or stale while syncs run one at a
  time, and the copy catches up.
* *Mails*: an account hears once a day of a kind, an alert waits its week, a run that says
  sent has queued its mails and their copies, the days go on being served.
* *Accounts*: one account per address, a verified address was proved, only the latest link
  works, chats and accounts pair, a Google user keeps the account.

## Modules

| Module | Models | Role |
| --- | --- | --- |
| `OutboxPromise` | what `outbox.ts` promises to those who enqueue | abstract specification |
| `Outbox` | `notify/src/outbox.ts`, `store/sqlite.ts` | detailed specification, implements `OutboxPromise` |
| `ContentPublish` | `api/src/social/publish.ts`, calendar part of `library.ts`, the tick of `app.ts` | extends `Outbox`: the composition of the two |
| `OutboxProofs` | theorems about `Outbox`, and over them about `ContentPublish` | TLAPS |
| `WorkQueue` | what `workflows.ts` promises to those who enqueue work | abstract specification |
| `WorkflowDispatch` | `foundry/src/workflows.ts`, `scheduler.ts`, `retry.ts`, the leases of `db.ts` | detailed specification, implements `WorkQueue` |
| `DispatchProofs` | theorems about `WorkflowDispatch` | TLAPS |
| `RetailCapture` | `foundry/src/retail/capture.ts`, `remap.ts`, `artifact.ts`, `canonicalizeRow` of `mapping.ts` | specification of one store and day |
| `CaptureProofs` | theorems about `RetailCapture` | TLAPS |
| `DocumentProcessing` | the processing side of `foundry/src/pipeline.ts`, its part of `db.ts` and `cli.ts` | specification of the stages of a source's documents |
| `DocumentProofs` | theorems about `DocumentProcessing` | TLAPS |
| `Canonicalization` | `foundry/src/mapping.ts` | specification of one source and day of bulletins, several processes |
| `DataRelease` | `foundry/src/release.ts` | extends `Canonicalization`: builders over changing prices |
| `ReleaseProofs` | theorems about `Canonicalization` and `DataRelease` | TLAPS |
| `WarehouseSync` | `foundry/src/warehouse/sync.ts`, `offers.ts`, `schema.ts` | specification of SQLite, the syncs and PostgreSQL |
| `WarehouseProofs` | theorems about `WarehouseSync` | TLAPS |
| `Mailings` | `api/src/newsletters`, `social/jobs.ts`, the job routes | specification of the clock, the jobs and the day's runs |
| `MailingsProofs` | theorems about `Mailings` | TLAPS |
| `Accounts` | `api/src/account`: `service.ts`, `store.ts`, `routes.ts`, `google.ts`, `telegram.ts` | specification of accounts and their links |
| `AccountsProofs` | theorems about `Accounts` | TLAPS |
| `MC...` | | constants for TLC |

Operators under a comment that begins with `(slip)` are plausible mistakes in the
operator that follows them. They are not part of the model: each is put in the place
of the real operator to see the property it endangers fail.

### Outbox

`row` is the table, in the order of insertion; `pc`, `batch` and `cur` are the local
variables of concurrent calls of `dispatchOutbox` (`claimed`, `entry`). A step is the
code between two awaits: `Claim` is `claimDue` (one transaction), `StartSend` runs to
the `await channel.send`, `Take` is the provider's doing, and `SettleSent`,
`Reschedule`, `GiveUp`, `Refuse`, `ReportGone`/`SettleGone` are the branches on the
delivery with the write they end in. `Marked` is the unguarded `UPDATE ... WHERE id`,
`Refused` the unique index that throws out of the loop. `taken` and `tries` are history:
what the outside world saw. Time is relative: each row carries its `wait`
(`next_attempt_at` minus now) and its `age` (now minus `updated_at`); `Tick` moves both.

### ContentPublish

Extends `Outbox` with the schedules and with what a concurrent call remembers: the due
rows it read (`todo`), the schedule it is at, the outcome `onEvent` caught. A call is a
minute tick, an admin's Post now, or the mail timer (`Timer`), in turns; the minute timer
does not wait for its previous tick, so two ticks may be among them. `publishSchedule`
marks, enqueues and claims before its first await, so that is one step (`BeginSend`); the
sends are the outbox's own actions (`Deliver`); the code after the await is `ReturnSent`
or `ReturnFailed`. `publishBlocker` may find the account missing at any time. `faults` is
history: whether the process has stopped, and whether an answer was lost, which is what
the properties excuse. The cascade of deleting an item and the in-process purge (which the
application never calls) are not included.

### WorkflowDispatch

`disp` and `run` are the tables, `proc` where each process stands. A step is one
transaction or statement. `Look` is the SELECT of `recoverInterruptedDispatches`,
`Recover` the transaction after it: the window between the two is the code's. `Recovered`
is the three-way decision on a dispatch's newest run. `StartRun` includes the expiry
of old leases. `QueueRetry` and `Report` are the two writes of `failDispatchWithRetry`.
The command line's runs (`CliStart`, `CliReport`, `CliAgain`) share the leases and retry
in place. What a run does with data is left out: a run ends in one of the ways
`retry.ts` tells apart. The dispatch that sweeps documents (it succeeds without a run)
and the per-document runs are left out.

### RetailCapture

One store, one day. `art` holds the artifacts with the status of their staging rows,
`obs` the observations. `Store` is `storeSnapshot` (with the content hash dedupe and the
staling of earlier snapshots), `Canonicalize` decides whether to promote, `PromoteRow`
is `canonicalizeRow`, one row of the promoting transaction at a time (no other action is
enabled that reads what is half done, and the process does not stop inside it),
`EndPromotion` the update of `mapping_version` that follows in its own statement, `Remap`
is `remapRecentSnapshots`, `Review` the deployment of a newer bundle. The three keys of
an observation are kept apart: the staging row, the lineage (label and pack), and the
effective key (label and item).

### DocumentProcessing

`doc` is what the database holds of a document (rows and their status, the artifact, the
assessment), `irun` the runs with their seven stages, `work` where each process stands,
`plan` what a `foundry sync` timer still has to do: process what it archived
(`NextDocument`), recover failed runs (`ListFailed`, `NextCandidate`, `RetryCandidate`),
sweep what was never processed (`ListPending`, `NextRound`). `BeginRetry` is
`retryProcessingStage`, `StageSucceeds` and `StageFails` a stage with what follows it
before the next await, `ExpireLapsed` the leases `startRun` ends. What a stage does to rows
is kept as far as later stages, `pendingArchives` and the assessment read it.
`Canonicalized` is what `canonicalizeRow` may make of the live rows: quarantine, on record,
for an unknown label or a bad value; a price of its own (`observed`); or none of its own,
where an equal one is in force. Which rows these are is left open here (`Canonicalization`
decides it); the stage succeeds either way, and without a bundle it retains the rows. A
review by hand closes the records and leaves the rows (`Review`). `last` is
history: which run worked on a document last, and whether no older run did since the newest
began.

### Canonicalization and DataRelease

`registry`, `mapping` and `markets` are what `syncMappingBundle` writes in its own
transaction; `txn` is the transaction that promotes rows afterwards, one row at a time with
everyone else shut out, in the order of the rows. A row is resolved through the stored mapping or a pattern (which
learns), quarantined, or made an observation; `predecessors`, `candidateWins` and what is
superseded are `canonicalizeRow`. Prices and quarantine records carry the run they were made
in; a document may be read again in a further run (`ReadAgain`), which resets its rows and
leaves prices and records alone, and a person may close its open records (`Review`), which
leaves its rows alone. `past` is history: the run in which each document last went through.
`DataRelease` adds builders: reading the prices in
force, the gate over the quarantine of their runs and the write beside the target, the rename, the record,
each a step, and a stop anywhere.

### WarehouseSync

`obs` is SQLite, every change stamped with the clock; `copy`, `saved`, `offers`, `daily`
and `latest` are PostgreSQL. A sync (`syn`) goes through its statements: `ReadRefs`,
`UpsertRefs`, `ReadCursor`, then `ReadBatch`/`CommitBatch` (or `RejectBatch`, when a
publication of the batch is not there, which ends the sync), offers and views. An answer
to a commit may be lost. `Weather` says whether a behaviour has overlapping syncs or
failures.

### Mailings

Time is a minute of the day. `TimerFires`, `TickLists`, `NextJob`, `TickEnds` are the tick
of `scheduler.ts`, `jobIsDue` its rule, `RunByHand` the admin's and the shell's ways to run
a job, `RunCompletes`, `RunFails` and `CutOff` what becomes of a run, `evaluateWatch` the
alert rule with its marks. `MailsQueued` is the loop over the recipients with its commits in
the order of `service.ts`: mail, chat copy, mark. A stop ends the loop between any two of
them, an error ends one recipient's turn and no other's; who got how far is history
(`uncopied`, `unmarked`). The jobs a tick still
has to run are kept as their places in the catalogue `JobOrder`, and `NextJob` takes the
first. The outbox is reduced to its rows and the dedupe key; what a dispatch makes of them
is `RowSettles`.

### Accounts

`account` maps the ids that exist to their rows; `token` are the links, `issued` their
order, `identity` and `chat` the two unique pairings, `waiting` the requests between their
writes and the session they start after a mail. One action per handler; what a handler
checks is its guard. `proved` is history: which account showed to hold which address.

## Runs

| Run | Instance | Shows |
| --- | --- | --- |
| `Outbox` | 2 rows, one key, two channels of which one is configured, two dispatchers, crashes, lost answers, timely calls | unique key, exclusive claims, sent was taken, outcomes final, implements `OutboxPromise`, every message settles |
| `Content` | 2 schedules, 2 rows, two calls of any sort (interchangeable: symmetry), lost answers, a stop before any other fault | a queued schedule is held by a call, a second copy takes a fault, published is out, failed is not retried |
| `Dispatch` | 1 job, 3 attempts, one scheduler that may stop anywhere, fair | outcomes agree with runs, one dispatch per attempt, every dispatch settles |
| `DispatchTwo` | 2 jobs, 2 attempts, two schedulers (symmetry) and a command line, timely | one worker per source, failures are retried, implements `WorkQueue` |
| `Capture` | 2 packs of one label, 2 prices, 3 bundle versions, 2 artifacts, 5 observations | one price in force, snapshot in force, history ends, promotion idempotent |
| `CaptureFlap` | 2 labels, one bundle, no stops (`MayCrash` FALSE) | **violation** of `LatestCaptureInForce`: prices A, B, A |
| `Documents` | 1 document, 1 row, a timer and an operator, 6 runs, a mishap, a manual act, fair; the archive, the parse and the validation may fail | succeeded is whole, succeeded loses no row, documents settle |
| `Releases` | 2 bulletins, one of them read twice, 2 labels, 3 bundles of 2 versions, two processes, two builders (symmetry), two of these four at a time | one price in force, the later publication's, reviewed; recorded candidates have files; nothing in quarantine of the last run |
| `Warehouse` | 3 rows, 3 stamps, batches of two, two syncs that overlap, or one at a time that fails, fair | no row behind the cursor is missing (nor stale, unless syncs overlapped), the copy catches up |
| `Mailings` | one alert mail, one account with a chat, days of 3 minutes, a shell, a stop | once a day, sent means queued, alerts wait, days served |
| `MailingsGoOn` | a post and an alert mail on one tick, days of 3 minutes of which one is caught up, fair | mails keep going |
| `Accounts` | 2 accounts, 2 addresses, 2 Google users, 2 chats (symmetry), 2 links | address, verification, links, chats, Google |

`CHECK_DEADLOCK FALSE` is set in every run: each instance has bounds on what is ever
enqueued, planned or stored, so all of them come to rest, as the system does when it has
nothing to do. What must not come to rest early is stated as a liveness property.

Every property of a passing run has a mutant in `PROJECT.json`: a plausible slip in one
definition under which TLC finds that property violated.

## Fairness

* `Outbox!Fairness`: a call of `dispatchOutbox` proceeds (JavaScript runs its
  continuations, every channel has a timeout), the timer claims again every minute
  (`setInterval`), time passes, and the process is not restarted for ever. `Take` is not
  fair: a provider owes nothing.
* `WorkflowDispatch!Fairness`: the loop of `startScheduler` keeps calling
  `schedulerTick`, which recovers, then claims until nothing is left (strong fairness of
  `Claim`: another process may take the available dispatch first, each tick looks again);
  a process at work goes on; time passes; stops end. `Tick` has strong fairness because
  under `Timely` it is enabled only between the steps of processes, which is how the
  model says that steps are quick against minutes.

* `DocumentProcessing!Fairness`: the hourly timer fires again, an awaited call returns, a
  lease nobody renews lapses, and a bundle is configured in the end (strong fairness: it
  may be disabled in between by work under way). Operators owe nothing.
* `Mailings!Fairness`: the interval fires, a tick goes on, what is awaited returns and not
  for ever with a failure (strong fairness of `RunCompletes`), minutes pass, a stopped API
  comes back (`restart: unless-stopped`). A tick lists its jobs with strong fairness *in the
  minute of each job*: a timer that is late day after day, always until the catch-up is
  over, would be fair without it.
* `WarehouseSync!Fairness`: a sync goes on and is started again every evening, and
  failures end.

No fairness is assumed of enqueueing, of changes, of crashes, of people, or of a command
line being started. `Content`, `Capture`, `Releases` and `Accounts` are safety only.

## What is proved

Every theorem holds for every value of the constants that the module's named assumption
allows: any sets of keys, rows, people, processes, and any limits. Each proof has the same
shape: an inductive invariant (mostly called `IInv`), one lemma per action, split by the
conjuncts the action can disturb, a statement that every step keeps it, and the theorems
below as consequences. Each inductive invariant was checked by TLC on an instance before it
was proved. Where a theorem needs more than the module's assumption, its statement says so
as a hypothesis, and the text below where the code gives it.

### OutboxProofs: the outbox

| Theorem | Statement |
| --- | --- |
| `TypeCorrect` | `Spec => []TypeOK` |
| `KeysUnique` | `Spec => []LiveKeyUnique` |
| `SentTaken` | `Spec => []SentWasTaken` |
| `Exclusive` | `Spec => []ClaimsExclusive`, when calls are timely |
| `Implements` | `Spec => KeepsPromise`, when calls are timely |
| `Final` | `Spec => SettledIsFinal`, when calls are timely |

    Base == TypeOK /\ HoldInv /\ LiveKeyUnique /\ SentWasTaken
    IInv == Base /\ ClaimsExclusive

`HoldInv` says what a call knows of the rows it holds: a call that waits for the answer of
a taken message had it taken (needed by `SentWasTaken`), a call holds a row once (needed
when an entry leaves the batch for `cur` and `ClaimsExclusive` must survive), and a row
never inserted has no key. `LiveKeyUnique` needs the index at two places, `enqueue`'s look
and `Refused`, and nothing of the dispatchers: it holds without `Timely`.
`ClaimsExclusive` needs `Timely`: a row in the hands of a call is younger than `Stale`, so
`IsDue` does not offer it to another; without the assumption it is false. The lemma of each
action therefore proves `Base'` from `Base`, and apart from it that `ClaimsExclusive` is
kept, so that the calendar can use the first half where the second is not to be had.
`Implements` follows the actions: a claim, a crash and a tick stutter, `Take` is `Take`,
`SettleSent` is `Confirm` because `HoldInv` gives `taken > 0` and `ClaimsExclusive` that the
row is still pending.

### OutboxProofs: the calendar

| Theorem | Statement |
| --- | --- |
| `PostsTypeCorrect` | `PostsSpec => [](TypeOK /\ PostsTypeOK)` |
| `OutWasTaken` | `PostsSpec => []PublishedIsOut` |
| `Held` | `PostsSpec => []QueuedIsHeld`, when `Timely /\ RetriesLater` |
| `Buried` | `PostsSpec => []NotRetried`, when `Timely /\ RetriesLater` |
| `Once` | `PostsSpec => []OutOnce`, when `Timely /\ RetriesLater` |

    PostsInv == /\ Base /\ PostsTypeOK /\ KnownInv /\ PublishedIsOut
                /\ "stop" \notin faults => QuietInv

`OutWasTaken` assumes nothing: `KnownInv` says that an outcome a call caught is that of an
entry under its own schedule's key, taken if it says sent, and no later write of the outbox
takes that back. The other three speak of the time before the process stops, and of calls
that end before a claim is stale. They rest on `QuietInv`: every row that could still be
sent has a call of its own schedule behind it (`RowOwned`, `CallOwns`). `publishSchedule`
enqueues, claims and sends what it enqueued, and buries at once what did not go out; as long
as that chain is not cut, no row is ever due to another call. So the theorems need neither
that the limit of a claim covers the calendar nor that the backoff is longer than a call,
both of which the instance has; what they do need is `RetriesLater`, that a rescheduled row
is not due in the very moment it is put back. The code gives it: a channel's `Retry-After`
counts only if it is above zero (`channel.ts:60`, `telegram.ts:37`) and the backoff starts
at a minute.

### DispatchProofs

| Theorem | Statement |
| --- | --- |
| `TypeCorrect` | `Spec => []TypeOK` |
| `OneEachAttempt` | `Spec => []OneDispatchPerAttempt` |
| `OneAtWork` | `Spec => []OneWorker`, when leases are renewed in time |
| `OneHand` | `Spec => []OneHolder`, in time and without crashes |
| `Retries` | `Spec => []FailureIsRetried`, in time and without crashes |
| `Implements` | `Spec => KeepsQueuePromise`, in time and without crashes |
| `Agrees` | `Spec => []OutcomeOfRuns`, when one process runs the scheduler |

    IInv == /\ TypeOK /\ RowInv
            /\ Timely => WorkInv
            /\ Timely /\ ~MayCrash => HoldInv

Three layers, each under what it needs. `RowInv` relates the rows: a retry is one attempt
after the dispatch it retries, and what processes and runs point at exists. It is why the
idempotency key works although it names the *root* of a chain of two: `KnownIsOwn` shows
from the attempts that a retry found under the key is the dispatch's own. `WorkInv` says a
worker's run is running with a lease that has not lapsed; `startRun` then finds it and
refuses. `HoldInv` says where each dispatch is: one that waits has neither holder nor run,
one that runs has its holder, whose step says what its run came to. The heart of
`Implements` is `RecoveredHeld`: a dispatch that was selected as interrupted and is still
held is past `Cutoff`, so its holder has a live run (it is left alone) or has finished it,
and the outcome that recovery derives from the run is the one the holder will write.

`Agrees` needs another invariant, because it speaks of stops and of leases that lapse, where
`HoldInv` holds no more. `SoleInv` rests on there being one scheduler: a dispatch that runs
is in its hands or in nobody's. Then a run that succeeded is the newest of its dispatch, no
run is opened after it, and whoever writes the outcome, the scheduler or its successor after
a stop, finds it. It needs neither `Timely` nor the absence of stops; command lines may take
the lease at any time, as their runs belong to no dispatch.

### ReleaseProofs

| Theorem | Statement |
| --- | --- |
| `TypeCorrect` | `Spec => []TypeOK` |
| `OnePrice` | `Spec => []OneInForce` |
| `Later` | `Spec => []LaterIsEffective` |
| `Reviewed` | `Spec => []PriceIsReviewed` |
| `Recorded` | `Spec => []RecordedIsThere` |
| `Whole` | `Spec => WholeDocuments` |

    IInv == /\ TypeOK /\ HandInv /\ PricesInv /\ BundleInv
            /\ WholeInv /\ CandidateInv /\ RecordedIsThere

`PricesInv` carries `Later` past the moment when a price is replaced: what is superseded
is *covered*, by a successor in force of the same or a later publication, or its label
reads differently by now. `BundleInv` relates mappings to registered bundles, `HandInv`
what the open transaction has in hand, `WholeInv` that a quarantined row has an open record
of the run it was last at hand in, and
`CandidateInv` what a builder has written beside the target.

Proving `Later` showed that its first wording, "no observation of a later document is out
of force", was true of the instance only: with a third row of a label, a bundle that moves
the label leaves an observation that no longer stands for anything. The statement was
corrected (`Reread`), and the instance has five rows, with which the first wording fails.

### CaptureProofs

| Theorem | Statement |
| --- | --- |
| `TypeCorrect` | `Spec => []TypeOK` |
| `OnePrice` | `Spec => []OnePriceInForce` |
| `OneCurrent` | `Spec => []OneCurrentSnapshot` |
| `History` | `Spec => []HistoryEnds` |
| `CurrentInForce` | `Spec => []SnapshotInForce` |
| `Idempotent` | `Spec => PromotionIsIdempotent` |

    IInv == /\ TypeOK /\ ObsInv /\ ArtInv /\ JobInv /\ OnePriceInForce /\ HistoryEnds
            /\ ~Rollback => VersionInv
            /\ ~Rollback /\ PacksDiffer => SettledNow /\ SettledDone
            /\ ~Rollback /\ LabelsDecide => ForceMade /\ ForceRows

`OnePrice`, `OneCurrent` and `History` hold of any bundles, also of versions that come
back. `Idempotent` rests on `Settled`: what it takes for a row to change nothing when it is
promoted once more. It has four forms, and the proof shows that no later row of the same
promotion undoes one, only turns it into another: a price that was there already may be
superseded by another pack of its label, which then stands for it. `CurrentInForce` rests
on `InForce`: a price may be superseded, but by one that the current snapshot shows for
the same label, because the only price an older snapshot can lose to is of the last.

`HistoryEnds` is stated without recursion, as "every set of observations has one that was
not superseded by a member"; a step preserves it because the price all others are
superseded by is itself in force, and what is in force was superseded by nothing.

The proof again corrected two statements that the instance had not contradicted. Both now
name what they rest on: see *Disagreements*.

### DocumentProofs

| Theorem | Statement |
| --- | --- |
| `DocumentsTypeCorrect` | `Spec => []TypeOK` |
| `RunsEndWhole` | `Spec => []SucceededIsWhole` |
| `NoRowIsLost` | `Spec => []SucceededLosesNoRow`, when `Alone` |

    DocInv  == TypeOK /\ BegunInv /\ AtWorkInv /\ FreshInv /\ SucceededIsWhole
    LandInv == /\ InOrder /\ \A t \in Timer : TimerReady(t)
               /\ \A w \in Worker : work[w].pc # "idle" => HandReady(w)
               /\ \A d \in Doc : DocReady(d)

`RunsEndWhole` assumes nothing of who works beside whom. A retry looks at every stage before
it calls its run succeeded; a run executed afresh does not, and needs `FreshInv`: nobody
else has the run, the stages before the present one succeeded and those after were never
begun. `NoRowIsLost` assumes `Alone`, what `docs/workflows.md:26` expects of the leases;
`retryProcessingStage` (`pipeline.ts:285`) does not ask them, so the theorem says nothing of a
retry beside another run. Nor does it say that each row has a price: a run succeeds
whatever its last stage puts in quarantine, and the theorem says that this is on record
(`CanonicalizedIs`), until a person closes the record. A stage leaves the document ready for the next one (`Leaves`), and `HandReady` says what a
process counts on while it is at a stage: a run afresh is the newest of its document and has
rows from its fifth stage on, a retry has the input that `missingProcessingInputs` asked for
and has made away with what depends on it. `DocReady` is what is left between the two: an
assessment stands on rows, a text is there for the run that parsed it last, and the property
itself.

Looking for `LandInv` showed that the property's first wording, "what the newest run left, if
it succeeded, is done and its text is there", was true of the instance only. With two
stages that fail and four manual acts TLC finds the way out: the retry of an older run's
parse drops the text (`invalidateProcessingOutputs`) and fails, the newest run's own failed
validation is retried, finds rows that are stale (`missingProcessingInputs` counts any row),
sets them all to wait again, and the run ends succeeded without a text. The text is
therefore promised only when no older run came between, which is what `last` remembers.

### AccountsProofs

| Theorem | Statement |
| --- | --- |
| `TypeCorrect` | `Spec => []TypeOK` |
| `OneAddressEach` | `Spec => []OneAccountPerAddress` |
| `Verified` | `Spec => []VerifiedWasProved` |
| `Latest` | `Spec => []OnlyLatestWorks` |
| `Paired` | `Spec => []ChatsPair` |
| `Kept` | `Spec => SubjectKeepsAccount` |

`VerifiedWasProved` is not inductive: following a link proves the address it was mailed
to, which is the account's address only because of `LinkFits` (while an account is
unverified, its verify links went to the address it has now). `OnlyLatestWorks` rests on
the links being deleted per kind before one is issued.

### WarehouseProofs

| Theorem | Statement |
| --- | --- |
| `TypeCorrect` | `Spec => []TypeOK` |
| `CursorIsSafe` | `Spec => []CursorCovers`, when `Apart` |

    IInv == TInv /\ Core
    Core == StampsPassed /\ RowsRead /\ BatchWhole /\ OneSync /\ CursorsCover

`CursorCovers` speaks of the saved cursor; what makes it inductive is what a sync has in
hand. `RowsRead`: a row of the batch is as SQLite has it, or has been stamped since, later
than anything in the batch. `BatchWhole`: between the cursor a batch was read from and its
last row nothing is left out but rows stamped since. So committing the batch and moving the
cursor to its last row covers what it passes. `OneSync` is used where the rows must not be
stale and not merely there. `Apart`, no two transactions with one stamp, is necessary: the
hazard at `sync.ts:97` is the counterexample without it. That a batch has a last row, which
`CursorOf` takes with `CHOOSE`, is a lemma (`LastIsRead`), by well-founded induction.

### MailingsProofs

| Theorem | Statement |
| --- | --- |
| `TypeCorrect` | `Spec => []TypeOK` |
| `OneADay` | `Spec => []OnePerDay` |
| `SentIsThere` | `Spec => []SentMeansQueued` |
| `AlertsWait` | `Spec => AlertWaits` |
| `DaysServed` | `Spec => []DayIsServed` |

    IInv == TInv /\ CallInv /\ QueueInv /\ SentMeansQueued /\ WatchInv /\ DayInv

None of them assumes anything of stops, shells or the length of a day. `QueueInv` is what
the dedupe key gives: a row holds the key of what it says and to whom, so that the look
before enqueueing is a look for a mail alike; and a mail to an account with a chat has its
copy beside it, or the account is among those whose turn ended between the two commits.
`SentIsThere` follows although an earlier run may have queued the mail: a refused key is a
row that says the same.
`CallInv` gives each call the row it writes: a run under way has a row that no other call
has, also when midnight turns today's rows into yesterday's under it. `WatchInv` joins
`account_watch` to the history of what an account heard: a mark that is remembered is one
under the person's limit, so an alert in force is found again, unless its turn of the loop
ended before the mark. `DayInv` is stronger than the property it proves: *at every moment* an owed
mail is listed, awaited by the tick, or served; a run refused or failed is what `calm`
excuses, and what a stop cut off is in `torn`.

Reading the model for the proof changed it in three places, none of which changed a result:
the tick's jobs are places in the catalogue and no longer a filtered sequence, the newest
row is chosen as the greatest one, and the status of a run is no longer a `CASE` with two
guards that may hold at once, which TLC reads in order and the logic does not.

### Only model-checked

* Liveness is beyond the prover: `EverySettles`, `EveryDispatchSettles`,
  `DocumentsSettle`, `MirrorsInTheEnd`, `MailsKeepGoing`.

Every safety property that a passing run checks is stated by a theorem.

## Disagreements

`CaptureFlap` is a run that TLC must find violated, and `PROJECT.json` quotes the line it
contradicts: prices A, B, A within one day leave B in force, because the third capture is
the first artifact again and is not promoted a second time.

Met while modelling, and listed as hazards at their lines (no run of their own; the notes
say which property fails when the behaviour is let in):

* a batch that outlives the stale window is claimed and sent again (`outbox.ts:83`);
* a tick overwrites as failed what an overlapping tick published (`publish.ts:113`), and
  posts a schedule that was called off meanwhile (`library.ts:217`);
* a stop during a send leaves the schedule queued (`publish.ts:76`);
* two schedulers may recover and execute one dispatch after a stop (`workflows.ts:277`),
  which is why `OutcomeOfRuns` speaks of one scheduler,
  and a stop between a failed run and its retry loses the retry (`workflows.ts:297`);
* a fetch longer than its lease overlaps with the next run (`capture.ts:133`);
* a label dropped by the new bundle keeps its price when an earlier snapshot of the day
  had the same price (`mapping.ts:599`), and a bundle that swaps two labels loses a price
  (`mapping.ts:480`);
* of two products with the same name and pack in one snapshot, the first finds its price in
  an earlier snapshot, loses it to the second, and wins it back when the snapshot is
  promoted again (`mapping.ts:457`), although `docs/canonical-taxonomy.md:32` calls
  reprocessing with the same version idempotent: `PromotionIsIdempotent` assumes
  `PacksDiffer`;
* patterns may map the packs of one label differently (`units`, `min_quantity`): the pack
  whose price stands for the label may then move to another item and leave the other pack
  canonicalized and without a price (`mapping.ts:457`): `SnapshotInForce` assumes
  `LabelsDecide`;
* two warehouse syncs that overlap may leave an old row behind the cursor until a full
  sync: the last batch of one, being short, is committed late and sets copy and cursor
  back, and the other moves the cursor past the row (`sync.ts:115`), although
  the comment at `sync.ts:75` says "a rerun only sends what changed" and calls the sync
  idempotent. With batches of one the case does not exist, which is why the instance has batches of two;
* a retry of a stage may run beside the sweep on one document (`pipeline.ts:285`);
* the last stage of an older run, retried by the recovery after a newer run read the
  document anew and failed, needs no more than an assessment to be there
  (`missingProcessingInputs`), succeeds over rows that are not validated, and its run ends
  succeeded, so that the sweep takes the document for done (`pipeline.ts:349`):
  `SucceededLosesNoRow` speaks of the newest run. When the older run failed at its parse,
  the newest one may itself be finished over rows of old, and without a text
  (`pipeline.ts:1195`, `pipeline.ts:1247`): the property promises the text when no older run
  came between;
* the release gate asks for open quarantine of the runs its prices were promoted in
  (`release.ts:131`): a document read again in a new run keeps the unchanged prices of the
  old one, and what the new run quarantines of it does not block the candidate, although
  `docs/release-process.md:50` says "An open quarantine record blocks candidate creation"
  (line 32 says "in contributing runs"). `WholeDocuments` speaks of prices of the last run;
  without that premise TLC finds, after 16 states, a partial document that is not being
  read again;
* a deploy over the minute of a job loses that day's mail (`scheduler.ts:60`);
* a stop or an error between a mail and its chat copy loses the copy: the next run of the
  day finds the mail, skips its recipient as a duplicate and is recorded as sent
  (`newsletters/service.ts:232`);
* a stop or an error between an alert's mail and its mark repeats the alert the next day,
  within the week it should wait (`newsletters/service.ts:245`).

## Bounds and abstractions

* *Outbox*: a message is its key and its channel. `taken` stops at 2 (once or more than
  once), ages at `AgeCap`, waits at `-Horizon`. Two rows suffice for a key's successor
  and its predecessor to meet and for a batch of two; two dispatchers for an overlap;
  `Stale = 2` lets a claim be fresh, old, and stale; `MaxAttempts = 2` has a retry and a
  last attempt. A `Limit` of 2 or 3 never cuts the batch; the theorems hold for any limit.
* *ContentPublish*: `Limit` is at least the number of rows, as 200 is against the
  calendar; `Backoff` is longer than a timely call, as a minute is against a send; the
  theorems need neither.
  `MaxFaults` bounds the faults; a stop comes before lost answers, so that a property may
  excuse one without the other. The two calls are interchangeable.
* *WorkflowDispatch*: one source; `MaxJobs` first attempts, `MaxDispatches` rows,
  `MaxRuns` runs. `RunsLeft` bounds the crashes so that every dispatch can still open a
  run: otherwise the bound, not the code, would keep a dispatch from settling.
* *RetailCapture*: an artifact is the price of each product, or its absence; publications
  differ by day only, so one day is one publication and the order of fetching decides.
  Two artifacts give every pair of an earlier and a later snapshot; `CaptureFlap` needs
  no third, its third capture being the first artifact again. `MayCrash` is FALSE there: a
  stop in the middle of a promotion would leave an older price in force too, and the run
  is about the change back (with `Identical` narrowed to the artifact that is current, no
  state violates the property). `Rollback` is FALSE in the
  runs: a bundle version does not come back. The two packs of the instance differ and are
  mapped alike (`PacksDiffer`, `LabelsDecide`), so no property holds there by its premise.
* *DocumentProcessing*: `Alone` keeps an operator from a document that another process
  works on (see the hazard at `pipeline.ts:285`), `MaxMishaps` bounds stops and lapses,
  `FailAt` names the stages that may fail beside for want of their input: in the run the
  archive, the parse (which may reject the document too) and the validation, the first that
  recovery retries. A seventh run would never begin. One row may be found or not, go to quarantine
  or get a price of its own or an equal one, again and again; how rows differ from each
  other is for the theorems, which hold for any. An open record is kept per row, without its
  reason: that one of a bad value outlives the row's correction (`mapping.ts:651`) is a
  choice of `Canonicalized`. What triggered a run is left out: nothing reads it.
* *Canonicalization, DataRelease*: one source and one day; two bulletins suffice for an
  earlier and a later publication, five rows for two labels that both of them price and an
  unsound row of the one that is read twice; of the three bundles the first knows only the
  market of the unsound row, so that documents are held up in whole and in part, and the
  others learn, move and reuse a label. One document has a second run, the other one only. `AtOnce` lets two of the workers
  and builders have something in hand: two workers, two builders, or one of each. A run
  that reads a document again finds the same rows, and quarantine of a whole document (no
  text, an unknown template) is left out: it only closes the gate further. Units and grades
  are in the row's label. `Rollback` is FALSE here too.
* *WarehouseSync*: three stamps, batches of two rows, so that a batch may be full or short; `Apart` keeps the stamps of two
  transactions apart, `Weather` lets syncs overlap or fail, not both (see the hazards at
  `sync.ts:97` and `sync.ts:115`).
* *Mailings*: a day has two or three minutes, of which the job's is one: time before,
  at and after it, and a tick that is late. One kind of mail per job. `MaxStops` counts the
  stops and the loops that throw between two commits together, one in the run: each leaves
  one half-done turn, and the run of the day after it (`MaxRuns` 2) meets what it left.
* *Accounts*: ids are model values with symmetry, `MaxLinks` links may be live, a session
  is whether there is one. Passwords are right or wrong.

## What is not modelled

`PROJECT.json` lists every component with the reason. In short: text and HTTP (adapters,
parsers, renderers, channels' protocols, web and admin), handlers that are one synchronous
statement (community, favourites, feedback), values computed from data at rest (quality,
deals, recipes), and, for now, the parts under *Plan*.

## Plan

1. **Done**: `Outbox`, `OutboxPromise`; `ContentPublish`; `WorkflowDispatch`, `WorkQueue`;
   `RetailCapture`; `DocumentProcessing`; `Canonicalization` and `DataRelease`;
   `WarehouseSync`; `Mailings`; `Accounts`. Proofs of all of them.
2. Model next, most important first:
   1. The breaker of retail captures: the failure count, pauses and resume beside running
      captures, and the upload to the archive before the transaction that records it.
   2. The pictures and items of the content library beside publishing.
   3. The sweep of `workflows.ts` over `DocumentProcessing`, with several sources.
   4. Pure functions: recurrence, label patterns, units, against reference definitions.
3. Prove next: what `NoRowIsLost` keeps without `Alone`, when an operator and the sweep meet
   on a document; a common theorem of `WorkflowDispatch` and `RetailCapture` on leases.
4. Abstract specifications worth stating: "what is in force" for `RetailCapture` (a map
   from product to price with the day's last capture), the warehouse as its replica.

## Running it

    tlc -config Outbox.cfg MCOutbox.tla
    tlapm OutboxProofs.tla        # the other *Proofs.tla alike

Every other configuration is named after its run; `PROJECT.json` gives its module.
