-------------------------- MODULE WorkflowDispatch --------------------------
(***************************************************************************)
(* The dispatch queue and the run leases of the data pipeline, for one     *)
(* source: foundry/src/workflows.ts, scheduler.ts and retry.ts over the    *)
(* tables workflow_dispatch and ingest_run of db.ts.  Scheduler processes  *)
(* claim queued dispatches and execute them, each opening a run that holds *)
(* the source's lease; `foundry capture` and `foundry sync` open runs of   *)
(* their own, with retries in place.                                       *)
(*                                                                         *)
(* A step is one SQLite transaction, or one statement outside any, of one  *)
(* process: processes interleave between them and may stop there.  Time is *)
(* relative to now and saturates: a run's `lease` is what is left of it, a *)
(* dispatch's `wait` is available_at minus now, its `age` is the time      *)
(* since it was claimed.                                                   *)
(***************************************************************************)
EXTENDS Integers, FiniteSets

CONSTANTS
    MaxJobs,        \* first attempts that are enqueued (bound)
    MaxDispatches,  \* rows of workflow_dispatch (bound)
    MaxRuns,        \* rows of ingest_run (bound)
    Scheduler,      \* processes running the scheduler
    Cli,            \* processes running the command line
    Attempts,       \* policy.attempts
    Cooldown,       \* policy.cooldown_minutes
    Lease,          \* the minutes startRun and heartbeatRun grant
    Cutoff,         \* age past which a running dispatch may be recovered
    Timely,         \* TRUE: no process outlives its lease or dawdles between steps
    MayCrash        \* TRUE: a process may stop at any step

Dispatch == 1..MaxDispatches

Run == 1..MaxRuns

Process == Scheduler \cup Cli

ASSUME DispatchAssumption ==
    /\ MaxJobs \in Nat /\ MaxDispatches \in Nat /\ MaxRuns \in Nat
    /\ Scheduler \cap Cli = {}
    /\ Attempts \in Nat \ {0}
    /\ Cooldown \in Nat
    /\ Lease \in Nat /\ Cutoff \in Nat
    /\ Timely \in BOOLEAN /\ MayCrash \in BOOLEAN

VARIABLES
    disp,    \* workflow_dispatch
    run,     \* ingest_run
    proc,    \* proc[p]: where process p stands and what it works on
    stale    \* stale[p]: the dispatches p selected as interrupted

vars == <<disp, run, proc, stale>>

Outcome == {"succeeded", "failed", "skipped"}

DispatchStatus == {"free", "queued", "running"} \cup Outcome

\* "rejected": failed with a code of NON_RETRYABLE_CODES, or a document quarantined.
RunStatus == {"free", "running", "succeeded", "failed", "rejected", "blocked"}

\* What the work of a process comes to.
Result == {"none", "succeeded", "failed", "rejected", "blocked", "skipped"}

PC == {"idle", "recovering", "claimed", "working", "after", "failing", "report", "cooling"}

NoDispatch == [status |-> "free", attempt |-> 0, of |-> 0, slot |-> 0,
               wait |-> 0, age |-> 0]

NoRun == [status |-> "free", for |-> 0, lease |-> 0]

Idle == [pc |-> "idle", d |-> 0, r |-> 0, attempt |-> 0, result |-> "none"]

TypeOK ==
    /\ disp \in [Dispatch -> [status : DispatchStatus, attempt : 0..Attempts,
                              of : Dispatch \cup {0}, slot : Dispatch \cup {0},
                              wait : 0..Cooldown, age : 0..(Cutoff + 1)]]
    /\ run \in [Run -> [status : RunStatus, for : Dispatch \cup {0}, lease : -1..Lease]]
    /\ proc \in [Process -> [pc : PC, d : Dispatch \cup {0}, r : Run \cup {0},
                             attempt : 0..Attempts, result : Result]]
    /\ stale \in [Process -> SUBSET Dispatch]
    /\ \A p \in Process : proc[p].pc = "working" <=> proc[p].r # 0
    /\ \A p \in Scheduler : proc[p].d = 0 <=> proc[p].pc \in {"idle", "recovering"}

Init ==
    /\ disp = [i \in Dispatch |-> NoDispatch]
    /\ run = [r \in Run |-> NoRun]
    /\ proc = [p \in Process |-> Idle]
    /\ stale = [p \in Process |-> {}]

-----------------------------------------------------------------------------
(* The queue.                                                              *)

IsNextRow(table, i) ==
    /\ table[i].status = "free"
    /\ \A j \in DOMAIN table : table[j].status = "free" => i <= j

\* enqueueDueSchedules for an occurrence, enqueueWorkflow for an admin.
Enqueue ==
    /\ Cardinality({i \in Dispatch : disp[i].status # "free" /\ disp[i].of = 0}) < MaxJobs
    /\ \E i \in Dispatch :
          /\ IsNextRow(disp, i)
          /\ disp' = [disp EXCEPT ![i] = [NoDispatch EXCEPT !.status = "queued", !.attempt = 1,
                                                            !.slot = i]]
    /\ UNCHANGED <<run, proc, stale>>

\* ORDER BY scheduled_for, created_at; a retry keeps the slot of the dispatch it retries.
Earlier(i, j) == disp[i].slot < disp[j].slot \/ (disp[i].slot = disp[j].slot /\ i <= j)

Available == {i \in Dispatch : disp[i].status = "queued" /\ disp[i].wait = 0}

\* claimNextDispatch
Claim(p) ==
    /\ proc[p].pc = "idle"
    /\ \E i \in Available :
          /\ \A j \in Available : Earlier(i, j)
          /\ disp' = [disp EXCEPT ![i].status = "running", ![i].age = 0]
          /\ proc' = [proc EXCEPT ![p] = [Idle EXCEPT !.pc = "claimed", !.d = i]]
    /\ UNCHANGED <<run, stale>>

\* The SELECT of recoverInterruptedDispatches, outside its transaction.
Look(p) ==
    /\ proc[p].pc = "idle"
    /\ LET old == {i \in Dispatch : disp[i].status = "running" /\ disp[i].age > Cutoff}
       IN  old # {} /\ stale' = [stale EXCEPT ![p] = old]
    /\ proc' = [proc EXCEPT ![p].pc = "recovering"]
    /\ UNCHANGED <<disp, run>>

\* The runs a dispatch opened; the newest has the highest id.
RunsFor(i) == {r \in Run : run[r].for = i}

NewestIs(i, r) == r \in RunsFor(i) /\ \A q \in RunsFor(i) : q <= r

\* (slip) the dispatch is queued again without a look at its runs
RecoveredBlindly(i) == [disp[i] EXCEPT !.status = "queued", !.wait = 0, !.age = 0]

\* (slip) a run whose process stopped counts as a live one
RecoveredFinishedOnly(i) ==
    IF \E r \in Run : NewestIs(i, r) /\ run[r].status # "running"
    THEN LET r == CHOOSE r \in Run : NewestIs(i, r)
         IN  [disp[i] EXCEPT !.age = 0,
                !.status = IF run[r].status = "succeeded" THEN "succeeded" ELSE "failed"]
    ELSE disp[i]

\* (slip) a dispatch whose run has ended is queued again
RecoveredUnlessLive(i) ==
    IF \E r \in Run : NewestIs(i, r) /\ run[r].status = "running" /\ run[r].lease >= 0
    THEN disp[i]
    ELSE [disp[i] EXCEPT !.status = "queued", !.wait = 0, !.age = 0]

\* What the transaction makes of one dispatch that is still running.
Recovered(i) ==
    IF \E r \in Run : NewestIs(i, r) /\ run[r].status = "running" /\ run[r].lease >= 0
    THEN disp[i]
    ELSE IF \E r \in Run : NewestIs(i, r) /\ run[r].status # "running"
    THEN LET r == CHOOSE r \in Run : NewestIs(i, r)
         IN  [disp[i] EXCEPT !.age = 0,
                !.status = IF run[r].status = "succeeded" THEN "succeeded" ELSE "failed"]
    ELSE [disp[i] EXCEPT !.status = "queued", !.wait = 0, !.age = 0]

Recover(p) ==
    /\ proc[p].pc = "recovering"
    /\ disp' = [i \in Dispatch |-> IF i \in stale[p] /\ disp[i].status = "running"
                                   THEN Recovered(i) ELSE disp[i]]
    /\ stale' = [stale EXCEPT ![p] = {}]
    /\ proc' = [proc EXCEPT ![p] = Idle]
    /\ UNCHANGED run

-----------------------------------------------------------------------------
(* A run of the source.                                                    *)

\* A command-line run: no dispatch, retries in place.
CliStart(p) ==
    /\ proc[p].pc = "idle"
    /\ proc' = [proc EXCEPT ![p] = [Idle EXCEPT !.pc = "claimed", !.attempt = 1]]
    /\ UNCHANGED <<disp, run, stale>>

\* The source is paused, or the work fails before it opens a run.
EndEarly(p) ==
    /\ proc[p].pc = "claimed"
    /\ \/ proc' = [proc EXCEPT ![p].pc = "report", ![p].result = "skipped"]
       \/ proc' = [proc EXCEPT ![p].pc = "report", ![p].result = "rejected"]
       \/ proc' = [proc EXCEPT ![p].pc = "failing", ![p].result = "failed"]
    /\ UNCHANGED <<disp, run, stale>>

\* (slip) the lease is not looked at
ExpiredAny == [r \in Run |-> IF run[r].status = "running"
                             THEN [run[r] EXCEPT !.status = "failed", !.lease = 0] ELSE run[r]]

\* startRun first fails the runs whose lease has run out.
Expired == [r \in Run |-> IF run[r].status = "running" /\ run[r].lease < 0
                          THEN [run[r] EXCEPT !.status = "failed", !.lease = 0] ELSE run[r]]

\* startRun: another run of the source is active, or this one is.
StartRun(p) ==
    /\ proc[p].pc = "claimed"
    /\ IF \E r \in Run : Expired[r].status = "running"
       THEN /\ run' = Expired
            /\ proc' = [proc EXCEPT ![p].pc = "report", ![p].result = "skipped"]
       ELSE \E r \in Run :
            /\ IsNextRow(run, r)
            /\ run' = [Expired EXCEPT ![r] = [status |-> "running", for |-> proc[p].d,
                                              lease |-> Lease]]
            /\ proc' = [proc EXCEPT ![p].pc = "working", ![p].r = r]
    /\ UNCHANGED <<disp, stale>>

\* heartbeatRun, between the stages
Heartbeat(p) ==
    /\ proc[p].pc = "working"
    /\ run[proc[p].r].status = "running"
    /\ run' = [run EXCEPT ![proc[p].r].lease = Lease]
    /\ UNCHANGED <<disp, proc, stale>>

Finished(p, status, pc) ==
    /\ run' = [run EXCEPT ![proc[p].r].status = status, ![proc[p].r].lease = 0]
    /\ proc' = [proc EXCEPT ![p].pc = pc, ![p].r = 0, ![p].result = status]

\* finishRun: UPDATE ... WHERE id = ?, whatever became of the run meanwhile.
FinishRun(p) ==
    /\ proc[p].pc = "working"
    /\ \/ Finished(p, "succeeded", "after")
       \/ Finished(p, "failed", "failing")
       \/ Finished(p, "rejected", "report")
       \/ Finished(p, "blocked", "report")
    /\ UNCHANGED <<disp, stale>>

\* A sync processes the documents it archived, in runs of their own.
AfterRun(p) ==
    /\ proc[p].pc = "after"
    /\ proc' = [proc EXCEPT ![p].pc = "report"]
    /\ UNCHANGED <<disp, run, stale>>

-----------------------------------------------------------------------------
(* Writing down what came of it.                                           *)

\* The idempotency key of a retry: the dispatch before it, else the dispatch.
RetryRoot(i) == IF disp[i].of = 0 THEN i ELSE disp[i].of

\* (slip) no idempotency key
RetryKnownNever(i) == FALSE

RetryKnown(i) ==
    \E j \in Dispatch :
        /\ disp[j].of # 0
        /\ RetryRoot(disp[j].of) = RetryRoot(i)
        /\ disp[j].attempt = disp[i].attempt + 1

\* (slip) the last attempt is not made
QueueRetryOneFewer(p) ==
    /\ proc[p].pc = "failing" /\ p \in Scheduler
    /\ LET i == proc[p].d IN
       IF disp[i].attempt + 1 >= Attempts \/ RetryKnown(i) THEN UNCHANGED disp
       ELSE \E j \in Dispatch :
               /\ IsNextRow(disp, j)
               /\ disp' = [disp EXCEPT ![j] = [NoDispatch EXCEPT
                     !.status = "queued", !.attempt = disp[i].attempt + 1, !.of = i,
                     !.slot = disp[i].slot, !.wait = Cooldown]]
    /\ proc' = [proc EXCEPT ![p].pc = "report"]
    /\ UNCHANGED <<run, stale>>

\* scheduleRetryDispatch
QueueRetry(p) ==
    /\ proc[p].pc = "failing" /\ p \in Scheduler
    /\ LET i == proc[p].d IN
       IF disp[i].attempt + 1 > Attempts \/ RetryKnown(i) THEN UNCHANGED disp
       ELSE \E j \in Dispatch :
               /\ IsNextRow(disp, j)
               /\ disp' = [disp EXCEPT ![j] = [NoDispatch EXCEPT
                     !.status = "queued", !.attempt = disp[i].attempt + 1, !.of = i,
                     !.slot = disp[i].slot, !.wait = Cooldown]]
    /\ proc' = [proc EXCEPT ![p].pc = "report"]
    /\ UNCHANGED <<run, stale>>

\* finishDispatch, failDispatch: UPDATE ... WHERE id = ?, whoever has it now.
Report(p) ==
    /\ proc[p].pc = "report" /\ p \in Scheduler
    /\ LET result == proc[p].result
       IN  disp' = [disp EXCEPT
             ![proc[p].d].status = IF result \in {"succeeded", "skipped"} THEN result ELSE "failed",
             ![proc[p].d].age = 0]
    /\ proc' = [proc EXCEPT ![p] = Idle]
    /\ UNCHANGED <<run, stale>>

\* runWithRetry: cool down and try again, or end.
CliReport(p) ==
    /\ p \in Cli
    /\ \/ /\ proc[p].pc = "failing" /\ proc[p].attempt < Attempts
          /\ proc' = [proc EXCEPT ![p].pc = "cooling"]
       \/ /\ proc[p].pc = "failing" /\ proc[p].attempt = Attempts
          /\ proc' = [proc EXCEPT ![p] = Idle]
       \/ /\ proc[p].pc = "report"
          /\ proc' = [proc EXCEPT ![p] = Idle]
    /\ UNCHANGED <<disp, run, stale>>

CliAgain(p) ==
    /\ proc[p].pc = "cooling"
    /\ proc' = [proc EXCEPT ![p] = [Idle EXCEPT !.pc = "claimed", !.attempt = proc[p].attempt + 1]]
    /\ UNCHANGED <<disp, run, stale>>

-----------------------------------------------------------------------------

\* Every dispatch could still open a run (bounds the crashes).
RunsLeft == Cardinality({r \in Run : run[r].status = "free"}) >= MaxDispatches

\* A process stops; its run and its dispatch stay as they are.
Crash(p) ==
    /\ MayCrash
    /\ RunsLeft
    /\ proc[p].pc # "idle"
    /\ proc' = [proc EXCEPT ![p] = Idle]
    /\ stale' = [stale EXCEPT ![p] = {}]
    /\ UNCHANGED <<disp, run>>

\* No process has been at one step for longer than its code would be.
InTime ==
    \A p \in Process :
        CASE proc[p].pc = "working" -> run[proc[p].r].status = "running" => run[proc[p].r].lease > 0
          [] proc[p].pc = "claimed" -> proc[p].d # 0 => disp[proc[p].d].age < Cutoff
          [] OTHER -> proc[p].pc \notin {"report", "failing", "recovering"}

\* One unit of time passes; under Timely, only when every process is in time.
Tick ==
    /\ Timely => InTime
    /\ disp' = [i \in Dispatch |->
          [disp[i] EXCEPT !.wait = IF @ > 0 THEN @ - 1 ELSE @,
                          !.age = IF disp[i].status = "running" /\ @ <= Cutoff THEN @ + 1 ELSE @]]
    /\ run' = [r \in Run |->
          [run[r] EXCEPT !.lease = IF run[r].status = "running" /\ @ >= 0 THEN @ - 1 ELSE @]]
    /\ UNCHANGED <<proc, stale>>

Work(p) ==
    \/ StartRun(p) \/ EndEarly(p) \/ FinishRun(p) \/ AfterRun(p)
    \/ QueueRetry(p) \/ Report(p) \/ CliReport(p) \/ CliAgain(p)

Next ==
    \/ Enqueue
    \/ \E p \in Scheduler : Claim(p) \/ Look(p) \/ Recover(p)
    \/ \E p \in Cli : CliStart(p)
    \/ \E p \in Process : Work(p) \/ Heartbeat(p) \/ Crash(p)
    \/ Tick

Spec == Init /\ [][Next]_vars

\* Every scheduler ticks: it recovers, claims and works on; time passes, and
\* a process is not stopped for ever and again.
Fairness ==
    /\ \A p \in Scheduler : WF_vars(Look(p) \/ Recover(p)) /\ SF_vars(Claim(p))
    /\ \A p \in Process : WF_vars(Work(p))
    /\ SF_vars(Tick)
    /\ <>[][\A p \in Process : ~Crash(p)]_vars

FairSpec == Spec /\ Fairness

-----------------------------------------------------------------------------
(* Properties.                                                             *)

Working(p) == proc[p].pc = "working"

\* While leases are kept up, one process at a time works on the source, whether
\* a scheduler's or the command line's.
OneWorker == \A p, q \in Process : Working(p) /\ Working(q) => p = q

Holds(p, i) == proc[p].d = i

\* One process at a time executes a dispatch.
OneHolder ==
    \A p, q \in Scheduler, i \in Dispatch : Holds(p, i) /\ Holds(q, i) => p = q

\* A job has one dispatch for each of its attempts, also when a process that lost
\* its dispatch to another reports a failure late.
OneDispatchPerAttempt ==
    \A i, j \in Dispatch :
        disp[i].of # 0 /\ disp[i].of = disp[j].of => i = j

\* A failure that a retry can help with has its next attempt queued.
FailureIsRetried ==
    \A i \in Dispatch :
        /\ disp[i].status = "failed"
        /\ \E r \in Run : NewestIs(i, r) /\ run[r].status = "failed"
        /\ disp[i].attempt < Attempts
        /\ \A p \in Process : ~Holds(p, i)
        => \E j \in Dispatch : disp[j].of = i

\* With one scheduler, what a dispatch says agrees with its runs, also when a process
\* stopped between finishRun and finishDispatch: it succeeded exactly when one of them
\* did.  Two schedulers that recover after a stop may both execute a dispatch.
OutcomeOfRuns ==
    \A i \in Dispatch : disp[i].status \in Outcome =>
        (disp[i].status = "succeeded" <=> \E r \in RunsFor(i) : run[r].status = "succeeded")

\* Every dispatch gets its outcome, if need be from another process.
EveryDispatchSettles ==
    \A i \in Dispatch : disp[i].status = "queued" ~> disp[i].status \in Outcome

FateOf(status) == IF status \in {"queued", "running"} THEN "pending" ELSE status

Queue == INSTANCE WorkQueue WITH
    Id <- Dispatch,
    Outcomes <- Outcome,
    fate <- [i \in Dispatch |-> FateOf(disp[i].status)],
    of <- [i \in Dispatch |-> disp[i].of]

\* With timely processes the two tables implement WorkQueue: one outcome for each
\* dispatch, which no late report overwrites.
KeepsQueuePromise == Queue!Spec
=============================================================================
