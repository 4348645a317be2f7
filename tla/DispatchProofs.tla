---------------------------- MODULE DispatchProofs ----------------------------
(***************************************************************************)
(* Theorems about WorkflowDispatch, for every number of dispatches, runs,  *)
(* schedulers and command lines and every value of the limits.  RowInv     *)
(* holds whatever happens, WorkInv while leases are kept up (Timely), and  *)
(* HoldInv when no process stops either.  SoleInv holds of one scheduler,  *)
(* wherever it stops and however long it takes.                            *)
(***************************************************************************)
EXTENDS WorkflowDispatch, TLAPS

\* A retry follows a dispatch that was there before it, one attempt later; rows that are not
\* in use say nothing.
RowInv ==
    /\ \A i \in Dispatch : disp[i].status = "free" => disp[i].of = 0
    /\ \A i \in Dispatch : disp[i].of # 0 =>
          /\ disp[disp[i].of].status # "free"
          /\ disp[i].attempt = disp[disp[i].of].attempt + 1
    /\ \A p \in Process : proc[p].d # 0 => p \in Scheduler /\ disp[proc[p].d].status # "free"
    /\ \A r \in Run : run[r].status = "free" => run[r].for = 0
    /\ \A r \in Run : run[r].for # 0 => disp[run[r].for].status # "free"
    /\ \A p \in Process : proc[p].pc = "cooling" => p \notin Scheduler /\ proc[p].attempt < Attempts
    /\ OneDispatchPerAttempt

\* A worker's run is the one that runs, its lease has not lapsed, and it is the only worker.
WorkInv ==
    /\ \A p \in Process : Working(p) => run[proc[p].r].status = "running" /\ run[proc[p].r].lease >= 0
    /\ OneWorker

\* What a result is written down as.
Written(result) == IF result \in {"succeeded", "skipped"} THEN result ELSE "failed"

\* What holds of dispatch i in the hands of p: before its run, during it, and after it, when
\* somebody's recovery may have written the outcome first.
Before(p, i) ==
    /\ disp[i].status = "running" /\ disp[i].age <= Cutoff
    /\ RunsFor(i) = {}

During(p, i) ==
    /\ disp[i].status = "running"
    /\ RunsFor(i) = {proc[p].r}

After(p, i) ==
    \E r \in Run : /\ RunsFor(i) = {r}
                   /\ run[r].status = proc[p].result
                   /\ disp[i].status \in {"running", Written(proc[p].result)}

Held(p, i) ==
    /\ proc[p].pc = "claimed" => Before(p, i)
    /\ proc[p].pc = "working" => During(p, i)
    /\ proc[p].pc = "after" => proc[p].result = "succeeded" /\ After(p, i)
    /\ proc[p].pc = "failing" => proc[p].result = "failed"
    /\ proc[p].pc \in {"failing", "report"} =>
          /\ proc[p].result \in {"succeeded", "failed", "rejected", "blocked", "skipped"}
          /\ Before(p, i) \/ After(p, i)
    /\ proc[p].pc = "report" /\ proc[p].result = "failed" /\ disp[i].attempt < Attempts =>
          \E j \in Dispatch : disp[j].of = i
    /\ proc[p].pc \notin {"recovering", "cooling"}

\* A failure that a retry can help with has its next attempt queued: FailureIsRetried, of i.
Retried(i) ==
    /\ disp[i].status = "failed"
    /\ \E r \in Run : NewestIs(i, r) /\ run[r].status = "failed"
    /\ disp[i].attempt < Attempts
    /\ \A p \in Process : ~Holds(p, i)
    => \E j \in Dispatch : disp[j].of = i

\* A dispatch that runs has its holder, one that waits has neither holder nor run, and none
\* that was selected as interrupted is queued again.
HoldAt(i) ==
    /\ \A p, q \in Scheduler : Holds(p, i) /\ Holds(q, i) => p = q
    /\ \A p \in Scheduler : Holds(p, i) => Held(p, i)
    /\ disp[i].status = "running" => \E p \in Scheduler : Holds(p, i)
    /\ disp[i].status \in {"free", "queued"} =>
          RunsFor(i) = {} /\ \A p \in Scheduler : ~Holds(p, i)
    /\ \A p \in Process : i \in stale[p] =>
          /\ disp[i].status \notin {"free", "queued"}
          /\ disp[i].status = "running" => disp[i].age > Cutoff
    /\ Retried(i)

\* A run that is running has its worker, who opened it for the dispatch in hand.
RunsHeld ==
    /\ \A r \in Run : run[r].status = "running" => \E p \in Process : Working(p) /\ proc[p].r = r
    /\ \A p \in Process : Working(p) => run[proc[p].r].for = proc[p].d

HoldInv == RunsHeld /\ \A i \in Dispatch : HoldAt(i)

IInv ==
    /\ TypeOK /\ RowInv
    /\ Timely => WorkInv
    /\ Timely /\ ~MayCrash => HoldInv

Base == TypeOK /\ RowInv

DispRec == [status : DispatchStatus, attempt : 0..Attempts,
            of : Dispatch \cup {0}, slot : Dispatch \cup {0},
            wait : 0..Cooldown, age : 0..(Cutoff + 1)]

RunRec == [status : RunStatus, for : Dispatch \cup {0}, lease : -1..Lease]

ProcRec == [pc : PC, d : Dispatch \cup {0}, r : Run \cup {0},
            attempt : 0..Attempts, result : Result]

\* What is true of where process p stands, x.
Stands(p, x) ==
    /\ x \in ProcRec
    /\ x.pc = "working" <=> x.r # 0
    /\ p \in Scheduler => (x.d = 0 <=> x.pc \in {"idle", "recovering"})

-----------------------------------------------------------------------------
(* Types and rows, whatever happens.                                       *)

LEMMA Limits ==
    /\ 0 \in 0..Attempts /\ 1 \in 0..Attempts
    /\ 0 \in 0..Cooldown /\ Cooldown \in 0..Cooldown
    /\ 0 \in 0..(Cutoff + 1)
    /\ 0 \in -1..Lease /\ Lease \in -1..Lease
    /\ 0 \notin Dispatch /\ 0 \notin Run
    /\ Dispatch \subseteq Int /\ Run \subseteq Int
BY DispatchAssumption DEF Dispatch, Run

LEMMA InitInv == Init => IInv
<1> SUFFICES ASSUME Init PROVE IInv
  OBVIOUS
<1>1. TypeOK
  BY DispatchAssumption DEF Init, TypeOK, NoDispatch, NoRun, Idle, DispatchStatus, RunStatus, PC,
                            Result, Process
<1>2. RowInv
  BY DEF Init, RowInv, NoDispatch, NoRun, Idle, OneDispatchPerAttempt
<1>3. WorkInv
  BY DEF Init, WorkInv, Working, Idle, OneWorker
<1>4. HoldInv
  <2>1. \A i \in Dispatch : RunsFor(i) = {}
    BY DEF Init, RunsFor, NoRun, Dispatch
  <2>2. \A p \in Process, i \in Dispatch : ~Holds(p, i)
    BY DEF Init, Holds, Idle, Dispatch
  <2>. QED  BY <2>1, <2>2 DEF Init, HoldInv, HoldAt, RunsHeld, Retried, NoDispatch, NoRun, Idle,
                              Working, Process
<1>. QED  BY <1>1, <1>2, <1>3, <1>4 DEF IInv

\* The table of dispatches, of runs, and of processes after a write of one entry.
LEMMA Typed ==
    ASSUME TypeOK
    PROVE  /\ disp \in [Dispatch -> DispRec] /\ run \in [Run -> RunRec]
           /\ proc \in [Process -> ProcRec]
           /\ \A p \in Process : Stands(p, proc[p])
BY DEF TypeOK, DispRec, RunRec, ProcRec, Stands

LEMMA TypedAgain ==
    ASSUME disp' \in [Dispatch -> DispRec], run' \in [Run -> RunRec],
           proc' \in [Process -> ProcRec], \A p \in Process : Stands(p, proc'[p]),
           stale' \in [Process -> SUBSET Dispatch]
    PROVE  TypeOK'
BY DEF TypeOK, DispRec, RunRec, ProcRec, Stands, Process

LEMMA ProcWritten ==
    ASSUME TypeOK, NEW p \in Process, NEW x, Stands(p, x), proc' = [proc EXCEPT ![p] = x]
    PROVE  /\ proc' \in [Process -> ProcRec] /\ \A q \in Process : Stands(q, proc'[q])
           /\ proc'[p] = x /\ \A q \in Process : q # p => proc'[q] = proc[q]
BY Typed DEF Stands

\* The rows stay in order as long as no dispatch is added: what processes and runs point at is in use.
SameDispatches ==
    \A i \in Dispatch : /\ disp'[i].of = disp[i].of /\ disp'[i].attempt = disp[i].attempt
                        /\ disp'[i].status = "free" <=> disp[i].status = "free"

RunsKept ==
    \A r \in Run : \/ run'[r] = run[r]
                   \/ /\ run'[r].status # "free"
                      /\ \/ run'[r].for = 0 \/ run'[r].for = run[r].for
                         \/ run'[r].for \in Dispatch /\ disp[run'[r].for].status # "free"

HandsKept ==
    \A p \in Process : /\ \/ proc'[p].d = proc[p].d \/ proc'[p].d = 0
                          \/ /\ proc'[p].d \in Dispatch /\ p \in Scheduler
                             /\ disp[proc'[p].d].status # "free"
                       /\ proc'[p].pc = "cooling" => p \notin Scheduler /\ proc'[p].attempt < Attempts

LEMMA RowKept ==
    ASSUME RowInv, TypeOK, SameDispatches, RunsKept, HandsKept
    PROVE  RowInv'
<1>1. /\ \A i \in Dispatch : disp[i].of \in Dispatch \cup {0}
      /\ \A r \in Run : run[r].for \in Dispatch \cup {0}
      /\ \A p \in Process : proc[p].d \in Dispatch \cup {0}
  BY DEF TypeOK
<1> USE DEF SameDispatches, RunsKept, HandsKept
<1>2. \A i \in Dispatch : disp'[i].of # 0 =>
         /\ disp'[disp'[i].of].status # "free"
         /\ disp'[i].attempt = disp'[disp'[i].of].attempt + 1
  <2>. TAKE i \in Dispatch
  <2>. HAVE disp'[i].of # 0
  <2>1. disp'[i].of = disp[i].of /\ disp[i].of \in Dispatch /\ disp'[i].attempt = disp[i].attempt
    BY <1>1
  <2>2. disp[disp[i].of].status # "free" /\ disp[i].attempt = disp[disp[i].of].attempt + 1
    BY <2>1 DEF RowInv
  <2>3. /\ disp'[disp[i].of].status # "free"
        /\ disp'[disp[i].of].attempt = disp[disp[i].of].attempt
    BY <2>1, <2>2
  <2>. QED  BY <2>1, <2>2, <2>3
<1>3. \A p \in Process : proc'[p].d # 0 => p \in Scheduler /\ disp'[proc'[p].d].status # "free"
  BY <1>1 DEF RowInv
<1>4. \A r \in Run : run'[r].for # 0 => disp'[run'[r].for].status # "free"
  BY <1>1 DEF RowInv
<1>5. \A r \in Run : run'[r].status = "free" => run'[r].for = 0
  BY DEF RowInv
<1>6. OneDispatchPerAttempt'
  BY DEF RowInv, OneDispatchPerAttempt
<1>7. \A i \in Dispatch : disp'[i].status = "free" => disp'[i].of = 0
  BY DEF RowInv
<1>. QED  BY <1>2, <1>3, <1>4, <1>5, <1>6, <1>7 DEF RowInv

LEMMA EnqueueBase == ASSUME Base, Enqueue PROVE Base'
<1> DEFINE new(i) == [NoDispatch EXCEPT !.status = "queued", !.attempt = 1, !.slot = i]
<1>1. PICK i \in Dispatch : disp[i].status = "free" /\ disp' = [disp EXCEPT ![i] = new(i)]
  BY DEF Enqueue, IsNextRow
<1>2. UNCHANGED <<run, proc, stale>>
  BY DEF Enqueue
<1>3. /\ new(i) \in DispRec /\ new(i).of = 0 /\ new(i).status = "queued"
  BY Limits DEF NoDispatch, DispRec, DispatchStatus
<1> HIDE DEF new
<1>4. /\ disp' \in [Dispatch -> DispRec] /\ disp'[i] = new(i)
      /\ \A j \in Dispatch : j # i => disp'[j] = disp[j]
  BY <1>1, <1>3, Typed DEF Base
<1>5. TypeOK'
  BY <1>2, <1>4, Typed, TypedAgain DEF Base, TypeOK
<1>6. RowInv'
  <2>1. \A j \in Dispatch : disp[j].of # i
    BY <1>1, Limits DEF Base, RowInv
  <2>2. \A j \in Dispatch : disp[j].of \in Dispatch \cup {0}
    BY DEF Base, TypeOK
  <2>3. \A p \in Process : proc[p].d # i /\ proc[p].d \in Dispatch \cup {0}
    BY <1>1, Limits DEF Base, RowInv, TypeOK
  <2>4. \A r \in Run : run[r].for # i /\ run[r].for \in Dispatch \cup {0}
    BY <1>1, Limits DEF Base, RowInv, TypeOK
  <2>. QED  BY <1>2, <1>3, <1>4, <2>1, <2>2, <2>3, <2>4 DEF Base, RowInv, OneDispatchPerAttempt
<1>. QED  BY <1>5, <1>6 DEF Base

LEMMA ClaimBase == ASSUME Base, NEW p \in Scheduler, Claim(p) PROVE Base'
<1> DEFINE new(i) == [disp[i] EXCEPT !.status = "running", !.age = 0]
           hand(i) == [Idle EXCEPT !.pc = "claimed", !.d = i]
<1>1. PICK i \in Dispatch :
         /\ disp[i].status = "queued"
         /\ disp' = [disp EXCEPT ![i].status = "running", ![i].age = 0]
         /\ proc' = [proc EXCEPT ![p] = hand(i)]
  BY DEF Claim, Available
<1>2. UNCHANGED <<run, stale>> /\ p \in Process
  BY DEF Claim, Process
<1>3. /\ new(i) \in DispRec /\ new(i).of = disp[i].of /\ new(i).attempt = disp[i].attempt
      /\ new(i).status = "running"
  BY Typed, Limits DEF Base, DispRec, DispatchStatus
<1>4. disp' = [disp EXCEPT ![i] = new(i)]
  BY <1>1, Typed DEF Base, DispRec
<1>5. Stands(p, hand(i)) /\ hand(i).d = i /\ hand(i).pc = "claimed"
  BY Limits DEF Stands, ProcRec, Idle, PC, Result
<1> HIDE DEF new, hand
<1>6. /\ disp' \in [Dispatch -> DispRec] /\ disp'[i] = new(i)
      /\ \A j \in Dispatch : j # i => disp'[j] = disp[j]
  BY <1>3, <1>4, Typed DEF Base
<1>7. /\ proc' \in [Process -> ProcRec] /\ \A q \in Process : Stands(q, proc'[q])
      /\ proc'[p] = hand(i) /\ \A q \in Process : q # p => proc'[q] = proc[q]
  BY <1>1, <1>2, <1>5, ProcWritten DEF Base
<1>8. TypeOK'
  BY <1>2, <1>6, <1>7, Typed, TypedAgain DEF Base, TypeOK
<1>9. RowInv'
  <2>1. SameDispatches
    BY <1>1, <1>3, <1>6 DEF SameDispatches
  <2>2. \A q \in Process : proc'[q].pc = "cooling" => q \notin Scheduler /\ proc'[q].attempt < Attempts
    BY <1>5, <1>7 DEF Base, RowInv
  <2>3. HandsKept
    BY <1>1, <1>5, <1>7, <2>2 DEF HandsKept
  <2>4. RunsKept
    BY <1>2 DEF RunsKept
  <2>. QED  BY <2>1, <2>3, <2>4, RowKept DEF Base
<1>. QED  BY <1>8, <1>9 DEF Base

\* A process turns to another step of its work, or lets go of it.
LEMMA TurnBase ==
    ASSUME Base, NEW p \in Process, UNCHANGED <<disp, run>>, stale' \in [Process -> SUBSET Dispatch],
           NEW x, Stands(p, x), x.d \in {proc[p].d, 0},
           x.pc = "cooling" => p \notin Scheduler /\ x.attempt < Attempts,
           proc' = [proc EXCEPT ![p] = x]
    PROVE  Base'
<1>1. /\ proc' \in [Process -> ProcRec] /\ \A q \in Process : Stands(q, proc'[q])
      /\ proc'[p] = x /\ \A q \in Process : q # p => proc'[q] = proc[q]
  BY ProcWritten DEF Base
<1>2. TypeOK'
  BY <1>1, Typed, TypedAgain DEF Base
<1>3. \A q \in Process : proc[q].pc = "cooling" => q \notin Scheduler /\ proc[q].attempt < Attempts
  BY DEF Base, RowInv
<1>4. SameDispatches /\ RunsKept /\ HandsKept
  BY <1>1, <1>3 DEF SameDispatches, RunsKept, HandsKept
<1>5. RowInv'
  BY <1>4, RowKept DEF Base
<1>. QED  BY <1>2, <1>5 DEF Base

LEMMA LookBase == ASSUME Base, NEW p \in Scheduler, Look(p) PROVE Base'
<1> DEFINE x == [proc[p] EXCEPT !.pc = "recovering"]
<1>1. /\ proc[p].pc = "idle" /\ proc' = [proc EXCEPT ![p] = x]
      /\ stale' \in [Process -> SUBSET Dispatch] /\ UNCHANGED <<disp, run>> /\ p \in Process
  BY DEF Look, Base, TypeOK, Process
<1>2. Stands(p, x) /\ x.d = proc[p].d /\ x.pc = "recovering"
  BY <1>1, Typed DEF Base, Stands, ProcRec, PC
<1>. QED  BY <1>1, <1>2, TurnBase

\* Recovery changes the status and the age of dispatches that run, and nothing of the others.
LEMMA RecoverTable ==
    ASSUME Base, NEW p \in Scheduler, Recover(p), NEW i \in Dispatch
    PROVE  /\ disp'[i] \in DispRec
           /\ disp'[i].of = disp[i].of /\ disp'[i].attempt = disp[i].attempt
           /\ disp'[i].status = "free" <=> disp[i].status = "free"
           /\ disp[i].status # "running" \/ i \notin stale[p] => disp'[i] = disp[i]
           /\ disp[i].status = "running" /\ i \in stale[p] => disp'[i] = Recovered(i)
<1>1. disp'[i] = IF i \in stale[p] /\ disp[i].status = "running" THEN Recovered(i) ELSE disp[i]
  BY DEF Recover
<1> DEFINE x(s) == [disp[i] EXCEPT !.age = 0, !.status = s]
           y == [disp[i] EXCEPT !.status = "queued", !.wait = 0, !.age = 0]
<1>2. Recovered(i) = disp[i] \/ Recovered(i) = x("succeeded") \/ Recovered(i) = x("failed")
        \/ Recovered(i) = y
  BY DEF Recovered
<1>3. disp[i] \in DispRec
  BY Typed DEF Base
<1>4. \A s \in {"succeeded", "failed"} :
         x(s) \in DispRec /\ x(s).of = disp[i].of /\ x(s).attempt = disp[i].attempt /\ x(s).status = s
  BY <1>3, Limits DEF DispRec, DispatchStatus, Outcome
<1>5. y \in DispRec /\ y.of = disp[i].of /\ y.attempt = disp[i].attempt /\ y.status = "queued"
  BY <1>3, Limits DEF DispRec, DispatchStatus
<1> HIDE DEF x, y
<1>. QED  BY <1>1, <1>2, <1>3, <1>4, <1>5

LEMMA RecoverBase == ASSUME Base, NEW p \in Scheduler, Recover(p) PROVE Base'
<1>1. /\ proc[p].pc = "recovering" /\ proc' = [proc EXCEPT ![p] = Idle]
      /\ stale' = [stale EXCEPT ![p] = {}] /\ UNCHANGED run /\ p \in Process
  BY DEF Recover, Process
<1>2. disp' \in [Dispatch -> DispRec]
  BY RecoverTable DEF Recover
<1>3. Stands(p, Idle) /\ Idle.d = 0 /\ Idle.pc = "idle"
  BY Limits DEF Stands, ProcRec, Idle, PC, Result
<1>4. /\ proc' \in [Process -> ProcRec] /\ \A q \in Process : Stands(q, proc'[q])
      /\ proc'[p] = Idle /\ \A q \in Process : q # p => proc'[q] = proc[q]
  BY <1>1, <1>3, ProcWritten DEF Base
<1>5. TypeOK'
  BY <1>1, <1>2, <1>4, Typed, TypedAgain DEF Base, TypeOK
<1>6. \A q \in Process : proc[q].pc = "cooling" => q \notin Scheduler /\ proc[q].attempt < Attempts
  BY DEF Base, RowInv
<1>7. SameDispatches
  BY RecoverTable DEF SameDispatches
<1>8. RunsKept /\ HandsKept
  BY <1>1, <1>3, <1>4, <1>6 DEF RunsKept, HandsKept
<1>9. RowInv'
  BY <1>7, <1>8, RowKept DEF Base
<1>. QED  BY <1>5, <1>9 DEF Base

LEMMA CliStartBase == ASSUME Base, NEW p \in Cli, CliStart(p) PROVE Base'
<1> DEFINE x == [Idle EXCEPT !.pc = "claimed", !.attempt = 1]
<1>1. /\ proc' = [proc EXCEPT ![p] = x]
      /\ UNCHANGED <<disp, run, stale>> /\ p \in Process /\ p \notin Scheduler
  BY DispatchAssumption DEF CliStart, Process
<1>2. Stands(p, x) /\ x.d = 0 /\ x.pc = "claimed"
  BY <1>1, Limits DEF Stands, ProcRec, Idle, PC, Result
<1>3. stale' \in [Process -> SUBSET Dispatch]
  BY <1>1 DEF Base, TypeOK
<1>. QED  BY <1>1, <1>2, <1>3, TurnBase

\* A process that has no run turns to step c with result v.
Turn(p, c, v) == [proc[p] EXCEPT !.pc = c, !.result = v]

LEMMA TurnStep ==
    ASSUME Base, NEW p \in Process, NEW c \in PC \ {"working", "cooling"}, NEW v \in Result,
           proc[p].pc # "working",
           p \in Scheduler => (proc[p].d = 0 <=> c \in {"idle", "recovering"}),
           proc' = [proc EXCEPT ![p].pc = c, ![p].result = v], UNCHANGED <<disp, run, stale>>
    PROVE  Base'
<1>1. proc' = [proc EXCEPT ![p] = Turn(p, c, v)]
  BY Typed DEF Base, Turn, ProcRec
<1>2. /\ Stands(p, Turn(p, c, v)) /\ Turn(p, c, v).d = proc[p].d /\ Turn(p, c, v).pc = c
  BY Typed DEF Base, Turn, Stands, ProcRec
<1>3. stale' \in [Process -> SUBSET Dispatch]
  BY DEF Base, TypeOK
<1>. QED  BY <1>1, <1>2, <1>3, TurnBase

LEMMA ProcWrites ==
    ASSUME TypeOK, NEW p \in Process, NEW c
    PROVE  [proc EXCEPT ![p].pc = c] = [proc EXCEPT ![p].pc = c, ![p].result = proc[p].result]
BY Typed DEF ProcRec

LEMMA SchedulerHand ==
    ASSUME TypeOK, NEW p \in Process, proc[p].pc \notin {"idle", "recovering"}
    PROVE  p \in Scheduler => proc[p].d # 0
BY Typed DEF Stands

LEMMA EndEarlyBase == ASSUME Base, NEW p \in Process, EndEarly(p) PROVE Base'
<1>1. proc[p].pc = "claimed" /\ UNCHANGED <<disp, run, stale>>
  BY DEF EndEarly
<1>2. p \in Scheduler => proc[p].d # 0
  BY <1>1, SchedulerHand DEF Base
<1>3. PICK c \in {"report", "failing"}, v \in {"skipped", "rejected", "failed"} :
         proc' = [proc EXCEPT ![p].pc = c, ![p].result = v]
  BY DEF EndEarly
<1>4. c \in PC \ {"working", "cooling"} /\ v \in Result /\ c \notin {"idle", "recovering"}
  BY DEF PC, Result
<1>. QED  BY <1>1, <1>2, <1>3, <1>4, TurnStep

LEMMA AfterRunBase == ASSUME Base, NEW p \in Process, AfterRun(p) PROVE Base'
<1>1. proc[p].pc = "after" /\ UNCHANGED <<disp, run, stale>>
  BY DEF AfterRun
<1>2. p \in Scheduler => proc[p].d # 0
  BY <1>1, SchedulerHand DEF Base
<1>3. proc' = [proc EXCEPT ![p].pc = "report", ![p].result = proc[p].result]
  BY ProcWrites DEF AfterRun, Base
<1>4. "report" \in PC \ {"working", "cooling"} /\ proc[p].result \in Result
  BY Typed DEF PC, Base, ProcRec
<1>. QED  BY <1>1, <1>2, <1>3, <1>4, TurnStep

\* A process lets go of what it had.
LEMMA LetGo ==
    ASSUME Base, NEW p \in Process, UNCHANGED <<disp, run>>, proc' = [proc EXCEPT ![p] = Idle],
           stale' \in [Process -> SUBSET Dispatch]
    PROVE  Base'
<1>1. Stands(p, Idle) /\ Idle.d = 0 /\ Idle.pc = "idle"
  BY Limits DEF Stands, ProcRec, Idle, PC, Result
<1>. QED  BY <1>1, TurnBase

LEMMA CrashBase == ASSUME Base, NEW p \in Process, Crash(p) PROVE Base'
<1>1. /\ proc' = [proc EXCEPT ![p] = Idle] /\ UNCHANGED <<disp, run>>
      /\ stale' \in [Process -> SUBSET Dispatch]
  BY DEF Crash, Base, TypeOK
<1>. QED  BY <1>1, LetGo

LEMMA CliReportBase == ASSUME Base, NEW p \in Process, CliReport(p) PROVE Base'
<1>1. stale' \in [Process -> SUBSET Dispatch] /\ UNCHANGED <<disp, run, stale>> /\ p \notin Scheduler
  BY DispatchAssumption DEF CliReport, Base, TypeOK
<1>2. CASE proc' = [proc EXCEPT ![p] = Idle]
  BY <1>1, <1>2, LetGo
<1>3. CASE /\ proc[p].pc = "failing" /\ proc[p].attempt < Attempts
           /\ proc' = [proc EXCEPT ![p].pc = "cooling"]
  <2> DEFINE x == Turn(p, "cooling", proc[p].result)
  <2>1. proc' = [proc EXCEPT ![p] = x]
    BY <1>3, Typed DEF Base, Turn, ProcRec
  <2>2. Stands(p, x) /\ x.d = proc[p].d /\ x.attempt = proc[p].attempt
    BY <1>1, <1>3, Typed DEF Base, Turn, Stands, ProcRec, PC
  <2>. QED  BY <1>1, <1>3, <2>1, <2>2, TurnBase
<1>. QED  BY <1>2, <1>3 DEF CliReport

LEMMA CliAgainBase == ASSUME Base, NEW p \in Process, CliAgain(p) PROVE Base'
<1> DEFINE x == [Idle EXCEPT !.pc = "claimed", !.attempt = proc[p].attempt + 1]
<1>1. /\ proc[p].pc = "cooling" /\ proc' = [proc EXCEPT ![p] = x]
      /\ UNCHANGED <<disp, run, stale>> /\ stale' \in [Process -> SUBSET Dispatch]
  BY DEF CliAgain, Base, TypeOK
<1>2. proc[p].attempt \in 0..Attempts /\ proc[p].attempt < Attempts
  BY <1>1, Typed DEF Base, RowInv, ProcRec
<1>3. proc[p].attempt + 1 \in 0..Attempts
  BY <1>2, DispatchAssumption
<1>4. p \notin Scheduler
  BY <1>1 DEF Base, RowInv
<1>5. Stands(p, x) /\ x.d = 0 /\ x.pc = "claimed"
  BY <1>3, <1>4, Limits DEF Stands, ProcRec, Idle, PC, Result
<1>. QED  BY <1>1, <1>5, TurnBase

\* startRun closes the runs whose lease has lapsed, and changes nothing else of them.
LEMMA ExpiredTable ==
    ASSUME TypeOK
    PROVE  /\ Expired \in [Run -> RunRec]
           /\ \A r \in Run :
                 /\ Expired[r].for = run[r].for
                 /\ run[r].status = "running" /\ run[r].lease < 0 => Expired[r].status = "failed"
                 /\ ~(run[r].status = "running" /\ run[r].lease < 0) => Expired[r] = run[r]
<1> DEFINE y(r) == [run[r] EXCEPT !.status = "failed", !.lease = 0]
<1>1. ASSUME NEW r \in Run
      PROVE  y(r) \in RunRec /\ y(r).for = run[r].for /\ y(r).status = "failed" /\ run[r] \in RunRec
  BY Typed, Limits DEF RunRec, RunStatus
<1>2. Expired = [r \in Run |-> IF run[r].status = "running" /\ run[r].lease < 0 THEN y(r) ELSE run[r]]
  BY DEF Expired
<1> HIDE DEF y
<1>. QED  BY <1>1, <1>2

LEMMA StartRunBase == ASSUME Base, NEW p \in Process, StartRun(p) PROVE Base'
<1>1. proc[p].pc = "claimed" /\ UNCHANGED <<disp, stale>>
  BY DEF StartRun
<1>2. (p \in Scheduler => proc[p].d # 0) /\ proc[p] \in ProcRec
  BY <1>1, SchedulerHand, Typed DEF Base
<1>3. SameDispatches
  BY <1>1 DEF SameDispatches
<1>4. \A q \in Process : proc[q].pc = "cooling" => q \notin Scheduler /\ proc[q].attempt < Attempts
  BY DEF Base, RowInv
<1>5. \A r \in Run : Expired[r] = run[r] \/ (Expired[r].status # "free" /\ Expired[r].for = run[r].for)
  BY ExpiredTable DEF Base
<1>6. CASE run' = Expired /\ proc' = [proc EXCEPT ![p].pc = "report", ![p].result = "skipped"]
  <2> DEFINE x == Turn(p, "report", "skipped")
  <2>1. proc' = [proc EXCEPT ![p] = x]
    BY <1>6, Typed DEF Base, Turn, ProcRec
  <2>2. Stands(p, x) /\ x.d = proc[p].d /\ x.pc = "report"
    BY <1>1, <1>2, Typed DEF Base, Turn, Stands, ProcRec, PC, Result
  <2>3. /\ proc' \in [Process -> ProcRec] /\ \A q \in Process : Stands(q, proc'[q])
        /\ proc'[p] = x /\ \A q \in Process : q # p => proc'[q] = proc[q]
    BY <2>1, <2>2, ProcWritten DEF Base
  <2>4. TypeOK'
    BY <1>1, <1>6, <2>3, ExpiredTable, Typed, TypedAgain DEF Base, TypeOK
  <2>5. RunsKept
    BY <1>5, <1>6 DEF RunsKept
  <2>6. HandsKept
    BY <1>4, <2>2, <2>3 DEF HandsKept
  <2>. QED  BY <1>3, <2>4, <2>5, <2>6, RowKept DEF Base
<1>7. ASSUME NEW r \in Run, run[r].status = "free",
             run' = [Expired EXCEPT ![r] = [status |-> "running", for |-> proc[p].d, lease |-> Lease]],
             proc' = [proc EXCEPT ![p].pc = "working", ![p].r = r]
      PROVE  Base'
  <2> DEFINE x == [proc[p] EXCEPT !.pc = "working", !.r = r]
             y == [status |-> "running", for |-> proc[p].d, lease |-> Lease]
  <2>1. proc' = [proc EXCEPT ![p] = x]
    BY <1>7, Typed DEF Base, ProcRec
  <2>2. Stands(p, x) /\ x.d = proc[p].d /\ x.pc = "working"
    BY <1>1, <1>2, Limits DEF Stands, ProcRec, PC
  <2>3. y \in RunRec /\ y.for = proc[p].d /\ y.status = "running"
    BY <1>2, Limits DEF RunRec, RunStatus, ProcRec
  <2>4. run' = [Expired EXCEPT ![r] = y]
    BY <1>7
  <2> HIDE DEF x, y
  <2>5. /\ proc' \in [Process -> ProcRec] /\ \A q \in Process : Stands(q, proc'[q])
        /\ proc'[p] = x /\ \A q \in Process : q # p => proc'[q] = proc[q]
    BY <2>1, <2>2, ProcWritten DEF Base
  <2>6. /\ run' \in [Run -> RunRec] /\ run'[r] = y
        /\ \A q \in Run : q # r => run'[q] = Expired[q]
    BY <2>3, <2>4, ExpiredTable DEF Base
  <2>7. TypeOK'
    BY <1>1, <2>5, <2>6, Typed, TypedAgain DEF Base, TypeOK
  <2>8. proc[p].d = 0 \/ (proc[p].d \in Dispatch /\ disp[proc[p].d].status # "free")
    BY <1>2 DEF Base, RowInv, ProcRec
  <2>9. RunsKept
    BY <1>5, <2>3, <2>6, <2>8 DEF RunsKept
  <2>10. HandsKept
    BY <1>4, <2>2, <2>5 DEF HandsKept
  <2>. QED  BY <1>3, <2>7, <2>9, <2>10, RowKept DEF Base
<1>. QED  BY <1>6, <1>7 DEF StartRun, IsNextRow

LEMMA HeartbeatBase == ASSUME Base, NEW p \in Process, Heartbeat(p) PROVE Base'
<1> DEFINE r == proc[p].r
           y == [run[r] EXCEPT !.lease = Lease]
<1>1. /\ proc[p].pc = "working" /\ run' = [run EXCEPT ![r].lease = Lease]
      /\ run[r].status = "running" /\ UNCHANGED <<disp, proc, stale>>
  BY DEF Heartbeat
<1>2. r \in Run
  BY <1>1, Typed DEF Base, Stands, ProcRec
<1>3. run' = [run EXCEPT ![r] = y] /\ y \in RunRec /\ y.for = run[r].for /\ y.status = "running"
  BY <1>1, <1>2, Typed, Limits DEF Base, RunRec
<1> HIDE DEF y, r
<1>4. /\ run' \in [Run -> RunRec] /\ run'[r] = y /\ \A q \in Run : q # r => run'[q] = run[q]
  BY <1>2, <1>3, Typed DEF Base
<1>5. TypeOK'
  BY <1>1, <1>4, Typed, TypedAgain DEF Base, TypeOK
<1>6. SameDispatches /\ RunsKept
  BY <1>1, <1>3, <1>4 DEF SameDispatches, RunsKept
<1>7. \A q \in Process : proc[q].pc = "cooling" => q \notin Scheduler /\ proc[q].attempt < Attempts
  BY DEF Base, RowInv
<1>8. HandsKept
  BY <1>1, <1>7 DEF HandsKept
<1>. QED  BY <1>5, <1>6, <1>8, RowKept DEF Base

\* What finishRun writes, whatever the status.
LEMMA FinishedBase ==
    ASSUME Base, NEW p \in Process, proc[p].pc = "working", UNCHANGED <<disp, stale>>,
           NEW v \in RunStatus \cap Result, NEW c \in {"after", "failing", "report"},
           v # "free", Finished(p, v, c)
    PROVE  Base'
<1> DEFINE r == proc[p].r
           x == [proc[p] EXCEPT !.pc = c, !.r = 0, !.result = v]
           y == [run[r] EXCEPT !.status = v, !.lease = 0]
<1>1. proc[p] \in ProcRec /\ r \in Run /\ (p \in Scheduler => proc[p].d # 0)
  BY SchedulerHand, Typed DEF Base, Stands, ProcRec
<1>2. run' = [run EXCEPT ![r] = y] /\ proc' = [proc EXCEPT ![p] = x]
  BY <1>1, Typed DEF Base, Finished, ProcRec, RunRec
<1>3. y \in RunRec /\ y.for = run[r].for /\ y.status = v
  BY <1>1, Typed, Limits DEF Base, RunRec
<1>4. Stands(p, x) /\ x.d = proc[p].d /\ x.pc = c
  BY <1>1, Limits DEF Stands, ProcRec, PC
<1> HIDE DEF r, x, y
<1>5. /\ run' \in [Run -> RunRec] /\ run'[r] = y /\ \A q \in Run : q # r => run'[q] = run[q]
  BY <1>1, <1>2, <1>3, Typed DEF Base
<1>6. /\ proc' \in [Process -> ProcRec] /\ \A q \in Process : Stands(q, proc'[q])
      /\ proc'[p] = x /\ \A q \in Process : q # p => proc'[q] = proc[q]
  BY <1>2, <1>4, ProcWritten DEF Base
<1>7. TypeOK'
  BY <1>5, <1>6, Typed, TypedAgain DEF Base, TypeOK
<1>8. SameDispatches /\ RunsKept
  BY <1>3, <1>5 DEF SameDispatches, RunsKept
<1>9. \A q \in Process : proc[q].pc = "cooling" => q \notin Scheduler /\ proc[q].attempt < Attempts
  BY DEF Base, RowInv
<1>10. HandsKept
  BY <1>4, <1>6, <1>9 DEF HandsKept
<1>. QED  BY <1>7, <1>8, <1>10, RowKept DEF Base

LEMMA FinishRunBase == ASSUME Base, NEW p \in Process, FinishRun(p) PROVE Base'
<1>1. proc[p].pc = "working" /\ UNCHANGED <<disp, stale>>
  BY DEF FinishRun
<1>2. \A v \in {"succeeded", "failed", "rejected", "blocked"} : v \in RunStatus \cap Result /\ v # "free"
  BY DEF RunStatus, Result
<1>3. PICK v \in {"succeeded", "failed", "rejected", "blocked"}, c \in {"after", "failing", "report"} :
         Finished(p, v, c)
  BY DEF FinishRun
<1>. QED  BY <1>1, <1>2, <1>3, FinishedBase

LEMMA ReportBase == ASSUME Base, NEW p \in Process, Report(p) PROVE Base'
<1> DEFINE i == proc[p].d
           s == IF proc[p].result \in {"succeeded", "skipped"} THEN proc[p].result ELSE "failed"
           y == [disp[i] EXCEPT !.status = s, !.age = 0]
<1>1. /\ proc[p].pc = "report" /\ p \in Scheduler /\ proc' = [proc EXCEPT ![p] = Idle]
      /\ disp' = [disp EXCEPT ![i].status = s, ![i].age = 0] /\ UNCHANGED <<run, stale>>
  BY DEF Report
<1>2. i \in Dispatch /\ disp[i].status # "free" /\ disp[i] \in DispRec
  BY <1>1, SchedulerHand, Typed DEF Base, RowInv, ProcRec
<1>3. s \in DispatchStatus /\ s # "free"
  BY DEF DispatchStatus, Outcome
<1>4. disp' = [disp EXCEPT ![i] = y]
  BY <1>1, <1>2, Typed DEF Base, DispRec
<1>5. y \in DispRec /\ y.of = disp[i].of /\ y.attempt = disp[i].attempt /\ y.status # "free"
  BY <1>2, <1>3, Limits DEF DispRec
<1> HIDE DEF i, s, y
<1>6. /\ disp' \in [Dispatch -> DispRec] /\ disp'[i] = y
      /\ \A j \in Dispatch : j # i => disp'[j] = disp[j]
  BY <1>2, <1>4, <1>5, Typed DEF Base
<1>7. Stands(p, Idle) /\ Idle.d = 0 /\ Idle.pc = "idle"
  BY Limits DEF Stands, ProcRec, Idle, PC, Result
<1>8. /\ proc' \in [Process -> ProcRec] /\ \A q \in Process : Stands(q, proc'[q])
      /\ proc'[p] = Idle /\ \A q \in Process : q # p => proc'[q] = proc[q]
  BY <1>1, <1>7, ProcWritten DEF Base
<1>9. TypeOK'
  BY <1>1, <1>6, <1>8, Typed, TypedAgain DEF Base, TypeOK
<1>10. SameDispatches /\ RunsKept
  BY <1>1, <1>2, <1>5, <1>6 DEF SameDispatches, RunsKept
<1>11. \A q \in Process : proc[q].pc = "cooling" => q \notin Scheduler /\ proc[q].attempt < Attempts
  BY DEF Base, RowInv
<1>12. HandsKept
  BY <1>7, <1>8, <1>11 DEF HandsKept
<1>. QED  BY <1>9, <1>10, <1>12, RowKept DEF Base

\* A retry that is not known yet is the only one of its dispatch.
LEMMA NoOtherRetry ==
    ASSUME Base, NEW i \in Dispatch, disp[i].status # "free", ~RetryKnown(i), NEW j \in Dispatch
    PROVE  disp[j].of # i
<1> SUFFICES ASSUME disp[j].of = i PROVE FALSE
  OBVIOUS
<1>1. i # 0 /\ disp[j].attempt = disp[i].attempt + 1
  BY Limits DEF Base, RowInv
<1>. QED  BY <1>1 DEF RetryKnown

LEMMA QueueRetryBase == ASSUME Base, NEW p \in Process, QueueRetry(p) PROVE Base'
<1> DEFINE i == proc[p].d
           x == Turn(p, "report", proc[p].result)
           new == [NoDispatch EXCEPT !.status = "queued", !.attempt = disp[i].attempt + 1, !.of = i,
                                     !.slot = disp[i].slot, !.wait = Cooldown]
<1>1. /\ proc[p].pc = "failing" /\ p \in Scheduler /\ UNCHANGED <<run, stale>>
      /\ proc' = [proc EXCEPT ![p].pc = "report"]
  BY DEF QueueRetry
<1>2. i \in Dispatch /\ disp[i].status # "free" /\ disp[i] \in DispRec
  BY <1>1, SchedulerHand, Typed DEF Base, RowInv, ProcRec
<1>3. CASE UNCHANGED disp
  <2>1. proc' = [proc EXCEPT ![p].pc = "report", ![p].result = proc[p].result]
    BY <1>1, ProcWrites DEF Base
  <2>2. "report" \in PC \ {"working", "cooling"} /\ proc[p].result \in Result
    BY Typed DEF PC, Base, ProcRec
  <2>3. p \in Scheduler => (proc[p].d = 0 <=> "report" \in {"idle", "recovering"})
    BY <1>2, Limits
  <2>4. UNCHANGED <<disp, run, stale>> /\ proc[p].pc # "working"
    BY <1>1, <1>3
  <2> HIDE DEF i, x, new
  <2>. QED  BY <2>1, <2>2, <2>3, <2>4, TurnStep
<1>4. ASSUME ~(disp[i].attempt + 1 > Attempts), ~RetryKnown(i),
             NEW k \in Dispatch, disp[k].status = "free", disp' = [disp EXCEPT ![k] = new]
      PROVE  Base'
  <2>1. proc' = [proc EXCEPT ![p] = x]
    BY <1>1, Typed DEF Base, Turn, ProcRec
  <2>2. Stands(p, x) /\ x.d = i /\ x.pc = "report"
    BY <1>1, <1>2, Typed, Limits DEF Base, Turn, Stands, ProcRec, PC
  <2>3. disp[i].attempt + 1 \in 0..Attempts
    BY <1>2, <1>4, DispatchAssumption DEF DispRec
  <2>4. /\ new \in DispRec /\ new.of = i /\ new.attempt = disp[i].attempt + 1
        /\ new.status = "queued"
    BY <1>2, <2>3, Limits DEF NoDispatch, DispRec, DispatchStatus
  <2>5. \A j \in Dispatch : disp[j].of # i
    BY <1>2, <1>4, NoOtherRetry
  <2> HIDE DEF x, new, i
  <2>6. /\ disp' \in [Dispatch -> DispRec] /\ disp'[k] = new
        /\ \A j \in Dispatch : j # k => disp'[j] = disp[j]
    BY <1>4, <2>4, Typed DEF Base
  <2>7. /\ proc' \in [Process -> ProcRec] /\ \A q \in Process : Stands(q, proc'[q])
        /\ proc'[p] = x /\ \A q \in Process : q # p => proc'[q] = proc[q]
    BY <1>1, <2>1, <2>2, ProcWritten DEF Base, Process
  <2>8. TypeOK'
    BY <1>1, <2>6, <2>7, Typed, TypedAgain DEF Base, TypeOK
  <2>9. RowInv'
    <3>1. \A j \in Dispatch : disp[j].of # k /\ disp[j].of \in Dispatch \cup {0}
      BY <1>4, Limits DEF Base, RowInv, TypeOK
    <3>2. \A q \in Process : proc[q].d # k /\ proc[q].d \in Dispatch \cup {0}
      BY <1>4, Limits DEF Base, RowInv, TypeOK
    <3>3. \A r \in Run : run[r].for # k /\ run[r].for \in Dispatch \cup {0}
      BY <1>4, Limits DEF Base, RowInv, TypeOK
    <3>4. i # k
      BY <1>2, <1>4
    <3>5. \A j \in Dispatch : disp'[j].of # 0 =>
             disp'[disp'[j].of].status # "free" /\ disp'[j].attempt = disp'[disp'[j].of].attempt + 1
      <4>. TAKE j \in Dispatch
      <4>. HAVE disp'[j].of # 0
      <4>1. CASE j = k
        BY <4>1, <1>2, <2>4, <2>6, <3>4
      <4>2. CASE j # k
        <5>1. disp'[j] = disp[j] /\ disp[j].of \in Dispatch /\ disp[j].of # k
          BY <4>2, <2>6, <3>1
        <5>2. /\ disp[disp[j].of].status # "free"
              /\ disp[j].attempt = disp[disp[j].of].attempt + 1
          BY <5>1 DEF Base, RowInv
        <5>. QED  BY <5>1, <5>2, <2>6
      <4>. QED  BY <4>1, <4>2
    <3>6. OneDispatchPerAttempt'
      BY <2>4, <2>5, <2>6 DEF Base, RowInv, OneDispatchPerAttempt
    <3>7. /\ \A j \in Dispatch : disp'[j].status = "free" => disp'[j].of = 0
          /\ \A q \in Process : proc'[q].d # 0 => q \in Scheduler /\ disp'[proc'[q].d].status # "free"
      BY <1>1, <1>2, <2>2, <2>4, <2>6, <2>7, <3>2, <3>4 DEF Base, RowInv
    <3>8. /\ \A r \in Run : run'[r].status = "free" => run'[r].for = 0
          /\ \A r \in Run : run'[r].for # 0 => disp'[run'[r].for].status # "free"
      BY <1>1, <2>6, <3>3 DEF Base, RowInv
    <3>9. \A q \in Process : proc'[q].pc = "cooling" => q \notin Scheduler /\ proc'[q].attempt < Attempts
      BY <2>2, <2>7 DEF Base, RowInv
    <3>. QED  BY <3>5, <3>6, <3>7, <3>8, <3>9 DEF RowInv
  <2>. QED  BY <2>8, <2>9 DEF Base
<1>. QED
  <2>1. UNCHANGED disp \/ (/\ ~(disp[i].attempt + 1 > Attempts) /\ ~RetryKnown(i)
                          /\ \E k \in Dispatch : IsNextRow(disp, k) /\ disp' = [disp EXCEPT ![k] = new])
    BY DEF QueueRetry
  <2> HIDE DEF new, i, x
  <2>. QED  BY <1>3, <1>4, <2>1 DEF IsNextRow

\* An hour glass falls by one unless it is empty, and an age grows until it is past Cutoff.
LEMMA TickTables ==
    ASSUME Base, Tick
    PROVE  /\ UNCHANGED <<proc, stale>>
           /\ disp' \in [Dispatch -> DispRec] /\ run' \in [Run -> RunRec]
           /\ \A i \in Dispatch : /\ disp'[i].status = disp[i].status
                                  /\ disp'[i].of = disp[i].of /\ disp'[i].attempt = disp[i].attempt
           /\ \A r \in Run : /\ run'[r].status = run[r].status /\ run'[r].for = run[r].for
                             /\ run[r].status # "running" => run'[r] = run[r]
<1>1. /\ UNCHANGED <<proc, stale>>
      /\ \A i \in Dispatch : disp'[i] =
            [disp[i] EXCEPT !.wait = IF @ > 0 THEN @ - 1 ELSE @,
                            !.age = IF disp[i].status = "running" /\ @ <= Cutoff THEN @ + 1 ELSE @]
      /\ \A r \in Run : run'[r] =
            [run[r] EXCEPT !.lease = IF run[r].status = "running" /\ @ >= 0 THEN @ - 1 ELSE @]
      /\ DOMAIN disp' = Dispatch /\ DOMAIN run' = Run
  BY DEF Tick
<1>2. ASSUME NEW i \in Dispatch
      PROVE  /\ disp'[i] \in DispRec /\ disp'[i].status = disp[i].status
             /\ disp'[i].of = disp[i].of /\ disp'[i].attempt = disp[i].attempt
  <2>1. disp[i] \in DispRec
    BY Typed DEF Base
  <2> DEFINE w == IF disp[i].wait > 0 THEN disp[i].wait - 1 ELSE disp[i].wait
             a == IF disp[i].status = "running" /\ disp[i].age <= Cutoff
                  THEN disp[i].age + 1 ELSE disp[i].age
  <2>2. w \in 0..Cooldown
    BY <2>1, DispatchAssumption DEF DispRec
  <2>3. a \in 0..(Cutoff + 1)
    BY <2>1, DispatchAssumption DEF DispRec
  <2>4. disp'[i] = [disp[i] EXCEPT !.wait = w, !.age = a]
    BY <1>1, <2>1 DEF DispRec
  <2> HIDE DEF w, a
  <2>. QED  BY <2>1, <2>2, <2>3, <2>4 DEF DispRec
<1>3. ASSUME NEW r \in Run
      PROVE  /\ run'[r] \in RunRec /\ run'[r].status = run[r].status /\ run'[r].for = run[r].for
             /\ run[r].status # "running" => run'[r] = run[r]
  <2>1. run[r] \in RunRec
    BY Typed DEF Base
  <2> DEFINE l == IF run[r].status = "running" /\ run[r].lease >= 0 THEN run[r].lease - 1 ELSE run[r].lease
  <2>2. l \in -1..Lease
    BY <2>1, DispatchAssumption DEF RunRec
  <2>3. run'[r] = [run[r] EXCEPT !.lease = l]
    BY <1>1, <2>1 DEF RunRec
  <2>4. run[r].status # "running" => run'[r] = run[r]
    BY <2>1, <2>3 DEF RunRec
  <2> HIDE DEF l
  <2>. QED  BY <2>1, <2>2, <2>3, <2>4 DEF RunRec
<1>. QED  BY <1>1, <1>2, <1>3 DEF Tick

LEMMA TickBase == ASSUME Base, Tick PROVE Base'
<1>1. TypeOK'
  BY TickTables, Typed, TypedAgain DEF Base, TypeOK
<1>2. SameDispatches /\ RunsKept
  BY TickTables DEF SameDispatches, RunsKept
<1>3. \A q \in Process : proc[q].pc = "cooling" => q \notin Scheduler /\ proc[q].attempt < Attempts
  BY DEF Base, RowInv
<1>4. HandsKept
  BY <1>3, TickTables DEF HandsKept
<1>. QED  BY <1>1, <1>2, <1>4, RowKept DEF Base

LEMMA BaseKept == ASSUME Base, [Next]_vars PROVE Base'
<1>1. CASE Enqueue
  BY <1>1, EnqueueBase
<1>2. ASSUME NEW p \in Scheduler, Claim(p) \/ Look(p) \/ Recover(p) PROVE Base'
  BY <1>2, ClaimBase, LookBase, RecoverBase
<1>3. ASSUME NEW p \in Cli, CliStart(p) PROVE Base'
  BY <1>3, CliStartBase
<1>4. ASSUME NEW p \in Process, Work(p) PROVE Base'
  BY <1>4, StartRunBase, EndEarlyBase, FinishRunBase, AfterRunBase, QueueRetryBase, ReportBase,
     CliReportBase, CliAgainBase DEF Work
<1>5. ASSUME NEW p \in Process, Heartbeat(p) \/ Crash(p) PROVE Base'
  BY <1>5, HeartbeatBase, CrashBase
<1>6. CASE Tick
  BY <1>6, TickBase
<1>7. CASE UNCHANGED vars
  BY <1>7 DEF vars, Base, TypeOK, RowInv, OneDispatchPerAttempt
<1>. QED  BY <1>1, <1>2, <1>3, <1>4, <1>5, <1>6, <1>7 DEF Next

-----------------------------------------------------------------------------
(* One worker, while leases are kept up.                                   *)

\* A step of p after which it has no run, and by which no other process moves.
Steps(p) ==
    /\ \A q \in Process : q # p => proc'[q] = proc[q]
    /\ proc'[p].pc # "working"

LEMMA StepsAside ==
    ASSUME Base, NEW p \in Process,
           \/ EndEarly(p) \/ FinishRun(p) \/ AfterRun(p) \/ QueueRetry(p) \/ Report(p)
           \/ CliReport(p) \/ CliAgain(p) \/ Crash(p)
           \/ p \in Scheduler /\ (Claim(p) \/ Look(p) \/ Recover(p))
           \/ CliStart(p)
    PROVE  Steps(p)
<1>1. proc \in [Process -> ProcRec]
  BY Typed DEF Base
<1>2. CASE EndEarly(p)
  BY <1>1, <1>2 DEF EndEarly, Steps, ProcRec
<1>3. CASE FinishRun(p)
  BY <1>1, <1>3 DEF FinishRun, Finished, Steps, ProcRec
<1>4. CASE AfterRun(p) \/ QueueRetry(p)
  BY <1>1, <1>4 DEF AfterRun, QueueRetry, Steps, ProcRec
<1>5. CASE Report(p) \/ Crash(p)
  BY <1>1, <1>5 DEF Report, Crash, Steps, Idle
<1>6. CASE CliReport(p)
  BY <1>1, <1>6 DEF CliReport, Steps, ProcRec, Idle
<1>7. CASE CliAgain(p) \/ CliStart(p)
  BY <1>1, <1>7 DEF CliAgain, CliStart, Steps, Idle
<1>8. CASE Claim(p)
  <2>1. PICK i \in Dispatch : proc' = [proc EXCEPT ![p] = [Idle EXCEPT !.pc = "claimed", !.d = i]]
    BY <1>8 DEF Claim, Available
  <2>. QED  BY <1>1, <2>1 DEF Steps, Idle
<1>9. CASE Look(p) \/ Recover(p)
  BY <1>1, <1>9 DEF Look, Recover, Steps, ProcRec, Idle
<1>. QED  BY <1>2, <1>3, <1>4, <1>5, <1>6, <1>7, <1>8, <1>9

\* A worker that keeps its run keeps WorkInv.
LEMMA WorkSame ==
    ASSUME WorkInv, Base,
           \A q \in Process : proc'[q].pc = "working" =>
              proc'[q] = proc[q] /\ run'[proc[q].r].status = "running" /\ run'[proc[q].r].lease >= 0
    PROVE  WorkInv'
BY DEF WorkInv, OneWorker, Working

LEMMA StartRunWork == ASSUME Base, WorkInv, NEW p \in Process, StartRun(p) PROVE WorkInv'
<1>1. proc[p].pc = "claimed" /\ proc \in [Process -> ProcRec]
  BY Typed DEF StartRun, Base
<1>2. \A q \in Process : proc[q].pc = "working" =>
         /\ proc[q].r \in Run /\ Expired[proc[q].r] = run[proc[q].r]
         /\ run[proc[q].r].status = "running" /\ run[proc[q].r].lease >= 0
  <2>1. \A q \in Process : proc[q].pc = "working" => proc[q].r \in Run
    BY Typed DEF Base, Stands, ProcRec
  <2>2. \A q \in Process : proc[q].pc = "working" =>
           run[proc[q].r].status = "running" /\ run[proc[q].r].lease >= 0
    BY DEF WorkInv, Working
  <2>3. \A r \in Run : run[r] \in RunRec
    BY Typed DEF Base
  <2>4. \A r \in Run : run[r].lease >= 0 => ~(run[r].lease < 0)
    BY <2>3, DispatchAssumption DEF RunRec
  <2>. QED  BY <2>1, <2>2, <2>4, ExpiredTable DEF Base
<1>3. CASE run' = Expired /\ proc' = [proc EXCEPT ![p].pc = "report", ![p].result = "skipped"]
  <2>1. \A q \in Process : proc'[q].pc = "working" => proc'[q] = proc[q]
    BY <1>1, <1>3 DEF ProcRec
  <2>. QED  BY <1>2, <1>3, <2>1, WorkSame
<1>4. ASSUME ~\E r \in Run : Expired[r].status = "running", NEW r \in Run,
             run' = [Expired EXCEPT ![r] = [status |-> "running", for |-> proc[p].d, lease |-> Lease]],
             proc' = [proc EXCEPT ![p].pc = "working", ![p].r = r]
      PROVE  WorkInv'
  <2>1. \A q \in Process : proc[q].pc # "working"
    BY <1>2, <1>4
  <2>2. proc'[p].r = r /\ \A q \in Process : q # p => proc'[q] = proc[q]
    BY <1>1, <1>4 DEF ProcRec
  <2> DEFINE y == [status |-> "running", for |-> proc[p].d, lease |-> Lease]
  <2>3. run'[r] = y
    BY <1>4 DEF Expired
  <2>4. y.status = "running" /\ y.lease >= 0
    BY DispatchAssumption
  <2> HIDE DEF y
  <2>. QED  BY <2>1, <2>2, <2>3, <2>4 DEF WorkInv, OneWorker, Working
<1>. QED  BY <1>3, <1>4 DEF StartRun

LEMMA WorkKept == ASSUME Timely, Base, WorkInv, [Next]_vars PROVE WorkInv'
<1>1. /\ \A q \in Process : proc[q].pc = "working" => proc[q].r \in Run
      /\ run \in [Run -> RunRec] /\ proc \in [Process -> ProcRec]
  BY Typed DEF Base, Stands, ProcRec
<1>2. \A q \in Process : proc[q].pc = "working" =>
         run[proc[q].r].status = "running" /\ run[proc[q].r].lease >= 0
  BY DEF WorkInv, Working
<1>3. ASSUME NEW p \in Process, Steps(p), UNCHANGED run PROVE WorkInv'
  BY <1>2, <1>3, WorkSame DEF Steps
<1>4. CASE Enqueue \/ UNCHANGED vars
  BY <1>2, <1>4, WorkSame DEF Enqueue, vars
<1>5. ASSUME NEW p \in Scheduler, Claim(p) \/ Look(p) \/ Recover(p) PROVE WorkInv'
  <2>1. p \in Process /\ UNCHANGED run
    BY <1>5 DEF Process, Claim, Look, Recover
  <2>. QED  BY <1>3, <1>5, <2>1, StepsAside
<1>6. ASSUME NEW p \in Cli, CliStart(p) PROVE WorkInv'
  <2>1. p \in Process /\ UNCHANGED run
    BY <1>6 DEF Process, CliStart
  <2>. QED  BY <1>3, <1>6, <2>1, StepsAside
<1>7. ASSUME NEW p \in Process, EndEarly(p) \/ AfterRun(p) \/ QueueRetry(p) \/ Report(p)
                                \/ CliReport(p) \/ CliAgain(p) \/ Crash(p)
      PROVE  WorkInv'
  <2>1. UNCHANGED run
    BY <1>7 DEF EndEarly, AfterRun, QueueRetry, Report, CliReport, CliAgain, Crash
  <2>. QED  BY <1>3, <1>7, <2>1, StepsAside
<1>8. ASSUME NEW p \in Process, FinishRun(p) PROVE WorkInv'
  <2>1. proc[p].pc = "working" /\ Steps(p)
    BY <1>8, StepsAside DEF FinishRun
  <2>2. \A q \in Process : proc'[q].pc # "working"
    BY <2>1 DEF Steps, WorkInv, OneWorker, Working
  <2>. QED  BY <2>2, WorkSame
<1>9. ASSUME NEW p \in Process, Heartbeat(p) PROVE WorkInv'
  <2>1. proc[p].pc = "working" /\ proc' = proc /\ run' = [run EXCEPT ![proc[p].r].lease = Lease]
    BY <1>9 DEF Heartbeat
  <2>2. \A q \in Process : proc[q].pc = "working" => q = p
    BY <2>1 DEF WorkInv, OneWorker, Working
  <2>3. run'[proc[p].r].status = "running" /\ run'[proc[p].r].lease >= 0
    BY <1>1, <1>2, <2>1, DispatchAssumption DEF RunRec
  <2>. QED  BY <2>1, <2>2, <2>3, WorkSame
<1>10. CASE Tick
  <2>1. \A q \in Process : proc[q].pc = "working" =>
           (run[proc[q].r].status = "running" => run[proc[q].r].lease > 0)
    <3>1. InTime
      BY <1>10 DEF Tick
    <3>. TAKE q \in Process
    <3>. HAVE proc[q].pc = "working"
    <3>. QED  BY <3>1 DEF InTime
  <2>2. ASSUME NEW q \in Process, proc[q].pc = "working"
        PROVE  run'[proc[q].r].status = "running" /\ run'[proc[q].r].lease >= 0
    <3> DEFINE r == proc[q].r
    <3>1. r \in Run /\ run[r] \in RunRec /\ run[r].status = "running" /\ run[r].lease > 0
      BY <1>1, <1>2, <2>1, <2>2
    <3>2. run'[r] = [run[r] EXCEPT !.lease = IF run[r].status = "running" /\ @ >= 0 THEN @ - 1 ELSE @]
      BY <1>10, <3>1 DEF Tick
    <3> HIDE DEF r
    <3>3. run'[r].status = "running" /\ run'[r].lease = run[r].lease - 1
      BY <3>1, <3>2, DispatchAssumption DEF RunRec
    <3>4. run'[r].lease >= 0
      BY <3>1, <3>3, DispatchAssumption DEF RunRec
    <3>. QED  BY <3>3, <3>4 DEF r
  <2>3. proc' = proc
    BY <1>10 DEF Tick
  <2>. QED  BY <2>2, <2>3, WorkSame
<1>. QED  BY <1>4, <1>5, <1>6, <1>7, <1>8, <1>9, <1>10, StartRunWork DEF Next, Work

-----------------------------------------------------------------------------
(* Who holds what, while leases are kept up and no process stops.          *)

\* Nothing is written of dispatch i, of its runs' status or of its retry; its age may change.
Frame(i) ==
    /\ disp'[i].status = disp[i].status /\ disp'[i].attempt = disp[i].attempt
    /\ \A r \in Run : /\ run'[r].for = i <=> run[r].for = i
                      /\ run[r].for = i => run'[r].status = run[r].status
    /\ (\E j \in Dispatch : disp[j].of = i) => \E j \in Dispatch : disp'[j].of = i

LEMMA FrameRuns ==
    ASSUME NEW i \in Dispatch, Frame(i)
    PROVE  RunsFor(i)' = RunsFor(i) /\ \A r \in RunsFor(i) : r \in Run /\ run'[r].status = run[r].status
BY DEF Frame, RunsFor

LEMMA HeldKept ==
    ASSUME NEW p \in Process, NEW i \in Dispatch, Held(p, i), Frame(i), proc'[p] = proc[p],
           proc[p].pc \in {"claimed", "failing", "report"} /\ disp[i].age <= Cutoff =>
              disp'[i].age <= Cutoff
    PROVE  Held(p, i)'
<1>1. RunsFor(i)' = RunsFor(i) /\ \A r \in RunsFor(i) : r \in Run /\ run'[r].status = run[r].status
  BY FrameRuns
<1>2. /\ disp'[i].status = disp[i].status /\ disp'[i].attempt = disp[i].attempt
      /\ (\E j \in Dispatch : disp[j].of = i) => \E j \in Dispatch : disp'[j].of = i
  BY DEF Frame
<1>3. Before(p, i) /\ proc[p].pc \in {"claimed", "failing", "report"} => Before(p, i)'
  BY <1>1, <1>2 DEF Before
<1>4. During(p, i) => During(p, i)'
  BY <1>1, <1>2 DEF During
<1>5. After(p, i) => After(p, i)'
  BY <1>1, <1>2 DEF After
<1>. QED  BY <1>2, <1>3, <1>4, <1>5 DEF Held

LEMMA RetriedKept ==
    ASSUME NEW i \in Dispatch, Retried(i), Frame(i),
           \A p \in Process : Holds(p, i) => Holds(p, i)'
    PROVE  Retried(i)'
<1>1. RunsFor(i)' = RunsFor(i) /\ \A r \in RunsFor(i) : r \in Run /\ run'[r].status = run[r].status
  BY FrameRuns
<1>2. \A r \in Run : NewestIs(i, r)' /\ run'[r].status = "failed" =>
         NewestIs(i, r) /\ run[r].status = "failed"
  BY <1>1 DEF NewestIs
<1>. QED  BY <1>2 DEF Retried, Frame

\* A dispatch of which nothing is written stays as it should be.
LEMMA HoldAtKept ==
    ASSUME NEW i \in Dispatch, HoldAt(i), Frame(i),
           \A q \in Process : Holds(q, i)' <=> Holds(q, i),
           \A q \in Scheduler : Holds(q, i) /\ Held(q, i) => Held(q, i)',
           \A q \in Process : i \in stale'[q] =>
              i \in stale[q] \/ (disp[i].status = "running" /\ disp[i].age > Cutoff),
           disp[i].age > Cutoff => disp'[i].age > Cutoff
    PROVE  HoldAt(i)'
<1>1. disp'[i].status = disp[i].status
  BY DEF Frame
<1>2. RunsFor(i)' = RunsFor(i)
  BY FrameRuns
<1>3. Retried(i)'
  BY RetriedKept DEF HoldAt
<1>4. \A q \in Scheduler : q \in Process
  BY DEF Process
<1>5. \A p, q \in Scheduler : Holds(p, i)' /\ Holds(q, i)' => p = q
  BY <1>4 DEF HoldAt
<1>6. \A p \in Scheduler : Holds(p, i)' => Held(p, i)'
  BY <1>4 DEF HoldAt
<1>7. /\ disp'[i].status = "running" => \E p \in Scheduler : Holds(p, i)'
      /\ disp'[i].status \in {"free", "queued"} =>
            RunsFor(i)' = {} /\ \A p \in Scheduler : ~Holds(p, i)'
  BY <1>1, <1>2, <1>4 DEF HoldAt
<1>8. \A p \in Process : i \in stale'[p] =>
         /\ disp'[i].status \notin {"free", "queued"}
         /\ disp'[i].status = "running" => disp'[i].age > Cutoff
  BY <1>1 DEF HoldAt
<1>. QED  BY <1>3, <1>5, <1>6, <1>7, <1>8 DEF HoldAt

LEMMA RunsHeldKept ==
    ASSUME RunsHeld, Base,
           \A r \in Run : run'[r].for = run[r].for /\ run'[r].status = run[r].status,
           \A q \in Process : proc[q].pc = "working" \/ proc'[q].pc = "working" => proc'[q] = proc[q]
    PROVE  RunsHeld'
<1>1. \A q \in Process : proc[q].pc = "working" => proc[q].r \in Run
  BY Typed DEF Base, Stands, ProcRec
<1>. QED  BY <1>1 DEF RunsHeld, Working

\* A step of p that writes nothing of the dispatches, but of one that p holds perhaps.
LEMMA OthersKept ==
    ASSUME HoldInv, NEW p \in Process, NEW i \in Dispatch, Frame(i), disp'[i].age = disp[i].age,
           \A q \in Process : q # p => proc'[q] = proc[q], ~Holds(p, i), ~Holds(p, i)',
           \A q \in Process : i \in stale'[q] =>
              i \in stale[q] \/ (disp[i].status = "running" /\ disp[i].age > Cutoff)
    PROVE  HoldAt(i)'
<1>1. HoldAt(i)
  BY DEF HoldInv
<1>2. \A q \in Process : Holds(q, i)' <=> Holds(q, i)
  BY DEF Holds
<1>3. \A q \in Scheduler : q \in Process
  BY DEF Process
<1>4. \A q \in Scheduler : Holds(q, i) /\ Held(q, i) => Held(q, i)'
  BY <1>3, HeldKept
<1>. QED  BY <1>1, <1>2, <1>4, HoldAtKept

\* A step of p that goes on with what it holds.
LEMMA HolderKept ==
    ASSUME HoldInv, NEW p \in Process, NEW i \in Dispatch, Frame(i), disp'[i].age = disp[i].age,
           \A q \in Process : q # p => proc'[q] = proc[q], proc'[p].d = proc[p].d,
           Holds(p, i) /\ Held(p, i) => Held(p, i)',
           \A q \in Process : i \in stale'[q] => i \in stale[q]
    PROVE  HoldAt(i)'
<1>1. HoldAt(i)
  BY DEF HoldInv
<1>2. \A q \in Process : Holds(q, i)' <=> Holds(q, i)
  BY DEF Holds
<1>3. \A q \in Scheduler : q \in Process
  BY DEF Process
<1>4. \A q \in Scheduler : Holds(q, i) /\ Held(q, i) => Held(q, i)'
  BY <1>3, HeldKept
<1>. QED  BY <1>1, <1>2, <1>4, HoldAtKept

Live == Timely /\ ~MayCrash /\ Base /\ WorkInv /\ HoldInv

LEMMA FrameSame ==
    ASSUME UNCHANGED <<disp, run>>, NEW i \in Dispatch
    PROVE  Frame(i) /\ disp'[i].age = disp[i].age
BY DEF Frame

LEMMA NoWorkerMoves ==
    ASSUME Live, NEW p \in Process, Steps(p), proc[p].pc # "working", UNCHANGED run
    PROVE  RunsHeld'
<1>1. \A q \in Process : proc[q].pc = "working" \/ proc'[q].pc = "working" => proc'[q] = proc[q]
  BY DEF Steps
<1>. QED  BY <1>1, RunsHeldKept DEF Live, HoldInv

\* A row that is not in use has neither run nor retry nor holder.
LEMMA FreeRow ==
    ASSUME Live, NEW i \in Dispatch, disp[i].status = "free"
    PROVE  /\ \A r \in Run : run[r].for # i
           /\ \A j \in Dispatch : disp[j].of # i
           /\ \A q \in Process : proc[q].d # i
           /\ \A q \in Process : i \notin stale[q]
<1>1. i # 0
  BY Limits
<1>2. \A r \in Run : run[r].for # i
  BY <1>1 DEF Live, Base, RowInv
<1>3. \A j \in Dispatch : disp[j].of # i
  BY <1>1 DEF Live, Base, RowInv
<1>4. \A q \in Process : proc[q].d # i
  BY <1>1 DEF Live, Base, RowInv
<1>5. \A q \in Process : i \notin stale[q]
  BY DEF Live, HoldInv, HoldAt
<1>. QED  BY <1>2, <1>3, <1>4, <1>5

\* A queued row written over one that was free has what a row needs.
LEMMA NewRowHolds ==
    ASSUME Live, NEW i \in Dispatch, disp[i].status = "free", disp'[i].status = "queued",
           \A r \in Run : run'[r].for = run[r].for, \A q \in Process : proc'[q].d = proc[q].d,
           UNCHANGED stale
    PROVE  HoldAt(i)'
<1>1. /\ \A r \in Run : run'[r].for # i
      /\ \A q \in Process : proc'[q].d # i /\ i \notin stale'[q]
  BY FreeRow
<1>2. RunsFor(i)' = {} /\ \A q \in Process : ~Holds(q, i)'
  BY <1>1 DEF RunsFor, Holds
<1>3. \A q \in Scheduler : q \in Process
  BY DEF Process
<1>. QED  BY <1>1, <1>2, <1>3 DEF HoldAt, Retried

LEMMA EnqueueHold == ASSUME Live, Enqueue PROVE HoldInv'
<1>1. PICK k \in Dispatch :
         /\ disp[k].status = "free"
         /\ disp' = [disp EXCEPT ![k] = [NoDispatch EXCEPT !.status = "queued", !.attempt = 1, !.slot = k]]
  BY DEF Enqueue, IsNextRow
<1>2. UNCHANGED <<run, proc, stale>> /\ disp \in [Dispatch -> DispRec]
  BY Typed DEF Enqueue, Live, Base
<1>3. disp'[k].status = "queued" /\ \A j \in Dispatch : j # k => disp'[j] = disp[j]
  BY <1>1, <1>2 DEF NoDispatch
<1>4. HoldAt(k)'
  BY <1>1, <1>2, <1>3, NewRowHolds
<1>5. ASSUME NEW i \in Dispatch, i # k PROVE HoldAt(i)'
  <2>1. disp'[i] = disp[i]
    BY <1>3, <1>5
  <2>2. \A j \in Dispatch : disp[j].of = i => j # k
    BY <1>1, Limits DEF Live, Base, RowInv
  <2>3. Frame(i)
    BY <1>2, <1>3, <2>1, <2>2 DEF Frame
  <2>4. \A q \in Process : Holds(q, i)' <=> Holds(q, i)
    BY <1>2 DEF Holds
  <2>5. \A q \in Scheduler : q \in Process
    BY DEF Process
  <2>6. \A q \in Scheduler : Holds(q, i) /\ Held(q, i) => Held(q, i)'
    BY <1>2, <2>1, <2>3, <2>5, HeldKept
  <2>. QED  BY <1>2, <2>1, <2>3, <2>4, <2>6, HoldAtKept DEF Live, HoldInv
<1>6. RunsHeld'
  BY <1>2, RunsHeldKept DEF Live, HoldInv
<1>. QED  BY <1>4, <1>5, <1>6 DEF HoldInv

LEMMA ClaimHold == ASSUME Live, NEW p \in Scheduler, Claim(p) PROVE HoldInv'
<1> DEFINE hand(i) == [Idle EXCEPT !.pc = "claimed", !.d = i]
<1>1. PICK k \in Dispatch :
         /\ disp[k].status = "queued"
         /\ disp' = [disp EXCEPT ![k].status = "running", ![k].age = 0]
         /\ proc' = [proc EXCEPT ![p] = hand(k)]
  BY DEF Claim, Available
<1>2. /\ UNCHANGED <<run, stale>> /\ p \in Process /\ proc[p].pc = "idle"
      /\ disp \in [Dispatch -> DispRec] /\ proc \in [Process -> ProcRec]
  BY Typed DEF Claim, Live, Base, Process
<1>3. /\ disp'[k].status = "running" /\ disp'[k].age = 0
      /\ \A j \in Dispatch : disp'[j].of = disp[j].of
      /\ \A j \in Dispatch : j # k => disp'[j] = disp[j]
  BY <1>1, <1>2 DEF DispRec
<1>4. hand(k).d = k /\ hand(k).pc = "claimed"
  BY DEF Idle
<1> HIDE DEF hand
<1>5. proc'[p] = hand(k) /\ \A q \in Process : q # p => proc'[q] = proc[q]
  BY <1>1, <1>2
<1>6. proc[p].d = 0
  BY <1>2, Typed DEF Live, Base, Stands
<1>7. RunsFor(k) = {} /\ (\A q \in Scheduler : ~Holds(q, k)) /\ \A q \in Process : k \notin stale[q]
  BY <1>1 DEF Live, HoldInv, HoldAt
<1>8. HoldAt(k)'
  <2>1. RunsFor(k)' = {}
    BY <1>2, <1>7 DEF RunsFor
  <2>2. \A q \in Scheduler : Holds(q, k)' <=> q = p
    BY <1>4, <1>5, <1>7 DEF Holds, Process
  <2>3. Held(p, k)'
    BY <1>3, <1>4, <1>5, <2>1, DispatchAssumption DEF Held, Before
  <2>4. \A q \in Process : k \notin stale'[q]
    BY <1>2, <1>7
  <2>. QED  BY <1>3, <2>1, <2>2, <2>3, <2>4 DEF HoldAt, Retried
<1>9. ASSUME NEW i \in Dispatch, i # k PROVE HoldAt(i)'
  <2>1. disp'[i] = disp[i] /\ Frame(i)
    BY <1>2, <1>3, <1>9 DEF Frame
  <2>2. ~Holds(p, i) /\ ~Holds(p, i)'
    BY <1>4, <1>5, <1>6, <1>9, Limits DEF Holds
  <2>. QED  BY <1>2, <1>5, <2>1, <2>2, OthersKept DEF Live
<1>10. Steps(p)
  BY <1>4, <1>5 DEF Steps
<1>. QED  BY <1>2, <1>8, <1>9, <1>10, NoWorkerMoves DEF HoldInv

LEMMA LookHold == ASSUME Live, NEW p \in Scheduler, Look(p) PROVE HoldInv'
<1> DEFINE old == {i \in Dispatch : disp[i].status = "running" /\ disp[i].age > Cutoff}
<1>1. /\ proc[p].pc = "idle" /\ proc' = [proc EXCEPT ![p].pc = "recovering"]
      /\ stale' = [stale EXCEPT ![p] = old] /\ UNCHANGED <<disp, run>> /\ p \in Process
  BY DEF Look, Process
<1>2. proc \in [Process -> ProcRec] /\ stale \in [Process -> SUBSET Dispatch]
  BY Typed DEF Live, Base, TypeOK
<1>3. proc[p].d = 0
  BY <1>1, Typed DEF Live, Base, Stands
<1>4. /\ proc'[p].d = 0 /\ proc'[p].pc = "recovering"
      /\ \A q \in Process : q # p => proc'[q] = proc[q]
  BY <1>1, <1>2, <1>3 DEF ProcRec
<1>5. ASSUME NEW i \in Dispatch PROVE HoldAt(i)'
  <2>1. ~Holds(p, i) /\ ~Holds(p, i)'
    BY <1>3, <1>4, Limits DEF Holds
  <2>2. \A q \in Process : i \in stale'[q] =>
           i \in stale[q] \/ (disp[i].status = "running" /\ disp[i].age > Cutoff)
    BY <1>1, <1>2
  <2>. QED  BY <1>1, <1>4, <2>1, <2>2, FrameSame, OthersKept DEF Live
<1>6. RunsHeld'
  BY <1>1, <1>4, NoWorkerMoves DEF Steps
<1>. QED  BY <1>5, <1>6 DEF HoldInv

LEMMA EndEarlyHold == ASSUME Live, NEW p \in Process, EndEarly(p) PROVE HoldInv'
<1>1. proc[p].pc = "claimed" /\ UNCHANGED <<disp, run, stale>> /\ proc \in [Process -> ProcRec]
  BY Typed DEF EndEarly, Live, Base
<1>2. \/ proc' = [proc EXCEPT ![p].pc = "report", ![p].result = "skipped"]
      \/ proc' = [proc EXCEPT ![p].pc = "report", ![p].result = "rejected"]
      \/ proc' = [proc EXCEPT ![p].pc = "failing", ![p].result = "failed"]
  BY DEF EndEarly
<1>3. /\ \/ proc'[p].pc = "report" /\ proc'[p].result \in {"skipped", "rejected"}
         \/ proc'[p].pc = "failing" /\ proc'[p].result = "failed"
      /\ proc'[p].d = proc[p].d
      /\ \A q \in Process : q # p => proc'[q] = proc[q]
  BY <1>1, <1>2 DEF ProcRec
<1>4. ASSUME NEW i \in Dispatch PROVE HoldAt(i)'
  <2>1. Held(p, i) => Before(p, i)'
    BY <1>1 DEF Held, Before, RunsFor
  <2>2. Held(p, i) => Held(p, i)'
    BY <1>3, <2>1 DEF Held
  <2>. QED  BY <1>1, <1>3, <2>2, FrameSame, HolderKept DEF Live
<1>5. RunsHeld'
  BY <1>1, <1>3, NoWorkerMoves DEF Steps
<1>. QED  BY <1>4, <1>5 DEF HoldInv

LEMMA AfterRunHold == ASSUME Live, NEW p \in Process, AfterRun(p) PROVE HoldInv'
<1>1. /\ proc[p].pc = "after" /\ UNCHANGED <<disp, run, stale>> /\ proc \in [Process -> ProcRec]
      /\ proc' = [proc EXCEPT ![p].pc = "report"]
  BY Typed DEF AfterRun, Live, Base
<1>2. /\ proc'[p].pc = "report" /\ proc'[p].result = proc[p].result /\ proc'[p].d = proc[p].d
      /\ \A q \in Process : q # p => proc'[q] = proc[q]
  BY <1>1 DEF ProcRec
<1>3. ASSUME NEW i \in Dispatch PROVE HoldAt(i)'
  <2>1. Held(p, i) => After(p, i)' /\ proc[p].result = "succeeded"
    BY <1>1, <1>2 DEF Held, After, RunsFor
  <2>2. Held(p, i) => Held(p, i)'
    BY <1>2, <2>1 DEF Held
  <2>. QED  BY <1>1, <1>2, <2>2, FrameSame, HolderKept DEF Live
<1>4. RunsHeld'
  BY <1>1, <1>2, NoWorkerMoves DEF Steps
<1>. QED  BY <1>3, <1>4 DEF HoldInv

\* Nothing the command line does but opening and closing its runs concerns a dispatch.
LEMMA CliHold ==
    ASSUME Live, NEW p \in Process, p \notin Scheduler,
           CliReport(p) \/ CliAgain(p) \/ CliStart(p)
    PROVE  HoldInv'
<1>1. /\ UNCHANGED <<disp, run, stale>> /\ proc[p].pc # "working"
      /\ proc \in [Process -> ProcRec]
  BY Typed DEF CliReport, CliAgain, CliStart, Live, Base
<1>2. proc[p].d = 0 /\ Steps(p)
  BY StepsAside DEF Live, Base, RowInv
<1>3. proc'[p].d = 0
  <2>1. CASE CliReport(p)
    BY <1>1, <1>2, <2>1 DEF CliReport, ProcRec, Idle
  <2>2. CASE CliAgain(p) \/ CliStart(p)
    BY <1>1, <2>2 DEF CliAgain, CliStart, Idle
  <2>. QED  BY <2>1, <2>2
<1>4. ASSUME NEW i \in Dispatch PROVE HoldAt(i)'
  <2>1. ~Holds(p, i) /\ ~Holds(p, i)'
    BY <1>2, <1>3, Limits DEF Holds
  <2>. QED  BY <1>1, <1>2, <2>1, FrameSame, OthersKept DEF Live, Steps
<1>. QED  BY <1>1, <1>2, <1>4, NoWorkerMoves DEF HoldInv

\* What recovery makes of a dispatch that is held: it is left alone while its run is live, and
\* given the outcome of its run otherwise.
LEMMA RecoveredHeld ==
    ASSUME Live, NEW i \in Dispatch, NEW q \in Scheduler, Holds(q, i), Held(q, i),
           disp[i].status = "running", disp[i].age > Cutoff
    PROVE  \/ Recovered(i) = disp[i]
           \/ /\ proc[q].pc \in {"after", "failing", "report"} /\ After(q, i)
              /\ Recovered(i).status = Written(proc[q].result)
              /\ Written(proc[q].result) \in {"succeeded", "failed"}
<1>1. /\ q \in Process /\ proc[q] \in ProcRec /\ disp[i] \in DispRec
      /\ proc[q].d = i /\ i # 0
  BY Typed, Limits DEF Live, Base, Process, Holds
<1>2. proc[q].pc \notin {"idle", "recovering"}
  BY <1>1, Typed DEF Live, Base, Stands
<1>3. ~Before(q, i)
  BY <1>1, DispatchAssumption DEF Before, DispRec
<1>4. proc[q].pc \in {"working", "after", "failing", "report"}
  BY <1>1, <1>2, <1>3 DEF Held, ProcRec, PC
<1>5. ASSUME NEW r \in Run, RunsFor(i) = {r} PROVE \A x \in Run : NewestIs(i, x) <=> x = r
  BY <1>5, Limits DEF NewestIs
<1>6. CASE proc[q].pc = "working"
  <2>1. RunsFor(i) = {proc[q].r} /\ proc[q].r \in Run
    BY <1>1, <1>6, Typed DEF Held, During, Live, Base, Stands, ProcRec
  <2>2. run[proc[q].r].status = "running" /\ run[proc[q].r].lease >= 0
    BY <1>1, <1>6 DEF Live, WorkInv, Working
  <2>3. NewestIs(i, proc[q].r)
    BY <1>5, <2>1
  <2>. QED  BY <2>1, <2>2, <2>3 DEF Recovered
<1>7. CASE proc[q].pc \in {"after", "failing", "report"}
  <2>1. After(q, i) /\ proc[q].result \in {"succeeded", "failed", "rejected", "blocked", "skipped"}
    BY <1>3, <1>7 DEF Held
  <2>2. PICK r \in Run : RunsFor(i) = {r} /\ run[r].status = proc[q].result
    BY <2>1 DEF After
  <2>3. run[r].status \in RunStatus
    BY Typed DEF Live, Base, RunRec
  <2>4. proc[q].result \in {"succeeded", "failed", "rejected", "blocked"}
    BY <2>1, <2>2, <2>3 DEF RunStatus
  <2>5. \A x \in Run : NewestIs(i, x) <=> x = r
    BY <1>5, <2>2
  <2>6. (CHOOSE x \in Run : NewestIs(i, x)) = r
    BY <2>5
  <2>7. Recovered(i) = [disp[i] EXCEPT !.age = 0,
                          !.status = IF run[r].status = "succeeded" THEN "succeeded" ELSE "failed"]
    <3>1. /\ ~\E x \in Run : NewestIs(i, x) /\ run[x].status = "running" /\ run[x].lease >= 0
          /\ \E x \in Run : NewestIs(i, x) /\ run[x].status # "running"
      BY <2>2, <2>4, <2>5
    <3>. QED  BY <2>6, <3>1 DEF Recovered
  <2>8. Recovered(i).status = IF run[r].status = "succeeded" THEN "succeeded" ELSE "failed"
    BY <1>1, <2>7 DEF DispRec
  <2>. QED  BY <1>7, <2>1, <2>2, <2>4, <2>8 DEF Written
<1>. QED  BY <1>4, <1>6, <1>7

LEMMA RecoverHold == ASSUME Live, NEW p \in Scheduler, Recover(p) PROVE HoldInv'
<1>1. /\ proc[p].pc = "recovering" /\ proc' = [proc EXCEPT ![p] = Idle]
      /\ stale' = [stale EXCEPT ![p] = {}] /\ UNCHANGED run /\ p \in Process
      /\ stale \in [Process -> SUBSET Dispatch] /\ proc \in [Process -> ProcRec]
  BY Typed DEF Recover, Process, Live, Base, TypeOK
<1>2. proc[p].d = 0 /\ proc'[p].d = 0 /\ Steps(p)
  BY <1>1, Typed, StepsAside DEF Live, Base, Stands, Idle
<1>3. \A i \in Dispatch : ~Holds(p, i) /\ ~Holds(p, i)'
  BY <1>2, Limits DEF Holds
<1>4. \A q \in Process, i \in Dispatch : i \in stale'[q] => i \in stale[q]
  BY <1>1
<1>5. \A j \in Dispatch : disp'[j].of = disp[j].of /\ disp'[j].attempt = disp[j].attempt
  BY RecoverTable DEF Live
<1>6. ASSUME NEW i \in Dispatch, disp'[i] = disp[i] PROVE HoldAt(i)'
  <2>1. Frame(i)
    BY <1>1, <1>5, <1>6 DEF Frame
  <2>2. /\ \A q \in Process : q # p => proc'[q] = proc[q]
        /\ HoldInv /\ disp'[i].age = disp[i].age /\ p \in Process
    BY <1>1, <1>2, <1>6 DEF Live, Steps
  <2>. QED  BY <1>3, <1>4, <2>1, <2>2, OthersKept
<1>7. ASSUME NEW i \in Dispatch, disp'[i] # disp[i] PROVE HoldAt(i)'
  <2>1. disp[i].status = "running" /\ i \in stale[p] /\ disp'[i] = Recovered(i)
    BY <1>7, RecoverTable DEF Live
  <2>2. HoldAt(i)
    BY DEF Live, HoldInv
  <2>3. PICK q \in Scheduler : Holds(q, i) /\ Held(q, i)
    BY <2>1, <2>2 DEF HoldAt
  <2>4. disp[i].age > Cutoff
    BY <1>1, <2>1, <2>2 DEF HoldAt
  <2>5. /\ proc[q].pc \in {"after", "failing", "report"} /\ After(q, i)
        /\ disp'[i].status = Written(proc[q].result)
        /\ disp'[i].status \in {"succeeded", "failed"}
    BY <1>7, <2>1, <2>3, <2>4, RecoveredHeld
  <2>6. q # p /\ proc'[q] = proc[q] /\ q \in Process
    BY <1>2, <1>3, <2>3 DEF Steps, Process
  <2>7. \A x \in Process : Holds(x, i)' <=> Holds(x, i)
    BY <1>2, <1>3 DEF Holds, Steps
  <2>8. After(q, i)'
    BY <1>1, <2>5, <2>6 DEF After, RunsFor
  <2>9. Held(q, i)'
    BY <1>5, <2>3, <2>5, <2>6, <2>8 DEF Held
  <2>10. \A x \in Scheduler : x \in Process /\ (Holds(x, i) => x = q)
    BY <2>2, <2>3 DEF HoldAt, Process
  <2>11. Retried(i)'
    BY <2>3, <2>6, <2>7 DEF Retried
  <2>. QED  BY <2>3, <2>5, <2>7, <2>9, <2>10, <2>11 DEF HoldAt
<1>8. RunsHeld'
  BY <1>1, <1>2, NoWorkerMoves
<1>. QED  BY <1>6, <1>7, <1>8 DEF HoldInv

LEMMA HeartbeatHold == ASSUME Live, NEW p \in Process, Heartbeat(p) PROVE HoldInv'
<1>1. /\ proc[p].pc = "working" /\ run' = [run EXCEPT ![proc[p].r].lease = Lease]
      /\ UNCHANGED <<disp, proc, stale>> /\ run \in [Run -> RunRec]
  BY Typed DEF Heartbeat, Live, Base
<1>2. \A r \in Run : run'[r].for = run[r].for /\ run'[r].status = run[r].status
  BY <1>1 DEF RunRec
<1>3. ASSUME NEW i \in Dispatch PROVE HoldAt(i)'
  <2>1. Frame(i) /\ disp'[i].age = disp[i].age
    BY <1>1, <1>2 DEF Frame
  <2>2. Held(p, i) => Held(p, i)'
    BY <1>1, <2>1, HeldKept
  <2>. QED  BY <1>1, <2>1, <2>2, HolderKept DEF Live
<1>4. RunsHeld'
  BY <1>1, <1>2, RunsHeldKept DEF Live, HoldInv
<1>. QED  BY <1>3, <1>4 DEF HoldInv

\* Every run that is running has a live lease, so startRun expires none.
LEMMA NoneExpires == ASSUME Live PROVE Expired = run
<1>1. run \in [Run -> RunRec] /\ \A r \in Run : run[r].status = "running" => run[r].lease >= 0
  BY Typed DEF Live, Base, HoldInv, RunsHeld, WorkInv, Working
<1>2. \A r \in Run : ~(run[r].status = "running" /\ run[r].lease < 0)
  BY <1>1, DispatchAssumption DEF RunRec
<1>. QED  BY <1>1, <1>2 DEF Expired

LEMMA StartRunHold == ASSUME Live, NEW p \in Process, StartRun(p) PROVE HoldInv'
<1> DEFINE d == proc[p].d
<1>1. /\ proc[p].pc = "claimed" /\ UNCHANGED <<disp, stale>> /\ proc \in [Process -> ProcRec]
      /\ run \in [Run -> RunRec]
  BY Typed DEF StartRun, Live, Base
<1>2. CASE run' = run /\ proc' = [proc EXCEPT ![p].pc = "report", ![p].result = "skipped"]
  <2>1. /\ proc'[p].pc = "report" /\ proc'[p].result = "skipped" /\ proc'[p].d = proc[p].d
        /\ \A q \in Process : q # p => proc'[q] = proc[q]
    BY <1>1, <1>2 DEF ProcRec
  <2>2. ASSUME NEW i \in Dispatch PROVE HoldAt(i)'
    <3>1. Held(p, i) => Before(p, i)'
      BY <1>1, <1>2 DEF Held, Before, RunsFor
    <3>2. Held(p, i) => Held(p, i)'
      BY <2>1, <3>1 DEF Held
    <3>. QED  BY <1>1, <1>2, <2>1, <3>2, FrameSame, HolderKept DEF Live
  <2>3. RunsHeld'
    BY <1>1, <1>2, <2>1, NoWorkerMoves DEF Steps
  <2>. QED  BY <2>2, <2>3 DEF HoldInv
<1>3. ASSUME NEW r \in Run, run[r].status = "free",
             run' = [run EXCEPT ![r] = [status |-> "running", for |-> d, lease |-> Lease]],
             proc' = [proc EXCEPT ![p].pc = "working", ![p].r = r]
      PROVE  HoldInv'
  <2> DEFINE y == [status |-> "running", for |-> d, lease |-> Lease]
  <2>1. y.status = "running" /\ y.for = d /\ run' = [run EXCEPT ![r] = y]
    BY <1>3
  <2> HIDE DEF y
  <2>2. run'[r] = y /\ \A x \in Run : x # r => run'[x] = run[x]
    BY <1>1, <2>1
  <2>3. /\ proc'[p].pc = "working" /\ proc'[p].r = r /\ proc'[p].d = d
        /\ proc'[p].result = proc[p].result
        /\ \A q \in Process : q # p => proc'[q] = proc[q]
    BY <1>1, <1>3 DEF ProcRec
  <2>4. run[r].for = 0
    BY <1>3 DEF Live, Base, RowInv
  <2>5. ASSUME NEW i \in Dispatch, i # d PROVE HoldAt(i)'
    <3>1. Frame(i)
      BY <1>1, <2>1, <2>2, <2>4, <2>5, Limits DEF Frame
    <3>2. ~Holds(p, i) /\ ~Holds(p, i)'
      BY <2>3, <2>5 DEF Holds
    <3>. QED  BY <1>1, <2>3, <3>1, <3>2, OthersKept DEF Live
  <2>6. ASSUME NEW i \in Dispatch, i = d PROVE HoldAt(i)'
    <3>1. p \in Scheduler
      BY <2>6, Limits DEF Live, Base, RowInv
    <3>2. HoldAt(i) /\ Holds(p, i) /\ Held(p, i)
      BY <2>6, <3>1 DEF Live, HoldInv, HoldAt, Holds
    <3>3. disp[i].status = "running" /\ RunsFor(i) = {}
      BY <1>1, <3>2 DEF Held, Before
    <3>4. RunsFor(i)' = {r}
      BY <2>1, <2>2, <2>6, <3>3 DEF RunsFor
    <3>5. Held(p, i)'
      BY <1>1, <2>3, <3>3, <3>4 DEF Held, During
    <3>6. \A q \in Scheduler : q \in Process /\ (Holds(q, i)' => q = p)
      BY <2>3, <2>6, <3>1, <3>2 DEF HoldAt, Holds, Process
    <3>7. Holds(p, i)'
      BY <2>3, <2>6 DEF Holds
    <3>8. \A q \in Process : i \in stale[q] => disp[i].age > Cutoff
      BY <3>2, <3>3 DEF HoldAt
    <3>9. disp' = disp /\ stale' = stale
      BY <1>1
    <3>10. Retried(i)'
      BY <3>3, <3>9 DEF Retried
    <3>. QED  BY <3>1, <3>3, <3>5, <3>6, <3>7, <3>8, <3>9, <3>10 DEF HoldAt
  <2>7. RunsHeld'
    <3>1. RunsHeld
      BY DEF Live, HoldInv
    <3>2. \A x \in Process : proc[x].pc = "working" => proc[x].r \in Run /\ run[proc[x].r].status = "running"
      BY Typed DEF Live, WorkInv, Working, Base, Stands, ProcRec
    <3>3. \A x \in Process : proc[x].pc = "working" => proc[x].r # r /\ x # p
      BY <1>1, <1>3, <3>2
    <3>4. ASSUME NEW x \in Run, run'[x].status = "running"
          PROVE  \E q \in Process : Working(q)' /\ proc'[q].r = x
      <4>1. CASE x = r
        BY <2>3, <4>1 DEF Working
      <4>2. CASE x # r
        <5>1. PICK q \in Process : Working(q) /\ proc[q].r = x
          BY <2>2, <3>1, <3>4, <4>2 DEF RunsHeld
        <5>. QED  BY <2>3, <3>3, <5>1 DEF Working
      <4>. QED  BY <4>1, <4>2
    <3>5. ASSUME NEW q \in Process, Working(q)' PROVE run'[proc'[q].r].for = proc'[q].d
      <4>1. CASE q = p
        BY <2>1, <2>2, <2>3, <4>1
      <4>2. CASE q # p
        BY <2>2, <2>3, <3>1, <3>2, <3>3, <3>5, <4>2 DEF RunsHeld, Working
      <4>. QED  BY <4>1, <4>2
    <3>. QED  BY <3>4, <3>5 DEF RunsHeld
  <2>. QED  BY <2>5, <2>6, <2>7 DEF HoldInv
<1>. QED  BY <1>2, <1>3, NoneExpires DEF StartRun, IsNextRow

\* What finishRun does to the dispatch that its process holds, if any.
LEMMA FinishedHold ==
    ASSUME Live, NEW p \in Process, proc[p].pc = "working", UNCHANGED <<disp, stale>>,
           NEW v \in {"succeeded", "failed", "rejected", "blocked"},
           NEW c \in {"after", "failing", "report"}, Finished(p, v, c),
           v = "succeeded" <=> c = "after", v = "failed" <=> c = "failing"
    PROVE  HoldInv'
<1>1. /\ proc[p].r \in Run /\ run \in [Run -> RunRec] /\ proc \in [Process -> ProcRec]
      /\ run[proc[p].r].for = proc[p].d
  BY Typed DEF Live, Base, Stands, ProcRec, HoldInv, RunsHeld, Working
<1>2. PICK r \in Run, d \in Dispatch \cup {0} : proc[p].r = r /\ proc[p].d = d /\ run[r].for = d
  BY <1>1 DEF ProcRec
<1>3. /\ run'[r].status = v /\ run'[r].for = d
      /\ \A x \in Run : x # r => run'[x] = run[x]
  BY <1>1, <1>2 DEF Finished, RunRec
<1>4. /\ proc'[p].pc = c /\ proc'[p].result = v /\ proc'[p].d = d
      /\ \A q \in Process : q # p => proc'[q] = proc[q]
  BY <1>1, <1>2 DEF Finished, ProcRec
<1>5. ASSUME NEW i \in Dispatch, i # d PROVE HoldAt(i)'
  <2>1. Frame(i) /\ disp'[i].age = disp[i].age
    BY <1>2, <1>3, <1>5 DEF Frame
  <2>2. ~Holds(p, i) /\ ~Holds(p, i)'
    BY <1>2, <1>4, <1>5 DEF Holds
  <2>3. HoldInv /\ \A q \in Process : i \in stale'[q] => i \in stale[q]
    BY DEF Live
  <2>. QED  BY <1>4, <2>1, <2>2, <2>3, OthersKept
<1>6. ASSUME NEW i \in Dispatch, i = d PROVE HoldAt(i)'
  <2>1. p \in Scheduler
    BY <1>2, <1>6, Limits DEF Live, Base, RowInv
  <2>2. HoldAt(i) /\ Holds(p, i) /\ Held(p, i)
    BY <1>2, <1>6, <2>1 DEF Live, HoldInv, HoldAt, Holds
  <2>3. disp[i].status = "running" /\ RunsFor(i) = {r}
    BY <1>2, <2>2 DEF Held, During
  <2>4. RunsFor(i)' = {r}
    BY <1>2, <1>3, <1>6, <2>3 DEF RunsFor
  <2>5. disp' = disp /\ stale' = stale
    OBVIOUS
  <2>6. After(p, i)'
    BY <1>3, <1>4, <2>3, <2>4, <2>5 DEF After
  <2>7. Held(p, i)'
    BY <1>4, <2>6 DEF Held
  <2>8. \A q \in Scheduler : q \in Process /\ (Holds(q, i)' => q = p)
    BY <1>4, <1>6, <2>1, <2>2 DEF HoldAt, Holds, Process
  <2>9. Holds(p, i)'
    BY <1>4, <1>6 DEF Holds
  <2>10. Retried(i)'
    BY <2>3, <2>5 DEF Retried
  <2>. QED  BY <2>1, <2>2, <2>3, <2>5, <2>7, <2>8, <2>9, <2>10 DEF HoldAt
<1>7. RunsHeld'
  <2>1. \A q \in Process : proc[q].pc = "working" => q = p
    BY DEF Live, WorkInv, OneWorker, Working
  <2>2. \A q \in Process : proc'[q].pc # "working"
    BY <1>4, <2>1
  <2>3. \A x \in Run : run[x].status = "running" => x = r
    BY <1>2, <2>1 DEF Live, HoldInv, RunsHeld, Working
  <2>4. \A x \in Run : run'[x].status # "running"
    BY <1>3, <2>3
  <2>. QED  BY <2>2, <2>4 DEF RunsHeld, Working
<1>. QED  BY <1>5, <1>6, <1>7 DEF HoldInv

LEMMA FinishRunHold == ASSUME Live, NEW p \in Process, FinishRun(p) PROVE HoldInv'
<1>1. proc[p].pc = "working" /\ UNCHANGED <<disp, stale>>
  BY DEF FinishRun
<1>2. CASE Finished(p, "succeeded", "after")
  BY <1>1, <1>2, FinishedHold
<1>3. CASE Finished(p, "failed", "failing")
  BY <1>1, <1>3, FinishedHold
<1>4. CASE Finished(p, "rejected", "report")
  BY <1>1, <1>4, FinishedHold
<1>5. CASE Finished(p, "blocked", "report")
  BY <1>1, <1>5, FinishedHold
<1>. QED  BY <1>2, <1>3, <1>4, <1>5 DEF FinishRun

\* The idempotency key finds no retry but the dispatch's own: attempts tell a dispatch from
\* the one it retries.
LEMMA KnownIsOwn ==
    ASSUME Base, NEW i \in Dispatch, RetryKnown(i)
    PROVE  \E j \in Dispatch : disp[j].of = i
<1>1. PICK j \in Dispatch : /\ disp[j].of # 0
                            /\ RetryRoot(disp[j].of) = RetryRoot(i)
                            /\ disp[j].attempt = disp[i].attempt + 1
  BY DEF RetryKnown
<1> DEFINE k == disp[j].of
<1>2. /\ k \in Dispatch /\ \A x \in Dispatch : disp[x].attempt \in Nat /\ disp[x].of \in Dispatch \cup {0}
      /\ 0 \notin Dispatch
  BY <1>1, Typed, Limits, DispatchAssumption DEF Base, DispRec
<1>3. disp[j].attempt = disp[k].attempt + 1
  BY <1>1 DEF Base, RowInv
<1>4. disp[k].attempt = disp[i].attempt
  BY <1>1, <1>2, <1>3
<1>5. \A x \in Dispatch : disp[x].of # 0 => disp[x].attempt = disp[disp[x].of].attempt + 1
  BY DEF Base, RowInv
<1> HIDE DEF k
<1>6. k = i
  <2>1. CASE disp[k].of = 0 /\ disp[i].of = 0
    BY <1>1, <2>1 DEF RetryRoot, k
  <2>2. CASE disp[k].of # 0 /\ disp[i].of # 0
    BY <1>1, <1>2, <2>2 DEF RetryRoot, k, Base, RowInv, OneDispatchPerAttempt
  <2>3. CASE disp[k].of = 0 /\ disp[i].of # 0
    <3>1. k = disp[i].of
      BY <1>1, <2>3 DEF RetryRoot, k
    <3>2. disp[i].attempt = disp[k].attempt + 1
      BY <1>5, <2>3, <3>1
    <3>. QED  BY <1>2, <1>4, <3>2
  <2>4. CASE disp[k].of # 0 /\ disp[i].of = 0
    <3>1. disp[k].of = i
      BY <1>1, <2>4 DEF RetryRoot, k
    <3>2. disp[k].attempt = disp[i].attempt + 1
      BY <1>2, <1>5, <2>4, <3>1
    <3>. QED  BY <1>2, <1>4, <3>2
  <2>. QED  BY <2>1, <2>2, <2>3, <2>4
<1>. QED  BY <1>6 DEF k

\* Turning from failing to report, once a retry is there or no attempt is left.
LEMMA TurnedToReport ==
    ASSUME NEW p \in Process, NEW i \in Dispatch, Held(p, i), Frame(i), disp'[i].age = disp[i].age,
           proc[p].pc = "failing", proc'[p].pc = "report", proc'[p].result = proc[p].result,
           disp[i].attempt < Attempts => \E j \in Dispatch : disp'[j].of = i
    PROVE  Held(p, i)'
<1>1. RunsFor(i)' = RunsFor(i) /\ \A r \in RunsFor(i) : r \in Run /\ run'[r].status = run[r].status
  BY FrameRuns
<1>2. disp'[i].status = disp[i].status /\ disp'[i].attempt = disp[i].attempt
  BY DEF Frame
<1>3. Before(p, i) => Before(p, i)'
  BY <1>1, <1>2 DEF Before
<1>4. After(p, i) => After(p, i)'
  BY <1>1, <1>2 DEF After
<1>. QED  BY <1>2, <1>3, <1>4 DEF Held

LEMMA QueueRetryHold == ASSUME Live, NEW p \in Process, QueueRetry(p) PROVE HoldInv'
<1>1. /\ proc[p].pc = "failing" /\ p \in Scheduler /\ UNCHANGED <<run, stale>>
      /\ proc' = [proc EXCEPT ![p].pc = "report"] /\ proc \in [Process -> ProcRec]
      /\ disp \in [Dispatch -> DispRec]
  BY Typed DEF QueueRetry, Live, Base
<1>2. /\ proc'[p].pc = "report" /\ proc'[p].result = proc[p].result /\ proc'[p].d = proc[p].d
      /\ \A q \in Process : q # p => proc'[q] = proc[q]
  BY <1>1 DEF ProcRec
<1>3. PICK i \in Dispatch : proc[p].d = i /\ disp[i].status # "free"
  BY <1>1, SchedulerHand, Typed DEF Live, Base, RowInv, ProcRec
<1>4. HoldAt(i) /\ Held(p, i)
  BY <1>1, <1>3 DEF Live, HoldInv, HoldAt, Holds
<1>5. RunsHeld'
  BY <1>1, <1>2, NoWorkerMoves DEF Steps
<1>6. CASE UNCHANGED disp /\ (disp[i].attempt + 1 > Attempts \/ RetryKnown(i))
  <2>1. disp[i].attempt < Attempts => \E j \in Dispatch : disp[j].of = i
    <3>1. disp[i].attempt + 1 > Attempts => ~(disp[i].attempt < Attempts)
      BY <1>1, DispatchAssumption DEF DispRec
    <3>. QED  BY <1>6, <3>1, KnownIsOwn DEF Live
  <2>2. ASSUME NEW j \in Dispatch PROVE HoldAt(j)'
    <3>1. Frame(j) /\ disp'[j].age = disp[j].age
      BY <1>1, <1>6, FrameSame
    <3>2. Holds(p, j) /\ Held(p, j) => Held(p, j)'
      <4>. HAVE Holds(p, j) /\ Held(p, j)
      <4>1. j = i
        BY <1>3 DEF Holds
      <4>2. disp[j].attempt < Attempts => \E k \in Dispatch : disp'[k].of = j
        BY <1>6, <2>1, <4>1
      <4>. QED  BY <1>1, <1>2, <3>1, <4>2, TurnedToReport
    <3>3. HoldInv /\ \A q \in Process : j \in stale'[q] => j \in stale[q]
      BY <1>1 DEF Live
    <3>. QED  BY <1>2, <3>1, <3>2, <3>3, HolderKept
  <2>. QED  BY <1>5, <2>2 DEF HoldInv
<1>7. ASSUME NEW k \in Dispatch, disp[k].status = "free",
             disp' = [disp EXCEPT ![k] = [NoDispatch EXCEPT
                !.status = "queued", !.attempt = disp[i].attempt + 1, !.of = i,
                !.slot = disp[i].slot, !.wait = Cooldown]]
      PROVE  HoldInv'
  <2>1. /\ disp'[k].status = "queued" /\ disp'[k].of = i
        /\ \A j \in Dispatch : j # k => disp'[j] = disp[j]
    BY <1>1, <1>7 DEF NoDispatch
  <2>2. HoldAt(k)'
    <3>1. \A q \in Process : proc'[q].d = proc[q].d
      BY <1>2
    <3>. QED  BY <1>1, <1>7, <2>1, <3>1, NewRowHolds
  <2>3. ASSUME NEW j \in Dispatch, j # k PROVE HoldAt(j)'
    <3>1. disp'[j] = disp[j]
      BY <2>1, <2>3
    <3>2. \A x \in Dispatch : disp[x].of = j => x # k
      BY <1>7, Limits DEF Live, Base, RowInv
    <3>3. Frame(j)
      BY <1>1, <2>1, <3>1, <3>2 DEF Frame
    <3>4. Holds(p, j) /\ Held(p, j) => Held(p, j)'
      <4>. HAVE Holds(p, j) /\ Held(p, j)
      <4>1. j = i
        BY <1>3 DEF Holds
      <4>2. \E x \in Dispatch : disp'[x].of = j
        BY <2>1, <4>1
      <4>. QED  BY <1>1, <1>2, <3>1, <3>3, <4>2, TurnedToReport
    <3>5. HoldInv /\ \A q \in Process : j \in stale'[q] => j \in stale[q]
      BY <1>1 DEF Live
    <3>. QED  BY <1>2, <3>1, <3>3, <3>4, <3>5, HolderKept
  <2>. QED  BY <1>5, <2>2, <2>3 DEF HoldInv
<1>. QED  BY <1>3, <1>6, <1>7 DEF QueueRetry, IsNextRow

LEMMA ReportHold == ASSUME Live, NEW p \in Process, Report(p) PROVE HoldInv'
<1>1. /\ proc[p].pc = "report" /\ p \in Scheduler /\ proc' = [proc EXCEPT ![p] = Idle]
      /\ UNCHANGED <<run, stale>>
      /\ disp \in [Dispatch -> DispRec] /\ proc \in [Process -> ProcRec]
  BY Typed DEF Report, Live, Base
<1>2. PICK i \in Dispatch : proc[p].d = i /\ disp[i].status # "free"
  BY <1>1, SchedulerHand, Typed DEF Live, Base, RowInv, ProcRec
<1>3. disp' = [disp EXCEPT ![i].status = Written(proc[p].result), ![i].age = 0]
  BY <1>2 DEF Report, Written
<1>4. /\ disp'[i].status = Written(proc[p].result) /\ disp'[i].attempt = disp[i].attempt
      /\ \A j \in Dispatch : disp'[j].of = disp[j].of
      /\ \A j \in Dispatch : j # i => disp'[j] = disp[j]
  BY <1>1, <1>3 DEF DispRec
<1>5. proc'[p].d = 0 /\ Steps(p) /\ \A q \in Process : q # p => proc'[q] = proc[q]
  BY <1>1, StepsAside DEF Live, Steps, Idle
<1>6. HoldAt(i) /\ Held(p, i) /\ Holds(p, i)
  BY <1>1, <1>2 DEF Live, HoldInv, HoldAt, Holds
<1>7. HoldAt(i)'
  <2>1. proc[p].result \in {"succeeded", "failed", "rejected", "blocked", "skipped"}
    BY <1>1, <1>6 DEF Held
  <2>2. disp'[i].status \notin {"free", "queued", "running"}
    BY <1>4, <2>1 DEF Written
  <2>3. \A q \in Scheduler : q \in Process /\ ~Holds(q, i)'
    BY <1>1, <1>2, <1>5, <1>6, Limits DEF HoldAt, Holds, Process
  <2>4. Retried(i)'
    <3>1. RunsFor(i)' = RunsFor(i)
      BY <1>1 DEF RunsFor
    <3> SUFFICES ASSUME disp'[i].status = "failed", disp[i].attempt < Attempts,
                        NEW r \in Run, r \in RunsFor(i), run[r].status = "failed"
                 PROVE  \E j \in Dispatch : disp[j].of = i
      BY <1>1, <1>4, <3>1 DEF Retried, NewestIs
    <3>2. After(p, i)
      BY <1>1, <1>6 DEF Held, Before
    <3>3. proc[p].result = "failed"
      BY <3>2 DEF After
    <3>. QED  BY <1>1, <1>6, <3>3 DEF Held
  <2>. QED  BY <2>2, <2>3, <2>4 DEF HoldAt
<1>8. ASSUME NEW j \in Dispatch, j # i PROVE HoldAt(j)'
  <2>1. Frame(j) /\ disp'[j].age = disp[j].age
    BY <1>1, <1>4, <1>8 DEF Frame
  <2>2. ~Holds(p, j) /\ ~Holds(p, j)'
    BY <1>2, <1>5, <1>8, Limits DEF Holds
  <2>3. HoldInv /\ \A q \in Process : j \in stale'[q] => j \in stale[q]
    BY <1>1 DEF Live
  <2>. QED  BY <1>5, <2>1, <2>2, <2>3, OthersKept
<1>9. RunsHeld'
  BY <1>1, <1>5, NoWorkerMoves
<1>. QED  BY <1>7, <1>8, <1>9 DEF HoldInv

LEMMA TickHold == ASSUME Live, Tick PROVE HoldInv'
<1>1. /\ UNCHANGED <<proc, stale>> /\ InTime
      /\ disp \in [Dispatch -> DispRec] /\ run \in [Run -> RunRec] /\ proc \in [Process -> ProcRec]
  BY Typed DEF Tick, Live, Base
<1>2. \A r \in Run : run'[r].for = run[r].for /\ run'[r].status = run[r].status
  BY TickTables DEF Live
<1>3. ASSUME NEW i \in Dispatch
      PROVE  /\ disp'[i].status = disp[i].status /\ disp'[i].attempt = disp[i].attempt
             /\ disp'[i].of = disp[i].of
             /\ disp[i].age > Cutoff => disp'[i].age > Cutoff
             /\ disp[i].age < Cutoff => disp'[i].age <= Cutoff
  <2> DEFINE a == IF disp[i].status = "running" /\ disp[i].age <= Cutoff
                  THEN disp[i].age + 1 ELSE disp[i].age
             w == IF disp[i].wait > 0 THEN disp[i].wait - 1 ELSE disp[i].wait
  <2>1. disp'[i] = [disp[i] EXCEPT !.wait = w, !.age = a] /\ disp[i] \in DispRec
    BY <1>1 DEF Tick
  <2>2. (disp[i].age > Cutoff => a > Cutoff) /\ (disp[i].age < Cutoff => a <= Cutoff)
    BY <2>1, DispatchAssumption DEF DispRec
  <2> HIDE DEF a, w
  <2>. QED  BY <2>1, <2>2 DEF DispRec
<1>4. RunsHeld'
  BY <1>1, <1>2, RunsHeldKept DEF Live, HoldInv
<1>5. ASSUME NEW i \in Dispatch PROVE HoldAt(i)'
  <2>1. Frame(i)
    BY <1>2, <1>3 DEF Frame
  <2>2. ASSUME NEW q \in Scheduler, Holds(q, i), Held(q, i) PROVE Held(q, i)'
    <3>1. q \in Process /\ proc'[q] = proc[q] /\ proc[q].d = i /\ i # 0
      BY <1>1, <2>2, Limits DEF Process, Holds
    <3>2. proc[q].pc \notin {"failing", "report"}
      BY <1>1, <3>1 DEF InTime
    <3>3. proc[q].pc = "claimed" => disp[i].age < Cutoff
      BY <1>1, <3>1 DEF InTime
    <3>. QED  BY <1>3, <2>1, <2>2, <3>1, <3>2, <3>3, HeldKept
  <2>3. \A q \in Process : Holds(q, i)' <=> Holds(q, i)
    BY <1>1 DEF Holds
  <2>4. HoldAt(i) /\ \A q \in Process : i \in stale'[q] => i \in stale[q]
    BY <1>1 DEF Live, HoldInv
  <2>. QED  BY <1>3, <2>1, <2>2, <2>3, <2>4, HoldAtKept
<1>. QED  BY <1>4, <1>5 DEF HoldInv

LEMMA HoldKept == ASSUME Live, [Next]_vars PROVE HoldInv'
<1>1. CASE Enqueue
  BY <1>1, EnqueueHold
<1>2. ASSUME NEW p \in Scheduler, Claim(p) \/ Look(p) \/ Recover(p) PROVE HoldInv'
  BY <1>2, ClaimHold, LookHold, RecoverHold
<1>3. ASSUME NEW p \in Cli, CliStart(p) PROVE HoldInv'
  <2>1. p \in Process /\ p \notin Scheduler
    BY DispatchAssumption DEF Process
  <2>. QED  BY <1>3, <2>1, CliHold
<1>4. ASSUME NEW p \in Process, CliReport(p) \/ CliAgain(p) PROVE HoldInv'
  <2>1. p \notin Scheduler
    BY <1>4, DispatchAssumption DEF CliReport, CliAgain, Live, Base, RowInv
  <2>2. CASE CliReport(p)
    BY <2>1, <2>2, CliHold
  <2>3. CASE CliAgain(p)
    BY <2>1, <2>3, CliHold
  <2>. QED  BY <1>4, <2>2, <2>3
<1>5. ASSUME NEW p \in Process, \/ StartRun(p) \/ EndEarly(p) \/ FinishRun(p) \/ AfterRun(p)
                                \/ QueueRetry(p) \/ Report(p) \/ Heartbeat(p)
      PROVE  HoldInv'
  BY <1>5, StartRunHold, EndEarlyHold, FinishRunHold, AfterRunHold, QueueRetryHold, ReportHold,
     HeartbeatHold
<1>6. CASE \E p \in Process : Crash(p)
  BY <1>6 DEF Crash, Live
<1>7. CASE Tick
  BY <1>7, TickHold
<1>8. CASE UNCHANGED vars
  <2>1. UNCHANGED <<disp, run, stale>> /\ UNCHANGED proc
    BY <1>8 DEF vars
  <2>2. ASSUME NEW i \in Dispatch PROVE HoldAt(i)'
    <3>1. Frame(i) /\ disp'[i].age = disp[i].age
      BY <2>1, FrameSame
    <3>2. \A q \in Scheduler : Holds(q, i) /\ Held(q, i) => Held(q, i)'
      BY <2>1, <3>1, HeldKept DEF Process
    <3>. QED  BY <2>1, <3>1, <3>2, HoldAtKept DEF Live, HoldInv, Holds
  <2>3. RunsHeld'
    BY <2>1, RunsHeldKept DEF Live, HoldInv
  <2>. QED  BY <2>2, <2>3 DEF HoldInv
<1>. QED  BY <1>1, <1>2, <1>3, <1>4, <1>5, <1>6, <1>7, <1>8 DEF Next, Work

-----------------------------------------------------------------------------
(* Every step is a step of WorkQueue or none.                              *)

LEMMA AbstractInit == Init => Queue!Init
BY DEF Init, Queue!Init, NoDispatch, FateOf

LEMMA Stutters ==
    ASSUME \A i \in Dispatch : /\ FateOf(disp'[i].status) = FateOf(disp[i].status)
                               /\ disp'[i].of = disp[i].of
    PROVE  UNCHANGED Queue!vars
BY DEF Queue!vars

\* The dispatches of S get their outcome, and nothing else happens.
LEMMA Settles ==
    ASSUME NEW S \in SUBSET Dispatch,
           \A i \in S : FateOf(disp[i].status) = "pending" /\ disp'[i].status \in Outcome,
           \A i \in Dispatch \ S : disp'[i].status = disp[i].status,
           \A i \in Dispatch : disp'[i].of = disp[i].of
    PROVE  Queue!Next
<1>1. \A i \in S : FateOf(disp'[i].status) = disp'[i].status
  BY DEF FateOf, Outcome
<1> DEFINE outcome == [i \in S |-> disp'[i].status]
<1>2. outcome \in [S -> Outcome]
  OBVIOUS
<1>3. [i \in Dispatch |-> FateOf(disp'[i].status)] =
         [i \in Dispatch |-> IF i \in S THEN outcome[i]
                             ELSE [j \in Dispatch |-> FateOf(disp[j].status)][i]]
  BY <1>1
<1> HIDE DEF outcome
<1>4. Queue!Settle(S)
  BY <1>2, <1>3 DEF Queue!Settle
<1>. QED  BY <1>4 DEF Queue!Next

LEMMA EnqueueAbstract == ASSUME Live, Enqueue PROVE Queue!Next
<1>1. PICK k \in Dispatch :
         /\ disp[k].status = "free"
         /\ disp' = [disp EXCEPT ![k] = [NoDispatch EXCEPT !.status = "queued", !.attempt = 1, !.slot = k]]
  BY DEF Enqueue, IsNextRow
<1>2. disp[k].of = 0 /\ disp \in [Dispatch -> DispRec]
  BY <1>1, Typed DEF Live, Base, RowInv
<1>3. /\ disp'[k].status = "queued" /\ disp'[k].of = 0
      /\ \A j \in Dispatch : j # k => disp'[j] = disp[j]
  BY <1>1, <1>2 DEF NoDispatch
<1>4. \A j \in Dispatch : disp'[j].of = disp[j].of
  BY <1>2, <1>3
<1>5. \A j \in Dispatch : FateOf(disp'[j].status) = IF j = k THEN "pending" ELSE FateOf(disp[j].status)
  BY <1>3 DEF FateOf
<1>6. Queue!Accept(k)
  BY <1>1, <1>4, <1>5 DEF Queue!Accept, FateOf
<1>. QED  BY <1>6 DEF Queue!Next

LEMMA ClaimAbstract == ASSUME Live, NEW p \in Scheduler, Claim(p) PROVE UNCHANGED Queue!vars
<1>1. PICK k \in Dispatch : /\ disp[k].status = "queued"
                            /\ disp' = [disp EXCEPT ![k].status = "running", ![k].age = 0]
  BY DEF Claim, Available
<1>2. disp \in [Dispatch -> DispRec]
  BY Typed DEF Live, Base
<1>3. /\ disp'[k].status = "running"
      /\ \A j \in Dispatch : disp'[j].of = disp[j].of
      /\ \A j \in Dispatch : j # k => disp'[j] = disp[j]
  BY <1>1, <1>2 DEF DispRec
<1>4. \A j \in Dispatch : FateOf(disp'[j].status) = FateOf(disp[j].status)
  <2>1. FateOf(disp'[k].status) = "pending" /\ FateOf(disp[k].status) = "pending"
    BY <1>1, <1>3 DEF FateOf
  <2>. QED  BY <1>3, <2>1
<1>. QED  BY <1>3, <1>4, Stutters

LEMMA RecoverAbstract == ASSUME Live, NEW p \in Scheduler, Recover(p) PROVE Queue!Next
<1> DEFINE S == {i \in Dispatch : disp'[i] # disp[i]}
<1>1. \A i \in Dispatch : disp'[i].of = disp[i].of
  BY RecoverTable DEF Live
<1>2. ASSUME NEW i \in Dispatch, disp'[i] # disp[i]
      PROVE  disp[i].status = "running" /\ disp'[i].status \in {"succeeded", "failed"}
  <2>1. disp[i].status = "running" /\ i \in stale[p] /\ disp'[i] = Recovered(i)
    BY <1>2, RecoverTable DEF Live
  <2>2. HoldAt(i) /\ p \in Process
    BY DEF Live, HoldInv, Process
  <2>3. PICK q \in Scheduler : Holds(q, i) /\ Held(q, i)
    BY <2>1, <2>2 DEF HoldAt
  <2>4. disp[i].age > Cutoff
    BY <2>1, <2>2 DEF HoldAt
  <2>. QED  BY <1>2, <2>1, <2>3, <2>4, RecoveredHeld
<1>3. \A i \in S : FateOf(disp[i].status) = "pending" /\ disp'[i].status \in Outcome
  BY <1>2 DEF FateOf, Outcome
<1>4. \A i \in Dispatch \ S : disp'[i].status = disp[i].status
  OBVIOUS
<1>5. S \in SUBSET Dispatch
  OBVIOUS
<1> HIDE DEF S
<1>. QED  BY <1>1, <1>3, <1>4, <1>5, Settles

LEMMA QueueRetryAbstract ==
    ASSUME Live, NEW p \in Process, QueueRetry(p)
    PROVE  Queue!Next \/ UNCHANGED Queue!vars
<1>1. proc[p].pc = "failing" /\ p \in Scheduler /\ disp \in [Dispatch -> DispRec]
  BY Typed DEF QueueRetry, Live, Base
<1>2. PICK i \in Dispatch : proc[p].d = i /\ disp[i].status # "free"
  BY <1>1, SchedulerHand, Typed DEF Live, Base, RowInv, ProcRec
<1>3. Held(p, i)
  BY <1>1, <1>2 DEF Live, HoldInv, HoldAt, Holds
<1>4. CASE UNCHANGED disp
  BY <1>4, Stutters
<1>5. ASSUME ~RetryKnown(i), NEW k \in Dispatch, disp[k].status = "free",
             disp' = [disp EXCEPT ![k] = [NoDispatch EXCEPT
                !.status = "queued", !.attempt = disp[i].attempt + 1, !.of = i,
                !.slot = disp[i].slot, !.wait = Cooldown]]
      PROVE  Queue!Next
  <2>1. /\ disp'[k].status = "queued" /\ disp'[k].of = i
        /\ \A j \in Dispatch : j # k => disp'[j] = disp[j]
    BY <1>1, <1>5 DEF NoDispatch
  <2>2. disp[i].status \in {"running", "failed"}
    BY <1>1, <1>3 DEF Held, Before, After, Written
  <2>3. FateOf(disp[i].status) \in {"pending", "failed"} /\ FateOf(disp[k].status) = "free"
    BY <1>5, <2>2 DEF FateOf
  <2>4. \A j \in Dispatch : disp[j].of # i
    BY <1>2, <1>5, NoOtherRetry DEF Live
  <2>5. \A j \in Dispatch : FateOf(disp'[j].status) = IF j = k THEN "pending" ELSE FateOf(disp[j].status)
    BY <2>1 DEF FateOf
  <2>6. \A j \in Dispatch : disp'[j].of = IF j = k THEN i ELSE disp[j].of
    BY <2>1
  <2>7. Queue!Retry(k, i)
    BY <2>3, <2>4, <2>5, <2>6 DEF Queue!Retry
  <2>. QED  BY <2>7 DEF Queue!Next
<1>. QED  BY <1>2, <1>4, <1>5 DEF QueueRetry, IsNextRow

LEMMA ReportAbstract ==
    ASSUME Live, NEW p \in Process, Report(p)
    PROVE  Queue!Next \/ UNCHANGED Queue!vars
<1>1. /\ proc[p].pc = "report" /\ p \in Scheduler /\ disp \in [Dispatch -> DispRec]
  BY Typed DEF Report, Live, Base
<1>2. PICK i \in Dispatch : proc[p].d = i /\ disp[i].status # "free"
  BY <1>1, SchedulerHand, Typed DEF Live, Base, RowInv, ProcRec
<1>3. disp' = [disp EXCEPT ![i].status = Written(proc[p].result), ![i].age = 0]
  BY <1>2 DEF Report, Written
<1>4. /\ disp'[i].status = Written(proc[p].result)
      /\ \A j \in Dispatch : disp'[j].of = disp[j].of
      /\ \A j \in Dispatch : j # i => disp'[j] = disp[j]
  BY <1>1, <1>3 DEF DispRec
<1>5. Held(p, i)
  BY <1>1, <1>2 DEF Live, HoldInv, HoldAt, Holds
<1>6. disp[i].status \in {"running", Written(proc[p].result)}
  BY <1>1, <1>5 DEF Held, Before, After
<1>7. Written(proc[p].result) \in Outcome
  BY DEF Written, Outcome
<1>8. CASE disp[i].status = "running"
  <2>1. FateOf(disp[i].status) = "pending"
    BY <1>8 DEF FateOf
  <2>2. \A j \in {i} : FateOf(disp[j].status) = "pending" /\ disp'[j].status \in Outcome
    BY <1>4, <1>7, <2>1
  <2>3. \A j \in Dispatch \ {i} : disp'[j].status = disp[j].status
    BY <1>4
  <2>4. {i} \in SUBSET Dispatch
    BY <1>2
  <2>. QED  BY <1>4, <2>2, <2>3, <2>4, Settles
<1>9. CASE disp[i].status = Written(proc[p].result)
  <2>1. \A j \in Dispatch : FateOf(disp'[j].status) = FateOf(disp[j].status)
    BY <1>4, <1>9
  <2>. QED  BY <1>4, <2>1, Stutters
<1>. QED  BY <1>6, <1>8, <1>9

LEMMA TickAbstract == ASSUME Live, Tick PROVE UNCHANGED Queue!vars
<1>1. ASSUME NEW i \in Dispatch PROVE disp'[i].status = disp[i].status /\ disp'[i].of = disp[i].of
  <2> DEFINE a == IF disp[i].status = "running" /\ disp[i].age <= Cutoff
                  THEN disp[i].age + 1 ELSE disp[i].age
             w == IF disp[i].wait > 0 THEN disp[i].wait - 1 ELSE disp[i].wait
  <2>1. disp[i] \in DispRec
    BY Typed DEF Live, Base
  <2>2. disp'[i] = [disp[i] EXCEPT !.wait = w, !.age = a]
    BY <2>1 DEF Tick
  <2> HIDE DEF a, w
  <2>. QED  BY <2>1, <2>2 DEF DispRec
<1>. QED  BY <1>1, Stutters

LEMMA AbstractStep == ASSUME Live, [Next]_vars PROVE [Queue!Next]_(Queue!vars)
<1>1. CASE Enqueue
  BY <1>1, EnqueueAbstract
<1>2. ASSUME NEW p \in Scheduler, Claim(p) \/ Look(p) \/ Recover(p)
      PROVE  Queue!Next \/ UNCHANGED Queue!vars
  <2>1. Look(p) => UNCHANGED Queue!vars
    BY Stutters DEF Look
  <2>. QED  BY <1>2, <2>1, ClaimAbstract, RecoverAbstract
<1>3. ASSUME NEW p \in Cli, CliStart(p) PROVE UNCHANGED Queue!vars
  BY <1>3, Stutters DEF CliStart
<1>4. ASSUME NEW p \in Process, Work(p) PROVE Queue!Next \/ UNCHANGED Queue!vars
  <2>1. CASE QueueRetry(p) \/ Report(p)
    BY <2>1, QueueRetryAbstract, ReportAbstract
  <2>2. CASE UNCHANGED disp
    BY <2>2, Stutters
  <2>. QED  BY <1>4, <2>1, <2>2 DEF Work, StartRun, EndEarly, FinishRun, AfterRun, CliReport, CliAgain
<1>5. ASSUME NEW p \in Process, Heartbeat(p) \/ Crash(p) PROVE UNCHANGED Queue!vars
  BY <1>5, Stutters DEF Heartbeat, Crash
<1>6. CASE Tick
  BY <1>6, TickAbstract
<1>7. CASE UNCHANGED vars
  BY <1>7, Stutters DEF vars
<1>. QED  BY <1>1, <1>2, <1>3, <1>4, <1>5, <1>6, <1>7 DEF Next

-----------------------------------------------------------------------------
(* One scheduler, which may stop anywhere, beside any command lines.       *)

\* One process runs the scheduler.
Sole == \A p, q \in Scheduler : p = q

\* No run of dispatch i succeeded.
Quiet(i) == \A r \in RunsFor(i) : run[r].status # "succeeded"

\* What the scheduler that has dispatch i in hand knows of it.
Knows(p, i) ==
    /\ disp[i].status = "running"
    /\ proc[p].pc \in {"claimed", "working", "failing"} => Quiet(i)
    /\ proc[p].pc = "failing" => proc[p].result # "succeeded"
    /\ proc[p].pc = "after" => proc[p].result = "succeeded"
    /\ proc[p].pc \in {"after", "report"} => (proc[p].result = "succeeded" <=> ~Quiet(i))

\* Only the last run of a dispatch can have succeeded, none before its outcome is written
\* or in hand, and the outcome says so.
SoleAt(i) ==
    /\ \A r \in RunsFor(i) : run[r].status = "succeeded" => NewestIs(i, r)
    /\ disp[i].status \in {"free", "queued"} => Quiet(i)
    /\ disp[i].status \in Outcome => (disp[i].status = "succeeded" <=> ~Quiet(i))
    /\ \A p \in Scheduler : Holds(p, i) => Knows(p, i)

\* Runs are opened in the order of their ids, and a worker's run is the last of its dispatch.
RunsOpened ==
    /\ \A q, r \in Run : run[q].status # "free" /\ run[r].status = "free" => q < r
    /\ \A p \in Process : Working(p) =>
          /\ run[proc[p].r].status # "free" /\ run[proc[p].r].for = proc[p].d
          /\ \A q \in Run : run[q].for = proc[p].d /\ proc[p].d # 0 => q <= proc[p].r

SoleInv == RunsOpened /\ \A i \in Dispatch : SoleAt(i)

\* Of dispatch i nothing is written, and no run of it begins, or ends with success.
Aside(i) ==
    /\ disp'[i].status = disp[i].status
    /\ \A r \in Run : /\ run'[r].for = i <=> run[r].for = i
                      /\ run[r].for = i => (run'[r].status = "succeeded" <=> run[r].status = "succeeded")

LEMMA AsideRuns ==
    ASSUME NEW i \in Dispatch, Aside(i)
    PROVE  /\ Quiet(i)' <=> Quiet(i)
           /\ \A r \in RunsFor(i)' : run'[r].status = "succeeded" =>
                 r \in RunsFor(i) /\ run[r].status = "succeeded"
           /\ \A r : NewestIs(i, r) => NewestIs(i, r)'
BY DEF Aside, Quiet, RunsFor, NewestIs

LEMMA SoleAtKept ==
    ASSUME NEW i \in Dispatch, SoleAt(i), Aside(i),
           \A p \in Scheduler : Holds(p, i)' => Knows(p, i)' \/ (Holds(p, i) /\ proc'[p] = proc[p])
    PROVE  SoleAt(i)'
<1>1. disp'[i].status = disp[i].status /\ (Quiet(i)' <=> Quiet(i))
  BY AsideRuns DEF Aside
<1>2. \A r \in RunsFor(i)' : run'[r].status = "succeeded" => NewestIs(i, r)'
  BY AsideRuns DEF SoleAt
<1>3. ASSUME NEW p \in Scheduler, Knows(p, i), proc'[p] = proc[p] PROVE Knows(p, i)'
  BY <1>1, <1>3 DEF Knows
<1>4. \A p \in Scheduler : Holds(p, i)' => Knows(p, i)'
  BY <1>3 DEF SoleAt
<1>. QED  BY <1>1, <1>2, <1>4 DEF SoleAt

LEMMA OpenedKept ==
    ASSUME Base, RunsOpened,
           \A r \in Run : /\ run'[r].for = run[r].for
                          /\ run'[r].status = "free" <=> run[r].status = "free",
           \A q \in Process : proc'[q].pc = "working" =>
              proc[q].pc = "working" /\ proc'[q].r = proc[q].r /\ proc'[q].d = proc[q].d
    PROVE  RunsOpened'
<1>1. \A q \in Process : proc[q].pc = "working" => proc[q].r \in Run
  BY Typed DEF Base, Stands, ProcRec
<1>. QED  BY <1>1 DEF RunsOpened, Working

\* A process without a run turns to another step, or lets go of what it had.
LEMMA TurnSole ==
    ASSUME Base, SoleInv, NEW p \in Process, Steps(p), UNCHANGED <<disp, run>>,
           \A i \in Dispatch : p \in Scheduler /\ Holds(p, i)' => Knows(p, i)'
    PROVE  SoleInv'
<1>1. \A q \in Process : q # p => proc'[q] = proc[q]
  BY DEF Steps
<1>2. RunsOpened'
  BY <1>1, OpenedKept DEF SoleInv, Steps
<1>3. ASSUME NEW i \in Dispatch PROVE SoleAt(i)'
  <2>1. SoleAt(i) /\ Aside(i)
    BY DEF SoleInv, Aside
  <2>2. ASSUME NEW q \in Scheduler, Holds(q, i)'
        PROVE  Knows(q, i)' \/ (Holds(q, i) /\ proc'[q] = proc[q])
    <3>1. q \in Process
      BY DEF Process
    <3>. QED  BY <1>1, <2>2, <3>1 DEF Holds
  <2>. QED  BY <2>1, <2>2, SoleAtKept
<1>. QED  BY <1>2, <1>3 DEF SoleInv

LEMMA NobodyHolds ==
    ASSUME Base, NEW p \in Process, NEW i \in Dispatch, proc[p].d = 0 \/ disp[i].status = "free"
    PROVE  ~Holds(p, i)
BY Limits DEF Holds, Base, RowInv

\* A dispatch is enqueued.
LEMMA AddedSole ==
    ASSUME Base, SoleInv, NEW i \in Dispatch, disp[i].status = "free", disp'[i].status = "queued",
           \A j \in Dispatch : j # i => disp'[j] = disp[j], UNCHANGED run,
           \A q \in Process : proc'[q].d = proc[q].d,
           \A q \in Process : proc'[q].pc = "working" => proc'[q] = proc[q],
           \A q \in Scheduler, j \in Dispatch : j # i /\ Holds(q, j)' =>
              Knows(q, j)' \/ proc'[q] = proc[q]
    PROVE  SoleInv'
<1>0. \A q \in Scheduler : q \in Process
  BY DEF Process
<1>1. RunsOpened'
  BY OpenedKept DEF SoleInv
<1>2. ASSUME NEW j \in Dispatch PROVE SoleAt(j)'
  <2>1. SoleAt(j)
    BY DEF SoleInv
  <2>2. CASE j = i
    <3>1. Quiet(i)
      BY <2>1, <2>2 DEF SoleAt
    <3>2. Quiet(i)'
      BY <3>1 DEF Quiet, RunsFor
    <3>3. \A q \in Scheduler : ~Holds(q, i)'
      BY <1>0, NobodyHolds DEF Holds
    <3>. QED  BY <2>2, <3>2, <3>3 DEF SoleAt, Quiet, Outcome
  <2>3. CASE j # i
    <3>1. Aside(j)
      BY <2>3 DEF Aside
    <3>2. \A q \in Scheduler : Holds(q, j)' => Knows(q, j)' \/ (Holds(q, j) /\ proc'[q] = proc[q])
      BY <1>0, <2>3 DEF Holds
    <3>. QED  BY <2>1, <3>1, <3>2, SoleAtKept
  <2>. QED  BY <2>2, <2>3
<1>. QED  BY <1>1, <1>2 DEF SoleInv

LEMMA EnqueueSole == ASSUME Base, SoleInv, Enqueue PROVE SoleInv'
<1>1. PICK i \in Dispatch : /\ disp[i].status = "free"
                            /\ disp' = [disp EXCEPT ![i] = [NoDispatch EXCEPT !.status = "queued", !.attempt = 1, !.slot = i]]
  BY DEF Enqueue, IsNextRow
<1>2. disp'[i].status = "queued" /\ \A j \in Dispatch : j # i => disp'[j] = disp[j]
  BY <1>1, Typed DEF Base, NoDispatch
<1>. QED  BY <1>1, <1>2, AddedSole DEF Enqueue

LEMMA ClaimSole == ASSUME Base, SoleInv, NEW p \in Scheduler, Claim(p) PROVE SoleInv'
<1>1. PICK i \in Dispatch :
         /\ disp[i].status = "queued"
         /\ disp' = [disp EXCEPT ![i].status = "running", ![i].age = 0]
         /\ proc' = [proc EXCEPT ![p] = [Idle EXCEPT !.pc = "claimed", !.d = i]]
  BY DEF Claim, Available
<1>2. UNCHANGED <<run, stale>> /\ \A q \in Scheduler : q \in Process
  BY DEF Claim, Process
<1>3. disp'[i].status = "running" /\ \A j \in Dispatch : j # i => disp'[j] = disp[j]
  BY <1>1, Typed DEF Base, DispRec
<1>4. /\ proc'[p].pc = "claimed" /\ proc'[p].d = i
      /\ \A q \in Process : q # p => proc'[q] = proc[q]
  BY <1>1, <1>2, Typed DEF Base, Idle
<1>5. RunsOpened'
  BY <1>2, <1>4, OpenedKept DEF SoleInv
<1>6. ASSUME NEW j \in Dispatch PROVE SoleAt(j)'
  <2>1. SoleAt(j)
    BY DEF SoleInv
  <2>2. CASE j = i
    <3>1. Quiet(i)'
      BY <1>1, <1>2, <2>1, <2>2 DEF SoleAt, Quiet, RunsFor
    <3>2. ASSUME NEW q \in Scheduler, Holds(q, i)' PROVE q = p
      BY <1>1, <1>2, <1>4, <2>1, <2>2, <3>2 DEF SoleAt, Knows, Holds
    <3>3. Knows(p, i)'
      BY <1>3, <1>4, <3>1 DEF Knows
    <3>. QED  BY <1>3, <2>2, <3>1, <3>2, <3>3 DEF SoleAt, Quiet, Outcome
  <2>3. CASE j # i
    <3>1. Aside(j)
      BY <1>2, <1>3, <2>3 DEF Aside
    <3>2. \A q \in Scheduler : Holds(q, j)' => Holds(q, j) /\ proc'[q] = proc[q]
      BY <1>2, <1>4, <2>3 DEF Holds
    <3>. QED  BY <2>1, <3>1, <3>2, SoleAtKept
  <2>. QED  BY <2>2, <2>3
<1>. QED  BY <1>5, <1>6 DEF SoleInv

LEMMA RecoverSole == ASSUME Sole, Base, SoleInv, NEW p \in Scheduler, Recover(p) PROVE SoleInv'
<1>1. proc[p].pc = "recovering" /\ proc' = [proc EXCEPT ![p] = Idle] /\ UNCHANGED run /\ p \in Process
  BY DEF Recover, Process
<1>2. /\ proc'[p] = Idle /\ \A q \in Process : q # p => proc'[q] = proc[q]
  BY <1>1, Typed DEF Base
<1>3. RunsOpened'
  BY <1>1, <1>2, OpenedKept DEF SoleInv, Idle
<1>4. ASSUME NEW i \in Dispatch PROVE SoleAt(i)'
  <2>1. SoleAt(i)
    BY DEF SoleInv
  <2>2. \A q \in Scheduler : ~Holds(q, i)'
    BY <1>2, Limits DEF Sole, Holds, Idle
  <2>3. (Quiet(i)' <=> Quiet(i)) /\ RunsFor(i)' = RunsFor(i) /\ \A r : NewestIs(i, r)' <=> NewestIs(i, r)
    BY <1>1 DEF Quiet, RunsFor, NewestIs
  <2>4. CASE disp'[i] = disp[i]
    BY <1>1, <2>1, <2>2, <2>3, <2>4 DEF SoleAt
  <2>5. CASE disp[i].status = "running" /\ disp'[i] = Recovered(i)
    <3>1. disp[i] \in DispRec
      BY Typed DEF Base
    <3>2. CASE \E r \in Run : NewestIs(i, r) /\ run[r].status = "running" /\ run[r].lease >= 0
      BY <2>4, <2>5, <3>2 DEF Recovered
    <3>3. CASE /\ ~\E r \in Run : NewestIs(i, r) /\ run[r].status = "running" /\ run[r].lease >= 0
               /\ \E r \in Run : NewestIs(i, r) /\ run[r].status # "running"
      <4>1. PICK r \in Run : NewestIs(i, r) /\ run[r].status # "running"
        BY <3>3
      <4>2. \A q \in Run : NewestIs(i, q) => q = r
        BY <4>1, Limits DEF NewestIs, RunsFor
      <4>3. (CHOOSE q \in Run : NewestIs(i, q)) = r
        BY <4>1, <4>2
      <4>4. disp'[i].status = IF run[r].status = "succeeded" THEN "succeeded" ELSE "failed"
        BY <2>5, <3>1, <3>3, <4>3 DEF Recovered, DispRec
      <4>5. run[r].status = "succeeded" <=> ~Quiet(i)
        BY <2>1, <4>1, <4>2 DEF SoleAt, Quiet, NewestIs, RunsFor
      <4>. QED  BY <1>1, <2>1, <2>2, <2>3, <4>4, <4>5 DEF SoleAt, Outcome
    <3>4. CASE /\ ~\E r \in Run : NewestIs(i, r) /\ run[r].status = "running" /\ run[r].lease >= 0
               /\ ~\E r \in Run : NewestIs(i, r) /\ run[r].status # "running"
      <4>1. disp'[i].status = "queued"
        BY <2>5, <3>1, <3>4 DEF Recovered, DispRec
      <4>2. Quiet(i)
        BY <2>1, <3>4 DEF SoleAt, Quiet, RunsFor
      <4>. QED  BY <1>1, <2>1, <2>2, <2>3, <4>1, <4>2 DEF SoleAt, Outcome
    <3>. QED  BY <3>2, <3>3, <3>4
  <2>. QED  BY <2>4, <2>5, RecoverTable
<1>. QED  BY <1>3, <1>4 DEF SoleInv

\* A step by which p goes on with what it has, or lets go of it.
LEMMA StepSole ==
    ASSUME Base, SoleInv, NEW p \in Process,
           \/ p \in Scheduler /\ Look(p)
           \/ CliStart(p) /\ p \in Cli
           \/ EndEarly(p) \/ AfterRun(p) \/ CliReport(p) \/ CliAgain(p) \/ Crash(p)
    PROVE  SoleInv'
<1>1. Steps(p) /\ UNCHANGED <<disp, run>>
  BY StepsAside DEF Look, CliStart, EndEarly, AfterRun, CliReport, CliAgain, Crash
<1>2. proc[p] \in ProcRec /\ proc \in [Process -> ProcRec]
  BY Typed DEF Base
<1>3. ASSUME NEW i \in Dispatch, p \in Scheduler, Holds(p, i)' PROVE Knows(p, i)'
  <2>1. Holds(p, i) => Knows(p, i)
    BY <1>3 DEF SoleInv, SoleAt
  <2>2. disp'[i] = disp[i] /\ (Quiet(i)' <=> Quiet(i))
    BY <1>1 DEF Quiet, RunsFor
  <2>3. i # 0 /\ p \notin Cli
    BY <1>3, Limits, DispatchAssumption
  <2>4. CASE Look(p)
    <3>1. proc[p].d = 0 /\ proc'[p].d = proc[p].d
      BY <1>2, <1>3, <2>4, Typed DEF Look, Base, Stands, ProcRec
    <3>. QED  BY <1>3, <2>3, <3>1 DEF Holds
  <2>5. CASE EndEarly(p)
    <3>1. proc[p].pc = "claimed" /\ proc'[p].d = proc[p].d
      BY <1>2, <2>5 DEF EndEarly, ProcRec
    <3>2. Knows(p, i) /\ Quiet(i)
      BY <1>3, <2>1, <3>1 DEF Holds, Knows
    <3>3. proc'[p].pc \in {"report", "failing"} /\ proc'[p].result # "succeeded"
      BY <1>2, <2>5 DEF EndEarly, ProcRec
    <3>. QED  BY <2>2, <3>2, <3>3 DEF Knows
  <2>6. CASE AfterRun(p)
    <3>1. /\ proc[p].pc = "after" /\ proc'[p].d = proc[p].d
          /\ proc'[p].pc = "report" /\ proc'[p].result = proc[p].result
      BY <1>2, <2>6 DEF AfterRun, ProcRec
    <3>2. Knows(p, i)
      BY <1>3, <2>1, <3>1 DEF Holds
    <3>. QED  BY <2>2, <3>1, <3>2 DEF Knows
  <2>7. CASE CliReport(p) \/ CliStart(p)
    BY <2>3, <2>7, <1>2, <1>3 DEF CliReport, CliStart, Holds, Idle
  <2>8. CASE CliAgain(p)
    BY <1>3, <2>8 DEF CliAgain, Base, RowInv
  <2>9. CASE Crash(p)
    BY <1>2, <1>3, <2>3, <2>9 DEF Crash, Holds, Idle
  <2>. QED  BY <1>3, <2>3, <2>4, <2>5, <2>6, <2>7, <2>8, <2>9
<1>. QED  BY <1>1, <1>3, TurnSole

LEMMA StartRunSole == ASSUME Sole, Base, SoleInv, NEW p \in Process, StartRun(p) PROVE SoleInv'
<1>1. proc[p].pc = "claimed" /\ UNCHANGED <<disp, stale>> /\ proc[p] \in ProcRec
  BY Typed DEF StartRun, Base
<1>2. \A q \in Scheduler : q \in Process
  BY DEF Process
<1>3. \A r \in Run : /\ Expired[r].for = run[r].for
                     /\ Expired[r].status = "free" <=> run[r].status = "free"
                     /\ Expired[r].status = "succeeded" <=> run[r].status = "succeeded"
  BY ExpiredTable DEF Base
<1>4. \A i \in Dispatch : p \in Scheduler /\ Holds(p, i) => Knows(p, i) /\ Quiet(i)
  BY <1>1 DEF SoleInv, SoleAt, Knows
<1>5. CASE run' = Expired /\ proc' = [proc EXCEPT ![p].pc = "report", ![p].result = "skipped"]
  <2>1. /\ \A q \in Process : q # p => proc'[q] = proc[q]
        /\ proc'[p].pc = "report" /\ proc'[p].result = "skipped" /\ proc'[p].d = proc[p].d
    BY <1>1, <1>5, Typed DEF Base, ProcRec
  <2>2. RunsOpened'
    BY <1>3, <1>5, <2>1, OpenedKept DEF SoleInv
  <2>3. ASSUME NEW i \in Dispatch PROVE SoleAt(i)'
    <3>1. SoleAt(i) /\ Aside(i)
      BY <1>1, <1>3, <1>5 DEF SoleInv, Aside
    <3>2. p \in Scheduler /\ Holds(p, i)' => Knows(p, i)'
      BY <1>1, <1>4, <2>1, <3>1, AsideRuns DEF Holds, Knows
    <3>3. \A q \in Scheduler : Holds(q, i)' => Knows(q, i)' \/ (Holds(q, i) /\ proc'[q] = proc[q])
      BY <1>2, <2>1, <3>2 DEF Holds
    <3>. QED  BY <3>1, <3>3, SoleAtKept
  <2>. QED  BY <2>2, <2>3 DEF SoleInv
<1>6. ASSUME NEW r \in Run, IsNextRow(run, r),
             run' = [Expired EXCEPT ![r] = [status |-> "running", for |-> proc[p].d, lease |-> Lease]],
             proc' = [proc EXCEPT ![p].pc = "working", ![p].r = r]
      PROVE  SoleInv'
  <2>1. /\ \A q \in Process : q # p => proc'[q] = proc[q]
        /\ proc'[p].pc = "working" /\ proc'[p].r = r /\ proc'[p].d = proc[p].d
    BY <1>1, <1>6, Typed DEF Base, ProcRec
  <2>2. /\ run'[r].status = "running" /\ run'[r].for = proc[p].d
        /\ \A q \in Run : q # r => run'[q] = Expired[q]
    BY <1>6, ExpiredTable DEF Base
  <2>3. /\ run[r].status = "free" /\ run[r].for = 0
        /\ \A q \in Run : run[q].status = "free" => r <= q
    BY <1>6, ExpiredTable, Typed DEF IsNextRow, Base, RowInv
  <2>4. \A q \in Run : run[q].for # 0 => q < r
    BY <2>3 DEF SoleInv, RunsOpened, Base, RowInv
  <2>5. RunsOpened'
    <3>1. ASSUME NEW q \in Run, NEW s \in Run, run'[q].status # "free", run'[s].status = "free"
          PROVE  q < s
      <4>1. s # r /\ run[s].status = "free"
        BY <1>3, <2>2, <3>1
      <4>2. q = r \/ run[q].status # "free"
        BY <1>3, <2>2, <3>1
      <4>3. run[q].status # "free" => q < s
        BY <4>1 DEF SoleInv, RunsOpened
      <4>4. r < s
        BY <2>3, <4>1, Limits
      <4>. QED  BY <4>2, <4>3, <4>4
    <3>2. ASSUME NEW q \in Process, Working(q)'
          PROVE  /\ run'[proc'[q].r].status # "free" /\ run'[proc'[q].r].for = proc'[q].d
                 /\ \A s \in Run : run'[s].for = proc'[q].d /\ proc'[q].d # 0 => s <= proc'[q].r
      <4>1. CASE q = p
        <5>1. \A s \in Run : s # r /\ run'[s].for = proc[p].d /\ proc[p].d # 0 => s < r
          BY <1>3, <2>2, <2>4
        <5>. QED  BY <2>1, <2>2, <4>1, <5>1, Limits
      <4>2. CASE q # p
        <5>1. Working(q) /\ proc'[q] = proc[q] /\ proc[q].r \in Run
          BY <2>1, <3>2, <4>2, Typed DEF Working, Base, Stands, ProcRec
        <5>2. /\ run[proc[q].r].status # "free" /\ run[proc[q].r].for = proc[q].d
              /\ \A s \in Run : run[s].for = proc[q].d /\ proc[q].d # 0 => s <= proc[q].r
          BY <5>1 DEF SoleInv, RunsOpened
        <5>3. proc[q].r # r
          BY <2>3, <5>2
        <5>4. proc[q].d # 0 => proc[p].d # proc[q].d
          BY <4>2 DEF Sole, Base, RowInv
        <5>. QED  BY <1>3, <2>2, <5>1, <5>2, <5>3, <5>4
      <4>. QED  BY <4>1, <4>2
    <3>. QED  BY <3>1, <3>2 DEF RunsOpened
  <2>6. ASSUME NEW i \in Dispatch PROVE SoleAt(i)'
    <3>1. SoleAt(i)
      BY DEF SoleInv
    <3>2. CASE proc[p].d = i
      <4>1. p \in Scheduler /\ Knows(p, i) /\ Quiet(i)
        BY <1>4, <3>2, Limits DEF Holds, Base, RowInv
      <4>2. Quiet(i)'
        BY <1>3, <2>2, <4>1 DEF Quiet, RunsFor
      <4>3. disp'[i].status = "running"
        BY <1>1, <4>1 DEF Knows
      <4>4. Knows(p, i)'
        BY <2>1, <4>2, <4>3 DEF Knows
      <4>. QED  BY <4>1, <4>2, <4>3, <4>4 DEF Sole, SoleAt, Quiet, Outcome
    <3>3. CASE proc[p].d # i
      <4>1. Aside(i)
        BY <1>1, <1>3, <2>2, <2>3, <3>3, Limits DEF Aside
      <4>2. \A q \in Scheduler : Holds(q, i)' => Holds(q, i) /\ proc'[q] = proc[q]
        BY <1>2, <2>1, <3>3 DEF Holds
      <4>. QED  BY <3>1, <4>1, <4>2, SoleAtKept
    <3>. QED  BY <3>2, <3>3
  <2>. QED  BY <2>5, <2>6 DEF SoleInv
<1>. QED  BY <1>5, <1>6 DEF StartRun

LEMMA HeartbeatSole == ASSUME Base, SoleInv, NEW p \in Process, Heartbeat(p) PROVE SoleInv'
<1>1. UNCHANGED <<disp, proc, stale>> /\ run' = [run EXCEPT ![proc[p].r].lease = Lease]
  BY DEF Heartbeat
<1>2. \A r \in Run : run'[r].for = run[r].for /\ run'[r].status = run[r].status
  BY <1>1, Typed DEF Base, RunRec
<1>3. RunsOpened'
  BY <1>1, <1>2, OpenedKept DEF SoleInv
<1>4. ASSUME NEW i \in Dispatch PROVE SoleAt(i)'
  <2>1. SoleAt(i) /\ Aside(i)
    BY <1>1, <1>2 DEF SoleInv, Aside
  <2>. QED  BY <1>1, <2>1, SoleAtKept DEF Holds
<1>. QED  BY <1>3, <1>4 DEF SoleInv

LEMMA FinishedSole ==
    ASSUME Sole, Base, SoleInv, NEW p \in Process, proc[p].pc = "working", UNCHANGED <<disp, stale>>,
           NEW v, NEW c, Finished(p, v, c), v # "free",
           \/ v = "succeeded" /\ c = "after"
           \/ v # "succeeded" /\ c \in {"failing", "report"}
    PROVE  SoleInv'
<1> DEFINE r == proc[p].r
<1>1. r \in Run /\ proc[p] \in ProcRec
  BY Typed DEF Base, Stands, ProcRec
<1>2. /\ run' = [run EXCEPT ![r].status = v, ![r].lease = 0]
      /\ proc' = [proc EXCEPT ![p].pc = c, ![p].r = 0, ![p].result = v]
  BY DEF Finished
<1>3. /\ run'[r].status = v /\ run'[r].for = run[r].for
      /\ \A q \in Run : q # r => run'[q] = run[q]
  BY <1>1, <1>2, Typed DEF Base, RunRec
<1>4. /\ proc'[p].pc = c /\ proc'[p].d = proc[p].d /\ proc'[p].result = v
      /\ \A q \in Process : q # p => proc'[q] = proc[q]
  BY <1>1, <1>2, Typed DEF Base, ProcRec
<1>5. /\ run[r].status # "free" /\ run[r].for = proc[p].d
      /\ \A q \in Run : run[q].for = proc[p].d /\ proc[p].d # 0 => q <= r
  BY DEF SoleInv, RunsOpened, Working
<1> HIDE DEF r
<1>6. RunsOpened'
  BY <1>3, <1>4, <1>5, OpenedKept DEF SoleInv
<1>7. ASSUME NEW i \in Dispatch PROVE SoleAt(i)'
  <2>1. SoleAt(i)
    BY DEF SoleInv
  <2>2. CASE proc[p].d = i
    <3>1. p \in Scheduler /\ Knows(p, i) /\ Quiet(i) /\ disp'[i].status = "running"
      BY <2>1, <2>2, Limits DEF Holds, Base, RowInv, SoleAt, Knows
    <3>2. v # "succeeded" => Quiet(i)'
      BY <1>3, <3>1 DEF Quiet, RunsFor
    <3>3. v = "succeeded" => ~Quiet(i)'
      BY <1>1, <1>3, <1>5, <2>2 DEF Quiet, RunsFor
    <3>4. \A q \in RunsFor(i)' : run'[q].status = "succeeded" => NewestIs(i, q)'
      BY <1>1, <1>3, <1>5, <2>2, <3>1, Limits DEF Quiet, RunsFor, NewestIs
    <3>5. Knows(p, i)'
      BY <1>4, <3>1, <3>2, <3>3 DEF Knows
    <3>. QED  BY <3>1, <3>4, <3>5 DEF Sole, SoleAt, Outcome
  <2>3. CASE proc[p].d # i
    <3>1. Aside(i)
      BY <1>3, <1>5, <2>3 DEF Aside
    <3>2. \A q \in Scheduler : Holds(q, i)' => Holds(q, i) /\ proc'[q] = proc[q]
      BY <1>4, <2>3 DEF Holds, Process
    <3>. QED  BY <2>1, <3>1, <3>2, SoleAtKept
  <2>. QED  BY <2>2, <2>3
<1>. QED  BY <1>6, <1>7 DEF SoleInv

LEMMA FinishRunSole == ASSUME Sole, Base, SoleInv, NEW p \in Process, FinishRun(p) PROVE SoleInv'
BY FinishedSole DEF FinishRun

LEMMA QueueRetrySole == ASSUME Base, SoleInv, NEW p \in Process, QueueRetry(p) PROVE SoleInv'
<1> DEFINE i == proc[p].d
           new == [NoDispatch EXCEPT !.status = "queued", !.attempt = disp[i].attempt + 1, !.of = i,
                                     !.slot = disp[i].slot, !.wait = Cooldown]
<1>1. /\ proc[p].pc = "failing" /\ p \in Scheduler /\ UNCHANGED <<run, stale>>
      /\ proc' = [proc EXCEPT ![p].pc = "report"]
  BY DEF QueueRetry
<1>2. /\ proc'[p].pc = "report" /\ proc'[p].d = i /\ proc'[p].result = proc[p].result
      /\ \A q \in Process : q # p => proc'[q] = proc[q]
  BY <1>1, Typed DEF Base, ProcRec
<1>3. ASSUME NEW j \in Dispatch, Holds(p, j)', disp'[j].status = disp[j].status PROVE Knows(p, j)'
  <2>1. Knows(p, j) /\ Quiet(j) /\ proc[p].result # "succeeded"
    BY <1>1, <1>2, <1>3 DEF Holds, SoleInv, SoleAt, Knows
  <2>2. Quiet(j)'
    BY <1>1, <2>1 DEF Quiet, RunsFor
  <2>. QED  BY <1>2, <1>3, <2>1, <2>2 DEF Knows
<1>4. CASE UNCHANGED disp
  BY <1>1, <1>2, <1>3, <1>4, TurnSole DEF Steps
<1>5. ASSUME NEW k \in Dispatch, disp[k].status = "free", disp' = [disp EXCEPT ![k] = new]
      PROVE  SoleInv'
  <2>1. disp'[k].status = "queued" /\ \A j \in Dispatch : j # k => disp'[j] = disp[j]
    BY <1>5, Typed DEF Base, NoDispatch
  <2>2. \A q \in Scheduler : q \in Process
    BY DEF Process
  <2> HIDE DEF new
  <2>. QED  BY <1>1, <1>2, <1>3, <1>5, <2>1, <2>2, AddedSole
<1>6. UNCHANGED disp \/ \E k \in Dispatch : IsNextRow(disp, k) /\ disp' = [disp EXCEPT ![k] = new]
  BY DEF QueueRetry
<1> HIDE DEF new, i
<1>. QED  BY <1>4, <1>5, <1>6 DEF IsNextRow

LEMMA ReportSole == ASSUME Sole, Base, SoleInv, NEW p \in Process, Report(p) PROVE SoleInv'
<1> DEFINE i == proc[p].d
           s == Written(proc[p].result)
<1>1. /\ proc[p].pc = "report" /\ p \in Scheduler /\ proc' = [proc EXCEPT ![p] = Idle]
      /\ disp' = [disp EXCEPT ![i].status = s, ![i].age = 0] /\ UNCHANGED <<run, stale>>
  BY DEF Report, Written
<1>2. i \in Dispatch
  BY <1>1, SchedulerHand, Typed DEF Base, ProcRec
<1>3. disp'[i].status = s /\ \A j \in Dispatch : j # i => disp'[j] = disp[j]
  BY <1>1, <1>2, Typed DEF Base, DispRec
<1>4. proc'[p] = Idle /\ \A q \in Process : q # p => proc'[q] = proc[q]
  BY <1>1, Typed DEF Base
<1>5. RunsOpened'
  BY <1>1, <1>4, OpenedKept DEF SoleInv, Idle
<1>6. \A q \in Scheduler, j \in Dispatch : ~Holds(q, j)'
  BY <1>1, <1>4, Limits DEF Sole, Holds, Idle
<1>7. ASSUME NEW j \in Dispatch PROVE SoleAt(j)'
  <2>1. SoleAt(j)
    BY DEF SoleInv
  <2>2. (Quiet(j)' <=> Quiet(j)) /\ RunsFor(j)' = RunsFor(j) /\ \A r : NewestIs(j, r)' <=> NewestIs(j, r)
    BY <1>1 DEF Quiet, RunsFor, NewestIs
  <2>3. CASE j = i
    <3>1. proc[p].result = "succeeded" <=> ~Quiet(j)
      BY <1>1, <2>1, <2>3 DEF SoleAt, Holds, Knows
    <3>2. s \in Outcome /\ (s = "succeeded" <=> proc[p].result = "succeeded")
      BY DEF Written, Outcome
    <3>. QED  BY <1>1, <1>3, <1>6, <2>1, <2>2, <2>3, <3>1, <3>2 DEF SoleAt, Outcome
  <2>4. CASE j # i
    BY <1>1, <1>3, <1>6, <2>1, <2>2, <2>4 DEF SoleAt
  <2>. QED  BY <2>3, <2>4
<1>. QED  BY <1>5, <1>7 DEF SoleInv

LEMMA TickSole == ASSUME Base, SoleInv, Tick PROVE SoleInv'
<1>1. /\ UNCHANGED <<proc, stale>>
      /\ \A i \in Dispatch : disp'[i].status = disp[i].status
      /\ \A r \in Run : run'[r].for = run[r].for /\ run'[r].status = run[r].status
  BY TickTables
<1>2. RunsOpened'
  BY <1>1, OpenedKept DEF SoleInv
<1>3. ASSUME NEW i \in Dispatch PROVE SoleAt(i)'
  <2>1. SoleAt(i) /\ Aside(i)
    BY <1>1 DEF SoleInv, Aside
  <2>. QED  BY <1>1, <2>1, SoleAtKept DEF Holds
<1>. QED  BY <1>2, <1>3 DEF SoleInv

LEMMA SoleKept == ASSUME Sole, Base, SoleInv, [Next]_vars PROVE SoleInv'
<1>1. \A p \in Scheduler \cup Cli : p \in Process
  BY DEF Process
<1>2. CASE UNCHANGED vars
  BY <1>2 DEF vars, SoleInv, RunsOpened, SoleAt, Quiet, RunsFor, NewestIs, Knows, Holds, Working
<1>3. ASSUME NEW p \in Scheduler, Claim(p) \/ Look(p) \/ Recover(p) PROVE SoleInv'
  BY <1>1, <1>3, ClaimSole, StepSole, RecoverSole
<1>4. ASSUME NEW p \in Cli, CliStart(p) PROVE SoleInv'
  BY <1>1, <1>4, StepSole
<1>5. ASSUME NEW p \in Process, Work(p) \/ Heartbeat(p) \/ Crash(p) PROVE SoleInv'
  BY <1>5, StepSole, StartRunSole, FinishRunSole, QueueRetrySole, ReportSole, HeartbeatSole DEF Work
<1>. QED  BY <1>2, <1>3, <1>4, <1>5, EnqueueSole, TickSole DEF Next

LEMMA InitSole == ASSUME Init PROVE SoleInv
<1>1. \A i \in Dispatch : RunsFor(i) = {}
  BY DEF Init, RunsFor, NoRun, Dispatch
<1>2. \A p \in Process, i \in Dispatch : ~Holds(p, i)
  BY DEF Init, Holds, Idle, Dispatch
<1>. QED  BY <1>1, <1>2 DEF Init, SoleInv, SoleAt, RunsOpened, Quiet, Working, NoRun, NoDispatch, Idle,
                            Outcome, Process

-----------------------------------------------------------------------------

\* The inductive invariant, each part under what it needs: the rows are in order always,
\* the workers while leases are kept up, the holders when no process stops either.
THEOREM Invariance == Spec => []IInv
<1>1. IInv /\ [Next]_vars => IInv'
  <2> SUFFICES ASSUME IInv, [Next]_vars PROVE IInv'
    OBVIOUS
  <2>1. Base /\ Base'
    BY BaseKept DEF IInv, Base
  <2>2. Timely => WorkInv'
    BY <2>1, WorkKept DEF IInv
  <2>3. Timely /\ ~MayCrash => HoldInv'
    BY <2>1, HoldKept DEF IInv, Live
  <2>. QED  BY <2>1, <2>2, <2>3 DEF IInv, Base
<1>. QED  BY <1>1, InitInv, PTL DEF Spec

\* The two tables and the processes stay well typed; in particular a process has a run
\* exactly while it works, and a scheduler a dispatch exactly while it is busy.
THEOREM TypeCorrect == Spec => []TypeOK
<1>1. IInv => TypeOK
  BY DEF IInv
<1>. QED  BY <1>1, Invariance, PTL

\* scheduleRetryDispatch queues at most one retry of a dispatch, also when leases lapse, a
\* dispatch is recovered from a process that still works on it, and processes stop.
THEOREM OneEachAttempt == Spec => []OneDispatchPerAttempt
<1>1. IInv => OneDispatchPerAttempt
  BY DEF IInv, RowInv
<1>. QED  BY <1>1, Invariance, PTL

\* While processes renew their leases in time, startRun lets one of them at the source at a
\* time, whatever stops in between.
THEOREM OneAtWork == Timely => (Spec => []OneWorker)
<1> SUFFICES ASSUME Timely PROVE Spec => []OneWorker
  OBVIOUS
<1>1. IInv => OneWorker
  BY DEF IInv, WorkInv
<1>. QED  BY <1>1, Invariance, PTL

\* When no process is late and none stops, one process executes a dispatch.
THEOREM OneHand == Timely /\ ~MayCrash => (Spec => []OneHolder)
<1> SUFFICES ASSUME Timely, ~MayCrash PROVE Spec => []OneHolder
  OBVIOUS
<1>1. IInv => OneHolder
  BY DEF IInv, HoldInv, HoldAt, OneHolder
<1>. QED  BY <1>1, Invariance, PTL

\* When no process is late and none stops, a failure worth a retry has its next attempt
\* queued by the time its process lets go of it.
THEOREM Retries == Timely /\ ~MayCrash => (Spec => []FailureIsRetried)
<1> SUFFICES ASSUME Timely, ~MayCrash PROVE Spec => []FailureIsRetried
  OBVIOUS
<1>1. IInv => FailureIsRetried
  BY DEF IInv, HoldInv, HoldAt, Retried, FailureIsRetried
<1>. QED  BY <1>1, Invariance, PTL

\* When no process is late and none stops, the two tables implement WorkQueue: an outcome is
\* final, although recovery and the process itself may both write it.
THEOREM Implements == Timely /\ ~MayCrash => (Spec => KeepsQueuePromise)
<1> SUFFICES ASSUME Timely, ~MayCrash PROVE Spec => KeepsQueuePromise
  OBVIOUS
<1>1. IInv /\ [Next]_vars => [Queue!Next]_(Queue!vars)
  BY AbstractStep DEF IInv, Live, Base
<1>. QED  BY <1>1, AbstractInit, Invariance, PTL DEF Spec, KeepsQueuePromise, Queue!Spec

\* With one scheduler, an outcome agrees with the runs: wherever it stopped and however long
\* it took, whatever command lines ran beside it and whichever leases lapsed.
THEOREM Agrees == Sole => (Spec => []OutcomeOfRuns)
<1> SUFFICES ASSUME Sole PROVE Spec => []OutcomeOfRuns
  OBVIOUS
<1>1. Init => Base /\ SoleInv
  BY InitInv, InitSole DEF IInv, Base
<1>2. Base /\ SoleInv /\ [Next]_vars => (Base /\ SoleInv)'
  BY BaseKept, SoleKept
<1>3. Base /\ SoleInv => OutcomeOfRuns
  BY DEF SoleInv, SoleAt, OutcomeOfRuns, Quiet
<1>. QED  BY <1>1, <1>2, <1>3, PTL DEF Spec
=============================================================================
