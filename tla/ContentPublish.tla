--------------------------- MODULE ContentPublish ---------------------------
(***************************************************************************)
(* Posts of the content library: api/src/social/publish.ts over the        *)
(* calendar of library.ts, composed with the outbox it delivers through.   *)
(* A schedule is one post to one platform.  A concurrent call (one of      *)
(* Dispatcher) is a minute tick or an admin that publishes schedules, or   *)
(* the mail timer, which dispatches the same outbox.                       *)
(*                                                                         *)
(* publishSchedule writes "queued", enqueues and claims before its first   *)
(* await, so that is one step; the sends are steps of Outbox; what came of *)
(* the publisher's own entry is written in a last step.  A schedule's id   *)
(* is its dedupe key; ids are numbered in the order of scheduled_for.      *)
(***************************************************************************)
EXTENDS Outbox

CONSTANTS
    MaxSched,    \* how many posts are ever planned (bound)
    Platform,    \* the channel the posts go to
    MaxFaults    \* the process is not stopped after that many kinds of fault (bound)

Sched == 1..MaxSched

NoSched == 0

ASSUME ContentAssumption ==
    /\ MaxSched \in Nat
    /\ Key = Sched
    /\ Platform \in Configured
    /\ \A d \in Dispatcher : Scope[d] = {Platform}
    /\ MaxFaults \in Nat

VARIABLES
    sched,     \* sched[s]: the status of the schedule, "none" before it is planned
    todo,      \* todo[d]: the due schedules d has read and not begun
    at,        \* at[d]: the schedule d is publishing
    outcome,   \* outcome[d]: what d's dispatch said of its own entry
    faults     \* what has gone wrong so far: "stop" of the process, "loss" of an answer (history)

posts == <<sched, todo, at, outcome>>

allVars == <<row, pc, batch, cur, taken, tries, sched, todo, at, outcome, faults>>

SchedStatus == {"none", "scheduled", "queued", "published", "failed", "cancelled"}

NoOutcome == [id |-> 0, sent |-> FALSE]

PostsTypeOK ==
    /\ sched \in [Sched -> SchedStatus]
    /\ todo \in [Dispatcher -> SUBSET Sched]
    /\ at \in [Dispatcher -> Sched \cup {NoSched}]
    /\ outcome \in [Dispatcher -> [id : Id \cup {0}, sent : BOOLEAN]]
    /\ \A d \in Dispatcher : at[d] = NoSched => outcome[d] = NoOutcome
    /\ faults \subseteq {"stop", "loss"}

PostsInit ==
    /\ Init
    /\ sched = [s \in Sched |-> "none"]
    /\ todo = [d \in Dispatcher |-> {}]
    /\ at = [d \in Dispatcher |-> NoSched]
    /\ outcome = [d \in Dispatcher |-> NoOutcome]
    /\ faults = {}

-----------------------------------------------------------------------------
(* The calendar.                                                           *)

Plan(s) ==
    /\ sched[s] = "none"
    /\ sched' = [sched EXCEPT ![s] = "scheduled"]
    /\ UNCHANGED <<vars, todo, at, outcome, faults>>

\* cancelSchedule
CallOff(s) ==
    /\ sched[s] \in {"scheduled", "failed"}
    /\ sched' = [sched EXCEPT ![s] = "cancelled"]
    /\ UNCHANGED <<vars, todo, at, outcome, faults>>

-----------------------------------------------------------------------------
(* publishSchedule.                                                        *)

\* (slip) a post that went out does not count as a duplicate
EnqueuedBesideSent(s) ==
    IF \E j \in Id : row[j].key = s /\ row[j].status \in {"queued", "sending"} THEN {row}
    ELSE {Inserted(row, i, s, Platform, 0) : i \in {j \in Id : IsNext(row, j)}}

\* enqueue under the schedule's own key: nothing when a live row has it.
Enqueued(s) ==
    IF \E j \in Id : row[j].key = s /\ row[j].status \in Live THEN {row}
    ELSE {Inserted(row, i, s, Platform, 0) : i \in {j \in Id : IsNext(row, j)}}

\* publishBlocker found the account missing or unable to post.
BeginBlocked(d, s, rest) ==
    /\ sched' = [sched EXCEPT ![s] = "failed"]
    /\ todo' = [todo EXCEPT ![d] = rest]
    /\ UNCHANGED <<vars, at, outcome, faults>>

\* Everything up to the first await: queued, enqueued, and the batch claimed.
BeginSend(d, s, rest) ==
    /\ sched' = [sched EXCEPT ![s] = "queued"]
    /\ \E rows \in Enqueued(s) : \E C \in SUBSET Id :
          /\ IsClaim(rows, Scope[d], C)
          /\ row' = Claimed(rows, C)
          /\ batch' = [batch EXCEPT ![d] = Entries(rows, C)]
          /\ pc' = [pc EXCEPT ![d] = AfterLoop(C)]
    /\ todo' = [todo EXCEPT ![d] = rest]
    /\ at' = [at EXCEPT ![d] = s]
    /\ UNCHANGED <<cur, taken, tries, outcome, faults>>

Begin(d, s, rest) ==
    /\ at[d] = NoSched /\ pc[d] = "idle"
    /\ BeginBlocked(d, s, rest) \/ BeginSend(d, s, rest)

\* runDueSchedules reads what is due and begins the first of it.
ReadDue(d) ==
    /\ todo[d] = {}
    /\ \E last \in {s \in Sched : sched[s] = "scheduled"} :
          LET due == {s \in 1..last : sched[s] = "scheduled"}
          IN  \E s \in due : (\A t \in due : s <= t) /\ Begin(d, s, due \ {s})

\* ... and goes on with the rows as it read them.
NextDue(d) == \E s \in todo[d] : (\A t \in todo[d] : s <= t) /\ Begin(d, s, todo[d] \ {s})

\* "Post now" in the admin, for anything that is not published.
PostNow(d, s) ==
    /\ todo[d] = {}
    /\ sched[s] \notin {"none", "published"}
    /\ Begin(d, s, {})

\* onEvent: the outcome is kept when the entry is the publisher's own.
Outcome(d, sent) ==
    outcome' = IF row[cur[d].id].key = at[d]
               THEN [outcome EXCEPT ![d] = [id |-> cur[d].id, sent |-> sent]]
               ELSE outcome

\* A write the unique index refuses throws out of publishSchedule and of the tick.
Thrown(d, status) == Refused(row, cur[d].id, status)

Abort(d) ==
    /\ at' = [at EXCEPT ![d] = NoSched]
    /\ todo' = [todo EXCEPT ![d] = {}]
    /\ outcome' = [outcome EXCEPT ![d] = NoOutcome]
    /\ UNCHANGED sched

\* A failure after the platform took the message: its answer was lost.
Noted(d) ==
    faults' = IF pc[d] = "taken" /\ (Reschedule(d) \/ GiveUp(d)) THEN faults \cup {"loss"}
              ELSE faults

\* The dispatch of a publisher.
Deliver(d) ==
    /\ at[d] # NoSched
    /\ \/ /\ StartSend(d) \/ ReportGone(d) \/ Take(d)
          /\ UNCHANGED <<posts, faults>>
       \/ /\ SettleSent(d) /\ ~Thrown(d, "sent") /\ Outcome(d, TRUE)
          /\ UNCHANGED <<sched, todo, at, faults>>
       \/ /\ Reschedule(d) /\ ~Thrown(d, "queued") /\ Outcome(d, FALSE) /\ Noted(d)
          /\ UNCHANGED <<sched, todo, at>>
       \/ /\ GiveUp(d) \/ Refuse(d) \/ SettleGone(d)
          /\ Outcome(d, FALSE) /\ Noted(d)
          /\ UNCHANGED <<sched, todo, at>>
       \/ SettleSent(d) /\ Thrown(d, "sent") /\ Abort(d) /\ UNCHANGED faults
       \/ Reschedule(d) /\ Thrown(d, "queued") /\ Abort(d) /\ Noted(d)

\* (slip) a duplicate is taken for a post that went out
ReturnSentOnDuplicate(d) ==
    /\ at[d] # NoSched /\ pc[d] = "idle"
    /\ outcome[d].sent \/ outcome[d] = NoOutcome
    /\ sched' = [sched EXCEPT ![at[d]] = "published"]
    /\ at' = [at EXCEPT ![d] = NoSched]
    /\ outcome' = [outcome EXCEPT ![d] = NoOutcome]
    /\ UNCHANGED <<vars, todo, faults>>

\* The entry went out: the schedule is published.
ReturnSent(d) ==
    /\ at[d] # NoSched /\ pc[d] = "idle"
    /\ outcome[d].sent
    /\ sched' = [sched EXCEPT ![at[d]] = "published"]
    /\ at' = [at EXCEPT ![d] = NoSched]
    /\ outcome' = [outcome EXCEPT ![d] = NoOutcome]
    /\ UNCHANGED <<vars, todo, faults>>

\* (slip) a rescheduled entry is left to the outbox
ReturnFailedLeavesRow(d) ==
    /\ at[d] # NoSched /\ pc[d] = "idle"
    /\ ~outcome[d].sent
    /\ sched' = [sched EXCEPT ![at[d]] = "failed"]
    /\ at' = [at EXCEPT ![d] = NoSched]
    /\ outcome' = [outcome EXCEPT ![d] = NoOutcome]
    /\ UNCHANGED <<vars, todo, faults>>

\* (slip) nothing is written when the dispatch never met the entry
ReturnFailedIfMet(d) ==
    /\ at[d] # NoSched /\ pc[d] = "idle"
    /\ ~outcome[d].sent
    /\ row' = IF outcome[d] = NoOutcome THEN row ELSE Marked(row, outcome[d].id, "dead", 0)
    /\ sched' = IF outcome[d] = NoOutcome THEN sched ELSE [sched EXCEPT ![at[d]] = "failed"]
    /\ at' = [at EXCEPT ![d] = NoSched]
    /\ outcome' = [outcome EXCEPT ![d] = NoOutcome]
    /\ UNCHANGED <<pc, batch, cur, taken, tries, todo, faults>>

\* It did not, or the dispatch never met it: no retry, the schedule failed.
ReturnFailed(d) ==
    /\ at[d] # NoSched /\ pc[d] = "idle"
    /\ ~outcome[d].sent
    /\ row' = IF outcome[d] = NoOutcome THEN row ELSE Marked(row, outcome[d].id, "dead", 0)
    /\ sched' = [sched EXCEPT ![at[d]] = "failed"]
    /\ at' = [at EXCEPT ![d] = NoSched]
    /\ outcome' = [outcome EXCEPT ![d] = NoOutcome]
    /\ UNCHANGED <<pc, batch, cur, taken, tries, todo, faults>>

-----------------------------------------------------------------------------

\* The mail timer's call of dispatchOutbox.
Timer(d) ==
    /\ at[d] = NoSched /\ todo[d] = {}
    /\ Claim(d) \/ Take(d) \/ Proceed(d)
    /\ Noted(d)
    /\ UNCHANGED posts

\* The process stops; the calendar and the outbox stay.
Restart ==
    /\ Cardinality(faults) < MaxFaults
    /\ Crash
    /\ todo' = [d \in Dispatcher |-> {}]
    /\ at' = [d \in Dispatcher |-> NoSched]
    /\ outcome' = [d \in Dispatcher |-> NoOutcome]
    /\ faults' = faults \cup {"stop"}
    /\ UNCHANGED sched

\* Time passes while something is awaited, not between the end of a dispatch and
\* the lines that follow its await.
Elapse ==
    /\ \A d \in Dispatcher : at[d] # NoSched => pc[d] # "idle"
    /\ Tick
    /\ UNCHANGED <<posts, faults>>

Publish(d) ==
    ReadDue(d) \/ NextDue(d) \/ Deliver(d) \/ ReturnSent(d) \/ ReturnFailed(d)

PostsNext ==
    \/ \E s \in Sched : Plan(s) \/ CallOff(s)
    \/ \E d \in Dispatcher : Publish(d) \/ \E s \in Sched : PostNow(d, s)
    \/ \E d \in Dispatcher : Timer(d)
    \/ Restart
    \/ Elapse

PostsSpec == PostsInit /\ [][PostsNext]_allVars

-----------------------------------------------------------------------------
(* Properties.                                                             *)

Settled(s) == \A d \in Dispatcher : at[d] # s

IsOut(s) == \E i \in Id : row[i].key = s /\ taken[i] > 0

\* A schedule the calendar calls published was taken by its platform, whatever
\* overlaps, crashes, or is lost.
PublishedIsOut == \A s \in Sched : sched[s] = "published" => IsOut(s)

\* Unless the process stopped, a post that failed or was called off is not retried by the
\* outbox behind the owner's back: none of its rows is waiting or being sent.
NotRetried ==
    "stop" \notin faults => \A s \in Sched :
        sched[s] \in {"failed", "cancelled"} /\ Settled(s) =>
            \A i \in Id : row[i].key = s => row[i].status \notin {"queued", "sending"}

\* A schedule reaches its platform once, whichever ticks, admins and the mail timer overlap
\* and however often the owner posts it again: a second copy takes a process that stopped
\* or an answer that was lost.
OutOnce == faults = {} => OncePerKey

\* Unless the process stopped, a queued schedule is in the hands of a call that will write
\* its outcome: no overlap of ticks, admins and the mail timer leaves one behind that
\* nobody comes back to (the tick reads "scheduled" ones only).
QueuedIsHeld ==
    "stop" \notin faults => \A s \in Sched : sched[s] = "queued" => ~Settled(s)
=============================================================================
