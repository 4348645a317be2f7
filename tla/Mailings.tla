------------------------------ MODULE Mailings ------------------------------
(***************************************************************************)
(* What the channels send on a clock: the minute timer of the API          *)
(* (newsletters/scheduler.ts), the jobs it finds due (social/jobs.ts), the *)
(* daily mails (newsletters/service.ts) and the day's posts, with an owner *)
(* who runs a job or a mail by hand and a shell that does the same from a  *)
(* process of its own.                                                     *)
(*                                                                         *)
(* Time is a minute of the day that goes round (`phase`); day 0 is today   *)
(* and day 1 yesterday, whose rows are kept while a run begun before       *)
(* midnight still needs them.  A step of a process ends where it awaits:   *)
(* the outbox, the warehouse.  Between two jobs of one tick others may run *)
(* too, which the code allows for a microtask at most.                     *)
(***************************************************************************)
EXTENDS Integers, FiniteSets, Sequences

CONSTANTS
    Kind,         \* newsletterKinds at work: subset of NewsletterKind
    Post,         \* jobs that post to a platform or the public channel
    JobOrder,     \* the catalogue channelJobs, as a sequence of Kind \cup Post
    At,           \* At[j]: the minute of the day the recurrence of j names
    Account,      \* active accounts with a verified address
    Linked,       \* those with a Telegram chat that wants the mails
    Rule,         \* Rule[a]: the alert rule of the one product a watches
    Price,        \* cheapest prices a product may have, in minor units
    DayLength,    \* minutes in a day
    RetryAfter,   \* retryAfterMs
    CatchUp,      \* catchUpMs
    RepeatAfter,  \* belowRepeatAfter, in minutes
    Shell,        \* processes of `newsletter run`
    MaxRuns,      \* newsletter_run rows of a kind and day (bound)
    MaxManual,    \* what the owner and the readers do by hand (bound)
    MaxStops      \* stops of a process, and runs whose loop throws between two commits (bound)

NewsletterKind == {"recipes_daily", "deals_daily", "price_alerts"}

Job == Kind \cup Post

\* Callers of the runners: the tick and the admin's requests share the API's process.
Api == {"tick", "admin"}

Caller == Api \cup Shell

\* Ages of a job's last run are told apart up to here.
Horizon == IF RetryAfter > CatchUp + 1 THEN RetryAfter ELSE CatchUp + 1

ASSUME MailingsAssumption ==
    /\ Kind \subseteq NewsletterKind /\ Post \cap NewsletterKind = {} /\ "channel" \notin Account
    /\ JobOrder \in Seq(Job) /\ {JobOrder[i] : i \in DOMAIN JobOrder} = Job
    /\ DayLength \in Nat \ {0} /\ \A j \in Job : At[j] \in 0..(DayLength - 1)
    /\ Linked \subseteq Account
    /\ \A a \in Account : Rule[a] \in [mode : {"off", "below", "any_drop"}, mark : Nat]
    /\ Price \subseteq Nat \ {0} /\ Price # {}
    /\ {RetryAfter, CatchUp, RepeatAfter} \subseteq Nat \ {0} /\ CatchUp < DayLength
    /\ Shell \cap Api = {}
    /\ {MaxRuns, MaxManual, MaxStops} \subseteq Nat

VARIABLES
    phase,    \* the minute of the day
    up,       \* the API's process is running
    fired,    \* its timer has fired this minute
    job,      \* channel_job
    tick,     \* the tick under way and the places in JobOrder of the jobs it still has to run
    call,     \* call[c]: the job or mail c awaits
    running,  \* the `running` set of the API's newsletter service
    runs,     \* runs[k][d]: newsletter_run of a kind and day, oldest first
    queue,    \* the mails, messages and posts in notify_outbox
    wants,    \* accounts whose mail is switched on
    watch,    \* account_watch: the last alert of each account
    price,    \* the cheapest price today and the day before
    deals,    \* deals[d]: what deal_day holds of a day
    past,     \* what the properties remember of today and of each account (history)
    used      \* how much of each bound is used

vars == <<phase, up, fired, job, tick, call, running, runs, queue, wants, watch, price,
          deals, past, used>>

RunStatus == {"running", "sent", "skipped", "failed", "dry_run"}

Idle == [pc |-> "idle", job |-> "none", how |-> "none", day |-> 0, to |-> {}, run |-> 0, at |-> 0]

TypeOK ==
    /\ phase \in 0..(DayLength - 1) /\ up \in BOOLEAN /\ fired \in BOOLEAN
    /\ job \in [Job -> [enabled : BOOLEAN, status : {"never", "ran", "failed", "skipped"},
                        age : 0..Horizon]]
    /\ tick.pc \in {"idle", "dispatch", "jobs"} /\ tick.todo \subseteq DOMAIN JobOrder
    /\ \A c \in Caller :
          /\ call[c].pc \in {"idle", "waiting"} /\ call[c].day \in 0..1
          /\ call[c].to \subseteq Account /\ call[c].at \in 0..Horizon
          /\ call[c].how \in {"none", "scheduled", "now", "plain", "forced", "dry"}
          \* A mail run that is under way has its row, and in the API its place in the set.
          /\ call[c].pc = "waiting" /\ call[c].job \in Kind =>
                /\ runs[call[c].job][call[c].day][call[c].run].status = "running"
                /\ c \in Api => call[c].job \in running
    /\ running \subseteq Kind
    /\ \A k \in Kind, d \in 0..1 : \A i \in DOMAIN runs[k][d] : runs[k][d][i].status \in RunStatus
    /\ wants \subseteq Account
    /\ watch \in [Account -> [told : 0..RepeatAfter, minor : Price \cup {0}]]
    /\ price \in [0..1 -> Price]
    /\ deals \in [0..1 -> {"none", "empty", "full"}]

Init ==
    /\ phase = 0 /\ up = TRUE /\ fired = FALSE
    /\ job = [j \in Job |-> [enabled |-> TRUE, status |-> "never", age |-> Horizon]]
    /\ tick = [pc |-> "idle", todo |-> {}]
    /\ call = [c \in Caller |-> Idle]
    /\ running = {}
    /\ runs = [k \in Kind |-> [d \in 0..1 |-> <<>>]]
    /\ queue = {}
    /\ wants = Account
    /\ watch = [a \in Account |-> [told |-> RepeatAfter, minor |-> 0]]
    /\ price \in [0..1 -> Price]
    /\ deals = [d \in 0..1 |-> "none"]
    /\ past = [owed |-> {}, torn |-> {}, calm |-> TRUE, uncopied |-> {}, unmarked |-> {},
               heard |-> [a \in Account |-> RepeatAfter]]
    /\ used = [manual |-> 0, stops |-> 0]

-----------------------------------------------------------------------------
(* When a job runs (social/jobs.ts).                                       *)

\* Minutes since the recurrence of j last fired.
SinceFiring(j) == (phase - At[j]) % DayLength

\* (slip) a minute that passed unheard is not caught up.
NeverLate(j) ==
    /\ job[j].status # "never" => job[j].age > 0
    /\ \/ phase = At[j]
       \/ job[j].status = "failed" /\ job[j].age >= RetryAfter

\* The minute fires, or was missed and is recent enough, or the job failed a while ago;
\* never twice within a minute, and no catching up of a job that never ran.
jobIsDue(j) ==
    /\ job[j].status # "never" => job[j].age > 0
    /\ \/ phase = At[j]
       \/ /\ job[j].status # "never"
          /\ job[j].age > SinceFiring(j) /\ SinceFiring(j) <= CatchUp
       \/ job[j].status = "failed" /\ job[j].age >= RetryAfter

dueJobs == {i \in DOMAIN JobOrder : job[JobOrder[i]].enabled /\ jobIsDue(JobOrder[i])}

markJobRun(j, status, age) == [job EXCEPT ![j].status = status, ![j].age = age]

\* What the caller makes of the outcome of its call: the tick and Run now write it down,
\* the latter with the time it was pressed.
Recorded(c, status) ==
    CASE call[c].how = "scheduled" -> markJobRun(call[c].job, status, 0)
      [] call[c].how = "now" -> markJobRun(call[c].job, status, call[c].at)
      [] OTHER -> job

-----------------------------------------------------------------------------
(* What a mail or a post says, and its place in the outbox.                *)

alertDropPct == 5

fellEnough(now, was) == was > 0 /\ now * 100 <= was * (100 - alertDropPct)

\* evaluateWatch: at or under the mark unless that was said lately, or a fall against the
\* day before or against what the last alert said.
evaluateWatch(a) ==
    CASE Rule[a].mode = "below" ->
            /\ Rule[a].mark # 0 /\ price[0] <= Rule[a].mark
            /\ ~(watch[a].told < RepeatAfter /\ watch[a].minor \in 1..Rule[a].mark)
      [] Rule[a].mode = "any_drop" ->
            fellEnough(price[0], price[1]) \/ fellEnough(price[0], watch[a].minor)
      [] OTHER -> FALSE

\* The recipients a mail can be composed for; whether a dish is left for a person depends on
\* the catalogue.
HasSomething(k, d, to) ==
    CASE k = "price_alerts" -> {{a \in to : evaluateWatch(a)}}
      [] k = "deals_daily" -> {IF deals[d] = "full" THEN to ELSE {}}
      [] OTHER -> SUBSET to

dedupeKeyFor(k, d, a) == <<k, d, a, "mail">>

\* (slip) the chat's copy goes under the key of the mail.
SameKey(key) == key

telegramKey(key) == [key EXCEPT ![4] = "telegram"]

\* (slip) a row that was sent no longer holds its key.
HeldUntilSent(key) == \E r \in queue : r.key = key /\ r.status = "queued"

\* Enqueueing under a key is refused while a row that is not dead holds it.
Held(key) == \E r \in queue : r.key = key /\ r.status # "dead"

Queued(k, d, a, via, key) ==
    [key |-> key, kind |-> k, day |-> d, to |-> a, via |-> via, status |-> "queued"]

\* (slip) the alert is remembered without its price.
Forgetful(now) == [told |-> 0, minor |-> 0]

markAlerted(now) == [told |-> 0, minor |-> now]

NewMails(k, d, who) == {a \in who : ~Held(dedupeKeyFor(k, d, a))}

\* The loop over the recipients: who is mailed gets the mail that is not there yet, then its
\* copy for the chat, then the mark of the alert it reports.  Each is a commit of its own, and
\* what throws between two of them ends that recipient's turn and no other's: the loop got
\* as far as the copy with `copied`, and all the way with `through`.
MailsQueued(k, d, mailed, copied, through) ==
    LET new == NewMails(k, d, mailed)
        mails == {Queued(k, d, a, "email", dedupeKeyFor(k, d, a)) : a \in new}
        chats == {Queued(k, d, a, "telegram", telegramKey(dedupeKeyFor(k, d, a))) :
                    a \in copied \cap Linked}
        copies == {r \in chats : r.key \notin {m.key : m \in mails} /\ ~Held(r.key)}
    IN  /\ copied \subseteq new /\ through \subseteq copied
        /\ queue' = queue \cup mails \cup copies
        /\ watch' = [a \in Account |->
              IF k = "price_alerts" /\ a \in through THEN markAlerted(price[0]) ELSE watch[a]]

\* When an account last heard of its price, and what the loop left half done: mails without
\* their copy, alerts without their mark (history).
Remembered(k, d, mailed, copied, through) ==
    LET new == NewMails(k, d, mailed)
        alerted == IF k = "price_alerts" THEN new ELSE {}
    IN  [past EXCEPT
            !.heard = [a \in Account |-> IF a \in alerted THEN 0 ELSE past.heard[a]],
            !.unmarked = (@ \ alerted) \cup (alerted \ through),
            !.uncopied = (@ \ {<<k, d, a>> : a \in copied})
                            \cup {<<k, d, a>> : a \in (new \cap Linked) \ copied}]

-----------------------------------------------------------------------------
(* runNewsletter and the posts of runChannelJob.                           *)

\* The newest row of k today that is not a dry run.
latestRun(k) ==
    LET real == {i \in DOMAIN runs[k][0] : runs[k][0][i].status # "dry_run"}
        latest == CHOOSE i \in real : \A n \in real : n <= i
    IN  IF real = {} THEN "none" ELSE runs[k][0][latest].status

Done(k) == latestRun(k) \in {"sent", "skipped"}

Refused(c, j) == j \in running /\ c \in Api

Repeated(j, how) == j \in Kind /\ how \notin {"forced", "dry"} /\ Done(j)

\* The call begins and awaits the warehouse: a mail run has its row and its recipients.
Begins(c, j, how) ==
    /\ ~Refused(c, j) /\ ~Repeated(j, how)
    /\ call' = [call EXCEPT ![c] = [pc |-> "waiting", job |-> j, how |-> how, day |-> 0,
                  to |-> IF j \in Kind THEN wants ELSE {},
                  run |-> IF j \in Kind THEN Len(runs[j][0]) + 1 ELSE 0, at |-> 0]]
    /\ IF j \in Kind
       THEN /\ Len(runs[j][0]) < MaxRuns
            /\ runs' = [runs EXCEPT ![j][0] = Append(@, [status |-> "running", told |-> {}])]
       ELSE UNCHANGED runs
    /\ running' = IF j \in Kind /\ c \in Api THEN running \cup {j} ELSE running

\* (slip) the place in the set is given back only by a run that finished.
Kept(c) == running

Released(c) == IF c \in Api THEN running \ {call[c].job} ELSE running

\* finishRun
FinishedRun(c, status, told) ==
    [runs EXCEPT ![call[c].job][call[c].day][call[c].run] = [status |-> status, told |-> told]]

\* The warehouse does not answer, or the run throws.
RunFails(c) ==
    /\ call[c].pc = "waiting" /\ call[c].job \in Kind
    /\ runs' = FinishedRun(c, "failed", {})
    /\ running' = Released(c)
    /\ job' = Recorded(c, "failed")
    /\ call' = [call EXCEPT ![c] = Idle]
    /\ past' = [past EXCEPT !.calm = FALSE]
    /\ UNCHANGED <<phase, up, fired, tick, queue, wants, watch, price, deals, used>>

\* The loop over the recipients and finishRun.  `told` are those the run counts no failure for:
\* sent, or skipped because the mail was there.
LoopEnds(c, k, d, status, mailed) ==
    LET new == NewMails(k, d, mailed)
    IN  \E copied \in SUBSET new : \E through \in SUBSET copied :
            /\ MailsQueued(k, d, mailed, copied, through)
            /\ runs' = FinishedRun(c, status, (mailed \ new) \cup through)
            /\ past' = Remembered(k, d, mailed, copied, through)
            /\ used' = IF through = new THEN used ELSE [used EXCEPT !.stops = @ + 1]
            /\ used'.stops <= MaxStops

\* The data is there: everyone who is told something has a mail queued, but for those whose
\* mail throws.  A run that did not throw as a whole is recorded as sent.
RunCompletes(c) ==
    LET k == call[c].job
        d == call[c].day
    IN  /\ call[c].pc = "waiting" /\ k \in Kind
        /\ k = "deals_daily" => deals[d] # "none"
        /\ \E said \in HasSomething(k, d, call[c].to), thrown \in SUBSET call[c].to :
              LET quiet == k = "deals_daily" /\ call[c].to # {} /\ said = {} /\ thrown = {}
                  status == IF call[c].how = "dry" THEN "dry_run"
                            ELSE IF quiet THEN "skipped" ELSE "sent"
              IN  /\ LoopEnds(c, k, d, status, IF call[c].how = "dry" THEN {} ELSE said \ thrown)
                  /\ job' = Recorded(c, IF status = "skipped" THEN "skipped" ELSE "ran")
        /\ running' = Released(c)
        /\ call' = [call EXCEPT ![c] = Idle]
        /\ UNCHANGED <<phase, up, fired, tick, wants, price, deals>>

\* The deals the call waits for are computed and saved.
DealsComputed(c) ==
    /\ call[c].pc = "waiting" /\ call[c].job \in {"deals_daily"} \cup Post
    /\ deals[call[c].day] = "none"
    /\ \E v \in {"empty", "full"} : deals' = [deals EXCEPT ![call[c].day] = v]
    /\ UNCHANGED <<phase, up, fired, job, tick, call, running, runs, queue, wants, watch,
                   price, past, used>>

\* postDeals and postDigest, when the deals are there or not.
PostEnds(c) ==
    LET j == call[c].job
        d == call[c].day
        key == dedupeKeyFor(j, d, "channel")
        post == {Queued(j, d, "channel", "post", key) : v \in {deals[d]} \cap {"full"}}
    IN  /\ call[c].pc = "waiting" /\ j \in Post
        /\ \/ /\ deals[d] # "none"
              /\ queue' = IF Held(key) THEN queue ELSE queue \cup post
              /\ job' = Recorded(c, IF queue' = queue THEN "skipped" ELSE "ran")
           \/ /\ deals[d] = "none" /\ job' = Recorded(c, "failed")
              /\ UNCHANGED queue
        /\ call' = [call EXCEPT ![c] = Idle]
        /\ UNCHANGED <<phase, up, fired, tick, running, runs, wants, watch, price, deals,
                       past, used>>

-----------------------------------------------------------------------------
(* The minute timer (newsletters/scheduler.ts).                            *)

\* The interval fires; a tick still going is left alone.
TimerFires ==
    /\ up /\ ~fired
    /\ fired' = TRUE
    /\ tick' = IF tick.pc = "idle" THEN [tick EXCEPT !.pc = "dispatch"] ELSE tick
    /\ UNCHANGED <<phase, up, job, call, running, runs, queue, wants, watch, price, deals,
                   past, used>>

\* Jobs not marked since their minute came today, which is this one or, for a job that ran
\* before, at most CatchUp ago (history).
Owed == {j \in Job : /\ job[j].enabled /\ phase >= At[j]
                     /\ job[j].status # "never" => job[j].age > phase - At[j]
                     /\ \/ phase = At[j]
                        \/ job[j].status # "never" /\ phase - At[j] <= CatchUp}

\* dispatchOutbox is over: the due jobs are listed once, or it threw and the tick ends.
TickLists ==
    /\ tick.pc = "dispatch"
    /\ tick' = [pc |-> "jobs", todo |-> dueJobs]
    /\ past' = [past EXCEPT !.owed = @ \cup Owed]
    /\ UNCHANGED <<phase, up, fired, job, call, running, runs, queue, wants, watch, price,
                   deals, used>>

TickThrows ==
    /\ tick.pc = "dispatch"
    /\ tick' = [pc |-> "idle", todo |-> {}]
    /\ UNCHANGED <<phase, up, fired, job, call, running, runs, queue, wants, watch, price,
                   deals, past, used>>

\* The next job of the list is marked as run and begun; it may be refused (a run of the
\* mail is under way), answered at once (the day is done, the account is paused or cannot
\* post), or awaited.
NextJob ==
    /\ tick.pc = "jobs" /\ call["tick"].pc = "idle"
    /\ \E i \in tick.todo :
          LET j == JobOrder[i]
          IN  /\ \A n \in tick.todo : i <= n
              /\ tick' = [tick EXCEPT !.todo = @ \ {i}]
              /\ \/ /\ Begins("tick", j, "scheduled")
                    /\ job' = markJobRun(j, "ran", 0)
                    /\ UNCHANGED past
                 \/ /\ Refused("tick", j)
                    /\ job' = markJobRun(j, "failed", 0)
                    /\ past' = [past EXCEPT !.calm = FALSE]
                    /\ UNCHANGED <<call, runs, running>>
                 \/ /\ ~Refused("tick", j)
                    /\ \/ /\ Repeated(j, "scheduled")
                          /\ job' = markJobRun(j, IF latestRun(j) = "sent" THEN "ran" ELSE "skipped", 0)
                       \/ j \in Post /\ job' \in {markJobRun(j, s, 0) : s \in {"skipped", "failed"}}
                    /\ UNCHANGED <<call, runs, running, past>>
    /\ UNCHANGED <<phase, up, fired, queue, wants, watch, price, deals, used>>

TickEnds ==
    /\ tick.pc = "jobs" /\ tick.todo = {} /\ call["tick"].pc = "idle"
    /\ tick' = [pc |-> "idle", todo |-> {}]
    /\ UNCHANGED <<phase, up, fired, job, call, running, runs, queue, wants, watch, price,
                   deals, past, used>>

-----------------------------------------------------------------------------
(* The owner, the readers and the shell.                                   *)

ByHand == used.manual < MaxManual /\ used' = [used EXCEPT !.manual = @ + 1]

\* POST settings/:channel/jobs/:job/run, POST newsletters/run and `newsletter run`, where
\* they have something to await.
RunByHand(c, j, how) ==
    /\ ByHand /\ call[c].pc = "idle" /\ c # "tick"
    /\ c \in Api => up
    /\ how = "now" => c = "admin"
    /\ how # "now" => j \in Kind
    /\ Begins(c, j, how)
    /\ UNCHANGED <<phase, up, fired, job, tick, queue, wants, watch, price, deals, past>>

\* PUT settings/:channel/jobs/:job
saveJob(j) ==
    /\ ByHand
    /\ job' = [job EXCEPT ![j].enabled = ~@]
    /\ past' = [past EXCEPT !.calm = FALSE]
    /\ UNCHANGED <<phase, up, fired, tick, call, running, runs, queue, wants, watch, price, deals>>

\* The switch on the account page, and the unsubscribe link of a mail.
SwitchMail(a) ==
    /\ ByHand
    /\ wants' = IF a \in wants THEN wants \ {a} ELSE wants \cup {a}
    /\ UNCHANGED <<phase, up, fired, job, tick, call, running, runs, queue, watch, price,
                   deals, past>>

-----------------------------------------------------------------------------
(* The outbox, the clock, and stops.                                       *)

\* What a dispatch makes of a row.
RowSettles ==
    /\ \E r \in queue, s \in {"sent", "dead"} :
          /\ r.status = "queued"
          /\ queue' = (queue \ {r}) \cup {[r EXCEPT !.status = s]}
    /\ UNCHANGED <<phase, up, fired, job, tick, call, running, runs, wants, watch, price,
                   deals, past, used>>

Older(age, cap) == IF age < cap THEN age + 1 ELSE age

Midnight == phase = DayLength - 1

\* Yesterday's rows are kept while a call of that day goes on.
KeepsYesterday == Midnight /\ \E c \in Caller : call[c].pc = "waiting"

\* A row of today when it is tomorrow.
Yesterdays(r) == [r EXCEPT !.day = 1, !.key = [@ EXCEPT ![2] = 1]]

TurnedOver(uncopied) == {<<m[1], 1, m[3]>> : m \in {n \in uncopied : n[2] = 0 /\ KeepsYesterday}}

\* A minute passes, in which the timer has had its turn and what does not await is done.  A
\* call is over before the second midnight after it began.
Minute ==
    /\ up => fired
    /\ tick.pc = "jobs" => call["tick"].pc = "waiting"
    /\ Midnight => \A c \in Caller : call[c].day = 0
    /\ phase' = (phase + 1) % DayLength
    /\ fired' = FALSE
    /\ job' = [j \in Job |-> [job[j] EXCEPT !.age = Older(@, Horizon)]]
    /\ watch' = [a \in Account |-> [watch[a] EXCEPT !.told = Older(@, RepeatAfter)]]
    /\ past' = [past EXCEPT !.heard = [a \in Account |-> Older(@[a], RepeatAfter)],
                            !.owed = IF Midnight THEN {} ELSE @,
                            !.torn = IF Midnight THEN {} ELSE @,
                            !.uncopied = IF Midnight THEN TurnedOver(@) ELSE @,
                            !.calm = IF Midnight THEN TRUE ELSE @]
    /\ call' = [c \in Caller |-> IF call[c].pc = "idle" THEN call[c] ELSE
                  [call[c] EXCEPT !.day = IF Midnight THEN 1 ELSE @,
                                  !.at = IF call[c].how = "now" THEN Older(@, Horizon) ELSE @]]
    /\ IF Midnight
       THEN /\ runs' = [k \in Kind |-> [d \in 0..1 |->
                          IF d = 1 /\ KeepsYesterday THEN runs[k][0] ELSE <<>>]]
            /\ queue' = {Yesterdays(r) : r \in {q \in queue : q.day = 0 /\ KeepsYesterday}}
            /\ deals' = [d \in 0..1 |-> IF d = 1 /\ KeepsYesterday THEN deals[0] ELSE "none"]
            /\ \E p \in Price : price' = [d \in 0..1 |-> IF d = 0 THEN p ELSE price[0]]
       ELSE UNCHANGED <<runs, queue, deals, price>>
    /\ UNCHANGED <<up, tick, running, wants, used>>

\* The calls of a stopped process end where they are: one may have been in its loop, have
\* mailed some of its recipients, and be between two of the commits of the last.
CutOff(stopped, owed, torn) ==
    /\ \/ \E c \in stopped, mailed \in SUBSET Account :
             LET k == call[c].job
                 d == call[c].day
             IN  /\ call[c].pc = "waiting" /\ k \in Kind /\ call[c].how # "dry"
                 /\ \E all \in HasSomething(k, d, call[c].to) : mailed \subseteq all
                 /\ \E copied \in SUBSET NewMails(k, d, mailed) : \E through \in SUBSET copied :
                       /\ MailsQueued(k, d, mailed, copied, through)
                       /\ past' = [Remembered(k, d, mailed, copied, through)
                                     EXCEPT !.owed = owed, !.torn = torn]
       \/ /\ past' = [past EXCEPT !.owed = owed, !.torn = torn]
          /\ UNCHANGED <<queue, watch>>
    /\ call' = [c \in Caller |-> IF c \in stopped THEN Idle ELSE call[c]]

Todo == {JobOrder[i] : i \in tick.todo}

\* The API is stopped, by a deploy or otherwise, and comes back.
Stop ==
    /\ up /\ used.stops < MaxStops
    /\ up' = FALSE /\ fired' = FALSE /\ running' = {}
    /\ tick' = [pc |-> "idle", todo |-> {}]
    /\ used' = [used EXCEPT !.stops = @ + 1]
    /\ CutOff(Api, past.owed \ Todo, past.torn \cup ({call[c].job : c \in Api} \cap Job))
    /\ UNCHANGED <<phase, job, runs, wants, price, deals>>

Restart ==
    /\ ~up /\ up' = TRUE
    /\ UNCHANGED <<phase, fired, job, tick, call, running, runs, queue, wants, watch, price,
                   deals, past, used>>

StopShell(c) ==
    /\ call[c].pc = "waiting" /\ used.stops < MaxStops
    /\ used' = [used EXCEPT !.stops = @ + 1]
    /\ CutOff({c}, past.owed, past.torn)
    /\ UNCHANGED <<phase, up, fired, job, tick, running, runs, wants, price, deals>>

Next ==
    \/ TimerFires \/ TickLists \/ TickThrows \/ NextJob \/ TickEnds
    \/ \E c \in Caller : RunFails(c) \/ RunCompletes(c) \/ DealsComputed(c) \/ PostEnds(c)
    \/ \E c \in Caller, j \in Job, how \in {"now", "plain", "forced", "dry"} : RunByHand(c, j, how)
    \/ \E j \in Job : saveJob(j)
    \/ \E a \in Account : SwitchMail(a)
    \/ RowSettles \/ Minute \/ Stop \/ Restart
    \/ \E c \in Shell : StopShell(c)

Spec == Init /\ [][Next]_vars

\* The timer fires every minute and a tick that began goes on; what is awaited returns, and
\* not for ever with a failure, nor, day after day, only when the minute of a job is over;
\* time passes and a stopped API comes back.
Fairness ==
    /\ \A m \in {At[j] : j \in Job} : SF_vars(TickLists /\ phase = m)
    /\ WF_vars(TimerFires) /\ WF_vars(NextJob) /\ WF_vars(TickEnds)
    /\ \A c \in Caller :
          /\ SF_vars(RunCompletes(c)) /\ SF_vars(DealsComputed(c)) /\ WF_vars(PostEnds(c))
    /\ WF_vars(Minute) /\ WF_vars(Restart)

FairSpec == Spec /\ Fairness

-----------------------------------------------------------------------------
(* Properties.                                                             *)

\* Every job is idempotent within its day (docs/distribution.md): whoever runs it, the tick,
\* Run now, a forced run, a shell beside the API, and wherever a run was cut off before, an
\* account has at most one mail of a kind for a day, and a platform one post, that did not
\* die in the outbox.
OnePerDay ==
    \A r, q \in queue :
        /\ r.status # "dead" /\ q.status # "dead"
        /\ <<r.kind, r.day, r.to, r.via>> = <<q.kind, q.day, q.to, q.via>>
        => r = q

\* Whom a run that is recorded as sent counts no failure for has a mail in the outbox, and
\* for a linked chat its copy, whatever runs of the day were cut off, threw or finished
\* before it, unless the copy is the one thing an earlier turn of the loop did not get to:
\* the next run finds the mail there, skips its recipient, and the copy is never made up.
SentMeansQueued ==
    \A k \in Kind, d \in 0..1 : \A i \in DOMAIN runs[k][d] : \A a \in runs[k][d][i].told :
        \A via \in {"email"} \cup (IF a \in Linked THEN {"telegram"} ELSE {}) :
            \/ \E r \in queue : <<r.kind, r.day, r.to, r.via>> = <<k, d, a, via>>
            \/ via = "telegram" /\ <<k, d, a>> \in past.uncopied

\* An alert on a price under the person's mark is said again after belowRepeatDays while the
\* price stays there, and sooner only when the one before was mailed by a turn of the loop
\* that ended, by a stop or an error, before it marked the alert.
AlertWaits ==
    [][phase' = phase => \A r \in queue' \ queue :
          /\ <<r.kind, r.via, r.status>> = <<"price_alerts", "email", "queued">>
          /\ Rule[r.to].mode = "below"
          => past.heard[r.to] = RepeatAfter \/ r.to \in past.unmarked]_vars

\* The day's mail is owed when the API listed the due jobs in its minute, or within CatchUp
\* of it, although it was down, restarting or busy before.  By the end of the day it was run,
\* when every run got its answer and nothing stopped the process in the middle of one.
Underway(k) == k \in Todo \/ \E c \in Caller : call[c].pc = "waiting" /\ call[c].job = k

Served(k, d) == \E i \in DOMAIN runs[k][d] : runs[k][d][i].status \in {"sent", "skipped"}

ServedUnless(excused) ==
    phase = DayLength - 1 /\ past.calm =>
        \A k \in (past.owed \cap Kind) \ excused : Underway(k) \/ Served(k, 0)

DayIsServed == ServedUnless(past.torn)

\* The mails keep going out: no failure, stop, refusal or slow dispatch leaves a kind without
\* a served day for ever, as long as its job stays on; a day may be served after its midnight,
\* and a day whose minute and time to catch up are missed is not served at all.
\* A job that never ran is not caught up, so its first run needs a tick in its very minute.
MailsKeepGoing ==
    \A k \in Kind : <>[](job[k].enabled /\ job[k].status # "never") =>
                    []<>(\E d \in 0..1 : Served(k, d))
=============================================================================
