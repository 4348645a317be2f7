------------------------------- MODULE Outbox -------------------------------
(***************************************************************************)
(* The notification outbox: notify/src/outbox.ts over the SQLite store of  *)
(* notify/src/store/sqlite.ts.  Composers enqueue messages; dispatchers    *)
(* (the timer of the API, an admin's "send it now") claim what is due,     *)
(* hand each entry to its channel, and write down what came of it.         *)
(*                                                                         *)
(* Time is kept relative to now.  A row's `wait` is its next_attempt_at    *)
(* minus now, its `age` is now minus its updated_at; Tick lets one unit    *)
(* pass.  Both saturate (Horizon, AgeCap), so the clock itself never ends. *)
(*                                                                         *)
(* A step of a dispatcher is what runs between two awaits of               *)
(* dispatchOutbox for one entry: nothing else of the process runs inside   *)
(* it, everything may run between two of them.                             *)
(***************************************************************************)
EXTENDS Integers, FiniteSets, Sequences

CONSTANTS
    MaxRows,      \* how many rows are ever inserted (bound)
    Key,          \* pairs of a target and a dedupe key
    NoKey,        \* a message enqueued without a dedupe key
    Channel,      \* channel kinds a row may name
    Configured,   \* the kinds the registry holds a channel for
    Dispatcher,   \* concurrent calls of dispatchOutbox
    Scope,        \* Scope[d]: the kinds d claims (the option `only`, or all of them)
    Limit,        \* entries claimed per call
    MaxAttempts,  \* options.maxAttempts
    Backoff,      \* wait before attempt n+1, the last value repeats
    RetryHints,   \* retry-after values a provider may answer with
    Delays,       \* notBefore minus now, as composers ask for it
    Stale,        \* options.staleSendingMs
    Retention,    \* age past which purge deletes a settled row
    Horizon,      \* how far past due two rows can still be told apart (bound)
    AgeCap,       \* age at which a row stops ageing (bound)
    Timely,       \* TRUE: no call of dispatchOutbox outlives Stale
    Lossy,        \* TRUE: a channel may take a message and its answer be lost
    MayCrash      \* TRUE: the process may stop at any moment

Id == 1..MaxRows

Status == {"free", "queued", "sending", "sent", "dead", "purged"}

\* The statuses the partial unique index notify_outbox_dedupe_idx covers.
Live == {"queued", "sending", "sent"}

ASSUME OutboxAssumption ==
    /\ MaxRows \in Nat
    /\ NoKey \notin Key
    /\ Configured \subseteq Channel
    /\ Scope \in [Dispatcher -> SUBSET Channel]
    /\ Limit \in Nat \ {0}
    /\ MaxAttempts \in Nat \ {0}
    /\ Backoff \in Seq(Nat) /\ Backoff # <<>>
    /\ RetryHints \subseteq Nat
    /\ Delays \subseteq Nat
    /\ Stale \in Nat \ {0}
    /\ Retention \in Nat
    /\ Horizon \in Nat
    /\ AgeCap \in Nat /\ AgeCap >= Stale /\ AgeCap > Retention
    /\ {Timely, Lossy, MayCrash} \subseteq BOOLEAN

VARIABLES
    row,      \* row[i]: the i-th row of notify_outbox, in the order of creation
    pc,       \* pc[d]: where the call d of dispatchOutbox stands
    batch,    \* batch[d]: the claimed entries d has not started yet
    cur,      \* cur[d]: the entry d is sending
    taken,    \* taken[i]: copies of i a channel took, counted up to two
    tries     \* tries[i]: sends of i that were started, counted up to MaxAttempts + 1

vars == <<row, pc, batch, cur, taken, tries>>

\* What claimDue returns for a row: the row as it read it.
Entry == [id : Id, attempts : Nat, wait : Int]

NoEntry == [id |-> 0, attempts |-> 0, wait |-> 0]

Row == [status : Status, key : Key \cup {NoKey}, chan : Channel \cup {NoKey},
        attempts : Nat, wait : Int, age : Nat]

Free == [status |-> "free", key |-> NoKey, chan |-> NoKey,
         attempts |-> 0, wait |-> 0, age |-> 0]

PC == {"idle", "loop", "sending", "taken", "gone"}

Least(a, b) == IF a < b THEN a ELSE b

TypeOK ==
    /\ row \in [Id -> Row]
    /\ pc \in [Dispatcher -> PC]
    /\ batch \in [Dispatcher -> SUBSET Entry]
    /\ cur \in [Dispatcher -> Entry \cup {NoEntry}]
    /\ \A d \in Dispatcher : cur[d] = NoEntry <=> pc[d] \in {"idle", "loop"}
    /\ \A d \in Dispatcher : pc[d] = "idle" => batch[d] = {}
    /\ taken \in [Id -> 0..2]
    /\ tries \in [Id -> 0..(MaxAttempts + 1)]

-----------------------------------------------------------------------------
(* Reading and writing the table.                                          *)

\* A live row other than i holds the key of i.
KeyHeld(rows, i, k) ==
    /\ k # NoKey
    /\ \E j \in Id : j # i /\ rows[j].key = k /\ rows[j].status \in Live

\* The first row not used yet: the next INSERT.
IsNext(rows, i) ==
    /\ rows[i].status = "free"
    /\ \A j \in Id : rows[j].status = "free" => i <= j

Inserted(rows, i, k, c, w) ==
    [rows EXCEPT ![i] = [status |-> "queued", key |-> k, chan |-> c,
                         attempts |-> 0, wait |-> w, age |-> 0]]

\* (slip) a row being sent is claimed again however fresh its claim is
IsDueAnyAge(r, kinds) ==
    r.chan \in kinds /\ (r.status = "sending" \/ (r.status = "queued" /\ r.wait <= 0))

\* (slip) a row being sent is never claimed again
IsDueQueuedOnly(r, kinds) == r.chan \in kinds /\ r.status = "queued" /\ r.wait <= 0

\* The SELECT of claimDue.
IsDue(r, kinds) ==
    /\ r.chan \in kinds
    /\ \/ r.status = "queued" /\ r.wait <= 0
       \/ r.status = "sending" /\ r.age >= Stale

Due(rows, kinds) == {i \in Id : IsDue(rows[i], kinds)}

EntryOf(rows, i) == [id |-> i, attempts |-> rows[i].attempts, wait |-> rows[i].wait]

\* ORDER BY next_attempt_at, created_at
Before(e, f) == e.wait < f.wait \/ (e.wait = f.wait /\ e.id < f.id)

\* C is what claimDue picks: the earliest due rows, Limit of them at most.
IsClaim(rows, kinds, C) ==
    LET due == Due(rows, kinds) IN
    /\ C \subseteq due
    /\ C = due \/ Cardinality(C) = Limit
    /\ Cardinality(C) <= Limit
    /\ \A i \in C, j \in due \ C : Before(EntryOf(rows, i), EntryOf(rows, j))

\* (slip) the claim leaves updated_at alone
ClaimedUnstamped(rows, C) ==
    [i \in Id |-> IF i \in C THEN [rows[i] EXCEPT !.status = "sending"] ELSE rows[i]]

Claimed(rows, C) ==
    [i \in Id |-> IF i \in C THEN [rows[i] EXCEPT !.status = "sending", !.age = 0]
                             ELSE rows[i]]

Entries(rows, C) == {EntryOf(rows, i) : i \in C}

\* The unique index refuses an UPDATE that makes a row live beside a live twin.
Refused(rows, i, status) ==
    status \in Live /\ rows[i].status = "dead" /\ KeyHeld(rows, i, rows[i].key)

\* markSent, reschedule and markDead: UPDATE ... WHERE id = ?, whatever the
\* status is.  Only a queued row's next_attempt_at is ever read again: w is 0
\* for the other two.
Marked(rows, i, status, w) ==
    IF rows[i].status = "purged" THEN rows
    ELSE [rows EXCEPT ![i] = [status |-> status, key |-> rows[i].key, chan |-> rows[i].chan,
                              attempts |-> rows[i].attempts + 1, wait |-> w, age |-> 0]]

-----------------------------------------------------------------------------

Init ==
    /\ row = [i \in Id |-> Free]
    /\ pc = [d \in Dispatcher |-> "idle"]
    /\ batch = [d \in Dispatcher |-> {}]
    /\ cur = [d \in Dispatcher |-> NoEntry]
    /\ taken = [i \in Id |-> 0]
    /\ tries = [i \in Id |-> 0]

\* (slip) a sent row no longer counts as a duplicate
EnqueueForgetsSent(k, c, w) ==
    /\ \A j \in Id : ~(k # NoKey /\ row[j].key = k /\ row[j].status \in {"queued", "sending"})
    /\ \E i \in Id : IsNext(row, i) /\ row' = Inserted(row, i, k, c, w)
    /\ UNCHANGED <<pc, batch, cur, taken, tries>>

\* enqueue, for one entry that is no duplicate; a duplicate changes nothing.
Enqueue(k, c, w) ==
    /\ \A j \in Id : ~(k # NoKey /\ row[j].key = k /\ row[j].status \in Live)
    /\ \E i \in Id : IsNext(row, i) /\ row' = Inserted(row, i, k, c, w)
    /\ UNCHANGED <<pc, batch, cur, taken, tries>>

\* claimDue; a claim that finds nothing ends the call at once.
Claim(d) ==
    /\ pc[d] = "idle"
    /\ \E C \in SUBSET Id :
          /\ IsClaim(row, Scope[d], C)
          /\ C # {}
          /\ row' = Claimed(row, C)
          /\ batch' = [batch EXCEPT ![d] = Entries(row, C)]
    /\ pc' = [pc EXCEPT ![d] = "loop"]
    /\ UNCHANGED <<cur, taken, tries>>

IsFirst(d, e) == e \in batch[d] /\ \A f \in batch[d] : f = e \/ Before(e, f)

\* The loop goes on with what is left of the batch, or the call ends.
AfterLoop(left) == IF left = {} THEN "idle" ELSE "loop"

\* No channel of that kind: the entry dies without a send.
DropUnavailable(d) ==
    /\ pc[d] = "loop"
    /\ \E e \in batch[d] :
          /\ IsFirst(d, e)
          /\ row[e.id].chan \notin Configured
          /\ row' = Marked(row, e.id, "dead", 0)
          /\ batch' = [batch EXCEPT ![d] = @ \ {e}]
          /\ pc' = [pc EXCEPT ![d] = AfterLoop(batch[d] \ {e})]
    /\ UNCHANGED <<cur, taken, tries>>

\* channel.send is called and awaited.
StartSend(d) ==
    /\ pc[d] = "loop"
    /\ \E e \in batch[d] :
          /\ IsFirst(d, e)
          /\ row[e.id].chan \in Configured
          /\ cur' = [cur EXCEPT ![d] = e]
          /\ batch' = [batch EXCEPT ![d] = @ \ {e}]
          /\ tries' = [tries EXCEPT ![e.id] = Least(@ + 1, MaxAttempts + 1)]
    /\ pc' = [pc EXCEPT ![d] = "sending"]
    /\ UNCHANGED <<row, taken>>

\* The provider takes the message; its answer is still on the way.
Take(d) ==
    /\ pc[d] = "sending"
    /\ taken' = [taken EXCEPT ![cur[d].id] = Least(@ + 1, 2)]
    /\ pc' = [pc EXCEPT ![d] = "taken"]
    /\ UNCHANGED <<row, batch, cur, tries>>

\* d writes the outcome of its send and turns to the rest of its batch.  When
\* the index refuses the write, the exception leaves dispatchOutbox and the
\* rest of the batch stays behind as it was claimed.
Settle(d, status, w) ==
    LET i == cur[d].id
        refused == Refused(row, i, status)
        left == IF refused THEN {} ELSE batch[d]
    IN  /\ row' = IF refused THEN row ELSE Marked(row, i, status, w)
        /\ batch' = [batch EXCEPT ![d] = left]
        /\ cur' = [cur EXCEPT ![d] = NoEntry]
        /\ pc' = [pc EXCEPT ![d] = AfterLoop(left)]
        /\ UNCHANGED <<taken, tries>>

\* (slip) the row is marked sent before the channel answered
SettleSentEarly(d) == pc[d] \in {"sending", "taken"} /\ Settle(d, "sent", 0)

\* delivery.ok
SettleSent(d) ==
    /\ pc[d] = "taken"
    /\ Settle(d, "sent", 0)

LastAttempt(d) == cur[d].attempts + 1 >= MaxAttempts

Waits(d) == RetryHints \cup {Backoff[Least(cur[d].attempts + 1, Len(Backoff))]}

\* The send failed before the message was taken, or its answer was lost.
SendFailed(d) == pc[d] = "sending" \/ (pc[d] = "taken" /\ Lossy)

\* A retryable failure with attempts left: the provider's hint or the backoff.
Reschedule(d) ==
    /\ SendFailed(d)
    /\ ~LastAttempt(d)
    /\ \E w \in Waits(d) : Settle(d, "queued", w)

\* A retryable failure of the last attempt.
GiveUp(d) ==
    /\ SendFailed(d)
    /\ LastAttempt(d)
    /\ Settle(d, "dead", 0)

\* The provider refused the message for good.
Refuse(d) ==
    /\ pc[d] = "sending"
    /\ Settle(d, "dead", 0)

\* The target is gone: onGone is awaited, then the entry dies.
ReportGone(d) ==
    /\ pc[d] = "sending"
    /\ pc' = [pc EXCEPT ![d] = "gone"]
    /\ UNCHANGED <<row, batch, cur, taken, tries>>

SettleGone(d) ==
    /\ pc[d] = "gone"
    /\ Settle(d, "dead", 0)

\* The process stops: every call of dispatchOutbox is lost, the table stays.
Crash ==
    /\ MayCrash
    /\ \E d \in Dispatcher : pc[d] # "idle"
    /\ pc' = [d \in Dispatcher |-> "idle"]
    /\ batch' = [d \in Dispatcher |-> {}]
    /\ cur' = [d \in Dispatcher |-> NoEntry]
    /\ UNCHANGED <<row, taken, tries>>

\* (slip) purge looks at the age only
PurgeAny ==
    LET old == {i \in Id : row[i].status \notin {"free", "purged"} /\ row[i].age > Retention}
    IN  /\ old # {}
        /\ row' = [i \in Id |-> IF i \in old THEN [row[i] EXCEPT !.status = "purged"]
                                             ELSE row[i]]
        /\ UNCHANGED <<pc, batch, cur, taken, tries>>

\* purge: DELETE of settled rows not updated since the cutoff.
Purge ==
    LET old == {i \in Id : row[i].status \in {"sent", "dead"} /\ row[i].age > Retention}
    IN  /\ old # {}
        /\ row' = [i \in Id |-> IF i \in old THEN [row[i] EXCEPT !.status = "purged"]
                                             ELSE row[i]]
        /\ UNCHANGED <<pc, batch, cur, taken, tries>>

\* The rows d has claimed and not settled.
Holds(d, i) == (\E e \in batch[d] : e.id = i) \/ cur[d].id = i

\* The clock of a row that can still be claimed; of a settled one only the age counts.
Aged(r) ==
    IF r.status \in {"free", "purged"} THEN r
    ELSE [r EXCEPT !.age = Least(r.age + 1, AgeCap),
                   !.wait = IF r.status \in {"queued", "sending"} /\ r.wait > -Horizon
                            THEN r.wait - 1 ELSE r.wait]

\* One unit of time passes.  Under Timely no claim held by a call grows stale.
Tick ==
    /\ Timely => \A d \in Dispatcher, i \in Id : Holds(d, i) => row[i].age + 1 < Stale
    /\ row' = [i \in Id |-> Aged(row[i])]
    /\ UNCHANGED <<pc, batch, cur, taken, tries>>

\* What a call of dispatchOutbox does once it has claimed its batch.
Proceed(d) ==
    \/ DropUnavailable(d) \/ StartSend(d)
    \/ SettleSent(d) \/ Reschedule(d) \/ GiveUp(d) \/ Refuse(d)
    \/ ReportGone(d) \/ SettleGone(d)

Next ==
    \/ \E k \in Key \cup {NoKey}, c \in Channel, w \in Delays : Enqueue(k, c, w)
    \/ \E d \in Dispatcher : Claim(d) \/ Take(d) \/ Proceed(d)
    \/ Crash
    \/ Purge
    \/ Tick

Spec == Init /\ [][Next]_vars

\* A call goes on until its batch is done, the timer's next call comes, time
\* passes, and the process is not restarted for ever.
Fairness ==
    /\ \A d \in Dispatcher : WF_vars(Claim(d)) /\ WF_vars(Proceed(d))
    /\ WF_vars(Tick)
    /\ <>[][~Crash]_vars

FairSpec == Spec /\ Fairness

-----------------------------------------------------------------------------
(* Properties.                                                             *)

\* At most one live row per target and dedupe key, whichever way the writes
\* of several dispatchers and of enqueue interleave.
LiveKeyUnique ==
    \A i, j \in Id :
        /\ row[i].key = row[j].key /\ row[i].key # NoKey
        /\ row[i].status \in Live /\ row[j].status \in Live
        => i = j

\* While no call outlives the stale window, a row a dispatcher holds is still
\* "sending" and no other dispatcher holds it: the unguarded UPDATEs of
\* markSent, reschedule and markDead never overwrite another call's outcome.
ClaimsExclusive ==
    Timely => \A d \in Dispatcher, i \in Id :
        Holds(d, i) => /\ row[i].status = "sending"
                       /\ row[i].age < Stale
                       /\ \A o \in Dispatcher : Holds(o, i) => o = d

\* A row is only ever marked sent after its channel took the message, also
\* when calls overlap, answers are lost and the process crashes.
SentWasTaken == \A i \in Id : row[i].status = "sent" => taken[i] > 0

\* With timely calls, no lost answer and no crash, the rows of one key reach
\* the channel once between them: "a tick that runs twice sends once".
OncePerKey ==
    \A i, j \in Id :
        /\ row[i].key = row[j].key /\ row[i].key # NoKey
        /\ row[i].status # "purged" /\ row[j].status # "purged"
        /\ taken[i] > 0 /\ taken[j] > 0
        => i = j /\ taken[i] = 1

\* Without a crash a message is handed to its channel MaxAttempts times at most,
\* however many calls take turns on it.
TriesBounded == \A i \in Id : tries[i] <= MaxAttempts

\* A settled row stays as it is until it is purged, and a channel only takes
\* a message whose row is not settled.
SettledIsFinal ==
    [][\A i \in Id :
          /\ row[i].status = "sent" => row'[i].status \in {"sent", "purged"}
          /\ row[i].status = "dead" => row'[i].status \in {"dead", "purged"}
          /\ row[i].status \in {"sent", "dead", "purged"} => taken'[i] = taken[i]]_vars

\* Every message is sent or dead in the end.
EverySettles ==
    \A i \in Id : row[i].status = "queued" ~> row[i].status \in {"sent", "dead"}

\* The outbox as its callers may think of it: OutboxPromise, with a row that is
\* queued or being sent as pending.
FateOf(status) == IF status \in {"queued", "sending"} THEN "pending" ELSE status

Promise == INSTANCE OutboxPromise WITH
    fate <- [i \in Id |-> FateOf(row[i].status)],
    key <- [i \in Id |-> row[i].key],
    taken <- taken

\* With timely calls the table and its dispatchers, with crashes, lost answers
\* and stale claims taken over, implement the promise of OutboxPromise.
KeepsPromise == Promise!Spec
=============================================================================
