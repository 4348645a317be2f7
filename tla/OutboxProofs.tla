---------------------------- MODULE OutboxProofs ----------------------------
(***************************************************************************)
(* Theorems about Outbox, and about ContentPublish, the calendar over it.  *)
(*                                                                         *)
(* The outbox: for every set of dispatchers, channels and keys and every   *)
(* value of the limits.  The inductive invariant is IInv: types, the       *)
(* unique key, and what a call of dispatchOutbox knows of the rows it      *)
(* holds.                                                                  *)
(*                                                                         *)
(* The calendar: for any posts, calls, limits, attempts and bound on the   *)
(* faults.  The invariants of the outbox are carried over by its lemmas;   *)
(* what is added says which call is behind each row, for as long as the    *)
(* process has not stopped.                                                *)
(***************************************************************************)
EXTENDS ContentPublish, FiniteSetTheorems, TLAPS

\* A row never inserted has no key; a call that waits for the answer of a
\* taken message had it taken; a call holds a row once.
HoldInv ==
    /\ \A i \in Id : row[i].status = "free" => row[i].key = NoKey
    /\ \A d \in Dispatcher : pc[d] = "taken" => taken[cur[d].id] > 0
    /\ \A d \in Dispatcher : \A e, f \in batch[d] : e.id = f.id => e = f
    /\ \A d \in Dispatcher : \A e \in batch[d] : e.id # cur[d].id

\* What holds however late a call is, and what needs timely calls besides.
Base == TypeOK /\ HoldInv /\ LiveKeyUnique /\ SentWasTaken

IInv == Base /\ ClaimsExclusive

-----------------------------------------------------------------------------
(* The operators that write the table.                                     *)

\* An UPDATE by id leaves a well-formed table, and touches that row only.
LEMMA MarkedType ==
    ASSUME NEW rows \in [Id -> Row], NEW i \in Id,
           NEW status \in {"queued", "sent", "dead"}, NEW w \in Int
    PROVE  /\ Marked(rows, i, status, w) \in [Id -> Row]
           /\ \A j \in Id : j # i => Marked(rows, i, status, w)[j] = rows[j]
           /\ Marked(rows, i, status, w)[i].key = rows[i].key
           /\ Marked(rows, i, status, w)[i].chan = rows[i].chan
           /\ Marked(rows, i, status, w)[i].status =
                 IF rows[i].status = "purged" THEN "purged" ELSE status
BY DEF Marked, Row, Status

\* A claim only turns the rows it picks to "sending", as of now.
LEMMA ClaimedType ==
    ASSUME NEW rows \in [Id -> Row], NEW C \in SUBSET Id
    PROVE  /\ Claimed(rows, C) \in [Id -> Row]
           /\ \A i \in Id \ C : Claimed(rows, C)[i] = rows[i]
           /\ \A i \in C : /\ Claimed(rows, C)[i].status = "sending"
                           /\ Claimed(rows, C)[i].age = 0
                           /\ Claimed(rows, C)[i].key = rows[i].key
                           /\ Claimed(rows, C)[i].chan = rows[i].chan
BY DEF Claimed, Row, Status

\* Time changes neither the status nor the key of a row.
LEMMA AgedType ==
    ASSUME NEW r \in Row
    PROVE  /\ Aged(r) \in Row
           /\ Aged(r).status = r.status
           /\ Aged(r).key = r.key
           /\ Aged(r).age <= r.age + 1
<1> DEFINE a == Least(r.age + 1, AgeCap)
           w == IF r.status \in {"queued", "sending"} /\ r.wait > -Horizon
                THEN r.wait - 1 ELSE r.wait
           s == [r EXCEPT !.age = a, !.wait = w]
<1>1. a \in Nat /\ a <= r.age + 1
  BY OutboxAssumption DEF Least, Row
<1>2. w \in Int
  BY OutboxAssumption DEF Row
<1>3. Aged(r) = IF r.status \in {"free", "purged"} THEN r ELSE s
  BY DEF Aged
<1> HIDE DEF a, w
<1>4. s \in Row /\ s.status = r.status /\ s.key = r.key /\ s.age = a
  BY <1>1, <1>2 DEF Row
<1>. QED  BY <1>1, <1>3, <1>4 DEF Row

\* What a claim hands out are entries of the rows it picked, one for each.
LEMMA EntriesType ==
    ASSUME NEW rows \in [Id -> Row], NEW C \in SUBSET Id
    PROVE  /\ Entries(rows, C) \subseteq Entry
           /\ \A e \in Entries(rows, C) : e.id \in C
           /\ \A e, f \in Entries(rows, C) : e.id = f.id => e = f
BY DEF Entries, EntryOf, Entry, Row

-----------------------------------------------------------------------------
(* One lemma per step: it keeps the invariant.                             *)

LEMMA InitInv == Init => IInv
<1> SUFFICES ASSUME Init PROVE IInv
  OBVIOUS
<1>1. TypeOK
  BY OutboxAssumption DEF Init, TypeOK, Row, Status, Free, PC, NoEntry
<1>2. HoldInv /\ LiveKeyUnique /\ SentWasTaken
  BY DEF Init, HoldInv, LiveKeyUnique, SentWasTaken, Free, NoEntry
<1>3. ClaimsExclusive
  BY DEF Init, ClaimsExclusive, Holds, NoEntry, Id
<1>. QED  BY <1>1, <1>2, <1>3 DEF IInv, Base

\* A table that a step may start from in the middle: types, the unique key, what sent means.
TableOK(rows) ==
    /\ rows \in [Id -> Row]
    /\ \A i \in Id : rows[i].status = "free" => rows[i].key = NoKey
    /\ \A i \in Id : rows[i].status = "sent" => taken[i] > 0
    /\ \A i, j \in Id : /\ rows[i].key = rows[j].key /\ rows[i].key # NoKey
                        /\ rows[i].status \in Live /\ rows[j].status \in Live
                        => i = j

LEMMA TableBase == Base => TableOK(row)
BY DEF Base, TypeOK, HoldInv, LiveKeyUnique, SentWasTaken, TableOK

\* An INSERT under a key that no live row has.
LEMMA InsertedOK ==
    ASSUME Base, NEW k \in Key \cup {NoKey}, NEW c \in Channel, NEW w \in Int, NEW i \in Id,
           IsNext(row, i), \A j \in Id : ~(k # NoKey /\ row[j].key = k /\ row[j].status \in Live)
    PROVE  /\ TableOK(Inserted(row, i, k, c, w))
           /\ row[i].status = "free"
           /\ Inserted(row, i, k, c, w)[i].status = "queued" /\ Inserted(row, i, k, c, w)[i].key = k
           /\ \A j \in Id : j # i => Inserted(row, i, k, c, w)[j] = row[j]
<1> DEFINE rows == Inserted(row, i, k, c, w)
<1>1. /\ row[i].status = "free" /\ rows \in [Id -> Row]
      /\ rows[i].status = "queued" /\ rows[i].key = k
      /\ \A j \in Id : j # i => rows[j] = row[j]
  <2>1. [status |-> "queued", key |-> k, chan |-> c, attempts |-> 0, wait |-> w, age |-> 0] \in Row
    BY OutboxAssumption DEF Row, Status
  <2>. QED  BY <2>1 DEF IsNext, Inserted, Base, TypeOK
<1> HIDE DEF rows
<1>2. TableOK(rows)
  BY <1>1 DEF TableOK, Base, HoldInv, SentWasTaken, LiveKeyUnique
<1>. QED  BY <1>1, <1>2 DEF rows

LEMMA EnqueueInv ==
    ASSUME Base, NEW k \in Key \cup {NoKey}, NEW c \in Channel, NEW w \in Delays,
           Enqueue(k, c, w)
    PROVE  Base' /\ (ClaimsExclusive => ClaimsExclusive')
<1>1. PICK i \in Id : IsNext(row, i) /\ row' = Inserted(row, i, k, c, w)
  BY DEF Enqueue
<1>2. /\ row[i].status = "free"
      /\ row'[i].status = "queued" /\ row'[i].key = k
      /\ \A j \in Id : j # i => row'[j] = row[j]
      /\ TableOK(row')
  <2>1. w \in Int
    BY OutboxAssumption
  <2>. QED  BY <1>1, <2>1, InsertedOK DEF Enqueue
<1>3. UNCHANGED <<pc, batch, cur, taken, tries>>
  BY DEF Enqueue
<1>4. Base'
  BY <1>2, <1>3 DEF Base, TypeOK, HoldInv, LiveKeyUnique, SentWasTaken, TableOK
<1>5. ASSUME ClaimsExclusive PROVE ClaimsExclusive'
  <2>1. \A d \in Dispatcher, j \in Id : Holds(d, j)' <=> Holds(d, j)
    BY <1>3 DEF Holds
  <2>2. Timely => \A d \in Dispatcher : ~Holds(d, i)
    BY <1>2, <1>5 DEF ClaimsExclusive
  <2>. QED  BY <1>2, <1>5, <2>1, <2>2 DEF ClaimsExclusive
<1>. QED  BY <1>4, <1>5

\* A claim on a table into which the same step may have inserted a row.
LEMMA ClaimedInv ==
    ASSUME Base, NEW d \in Dispatcher, pc[d] = "idle", NEW rows, TableOK(rows),
           NEW C \in SUBSET Id, IsClaim(rows, Scope[d], C), row' = Claimed(rows, C),
           batch' = [batch EXCEPT ![d] = Entries(rows, C)],
           pc' = [pc EXCEPT ![d] = AfterLoop(C)], UNCHANGED <<cur, taken, tries>>
    PROVE  /\ Base'
           /\ /\ ClaimsExclusive
              /\ Timely => \A o \in Dispatcher, i \in Id : Holds(o, i) => rows[i] = row[i]
              => ClaimsExclusive'
<1>1. /\ batch \in [Dispatcher -> SUBSET Entry] /\ rows \in [Id -> Row]
      /\ pc \in [Dispatcher -> PC] /\ cur[d] = NoEntry
  BY DEF Base, TypeOK, TableOK
<1>2. \A i \in C : \/ rows[i].status = "queued"
                   \/ rows[i].status = "sending" /\ rows[i].age >= Stale
  BY DEF IsClaim, Due, IsDue
<1>3. /\ row' \in [Id -> Row]
      /\ \A i \in Id \ C : row'[i] = rows[i]
      /\ \A i \in C : /\ row'[i].status = "sending" /\ row'[i].age = 0
                      /\ row'[i].key = rows[i].key
  BY <1>1, ClaimedType
<1>4. /\ batch' \in [Dispatcher -> SUBSET Entry]
      /\ \A e \in batch'[d] : e.id \in C
      /\ \A e, f \in batch'[d] : e.id = f.id => e = f
      /\ C = {} => batch'[d] = {}
  <2>1. C = {} => Entries(rows, C) = {}
    BY DEF Entries
  <2>. QED  BY <1>1, <2>1, EntriesType
<1>5. /\ pc' \in [Dispatcher -> PC] /\ pc'[d] = IF C = {} THEN "idle" ELSE "loop"
      /\ \A o \in Dispatcher : o # d => batch'[o] = batch[o] /\ pc'[o] = pc[o]
  BY <1>1 DEF PC, AfterLoop
<1>6. TypeOK'
  BY <1>1, <1>3, <1>4, <1>5 DEF Base, TypeOK, PC, NoEntry
<1>7. HoldInv'
  <2>1. \A i \in Id : row'[i].status = "free" => rows[i].status = "free" /\ row'[i].key = rows[i].key
    BY <1>3
  <2>2. \A i \in Id : row'[i].status = "free" => row'[i].key = NoKey
    BY <2>1 DEF TableOK
  <2>3. \A e \in batch'[d] : e.id # cur'[d].id
    BY <1>1, <1>4 DEF NoEntry, Id
  <2>. QED  BY <1>4, <1>5, <2>2, <2>3 DEF Base, HoldInv
<1>8. LiveKeyUnique'
  <2>1. \A i \in Id : /\ row'[i].key = rows[i].key
                      /\ row'[i].status \in Live => rows[i].status \in Live
    BY <1>2, <1>3 DEF Live
  <2>. QED  BY <2>1 DEF TableOK, LiveKeyUnique
<1>9. SentWasTaken'
  BY <1>3 DEF TableOK, SentWasTaken
<1>10. ASSUME ClaimsExclusive, Timely,
              \A o \in Dispatcher, i \in Id : Holds(o, i) => rows[i] = row[i]
       PROVE  ClaimsExclusive'
  <2> SUFFICES ASSUME NEW o \in Dispatcher, NEW i \in Id, Holds(o, i)'
               PROVE  /\ row'[i].status = "sending" /\ row'[i].age < Stale
                      /\ \A p \in Dispatcher : Holds(p, i)' => p = o
    BY DEF ClaimsExclusive
  <2>1. \A p \in Dispatcher : p # d => (Holds(p, i)' <=> Holds(p, i))
    BY <1>5 DEF Holds
  <2>2. Holds(d, i)' => i \in C
    BY <1>1, <1>4 DEF Holds, NoEntry, Id
  <2>3. \A p \in Dispatcher :
           Holds(p, i) => /\ rows[i].status = "sending" /\ rows[i].age < Stale
                          /\ \A q \in Dispatcher : Holds(q, i) => q = p
    BY <1>10 DEF ClaimsExclusive
  <2>4. rows[i].age \in Int /\ Stale \in Nat \ {0}
    BY <1>1, OutboxAssumption DEF Row
  <2>5. \A p \in Dispatcher : Holds(p, i) => i \notin C
    BY <1>2, <2>3, <2>4
  <2>6. CASE o = d
    BY <1>3, <2>1, <2>2, <2>4, <2>5, <2>6
  <2>7. CASE o # d
    BY <1>3, <2>1, <2>2, <2>3, <2>5, <2>7
  <2>. QED  BY <2>6, <2>7
<1>11. ~Timely => ClaimsExclusive'
  BY DEF ClaimsExclusive
<1>. QED  BY <1>6, <1>7, <1>8, <1>9, <1>10, <1>11 DEF Base

LEMMA ClaimInv ==
    ASSUME Base, NEW d \in Dispatcher, Claim(d)
    PROVE  Base' /\ (ClaimsExclusive => ClaimsExclusive')
<1>1. PICK C \in SUBSET Id :
         /\ IsClaim(row, Scope[d], C)
         /\ C # {}
         /\ row' = Claimed(row, C)
         /\ batch' = [batch EXCEPT ![d] = Entries(row, C)]
  BY DEF Claim
<1>2. pc[d] = "idle" /\ pc' = [pc EXCEPT ![d] = AfterLoop(C)] /\ UNCHANGED <<cur, taken, tries>>
  BY <1>1 DEF Claim, AfterLoop
<1>. QED  BY <1>1, <1>2, TableBase, ClaimedInv

\* A write of one row by the call d that holds it, taking the row out of d's
\* hands: the common part of DropUnavailable and of every Settle.
LEMMA WriteInv ==
    ASSUME Base, NEW d \in Dispatcher, NEW i \in Id, Holds(d, i),
           NEW status \in {"queued", "sent", "dead"}, NEW w \in Int,
           row' = Marked(row, i, status, w),
           ~Refused(row, i, status),
           status = "sent" => taken[i] > 0,
           UNCHANGED taken,
           \A o \in Dispatcher, j \in Id :
               Holds(o, j)' => Holds(o, j) /\ ~(o = d /\ j = i)
    PROVE  LiveKeyUnique' /\ SentWasTaken' /\ row' \in [Id -> Row]
           /\ (ClaimsExclusive => ClaimsExclusive')
           /\ \A j \in Id : row'[j].status = "free" => row[j].status = "free" /\ row'[j].key = row[j].key
<1>1. row \in [Id -> Row]
  BY DEF Base, TypeOK
<1>2. /\ row' \in [Id -> Row]
      /\ \A j \in Id : j # i => row'[j] = row[j]
      /\ row'[i].key = row[i].key
      /\ row'[i].status = IF row[i].status = "purged" THEN "purged" ELSE status
  BY <1>1, MarkedType
<1>3. LiveKeyUnique'
  <2> SUFFICES ASSUME NEW j \in Id, NEW k \in Id,
                      row'[j].key = row'[k].key, row'[j].key # NoKey,
                      row'[j].status \in Live, row'[k].status \in Live
               PROVE  j = k
    BY DEF LiveKeyUnique
  <2>1. \A j1 \in Id : row'[j1].key = row[j1].key
    BY <1>2
  <2>2. CASE row[i].status \in Live
    <3>1. row[j].status \in Live /\ row[k].status \in Live
      BY <1>2, <2>2
    <3>. QED  BY <2>1, <3>1 DEF Base, LiveKeyUnique
  <2>3. CASE row[i].status = "dead"
    <3>1. ~(status \in Live /\ KeyHeld(row, i, row[i].key))
      BY <2>3 DEF Refused
    <3>2. CASE j # i /\ k # i
      BY <1>2, <2>1, <3>2 DEF Base, LiveKeyUnique
    <3>3. CASE j = i /\ k # i
      BY <1>2, <2>1, <2>3, <3>1, <3>3 DEF KeyHeld, Live
    <3>4. CASE k = i /\ j # i
      BY <1>2, <2>1, <2>3, <3>1, <3>4 DEF KeyHeld, Live
    <3>. QED  BY <3>2, <3>3, <3>4
  <2>4. CASE row[i].status = "free"
    <3>1. row[i].key = NoKey
      BY <2>4 DEF Base, HoldInv
    <3>2. j # i /\ k # i
      BY <2>1, <3>1
    <3>. QED  BY <1>2, <2>1, <3>2 DEF Base, LiveKeyUnique
  <2>5. CASE row[i].status = "purged"
    <3>1. j # i /\ k # i
      BY <1>2, <2>5 DEF Live
    <3>. QED  BY <1>2, <2>1, <3>1 DEF Base, LiveKeyUnique
  <2>. QED  BY <1>1, <2>2, <2>3, <2>4, <2>5 DEF Row, Status, Live
<1>4. SentWasTaken'
  BY <1>2 DEF Base, SentWasTaken
<1>5. ASSUME ClaimsExclusive PROVE ClaimsExclusive'
  <2> SUFFICES ASSUME Timely, NEW o \in Dispatcher, NEW j \in Id, Holds(o, j)'
               PROVE  /\ row'[j].status = "sending" /\ row'[j].age < Stale
                      /\ \A p \in Dispatcher : Holds(p, j)' => p = o
    BY DEF ClaimsExclusive
  <2>1. j # i
    BY <1>5 DEF ClaimsExclusive
  <2>. QED  BY <1>2, <1>5, <2>1 DEF Base, ClaimsExclusive
<1>6. \A j \in Id : row'[j].status = "free" => row[j].status = "free" /\ row'[j].key = row[j].key
  BY <1>2
<1>. QED  BY <1>2, <1>3, <1>4, <1>5, <1>6

LEMMA DropInv ==
    ASSUME Base, NEW d \in Dispatcher, DropUnavailable(d)
    PROVE  Base' /\ (ClaimsExclusive => ClaimsExclusive')
<1>1. PICK e \in batch[d] :
         /\ row' = Marked(row, e.id, "dead", 0)
         /\ batch' = [batch EXCEPT ![d] = @ \ {e}]
         /\ pc' = [pc EXCEPT ![d] = AfterLoop(batch[d] \ {e})]
  BY DEF DropUnavailable
<1>2. pc[d] = "loop" /\ UNCHANGED <<cur, taken, tries>>
  BY DEF DropUnavailable
<1>3. /\ batch \in [Dispatcher -> SUBSET Entry] /\ pc \in [Dispatcher -> PC]
      /\ cur[d] = NoEntry /\ e.id \in Id
  BY <1>2 DEF Base, TypeOK, Entry
<1>4. /\ batch' \in [Dispatcher -> SUBSET Entry] /\ pc' \in [Dispatcher -> PC]
      /\ batch'[d] = batch[d] \ {e}
      /\ pc'[d] = IF batch'[d] = {} THEN "idle" ELSE "loop"
      /\ \A o \in Dispatcher : o # d => batch'[o] = batch[o] /\ pc'[o] = pc[o]
  BY <1>1, <1>3 DEF AfterLoop, PC
<1>5. Holds(d, e.id)
  BY DEF Holds
<1>6. \A o \in Dispatcher, j \in Id : Holds(o, j)' => Holds(o, j) /\ ~(o = d /\ j = e.id)
  <2> SUFFICES ASSUME NEW o \in Dispatcher, NEW j \in Id, Holds(o, j)'
               PROVE  Holds(o, j) /\ ~(o = d /\ j = e.id)
    OBVIOUS
  <2>1. cur[d].id \notin Id
    BY <1>3 DEF NoEntry, Id
  <2>2. CASE o = d
    BY <1>2, <1>4, <2>1, <2>2 DEF Holds, Base, HoldInv
  <2>3. CASE o # d
    BY <1>2, <1>4, <2>3 DEF Holds
  <2>. QED  BY <2>2, <2>3
<1>7. ~Refused(row, e.id, "dead")
  BY DEF Refused, Live
<1>8. /\ LiveKeyUnique' /\ SentWasTaken' /\ row' \in [Id -> Row] /\ (ClaimsExclusive => ClaimsExclusive')
      /\ \A j \in Id : row'[j].status = "free" => row[j].status = "free" /\ row'[j].key = row[j].key
  BY <1>1, <1>2, <1>3, <1>5, <1>6, <1>7, WriteInv
<1>9. TypeOK'
  BY <1>2, <1>3, <1>4, <1>8 DEF Base, TypeOK, NoEntry
<1>10. HoldInv'
  BY <1>2, <1>4, <1>8 DEF Base, HoldInv
<1>. QED  BY <1>8, <1>9, <1>10 DEF Base

\* The rows stay as they are: the unique key and the sent rows with them.
LEMMA SameRows ==
    ASSUME Base, UNCHANGED row, \A i \in Id : taken[i] > 0 => taken'[i] > 0
    PROVE  LiveKeyUnique' /\ SentWasTaken'
BY DEF Base, LiveKeyUnique, SentWasTaken

LEMMA StartInv ==
    ASSUME Base, NEW d \in Dispatcher, StartSend(d)
    PROVE  Base' /\ (ClaimsExclusive => ClaimsExclusive')
<1>1. PICK e \in batch[d] :
         /\ cur' = [cur EXCEPT ![d] = e]
         /\ batch' = [batch EXCEPT ![d] = @ \ {e}]
         /\ tries' = [tries EXCEPT ![e.id] = Least(@ + 1, MaxAttempts + 1)]
  BY DEF StartSend
<1>2. pc[d] = "loop" /\ pc' = [pc EXCEPT ![d] = "sending"] /\ UNCHANGED <<row, taken>>
  BY DEF StartSend
<1>3. /\ batch \in [Dispatcher -> SUBSET Entry] /\ pc \in [Dispatcher -> PC]
      /\ cur \in [Dispatcher -> Entry \cup {NoEntry}] /\ cur[d] = NoEntry
      /\ e \in Entry /\ e.id \in Id /\ tries \in [Id -> 0..(MaxAttempts + 1)]
  BY <1>2 DEF Base, TypeOK, Entry
<1>4. /\ batch' \in [Dispatcher -> SUBSET Entry] /\ pc' \in [Dispatcher -> PC]
      /\ cur' \in [Dispatcher -> Entry \cup {NoEntry}]
      /\ batch'[d] = batch[d] \ {e} /\ cur'[d] = e /\ pc'[d] = "sending"
      /\ \A o \in Dispatcher : o # d => batch'[o] = batch[o] /\ pc'[o] = pc[o] /\ cur'[o] = cur[o]
  BY <1>1, <1>2, <1>3 DEF PC
<1>5. tries' \in [Id -> 0..(MaxAttempts + 1)]
  <2>1. tries[e.id] \in 0..(MaxAttempts + 1) /\ MaxAttempts \in Nat
    BY <1>3, OutboxAssumption
  <2>2. Least(tries[e.id] + 1, MaxAttempts + 1) \in 0..(MaxAttempts + 1)
    BY <2>1 DEF Least
  <2>. QED  BY <1>1, <1>3, <2>2
<1>6. TypeOK'
  BY <1>2, <1>3, <1>4, <1>5 DEF Base, TypeOK, NoEntry, Id
<1>7. HoldInv'
  BY <1>2, <1>4 DEF Base, HoldInv
<1>8. \A o \in Dispatcher, j \in Id : Holds(o, j)' => Holds(o, j)
  <2> SUFFICES ASSUME NEW o \in Dispatcher, NEW j \in Id, Holds(o, j)' PROVE Holds(o, j)
    OBVIOUS
  <2>1. CASE o = d
    BY <1>4, <2>1 DEF Holds
  <2>2. CASE o # d
    BY <1>4, <2>2 DEF Holds
  <2>. QED  BY <2>1, <2>2
<1>9. ClaimsExclusive => ClaimsExclusive'
  BY <1>2, <1>8 DEF Base, ClaimsExclusive
<1>. QED  BY <1>2, <1>6, <1>7, <1>9, SameRows DEF Base

LEMMA TakeInv ==
    ASSUME Base, NEW d \in Dispatcher, Take(d)
    PROVE  Base' /\ (ClaimsExclusive => ClaimsExclusive')
<1>1. /\ pc[d] = "sending" /\ pc' = [pc EXCEPT ![d] = "taken"]
      /\ taken' = [taken EXCEPT ![cur[d].id] = Least(@ + 1, 2)]
      /\ UNCHANGED <<row, batch, cur, tries>>
  BY DEF Take
<1>2. /\ pc \in [Dispatcher -> PC] /\ taken \in [Id -> 0..2] /\ cur[d] \in Entry /\ cur[d].id \in Id
      /\ \A o \in Dispatcher : cur[o] = NoEntry <=> pc[o] \in {"idle", "loop"}
  BY <1>1 DEF Base, TypeOK, Entry
<1>3. taken[cur[d].id] \in 0..2 /\ Least(taken[cur[d].id] + 1, 2) \in 1..2
  BY <1>2 DEF Least
<1>4. /\ taken' \in [Id -> 0..2] /\ taken'[cur[d].id] > 0
      /\ \A i \in Id : taken[i] > 0 => taken'[i] > 0
  BY <1>1, <1>2, <1>3
<1>5. /\ pc' \in [Dispatcher -> PC] /\ pc'[d] = "taken"
      /\ \A o \in Dispatcher : o # d => pc'[o] = pc[o]
  BY <1>1, <1>2 DEF PC
<1>6. TypeOK'
  BY <1>1, <1>2, <1>4, <1>5 DEF Base, TypeOK
<1>7. HoldInv'
  <2>1. \A o \in Dispatcher : pc'[o] = "taken" => taken'[cur'[o].id] > 0
    <3> SUFFICES ASSUME NEW o \in Dispatcher, pc'[o] = "taken" PROVE taken'[cur[o].id] > 0
      BY <1>1
    <3>1. CASE o = d
      BY <1>4, <3>1
    <3>2. CASE o # d
      <4>1. pc[o] = "taken" /\ taken[cur[o].id] > 0
        BY <1>5, <3>2 DEF Base, HoldInv
      <4>2. cur[o].id \in Id
        BY <1>2, <4>1 DEF Base, TypeOK, Entry
      <4>. QED  BY <1>4, <4>1, <4>2
    <3>. QED  BY <3>1, <3>2
  <2>. QED  BY <1>1, <2>1 DEF Base, HoldInv
<1>8. ClaimsExclusive => ClaimsExclusive'
  BY <1>1 DEF Base, ClaimsExclusive, Holds
<1>. QED  BY <1>1, <1>4, <1>6, <1>7, <1>8, SameRows DEF Base

\* Whatever outcome a call writes for the entry it was sending.
LEMMA SettleInv ==
    ASSUME Base, NEW d \in Dispatcher, NEW status \in {"queued", "sent", "dead"}, NEW w \in Int,
           pc[d] \in {"sending", "taken", "gone"}, status = "sent" => pc[d] = "taken",
           Settle(d, status, w)
    PROVE  Base' /\ (ClaimsExclusive => ClaimsExclusive')
<1> DEFINE i == cur[d].id
           refused == Refused(row, i, status)
           left == IF refused THEN {} ELSE batch[d]
<1>1. /\ row' = IF refused THEN row ELSE Marked(row, i, status, w)
      /\ batch' = [batch EXCEPT ![d] = left]
      /\ cur' = [cur EXCEPT ![d] = NoEntry]
      /\ pc' = [pc EXCEPT ![d] = AfterLoop(left)]
      /\ UNCHANGED <<taken, tries>>
  BY DEF Settle
<1>2. /\ batch \in [Dispatcher -> SUBSET Entry] /\ pc \in [Dispatcher -> PC]
      /\ cur \in [Dispatcher -> Entry \cup {NoEntry}] /\ cur[d] \in Entry /\ i \in Id
  BY DEF Base, TypeOK, Entry
<1>3. /\ batch' \in [Dispatcher -> SUBSET Entry] /\ pc' \in [Dispatcher -> PC]
      /\ cur' \in [Dispatcher -> Entry \cup {NoEntry}]
      /\ batch'[d] \subseteq batch[d] /\ cur'[d] = NoEntry
      /\ pc'[d] = IF batch'[d] = {} THEN "idle" ELSE "loop"
      /\ \A o \in Dispatcher : o # d => batch'[o] = batch[o] /\ pc'[o] = pc[o] /\ cur'[o] = cur[o]
  BY <1>1, <1>2 DEF AfterLoop, PC
<1>4. \A o \in Dispatcher, j \in Id : Holds(o, j)' => Holds(o, j) /\ ~(o = d /\ j = i)
  <2> SUFFICES ASSUME NEW o \in Dispatcher, NEW j \in Id, Holds(o, j)'
               PROVE  Holds(o, j) /\ ~(o = d /\ j = i)
    OBVIOUS
  <2>1. NoEntry.id \notin Id
    BY DEF NoEntry, Id
  <2>2. CASE o = d
    BY <1>3, <2>1, <2>2 DEF Holds, Base, HoldInv
  <2>3. CASE o # d
    BY <1>3, <2>3 DEF Holds
  <2>. QED  BY <2>2, <2>3
<1>5. Holds(d, i)
  BY DEF Holds
<1>6. status = "sent" => taken[i] > 0
  BY DEF Base, HoldInv
<1>7. /\ LiveKeyUnique' /\ SentWasTaken' /\ row' \in [Id -> Row] /\ (ClaimsExclusive => ClaimsExclusive')
      /\ \A j \in Id : row'[j].status = "free" => row[j].status = "free" /\ row'[j].key = row[j].key
  <2>1. CASE refused
    <3>1. UNCHANGED <<row, taken>>
      BY <1>1, <2>1
    <3>2. ClaimsExclusive => ClaimsExclusive'
      BY <1>4, <3>1 DEF Base, ClaimsExclusive
    <3>. QED  BY <3>1, <3>2, SameRows DEF Base, TypeOK
  <2>2. CASE ~refused
    <3>1. row' = Marked(row, i, status, w) /\ UNCHANGED taken
      BY <1>1, <2>2
    <3> HIDE DEF i
    <3>. QED  BY <1>2, <1>4, <1>5, <1>6, <2>2, <3>1, WriteInv
  <2>. QED  BY <2>1, <2>2
<1> HIDE DEF i, left
<1>8. TypeOK'
  BY <1>1, <1>3, <1>7 DEF Base, TypeOK
<1>9. HoldInv'
  <2>1. \A e \in batch'[d] : e.id # cur'[d].id
    BY <1>2, <1>3 DEF NoEntry, Entry, Id
  <2>. QED  BY <1>1, <1>3, <1>7, <2>1 DEF Base, HoldInv
<1>. QED  BY <1>7, <1>8, <1>9 DEF Base

LEMMA WaitsType ==
    ASSUME TypeOK, NEW d \in Dispatcher, pc[d] \in {"sending", "taken", "gone"}
    PROVE  Waits(d) \subseteq Int
<1>1. cur[d] \in Entry
  BY DEF TypeOK
<1>2. cur[d].attempts + 1 \in Nat \ {0}
  BY <1>1 DEF Entry
<1>3. Backoff \in Seq(Nat) /\ Backoff # <<>> /\ RetryHints \subseteq Nat
  BY OutboxAssumption
<1>4. Len(Backoff) \in Nat \ {0}
  BY <1>3
<1>5. Least(cur[d].attempts + 1, Len(Backoff)) \in 1..Len(Backoff)
  BY <1>2, <1>4 DEF Least
<1>6. Backoff[Least(cur[d].attempts + 1, Len(Backoff))] \in Int
  BY <1>3, <1>5
<1>7. RetryHints \subseteq Int
  BY <1>3
<1> DEFINE b == Backoff[Least(cur[d].attempts + 1, Len(Backoff))]
<1>8. Waits(d) = RetryHints \cup {b}
  BY DEF Waits
<1>9. b \in Int
  BY <1>6
<1> HIDE DEF b
<1>. QED  BY <1>7, <1>8, <1>9

\* What a call does once it has claimed its batch.
LEMMA ProceedInv ==
    ASSUME Base, NEW d \in Dispatcher, Proceed(d)
    PROVE  Base' /\ (ClaimsExclusive => ClaimsExclusive')
<1>1. CASE DropUnavailable(d)
  BY <1>1, DropInv
<1>2. CASE StartSend(d)
  BY <1>2, StartInv
<1>3. CASE SettleSent(d)
  BY <1>3, SettleInv DEF SettleSent
<1>4. CASE Reschedule(d)
  <2>1. pc[d] \in {"sending", "taken"}
    BY <1>4 DEF Reschedule, SendFailed
  <2>2. PICK w \in Waits(d) : Settle(d, "queued", w)
    BY <1>4 DEF Reschedule
  <2>3. w \in Int
    BY <2>1, WaitsType DEF Base
  <2>. QED  BY <2>1, <2>2, <2>3, SettleInv
<1>5. CASE GiveUp(d)
  <2>1. pc[d] \in {"sending", "taken"} /\ Settle(d, "dead", 0)
    BY <1>5 DEF GiveUp, SendFailed
  <2>. QED  BY <2>1, SettleInv
<1>6. CASE Refuse(d)
  BY <1>6, SettleInv DEF Refuse
<1>7. CASE SettleGone(d)
  BY <1>7, SettleInv DEF SettleGone
<1>8. CASE ReportGone(d)
  <2>1. /\ pc[d] = "sending" /\ pc' = [pc EXCEPT ![d] = "gone"]
        /\ UNCHANGED <<row, batch, cur, taken, tries>>
    BY <1>8 DEF ReportGone
  <2>2. TypeOK'
    BY <2>1 DEF Base, TypeOK, PC
  <2>3. HoldInv'
    BY <2>1 DEF Base, TypeOK, HoldInv
  <2>4. ClaimsExclusive => ClaimsExclusive'
    BY <2>1 DEF Base, ClaimsExclusive, Holds
  <2>. QED  BY <2>1, <2>2, <2>3, <2>4, SameRows DEF Base
<1>. QED  BY <1>1, <1>2, <1>3, <1>4, <1>5, <1>6, <1>7, <1>8 DEF Proceed

LEMMA CrashInv ==
    ASSUME Base, Crash
    PROVE  Base' /\ (ClaimsExclusive => ClaimsExclusive')
<1>1. /\ pc' = [d \in Dispatcher |-> "idle"]
      /\ batch' = [d \in Dispatcher |-> {}]
      /\ cur' = [d \in Dispatcher |-> NoEntry]
      /\ UNCHANGED <<row, taken, tries>>
  BY DEF Crash
<1>2. TypeOK'
  BY <1>1 DEF Base, TypeOK, PC
<1>3. HoldInv'
  BY <1>1 DEF Base, HoldInv
<1>4. ClaimsExclusive => ClaimsExclusive'
  BY <1>1 DEF ClaimsExclusive, Holds, NoEntry, Id
<1>. QED  BY <1>1, <1>2, <1>3, <1>4, SameRows DEF Base

LEMMA PurgeInv ==
    ASSUME Base, Purge
    PROVE  Base' /\ (ClaimsExclusive => ClaimsExclusive')
<1>1. PICK old \in SUBSET Id :
         /\ old = {i \in Id : row[i].status \in {"sent", "dead"} /\ row[i].age > Retention}
         /\ row' = [i \in Id |-> IF i \in old THEN [row[i] EXCEPT !.status = "purged"]
                                              ELSE row[i]]
  BY DEF Purge
<1>2. UNCHANGED <<pc, batch, cur, taken, tries>>
  BY DEF Purge
<1>3. /\ row' \in [Id -> Row]
      /\ \A i \in Id : row'[i].key = row[i].key
      /\ \A i \in old : row[i].status \in {"sent", "dead"} /\ row'[i].status = "purged"
      /\ \A i \in Id \ old : row'[i] = row[i]
  BY <1>1 DEF Base, TypeOK, Row, Status
<1>4. TypeOK'
  BY <1>2, <1>3 DEF Base, TypeOK
<1>5. HoldInv'
  BY <1>2, <1>3 DEF Base, HoldInv
<1>6. LiveKeyUnique'
  BY <1>3 DEF Base, LiveKeyUnique, Live
<1>7. SentWasTaken'
  BY <1>2, <1>3 DEF Base, SentWasTaken
<1>8. ClaimsExclusive => ClaimsExclusive'
  BY <1>2, <1>3 DEF Base, ClaimsExclusive, Holds
<1>. QED  BY <1>4, <1>5, <1>6, <1>7, <1>8 DEF Base

LEMMA TickInv ==
    ASSUME Base, Tick
    PROVE  Base' /\ (ClaimsExclusive => ClaimsExclusive')
<1>1. /\ row' = [i \in Id |-> Aged(row[i])]
      /\ UNCHANGED <<pc, batch, cur, taken, tries>>
      /\ Timely => \A d \in Dispatcher, i \in Id : Holds(d, i) => row[i].age + 1 < Stale
  BY DEF Tick
<1>2. /\ row' \in [Id -> Row]
      /\ \A i \in Id : /\ row'[i].status = row[i].status /\ row'[i].key = row[i].key
                       /\ row'[i].age <= row[i].age + 1
  BY <1>1, AgedType DEF Base, TypeOK
<1>3. TypeOK'
  BY <1>1, <1>2 DEF Base, TypeOK
<1>4. HoldInv'
  BY <1>1, <1>2 DEF Base, HoldInv
<1>5. LiveKeyUnique' /\ SentWasTaken'
  BY <1>1, <1>2 DEF Base, LiveKeyUnique, SentWasTaken
<1>6. ASSUME ClaimsExclusive PROVE ClaimsExclusive'
  <2>1. \A i \in Id : row[i].age \in Nat /\ row'[i].age \in Nat
    BY <1>2 DEF Base, TypeOK, Row
  <2>2. \A d \in Dispatcher, i \in Id : Holds(d, i)' <=> Holds(d, i)
    BY <1>1 DEF Holds
  <2> SUFFICES ASSUME Timely, NEW d \in Dispatcher, NEW i \in Id, Holds(d, i)'
               PROVE  /\ row'[i].status = "sending"
                      /\ row'[i].age < Stale
                      /\ \A o \in Dispatcher : Holds(o, i)' => o = d
    BY DEF ClaimsExclusive
  <2>3. Holds(d, i)
    BY <2>2
  <2>4. row[i].status = "sending" /\ \A o \in Dispatcher : Holds(o, i) => o = d
    BY <1>6, <2>3 DEF ClaimsExclusive
  <2>5. row[i].age + 1 < Stale
    BY <1>1, <2>3
  <2>6. row'[i].age <= row[i].age + 1 /\ row'[i].status = row[i].status
    BY <1>2
  <2>7. row'[i].age < Stale
    BY <2>1, <2>5, <2>6, OutboxAssumption
  <2>. QED  BY <2>2, <2>4, <2>6, <2>7
<1>. QED  BY <1>3, <1>4, <1>5, <1>6 DEF Base

LEMMA NextInv == IInv /\ [Next]_vars => IInv'
<1> SUFFICES ASSUME IInv, [Next]_vars PROVE IInv'
  OBVIOUS
<1>1. ASSUME NEW k \in Key \cup {NoKey}, NEW c \in Channel, NEW w \in Delays, Enqueue(k, c, w)
      PROVE  IInv'
  BY <1>1, EnqueueInv DEF IInv
<1>2. ASSUME NEW d \in Dispatcher, Claim(d) PROVE IInv'
  BY <1>2, ClaimInv DEF IInv
<1>3. ASSUME NEW d \in Dispatcher, Take(d) PROVE IInv'
  BY <1>3, TakeInv DEF IInv
<1>4. ASSUME NEW d \in Dispatcher, Proceed(d) PROVE IInv'
  BY <1>4, ProceedInv DEF IInv
<1>5. CASE Crash
  BY <1>5, CrashInv DEF IInv
<1>6. CASE Purge
  BY <1>6, PurgeInv DEF IInv
<1>7. CASE Tick
  BY <1>7, TickInv DEF IInv
<1>8. CASE UNCHANGED vars
  BY <1>8 DEF vars, IInv, Base, TypeOK, HoldInv, LiveKeyUnique, SentWasTaken, ClaimsExclusive, Holds
<1>. QED  BY <1>1, <1>2, <1>3, <1>4, <1>5, <1>6, <1>7, <1>8 DEF Next

-----------------------------------------------------------------------------

\* The inductive invariant holds in every reachable state.
THEOREM Invariance == Spec => []IInv
BY InitInv, NextInv, PTL DEF Spec

\* Every variable keeps its type.
THEOREM TypeCorrect == Spec => []TypeOK
<1>1. IInv => TypeOK
  BY DEF IInv, Base
<1>. QED  BY <1>1, Invariance, PTL

\* One live row for each target and dedupe key, with any number of calls, slow
\* ones, crashes and lost answers included.
THEOREM KeysUnique == Spec => []LiveKeyUnique
<1>1. IInv => LiveKeyUnique
  BY DEF IInv, Base
<1>. QED  BY <1>1, Invariance, PTL

\* No row is marked sent that its channel did not take.
THEOREM SentTaken == Spec => []SentWasTaken
<1>1. IInv => SentWasTaken
  BY DEF IInv, Base
<1>. QED  BY <1>1, Invariance, PTL

\* When no call outlives the stale window, a claimed row belongs to one call.
THEOREM Exclusive == Spec => []ClaimsExclusive
<1>1. IInv => ClaimsExclusive
  BY DEF IInv, Base
<1>. QED  BY <1>1, Invariance, PTL

-----------------------------------------------------------------------------
(* The table and its dispatchers implement OutboxPromise.                  *)

fate == [i \in Id |-> FateOf(row[i].status)]

keyOf == [i \in Id |-> row[i].key]

\* A settled row is told apart from the others by its fate.
LEMMA FateSettled ==
    ASSUME NEW s \in Status
    PROVE  /\ FateOf(s) = "sent" <=> s = "sent"
           /\ FateOf(s) = "dead" <=> s = "dead"
           /\ FateOf(s) = "purged" <=> s = "purged"
           /\ FateOf(s) = "free" <=> s = "free"
           /\ FateOf(s) = "pending" <=> s \in {"queued", "sending"}
BY DEF FateOf, Status

\* A row that a timely call holds is pending.
LEMMA HeldIsPending ==
    ASSUME IInv, Timely, NEW d \in Dispatcher, NEW i \in Id, Holds(d, i)
    PROVE  row[i].status = "sending" /\ fate[i] = "pending"
<1>1. row[i].status = "sending"
  BY DEF IInv, Base, ClaimsExclusive
<1>. QED  BY <1>1 DEF fate, FateOf

LEMMA AbstractInit == Init => Promise!Init
BY DEF Init, Promise!Init, Free, FateOf

LEMMA EnqueueAccepts ==
    ASSUME IInv, NEW k \in Key \cup {NoKey}, NEW c \in Channel, NEW w \in Delays,
           Enqueue(k, c, w)
    PROVE  Promise!Next
<1>1. PICK i \in Id : IsNext(row, i) /\ row' = Inserted(row, i, k, c, w)
  BY DEF Enqueue
<1>2. /\ row[i].status = "free" /\ row'[i].status = "queued" /\ row'[i].key = k
      /\ \A j \in Id : j # i => row'[j] = row[j]
  BY <1>1 DEF IsNext, Inserted, IInv, Base, TypeOK
<1>3. \A j \in Id : k # NoKey /\ row[j].key = k => fate[j] \notin {"pending", "sent"}
  <2>1. \A j \in Id : k # NoKey /\ row[j].key = k => row[j].status \notin Live
    BY DEF Enqueue
  <2>2. \A j \in Id : row[j].status \notin Live => FateOf(row[j].status) \notin {"pending", "sent"}
    <3>1. \A j \in Id : row[j].status \in Status
      BY DEF IInv, Base, TypeOK, Row
    <3>. QED  BY <3>1 DEF FateOf, Live, Status
  <2>. QED  BY <2>1, <2>2 DEF fate
<1>4. fate[i] = "free" /\ fate' = [fate EXCEPT ![i] = "pending"]
  BY <1>2 DEF fate, FateOf
<1>5. keyOf' = [keyOf EXCEPT ![i] = k] /\ UNCHANGED taken
  BY <1>2 DEF keyOf, Enqueue
<1>6. Promise!Accept(i, k)
  BY <1>3, <1>4, <1>5 DEF Promise!Accept, fate, keyOf
<1>. QED  BY <1>6 DEF Promise!Next

\* A step that moves no row's fate and no row's key is a step of nobody.
LEMMA SameFate ==
    ASSUME UNCHANGED taken,
           \A i \in Id : /\ FateOf(row'[i].status) = FateOf(row[i].status)
                         /\ row'[i].key = row[i].key
    PROVE  UNCHANGED Promise!vars
<1>1. fate' = fate /\ keyOf' = keyOf
  BY DEF fate, keyOf
<1>. QED  BY <1>1 DEF Promise!vars, fate, keyOf

LEMMA ClaimStutters ==
    ASSUME IInv, NEW d \in Dispatcher, Claim(d)
    PROVE  UNCHANGED Promise!vars
<1>1. PICK C \in SUBSET Id : IsClaim(row, Scope[d], C) /\ row' = Claimed(row, C)
  BY DEF Claim
<1>2. \A i \in C : row[i].status \in {"queued", "sending"}
  BY <1>1 DEF IsClaim, Due, IsDue
<1>3. /\ \A i \in C : row'[i].status = "sending" /\ row'[i].key = row[i].key
      /\ \A i \in Id \ C : row'[i] = row[i]
  BY <1>1, ClaimedType DEF IInv, Base, TypeOK
<1>4. \A i \in Id : FateOf(row'[i].status) = FateOf(row[i].status)
  BY <1>2, <1>3 DEF FateOf
<1>5. UNCHANGED taken
  BY DEF Claim
<1>. QED  BY <1>3, <1>4, <1>5, SameFate

\* An UPDATE of a row its call holds confirms it, gives it up or puts it back.
LEMMA WriteAbstract ==
    ASSUME IInv, Timely, NEW d \in Dispatcher, NEW i \in Id, Holds(d, i),
           NEW status \in {"queued", "sent", "dead"}, NEW w \in Int,
           row' = Marked(row, i, status, w), UNCHANGED taken,
           status = "sent" => taken[i] > 0
    PROVE  Promise!Next \/ UNCHANGED Promise!vars
<1>1. row[i].status = "sending" /\ fate[i] = "pending"
  BY HeldIsPending
<1>2. /\ \A j \in Id : j # i => row'[j] = row[j]
      /\ row'[i].key = row[i].key /\ row'[i].status = status
  <2>1. row \in [Id -> Row]
    BY DEF IInv, Base, TypeOK
  <2>. QED  BY <1>1, <2>1, MarkedType
<1>3. keyOf' = keyOf /\ fate' = [fate EXCEPT ![i] = FateOf(status)]
  BY <1>2 DEF keyOf, fate
<1>4. CASE status = "queued"
  BY <1>1, <1>2, <1>4, SameFate DEF FateOf
<1>5. CASE status = "sent"
  <2>1. Promise!Confirm(i)
    BY <1>1, <1>3, <1>5 DEF Promise!Confirm, fate, keyOf, FateOf
  <2>. QED  BY <2>1 DEF Promise!Next
<1>6. CASE status = "dead"
  <2>1. Promise!GiveUp(i)
    BY <1>1, <1>3, <1>6 DEF Promise!GiveUp, fate, keyOf, FateOf
  <2>. QED  BY <2>1 DEF Promise!Next
<1>. QED  BY <1>4, <1>5, <1>6

LEMMA SettleAbstract ==
    ASSUME IInv, Timely, NEW d \in Dispatcher,
           NEW status \in {"queued", "sent", "dead"}, NEW w \in Int,
           pc[d] \in {"sending", "taken", "gone"},
           status = "sent" => pc[d] = "taken", Settle(d, status, w)
    PROVE  Promise!Next \/ UNCHANGED Promise!vars
<1> DEFINE i == cur[d].id
<1>1. i \in Id /\ Holds(d, i)
  BY DEF IInv, Base, TypeOK, Entry, Holds
<1>2. row[i].status = "sending"
  BY <1>1, HeldIsPending
<1>3. ~Refused(row, i, status)
  BY <1>2 DEF Refused
<1>4. row' = Marked(row, i, status, w) /\ UNCHANGED taken
  BY <1>3 DEF Settle
<1>5. status = "sent" => taken[i] > 0
  BY DEF IInv, Base, HoldInv
<1> HIDE DEF i
<1>. QED  BY <1>1, <1>4, <1>5, WriteAbstract

LEMMA TakeAbstract ==
    ASSUME IInv, Timely, NEW d \in Dispatcher, Take(d)
    PROVE  Promise!Next
<1> DEFINE i == cur[d].id
<1>1. i \in Id /\ Holds(d, i)
  BY DEF Take, IInv, Base, TypeOK, Entry, Holds
<1>2. fate[i] = "pending"
  BY <1>1, HeldIsPending
<1>3. taken[i] \in 0..2 /\ taken' = [taken EXCEPT ![i] = Least(taken[i] + 1, 2)]
  BY <1>1 DEF Take, IInv, Base, TypeOK
<1>4. Least(taken[i] + 1, 2) = IF taken[i] < 2 THEN taken[i] + 1 ELSE taken[i]
  BY <1>3 DEF Least
<1>5. UNCHANGED row
  BY DEF Take
<1> HIDE DEF i
<1>6. Promise!Take(i)
  BY <1>2, <1>3, <1>4, <1>5 DEF Promise!Take, fate
<1>. QED  BY <1>1, <1>6 DEF Promise!Next

LEMMA ProceedAbstract ==
    ASSUME IInv, Timely, NEW d \in Dispatcher, Proceed(d)
    PROVE  Promise!Next \/ UNCHANGED Promise!vars
<1>1. CASE DropUnavailable(d)
  <2>1. PICK e \in batch[d] : row' = Marked(row, e.id, "dead", 0)
    BY <1>1 DEF DropUnavailable
  <2>2. e.id \in Id /\ Holds(d, e.id) /\ UNCHANGED taken
    BY <1>1 DEF DropUnavailable, Holds, IInv, Base, TypeOK, Entry
  <2>. QED  BY <2>1, <2>2, WriteAbstract
<1>2. CASE StartSend(d) \/ ReportGone(d)
  <2>1. UNCHANGED row /\ UNCHANGED taken
    BY <1>2 DEF StartSend, ReportGone
  <2>. QED  BY <2>1, SameFate
<1>3. CASE SettleSent(d)
  BY <1>3, SettleAbstract DEF SettleSent
<1>4. CASE Reschedule(d)
  <2>1. pc[d] \in {"sending", "taken"}
    BY <1>4 DEF Reschedule, SendFailed
  <2>2. PICK w \in Waits(d) : Settle(d, "queued", w)
    BY <1>4 DEF Reschedule
  <2>3. w \in Int
    BY <2>1, WaitsType DEF IInv, Base
  <2>. QED  BY <2>1, <2>2, <2>3, SettleAbstract
<1>5. CASE GiveUp(d)
  <2>1. pc[d] \in {"sending", "taken"} /\ Settle(d, "dead", 0)
    BY <1>5 DEF GiveUp, SendFailed
  <2>. QED  BY <2>1, SettleAbstract
<1>6. CASE Refuse(d)
  BY <1>6, SettleAbstract DEF Refuse
<1>7. CASE SettleGone(d)
  BY <1>7, SettleAbstract DEF SettleGone
<1>. QED  BY <1>1, <1>2, <1>3, <1>4, <1>5, <1>6, <1>7 DEF Proceed

LEMMA PurgeForgets ==
    ASSUME IInv, Purge
    PROVE  Promise!Next
<1>1. PICK old \in SUBSET Id :
         /\ old = {i \in Id : row[i].status \in {"sent", "dead"} /\ row[i].age > Retention}
         /\ row' = [i \in Id |-> IF i \in old THEN [row[i] EXCEPT !.status = "purged"]
                                              ELSE row[i]]
  BY DEF Purge
<1>2. /\ \A i \in Id : row'[i].key = row[i].key
      /\ \A i \in old : row[i].status \in {"sent", "dead"} /\ row'[i].status = "purged"
      /\ \A i \in Id \ old : row'[i] = row[i]
  BY <1>1 DEF IInv, Base, TypeOK, Row, Status
<1>3. keyOf' = keyOf
  BY <1>2 DEF keyOf
<1>4. /\ \A i \in old : fate[i] \in {"sent", "dead"}
      /\ fate' = [i \in Id |-> IF i \in old THEN "purged" ELSE fate[i]]
  BY <1>2 DEF fate, FateOf
<1>5. Promise!Forget(old)
  BY <1>3, <1>4 DEF Promise!Forget, fate, keyOf, Purge
<1>. QED  BY <1>5 DEF Promise!Next

LEMMA TickStutters ==
    ASSUME IInv, Tick
    PROVE  UNCHANGED Promise!vars
<1>1. row' = [i \in Id |-> Aged(row[i])] /\ UNCHANGED taken
  BY DEF Tick
<1>2. \A i \in Id : row'[i].status = row[i].status /\ row'[i].key = row[i].key
  BY <1>1, AgedType DEF IInv, Base, TypeOK
<1>. QED  BY <1>1, <1>2, SameFate

LEMMA AbstractStep ==
    ASSUME IInv, Timely, [Next]_vars
    PROVE  [Promise!Next]_(Promise!vars)
<1>1. ASSUME NEW k \in Key \cup {NoKey}, NEW c \in Channel, NEW w \in Delays, Enqueue(k, c, w)
      PROVE  Promise!Next
  BY <1>1, EnqueueAccepts
<1>2. ASSUME NEW d \in Dispatcher, Claim(d) PROVE UNCHANGED Promise!vars
  BY <1>2, ClaimStutters
<1>3. ASSUME NEW d \in Dispatcher, Take(d) PROVE Promise!Next
  BY <1>3, TakeAbstract
<1>4. ASSUME NEW d \in Dispatcher, Proceed(d)
      PROVE  Promise!Next \/ UNCHANGED Promise!vars
  BY <1>4, ProceedAbstract
<1>5. CASE Crash \/ UNCHANGED vars
  BY <1>5, SameFate DEF Crash, vars
<1>6. CASE Purge
  BY <1>6, PurgeForgets
<1>7. CASE Tick
  BY <1>7, TickStutters
<1>. QED  BY <1>1, <1>2, <1>3, <1>4, <1>5, <1>6, <1>7 DEF Next

\* When no call outlives the stale window, the outbox keeps OutboxPromise:
\* every step is one step of the promise or none.
THEOREM Implements == Timely => (Spec => KeepsPromise)
<1>1. Timely /\ IInv /\ [Next]_vars => [Promise!Next]_(Promise!vars)
  BY AbstractStep
<1> SUFFICES ASSUME Timely PROVE Spec => KeepsPromise
  OBVIOUS
<1>2. IInv /\ [Next]_vars => [Promise!Next]_(Promise!vars)
  BY <1>1
<1>. QED  BY <1>2, AbstractInit, Invariance, PTL DEF Spec, KeepsPromise, Promise!Spec

\* In the promise, and so in the table, a settled row stays settled and no
\* channel takes it again.
LEMMA SettledStep ==
    ASSUME IInv, IInv', [Promise!Next]_(Promise!vars)
    PROVE  \A i \in Id :
              /\ row[i].status = "sent" => row'[i].status \in {"sent", "purged"}
              /\ row[i].status = "dead" => row'[i].status \in {"dead", "purged"}
              /\ row[i].status \in {"sent", "dead", "purged"} => taken'[i] = taken[i]
<1> SUFFICES ASSUME NEW i \in Id
             PROVE  /\ row[i].status = "sent" => row'[i].status \in {"sent", "purged"}
                    /\ row[i].status = "dead" => row'[i].status \in {"dead", "purged"}
                    /\ row[i].status \in {"sent", "dead", "purged"} => taken'[i] = taken[i]
  OBVIOUS
<1>1. row[i].status \in Status /\ row'[i].status \in Status
  BY DEF IInv, Base, TypeOK, Row
<1>2. fate[i] = FateOf(row[i].status) /\ fate'[i] = FateOf(row'[i].status)
  BY DEF fate
<1>3. /\ fate[i] = "sent" => fate'[i] \in {"sent", "purged"}
      /\ fate[i] = "dead" => fate'[i] \in {"dead", "purged"}
      /\ fate[i] \in {"sent", "dead", "purged"} => taken'[i] = taken[i]
  <2>1. CASE UNCHANGED Promise!vars
    BY <2>1 DEF Promise!vars, fate
  <2>3. ASSUME NEW j \in Id, Promise!Take(j) PROVE <1>3
    BY <2>3 DEF Promise!Take, fate, IInv, Base, TypeOK
  <2>4. ASSUME NEW j \in Id, Promise!Confirm(j) PROVE <1>3
    BY <2>4 DEF Promise!Confirm, fate
  <2>5. ASSUME NEW j \in Id, Promise!GiveUp(j) PROVE <1>3
    BY <2>5 DEF Promise!GiveUp, fate
  <2>6. ASSUME NEW S \in SUBSET Id, Promise!Forget(S) PROVE <1>3
    BY <2>6 DEF Promise!Forget, fate
  <2>2. ASSUME NEW j \in Id, NEW k \in Key \cup {NoKey}, Promise!Accept(j, k) PROVE <1>3
    BY <2>2 DEF Promise!Accept, fate
  <2>. QED  BY <2>1, <2>2, <2>3, <2>4, <2>5, <2>6 DEF Promise!Next
<1>. QED  BY <1>1, <1>2, <1>3, FateSettled

\* When no call outlives the stale window, sent and dead are final and no
\* settled message reaches its channel again.
THEOREM Final == Timely => (Spec => SettledIsFinal)
<1> SUFFICES ASSUME Timely PROVE Spec => SettledIsFinal
  OBVIOUS
<1> DEFINE Step == \A i \in Id :
              /\ row[i].status = "sent" => row'[i].status \in {"sent", "purged"}
              /\ row[i].status = "dead" => row'[i].status \in {"dead", "purged"}
              /\ row[i].status \in {"sent", "dead", "purged"} => taken'[i] = taken[i]
<1>1. IInv /\ IInv' /\ [Next]_vars => [Step]_vars
  BY AbstractStep, SettledStep
<1>. QED  BY <1>1, Invariance, PTL DEF Spec, SettledIsFinal

-----------------------------------------------------------------------------
(* The calendar.                                                           *)

\* A retry is never due at once: what the channels answer and the backoff are positive.
RetriesLater ==
    /\ 0 \notin RetryHints
    /\ \A n \in 1..Len(Backoff) : Backoff[n] > 0

\* An entry that a call knows the outcome of is its own, and a row that is held or was
\* taken has been inserted.
KnownInv ==
    /\ \A i \in Id : taken[i] > 0 => row[i].status # "free"
    /\ \A d \in Dispatcher, i \in Id : Holds(d, i) => row[i].status # "free"
    /\ \A d \in Dispatcher : outcome[d] # NoOutcome =>
          /\ at[d] # NoSched /\ outcome[d].id \in Id
          /\ row[outcome[d].id].status # "free"
          /\ row[outcome[d].id].key = at[d]
          /\ outcome[d].sent => taken[outcome[d].id] > 0

\* A row that waits was put back by the call of its own schedule, which is about to bury it;
\* a row being sent is in the hands of the call of its own schedule.
RowOwned(i) ==
    /\ row[i].status = "queued" =>
          /\ row[i].wait > 0
          /\ \E d \in Dispatcher : at[d] = row[i].key /\ outcome[d] = [id |-> i, sent |-> FALSE]
    /\ row[i].status = "sending" => \E d \in Dispatcher : Holds(d, i)

\* A call holds its own entry only, and knows no outcome until it is done with it.
CallOwns(d) ==
    /\ \A i \in Id : Holds(d, i) => at[d] # NoSched /\ row[i].key = at[d] /\ outcome[d] = NoOutcome
    /\ outcome[d] # NoOutcome =>
          /\ pc[d] = "idle"
          /\ outcome[d].sent \/ row[outcome[d].id].status \in {"queued", "dead"}

\* Until an answer is lost, a message was taken once, and its row is sent or about to be.
TakenOnce(i) ==
    taken[i] > 0 =>
        /\ taken[i] = 1
        /\ \/ row[i].status = "sent"
           \/ \E d \in Dispatcher : cur[d].id = i /\ pc[d] = "taken"

QuietInv ==
    /\ ClaimsExclusive
    /\ \A i \in Id : RowOwned(i)
    /\ \A d \in Dispatcher : CallOwns(d)
    /\ \A s \in Sched : sched[s] = "queued" => ~Settled(s)
    /\ "loss" \notin faults => \A i \in Id : TakenOnce(i)

PostsInv ==
    /\ Base /\ PostsTypeOK /\ KnownInv /\ PublishedIsOut
    /\ "stop" \notin faults => QuietInv

-----------------------------------------------------------------------------
(* What the steps of the outbox leave alone.                               *)

\* Rows stay and keep their key, taken counts only grow, by the call that holds the row, and
\* a call gets hold of inserted rows only.
Frame ==
    /\ \A i \in Id : row[i].status # "free" => row'[i].status # "free" /\ row'[i].key = row[i].key
    /\ \A i \in Id : taken[i] > 0 => taken'[i] > 0
    /\ \A i \in Id : taken'[i] > 0 => taken[i] > 0 \/ \E d \in Dispatcher : Holds(d, i)
    /\ \A d \in Dispatcher, i \in Id : Holds(d, i)' => Holds(d, i) \/ row'[i].status # "free"

LEMMA Typed ==
    ASSUME Base
    PROVE  /\ row \in [Id -> Row] /\ pc \in [Dispatcher -> PC]
           /\ batch \in [Dispatcher -> SUBSET Entry]
           /\ cur \in [Dispatcher -> Entry \cup {NoEntry}]
           /\ \A d \in Dispatcher : cur[d] = NoEntry <=> pc[d] \in {"idle", "loop"}
           /\ \A d \in Dispatcher : pc[d] = "idle" => batch[d] = {}
           /\ taken \in [Id -> 0..2]
           /\ NoEntry.id \notin Id
BY DEF Base, TypeOK, NoEntry, Id

LEMMA IdleHoldsNone ==
    ASSUME Base, NEW d \in Dispatcher, pc[d] = "idle", NEW i \in Id
    PROVE  ~Holds(d, i)
BY Typed DEF Holds

\* What the write of an outcome does.
LEMMA SettleDoes ==
    ASSUME Base, NEW d \in Dispatcher, NEW status \in {"queued", "sent", "dead"}, NEW w \in Int,
           pc[d] \in {"sending", "taken", "gone"}, Settle(d, status, w),
           NEW i, i = cur[d].id
    PROVE  /\ i \in Id /\ Holds(d, i)
           /\ UNCHANGED <<taken, tries>>
           /\ \A j \in Id : j # i => row'[j] = row[j]
           /\ row'[i].key = row[i].key
           /\ row'[i].status \in {row[i].status, status}
           /\ row[i].status = "sending" => row'[i].status = status /\ row'[i].wait = w
           /\ \A o \in Dispatcher : o # d => pc'[o] = pc[o] /\ cur'[o] = cur[o] /\ batch'[o] = batch[o]
           /\ cur'[d] = NoEntry /\ batch'[d] \subseteq batch[d]
           /\ pc'[d] = IF batch'[d] = {} THEN "idle" ELSE "loop"
           /\ \A o \in Dispatcher, j \in Id : Holds(o, j)' => Holds(o, j) /\ ~(o = d /\ j = i)
           /\ \A o \in Dispatcher, j \in Id : o # d /\ Holds(o, j) => Holds(o, j)'
<1> DEFINE refused == Refused(row, i, status)
           left == IF refused THEN {} ELSE batch[d]
<1>1. /\ row' = IF refused THEN row ELSE Marked(row, i, status, w)
      /\ batch' = [batch EXCEPT ![d] = left]
      /\ cur' = [cur EXCEPT ![d] = NoEntry]
      /\ pc' = [pc EXCEPT ![d] = AfterLoop(left)]
      /\ UNCHANGED <<taken, tries>>
  BY DEF Settle
<1>2. i \in Id /\ Holds(d, i)
  BY Typed DEF Entry, Holds
<1>3. /\ \A o \in Dispatcher : o # d => pc'[o] = pc[o] /\ cur'[o] = cur[o] /\ batch'[o] = batch[o]
      /\ cur'[d] = NoEntry /\ batch'[d] \subseteq batch[d]
      /\ pc'[d] = IF batch'[d] = {} THEN "idle" ELSE "loop"
  BY <1>1, Typed DEF AfterLoop
<1>4. /\ \A j \in Id : j # i => row'[j] = row[j]
      /\ row'[i].key = row[i].key
      /\ row'[i].status \in {row[i].status, status}
      /\ row[i].status = "sending" => row'[i].status = status /\ row'[i].wait = w
  <2>1. CASE refused
    BY <1>1, <1>2, <2>1 DEF Refused
  <2>2. CASE ~refused
    BY <1>1, <1>2, <2>2, Typed DEF Marked, Row
  <2>. QED  BY <2>1, <2>2
<1>5. \A o \in Dispatcher, j \in Id : Holds(o, j)' => Holds(o, j) /\ ~(o = d /\ j = i)
  <2> SUFFICES ASSUME NEW o \in Dispatcher, NEW j \in Id, Holds(o, j)'
               PROVE  Holds(o, j) /\ ~(o = d /\ j = i)
    OBVIOUS
  <2>1. CASE o = d
    BY <1>3, <2>1, Typed DEF Holds, Base, HoldInv
  <2>2. CASE o # d
    BY <1>3, <2>2 DEF Holds
  <2>. QED  BY <2>1, <2>2
<1>6. \A o \in Dispatcher, j \in Id : o # d /\ Holds(o, j) => Holds(o, j)'
  BY <1>3 DEF Holds
<1>. QED  BY <1>1, <1>2, <1>3, <1>4, <1>5, <1>6

\* Every outcome a call may write is the write of one status.
Outcomes(d) == SettleSent(d) \/ Reschedule(d) \/ GiveUp(d) \/ Refuse(d) \/ SettleGone(d)

LEMMA OutcomeSettles ==
    ASSUME Base, NEW d \in Dispatcher, Outcomes(d)
    PROVE  /\ pc[d] \in {"sending", "taken", "gone"}
           /\ \E status \in {"queued", "sent", "dead"}, w \in Int : Settle(d, status, w)
<1>1. pc[d] \in {"sending", "taken", "gone"}
  BY DEF Outcomes, SettleSent, Reschedule, GiveUp, Refuse, SettleGone, SendFailed
<1>2. Reschedule(d) => \E w \in Int : Settle(d, "queued", w)
  BY <1>1, WaitsType DEF Reschedule, Base
<1>. QED  BY <1>1, <1>2 DEF Outcomes, SettleSent, GiveUp, Refuse, SettleGone

LEMMA OutcomeFrame ==
    ASSUME Base, KnownInv, NEW d \in Dispatcher, Outcomes(d)
    PROVE  Frame
<1>1. PICK status \in {"queued", "sent", "dead"}, w \in Int :
        pc[d] \in {"sending", "taken", "gone"} /\ Settle(d, status, w)
  BY OutcomeSettles
<1>2. PICK i : i = cur[d].id
  OBVIOUS
<1>3. /\ \A j \in Id : j # i => row'[j] = row[j]
      /\ row'[i].key = row[i].key /\ row'[i].status \in {row[i].status, status}
      /\ UNCHANGED taken
      /\ \A o \in Dispatcher, j \in Id : Holds(o, j)' => Holds(o, j)
  BY <1>1, <1>2, SettleDoes
<1>. QED  BY <1>3 DEF Frame

LEMMA DropFrame ==
    ASSUME Base, NEW d \in Dispatcher, DropUnavailable(d)
    PROVE  Frame
<1>1. PICK e \in batch[d] :
         /\ row' = Marked(row, e.id, "dead", 0)
         /\ batch' = [batch EXCEPT ![d] = @ \ {e}]
  BY DEF DropUnavailable
<1>2. e.id \in Id /\ UNCHANGED <<cur, taken>>
  BY Typed DEF Entry, DropUnavailable
<1>3. PICK i \in Id : i = e.id
  BY <1>2
<1>4. \A o \in Dispatcher : batch'[o] \subseteq batch[o]
  BY <1>1, Typed
<1>5. /\ \A j \in Id : j # i => row'[j] = row[j]
      /\ row'[i].key = row[i].key
      /\ row'[i].status = IF row[i].status = "purged" THEN "purged" ELSE "dead"
  BY <1>1, <1>3, Typed, MarkedType
<1>. QED  BY <1>2, <1>4, <1>5 DEF Frame, Holds

LEMMA StartFrame ==
    ASSUME Base, NEW d \in Dispatcher, StartSend(d)
    PROVE  Frame /\ (\A o \in Dispatcher, i \in Id : Holds(o, i)' <=> Holds(o, i))
<1>1. PICK e \in batch[d] : cur' = [cur EXCEPT ![d] = e] /\ batch' = [batch EXCEPT ![d] = @ \ {e}]
  BY DEF StartSend
<1>2. pc[d] = "loop" /\ UNCHANGED <<row, taken>>
  BY DEF StartSend
<1>3. /\ cur[d] = NoEntry /\ cur'[d] = e /\ batch'[d] = batch[d] \ {e}
      /\ \A o \in Dispatcher : o # d => cur'[o] = cur[o] /\ batch'[o] = batch[o]
  BY <1>1, <1>2, Typed
<1>4. \A o \in Dispatcher, i \in Id : Holds(o, i)' <=> Holds(o, i)
  <2> SUFFICES ASSUME NEW o \in Dispatcher, NEW i \in Id PROVE Holds(o, i)' <=> Holds(o, i)
    OBVIOUS
  <2>1. CASE o = d
    BY <1>3, <2>1, Typed DEF Holds
  <2>2. CASE o # d
    BY <1>3, <2>2 DEF Holds
  <2>. QED  BY <2>1, <2>2
<1>. QED  BY <1>2, <1>4 DEF Frame

LEMMA GoneFrame ==
    ASSUME Base, NEW d \in Dispatcher, ReportGone(d)
    PROVE  Frame /\ (\A o \in Dispatcher, i \in Id : Holds(o, i)' <=> Holds(o, i))
BY DEF ReportGone, Frame, Holds

LEMMA TakeFrame ==
    ASSUME Base, NEW d \in Dispatcher, Take(d)
    PROVE  /\ Frame /\ (\A o \in Dispatcher, i \in Id : Holds(o, i)' <=> Holds(o, i))
           /\ cur[d].id \in Id /\ Holds(d, cur[d].id)
           /\ taken'[cur[d].id] = Least(taken[cur[d].id] + 1, 2)
           /\ \A i \in Id : i # cur[d].id => taken'[i] = taken[i]
<1>1. /\ pc[d] = "sending" /\ taken' = [taken EXCEPT ![cur[d].id] = Least(@ + 1, 2)]
      /\ UNCHANGED <<row, batch, cur>>
  BY DEF Take
<1>2. cur[d].id \in Id /\ Holds(d, cur[d].id)
  BY <1>1, Typed DEF Entry, Holds
<1>3. PICK i \in Id : i = cur[d].id
  BY <1>2
<1>4. taken'[i] = Least(taken[i] + 1, 2) /\ \A j \in Id : j # i => taken'[j] = taken[j]
  BY <1>1, <1>3, Typed
<1>5. taken[i] \in 0..2 /\ taken'[i] > 0
  BY <1>4, Typed DEF Least
<1>6. \A o \in Dispatcher, j \in Id : Holds(o, j)' <=> Holds(o, j)
  BY <1>1 DEF Holds
<1>7. Frame
  BY <1>1, <1>2, <1>3, <1>4, <1>5, <1>6 DEF Frame
<1>. QED  BY <1>2, <1>3, <1>4, <1>6, <1>7

LEMMA TickFrame ==
    ASSUME Base, Tick
    PROVE  /\ Frame /\ (\A o \in Dispatcher, i \in Id : Holds(o, i)' <=> Holds(o, i))
           /\ \A i \in Id : row'[i].status = row[i].status /\ row'[i].key = row[i].key
<1>1. row' = [i \in Id |-> Aged(row[i])] /\ UNCHANGED <<pc, batch, cur, taken, tries>>
  BY DEF Tick
<1>2. \A i \in Id : row'[i].status = row[i].status /\ row'[i].key = row[i].key
  BY <1>1, AgedType, Typed
<1>3. \A o \in Dispatcher, i \in Id : Holds(o, i)' <=> Holds(o, i)
  BY <1>1 DEF Holds
<1>. QED  BY <1>1, <1>2, <1>3 DEF Frame

LEMMA CrashFrame ==
    ASSUME Base, Crash
    PROVE  Frame
BY Typed DEF Crash, Frame, Holds

\* A claim, on a table into which the same step may have inserted a row.
LEMMA ClaimFrame ==
    ASSUME Base, NEW d \in Dispatcher, pc[d] = "idle", NEW rows \in [Id -> Row],
           \A i \in Id : row[i].status # "free" => rows[i].status # "free" /\ rows[i].key = row[i].key,
           NEW C \in SUBSET Id, IsClaim(rows, Scope[d], C), row' = Claimed(rows, C),
           batch' = [batch EXCEPT ![d] = Entries(rows, C)], UNCHANGED <<cur, taken>>
    PROVE  /\ Frame
           /\ \A o \in Dispatcher, i \in Id : o # d => (Holds(o, i)' <=> Holds(o, i))
           /\ \A i \in Id : Holds(d, i)' <=> i \in C
<1>1. /\ \A i \in Id \ C : row'[i] = rows[i]
      /\ \A i \in C : row'[i].status = "sending" /\ row'[i].key = rows[i].key
  BY ClaimedType
<1>2. /\ batch'[d] = Entries(rows, C) /\ \A o \in Dispatcher : o # d => batch'[o] = batch[o]
      /\ cur'[d] = NoEntry /\ \A o \in Dispatcher : cur'[o] = cur[o]
  BY Typed
<1>3. \A i \in Id : (\E e \in Entries(rows, C) : e.id = i) <=> i \in C
  <2>1. ASSUME NEW i \in C PROVE EntryOf(rows, i) \in Entries(rows, C) /\ EntryOf(rows, i).id = i
    BY DEF Entries, EntryOf
  <2>2. ASSUME NEW e \in Entries(rows, C) PROVE e.id \in C
    BY DEF Entries, EntryOf
  <2>. QED  BY <2>1, <2>2
<1>4. \A i \in Id : Holds(d, i)' <=> i \in C
  BY <1>2, <1>3, Typed DEF Holds
<1>5. \A o \in Dispatcher, i \in Id : o # d => (Holds(o, i)' <=> Holds(o, i))
  BY <1>2 DEF Holds
<1>6. Frame
  <2>1. \A o \in Dispatcher, i \in Id : Holds(o, i)' => Holds(o, i) \/ row'[i].status # "free"
    BY <1>1, <1>4, <1>5
  <2>. QED  BY <1>1, <2>1 DEF Frame
<1>. QED  BY <1>4, <1>5, <1>6

-----------------------------------------------------------------------------
(* Types, and what is known of rows: for any calls, however late.          *)

LEMMA PostsTyped ==
    ASSUME PostsTypeOK, Base
    PROVE  /\ sched \in [Sched -> SchedStatus] /\ todo \in [Dispatcher -> SUBSET Sched]
           /\ at \in [Dispatcher -> Sched \cup {NoSched}]
           /\ outcome \in [Dispatcher -> [id : Id \cup {0}, sent : BOOLEAN]]
           /\ NoKey \notin Sched /\ NoSched \notin Sched /\ Platform \in Channel
           /\ \A d \in Dispatcher : Scope[d] = {Platform}
BY ContentAssumption, OutboxAssumption DEF PostsTypeOK, Sched, NoSched

LEMMA PostsInitInv == PostsInit => PostsInv
<1> SUFFICES ASSUME PostsInit PROVE PostsInv
  OBVIOUS
<1>1. Base /\ ClaimsExclusive
  BY InitInv DEF PostsInit, IInv
<1>2. PostsTypeOK
  BY DEF PostsInit, PostsTypeOK, SchedStatus, NoOutcome
<1>3. \A d \in Dispatcher, i \in Id : ~Holds(d, i)
  BY <1>1, IdleHoldsNone DEF PostsInit, Init
<1>4. KnownInv /\ PublishedIsOut
  BY <1>3 DEF PostsInit, Init, KnownInv, PublishedIsOut
<1>5. QuietInv
  BY <1>1, <1>3 DEF PostsInit, Init, QuietInv, RowOwned, CallOwns, TakenOnce, Free
<1>. QED  BY <1>1, <1>2, <1>4, <1>5 DEF PostsInv

\* A call knows the outcome of an entry it held; what was known stays true.
LEMMA KnownKept ==
    ASSUME KnownInv, Frame, PostsTypeOK,
           \A d \in Dispatcher :
              \/ outcome'[d] = NoOutcome
              \/ outcome'[d] = outcome[d] /\ at'[d] = at[d]
              \/ /\ at'[d] = at[d] /\ at[d] # NoSched
                 /\ outcome'[d].id \in Id /\ Holds(d, outcome'[d].id)
                 /\ row[outcome'[d].id].key = at[d]
                 /\ outcome'[d].sent => taken[outcome'[d].id] > 0
    PROVE  KnownInv'
<1>1. /\ \A i \in Id : row[i].status # "free" => row'[i].status # "free" /\ row'[i].key = row[i].key
      /\ \A i \in Id : taken[i] > 0 => taken'[i] > 0
  BY DEF Frame
<1>2. \A i \in Id : taken'[i] > 0 => row'[i].status # "free"
  BY <1>1 DEF KnownInv, Frame
<1>3. \A d \in Dispatcher, i \in Id : Holds(d, i)' => row'[i].status # "free"
  BY <1>1 DEF KnownInv, Frame
<1>4. ASSUME NEW d \in Dispatcher, outcome'[d] # NoOutcome
      PROVE  /\ at'[d] # NoSched /\ outcome'[d].id \in Id
             /\ row'[outcome'[d].id].status # "free"
             /\ row'[outcome'[d].id].key = at'[d]
             /\ outcome'[d].sent => taken'[outcome'[d].id] > 0
  <2>1. CASE outcome'[d] = outcome[d] /\ at'[d] = at[d]
    BY <1>1, <1>4, <2>1 DEF KnownInv
  <2>2. CASE /\ at'[d] = at[d] /\ at[d] # NoSched
             /\ outcome'[d].id \in Id /\ Holds(d, outcome'[d].id)
             /\ row[outcome'[d].id].key = at[d]
             /\ outcome'[d].sent => taken[outcome'[d].id] > 0
    BY <1>1, <2>2 DEF KnownInv
  <2>. QED  BY <1>4, <2>1, <2>2
<1>. QED  BY <1>2, <1>3, <1>4 DEF KnownInv

\* A post that is out stays out.
LEMMA OutStays ==
    ASSUME KnownInv, Frame, PostsTypeOK, PublishedIsOut, Base,
           \A s \in Sched : sched'[s] = "published" =>
              sched[s] = "published" \/ \E d \in Dispatcher : at[d] = s /\ outcome[d].sent
    PROVE  PublishedIsOut'
<1> SUFFICES ASSUME NEW s \in Sched, sched'[s] = "published" PROVE IsOut(s)'
  BY DEF PublishedIsOut
<1>1. IsOut(s)
  <2>1. CASE sched[s] = "published"
    BY <2>1 DEF PublishedIsOut
  <2>2. CASE \E d \in Dispatcher : at[d] = s /\ outcome[d].sent
    <3>1. PICK d \in Dispatcher : at[d] = s /\ outcome[d].sent
      BY <2>2
    <3>2. outcome[d] # NoOutcome
      BY <3>1 DEF NoOutcome
    <3>3. outcome[d].id \in Id /\ row[outcome[d].id].key = s /\ taken[outcome[d].id] > 0
      BY <3>1, <3>2 DEF KnownInv
    <3>. QED  BY <3>3 DEF IsOut
  <2>. QED  BY <2>1, <2>2
<1>. QED  BY <1>1 DEF IsOut, Frame, KnownInv

\* What publishSchedule starts from: the table with the entry enqueued or found there.
LEMMA EnqueuedOK ==
    ASSUME Base, PostsTypeOK, NEW s \in Sched, NEW rows \in Enqueued(s)
    PROVE  /\ TableOK(rows)
           /\ \A i \in Id : row[i].status # "free" => rows[i] = row[i]
           /\ \A i \in Id : rows[i] # row[i] =>
                 /\ rows[i].status = "queued" /\ rows[i].key = s /\ rows[i].wait = 0
                 /\ rows[i].chan = Platform /\ row[i].status = "free"
<1>1. CASE rows = row
  BY <1>1, TableBase
<1>2. CASE rows # row
  <2>1. /\ ~(\E j \in Id : row[j].key = s /\ row[j].status \in Live)
        /\ rows \in {Inserted(row, i, s, Platform, 0) : i \in {j \in Id : IsNext(row, j)}}
    BY <1>2 DEF Enqueued
  <2>2. PICK i \in Id : IsNext(row, i) /\ rows = Inserted(row, i, s, Platform, 0)
    BY <2>1
  <2>3. /\ TableOK(rows) /\ row[i].status = "free"
        /\ \A j \in Id : j # i => rows[j] = row[j]
    <3>1. s \in Key \cup {NoKey} /\ Platform \in Channel /\ 0 \in Int
      BY PostsTyped, ContentAssumption
    <3>2. \A j \in Id : ~(s # NoKey /\ row[j].key = s /\ row[j].status \in Live)
      BY <2>1
    <3>. QED  BY <2>2, <3>1, <3>2, InsertedOK
  <2>4. rows[i] = [status |-> "queued", key |-> s, chan |-> Platform,
                   attempts |-> 0, wait |-> 0, age |-> 0]
    BY <2>2, Typed DEF Inserted
  <2>. QED  BY <2>3, <2>4
<1>. QED  BY <1>1, <1>2

LEMMA BeginSendBase ==
    ASSUME Base, KnownInv, PostsTypeOK, NEW d \in Dispatcher, NEW s \in Sched, NEW rest \in SUBSET Sched,
           pc[d] = "idle", at[d] = NoSched, BeginSend(d, s, rest)
    PROVE  Base' /\ Frame /\ (ClaimsExclusive => ClaimsExclusive')
<1>1. PICK rows \in Enqueued(s), C \in SUBSET Id :
        /\ IsClaim(rows, Scope[d], C)
        /\ row' = Claimed(rows, C)
        /\ batch' = [batch EXCEPT ![d] = Entries(rows, C)]
        /\ pc' = [pc EXCEPT ![d] = AfterLoop(C)]
  BY DEF BeginSend
<1>2. UNCHANGED <<cur, taken, tries>>
  BY DEF BeginSend
<1>3. /\ TableOK(rows)
      /\ \A i \in Id : row[i].status # "free" => rows[i] = row[i]
  BY EnqueuedOK
<1>4. Base' /\ (ClaimsExclusive => ClaimsExclusive')
  BY <1>1, <1>2, <1>3, ClaimedInv DEF KnownInv
<1>5. Frame
  BY <1>1, <1>2, <1>3, ClaimFrame DEF TableOK
<1>. QED  BY <1>4, <1>5

\* markDead of the publisher's own entry, after its dispatch.
LEMMA ReturnFailedBase ==
    ASSUME Base, KnownInv, PostsTypeOK, NEW d \in Dispatcher, ReturnFailed(d)
    PROVE  Base' /\ Frame
<1>1. UNCHANGED <<pc, batch, cur, taken, tries>>
  BY DEF ReturnFailed
<1>2. CASE outcome[d] = NoOutcome
  <2>1. UNCHANGED row
    BY <1>2 DEF ReturnFailed
  <2>. QED  BY <1>1, <2>1 DEF Base, TypeOK, HoldInv, LiveKeyUnique, SentWasTaken, Frame, Holds
<1>3. CASE outcome[d] # NoOutcome
  <2>1. PICK i \in Id : i = outcome[d].id
    BY <1>3 DEF KnownInv
  <2>2. row' = Marked(row, i, "dead", 0) /\ row[i].status # "free"
    BY <1>3, <2>1 DEF ReturnFailed, KnownInv
  <2>3. /\ row' \in [Id -> Row]
        /\ \A j \in Id : j # i => row'[j] = row[j]
        /\ row'[i].key = row[i].key
        /\ row'[i].status = IF row[i].status = "purged" THEN "purged" ELSE "dead"
    BY <2>2, Typed, MarkedType
  <2>4. Base'
    BY <1>1, <2>2, <2>3 DEF Base, TypeOK, HoldInv, LiveKeyUnique, SentWasTaken, Live
  <2>5. Frame
    BY <1>1, <2>2, <2>3 DEF Frame, Holds
  <2>. QED  BY <2>4, <2>5
<1>. QED  BY <1>2, <1>3

\* The part of the invariant that needs nothing of the calls.
Always == Base /\ PostsTypeOK /\ KnownInv /\ PublishedIsOut

\* A step that changes no row, no hold and no outcome.
LEMMA CalendarAlways ==
    ASSUME Always, Base', Frame, PostsTypeOK', UNCHANGED <<at, outcome>>,
           \A s \in Sched : sched'[s] = "published" => sched[s] = "published"
    PROVE  Always'
BY KnownKept, OutStays DEF Always

LEMMA SameOutbox ==
    ASSUME Base, UNCHANGED vars
    PROVE  Base' /\ Frame /\ (ClaimsExclusive => ClaimsExclusive')
           /\ \A o \in Dispatcher, i \in Id : Holds(o, i)' <=> Holds(o, i)
BY DEF vars, Base, TypeOK, HoldInv, LiveKeyUnique, SentWasTaken, Frame, Holds, ClaimsExclusive

LEMMA PlanAlways ==
    ASSUME Always, NEW s \in Sched, Plan(s) \/ CallOff(s)
    PROVE  Always'
<1>1. UNCHANGED <<vars, todo, at, outcome, faults>>
  BY DEF Plan, CallOff
<1>2. /\ sched' \in [Sched -> SchedStatus]
      /\ \A t \in Sched : sched'[t] = "published" => sched[t] = "published"
  BY PostsTyped DEF Always, Plan, CallOff, SchedStatus
<1>3. PostsTypeOK'
  BY <1>1, <1>2 DEF Always, PostsTypeOK
<1>. QED  BY <1>1, <1>2, <1>3, SameOutbox, CalendarAlways DEF Always

LEMMA BeginAlways ==
    ASSUME Always, NEW d \in Dispatcher, NEW s \in Sched, NEW rest \in SUBSET Sched, Begin(d, s, rest)
    PROVE  Always'
<1>1. at[d] = NoSched /\ pc[d] = "idle"
  BY DEF Begin
<1>2. CASE BeginBlocked(d, s, rest)
  <2>1. UNCHANGED <<vars, at, outcome, faults>>
    BY <1>2 DEF BeginBlocked
  <2>2. /\ sched' \in [Sched -> SchedStatus] /\ todo' \in [Dispatcher -> SUBSET Sched]
        /\ \A t \in Sched : sched'[t] = "published" => sched[t] = "published"
    BY <1>2, PostsTyped DEF Always, BeginBlocked, SchedStatus
  <2>3. PostsTypeOK'
    BY <2>1, <2>2 DEF Always, PostsTypeOK
  <2>. QED  BY <2>1, <2>2, <2>3, SameOutbox, CalendarAlways DEF Always
<1>3. CASE BeginSend(d, s, rest)
  <2>1. Base' /\ Frame
    BY <1>1, <1>3, BeginSendBase DEF Always
  <2>2. /\ sched' \in [Sched -> SchedStatus] /\ todo' \in [Dispatcher -> SUBSET Sched]
        /\ at' \in [Dispatcher -> Sched \cup {NoSched}]
        /\ \A t \in Sched : sched'[t] = "published" => sched[t] = "published"
        /\ UNCHANGED <<outcome, faults>>
        /\ at'[d] = s /\ \A o \in Dispatcher : o # d => at'[o] = at[o]
    BY <1>3, PostsTyped DEF Always, BeginSend, SchedStatus
  <2>3. outcome[d] = NoOutcome
    BY <1>1 DEF Always, PostsTypeOK
  <2>4. PostsTypeOK'
    BY <2>2, <2>3 DEF Always, PostsTypeOK
  <2>5. KnownInv'
    <3>1. \A o \in Dispatcher : \/ outcome'[o] = NoOutcome
                                \/ outcome'[o] = outcome[o] /\ at'[o] = at[o]
      BY <2>2, <2>3
    <3>. QED  BY <2>1, <3>1, KnownKept DEF Always
  <2>6. PublishedIsOut'
    BY <2>1, <2>2, OutStays DEF Always
  <2>. QED  BY <2>1, <2>4, <2>5, <2>6 DEF Always
<1>. QED  BY <1>2, <1>3 DEF Begin

\* A call that lets go of its schedule, as published only when its entry went out.
LEMMA LetGoAlways ==
    ASSUME Always, NEW d \in Dispatcher, Base', Frame, at[d] # NoSched,
           at' = [at EXCEPT ![d] = NoSched], outcome' = [outcome EXCEPT ![d] = NoOutcome],
           sched' \in [Sched -> SchedStatus], todo' \in [Dispatcher -> SUBSET Sched],
           faults' \subseteq {"stop", "loss"},
           \A s \in Sched : sched'[s] = "published" =>
              sched[s] = "published" \/ (s = at[d] /\ outcome[d].sent)
    PROVE  Always'
<1>1. /\ at' \in [Dispatcher -> Sched \cup {NoSched}]
      /\ outcome' \in [Dispatcher -> [id : Id \cup {0}, sent : BOOLEAN]]
      /\ at'[d] = NoSched /\ outcome'[d] = NoOutcome
      /\ \A o \in Dispatcher : o # d => at'[o] = at[o] /\ outcome'[o] = outcome[o]
  BY PostsTyped DEF Always, NoOutcome
<1>2. PostsTypeOK'
  BY <1>1 DEF Always, PostsTypeOK
<1>3. KnownInv'
  <2>1. \A o \in Dispatcher : \/ outcome'[o] = NoOutcome
                              \/ outcome'[o] = outcome[o] /\ at'[o] = at[o]
    BY <1>1
  <2>. QED  BY <2>1, KnownKept DEF Always
<1>4. PublishedIsOut'
  BY OutStays DEF Always
<1>. QED  BY <1>2, <1>3, <1>4 DEF Always

LEMMA ReturnAlways ==
    ASSUME Always, NEW d \in Dispatcher, ReturnSent(d) \/ ReturnFailed(d)
    PROVE  Always'
<1>1. at[d] \in Sched
  BY PostsTyped DEF Always, ReturnSent, ReturnFailed
<1>2. CASE ReturnSent(d)
  <2>1. UNCHANGED <<vars, todo, faults>> /\ sched' = [sched EXCEPT ![at[d]] = "published"]
        /\ outcome[d].sent /\ at[d] # NoSched
    BY <1>2 DEF ReturnSent
  <2>2. /\ sched' \in [Sched -> SchedStatus]
        /\ \A s \in Sched : sched'[s] = "published" =>
              sched[s] = "published" \/ (s = at[d] /\ outcome[d].sent)
    BY <1>1, <2>1, PostsTyped DEF Always, SchedStatus
  <2>3. todo' \in [Dispatcher -> SUBSET Sched] /\ faults' \subseteq {"stop", "loss"}
    BY <2>1 DEF Always, PostsTypeOK
  <2>. QED  BY <1>2, <2>1, <2>2, <2>3, SameOutbox, LetGoAlways DEF Always, ReturnSent
<1>3. CASE ReturnFailed(d)
  <2>1. UNCHANGED <<todo, faults>> /\ sched' = [sched EXCEPT ![at[d]] = "failed"] /\ at[d] # NoSched
    BY <1>3 DEF ReturnFailed
  <2>2. /\ sched' \in [Sched -> SchedStatus]
        /\ \A s \in Sched : sched'[s] = "published" => sched[s] = "published"
    BY <1>1, <2>1, PostsTyped DEF Always, SchedStatus
  <2>3. todo' \in [Dispatcher -> SUBSET Sched] /\ faults' \subseteq {"stop", "loss"}
    BY <2>1 DEF Always, PostsTypeOK
  <2>4. Base' /\ Frame
    BY <1>3, ReturnFailedBase DEF Always
  <2>. QED  BY <1>3, <2>1, <2>2, <2>3, <2>4, LetGoAlways DEF Always, ReturnFailed
<1>. QED  BY <1>2, <1>3

LEMMA DeliverAlways ==
    ASSUME Always, NEW d \in Dispatcher, Deliver(d)
    PROVE  Always' /\ (ClaimsExclusive => ClaimsExclusive')
<1>1. at[d] # NoSched
  BY DEF Deliver
<1>2. CASE (StartSend(d) \/ ReportGone(d) \/ Take(d)) /\ UNCHANGED <<posts, faults>>
  <2>1. Base' /\ Frame /\ (ClaimsExclusive => ClaimsExclusive')
    BY <1>2, StartInv, StartFrame, TakeInv, TakeFrame, ProceedInv, GoneFrame DEF Always, Proceed
  <2>2. PostsTypeOK' /\ UNCHANGED <<at, outcome, sched>>
    BY <1>2 DEF Always, PostsTypeOK, posts
  <2>. QED  BY <2>1, <2>2, CalendarAlways
<1>3. ASSUME Outcomes(d)
      PROVE  /\ Base' /\ Frame /\ (ClaimsExclusive => ClaimsExclusive')
             /\ cur[d].id \in Id /\ Holds(d, cur[d].id)
  <2>1. Base' /\ Frame /\ (ClaimsExclusive => ClaimsExclusive')
    BY <1>3, ProceedInv, OutcomeFrame DEF Always, Proceed, Outcomes
  <2>2. pc[d] \in {"sending", "taken", "gone"}
    BY <1>3, OutcomeSettles DEF Always
  <2>3. cur[d].id \in Id /\ Holds(d, cur[d].id)
    BY <2>2, Typed DEF Always, Entry, Holds
  <2>. QED  BY <2>1, <2>3
<1>4. faults' \subseteq {"stop", "loss"}
  BY DEF Deliver, Noted, Always, PostsTypeOK
<1>5. ASSUME Outcomes(d), NEW sent \in BOOLEAN, Outcome(d, sent), UNCHANGED <<sched, todo, at>>,
             sent => pc[d] = "taken"
      PROVE  Always'
  <2>1. sent => taken[cur[d].id] > 0
    BY <1>5 DEF Always, Base, HoldInv
  <2>2. /\ outcome' \in [Dispatcher -> [id : Id \cup {0}, sent : BOOLEAN]]
        /\ \A o \in Dispatcher : o # d => outcome'[o] = outcome[o]
        /\ \/ outcome'[d] = outcome[d]
           \/ outcome'[d] = [id |-> cur[d].id, sent |-> sent] /\ row[cur[d].id].key = at[d]
    BY <1>3, <1>5, PostsTyped DEF Always, Outcome
  <2>3. PostsTypeOK'
    BY <1>1, <1>4, <1>5, <2>2 DEF Always, PostsTypeOK
  <2>4. KnownInv'
    <3>1. ASSUME NEW o \in Dispatcher
          PROVE  \/ outcome'[o] = NoOutcome
                 \/ outcome'[o] = outcome[o] /\ at'[o] = at[o]
                 \/ /\ at'[o] = at[o] /\ at[o] # NoSched
                    /\ outcome'[o].id \in Id /\ Holds(o, outcome'[o].id)
                    /\ row[outcome'[o].id].key = at[o]
                    /\ outcome'[o].sent => taken[outcome'[o].id] > 0
      BY <1>1, <1>3, <1>5, <2>1, <2>2
    <3>. QED  BY <1>3, <1>5, <3>1, KnownKept DEF Always
  <2>5. PublishedIsOut'
    BY <1>3, <1>5, OutStays DEF Always
  <2>. QED  BY <1>3, <1>5, <2>3, <2>4, <2>5 DEF Always
<1>6. ASSUME Outcomes(d), Abort(d)
      PROVE  Always'
  <2>1. todo' \in [Dispatcher -> SUBSET Sched] /\ sched' \in [Sched -> SchedStatus]
    BY <1>6, PostsTyped DEF Always, Abort
  <2>. QED  BY <1>1, <1>3, <1>4, <1>6, <2>1, LetGoAlways DEF Always, Abort
<1>7. CASE SettleSent(d) /\ ~Thrown(d, "sent") /\ Outcome(d, TRUE) /\ UNCHANGED <<sched, todo, at, faults>>
  BY <1>3, <1>5, <1>7 DEF Outcomes, SettleSent
<1>8. CASE Reschedule(d) /\ ~Thrown(d, "queued") /\ Outcome(d, FALSE) /\ Noted(d) /\ UNCHANGED <<sched, todo, at>>
  BY <1>3, <1>5, <1>8 DEF Outcomes
<1>9. CASE (GiveUp(d) \/ Refuse(d) \/ SettleGone(d)) /\ Outcome(d, FALSE) /\ Noted(d) /\ UNCHANGED <<sched, todo, at>>
  BY <1>3, <1>5, <1>9 DEF Outcomes
<1>10. CASE SettleSent(d) /\ Thrown(d, "sent") /\ Abort(d) /\ UNCHANGED faults
  BY <1>3, <1>6, <1>10 DEF Outcomes
<1>11. CASE Reschedule(d) /\ Thrown(d, "queued") /\ Abort(d) /\ Noted(d)
  BY <1>3, <1>6, <1>11 DEF Outcomes
<1>. QED  BY <1>2, <1>7, <1>8, <1>9, <1>10, <1>11 DEF Deliver

LEMMA TimerAlways ==
    ASSUME Always, NEW d \in Dispatcher, Timer(d)
    PROVE  Always'
<1>1. UNCHANGED posts /\ (Claim(d) \/ Take(d) \/ Proceed(d))
  BY DEF Timer
<1>2. PostsTypeOK'
  BY <1>1 DEF Timer, Noted, Always, PostsTypeOK, posts
<1>3. Base'
  BY <1>1, ClaimInv, TakeInv, ProceedInv DEF Always
<1>4. Frame
  <2>1. CASE Claim(d)
    <3>1. PICK C \in SUBSET Id :
             /\ IsClaim(row, Scope[d], C)
             /\ row' = Claimed(row, C)
             /\ batch' = [batch EXCEPT ![d] = Entries(row, C)]
      BY <2>1 DEF Claim
    <3>. QED  BY <2>1, <3>1, ClaimFrame, Typed DEF Claim, Always
  <2>2. CASE Take(d)
    BY <2>2, TakeFrame DEF Always
  <2>3. CASE Proceed(d)
    BY <2>3, DropFrame, StartFrame, GoneFrame, OutcomeFrame DEF Always, Proceed, Outcomes
  <2>. QED  BY <1>1, <2>1, <2>2, <2>3
<1>. QED  BY <1>1, <1>2, <1>3, <1>4, CalendarAlways DEF posts

LEMMA RestartAlways ==
    ASSUME Always, Restart
    PROVE  Always'
<1>1. Base' /\ Frame
  BY CrashInv, CrashFrame DEF Always, Restart
<1>2. /\ todo' = [d \in Dispatcher |-> {}] /\ at' = [d \in Dispatcher |-> NoSched]
      /\ outcome' = [d \in Dispatcher |-> NoOutcome] /\ faults' = faults \cup {"stop"}
      /\ UNCHANGED sched
  BY DEF Restart
<1>3. PostsTypeOK'
  BY <1>2 DEF Always, PostsTypeOK, NoOutcome
<1>4. KnownInv'
  BY <1>1, <1>2, KnownKept DEF Always
<1>5. PublishedIsOut'
  BY <1>1, <1>2, OutStays DEF Always
<1>. QED  BY <1>1, <1>3, <1>4, <1>5 DEF Always

LEMMA ElapseAlways ==
    ASSUME Always, Elapse
    PROVE  Always'
<1>1. Base' /\ Frame /\ UNCHANGED <<posts, faults>>
  BY TickInv, TickFrame DEF Always, Elapse
<1>2. PostsTypeOK'
  BY <1>1 DEF Always, PostsTypeOK, posts
<1>. QED  BY <1>1, <1>2, CalendarAlways DEF posts

\* Who begins, by the tick or by hand: one schedule, with what is left of the due ones.
LEMMA Begins ==
    ASSUME PostsTypeOK, NEW d \in Dispatcher,
           ReadDue(d) \/ NextDue(d) \/ \E s \in Sched : PostNow(d, s)
    PROVE  \E s \in Sched, rest \in SUBSET Sched : Begin(d, s, rest)
<1>1. CASE ReadDue(d)
  <2>1. PICK last \in Sched : \E s \in {t \in 1..last : sched[t] = "scheduled"} :
           Begin(d, s, {t \in 1..last : sched[t] = "scheduled"} \ {s})
    BY <1>1 DEF ReadDue
  <2>2. 1..last \subseteq Sched
    BY ContentAssumption DEF Sched
  <2>. QED  BY <2>1, <2>2
<1>2. CASE NextDue(d)
  <2>1. todo[d] \subseteq Sched
    BY DEF PostsTypeOK
  <2>. QED  BY <1>2, <2>1 DEF NextDue
<1>3. CASE \E s \in Sched : PostNow(d, s)
  BY <1>3 DEF PostNow
<1>. QED  BY <1>1, <1>2, <1>3

LEMMA AlwaysNext == Always /\ [PostsNext]_allVars => Always'
<1> SUFFICES ASSUME Always, [PostsNext]_allVars PROVE Always'
  OBVIOUS
<1>1. CASE \E s \in Sched : Plan(s) \/ CallOff(s)
  BY <1>1, PlanAlways
<1>2. CASE \E d \in Dispatcher : ReadDue(d) \/ NextDue(d) \/ \E s \in Sched : PostNow(d, s)
  BY <1>2, Begins, BeginAlways DEF Always
<1>3. CASE \E d \in Dispatcher : Deliver(d)
  BY <1>3, DeliverAlways
<1>4. CASE \E d \in Dispatcher : ReturnSent(d) \/ ReturnFailed(d)
  BY <1>4, ReturnAlways
<1>5. CASE \E d \in Dispatcher : Timer(d)
  BY <1>5, TimerAlways
<1>6. CASE Restart
  BY <1>6, RestartAlways
<1>7. CASE Elapse
  BY <1>7, ElapseAlways
<1>8. CASE UNCHANGED allVars
  <2>1. UNCHANGED vars /\ UNCHANGED <<posts, faults>>
    BY <1>8 DEF allVars, vars, posts
  <2>2. PostsTypeOK'
    BY <2>1 DEF Always, PostsTypeOK, posts
  <2>. QED  BY <2>1, <2>2, SameOutbox, CalendarAlways DEF Always, posts
<1>. QED  BY <1>1, <1>2, <1>3, <1>4, <1>5, <1>6, <1>7, <1>8 DEF PostsNext, Publish

-----------------------------------------------------------------------------
(* While the process has not stopped and calls are timely: a row is in the *)
(* hands of the call of its own schedule.                                  *)

\* Where a step of the calls starts from.
Calm == Always /\ QuietInv /\ Timely /\ RetriesLater

LEMMA HeldIsOwn ==
    ASSUME Calm, NEW d \in Dispatcher, NEW i \in Id, Holds(d, i)
    PROVE  /\ row[i].status = "sending" /\ row[i].age < Stale
           /\ \A o \in Dispatcher : Holds(o, i) => o = d
           /\ at[d] \in Sched /\ row[i].key = at[d] /\ outcome[d] = NoOutcome
           /\ \A j \in Id : Holds(d, j) => j = i
<1>1. /\ row[i].status = "sending" /\ row[i].age < Stale
      /\ \A o \in Dispatcher : Holds(o, i) => o = d
  BY DEF Calm, QuietInv, ClaimsExclusive
<1>2. at[d] \in Sched /\ row[i].key = at[d] /\ outcome[d] = NoOutcome
  BY PostsTyped DEF Calm, Always, QuietInv, CallOwns
<1>3. ASSUME NEW j \in Id, Holds(d, j) PROVE j = i
  <2>1. row[j].status = "sending" /\ row[j].key = at[d]
    BY <1>3 DEF Calm, QuietInv, ClaimsExclusive, CallOwns
  <2>. QED  BY <1>1, <1>2, <2>1, PostsTyped DEF Calm, Always, Base, LiveKeyUnique, Live
<1>. QED  BY <1>1, <1>2, <1>3

\* Nothing in the table waits to be claimed.
LEMMA NothingDue ==
    ASSUME Calm, NEW kinds, NEW i \in Id
    PROVE  ~IsDue(row[i], kinds)
<1>1. row[i].status = "queued" => row[i].wait > 0
  BY DEF Calm, QuietInv, RowOwned
<1>2. row[i].status = "sending" => row[i].age < Stale
  BY HeldIsOwn DEF Calm, QuietInv, RowOwned
<1>3. row[i].wait \in Int /\ row[i].age \in Int /\ Stale \in Int
  BY Typed, OutboxAssumption DEF Calm, Always, Row
<1>. QED  BY <1>1, <1>2, <1>3 DEF IsDue

\* A claim picks what is due: the entry the same step inserted, when it inserted one.
LEMMA ClaimIsNew ==
    ASSUME Calm, NEW d \in Dispatcher, NEW s \in Sched, NEW rows \in Enqueued(s),
           NEW C \in SUBSET Id, IsClaim(rows, Scope[d], C)
    PROVE  \A i \in Id : i \in C <=> rows[i] # row[i]
<1> DEFINE due == Due(rows, Scope[d])
<1>1. \A i \in Id : i \in due <=> rows[i] # row[i]
  <2> SUFFICES ASSUME NEW i \in Id PROVE IsDue(rows[i], Scope[d]) <=> rows[i] # row[i]
    BY DEF Due
  <2>1. CASE rows[i] = row[i]
    BY <2>1, NothingDue
  <2>2. CASE rows[i] # row[i]
    BY <2>2, EnqueuedOK, PostsTyped DEF IsDue, Calm, Always
  <2>. QED  BY <2>1, <2>2
<1>2. \A i, j \in due : i = j
  <2>1. ASSUME NEW i \in Id, rows[i] # row[i] PROVE rows[i].key = s /\ rows[i].status \in Live
    BY <2>1, EnqueuedOK DEF Calm, Always, Live
  <2>2. TableOK(rows) /\ s # NoKey
    BY EnqueuedOK, PostsTyped DEF Calm, Always
  <2>3. due \subseteq Id
    BY DEF Due
  <2>. QED  BY <1>1, <2>1, <2>2, <2>3 DEF TableOK
<1>3. C \subseteq due /\ (C = due \/ Cardinality(C) = Limit)
  BY DEF IsClaim
<1>4. C = due
  <2>1. CASE C = {}
    <3>1. Cardinality(C) = 0
      BY <2>1, FS_EmptySet
    <3>. QED  BY <1>3, <3>1, OutboxAssumption
  <2>2. CASE C # {}
    BY <1>2, <1>3, <2>2
  <2>. QED  BY <2>1, <2>2
<1>. QED  BY <1>1, <1>4

LEMMA BeginSendQuiet ==
    ASSUME Calm, NEW d \in Dispatcher, NEW s \in Sched, NEW rest \in SUBSET Sched,
           at[d] = NoSched, pc[d] = "idle", BeginSend(d, s, rest)
    PROVE  QuietInv'
<1>1. PICK rows \in Enqueued(s), C \in SUBSET Id :
        /\ IsClaim(rows, Scope[d], C)
        /\ row' = Claimed(rows, C)
        /\ batch' = [batch EXCEPT ![d] = Entries(rows, C)]
        /\ pc' = [pc EXCEPT ![d] = AfterLoop(C)]
  BY DEF BeginSend
<1>2. /\ UNCHANGED <<cur, taken, tries, outcome, faults>>
      /\ at'[d] = s /\ \A o \in Dispatcher : o # d => at'[o] = at[o] /\ pc'[o] = pc[o]
      /\ sched' = [sched EXCEPT ![s] = "queued"]
      /\ outcome[d] = NoOutcome
  BY <1>1, PostsTyped, Typed DEF BeginSend, Calm, Always, PostsTypeOK
<1>3. /\ TableOK(rows)
      /\ \A i \in Id : row[i].status # "free" => rows[i] = row[i]
      /\ \A i \in Id : rows[i] # row[i] => rows[i].key = s /\ row[i].status = "free"
  BY EnqueuedOK DEF Calm, Always
<1>4. \A i \in Id : i \in C <=> rows[i] # row[i]
  BY <1>1, ClaimIsNew
<1>5. /\ \A i \in Id \ C : row'[i] = row[i]
      /\ \A i \in C : row'[i].status = "sending" /\ row'[i].key = s /\ row[i].status = "free"
  <2>1. rows \in [Id -> Row]
    BY <1>3 DEF TableOK
  <2>. QED  BY <1>1, <1>3, <1>4, <2>1, ClaimedType
<1>6. /\ \A o \in Dispatcher, i \in Id : o # d => (Holds(o, i)' <=> Holds(o, i))
      /\ \A i \in Id : Holds(d, i)' <=> i \in C
  BY <1>1, <1>2, <1>3, ClaimFrame DEF Calm, Always, TableOK
<1>7. \A i \in Id : ~Holds(d, i)
  BY IdleHoldsNone DEF Calm, Always
<1>8. ClaimsExclusive'
  BY BeginSendBase DEF Calm, Always, QuietInv
<1>9. ASSUME NEW i \in Id PROVE RowOwned(i)'
  <2>1. CASE i \in C
    BY <1>5, <1>6, <2>1 DEF RowOwned
  <2>2. CASE i \notin C
    <3>1. RowOwned(i)
      BY DEF Calm, QuietInv
    <3>2. row'[i].status = "queued" =>
             \E o \in Dispatcher : at'[o] = row'[i].key /\ outcome'[o] = [id |-> i, sent |-> FALSE]
      <4>1. outcome[d] # [id |-> i, sent |-> FALSE]
        BY <1>2 DEF NoOutcome, Id
      <4>. QED  BY <1>2, <1>5, <2>2, <3>1, <4>1 DEF RowOwned
    <3>3. row'[i].status = "sending" => \E o \in Dispatcher : Holds(o, i)'
      BY <1>5, <1>6, <1>7, <2>2, <3>1 DEF RowOwned
    <3>. QED  BY <1>5, <2>2, <3>1, <3>2, <3>3 DEF RowOwned
  <2>. QED  BY <2>1, <2>2
<1>10. ASSUME NEW o \in Dispatcher PROVE CallOwns(o)'
  <2>1. CASE o = d
    BY <1>2, <1>5, <1>6, <2>1, PostsTyped DEF CallOwns, Calm, Always
  <2>2. CASE o # d
    <3>1. CallOwns(o)
      BY DEF Calm, QuietInv
    <3>2. \A i \in Id : Holds(o, i)' => at'[o] # NoSched /\ row'[i].key = at'[o] /\ outcome'[o] = NoOutcome
      <4>1. \A i \in Id : Holds(o, i) => i \notin C
        BY <1>5 DEF Calm, Always, KnownInv
      <4>. QED  BY <1>2, <1>5, <1>6, <2>2, <3>1, <4>1 DEF CallOwns
    <3>3. outcome[o] # NoOutcome => outcome[o].id \in Id \ C
      BY <1>5 DEF Calm, Always, KnownInv
    <3>. QED  BY <1>2, <1>5, <2>2, <3>1, <3>2, <3>3 DEF CallOwns
  <2>. QED  BY <2>1, <2>2
<1>11. \A t \in Sched : sched'[t] = "queued" => ~Settled(t)'
  BY <1>2, PostsTyped DEF Calm, Always, QuietInv, Settled
<1>12. ASSUME "loss" \notin faults', NEW i \in Id PROVE TakenOnce(i)'
  <2>1. TakenOnce(i)
    BY <1>2, <1>12 DEF Calm, QuietInv
  <2>2. taken[i] > 0 => i \notin C
    BY <1>5 DEF Calm, Always, KnownInv
  <2>. QED  BY <1>2, <1>5, <2>1, <2>2 DEF TakenOnce
<1>. QED  BY <1>8, <1>9, <1>10, <1>11, <1>12 DEF QuietInv

\* A step that leaves rows, owners and outcomes as they are.
LEMMA UnmovedQuiet ==
    ASSUME Calm, UNCHANGED <<row, at, outcome, faults>>, ClaimsExclusive',
           \A t \in Sched : sched'[t] = "queued" => sched[t] = "queued",
           \A o \in Dispatcher, i \in Id : Holds(o, i)' <=> Holds(o, i),
           \A o \in Dispatcher : outcome[o] # NoOutcome => pc'[o] = pc[o],
           "loss" \notin faults => \A i \in Id : TakenOnce(i)'
    PROVE  QuietInv'
<1>1. \A i \in Id : RowOwned(i)'
  BY DEF Calm, QuietInv, RowOwned
<1>2. \A o \in Dispatcher : CallOwns(o)'
  BY DEF Calm, QuietInv, CallOwns
<1>3. \A t \in Sched : sched'[t] = "queued" => ~Settled(t)'
  BY DEF Calm, QuietInv, Settled
<1>. QED  BY <1>1, <1>2, <1>3 DEF QuietInv

LEMMA CalendarQuiet ==
    ASSUME Calm, UNCHANGED <<vars, at, outcome, faults>>,
           \A t \in Sched : sched'[t] = "queued" => sched[t] = "queued"
    PROVE  QuietInv'
<1>1. UNCHANGED <<row, pc, cur, taken>>
  BY DEF vars
<1>2. ClaimsExclusive' /\ \A o \in Dispatcher, i \in Id : Holds(o, i)' <=> Holds(o, i)
  BY SameOutbox DEF Calm, Always, QuietInv
<1>3. "loss" \notin faults => \A i \in Id : TakenOnce(i)'
  BY <1>1 DEF Calm, QuietInv, TakenOnce
<1>. QED  BY <1>1, <1>2, <1>3, UnmovedQuiet

LEMMA PlanQuiet ==
    ASSUME Calm, NEW s \in Sched, Plan(s) \/ CallOff(s)
    PROVE  QuietInv'
<1>1. \A t \in Sched : sched'[t] = "queued" => sched[t] = "queued"
  BY PostsTyped DEF Calm, Always, Plan, CallOff
<1>. QED  BY <1>1, CalendarQuiet DEF Plan, CallOff

LEMMA BeginQuiet ==
    ASSUME Calm, NEW d \in Dispatcher, NEW s \in Sched, NEW rest \in SUBSET Sched, Begin(d, s, rest)
    PROVE  QuietInv'
<1>1. CASE BeginBlocked(d, s, rest)
  <2>1. \A t \in Sched : sched'[t] = "queued" => sched[t] = "queued"
    BY <1>1, PostsTyped DEF Calm, Always, BeginBlocked
  <2>. QED  BY <1>1, <2>1, CalendarQuiet DEF BeginBlocked
<1>2. CASE BeginSend(d, s, rest)
  BY <1>2, BeginSendQuiet DEF Begin
<1>. QED  BY <1>1, <1>2 DEF Begin

\* Until an answer is lost, the entry a call hands to its channel was not taken before.
LEMMA NotYetTaken ==
    ASSUME Calm, "loss" \notin faults, NEW d \in Dispatcher, NEW i \in Id,
           cur[d].id = i, pc[d] # "taken"
    PROVE  taken[i] = 0
<1>1. Holds(d, i)
  BY DEF Holds
<1>2. row[i].status = "sending" /\ \A o \in Dispatcher : cur[o].id = i => o = d
  BY <1>1, HeldIsOwn DEF Holds
<1>3. TakenOnce(i) /\ taken[i] \in 0..2
  BY Typed DEF Calm, QuietInv, Always
<1>. QED  BY <1>2, <1>3 DEF TakenOnce

\* Starting a send, the channel's taking it, and the wait for onGone.
LEMMA SendQuiet ==
    ASSUME Calm, NEW d \in Dispatcher, StartSend(d) \/ ReportGone(d) \/ Take(d),
           UNCHANGED <<posts, faults>>, ClaimsExclusive'
    PROVE  QuietInv'
<1>1. /\ \A o \in Dispatcher, i \in Id : Holds(o, i)' <=> Holds(o, i)
      /\ UNCHANGED row
  BY StartFrame, GoneFrame, TakeFrame DEF Calm, Always, StartSend, ReportGone, Take
<1>2. \A o \in Dispatcher : o # d => pc'[o] = pc[o] /\ cur'[o] = cur[o]
  BY Typed DEF Calm, Always, StartSend, ReportGone, Take
<1>3. pc[d] \in {"loop", "sending"}
  BY DEF StartSend, ReportGone, Take
<1>4. outcome[d] = NoOutcome
  BY <1>3 DEF Calm, QuietInv, CallOwns
<1>5. ASSUME "loss" \notin faults, NEW i \in Id PROVE TakenOnce(i)'
  <2>1. TakenOnce(i)
    BY <1>5 DEF Calm, QuietInv
  <2>2. ASSUME taken'[i] = taken[i] PROVE TakenOnce(i)'
    BY <1>1, <1>2, <1>3, <2>1, <2>2 DEF TakenOnce
  <2>3. CASE StartSend(d) \/ ReportGone(d)
    BY <2>2, <2>3 DEF StartSend, ReportGone
  <2>4. CASE Take(d) /\ i # cur[d].id
    BY <2>2, <2>4, TakeFrame DEF Calm, Always
  <2>5. CASE Take(d) /\ i = cur[d].id
    <3>1. taken[i] = 0
      BY <1>3, <1>5, <2>5, NotYetTaken
    <3>2. taken'[i] = 1
      BY <2>5, <3>1, TakeFrame DEF Calm, Always, Least
    <3>3. cur'[d].id = i /\ pc'[d] = "taken"
      BY <2>5, Typed DEF Take, Calm, Always
    <3>. QED  BY <3>2, <3>3 DEF TakenOnce
  <2>. QED  BY <2>3, <2>4, <2>5
<1>. QED  BY <1>1, <1>2, <1>4, <1>5, UnmovedQuiet DEF posts

\* The write of an outcome: the entry is no longer held, and its call knows what came of it.
LEMMA SettleQuiet ==
    ASSUME Calm, ClaimsExclusive', NEW d \in Dispatcher, NEW status \in {"queued", "sent", "dead"}, NEW w \in Int,
           pc[d] \in {"sending", "taken", "gone"}, Settle(d, status, w),
           NEW sent, sent = (status = "sent"), Outcome(d, sent), UNCHANGED <<sched, todo, at>>,
           status = "queued" => w > 0,
           "loss" \notin faults' => "loss" \notin faults /\ (pc[d] = "taken" => status = "sent")
    PROVE  QuietInv'
<1>1. PICK i : i = cur[d].id
  OBVIOUS
<1>2. /\ i \in Id /\ Holds(d, i)
      /\ UNCHANGED taken
      /\ \A j \in Id : j # i => row'[j] = row[j]
      /\ row'[i].key = row[i].key
      /\ row[i].status = "sending" => row'[i].status = status /\ row'[i].wait = w
      /\ \A o \in Dispatcher : o # d => pc'[o] = pc[o] /\ cur'[o] = cur[o]
      /\ cur'[d] = NoEntry /\ batch'[d] \subseteq batch[d]
      /\ pc'[d] = IF batch'[d] = {} THEN "idle" ELSE "loop"
      /\ \A o \in Dispatcher, j \in Id : Holds(o, j)' => Holds(o, j) /\ ~(o = d /\ j = i)
      /\ \A o \in Dispatcher, j \in Id : o # d /\ Holds(o, j) => Holds(o, j)'
  BY <1>1, SettleDoes DEF Calm, Always
<1>3. /\ row[i].status = "sending"
      /\ \A o \in Dispatcher : Holds(o, i) => o = d
      /\ at[d] \in Sched /\ row[i].key = at[d] /\ outcome[d] = NoOutcome
      /\ \A j \in Id : Holds(d, j) => j = i
  BY <1>2, HeldIsOwn
<1>4. \A j \in Id : ~Holds(d, j)'
  BY <1>2, <1>3
<1>5. pc'[d] = "idle"
  <2>1. \A e \in batch'[d] : e.id \in Id /\ Holds(d, e.id)'
    BY <1>2, Typed DEF Calm, Always, Entry, Holds
  <2>. QED  BY <1>2, <1>4, <2>1
<1>6. /\ outcome'[d] = [id |-> i, sent |-> sent]
      /\ \A o \in Dispatcher : o # d => outcome'[o] = outcome[o]
  BY <1>1, <1>3, PostsTyped DEF Outcome, Calm, Always
<1>7. ASSUME NEW j \in Id PROVE RowOwned(j)'
  <2>1. CASE j = i
    <3>1. row'[i].status = status /\ row'[i].wait = w /\ row'[i].key = at'[d]
      BY <1>2, <1>3
    <3>2. status = "queued" => outcome'[d] = [id |-> i, sent |-> FALSE] /\ w > 0
      BY <1>6
    <3>3. status # "sending"
      OBVIOUS
    <3>. QED  BY <2>1, <3>1, <3>2, <3>3 DEF RowOwned
  <2>2. CASE j # i
    <3>1. RowOwned(j) /\ row'[j] = row[j]
      BY <1>2, <2>2 DEF Calm, QuietInv
    <3>2. outcome[d] # [id |-> j, sent |-> FALSE]
      BY <1>3 DEF NoOutcome, Id
    <3>3. row[j].status = "queued" =>
             \E o \in Dispatcher : at'[o] = row[j].key /\ outcome'[o] = [id |-> j, sent |-> FALSE]
      BY <1>6, <3>1, <3>2 DEF RowOwned
    <3>4. row[j].status = "sending" => \E o \in Dispatcher : Holds(o, j)'
      BY <1>2, <1>3, <2>2, <3>1 DEF RowOwned
    <3>. QED  BY <3>1, <3>3, <3>4 DEF RowOwned
  <2>. QED  BY <2>1, <2>2
<1>8. ASSUME NEW o \in Dispatcher PROVE CallOwns(o)'
  <2>1. CASE o = d
    <3>1. sent \/ row'[i].status \in {"queued", "dead"}
      BY <1>2, <1>3
    <3>. QED  BY <1>4, <1>5, <1>6, <2>1, <3>1 DEF CallOwns
  <2>2. CASE o # d
    <3>1. CallOwns(o)
      BY DEF Calm, QuietInv
    <3>2. \A j \in Id : Holds(o, j)' => j # i /\ Holds(o, j)
      BY <1>2, <1>3, <2>2
    <3>3. outcome[o] # NoOutcome => outcome[o].id \in Id
      BY DEF Calm, Always, KnownInv
    <3>4. outcome[o] # NoOutcome /\ ~outcome[o].sent => outcome[o].id # i
      BY <1>3, <3>1 DEF CallOwns
    <3>. QED  BY <1>2, <1>6, <2>2, <3>1, <3>2, <3>3, <3>4 DEF CallOwns
  <2>. QED  BY <2>1, <2>2
<1>9. \A t \in Sched : sched'[t] = "queued" => ~Settled(t)'
  BY DEF Calm, QuietInv, Settled
<1>10. ASSUME "loss" \notin faults', NEW j \in Id PROVE TakenOnce(j)'
  <2>1. TakenOnce(j)
    BY <1>10 DEF Calm, QuietInv
  <2>2. CASE j = i
    <3>1. taken[i] > 0 => status = "sent"
      <4>1. pc[d] # "taken" => taken[i] = 0
        BY <1>1, <1>2, <1>10, NotYetTaken
      <4>. QED  BY <1>10, <4>1
    <3>. QED  BY <1>2, <1>3, <2>1, <2>2, <3>1 DEF TakenOnce
  <2>3. CASE j # i
    BY <1>1, <1>2, <2>1, <2>3 DEF TakenOnce
  <2>. QED  BY <2>2, <2>3
<1>. QED  BY <1>7, <1>8, <1>9, <1>10 DEF QuietInv

LEMMA WaitsLater ==
    ASSUME Calm, NEW d \in Dispatcher, pc[d] \in {"sending", "taken", "gone"}, NEW w \in Waits(d)
    PROVE  w \in Int /\ w > 0
<1>1. cur[d].attempts + 1 \in Nat \ {0}
  BY Typed DEF Calm, Always, Entry
<1>2. Len(Backoff) \in Nat \ {0} /\ RetryHints \subseteq Nat
  BY OutboxAssumption
<1>3. Least(cur[d].attempts + 1, Len(Backoff)) \in 1..Len(Backoff)
  BY <1>1, <1>2 DEF Least
<1>4. w \in RetryHints \/ w = Backoff[Least(cur[d].attempts + 1, Len(Backoff))]
  BY DEF Waits
<1>5. w \in Int
  BY WaitsType DEF Calm, Always, Base
<1>. QED  BY <1>2, <1>3, <1>4, <1>5 DEF Calm, RetriesLater

LEMMA DeliverQuiet ==
    ASSUME Calm, NEW d \in Dispatcher, Deliver(d)
    PROVE  QuietInv'
<1>1. ClaimsExclusive'
  BY DeliverAlways DEF Calm, QuietInv
<1>2. ~Thrown(d, "sent") \/ ~Outcomes(d)
  <2>1. ASSUME Outcomes(d) PROVE row[cur[d].id].status = "sending"
    <3>1. pc[d] \in {"sending", "taken", "gone"}
      BY <2>1, OutcomeSettles DEF Calm, Always
    <3>2. cur[d].id \in Id /\ Holds(d, cur[d].id)
      BY <3>1, Typed DEF Calm, Always, Entry, Holds
    <3>. QED  BY <3>2, HeldIsOwn
  <2>. QED  BY <2>1 DEF Thrown, Refused
<1>3. ~Thrown(d, "queued") \/ ~Outcomes(d)
  BY <1>2 DEF Thrown, Refused, Live
<1>4. ASSUME NEW status \in {"queued", "sent", "dead"}, NEW w \in Int, Settle(d, status, w),
             pc[d] \in {"sending", "taken", "gone"}, status = "queued" => w > 0,
             NEW sent, sent = (status = "sent"), Outcome(d, sent), UNCHANGED <<sched, todo, at>>,
             "loss" \notin faults' => "loss" \notin faults /\ (pc[d] = "taken" => status = "sent")
      PROVE  QuietInv'
  BY <1>1, <1>4, SettleQuiet
<1>5. CASE (StartSend(d) \/ ReportGone(d) \/ Take(d)) /\ UNCHANGED <<posts, faults>>
  BY <1>1, <1>5, SendQuiet
<1>6. CASE SettleSent(d) /\ Outcome(d, TRUE) /\ UNCHANGED <<sched, todo, at, faults>>
  <2>1. pc[d] = "taken" /\ Settle(d, "sent", 0)
    BY <1>6 DEF SettleSent
  <2>2. /\ pc[d] \in {"sending", "taken", "gone"} /\ 0 \in Int /\ ("sent" = "queued" => 0 > 0)
        /\ "loss" \notin faults' => "loss" \notin faults /\ (pc[d] = "taken" => "sent" = "sent")
    BY <1>6, <2>1
  <2>3. TRUE = ("sent" = "sent")
    OBVIOUS
  <2>. QED  BY <1>4, <1>6, <2>1, <2>2, <2>3
<1>7. CASE Reschedule(d) /\ Outcome(d, FALSE) /\ Noted(d) /\ UNCHANGED <<sched, todo, at>>
  <2>1. PICK w \in Waits(d) : Settle(d, "queued", w)
    BY <1>7 DEF Reschedule
  <2>2. pc[d] \in {"sending", "taken"}
    BY <1>7 DEF Reschedule, SendFailed
  <2>3. w \in Int /\ w > 0
    BY <2>2, WaitsLater
  <2>4. "loss" \notin faults' => "loss" \notin faults /\ pc[d] # "taken"
    BY <1>7 DEF Noted
  <2>5. FALSE = ("queued" = "sent")
    OBVIOUS
  <2>. QED  BY <1>4, <1>7, <2>1, <2>2, <2>3, <2>4, <2>5
<1>8. CASE (GiveUp(d) \/ Refuse(d) \/ SettleGone(d)) /\ Outcome(d, FALSE) /\ Noted(d) /\ UNCHANGED <<sched, todo, at>>
  <2>1. Settle(d, "dead", 0) /\ pc[d] \in {"sending", "taken", "gone"}
    BY <1>8 DEF GiveUp, Refuse, SettleGone, SendFailed
  <2>2. "loss" \notin faults' => "loss" \notin faults /\ pc[d] # "taken"
    BY <1>8 DEF Noted, GiveUp, Refuse, SettleGone
  <2>3. 0 \in Int /\ ("dead" = "queued" => 0 > 0)
    OBVIOUS
  <2>4. FALSE = ("dead" = "sent")
    OBVIOUS
  <2>. QED  BY <1>4, <1>8, <2>1, <2>2, <2>3, <2>4
<1>9. ~(SettleSent(d) /\ Thrown(d, "sent")) /\ ~(Reschedule(d) /\ Thrown(d, "queued"))
  BY <1>2, <1>3 DEF Outcomes
<1>. QED  BY <1>5, <1>6, <1>7, <1>8, <1>9 DEF Deliver

\* The call lets go of its schedule; an entry that did not go out is buried first.
LEMMA ReturnQuiet ==
    ASSUME Calm, NEW d \in Dispatcher, ReturnSent(d) \/ ReturnFailed(d)
    PROVE  QuietInv'
<1>1. /\ at[d] \in Sched /\ pc[d] = "idle" /\ UNCHANGED <<pc, batch, cur, taken, tries, faults>>
      /\ at' = [at EXCEPT ![d] = NoSched] /\ outcome' = [outcome EXCEPT ![d] = NoOutcome]
  BY PostsTyped DEF Calm, Always, ReturnSent, ReturnFailed, vars
<1>2. /\ at'[d] = NoSched /\ outcome'[d] = NoOutcome
      /\ \A o \in Dispatcher : o # d => at'[o] = at[o] /\ outcome'[o] = outcome[o]
  BY <1>1, PostsTyped DEF Calm, Always
<1>3. \A t \in Sched : sched'[t] = "queued" => sched[t] = "queued" /\ t # at[d]
  BY <1>1, PostsTyped DEF Calm, Always, ReturnSent, ReturnFailed
<1>4. \A o \in Dispatcher, j \in Id : Holds(o, j)' <=> Holds(o, j)
  BY <1>1 DEF Holds
<1>5. \A j \in Id : ~Holds(d, j)
  BY <1>1, IdleHoldsNone DEF Calm, Always
<1>6. \A j \in Id :
        \/ row'[j] = row[j] /\ outcome[d] # [id |-> j, sent |-> FALSE]
        \/ row'[j].status = "dead" /\ row[j].status \in {"queued", "dead"} /\ row'[j].key = row[j].key
  <2>1. CASE ReturnSent(d)
    BY <2>1 DEF ReturnSent, vars
  <2>2. CASE ReturnFailed(d) /\ outcome[d] = NoOutcome
    BY <2>2 DEF ReturnFailed, NoOutcome, Id
  <2>3. CASE ReturnFailed(d) /\ outcome[d] # NoOutcome
    <3>1. PICK i \in Id : i = outcome[d].id
      BY <2>3 DEF Calm, Always, KnownInv
    <3>2. row' = Marked(row, i, "dead", 0) /\ row[i].status \in {"queued", "dead"}
      BY <2>3, <3>1 DEF ReturnFailed, Calm, QuietInv, CallOwns
    <3>3. /\ \A j \in Id : j # i => row'[j] = row[j]
          /\ row'[i].key = row[i].key
          /\ row'[i].status = IF row[i].status = "purged" THEN "purged" ELSE "dead"
      BY <3>2, MarkedType, Typed DEF Calm, Always
    <3>. QED  BY <3>1, <3>2, <3>3
  <2>. QED  BY <2>1, <2>2, <2>3
<1>7. \A j \in Id : row[j].status = "sending" => row'[j] = row[j]
  BY <1>6
<1>8. ClaimsExclusive'
  BY <1>4, <1>7, HeldIsOwn DEF ClaimsExclusive
<1>9. ASSUME NEW j \in Id PROVE RowOwned(j)'
  <2>1. CASE row'[j].status = "dead"
    BY <2>1 DEF RowOwned
  <2>2. CASE row'[j] = row[j] /\ outcome[d] # [id |-> j, sent |-> FALSE]
    <3>1. RowOwned(j)
      BY DEF Calm, QuietInv
    <3>2. row[j].status = "queued" =>
             \E o \in Dispatcher : at'[o] = row[j].key /\ outcome'[o] = [id |-> j, sent |-> FALSE]
      BY <1>2, <2>2, <3>1 DEF RowOwned
    <3>. QED  BY <1>4, <2>2, <3>1, <3>2 DEF RowOwned
  <2>. QED  BY <1>6, <2>1, <2>2
<1>10. ASSUME NEW o \in Dispatcher PROVE CallOwns(o)'
  <2>1. CASE o = d
    BY <1>2, <1>4, <1>5, <2>1 DEF CallOwns
  <2>2. CASE o # d
    <3>1. CallOwns(o)
      BY DEF Calm, QuietInv
    <3>2. \A j \in Id : Holds(o, j) => row'[j] = row[j]
      BY <1>7, HeldIsOwn
    <3>3. outcome[o] # NoOutcome => outcome[o].id \in Id
      BY DEF Calm, Always, KnownInv
    <3>4. outcome[o] # NoOutcome /\ ~outcome[o].sent => row'[outcome[o].id].status \in {"queued", "dead"}
      BY <1>6, <3>1, <3>3 DEF CallOwns
    <3>. QED  BY <1>1, <1>2, <1>4, <2>2, <3>1, <3>2, <3>4 DEF CallOwns
  <2>. QED  BY <2>1, <2>2
<1>11. \A t \in Sched : sched'[t] = "queued" => ~Settled(t)'
  BY <1>2, <1>3 DEF Calm, QuietInv, Settled
<1>12. ASSUME "loss" \notin faults', NEW j \in Id PROVE TakenOnce(j)'
  <2>1. TakenOnce(j)
    BY <1>1, <1>12 DEF Calm, QuietInv
  <2>2. \A o \in Dispatcher : cur[o].id = j => row[j].status = "sending"
    BY HeldIsOwn DEF Holds
  <2>. QED  BY <1>1, <1>6, <2>1, <2>2 DEF TakenOnce
<1>. QED  BY <1>8, <1>9, <1>10, <1>11, <1>12 DEF QuietInv

\* The mail timer finds nothing to do: what is in the table has its publisher.
LEMMA TimerQuiet ==
    ASSUME Calm, NEW d \in Dispatcher, Timer(d)
    PROVE  QuietInv'
<1>1. \A i \in Id : ~Holds(d, i)
  BY PostsTyped, HeldIsOwn DEF Calm, Always, Timer
<1>2. ~Claim(d)
  <2>1. Due(row, Scope[d]) = {}
    BY NothingDue DEF Due
  <2>. QED  BY <2>1 DEF Claim, IsClaim
<1>3. pc[d] \notin {"sending", "taken", "gone"}
  BY <1>1, Typed DEF Calm, Always, Entry, Holds
<1>4. batch[d] = {}
  BY <1>1, Typed DEF Calm, Always, Entry, Holds
<1>5. ~Take(d) /\ ~Proceed(d)
  BY <1>3, <1>4 DEF Take, Proceed, DropUnavailable, StartSend, SettleSent, Reschedule, GiveUp, Refuse,
     ReportGone, SettleGone, SendFailed
<1>. QED  BY <1>2, <1>5 DEF Timer

\* Time passes: no call is between the end of its dispatch and its outcome, so no row waits.
LEMMA ElapseQuiet ==
    ASSUME Calm, Elapse
    PROVE  QuietInv'
<1>1. Tick /\ UNCHANGED <<posts, faults>> /\ UNCHANGED <<pc, batch, cur, taken, tries>>
  BY DEF Elapse, Tick
<1>2. \A o \in Dispatcher : outcome[o] = NoOutcome
  BY DEF Elapse, Calm, Always, KnownInv, QuietInv, CallOwns
<1>3. /\ \A o \in Dispatcher, i \in Id : Holds(o, i)' <=> Holds(o, i)
      /\ \A i \in Id : row'[i].status = row[i].status /\ row'[i].key = row[i].key
  BY <1>1, TickFrame DEF Calm, Always
<1>4. ClaimsExclusive'
  BY <1>1, TickInv DEF Calm, Always, QuietInv
<1>5. \A i \in Id : row[i].status # "queued"
  <2>1. ASSUME NEW i \in Id PROVE NoOutcome # [id |-> i, sent |-> FALSE]
    BY DEF NoOutcome, Id
  <2>. QED  BY <1>2, <2>1 DEF Calm, QuietInv, RowOwned
<1>6. \A i \in Id : RowOwned(i)'
  BY <1>3, <1>5 DEF Calm, QuietInv, RowOwned
<1>7. \A o \in Dispatcher : CallOwns(o)'
  BY <1>1, <1>2, <1>3 DEF Calm, QuietInv, CallOwns, posts
<1>8. \A t \in Sched : sched'[t] = "queued" => ~Settled(t)'
  BY <1>1 DEF Calm, QuietInv, Settled, posts
<1>9. "loss" \notin faults' => \A i \in Id : TakenOnce(i)'
  BY <1>1, <1>3 DEF Calm, QuietInv, TakenOnce
<1>. QED  BY <1>4, <1>6, <1>7, <1>8, <1>9 DEF QuietInv

LEMMA QuietNext ==
    ASSUME Calm, [PostsNext]_allVars, "stop" \notin faults'
    PROVE  QuietInv'
<1>1. CASE \E s \in Sched : Plan(s) \/ CallOff(s)
  BY <1>1, PlanQuiet
<1>2. CASE \E d \in Dispatcher : ReadDue(d) \/ NextDue(d) \/ \E s \in Sched : PostNow(d, s)
  BY <1>2, Begins, BeginQuiet DEF Calm, Always
<1>3. CASE \E d \in Dispatcher : Deliver(d)
  BY <1>3, DeliverQuiet
<1>4. CASE \E d \in Dispatcher : ReturnSent(d) \/ ReturnFailed(d)
  BY <1>4, ReturnQuiet
<1>5. CASE \E d \in Dispatcher : Timer(d)
  BY <1>5, TimerQuiet
<1>6. ~Restart
  BY DEF Restart
<1>7. CASE Elapse
  BY <1>7, ElapseQuiet
<1>8. CASE UNCHANGED allVars
  <2>1. UNCHANGED <<vars, at, outcome, faults>> /\ UNCHANGED sched
    BY <1>8 DEF allVars, vars
  <2>. QED  BY <2>1, CalendarQuiet
<1>. QED  BY <1>1, <1>2, <1>3, <1>4, <1>5, <1>6, <1>7, <1>8 DEF PostsNext, Publish

\* What has gone wrong stays on record.
LEMMA FaultsGrow ==
    ASSUME [PostsNext]_allVars
    PROVE  faults \subseteq faults'
<1>1. CASE UNCHANGED allVars
  BY <1>1 DEF allVars
<1>2. CASE \E d \in Dispatcher : Deliver(d) \/ Timer(d)
  BY <1>2 DEF Deliver, Timer, Noted
<1>3. CASE Restart
  BY <1>3 DEF Restart
<1>4. CASE UNCHANGED faults
  BY <1>4
<1>5. CASE \/ \E s \in Sched : Plan(s) \/ CallOff(s)
           \/ \E d \in Dispatcher :
                 \/ ReadDue(d) \/ NextDue(d) \/ (\E s \in Sched : PostNow(d, s))
                 \/ ReturnSent(d) \/ ReturnFailed(d)
           \/ Elapse
  BY <1>4, <1>5 DEF Plan, CallOff, ReadDue, NextDue, PostNow, Begin, BeginBlocked, BeginSend,
     ReturnSent, ReturnFailed, Elapse
<1>. QED  BY <1>1, <1>2, <1>3, <1>5 DEF PostsNext, Publish

-----------------------------------------------------------------------------
(* The theorems.                                                           *)

\* Every variable of the calendar and of the outbox under it keeps its type.
THEOREM PostsTypeCorrect == PostsSpec => [](TypeOK /\ PostsTypeOK)
<1>1. PostsInit => Always
  BY PostsInitInv DEF PostsInv, Always
<1>2. Always => TypeOK /\ PostsTypeOK
  BY DEF Always, Base
<1>. QED  BY <1>1, <1>2, AlwaysNext, PTL DEF PostsSpec

\* No schedule is called published that its platform did not take: with any number of ticks,
\* admins and mail timers, calls that outlive the stale window, stops and lost answers.
THEOREM OutWasTaken == PostsSpec => []PublishedIsOut
<1>1. PostsInit => Always
  BY PostsInitInv DEF PostsInv, Always
<1>2. Always => PublishedIsOut
  BY DEF Always
<1>. QED  BY <1>1, <1>2, AlwaysNext, PTL DEF PostsSpec

\* The inductive invariant, for timely calls and channels that never ask for a retry at once.
LEMMA PostsInvariance == Timely /\ RetriesLater => (PostsSpec => []PostsInv)
<1> SUFFICES ASSUME Timely, RetriesLater PROVE PostsSpec => []PostsInv
  OBVIOUS
<1>1. PostsInv /\ [PostsNext]_allVars => PostsInv'
  <2> SUFFICES ASSUME PostsInv, [PostsNext]_allVars PROVE PostsInv'
    OBVIOUS
  <2>1. Always'
    BY AlwaysNext DEF PostsInv, Always
  <2>2. ASSUME "stop" \notin faults' PROVE QuietInv'
    BY <2>2, FaultsGrow, QuietNext DEF PostsInv, Calm, Always
  <2>. QED  BY <2>1, <2>2 DEF PostsInv, Always
<1>. QED  BY <1>1, PostsInitInv, PTL DEF PostsSpec

\* Until the process stops, a queued schedule is in the hands of a call that will write its
\* outcome, whatever ticks, admins and the mail timer overlap and whichever answers are lost.
THEOREM Held == Timely /\ RetriesLater => (PostsSpec => []QueuedIsHeld)
<1> SUFFICES ASSUME Timely, RetriesLater PROVE PostsSpec => []QueuedIsHeld
  OBVIOUS
<1>1. PostsInv => QueuedIsHeld
  BY DEF PostsInv, QuietInv, QueuedIsHeld
<1>. QED  BY <1>1, PostsInvariance, PTL

\* Until the process stops, a post that failed or was called off has no row that the outbox
\* would send again.
THEOREM Buried == Timely /\ RetriesLater => (PostsSpec => []NotRetried)
<1> SUFFICES ASSUME Timely, RetriesLater PROVE PostsSpec => []NotRetried
  OBVIOUS
<1>1. PostsInv => NotRetried
  <2> SUFFICES ASSUME PostsInv, "stop" \notin faults, NEW s \in Sched, Settled(s),
                      NEW i \in Id, row[i].key = s
               PROVE  row[i].status \notin {"queued", "sending"}
    BY DEF NotRetried
  <2>1. RowOwned(i) /\ \A d \in Dispatcher : CallOwns(d)
    BY DEF PostsInv, QuietInv
  <2>. QED  BY <2>1 DEF RowOwned, CallOwns, Settled
<1>. QED  BY <1>1, PostsInvariance, PTL

\* Until the process stops or an answer is lost, a schedule reaches its platform once,
\* however often ticks and admins begin it.
THEOREM Once == Timely /\ RetriesLater => (PostsSpec => []OutOnce)
<1> SUFFICES ASSUME Timely, RetriesLater PROVE PostsSpec => []OutOnce
  OBVIOUS
<1>1. PostsInv => OutOnce
  <2> SUFFICES ASSUME PostsInv, faults = {}, NEW i \in Id, NEW j \in Id,
                      row[i].key = row[j].key, row[i].key # NoKey, taken[i] > 0, taken[j] > 0
               PROVE  i = j /\ taken[i] = 1
    BY DEF OutOnce, OncePerKey
  <2>1. \A k \in Id : TakenOnce(k)
    BY DEF PostsInv, QuietInv
  <2>2. \A k \in Id, d \in Dispatcher : cur[d].id = k => row[k].status = "sending"
    BY DEF PostsInv, QuietInv, ClaimsExclusive, Holds
  <2>3. row[i].status \in Live /\ row[j].status \in Live
    BY <2>1, <2>2 DEF TakenOnce, Live
  <2>. QED  BY <2>1, <2>3 DEF PostsInv, Base, LiveKeyUnique, TakenOnce
<1>. QED  BY <1>1, PostsInvariance, PTL

=============================================================================
