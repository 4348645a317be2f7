--------------------------- MODULE MailingsProofs ---------------------------
(***************************************************************************)
(* Theorems about Mailings, for any mails, posts, accounts, rules, prices, *)
(* length of the day and bounds, and with any shells beside the API.       *)
(***************************************************************************)
EXTENDS Mailings, SequenceTheorems, NaturalsInduction, WellFoundedInduction, TLAPS

JobRec == [enabled : BOOLEAN, status : {"never", "ran", "failed", "skipped"}, age : 0..Horizon]

CallRec == [pc : {"idle", "waiting"}, job : Job \cup {"none"},
            how : {"none", "scheduled", "now", "plain", "forced", "dry"},
            day : 0..1, to : SUBSET Account, run : Nat, at : 0..Horizon]

WatchRec == [told : 0..RepeatAfter, minor : Price \cup {0}]

RunRec == [status : RunStatus, told : SUBSET Account]

PastRec == [owed : SUBSET Job, torn : SUBSET Job, calm : BOOLEAN,
            heard : [Account -> 0..RepeatAfter], uncopied : SUBSET (Kind \X (0..1) \X Account),
            unmarked : SUBSET Account]

Runs == [Kind -> [0..1 -> Seq(RunRec)]]

TInv ==
    /\ phase \in 0..(DayLength - 1) /\ up \in BOOLEAN /\ fired \in BOOLEAN
    /\ job \in [Job -> JobRec]
    /\ tick \in [pc : {"idle", "dispatch", "jobs"}, todo : SUBSET DOMAIN JobOrder]
    /\ call \in [Caller -> CallRec]
    /\ running \subseteq Kind
    /\ runs \in Runs
    /\ wants \subseteq Account
    /\ watch \in [Account -> WatchRec]
    /\ price \in [0..1 -> Price]
    /\ deals \in [0..1 -> {"none", "empty", "full"}]
    /\ past \in PastRec

AwaitsMail(c) == call[c].pc = "waiting" /\ call[c].job \in Kind

\* A mail run under way has its row, which is no other call's, and in the API its place in
\* the set, which no other call of the API has.
CallInv ==
    /\ \A c \in Caller : call[c].pc = "waiting" => call[c].job \in Job
    /\ \A c \in Caller : AwaitsMail(c) =>
          /\ call[c].run \in DOMAIN runs[call[c].job][call[c].day]
          /\ runs[call[c].job][call[c].day][call[c].run].status = "running"
          /\ c \in Api => call[c].job \in running
    /\ \A c, e \in Caller :
          /\ AwaitsMail(c) /\ AwaitsMail(e) /\ call[c].job = call[e].job
          /\ \/ call[c].day = call[e].day /\ call[c].run = call[e].run
             \/ {c, e} \subseteq Api
          => c = e

\* The last part of a row's dedupe key.
Medium(via) == IF via = "telegram" THEN "telegram" ELSE "mail"

\* A row says something of a job, and holds the key of what it says and to whom.
RowOK(r) ==
    /\ r = [key |-> <<r.kind, r.day, r.to, Medium(r.via)>>, kind |-> r.kind, day |-> r.day,
            to |-> r.to, via |-> r.via, status |-> r.status]
    /\ r.kind \in Job /\ r.day \in 0..1 /\ r.via \in {"email", "telegram", "post"}
    /\ r.via = "post" <=> r.kind \in Post

\* Row r is the mail, message or post about k of day d that goes to a.
Says(r, k, d, a, via) == r.kind = k /\ r.day = d /\ r.to = a /\ r.via = via

Copied(k, d, a) ==
    (\E q \in queue : Says(q, k, d, a, "telegram")) \/ <<k, d, a>> \in past.uncopied

Copy(r) == Copied(r.kind, r.day, r.to)

\* A row is what its key says; one at most of those alike is not dead; a mail to an account
\* with a chat has its copy beside it, or is known to have been left without.
QueueInv ==
    /\ \A r \in queue : RowOK(r)
    /\ OnePerDay
    /\ \A r \in queue : r.via = "email" /\ r.to \in Linked => Copy(r)

\* What is remembered of an account's last alert is when it heard of its price, unless that
\* one was left unmarked, and, where it was lately, a price under its mark.
WatchInv ==
    \A a \in Account :
        /\ past.heard[a] = watch[a].told \/ a \in past.unmarked
        /\ Rule[a].mode = "below" /\ watch[a].told < RepeatAfter => watch[a].minor \in 1..Rule[a].mark

\* The tick awaits a run of mail k that began today.
TickRuns(k) ==
    /\ call["tick"].pc = "waiting" /\ call["tick"].job = k /\ call["tick"].day = 0
    /\ call["tick"].how = "scheduled"

\* An owed mail is listed, awaited by the tick, or served, but for those cut off; outside its
\* jobs the tick has nothing to run.
DayInv ==
    /\ past.calm =>
          \A k \in (past.owed \cap Kind) \ past.torn : k \in Todo \/ TickRuns(k) \/ Served(k, 0)
    /\ tick.pc # "jobs" => tick.todo = {} /\ call["tick"].pc = "idle"

IInv == TInv /\ CallInv /\ QueueInv /\ SentMeansQueued /\ WatchInv /\ DayInv

-----------------------------------------------------------------------------
(* Constants.                                                              *)

LEMMA Constants ==
    /\ RetryAfter \in Nat /\ CatchUp \in Nat /\ RepeatAfter \in Nat /\ Horizon \in Nat
    /\ 0 < RetryAfter /\ 0 < CatchUp /\ 0 < RepeatAfter /\ 0 < Horizon
    /\ DayLength \in Nat /\ 1 < DayLength /\ CatchUp < DayLength
    /\ \A j \in Job : At[j] \in 0..(DayLength - 1)
    /\ Kind \cap Post = {} /\ Kind \subseteq Job /\ Post \subseteq Job /\ "channel" \notin Account
    /\ Linked \subseteq Account /\ Price \subseteq Nat \ {0}
    /\ Api \subseteq Caller /\ Shell \subseteq Caller /\ "tick" \in Caller /\ "tick" \notin Shell
    /\ \A a \in Account : Rule[a].mark \in Nat
<1>1. {RetryAfter, CatchUp, RepeatAfter} \subseteq Nat \ {0} /\ CatchUp < DayLength
      /\ DayLength \in Nat \ {0}
  BY MailingsAssumption
<1>2. RetryAfter \in Nat \ {0} /\ CatchUp \in Nat \ {0} /\ RepeatAfter \in Nat \ {0}
  BY <1>1
<1>3. Horizon \in Nat /\ 0 < Horizon
  BY <1>2 DEF Horizon
<1>4. \A a \in Account : Rule[a].mark \in Nat
  BY MailingsAssumption
<1>5. Kind \cap Post = {} /\ Kind \subseteq Job /\ Post \subseteq Job
  BY MailingsAssumption DEF Job
<1>6. Api \subseteq Caller /\ Shell \subseteq Caller /\ "tick" \in Caller /\ "tick" \notin Shell
  BY MailingsAssumption DEF Caller, Api
<1>. QED  BY MailingsAssumption, <1>1, <1>2, <1>3, <1>4, <1>5, <1>6

-----------------------------------------------------------------------------
(* The rows of newsletter_run.                                             *)

\* A row is added after the others, which stay.
LEMMA RunAdded ==
    ASSUME runs \in Runs, NEW k \in Kind, NEW row \in RunRec,
           runs' = [runs EXCEPT ![k][0] = Append(@, row)]
    PROVE  /\ runs' \in Runs
           /\ Len(runs[k][0]) + 1 \in Nat /\ Len(runs[k][0]) + 1 \notin DOMAIN runs[k][0]
           /\ Len(runs[k][0]) + 1 \in DOMAIN runs'[k][0]
           /\ runs'[k][0][Len(runs[k][0]) + 1] = row
           /\ \A l \in Kind, e \in 0..1 : \A n \in DOMAIN runs[l][e] :
                 n \in DOMAIN runs'[l][e] /\ runs'[l][e][n] = runs[l][e][n]
           /\ \A l \in Kind, e \in 0..1 : \A n \in DOMAIN runs'[l][e] :
                 n \in DOMAIN runs[l][e] \/ (l = k /\ e = 0 /\ n = Len(runs[k][0]) + 1)
<1>1. \A l \in Kind, e \in 0..1 : runs[l][e] \in Seq(RunRec)
  BY DEF Runs
<1> DEFINE s == Append(runs[k][0], row)
           m == Len(runs[k][0])
<1>2. /\ s \in Seq(RunRec) /\ m \in Nat /\ DOMAIN runs[k][0] = 1..m /\ DOMAIN s = 1..(m + 1)
      /\ s[m + 1] = row /\ \A n \in 1..m : s[n] = runs[k][0][n]
  BY <1>1
<1>3. \A l \in Kind, e \in 0..1 : runs'[l][e] = IF l = k /\ e = 0 THEN s ELSE runs[l][e]
  BY DEF Runs
<1>4. runs' = [runs EXCEPT ![k] = [runs[k] EXCEPT ![0] = s]]
  OBVIOUS
<1> HIDE DEF s, m
<1>5. runs' \in Runs
  BY <1>2, <1>4 DEF Runs
<1>6. \A l \in Kind, e \in 0..1 : \A n \in DOMAIN runs[l][e] :
          n \in DOMAIN runs'[l][e] /\ runs'[l][e][n] = runs[l][e][n]
  BY <1>2, <1>3
<1>7. \A l \in Kind, e \in 0..1 : \A n \in DOMAIN runs'[l][e] :
          n \in DOMAIN runs[l][e] \/ (l = k /\ e = 0 /\ n = m + 1)
  BY <1>2, <1>3
<1>8. m + 1 \in DOMAIN runs'[k][0] /\ runs'[k][0][m + 1] = row /\ m + 1 \notin DOMAIN runs[k][0]
  BY <1>2, <1>3
<1>. QED  BY <1>2, <1>5, <1>6, <1>7, <1>8 DEF m

-----------------------------------------------------------------------------
(* The rows of notify_outbox.                                              *)

\* The key of a mail, and that of its copy, names the row that holds it.
LEMMA KeySays ==
    ASSUME NEW r, RowOK(r), NEW k \in Kind, NEW d, NEW a
    PROVE  /\ r.key = dedupeKeyFor(k, d, a) <=> Says(r, k, d, a, "email")
           /\ r.key = telegramKey(dedupeKeyFor(k, d, a)) <=> Says(r, k, d, a, "telegram")
<1>1. dedupeKeyFor(k, d, a) = <<k, d, a, "mail">>
      /\ telegramKey(dedupeKeyFor(k, d, a)) = <<k, d, a, "telegram">>
  BY DEF dedupeKeyFor, telegramKey
<1>2. r.key = <<r.kind, r.day, r.to, Medium(r.via)>>
  BY DEF RowOK
<1>3. r.kind = k => r.via \in {"email", "telegram"}
  BY Constants DEF RowOK
<1>. QED  BY <1>1, <1>2, <1>3 DEF Says, Medium

LEMMA MailRow ==
    ASSUME NEW k \in Kind, NEW d \in 0..1, NEW a
    PROVE  LET r == Queued(k, d, a, "email", dedupeKeyFor(k, d, a))
               q == Queued(k, d, a, "telegram", telegramKey(dedupeKeyFor(k, d, a)))
           IN  /\ RowOK(r) /\ Says(r, k, d, a, "email") /\ r.status = "queued"
               /\ RowOK(q) /\ Says(q, k, d, a, "telegram") /\ q.status = "queued"
BY Constants DEF Queued, dedupeKeyFor, telegramKey, RowOK, Says, Medium

\* Who has had its turn of the loop has a mail after it, and a chat its copy, unless the turn
\* that mailed it did not get that far.
Reached(k, d, a) ==
    /\ \E r \in queue : Says(r, k, d, a, "email")
    /\ a \in Linked => Copied(k, d, a)

\* The loop ran, for some to its end, and what it left half done is remembered.
LoopRan(k, d, mailed, copied, through) ==
    /\ MailsQueued(k, d, mailed, copied, through)
    /\ past'.heard = Remembered(k, d, mailed, copied, through).heard
    /\ past'.unmarked = Remembered(k, d, mailed, copied, through).unmarked
    /\ past'.uncopied = Remembered(k, d, mailed, copied, through).uncopied

\* Mails known to be without their copy stay so, or get it.
CopiesFollow ==
    \A k \in Kind, d \in 0..1, a \in Linked : <<k, d, a>> \in past.uncopied => Copied(k, d, a)'

\* What p remembers of a loop that got so far.
Remembers(p, k, d, mailed, copied, through) ==
    LET new == NewMails(k, d, mailed)
        alerted == IF k = "price_alerts" THEN new ELSE {}
    IN  /\ p \in PastRec
        /\ p.owed = past.owed /\ p.torn = past.torn /\ p.calm = past.calm
        /\ p.heard = [a \in Account |-> IF a \in alerted THEN 0 ELSE past.heard[a]]
        /\ p.unmarked = (past.unmarked \ alerted) \cup (alerted \ through)
        /\ p.uncopied = (past.uncopied \ {<<k, d, a>> : a \in copied})
                            \cup {<<k, d, a>> : a \in (new \cap Linked) \ copied}

LEMMA RememberedIs ==
    ASSUME past \in PastRec, NEW k \in Kind, NEW d \in 0..1, NEW mailed \in SUBSET Account,
           NEW copied, NEW through
    PROVE  Remembers(Remembered(k, d, mailed, copied, through), k, d, mailed, copied, through)
<1> DEFINE new == NewMails(k, d, mailed)
           alerted == IF k = "price_alerts" THEN new ELSE {}
           h == [a \in Account |-> IF a \in alerted THEN 0 ELSE past.heard[a]]
           m == (past.unmarked \ alerted) \cup (alerted \ through)
           u == (past.uncopied \ {<<k, d, a>> : a \in copied})
                    \cup {<<k, d, a>> : a \in (new \cap Linked) \ copied}
<1>1. Remembered(k, d, mailed, copied, through)
          = [past EXCEPT !.heard = h, !.unmarked = m, !.uncopied = u]
  BY DEF Remembered
<1>2. new \subseteq Account /\ alerted \subseteq Account
  BY DEF NewMails
<1> HIDE DEF new
<1>3. h \in [Account -> 0..RepeatAfter]
  BY <1>2, Constants DEF PastRec
<1>4. m \in SUBSET Account
  BY <1>2 DEF PastRec
<1>5. u \in SUBSET (Kind \X (0..1) \X Account)
  BY <1>2 DEF PastRec
<1> HIDE DEF h, m, u, alerted
<1>6. Remembered(k, d, mailed, copied, through)
          = [owed |-> past.owed, torn |-> past.torn, calm |-> past.calm, heard |-> h,
             uncopied |-> u, unmarked |-> m]
  BY <1>1 DEF PastRec
<1>7. Remembered(k, d, mailed, copied, through) \in PastRec
  BY <1>3, <1>4, <1>5, <1>6 DEF PastRec
<1>. QED  BY <1>6, <1>7 DEF Remembers, h, m, u, alerted, new

LEMMA MailsKeep ==
    ASSUME past \in PastRec, QueueInv, NEW k \in Kind, NEW d \in 0..1,
           NEW mailed \in SUBSET Account, NEW copied, NEW through,
           LoopRan(k, d, mailed, copied, through)
    PROVE  /\ QueueInv' /\ queue \subseteq queue' /\ CopiesFollow
           /\ \A a \in (mailed \ NewMails(k, d, mailed)) \cup copied : Reached(k, d, a)'
           /\ \A r \in queue' \ queue :
                 r.kind = k /\ (r.via = "email" => r.to \in NewMails(k, d, mailed))
<1> DEFINE Mail(a) == Queued(k, d, a, "email", dedupeKeyFor(k, d, a))
           Chat(a) == Queued(k, d, a, "telegram", telegramKey(dedupeKeyFor(k, d, a)))
           new == NewMails(k, d, mailed)
           mails == {Mail(a) : a \in new}
           chats == {Chat(a) : a \in copied \cap Linked}
           copies == {r \in chats : r.key \notin {m.key : m \in mails} /\ ~Held(r.key)}
<1>1. queue' = queue \cup mails \cup copies /\ copied \subseteq new
  BY DEF LoopRan, MailsQueued
<1>2. \A a : /\ RowOK(Mail(a)) /\ Says(Mail(a), k, d, a, "email") /\ Mail(a).status = "queued"
             /\ RowOK(Chat(a)) /\ Says(Chat(a), k, d, a, "telegram") /\ Chat(a).status = "queued"
             /\ Mail(a).key = dedupeKeyFor(k, d, a)
             /\ Chat(a).key = telegramKey(dedupeKeyFor(k, d, a))
  BY MailRow DEF Queued
<1>3. new \subseteq mailed /\ \A a \in mailed : a \in new <=> ~Held(dedupeKeyFor(k, d, a))
  BY DEF NewMails
<1>14. past'.uncopied = (past.uncopied \ {<<k, d, a>> : a \in copied})
                           \cup {<<k, d, a>> : a \in (new \cap Linked) \ copied}
  <2>1. Remembers(Remembered(k, d, mailed, copied, through), k, d, mailed, copied, through)
    BY RememberedIs
  <2>. QED  BY <2>1 DEF LoopRan, Remembers
<1> HIDE DEF Mail, Chat, new
<1>4. \A m \in mails : \A a : Chat(a).key # m.key
  <2>1. \A a, b : <<k, d, a, "telegram">> # <<k, d, b, "mail">>
    OBVIOUS
  <2>2. \A a : telegramKey(dedupeKeyFor(k, d, a)) = <<k, d, a, "telegram">>
    BY DEF dedupeKeyFor, telegramKey
  <2>3. \A a, b : Chat(a).key # Mail(b).key
    BY ZenonT(40), <1>2, <2>1, <2>2 DEF dedupeKeyFor
  <2>. QED  BY <2>3
<1>5. \A r \in copies : \E a \in copied \cap Linked :
          r = Chat(a) /\ ~Held(telegramKey(dedupeKeyFor(k, d, a)))
  BY <1>2
<1>6. \A a \in copied \cap Linked : Held(telegramKey(dedupeKeyFor(k, d, a))) \/ Chat(a) \in copies
  BY <1>2, <1>4
<1> HIDE DEF copies, chats
<1>7. \A a : Held(dedupeKeyFor(k, d, a)) <=>
             \E r \in queue : Says(r, k, d, a, "email") /\ r.status # "dead"
  BY KeySays DEF Held, QueueInv
<1>8. \A a : Held(telegramKey(dedupeKeyFor(k, d, a))) <=>
             \E r \in queue : Says(r, k, d, a, "telegram") /\ r.status # "dead"
  BY KeySays DEF Held, QueueInv
<1>16. \A a \in copied \cap Linked : \E r \in queue' : Says(r, k, d, a, "telegram")
  BY <1>1, <1>2, <1>6, <1>8
<1>15. \A a \in (new \cap Linked) \ copied : <<k, d, a>> \in past'.uncopied
  BY <1>14
<1>17. CopiesFollow
  <2> SUFFICES ASSUME NEW l \in Kind, NEW e \in 0..1, NEW a \in Linked,
                      <<l, e, a>> \in past.uncopied
               PROVE  Copied(l, e, a)'
    BY DEF CopiesFollow
  <2>1. CASE <<l, e, a>> \in past'.uncopied
    BY <2>1 DEF Copied
  <2>2. CASE <<l, e, a>> \notin past'.uncopied
    <3>1. PICK b \in copied : <<l, e, a>> = <<k, d, b>>
      BY <2>2, <1>14
    <3>2. l = k /\ e = d /\ a \in copied \cap Linked
      BY <3>1
    <3>. QED  BY <3>2, <1>16 DEF Copied
  <2>. QED  BY <2>1, <2>2
<1>18. \A l \in Kind, e \in 0..1, a \in Linked : Copied(l, e, a) => Copied(l, e, a)'
  <2> SUFFICES ASSUME NEW l \in Kind, NEW e \in 0..1, NEW a \in Linked, Copied(l, e, a)
               PROVE  Copied(l, e, a)'
    OBVIOUS
  <2>1. CASE \E q \in queue : Says(q, l, e, a, "telegram")
    BY <2>1, <1>1 DEF Copied, Says
  <2>2. CASE <<l, e, a>> \in past.uncopied
    BY <2>2, <1>17 DEF CopiesFollow
  <2>. QED  BY <2>1, <2>2 DEF Copied
<1>19. \A a \in new \cap Linked : Copied(k, d, a)'
  BY <1>16, <1>15 DEF Copied
<1>9. \A a \in (mailed \ new) \cup copied : Reached(k, d, a)'
  <2> SUFFICES ASSUME NEW a \in (mailed \ new) \cup copied
               PROVE  /\ \E r \in queue' : Says(r, k, d, a, "email")
                      /\ a \in Linked => Copied(k, d, a)'
    BY DEF Reached
  <2>1. CASE a \in copied
    <3>1. a \in new /\ Mail(a) \in queue'
      BY <2>1, <1>1
    <3>. QED  BY <3>1, <1>2, <1>19
  <2>2. CASE a \in mailed \ new
    <3>1. PICK r \in queue : Says(r, k, d, a, "email")
      BY <2>2, <1>3, <1>7
    <3>2. a \in Linked => Copied(k, d, a)
      BY <3>1 DEF QueueInv, Copy, Says
    <3>. QED  BY <3>1, <3>2, <1>1, <1>18
  <2>. QED  BY <2>1, <2>2
<1>10. \A r \in queue' : RowOK(r)
  BY <1>1, <1>2, <1>5 DEF QueueInv
<1>11. \A r \in queue' : r.via = "email" /\ r.to \in Linked => Copy(r)'
  <2> SUFFICES ASSUME NEW r \in queue', r.via = "email", r.to \in Linked
               PROVE  Copied(r.kind, r.day, r.to)'
    BY DEF Copy, Copied
  <2>1. CASE r \in queue
    <3>1. r.kind \in Job /\ r.day \in 0..1 /\ (r.via = "post" <=> r.kind \in Post)
      BY <2>1 DEF QueueInv, RowOK
    <3>2. r.kind \in Kind
      BY <3>1 DEF Job
    <3>3. Copied(r.kind, r.day, r.to)
      BY <2>1 DEF QueueInv, Copy
    <3>. QED  BY <3>1, <3>2, <3>3, <1>18
  <2>2. CASE r \in mails
    <3>1. PICK a \in new : r = Mail(a)
      BY <2>2
    <3>2. r.kind = k /\ r.day = d /\ r.to = a
      BY <3>1, <1>2 DEF Says
    <3>. QED  BY <3>1, <3>2, <1>19
  <2>3. CASE r \in copies
    BY <2>3, <1>5, <1>2 DEF Says
  <2>. QED  BY <2>1, <2>2, <2>3, <1>1
<1>12. OnePerDay'
  <2> SUFFICES ASSUME NEW r \in queue', NEW q \in queue', r.status # "dead", q.status # "dead",
                      Says(r, q.kind, q.day, q.to, q.via)
               PROVE  r = q
    BY DEF OnePerDay, Says
  <2>1. \A x \in mails : \A y \in queue : y.status # "dead" => ~Says(y, x.kind, x.day, x.to, x.via)
    BY <1>2, <1>3, <1>7 DEF Says
  <2>2. \A x \in copies : \A y \in queue : y.status # "dead" => ~Says(y, x.kind, x.day, x.to, x.via)
    BY <1>2, <1>5, <1>8 DEF Says
  <2>3. r \in queue /\ q \in queue => r = q
    BY DEF QueueInv, OnePerDay, Says
  <2>4. r \in mails /\ q \in mails => r = q
    BY <1>2 DEF Says
  <2>5. r \in copies /\ q \in copies => r = q
    BY <1>2, <1>5 DEF Says
  <2>6. ~(r \in mails /\ q \in copies) /\ ~(r \in copies /\ q \in mails)
    BY <1>2, <1>5 DEF Says
  <2>7. Says(q, r.kind, r.day, r.to, r.via)
    BY DEF Says
  <2>. QED  BY <2>1, <2>2, <2>3, <2>4, <2>5, <2>6, <2>7, <1>1
<1>13. \A r \in queue' \ queue : r.kind = k /\ (r.via = "email" => r.to \in new)
  BY <1>1, <1>2, <1>5 DEF Says
<1>. QED  BY <1>1, <1>9, <1>10, <1>11, <1>12, <1>13, <1>17 DEF QueueInv, new

\* The day's mails are told apart by what they say when they grow a day old.
LEMMA GrowsOld ==
    ASSUME NEW r, RowOK(r)
    PROVE  /\ RowOK(Yesterdays(r)) /\ Yesterdays(r).status = r.status
           /\ Says(Yesterdays(r), r.kind, 1, r.to, r.via)
<1>1. /\ Yesterdays(r).kind = r.kind /\ Yesterdays(r).day = 1 /\ Yesterdays(r).to = r.to
      /\ Yesterdays(r).via = r.via /\ Yesterdays(r).status = r.status
      /\ Yesterdays(r).key = <<r.kind, 1, r.to, r.key[4]>>
  BY DEF Yesterdays, RowOK
<1> DEFINE q == [r EXCEPT !.day = 1]
<1>2. q = [key |-> q.key, kind |-> r.kind, day |-> 1, to |-> r.to, via |-> r.via,
           status |-> r.status]
  BY DEF RowOK
<1>3. Yesterdays(r) = [q EXCEPT !.key = [r.key EXCEPT ![2] = 1]]
  BY DEF Yesterdays, RowOK
<1>4. Yesterdays(r) = [key |-> Yesterdays(r).key, kind |-> r.kind, day |-> 1, to |-> r.to,
                       via |-> r.via, status |-> r.status]
  BY <1>2, <1>3
<1>5. r.key[4] = Medium(r.via)
  BY DEF RowOK
<1>. QED  BY <1>1, <1>4, <1>5 DEF RowOK, Says

-----------------------------------------------------------------------------
(* What a mail says, and what the rows of the runs say of it.              *)

LEMMA SaidTo ==
    ASSUME NEW k \in Kind, NEW d, NEW to, NEW said \in HasSomething(k, d, to)
    PROVE  /\ said \subseteq to
           /\ k = "price_alerts" => \A a \in said : evaluateWatch(a)
BY DEF HasSomething

\* An alert under a mark has a price under it, and the account heard of none lately.
LEMMA AlertSaid ==
    ASSUME TInv, WatchInv, NEW a \in Account, evaluateWatch(a), Rule[a].mode = "below"
    PROVE  /\ price[0] \in 1..Rule[a].mark
           /\ past.heard[a] = RepeatAfter \/ a \in past.unmarked
<1>1. /\ price[0] <= Rule[a].mark
      /\ ~(watch[a].told < RepeatAfter /\ watch[a].minor \in 1..Rule[a].mark)
  BY DEF evaluateWatch
<1>2. price[0] \in Nat \ {0} /\ watch[a].told \in 0..RepeatAfter
  <2>1. price[0] \in Price /\ watch[a] \in WatchRec
    BY DEF TInv
  <2>. QED  BY <2>1, Constants DEF WatchRec
<1>. QED  BY <1>1, <1>2, Constants DEF WatchInv

LEMMA MailsTold ==
    ASSUME TInv, WatchInv, NEW k \in Kind, NEW d \in 0..1, NEW mailed \in SUBSET Account,
           NEW copied, NEW through, LoopRan(k, d, mailed, copied, through),
           k = "price_alerts" => \A a \in mailed : evaluateWatch(a)
    PROVE  /\ watch' \in [Account -> WatchRec] /\ past'.heard \in [Account -> 0..RepeatAfter]
           /\ past'.unmarked \in SUBSET Account
           /\ past'.uncopied \in SUBSET (Kind \X (0..1) \X Account)
           /\ WatchInv'
<1> DEFINE new == NewMails(k, d, mailed)
           alerted == IF k = "price_alerts" THEN new ELSE {}
<1>1. past \in PastRec
  BY DEF TInv
<1>2. /\ past'.heard = [a \in Account |-> IF a \in alerted THEN 0 ELSE past.heard[a]]
      /\ past'.unmarked = (past.unmarked \ alerted) \cup (alerted \ through)
      /\ past'.heard \in [Account -> 0..RepeatAfter] /\ past'.unmarked \in SUBSET Account
      /\ past'.uncopied \in SUBSET (Kind \X (0..1) \X Account)
  <2>1. Remembers(Remembered(k, d, mailed, copied, through), k, d, mailed, copied, through)
    BY <1>1, RememberedIs
  <2>. QED  BY <2>1 DEF LoopRan, Remembers, PastRec
<1>3. /\ watch' = [a \in Account |->
            IF k = "price_alerts" /\ a \in through THEN [told |-> 0, minor |-> price[0]] ELSE watch[a]]
      /\ through \subseteq new /\ new \subseteq mailed
  BY DEF LoopRan, MailsQueued, markAlerted, NewMails
<1>4. [told |-> 0, minor |-> price[0]] \in WatchRec
  BY Constants DEF WatchRec, TInv
<1> HIDE DEF new
<1>5. watch' \in [Account -> WatchRec]
  BY <1>3, <1>4 DEF TInv
<1>6. ASSUME NEW a \in Account
      PROVE  /\ past'.heard[a] = watch'[a].told \/ a \in past'.unmarked
             /\ Rule[a].mode = "below" /\ watch'[a].told < RepeatAfter
                   => watch'[a].minor \in 1..Rule[a].mark
  <2>1. CASE k = "price_alerts" /\ a \in through
    <3>1. past'.heard[a] = 0 /\ watch'[a] = [told |-> 0, minor |-> price[0]]
      BY <2>1, <1>2, <1>3
    <3>2. evaluateWatch(a)
      BY <2>1, <1>3
    <3>. QED  BY <3>1, <3>2, AlertSaid
  <2>2. CASE k = "price_alerts" /\ a \in new \ through
    <3>1. a \in past'.unmarked /\ watch'[a] = watch[a]
      BY <2>2, <1>2, <1>3
    <3>. QED  BY <3>1 DEF WatchInv
  <2>3. CASE ~(k = "price_alerts" /\ a \in new)
    <3>1. a \notin alerted /\ watch'[a] = watch[a]
      BY <2>3, <1>3
    <3>2. past'.heard[a] = past.heard[a] /\ (a \in past.unmarked => a \in past'.unmarked)
      BY <3>1, <1>2
    <3>. QED  BY <3>1, <3>2 DEF WatchInv
  <2>. QED  BY <2>1, <2>2, <2>3
<1>. QED  BY <1>2, <1>5, <1>6 DEF WatchInv

\* What the rows of the runs say they sent stays in the outbox, and what they newly say is.
LEMMA SentKept ==
    ASSUME SentMeansQueued, CopiesFollow,
           \A k \in Kind, d \in 0..1 : \A i \in DOMAIN runs'[k][d] : \A a \in runs'[k][d][i].told :
               \/ i \in DOMAIN runs[k][d] /\ a \in runs[k][d][i].told
               \/ Reached(k, d, a)',
           \A r \in queue : \E q \in queue' : Says(q, r.kind, r.day, r.to, r.via)
    PROVE  SentMeansQueued'
<1> SUFFICES ASSUME NEW k \in Kind, NEW d \in 0..1, NEW i \in DOMAIN runs'[k][d],
                    NEW a \in runs'[k][d][i].told,
                    NEW via \in {"email"} \cup (IF a \in Linked THEN {"telegram"} ELSE {})
             PROVE  \/ \E r \in queue' : <<r.kind, r.day, r.to, r.via>> = <<k, d, a, via>>
                    \/ via = "telegram" /\ <<k, d, a>> \in past'.uncopied
  BY DEF SentMeansQueued
<1>0. via = "email" \/ (via = "telegram" /\ a \in Linked)
  OBVIOUS
<1>1. CASE i \in DOMAIN runs[k][d] /\ a \in runs[k][d][i].told
  <2>1. \/ \E r \in queue : <<r.kind, r.day, r.to, r.via>> = <<k, d, a, via>>
        \/ via = "telegram" /\ <<k, d, a>> \in past.uncopied
    BY <1>1 DEF SentMeansQueued
  <2>2. CASE \E r \in queue : <<r.kind, r.day, r.to, r.via>> = <<k, d, a, via>>
    <3>1. PICK r \in queue : <<r.kind, r.day, r.to, r.via>> = <<k, d, a, via>>
      BY <2>2
    <3>2. PICK q \in queue' : Says(q, r.kind, r.day, r.to, r.via)
      OBVIOUS
    <3>. QED  BY <3>1, <3>2 DEF Says
  <2>3. CASE via = "telegram" /\ <<k, d, a>> \in past.uncopied
    <3>1. Copied(k, d, a)'
      BY <2>3, <1>0 DEF CopiesFollow
    <3>. QED  BY <3>1, <2>3 DEF Copied, Says
  <2>. QED  BY <2>1, <2>2, <2>3
<1>2. CASE Reached(k, d, a)'
  BY <1>0, <1>2 DEF Reached, Copied, Says
<1>. QED  BY <1>1, <1>2

\* A step that forgets none of the mails without a copy.
LEMMA SameUncopied == past'.uncopied = past.uncopied => CopiesFollow
BY DEF CopiesFollow, Copied

-----------------------------------------------------------------------------
(* The newest row of a day.                                                *)

\* A set of natural numbers with a bound has a greatest one.
LEMMA Greatest ==
    ASSUME NEW n \in Nat, NEW T, T \subseteq 1..n, T # {}
    PROVE  \E x \in T : \A y \in T : y <= x
<1> DEFINE U == {m \in Nat : n - m \in T}
<1>1. \A x \in T : x \in Int /\ n - x \in U /\ n - (n - x) = x
  OBVIOUS
<1>2. U \subseteq Nat /\ U # {}
  BY <1>1
<1>3. PICK u \in U : \A y \in U : ~(<<y, u>> \in OpToRel(<, Nat))
  BY <1>2, NatLessThanWellFounded, WFMin
<1>4. \A y \in U : ~(y < u)
  BY <1>2, <1>3 DEF OpToRel
<1>5. n - u \in T
  OBVIOUS
<1>6. \A y \in T : y <= n - u
  BY <1>1, <1>4
<1>. QED  BY <1>5, <1>6

\* A day that runNewsletter takes for done is served.
LEMMA DoneServed ==
    ASSUME runs \in Runs, NEW k \in Kind, Done(k)
    PROVE  Served(k, 0)
<1> DEFINE real == {i \in DOMAIN runs[k][0] : runs[k][0][i].status # "dry_run"}
           latest == CHOOSE i \in real : \A n \in real : n <= i
<1>1. real # {} /\ runs[k][0][latest].status \in {"sent", "skipped"}
  BY DEF Done, latestRun
<1>2. runs[k][0] \in Seq(RunRec)
  BY DEF Runs
<1>3. Len(runs[k][0]) \in Nat /\ real \subseteq 1..Len(runs[k][0])
  BY <1>2
<1> HIDE DEF real
<1>4. \E i \in real : \A n \in real : n <= i
  BY <1>1, <1>3, Greatest
<1>5. latest \in real
  BY <1>4
<1>. QED  BY <1>1, <1>5 DEF Served, real

\* A served day stays served: a row that is written over was under way.
LEMMA StaysServed ==
    ASSUME NEW k \in Kind, NEW d \in 0..1, Served(k, d),
           \A i \in DOMAIN runs[k][d] : runs[k][d][i].status # "running" =>
               i \in DOMAIN runs'[k][d] /\ runs'[k][d][i] = runs[k][d][i]
    PROVE  Served(k, d)'
BY DEF Served

-----------------------------------------------------------------------------
(* Jobs, calls and what a step leaves alone.                               *)

LEMMA Marked ==
    ASSUME TInv, NEW j \in Job, NEW s \in {"ran", "failed", "skipped"}, NEW age \in 0..Horizon
    PROVE  markJobRun(j, s, age) \in [Job -> JobRec]
<1> DEFINE one == [job[j] EXCEPT !.status = s]
           two == [one EXCEPT !.age = age]
<1>1. job[j] \in JobRec
  BY DEF TInv
<1>2. one \in JobRec
  BY <1>1 DEF JobRec
<1>3. two \in JobRec
  BY <1>2 DEF JobRec
<1>4. markJobRun(j, s, age) = [job EXCEPT ![j] = two]
  BY <1>1 DEF markJobRun, TInv, JobRec
<1> HIDE DEF two
<1>. QED  BY <1>3, <1>4 DEF TInv

LEMMA RecordedMark ==
    ASSUME TInv, NEW c \in Caller, call[c].job \in Job, NEW s \in {"ran", "failed", "skipped"}
    PROVE  Recorded(c, s) \in [Job -> JobRec]
<1>1. call[c].at \in 0..Horizon /\ 0 \in 0..Horizon
  BY Constants DEF TInv, CallRec
<1>. QED  BY <1>1, Marked DEF Recorded, TInv

LEMMA IdleCall == Idle \in CallRec /\ Idle.pc = "idle"
BY Constants DEF Idle, CallRec

\* Calls end: those that go on keep their rows and their places.
LEMMA CallsEnd ==
    ASSUME TInv, CallInv, NEW over \in SUBSET Caller,
           call' = [c \in Caller |-> IF c \in over THEN Idle ELSE call[c]],
           \A c \in Caller \ over : AwaitsMail(c) =>
               /\ call[c].run \in DOMAIN runs'[call[c].job][call[c].day]
               /\ runs'[call[c].job][call[c].day][call[c].run].status = "running"
               /\ c \in Api => call[c].job \in running'
    PROVE  call' \in [Caller -> CallRec] /\ CallInv'
<1>1. call' \in [Caller -> CallRec]
  BY IdleCall DEF TInv
<1>2. \A c \in Caller : call'[c].pc = "waiting" => c \notin over /\ call'[c] = call[c]
  BY IdleCall
<1>3. \A c \in Caller : AwaitsMail(c)' => c \notin over /\ call'[c] = call[c] /\ AwaitsMail(c)
  BY <1>2 DEF AwaitsMail
<1>4. \A c \in Caller : call'[c].pc = "waiting" => call'[c].job \in Job
  BY <1>2 DEF CallInv
<1>5. \A c \in Caller : AwaitsMail(c)' =>
          /\ call'[c].run \in DOMAIN runs'[call'[c].job][call'[c].day]
          /\ runs'[call'[c].job][call'[c].day][call'[c].run].status = "running"
          /\ c \in Api => call'[c].job \in running'
  BY <1>3
<1>6. \A c, e \in Caller :
          /\ AwaitsMail(c)' /\ AwaitsMail(e)' /\ call'[c].job = call'[e].job
          /\ \/ call'[c].day = call'[e].day /\ call'[c].run = call'[e].run
             \/ {c, e} \subseteq Api
          => c = e
  BY <1>3 DEF CallInv
<1>. QED  BY <1>1, <1>4, <1>5, <1>6 DEF CallInv

\* The row of the call in c says how it went; no other row changed.
RowSays(c, status, told) ==
    /\ \A k \in Kind, d \in 0..1 : DOMAIN runs'[k][d] = DOMAIN runs[k][d]
    /\ \A k \in Kind, d \in 0..1 : \A i \in DOMAIN runs[k][d] :
          runs'[k][d][i] =
             IF k = call[c].job /\ d = call[c].day /\ i = call[c].run
             THEN [status |-> status, told |-> told] ELSE runs[k][d][i]

\* A call ends with its row written: no other call's row, nor place, is touched.
LEMMA RunEnds ==
    ASSUME TInv, CallInv, NEW c \in Caller, AwaitsMail(c), NEW status \in RunStatus,
           NEW told \in SUBSET Account, runs' = FinishedRun(c, status, told),
           running' = Released(c), call' = [call EXCEPT ![c] = Idle]
    PROVE  /\ runs' \in Runs /\ running' \subseteq Kind
           /\ call' \in [Caller -> CallRec] /\ CallInv' /\ RowSays(c, status, told)
<1> DEFINE row == [status |-> status, told |-> told]
<1>0. /\ call[c].job \in Kind /\ call[c].day \in 0..1 /\ runs \in Runs /\ call[c].run \in Nat
      /\ call[c].run \in DOMAIN runs[call[c].job][call[c].day]
  BY DEF AwaitsMail, CallInv, TInv, CallRec
<1>1. PICK k0 \in Kind, d0 \in 0..1, i0 \in Nat :
          k0 = call[c].job /\ d0 = call[c].day /\ i0 = call[c].run
  BY <1>0
<1>2. runs' = [runs EXCEPT ![k0][d0][i0] = row] /\ row \in RunRec
      /\ i0 \in DOMAIN runs[k0][d0]
  BY <1>0, <1>1 DEF FinishedRun, RunRec
<1> HIDE DEF row
<1>3. /\ runs' \in Runs
      /\ \A l \in Kind, e \in 0..1 : DOMAIN runs'[l][e] = DOMAIN runs[l][e]
      /\ \A l \in Kind, e \in 0..1 : \A n \in DOMAIN runs[l][e] :
            runs'[l][e][n] = IF l = k0 /\ e = d0 /\ n = i0 THEN row ELSE runs[l][e][n]
  <2> DEFINE s == [runs[k0][d0] EXCEPT ![i0] = row]
  <2>1. \A l \in Kind, e \in 0..1 : runs[l][e] \in Seq(RunRec)
    BY <1>0 DEF Runs
  <2>2. s \in Seq(RunRec) /\ DOMAIN s = DOMAIN runs[k0][d0]
        /\ \A n \in DOMAIN runs[k0][d0] : s[n] = IF n = i0 THEN row ELSE runs[k0][d0][n]
    <3>1. DOMAIN runs[k0][d0] = 1..Len(runs[k0][d0]) /\ Len(runs[k0][d0]) \in Nat
      BY <2>1
    <3>2. s \in Seq(RunRec)
      BY <1>2, <2>1, <3>1, ExceptSeq
    <3>. QED  BY <3>2
  <2>3. runs' = [runs EXCEPT ![k0] = [runs[k0] EXCEPT ![d0] = s]]
    BY <1>2
  <2>4. \A l \in Kind, e \in 0..1 : runs'[l][e] = IF l = k0 /\ e = d0 THEN s ELSE runs[l][e]
    BY <1>0, <2>3 DEF Runs
  <2> HIDE DEF s
  <2>5. runs' \in Runs
    BY <1>0, <2>2, <2>3 DEF Runs
  <2>. QED  BY <2>2, <2>4, <2>5
<1>4. running' \subseteq Kind
  <2>1. running \subseteq Kind
    BY DEF TInv
  <2>2. running' \subseteq running
    BY DEF Released
  <2>. QED  BY <2>1, <2>2
<1>5. call' = [e \in Caller |-> IF e \in {c} THEN Idle ELSE call[e]]
  BY DEF TInv
<1>6. ASSUME NEW e \in Caller \ {c}, AwaitsMail(e)
      PROVE  /\ call[e].run \in DOMAIN runs'[call[e].job][call[e].day]
             /\ runs'[call[e].job][call[e].day][call[e].run].status = "running"
             /\ e \in Api => call[e].job \in running'
  <2>1. call[e].job \in Kind /\ call[e].day \in 0..1
    BY <1>6 DEF AwaitsMail, TInv, CallRec
  <2>2. ~(call[e].job = k0 /\ call[e].day = d0 /\ call[e].run = i0)
    BY <1>1, <1>6 DEF CallInv
  <2>3. e \in Api => call[e].job \in running'
    BY <1>6 DEF CallInv, Released
  <2>. QED  BY <1>3, <1>6, <2>1, <2>2, <2>3 DEF CallInv
<1>7. call' \in [Caller -> CallRec] /\ CallInv'
  BY ZenonT(40), <1>5, <1>6, CallsEnd
<1>. QED  BY <1>1, <1>3, <1>4, <1>7 DEF row, RowSays

\* A call begins: it has a row of its own, and in the API a place nobody had.
LEMMA RunBegins ==
    ASSUME TInv, CallInv, NEW c \in Caller, NEW j \in Job,
           NEW how \in {"scheduled", "now", "plain", "forced", "dry"},
           call[c].pc = "idle", Begins(c, j, how)
    PROVE  /\ runs' \in Runs /\ running' \subseteq Kind
           /\ call' \in [Caller -> CallRec] /\ CallInv'
           /\ call'[c].pc = "waiting" /\ call'[c].job = j /\ call'[c].day = 0 /\ call'[c].how = how
           /\ \A e \in Caller \ {c} : call'[e] = call[e]
           /\ \A k \in Kind, d \in 0..1 : \A i \in DOMAIN runs[k][d] :
                 i \in DOMAIN runs'[k][d] /\ runs'[k][d][i] = runs[k][d][i]
           /\ \A k \in Kind, d \in 0..1 : \A i \in DOMAIN runs'[k][d] :
                 i \in DOMAIN runs[k][d] \/ runs'[k][d][i].told = {}
<1> DEFINE row == [status |-> "running", told |-> {}]
           m == Len(runs[j][0]) + 1
           new == [pc |-> "waiting", job |-> j, how |-> how, day |-> 0,
                   to |-> IF j \in Kind THEN wants ELSE {},
                   run |-> IF j \in Kind THEN m ELSE 0, at |-> 0]
<1>1. row \in RunRec
  BY DEF RunRec, RunStatus
<1>2. j \in Kind => runs' = [runs EXCEPT ![j][0] = Append(@, row)]
  BY DEF Begins
<1>3. j \notin Kind => runs' = runs
  BY DEF Begins
<1>4. call' = [call EXCEPT ![c] = new] /\ (c \in Api => j \notin running)
      /\ running' = IF j \in Kind /\ c \in Api THEN running \cup {j} ELSE running
  BY DEF Begins, Refused
<1> HIDE DEF row
<1>5. /\ runs' \in Runs
      /\ \A k \in Kind, d \in 0..1 : \A i \in DOMAIN runs[k][d] :
            i \in DOMAIN runs'[k][d] /\ runs'[k][d][i] = runs[k][d][i]
      /\ \A k \in Kind, d \in 0..1 : \A i \in DOMAIN runs'[k][d] :
            i \in DOMAIN runs[k][d] \/ runs'[k][d][i] = row
      /\ j \in Kind => m \in Nat /\ m \notin DOMAIN runs[j][0]
                       /\ m \in DOMAIN runs'[j][0] /\ runs'[j][0][m] = row
  <2>1. CASE j \in Kind
    <3>1. runs \in Runs
      BY DEF TInv
    <3>. QED  BY <2>1, <3>1, <1>1, <1>2, RunAdded
  <2>2. CASE j \notin Kind
    BY <2>2, <1>3 DEF TInv
  <2>. QED  BY <2>1, <2>2
<1> HIDE DEF m
<1>6. new \in CallRec
  BY <1>5, Constants DEF CallRec, TInv
<1>7. /\ new.pc = "waiting" /\ new.job = j /\ new.day = 0 /\ new.how = how
      /\ j \in Kind => new.run = m
  OBVIOUS
<1> HIDE DEF new
<1>8. call' \in [Caller -> CallRec] /\ call'[c] = new /\ \A e \in Caller \ {c} : call'[e] = call[e]
  BY <1>4, <1>6 DEF TInv
<1>9. ASSUME NEW e \in Caller, AwaitsMail(e)'
      PROVE  \/ e = c /\ j \in Kind
             \/ e # c /\ AwaitsMail(e) /\ call[e].job \in Kind /\ call[e].day \in 0..1
  BY <1>7, <1>8, <1>9 DEF AwaitsMail, TInv, CallRec
<1>10. \A e \in Caller : call'[e].pc = "waiting" => call'[e].job \in Job
  BY <1>7, <1>8 DEF CallInv
<1>11. ASSUME NEW e \in Caller, AwaitsMail(e)'
       PROVE  /\ call'[e].run \in DOMAIN runs'[call'[e].job][call'[e].day]
              /\ runs'[call'[e].job][call'[e].day][call'[e].run].status = "running"
              /\ e \in Api => call'[e].job \in running'
  <2>1. CASE e = c /\ j \in Kind
    BY <2>1, <1>4, <1>5, <1>7, <1>8 DEF row
  <2>2. CASE e # c /\ AwaitsMail(e) /\ call[e].job \in Kind /\ call[e].day \in 0..1
    BY <2>2, <1>4, <1>5, <1>8 DEF CallInv
  <2>. QED  BY <1>9, <1>11, <2>1, <2>2
<1>12. ASSUME NEW e \in Caller, e # c, AwaitsMail(e)', AwaitsMail(c)', call'[e].job = j
       PROVE  ~(call'[e].day = 0 /\ call'[e].run = m) /\ ~({c, e} \subseteq Api)
  <2>1. AwaitsMail(e) /\ call[e].job = j /\ j \in Kind /\ call'[e] = call[e]
    BY <1>8, <1>9, <1>12
  <2>. QED  BY <2>1, <1>4, <1>5 DEF CallInv
<1>13. ASSUME NEW e \in Caller, NEW f \in Caller, AwaitsMail(e)', AwaitsMail(f)',
              call'[e].job = call'[f].job,
              \/ call'[e].day = call'[f].day /\ call'[e].run = call'[f].run
              \/ {e, f} \subseteq Api
       PROVE  e = f
  <2>1. CASE e # c /\ f # c
    BY <2>1, <1>8, <1>9, <1>13 DEF CallInv
  <2>2. CASE e = c /\ f # c
    BY <2>2, <1>7, <1>8, <1>9, <1>12, <1>13
  <2>3. CASE e # c /\ f = c
    BY <2>3, <1>7, <1>8, <1>9, <1>12, <1>13
  <2>. QED  BY <2>1, <2>2, <2>3
<1>14. CallInv'
  BY <1>10, <1>11, <1>13 DEF CallInv
<1>15. running' \subseteq Kind
  BY <1>4 DEF TInv
<1>. QED  BY <1>5, <1>7, <1>8, <1>14, <1>15 DEF row

\* What a step that leaves the calls, the rows and the alerts alone keeps.
LEMMA Undisturbed ==
    ASSUME IInv, UNCHANGED <<call, runs, running, queue, watch>>, past'.heard = past.heard,
           past'.uncopied = past.uncopied, past'.unmarked = past.unmarked
    PROVE  CallInv' /\ QueueInv' /\ SentMeansQueued' /\ WatchInv'
<1>1. CallInv'
  BY DEF IInv, CallInv, AwaitsMail
<1>2. QueueInv'
  BY DEF IInv, QueueInv, OnePerDay, Copy, Copied
<1>3. SentMeansQueued'
  BY DEF IInv, SentMeansQueued
<1>4. WatchInv'
  BY DEF IInv, WatchInv
<1>. QED  BY <1>1, <1>2, <1>3, <1>4

LEMMA DayStays ==
    ASSUME DayInv, UNCHANGED <<tick, call, runs>>, past'.calm => past.calm,
           past'.owed = past.owed, past'.torn = past.torn
    PROVE  DayInv'
BY DEF DayInv, Todo, TickRuns, Served

-----------------------------------------------------------------------------
(* Every step keeps the invariant.                                         *)

LEMMA InitIInv == Init => IInv
<1> SUFFICES ASSUME Init PROVE IInv
  OBVIOUS
<1>1. TInv
  <2>1. job \in [Job -> JobRec]
    BY Constants DEF Init, JobRec
  <2>2. call \in [Caller -> CallRec]
    BY IdleCall DEF Init
  <2>3. runs \in Runs
    BY DEF Init, Runs
  <2>4. watch \in [Account -> WatchRec]
    BY Constants DEF Init, WatchRec
  <2>5. past \in PastRec
    BY Constants DEF Init, PastRec
  <2>6. phase \in 0..(DayLength - 1) /\ up \in BOOLEAN /\ fired \in BOOLEAN
    <3>1. phase = 0
      BY DEF Init
    <3>2. up \in BOOLEAN /\ fired \in BOOLEAN
      BY DEF Init
    <3>. QED  BY <3>1, <3>2, Constants
  <2>7. /\ tick \in [pc : {"idle", "dispatch", "jobs"}, todo : SUBSET DOMAIN JobOrder]
        /\ running \subseteq Kind /\ wants \subseteq Account /\ price \in [0..1 -> Price]
        /\ deals \in [0..1 -> {"none", "empty", "full"}]
    BY DEF Init
  <2>. QED  BY <2>1, <2>2, <2>3, <2>4, <2>5, <2>6, <2>7 DEF TInv
<1>2. \A c \in Caller : call[c].pc = "idle"
  BY IdleCall DEF Init
<1>3. CallInv
  BY <1>2 DEF CallInv, AwaitsMail
<1>4. QueueInv
  BY DEF Init, QueueInv, OnePerDay
<1>5. SentMeansQueued
  BY DEF Init, SentMeansQueued
<1>6. WatchInv
  BY Constants DEF Init, WatchInv
<1>7. DayInv
  BY <1>2, Constants DEF Init, DayInv
<1>. QED  BY <1>1, <1>3, <1>4, <1>5, <1>6, <1>7 DEF IInv

LEMMA TimerKeeps == IInv /\ TimerFires => IInv'
<1> SUFFICES ASSUME IInv, TimerFires PROVE IInv'
  OBVIOUS
<1>1. TInv'
  BY DEF IInv, TInv, TimerFires
<1>2. CallInv' /\ QueueInv' /\ SentMeansQueued' /\ WatchInv'
  BY Undisturbed DEF TimerFires
<1>3. tick'.todo = tick.todo /\ (tick'.pc # "jobs" => tick.pc # "jobs")
  BY DEF TimerFires, IInv, TInv
<1>4. DayInv'
  BY <1>3 DEF IInv, DayInv, Todo, TickRuns, Served, TimerFires
<1>. QED  BY <1>1, <1>2, <1>4 DEF IInv

\* The jobs that are owed are due.
LEMMA OwedIsDue ==
    ASSUME TInv, NEW j \in Owed
    PROVE  \E i \in dueJobs : JobOrder[i] = j
<1>1. j \in Job
  BY DEF Owed
<1>2. PICK i \in DOMAIN JobOrder : JobOrder[i] = j
  BY <1>1, MailingsAssumption
<1>3. phase \in Nat /\ At[j] \in Nat /\ phase < DayLength /\ phase >= At[j] /\ job[j] \in JobRec
  BY <1>1, Constants DEF TInv, Owed
<1>4. SinceFiring(j) = phase - At[j]
  BY <1>3, Constants DEF SinceFiring
<1>5. job[j].age \in Nat
  BY <1>3, Constants DEF JobRec
<1>6. job[j].enabled /\ jobIsDue(j)
  BY <1>3, <1>4, <1>5 DEF Owed, jobIsDue
<1>. QED  BY <1>2, <1>6 DEF dueJobs

LEMMA ListKeeps == IInv /\ TickLists => IInv'
<1> SUFFICES ASSUME IInv, TickLists PROVE IInv'
  OBVIOUS
<1>1. tick.pc = "dispatch" /\ tick' = [pc |-> "jobs", todo |-> dueJobs]
      /\ past' = [past EXCEPT !.owed = @ \cup Owed]
  BY DEF TickLists
<1>2. Owed \subseteq Job /\ dueJobs \subseteq DOMAIN JobOrder
  BY DEF Owed, dueJobs
<1>3. past' \in PastRec
      /\ past'.heard = past.heard /\ past'.owed = past.owed \cup Owed
      /\ past'.uncopied = past.uncopied /\ past'.unmarked = past.unmarked
      /\ past'.torn = past.torn /\ past'.calm = past.calm
  BY <1>1, <1>2 DEF IInv, TInv, PastRec
<1>4. TInv'
  BY <1>1, <1>2, <1>3 DEF IInv, TInv, TickLists
<1>5. CallInv' /\ QueueInv' /\ SentMeansQueued' /\ WatchInv'
  BY <1>3, Undisturbed DEF TickLists
<1>6. \A k : k \in Owed => k \in Todo'
  BY <1>1, OwedIsDue DEF Todo, IInv
<1>7. Todo = {} /\ call["tick"].pc = "idle"
  BY <1>1 DEF IInv, DayInv, Todo
<1>8. \A k : Served(k, 0) => Served(k, 0)'
  BY DEF Served, TickLists
<1>9. DayInv'
  BY <1>1, <1>3, <1>6, <1>7, <1>8 DEF IInv, DayInv, TickRuns
<1>. QED  BY <1>4, <1>5, <1>9 DEF IInv

LEMMA ThrowKeeps == IInv /\ (TickThrows \/ TickEnds) => IInv'
<1> SUFFICES ASSUME IInv, TickThrows \/ TickEnds PROVE IInv'
  OBVIOUS
<1>1. tick' = [pc |-> "idle", todo |-> {}] /\ call["tick"].pc = "idle" /\ tick.todo = {}
      /\ UNCHANGED <<phase, up, fired, job, call, running, runs, queue, wants, watch, price, deals, past>>
  BY DEF TickThrows, TickEnds, IInv, DayInv
<1>2. TInv'
  BY <1>1 DEF IInv, TInv
<1>3. CallInv' /\ QueueInv' /\ SentMeansQueued' /\ WatchInv'
  BY <1>1, Undisturbed
<1>4. DayInv'
  BY <1>1 DEF IInv, DayInv, Todo, TickRuns, Served
<1>. QED  BY <1>2, <1>3, <1>4 DEF IInv

LEMMA DealsKeep == ASSUME IInv, NEW c \in Caller, DealsComputed(c) PROVE IInv'
<1>1. TInv'
  BY DEF IInv, TInv, DealsComputed
<1>2. CallInv' /\ QueueInv' /\ SentMeansQueued' /\ WatchInv'
  BY Undisturbed DEF DealsComputed
<1>3. DayInv'
  BY DayStays DEF IInv, DealsComputed
<1>. QED  BY <1>1, <1>2, <1>3 DEF IInv

LEMMA SaveKeeps == ASSUME IInv, NEW j \in Job, saveJob(j) PROVE IInv'
<1>1. job' \in [Job -> JobRec]
  <2>1. job[j] \in JobRec /\ job' = [job EXCEPT ![j] = [job[j] EXCEPT !.enabled = ~@]]
    BY DEF IInv, TInv, saveJob
  <2>2. job[j].enabled \in BOOLEAN
    BY <2>1 DEF JobRec
  <2>3. [job[j] EXCEPT !.enabled = ~@] \in JobRec
    BY <2>1, <2>2 DEF JobRec
  <2>. QED  BY <2>1, <2>3 DEF IInv, TInv
<1>2. past' \in PastRec
      /\ past'.heard = past.heard /\ past'.owed = past.owed /\ past'.torn = past.torn
      /\ past'.uncopied = past.uncopied /\ past'.unmarked = past.unmarked
      /\ past'.calm = FALSE
  BY DEF IInv, TInv, saveJob, PastRec
<1>3. TInv'
  BY <1>1, <1>2 DEF IInv, TInv, saveJob
<1>4. CallInv' /\ QueueInv' /\ SentMeansQueued' /\ WatchInv'
  BY <1>2, Undisturbed DEF saveJob
<1>5. DayInv'
  BY <1>2, DayStays DEF IInv, saveJob
<1>. QED  BY <1>3, <1>4, <1>5 DEF IInv

LEMMA SwitchKeeps == ASSUME IInv, NEW a \in Account, SwitchMail(a) PROVE IInv'
<1>1. TInv'
  BY DEF IInv, TInv, SwitchMail
<1>2. CallInv' /\ QueueInv' /\ SentMeansQueued' /\ WatchInv'
  BY Undisturbed DEF SwitchMail
<1>3. DayInv'
  BY DayStays DEF IInv, SwitchMail
<1>. QED  BY <1>1, <1>2, <1>3 DEF IInv

LEMMA RestartKeeps == IInv /\ Restart => IInv'
<1> SUFFICES ASSUME IInv, Restart PROVE IInv'
  OBVIOUS
<1>1. TInv'
  BY DEF IInv, TInv, Restart
<1>2. CallInv' /\ QueueInv' /\ SentMeansQueued' /\ WatchInv'
  BY Undisturbed DEF Restart
<1>3. DayInv'
  BY DayStays DEF IInv, Restart
<1>. QED  BY <1>1, <1>2, <1>3 DEF IInv

\* A row that settles is the same row to everyone but those who would send it again.
LEMMA SettleKeeps == IInv /\ RowSettles => IInv'
<1> SUFFICES ASSUME IInv, RowSettles PROVE IInv'
  OBVIOUS
<1>1. UNCHANGED <<phase, up, fired, job, tick, call, running, runs, wants, watch, price, deals, past>>
  BY DEF RowSettles
<1>2. PICK r \in queue, s \in {"sent", "dead"} :
          r.status = "queued" /\ queue' = (queue \ {r}) \cup {[r EXCEPT !.status = s]}
  BY DEF RowSettles
<1> DEFINE n == [r EXCEPT !.status = s]
<1>3. RowOK(n) /\ Says(n, r.kind, r.day, r.to, r.via)
  BY DEF IInv, QueueInv, RowOK, Says
<1> HIDE DEF n
<1>4. \A q \in queue : \E x \in queue' : Says(x, q.kind, q.day, q.to, q.via)
  BY <1>2, <1>3 DEF Says, n
<1>5. \A x \in queue' : x \in queue \/ x = n
  BY <1>2 DEF n
<1>6. \A x \in queue' : RowOK(x)
  BY <1>3, <1>5 DEF IInv, QueueInv
<1>7. \A x \in queue' : \E q \in queue : Says(q, x.kind, x.day, x.to, x.via)
  BY <1>3, <1>5 DEF Says
<1>8. \A x \in queue' : x.via = "email" /\ x.to \in Linked => Copy(x)'
  <2> SUFFICES ASSUME NEW x \in queue', x.via = "email", x.to \in Linked
               PROVE  Copied(x.kind, x.day, x.to)'
    BY DEF Copy, Copied
  <2>1. PICK q \in queue : Says(q, x.kind, x.day, x.to, "email")
    BY <1>7
  <2>2. Copied(x.kind, x.day, x.to)
    BY <2>1 DEF IInv, QueueInv, Copy, Says
  <2>. QED  BY <2>2, <1>1, <1>4 DEF Copied, Says
<1>9. OnePerDay'
  <2> SUFFICES ASSUME NEW x \in queue', NEW y \in queue', x.status # "dead", y.status # "dead",
                      Says(x, y.kind, y.day, y.to, y.via)
               PROVE  x = y
    BY DEF OnePerDay, Says
  <2>1. \A a \in queue, b \in queue : a.status # "dead" /\ b.status # "dead"
            /\ Says(a, b.kind, b.day, b.to, b.via) => a = b
    BY DEF IInv, QueueInv, OnePerDay, Says
  <2>2. CASE x = n /\ y # n
    <3>1. y \in queue /\ y # r
      BY <2>2, <1>2 DEF n
    <3>2. Says(r, y.kind, y.day, y.to, y.via)
      BY <2>2, <1>3 DEF Says
    <3>. QED  BY <3>1, <3>2, <2>1, <1>2
  <2>3. CASE x # n /\ y = n
    <3>1. x \in queue /\ x # r
      BY <2>3, <1>2 DEF n
    <3>2. Says(x, r.kind, r.day, r.to, r.via)
      BY <2>3, <1>3 DEF Says
    <3>. QED  BY <3>1, <3>2, <2>1, <1>2
  <2>. QED  BY <2>1, <2>2, <2>3, <1>5
<1>10. QueueInv'
  BY <1>6, <1>8, <1>9 DEF QueueInv
<1>11. SentMeansQueued'
  BY <1>1, <1>4, SentKept, SameUncopied DEF IInv
<1>12. TInv' /\ CallInv' /\ WatchInv'
  BY <1>1 DEF IInv, TInv, CallInv, AwaitsMail, WatchInv
<1>13. DayInv'
  BY <1>1, DayStays DEF IInv
<1>. QED  BY <1>10, <1>11, <1>12, <1>13 DEF IInv

-----------------------------------------------------------------------------
(* The clock.                                                              *)

LEMMA GrowsOlder ==
    ASSUME NEW cap \in Nat, NEW age \in 0..cap
    PROVE  Older(age, cap) \in 0..cap
BY DEF Older

\* What is kept of yesterday is what was of today, a day older.
LEMMA RowsTurn ==
    ASSUME QueueInv, SentMeansQueued, runs \in Runs, past'.uncopied = TurnedOver(past.uncopied),
           runs' = [k \in Kind |-> [d \in 0..1 |-> IF d = 1 /\ KeepsYesterday THEN runs[k][0] ELSE <<>>]],
           queue' = {Yesterdays(r) : r \in {q \in queue : q.day = 0 /\ KeepsYesterday}}
    PROVE  QueueInv' /\ SentMeansQueued' /\ runs' \in Runs
<1>1. \A x \in queue' : \E r \in queue : /\ x = Yesterdays(r) /\ r.day = 0 /\ KeepsYesterday
                                         /\ RowOK(x) /\ x.status = r.status
                                         /\ Says(x, r.kind, 1, r.to, r.via)
  BY GrowsOld DEF QueueInv
<1>2. \A r \in queue : r.day = 0 /\ KeepsYesterday =>
          Yesterdays(r) \in queue' /\ Says(Yesterdays(r), r.kind, 1, r.to, r.via)
  BY GrowsOld DEF QueueInv
<1>3. \A x \in queue' : RowOK(x)
  BY <1>1
<1>8. \A k, a : KeepsYesterday /\ Copied(k, 0, a) => Copied(k, 1, a)'
  <2> SUFFICES ASSUME NEW k, NEW a, KeepsYesterday, Copied(k, 0, a)
               PROVE  Copied(k, 1, a)'
    OBVIOUS
  <2>1. CASE \E t \in queue : Says(t, k, 0, a, "telegram")
    <3>1. PICK t \in queue : Says(t, k, 0, a, "telegram")
      BY <2>1
    <3>2. Yesterdays(t) \in queue' /\ Says(Yesterdays(t), k, 1, a, "telegram")
      BY <3>1, <1>2 DEF Says
    <3>. QED  BY <3>2 DEF Copied
  <2>2. CASE <<k, 0, a>> \in past.uncopied
    <3>1. <<k, 1, a>> \in TurnedOver(past.uncopied)
      <4> DEFINE n == <<k, 0, a>>
      <4>1. n[1] = k /\ n[2] = 0 /\ n[3] = a /\ n \in past.uncopied
        BY <2>2
      <4>2. <<n[1], 1, n[3]>> \in TurnedOver(past.uncopied)
        BY <4>1 DEF TurnedOver
      <4>. QED  BY <4>1, <4>2
    <3>. QED  BY <3>1 DEF Copied
  <2>. QED  BY <2>1, <2>2 DEF Copied
<1>4. \A x \in queue' : x.via = "email" /\ x.to \in Linked => Copy(x)'
  <2> SUFFICES ASSUME NEW x \in queue', x.via = "email", x.to \in Linked
               PROVE  Copied(x.kind, x.day, x.to)'
    BY DEF Copy, Copied
  <2>1. PICK r \in queue : r.day = 0 /\ KeepsYesterday /\ Says(x, r.kind, 1, r.to, r.via)
    BY <1>1
  <2>2. Copied(r.kind, 0, r.to)
    BY <2>1 DEF QueueInv, Copy, Says
  <2>. QED  BY <2>1, <2>2, <1>8 DEF Says
<1>5. OnePerDay'
  <2> SUFFICES ASSUME NEW x \in queue', NEW y \in queue', x.status # "dead", y.status # "dead",
                      Says(x, y.kind, y.day, y.to, y.via)
               PROVE  x = y
    BY DEF OnePerDay, Says
  <2>1. PICK r \in queue : x = Yesterdays(r) /\ r.day = 0 /\ x.status = r.status
                           /\ Says(x, r.kind, 1, r.to, r.via)
    BY <1>1
  <2>2. PICK q \in queue : y = Yesterdays(q) /\ q.day = 0 /\ y.status = q.status
                           /\ Says(y, q.kind, 1, q.to, q.via)
    BY <1>1
  <2>3. r = q
    BY <2>1, <2>2 DEF QueueInv, OnePerDay, Says
  <2>. QED  BY <2>1, <2>2, <2>3
<1>6. SentMeansQueued'
  <2> SUFFICES ASSUME NEW k \in Kind, NEW d \in 0..1, NEW i \in DOMAIN runs'[k][d],
                      NEW a \in runs'[k][d][i].told,
                      NEW via \in {"email"} \cup (IF a \in Linked THEN {"telegram"} ELSE {})
               PROVE  \/ \E r \in queue' : <<r.kind, r.day, r.to, r.via>> = <<k, d, a, via>>
                      \/ via = "telegram" /\ <<k, d, a>> \in past'.uncopied
    BY DEF SentMeansQueued
  <2>1. d = 1 /\ KeepsYesterday /\ i \in DOMAIN runs[k][0] /\ a \in runs[k][0][i].told
    BY DEF Runs
  <2>2. \/ \E r \in queue : <<r.kind, r.day, r.to, r.via>> = <<k, 0, a, via>>
        \/ via = "telegram" /\ <<k, 0, a>> \in past.uncopied
    BY <2>1 DEF SentMeansQueued
  <2>3. CASE \E r \in queue : <<r.kind, r.day, r.to, r.via>> = <<k, 0, a, via>>
    BY <2>1, <2>3, <1>2 DEF Says
  <2>4. CASE via = "telegram" /\ <<k, 0, a>> \in past.uncopied
    <3>1. Copied(k, 1, a)'
      BY <2>1, <2>4, <1>8 DEF Copied
    <3>. QED  BY <3>1, <2>1, <2>4 DEF Copied, Says
  <2>. QED  BY <2>2, <2>3, <2>4
<1>7. runs' \in Runs
  <2>1. <<>> \in Seq(RunRec)
    OBVIOUS
  <2>. QED  BY <2>1 DEF Runs
<1>. QED  BY <1>3, <1>4, <1>5, <1>6, <1>7 DEF QueueInv

LEMMA MinuteKeeps == IInv /\ Minute => IInv'
<1> SUFFICES ASSUME IInv, Minute PROVE IInv'
  OBVIOUS
<1>0. /\ phase' = (phase + 1) % DayLength /\ fired' = FALSE
      /\ Midnight => \A c \in Caller : call[c].day = 0
      /\ Midnight => runs' = [k \in Kind |-> [d \in 0..1 |->
                                IF d = 1 /\ KeepsYesterday THEN runs[k][0] ELSE <<>>]]
      /\ Midnight => queue' = {Yesterdays(r) : r \in {q \in queue : q.day = 0 /\ KeepsYesterday}}
      /\ Midnight => deals' = [d \in 0..1 |-> IF d = 1 /\ KeepsYesterday THEN deals[0] ELSE "none"]
      /\ Midnight => \E p \in Price : price' = [d \in 0..1 |-> IF d = 0 THEN p ELSE price[0]]
      /\ ~Midnight => UNCHANGED <<runs, queue, deals, price>>
      /\ UNCHANGED <<up, tick, running, wants, used>>
  BY DEF Minute
<1>1. phase' \in 0..(DayLength - 1)
  <2>1. phase \in Nat
    BY DEF IInv, TInv
  <2>. QED  BY <1>0, <2>1, Constants
<1>2. job' \in [Job -> JobRec]
  <2>1. \A j \in Job : [job[j] EXCEPT !.age = Older(@, Horizon)] \in JobRec
    BY GrowsOlder, Constants DEF IInv, TInv, JobRec
  <2>. QED  BY <2>1 DEF Minute
<1>3. /\ watch' \in [Account -> WatchRec]
      /\ \A a \in Account : watch'[a].told = Older(watch[a].told, RepeatAfter)
                            /\ watch'[a].minor = watch[a].minor
  <2>1. \A a \in Account :
           LET w == [watch[a] EXCEPT !.told = Older(@, RepeatAfter)]
           IN  w \in WatchRec /\ w.told = Older(watch[a].told, RepeatAfter) /\ w.minor = watch[a].minor
    BY GrowsOlder, Constants DEF IInv, TInv, WatchRec
  <2>. QED  BY <2>1 DEF Minute
<1>4. /\ past' \in PastRec
      /\ past'.heard = [a \in Account |-> Older(past.heard[a], RepeatAfter)]
      /\ past'.unmarked = past.unmarked
      /\ Midnight => past'.owed = {} /\ past'.uncopied = TurnedOver(past.uncopied)
      /\ ~Midnight => past'.owed = past.owed /\ past'.torn = past.torn /\ past'.calm = past.calm
                      /\ past'.uncopied = past.uncopied
  <2> DEFINE older == [a \in Account |-> Older(past.heard[a], RepeatAfter)]
             turned == TurnedOver(past.uncopied)
  <2>1. past \in PastRec
    BY DEF IInv, TInv
  <2>2. older \in [Account -> 0..RepeatAfter]
    BY <2>1, GrowsOlder, Constants DEF PastRec
  <2>3. turned \in SUBSET (Kind \X (0..1) \X Account)
    BY <2>1 DEF TurnedOver, PastRec
  <2>4. past' = [past EXCEPT !.heard = older, !.owed = IF Midnight THEN {} ELSE @,
                             !.torn = IF Midnight THEN {} ELSE @,
                             !.uncopied = IF Midnight THEN turned ELSE @,
                             !.calm = IF Midnight THEN TRUE ELSE @]
    BY DEF Minute
  <2> HIDE DEF older, turned
  <2>5. past' = [owed |-> IF Midnight THEN {} ELSE past.owed,
                 torn |-> IF Midnight THEN {} ELSE past.torn,
                 calm |-> IF Midnight THEN TRUE ELSE past.calm, heard |-> older,
                 uncopied |-> IF Midnight THEN turned ELSE past.uncopied,
                 unmarked |-> past.unmarked]
    BY <2>1, <2>4 DEF PastRec
  <2>6. CASE Midnight
    <3>1. past' = [owed |-> {}, torn |-> {}, calm |-> TRUE, heard |-> older,
                   uncopied |-> turned, unmarked |-> past.unmarked]
      BY <2>5, <2>6
    <3>. QED  BY <3>1, <2>1, <2>2, <2>3, <2>6 DEF PastRec, older, turned
  <2>7. CASE ~Midnight
    <3>1. past' = [owed |-> past.owed, torn |-> past.torn, calm |-> past.calm, heard |-> older,
                   uncopied |-> past.uncopied, unmarked |-> past.unmarked]
      BY <2>5, <2>7
    <3>. QED  BY <3>1, <2>1, <2>2, <2>7 DEF PastRec, older
  <2>. QED  BY <2>6, <2>7
<1>5. /\ call' \in [Caller -> CallRec]
      /\ \A c \in Caller : /\ call'[c].pc = call[c].pc /\ call'[c].job = call[c].job
                           /\ call'[c].how = call[c].how /\ call'[c].run = call[c].run
                           /\ ~Midnight => call'[c].day = call[c].day
                           /\ Midnight /\ call[c].pc = "waiting" => call'[c].day = 1
  <2> SUFFICES ASSUME NEW c \in Caller
               PROVE  /\ call'[c] \in CallRec
                      /\ call'[c].pc = call[c].pc /\ call'[c].job = call[c].job
                      /\ call'[c].how = call[c].how /\ call'[c].run = call[c].run
                      /\ ~Midnight => call'[c].day = call[c].day
                      /\ Midnight /\ call[c].pc = "waiting" => call'[c].day = 1
    BY DEF Minute
  <2> DEFINE one == [call[c] EXCEPT !.day = IF Midnight THEN 1 ELSE @]
             two == [one EXCEPT !.at = IF call[c].how = "now" THEN Older(@, Horizon) ELSE @]
  <2>1. call[c] \in CallRec
    BY DEF IInv, TInv
  <2>2. one \in CallRec /\ one.pc = call[c].pc /\ one.job = call[c].job /\ one.how = call[c].how
        /\ one.run = call[c].run /\ one.day = IF Midnight THEN 1 ELSE call[c].day
    BY <2>1 DEF CallRec
  <2> HIDE DEF one
  <2>3. two \in CallRec /\ two.pc = one.pc /\ two.job = one.job /\ two.how = one.how
        /\ two.run = one.run /\ two.day = one.day
    BY <2>2, GrowsOlder, Constants DEF CallRec
  <2>4. two = [call[c] EXCEPT !.day = IF Midnight THEN 1 ELSE @,
                              !.at = IF call[c].how = "now" THEN Older(@, Horizon) ELSE @]
    BY <2>1 DEF one, CallRec
  <2> HIDE DEF two
  <2>5. call'[c] = IF call[c].pc = "idle" THEN call[c] ELSE two
    BY <2>4 DEF Minute
  <2>6. call[c].pc \in {"idle", "waiting"}
    BY <2>1 DEF CallRec
  <2>. QED  BY <2>1, <2>2, <2>3, <2>5, <2>6
<1>6. price' \in [0..1 -> Price] /\ deals' \in [0..1 -> {"none", "empty", "full"}]
  <2>1. price \in [0..1 -> Price] /\ deals \in [0..1 -> {"none", "empty", "full"}]
    BY DEF IInv, TInv
  <2>2. CASE Midnight
    BY <1>0, <2>1, <2>2
  <2>3. CASE ~Midnight
    BY <1>0, <2>1, <2>3
  <2>. QED  BY <2>2, <2>3
<1>7. QueueInv' /\ SentMeansQueued' /\ runs' \in Runs
  <2>1. CASE Midnight
    BY <1>0, <1>4, <2>1, RowsTurn DEF IInv, TInv
  <2>2. CASE ~Midnight
    <3>1. UNCHANGED <<runs, queue>> /\ past'.uncopied = past.uncopied
      BY <1>0, <1>4, <2>2
    <3>2. QueueInv'
      BY <3>1 DEF IInv, QueueInv, OnePerDay, Copy, Copied
    <3>3. SentMeansQueued'
      BY <3>1 DEF IInv, SentMeansQueued
    <3>. QED  BY <3>1, <3>2, <3>3 DEF IInv, TInv
  <2>. QED  BY <2>1, <2>2
<1>8. TInv'
  BY <1>0, <1>1, <1>2, <1>3, <1>4, <1>5, <1>6, <1>7 DEF IInv, TInv
<1>9. \A c \in Caller : AwaitsMail(c)' =>
          /\ AwaitsMail(c) /\ call'[c].job = call[c].job /\ call'[c].run = call[c].run
          /\ call[c].job \in Kind /\ call[c].day \in 0..1
          /\ ~Midnight => call'[c].day = call[c].day
          /\ Midnight => call'[c].day = 1 /\ call[c].day = 0 /\ KeepsYesterday
  <2> SUFFICES ASSUME NEW c \in Caller, AwaitsMail(c)'
               PROVE  /\ AwaitsMail(c) /\ call'[c].job = call[c].job /\ call'[c].run = call[c].run
                      /\ call[c].job \in Kind /\ call[c].day \in 0..1
                      /\ ~Midnight => call'[c].day = call[c].day
                      /\ Midnight => call'[c].day = 1 /\ call[c].day = 0 /\ KeepsYesterday
    OBVIOUS
  <2>1. AwaitsMail(c) /\ call[c].job \in Kind /\ call[c].pc = "waiting"
    BY <1>5 DEF AwaitsMail
  <2>2. call[c].day \in 0..1
    BY DEF IInv, TInv, CallRec
  <2>3. Midnight => KeepsYesterday
    BY <2>1 DEF KeepsYesterday
  <2>. QED  BY <1>0, <1>5, <2>1, <2>2, <2>3
<1>10. \A k \in Kind : Midnight /\ KeepsYesterday => runs'[k][1] = runs[k][0]
  BY <1>0
<1>11. ~Midnight => runs' = runs
  BY <1>0
<1>12. ASSUME NEW c \in Caller, AwaitsMail(c)'
       PROVE  /\ call'[c].run \in DOMAIN runs'[call'[c].job][call'[c].day]
              /\ runs'[call'[c].job][call'[c].day][call'[c].run].status = "running"
              /\ c \in Api => call'[c].job \in running'
  <2>1. /\ call[c].run \in DOMAIN runs[call[c].job][call[c].day]
        /\ runs[call[c].job][call[c].day][call[c].run].status = "running"
        /\ c \in Api => call[c].job \in running
    BY <1>9, <1>12 DEF IInv, CallInv
  <2>2. runs'[call'[c].job][call'[c].day] = runs[call[c].job][call[c].day]
    BY <1>9, <1>10, <1>11, <1>12
  <2>3. running' = running
    BY <1>0
  <2>. QED  BY <1>9, <1>12, <2>1, <2>2, <2>3
<1>13. ASSUME NEW c \in Caller, NEW e \in Caller, AwaitsMail(c)', AwaitsMail(e)',
              call'[c].job = call'[e].job,
              \/ call'[c].day = call'[e].day /\ call'[c].run = call'[e].run
              \/ {c, e} \subseteq Api
       PROVE  c = e
  <2>1. /\ AwaitsMail(c) /\ AwaitsMail(e) /\ call[c].job = call[e].job
        /\ \/ call[c].day = call[e].day /\ call[c].run = call[e].run
           \/ {c, e} \subseteq Api
    BY <1>9, <1>13
  <2>. QED  BY <2>1 DEF IInv, CallInv
<1>14. CallInv'
  BY <1>5, <1>12, <1>13 DEF IInv, CallInv
<1>15. WatchInv'
  <2>1. \A a \in Account : watch[a].told \in 0..RepeatAfter
    BY DEF IInv, TInv, WatchRec
  <2>. QED  BY <1>3, <1>4, <2>1, Constants DEF IInv, WatchInv, Older
<1>16. DayInv'
  <2>1. tick' = tick
    BY <1>0
  <2>2. CASE Midnight
    BY <1>4, <1>5, <2>1, <2>2, Constants DEF IInv, DayInv
  <2>3. CASE ~Midnight
    BY <1>4, <1>5, <1>11, <2>1, <2>3, Constants DEF IInv, DayInv, Todo, TickRuns, Served
  <2>. QED  BY <2>2, <2>3
<1>. QED  BY <1>7, <1>8, <1>14, <1>15, <1>16 DEF IInv

-----------------------------------------------------------------------------
(* The tick and what is run by hand.                                       *)

\* A call begins: nothing is said yet, and what was served stays so.
LEMMA BeginKeeps ==
    ASSUME IInv, NEW c \in Caller, NEW j \in Job,
           NEW how \in {"scheduled", "now", "plain", "forced", "dry"},
           call[c].pc = "idle", Begins(c, j, how), UNCHANGED <<queue, watch, past>>
    PROVE  /\ QueueInv' /\ SentMeansQueued' /\ WatchInv'
           /\ \A k \in Kind : Served(k, 0) => Served(k, 0)'
<1>1. QueueInv' /\ WatchInv'
  BY DEF IInv, QueueInv, OnePerDay, Copy, Copied, WatchInv
<1>2. /\ \A k \in Kind, d \in 0..1 : \A i \in DOMAIN runs[k][d] :
            i \in DOMAIN runs'[k][d] /\ runs'[k][d][i] = runs[k][d][i]
      /\ \A k \in Kind, d \in 0..1 : \A i \in DOMAIN runs'[k][d] :
            i \in DOMAIN runs[k][d] \/ runs'[k][d][i].told = {}
  BY RunBegins DEF IInv
<1>3. SentMeansQueued'
  BY <1>2, SentKept, SameUncopied DEF IInv, Says
<1>4. \A k \in Kind : Served(k, 0) => Served(k, 0)'
  BY <1>2, StaysServed
<1>. QED  BY <1>1, <1>3, <1>4

LEMMA NextKeeps == IInv /\ NextJob => IInv'
<1> SUFFICES ASSUME IInv, NextJob PROVE IInv'
  OBVIOUS
<1>1. PICK i \in tick.todo :
          LET j == JobOrder[i]
          IN  /\ tick' = [tick EXCEPT !.todo = @ \ {i}]
              /\ \/ /\ Begins("tick", j, "scheduled")
                    /\ job' = markJobRun(j, "ran", 0)
                    /\ UNCHANGED past
                 \/ /\ Refused("tick", j)
                    /\ job' = markJobRun(j, "failed", 0)
                    /\ past' = [past EXCEPT !.calm = FALSE]
                    /\ UNCHANGED <<call, runs, running>>
                 \/ /\ ~Refused("tick", j)
                    /\ \/ /\ Repeated(j, "scheduled")
                          /\ job' = markJobRun(j, IF latestRun(j) = "sent" THEN "ran" ELSE "skipped", 0)
                       \/ j \in Post /\ job' \in {markJobRun(j, s, 0) : s \in {"skipped", "failed"}}
                    /\ UNCHANGED <<call, runs, running, past>>
  BY DEF NextJob
<1>2. /\ tick.pc = "jobs" /\ call["tick"].pc = "idle"
      /\ UNCHANGED <<phase, up, fired, queue, wants, watch, price, deals, used>>
  BY DEF NextJob
<1> DEFINE j == JobOrder[i]
<1>3. i \in DOMAIN JobOrder /\ j \in Job
  BY MailingsAssumption DEF IInv, TInv
<1>4. /\ tick' \in [pc : {"idle", "dispatch", "jobs"}, todo : SUBSET DOMAIN JobOrder]
      /\ tick'.pc = "jobs" /\ tick'.todo = tick.todo \ {i}
      /\ \A k : k \in Todo => k \in Todo' \/ k = j
  BY <1>1, <1>2 DEF IInv, TInv, Todo
<1> HIDE DEF j
<1>5. job' \in [Job -> JobRec]
  <2>1. 0 \in 0..Horizon
    BY Constants
  <2>2. \E s \in {"ran", "failed", "skipped"} : job' = markJobRun(j, s, 0)
    BY <1>1 DEF j
  <2>. QED  BY <1>3, <2>1, <2>2, Marked DEF IInv
<1>6. CASE Begins("tick", j, "scheduled") /\ past' = past
  <2>1. /\ runs' \in Runs /\ running' \subseteq Kind
        /\ call' \in [Caller -> CallRec] /\ CallInv'
        /\ call'["tick"].pc = "waiting" /\ call'["tick"].job = j /\ call'["tick"].day = 0
        /\ call'["tick"].how = "scheduled"
    BY <1>2, <1>3, <1>6, RunBegins, Constants DEF IInv
  <2>2. /\ QueueInv' /\ SentMeansQueued' /\ WatchInv'
        /\ \A k \in Kind : Served(k, 0) => Served(k, 0)'
    BY <1>2, <1>3, <1>6, BeginKeeps, Constants
  <2>3. TInv'
    BY <1>2, <1>4, <1>5, <1>6, <2>1 DEF IInv, TInv
  <2>4. DayInv'
    BY <1>2, <1>4, <1>6, <2>1, <2>2 DEF IInv, DayInv, TickRuns
  <2>. QED  BY <2>1, <2>2, <2>3, <2>4 DEF IInv
<1>7. CASE past' = [past EXCEPT !.calm = FALSE] /\ UNCHANGED <<call, runs, running>>
  <2>1. past' \in PastRec /\ past'.heard = past.heard /\ past'.calm = FALSE
        /\ past'.uncopied = past.uncopied /\ past'.unmarked = past.unmarked
    BY <1>7 DEF IInv, TInv, PastRec
  <2>2. TInv'
    BY <1>2, <1>4, <1>5, <1>7, <2>1 DEF IInv, TInv
  <2>3. CallInv' /\ QueueInv' /\ SentMeansQueued' /\ WatchInv'
    BY <1>2, <1>7, <2>1, Undisturbed
  <2>4. DayInv'
    BY <1>4, <2>1 DEF DayInv
  <2>. QED  BY <2>2, <2>3, <2>4 DEF IInv
<1>8. CASE /\ Repeated(j, "scheduled") \/ j \in Post
           /\ UNCHANGED <<call, runs, running, past>>
  <2>1. TInv'
    BY <1>2, <1>4, <1>5, <1>8 DEF IInv, TInv
  <2>2. CallInv' /\ QueueInv' /\ SentMeansQueued' /\ WatchInv'
    BY <1>2, <1>8, Undisturbed
  <2>3. j \in Kind => Served(j, 0)
    BY <1>8, DoneServed, Constants DEF Repeated, IInv, TInv
  <2>4. \A k \in Kind : Served(k, 0) => Served(k, 0)'
    BY <1>8 DEF Served
  <2>5. DayInv'
    BY <1>2, <1>4, <1>8, <2>3, <2>4 DEF IInv, DayInv, TickRuns
  <2>. QED  BY <2>1, <2>2, <2>5 DEF IInv
<1>. QED  BY <1>1, <1>6, <1>7, <1>8 DEF j

LEMMA HandKeeps ==
    ASSUME IInv, NEW c \in Caller, NEW j \in Job, NEW how \in {"now", "plain", "forced", "dry"},
           RunByHand(c, j, how)
    PROVE  IInv'
<1>1. /\ call[c].pc = "idle" /\ c # "tick" /\ Begins(c, j, how)
      /\ UNCHANGED <<phase, up, fired, job, tick, queue, wants, watch, price, deals, past>>
  BY DEF RunByHand
<1>2. /\ runs' \in Runs /\ running' \subseteq Kind
      /\ call' \in [Caller -> CallRec] /\ CallInv' /\ call'["tick"] = call["tick"]
  BY <1>1, RunBegins, Constants DEF IInv
<1>3. /\ QueueInv' /\ SentMeansQueued' /\ WatchInv'
      /\ \A k \in Kind : Served(k, 0) => Served(k, 0)'
  BY <1>1, BeginKeeps
<1>4. TInv'
  BY <1>1, <1>2 DEF IInv, TInv
<1>5. DayInv'
  BY <1>1, <1>2, <1>3 DEF IInv, DayInv, Todo, TickRuns
<1>. QED  BY <1>2, <1>3, <1>4, <1>5 DEF IInv

-----------------------------------------------------------------------------
(* A call ends.                                                            *)

LEMMA FailKeeps == ASSUME IInv, NEW c \in Caller, RunFails(c) PROVE IInv'
<1>1. /\ AwaitsMail(c) /\ runs' = FinishedRun(c, "failed", {}) /\ running' = Released(c)
      /\ job' = Recorded(c, "failed") /\ call' = [call EXCEPT ![c] = Idle]
      /\ past' = [past EXCEPT !.calm = FALSE]
      /\ UNCHANGED <<phase, up, fired, tick, queue, wants, watch, price, deals, used>>
  BY DEF RunFails, AwaitsMail
<1>2. /\ runs' \in Runs /\ running' \subseteq Kind
      /\ call' \in [Caller -> CallRec] /\ CallInv'
      /\ \A k \in Kind, d \in 0..1 : DOMAIN runs'[k][d] = DOMAIN runs[k][d]
      /\ \A k \in Kind, d \in 0..1 : \A i \in DOMAIN runs[k][d] :
            runs'[k][d][i].told = {} \/ runs'[k][d][i] = runs[k][d][i]
  <2>1. "failed" \in RunStatus /\ {} \in SUBSET Account
    BY DEF RunStatus
  <2>2. /\ runs' \in Runs /\ running' \subseteq Kind
        /\ call' \in [Caller -> CallRec] /\ CallInv' /\ RowSays(c, "failed", {})
    BY <1>1, <2>1, RunEnds DEF IInv
  <2>. QED  BY <2>2 DEF RowSays
<1>3. job' \in [Job -> JobRec]
  BY <1>1, RecordedMark, Constants DEF IInv, AwaitsMail
<1>4. past' \in PastRec /\ past'.heard = past.heard /\ past'.calm = FALSE
      /\ past'.uncopied = past.uncopied /\ past'.unmarked = past.unmarked
  BY <1>1 DEF IInv, TInv, PastRec
<1>5. TInv'
  BY <1>1, <1>2, <1>3, <1>4 DEF IInv, TInv
<1>6. QueueInv' /\ WatchInv'
  BY <1>1, <1>4 DEF IInv, QueueInv, OnePerDay, Copy, Copied, WatchInv
<1>7. SentMeansQueued'
  BY <1>1, <1>2, <1>4, SentKept, SameUncopied DEF IInv, Says
<1>8. DayInv'
  <2>1. tick' = tick /\ (call["tick"].pc = "idle" => call'["tick"].pc = "idle")
    BY <1>1, IdleCall DEF IInv, TInv
  <2>. QED  BY <1>4, <2>1 DEF IInv, DayInv
<1>. QED  BY <1>2, <1>5, <1>6, <1>7, <1>8 DEF IInv

\* What a run that completes says, to whom, and how far its loop got.
LEMMA Completes ==
    ASSUME IInv, NEW c \in Caller, RunCompletes(c)
    PROVE  \E k \in Kind, d \in 0..1, status \in RunStatus, mailed \in SUBSET Account :
              /\ k = call[c].job /\ d = call[c].day
              /\ LoopEnds(c, k, d, status, mailed)
              /\ \E s \in {"ran", "skipped"} : job' = Recorded(c, s)
              /\ call[c].how # "dry" => status \in {"sent", "skipped"}
              /\ k = "price_alerts" => \A a \in mailed : evaluateWatch(a)
<1>1. PICK k0 \in Kind, d0 \in 0..1 : k0 = call[c].job /\ d0 = call[c].day
  BY DEF RunCompletes, IInv, TInv, CallRec
<1>2. PICK said \in HasSomething(call[c].job, call[c].day, call[c].to), thrown \in SUBSET call[c].to :
          LET quiet == call[c].job = "deals_daily" /\ call[c].to # {} /\ said = {} /\ thrown = {}
              status == IF call[c].how = "dry" THEN "dry_run"
                        ELSE IF quiet THEN "skipped" ELSE "sent"
              mailed == IF call[c].how = "dry" THEN {} ELSE said \ thrown
          IN  /\ LoopEnds(c, call[c].job, call[c].day, status, mailed)
              /\ job' = Recorded(c, IF status = "skipped" THEN "skipped" ELSE "ran")
  BY DEF RunCompletes
<1>3. PICK status \in RunStatus, mailed \in SUBSET said :
          /\ LoopEnds(c, k0, d0, status, mailed)
          /\ \E s \in {"ran", "skipped"} : job' = Recorded(c, s)
          /\ call[c].how # "dry" => status \in {"sent", "skipped"}
  <2>1. CASE call[c].how = "dry"
    <3>1. LoopEnds(c, k0, d0, "dry_run", {}) /\ job' = Recorded(c, "ran")
      BY <1>1, <1>2, <2>1
    <3>. QED  BY <3>1, <2>1 DEF RunStatus
  <2>2. CASE call[c].how # "dry"
    <3> DEFINE mailed == said \ thrown
    <3>1. \E status \in {"sent", "skipped"} :
              /\ LoopEnds(c, k0, d0, status, mailed)
              /\ job' = Recorded(c, IF status = "skipped" THEN "skipped" ELSE "ran")
      BY <1>1, <1>2, <2>2
    <3>2. mailed \in SUBSET said
      OBVIOUS
    <3> HIDE DEF mailed
    <3>. QED  BY <3>1, <3>2 DEF RunStatus
  <2>. QED  BY <2>1, <2>2
<1>4. mailed \in SUBSET Account /\ (k0 = "price_alerts" => \A a \in mailed : evaluateWatch(a))
  <2>1. call[c].to \subseteq Account
    BY DEF IInv, TInv, CallRec
  <2>2. said \subseteq call[c].to /\ (k0 = "price_alerts" => \A a \in said : evaluateWatch(a))
    BY <1>1, SaidTo
  <2>. QED  BY <2>1, <2>2
<1>. QED  BY <1>1, <1>3, <1>4

\* A scheduled run that completes has served its day.
LEMMA CompleteKeeps == ASSUME IInv, NEW c \in Caller, RunCompletes(c) PROVE IInv'
<1>1. PICK k0 \in Kind, d0 \in 0..1, status \in RunStatus, mailed \in SUBSET Account :
          /\ k0 = call[c].job /\ d0 = call[c].day
          /\ LoopEnds(c, k0, d0, status, mailed)
          /\ \E s \in {"ran", "skipped"} : job' = Recorded(c, s)
          /\ call[c].how # "dry" => status \in {"sent", "skipped"}
          /\ k0 = "price_alerts" => \A a \in mailed : evaluateWatch(a)
  BY Completes
<1> DEFINE new == NewMails(k0, d0, mailed)
<1>11. PICK copied \in SUBSET new : \E through \in SUBSET copied :
          /\ MailsQueued(k0, d0, mailed, copied, through)
          /\ runs' = FinishedRun(c, status, (mailed \ new) \cup through)
          /\ past' = Remembered(k0, d0, mailed, copied, through)
  BY <1>1 DEF LoopEnds
<1>14. PICK through \in SUBSET copied :
          /\ MailsQueued(k0, d0, mailed, copied, through)
          /\ runs' = FinishedRun(c, status, (mailed \ new) \cup through)
          /\ past' = Remembered(k0, d0, mailed, copied, through)
  BY <1>11
<1> DEFINE told == (mailed \ new) \cup through
<1>2. /\ AwaitsMail(c) /\ running' = Released(c) /\ call' = [call EXCEPT ![c] = Idle]
      /\ UNCHANGED <<phase, up, fired, tick, wants, price, deals>>
  BY DEF RunCompletes, AwaitsMail
<1>12. told \in SUBSET Account /\ through \subseteq copied
  BY <1>11, <1>14 DEF NewMails
<1>3. /\ LoopRan(k0, d0, mailed, copied, through) /\ past' \in PastRec
      /\ past'.owed = past.owed /\ past'.torn = past.torn /\ past'.calm = past.calm
  <2>1. past \in PastRec
    BY DEF IInv, TInv
  <2>2. Remembers(Remembered(k0, d0, mailed, copied, through), k0, d0, mailed, copied, through)
    BY <2>1, RememberedIs
  <2>. QED  BY <1>14, <2>2 DEF LoopRan, Remembers
<1>13. k0 = call[c].job /\ d0 = call[c].day
  BY <1>1
<1> HIDE DEF new
<1>4. /\ runs' \in Runs /\ running' \subseteq Kind
      /\ call' \in [Caller -> CallRec] /\ CallInv' /\ RowSays(c, status, told)
  BY <1>2, <1>12, <1>14, RunEnds DEF IInv
<1>5. /\ QueueInv' /\ queue \subseteq queue' /\ CopiesFollow
      /\ \A a \in told : Reached(k0, d0, a)'
  <2>1. past \in PastRec
    BY DEF IInv, TInv
  <2>2. /\ QueueInv' /\ queue \subseteq queue' /\ CopiesFollow
        /\ \A a \in (mailed \ new) \cup copied : Reached(k0, d0, a)'
    BY <1>3, <2>1, MailsKeep DEF IInv, new
  <2>. QED  BY <1>12, <2>2
<1>6. watch' \in [Account -> WatchRec] /\ WatchInv'
  BY <1>1, <1>3, MailsTold DEF IInv
<1> HIDE DEF told
<1>7. job' \in [Job -> JobRec]
  BY <1>2, <1>1, RecordedMark, Constants DEF IInv, AwaitsMail
<1>8. TInv'
  BY <1>2, <1>3, <1>4, <1>6, <1>7 DEF IInv, TInv
<1>9. SentMeansQueued'
  <2>1. ASSUME NEW k \in Kind, NEW d \in 0..1, NEW i \in DOMAIN runs'[k][d],
               NEW a \in runs'[k][d][i].told
        PROVE  \/ i \in DOMAIN runs[k][d] /\ a \in runs[k][d][i].told
               \/ Reached(k, d, a)'
    <3>1. i \in DOMAIN runs[k][d]
      BY <1>4, <2>1 DEF RowSays
    <3>2. CASE k = k0 /\ d = d0 /\ i = call[c].run
      <4>1. runs'[k][d][i] = [status |-> status, told |-> told]
        BY <1>13, <1>4, <3>1, <3>2 DEF RowSays
      <4>2. a \in told
        BY <2>1, <4>1
      <4>. QED  BY <1>5, <3>2, <4>2
    <3>3. CASE ~(k = k0 /\ d = d0 /\ i = call[c].run)
      BY <1>13, <1>4, <2>1, <3>1, <3>3 DEF RowSays
    <3>. QED  BY <3>2, <3>3
  <2>2. \A r \in queue : \E q \in queue' : Says(q, r.kind, r.day, r.to, r.via)
    BY <1>5 DEF Says
  <2>. QED  BY <1>5, <2>1, <2>2, SentKept DEF IInv
<1>10. DayInv'
  <2>1. tick' = tick /\ (call["tick"].pc = "idle" => call'["tick"].pc = "idle")
    BY <1>2, IdleCall DEF IInv, TInv
  <2>2. ASSUME NEW k \in Kind, Served(k, 0)
        PROVE  Served(k, 0)'
    <3>1. runs[k0][d0][call[c].run].status = "running"
      BY <1>1, <1>2 DEF IInv, CallInv
    <3>2. \A i \in DOMAIN runs[k][0] : runs[k][0][i].status # "running" =>
              i \in DOMAIN runs'[k][0] /\ runs'[k][0][i] = runs[k][0][i]
      BY <1>13, <1>4, <3>1 DEF RowSays
    <3>. QED  BY <2>2, <3>2, StaysServed
  <2>3. ASSUME NEW k \in Kind, TickRuns(k)
        PROVE  TickRuns(k)' \/ Served(k, 0)'
    <3>1. CASE c = "tick"
      <4>1. k = k0 /\ d0 = 0 /\ call[c].run \in DOMAIN runs[k][0] /\ status \in {"sent", "skipped"}
        BY <1>1, <1>2, <2>3, <3>1 DEF TickRuns, IInv, CallInv
      <4>2. runs'[k][0][call[c].run].status = status /\ call[c].run \in DOMAIN runs'[k][0]
        BY <1>13, <1>4, <4>1 DEF RowSays
      <4>. QED  BY <4>1, <4>2 DEF Served
    <3>2. CASE c # "tick"
      <4>1. call'["tick"] = call["tick"]
        BY <1>2, <3>2, Constants DEF IInv, TInv
      <4>. QED  BY <2>3, <4>1 DEF TickRuns
    <3>. QED  BY <3>1, <3>2
  <2>4. Todo' = Todo
    BY <2>1 DEF Todo
  <2>. QED  BY <1>3, <2>1, <2>2, <2>3, <2>4 DEF IInv, DayInv
<1>. QED  BY <1>4, <1>5, <1>6, <1>8, <1>9, <1>10 DEF IInv

\* A platform has one post of a job and day that did not die.
LEMMA PostQueued ==
    ASSUME QueueInv, NEW j \in Post, NEW d \in 0..1, ~Held(dedupeKeyFor(j, d, "channel")),
           past' = past,
           queue' = queue \cup
               {Queued(j, d, "channel", "post", dedupeKeyFor(j, d, "channel"))}
    PROVE  QueueInv'
<1> DEFINE n == Queued(j, d, "channel", "post", dedupeKeyFor(j, d, "channel"))
<1>1. RowOK(n) /\ Says(n, j, d, "channel", "post") /\ n.key = <<j, d, "channel", "mail">>
  BY Constants DEF Queued, dedupeKeyFor, RowOK, Says, Medium
<1>2. \A r \in queue : Says(r, j, d, "channel", "post") => r.status = "dead"
  <2>1. \A r \in queue : Says(r, j, d, "channel", "post") => r.key = <<j, d, "channel", "mail">>
    BY DEF QueueInv, RowOK, Says, Medium
  <2>. QED  BY <2>1 DEF Held, dedupeKeyFor
<1> HIDE DEF n
<1>3. queue' = queue \cup {n}
  BY DEF n
<1>4. \A r \in queue' : RowOK(r)
  BY <1>1, <1>3 DEF QueueInv
<1>5. \A r \in queue' : r.via = "email" /\ r.to \in Linked => Copy(r)'
  BY <1>1, <1>3 DEF QueueInv, Copy, Copied, Says
<1>6. OnePerDay'
  <2>1. \A r \in queue, q \in queue : r.status # "dead" /\ q.status # "dead"
            /\ Says(r, q.kind, q.day, q.to, q.via) => r = q
    BY DEF QueueInv, OnePerDay, Says
  <2>2. \A r \in queue : r.status # "dead" =>
            ~Says(r, n.kind, n.day, n.to, n.via) /\ ~Says(n, r.kind, r.day, r.to, r.via)
    BY <1>1, <1>2 DEF Says
  <2>3. \A r \in queue', q \in queue' : r.status # "dead" /\ q.status # "dead"
            /\ Says(r, q.kind, q.day, q.to, q.via) => r = q
    BY <1>3, <2>1, <2>2
  <2>. QED  BY <2>3 DEF OnePerDay, Says
<1>. QED  BY <1>4, <1>5, <1>6 DEF QueueInv

LEMMA PostKeeps == ASSUME IInv, NEW c \in Caller, PostEnds(c) PROVE IInv'
<1>1. /\ call[c].pc = "waiting" /\ call[c].job \in Post /\ call' = [call EXCEPT ![c] = Idle]
      /\ UNCHANGED <<phase, up, fired, tick, running, runs, wants, watch, price, deals, past, used>>
  BY DEF PostEnds
<1>2. PICK j \in Post, d \in 0..1 : j = call[c].job /\ d = call[c].day
  BY <1>1 DEF IInv, TInv, CallRec
<1>3. /\ \/ queue' = queue
         \/ /\ ~Held(dedupeKeyFor(j, d, "channel"))
            /\ queue' = queue \cup
                  {Queued(j, d, "channel", "post", dedupeKeyFor(j, d, "channel"))}
      /\ \E s \in {"ran", "failed", "skipped"} : job' = Recorded(c, s)
  <2> DEFINE row == Queued(j, d, "channel", "post", dedupeKeyFor(j, d, "channel"))
             post == {row : v \in {deals[d]} \cap {"full"}}
  <2>1. \/ /\ queue' = IF Held(dedupeKeyFor(j, d, "channel")) THEN queue ELSE queue \cup post
           /\ job' = Recorded(c, IF queue' = queue THEN "skipped" ELSE "ran")
        \/ job' = Recorded(c, "failed") /\ queue' = queue
    BY <1>2 DEF PostEnds
  <2>2. post = {} \/ post = {row}
    OBVIOUS
  <2> HIDE DEF row, post
  <2>3. queue' = queue \/ (~Held(dedupeKeyFor(j, d, "channel")) /\ queue' = queue \cup {row})
    BY <2>1, <2>2
  <2>4. \E s \in {"ran", "failed", "skipped"} : job' = Recorded(c, s)
    BY <2>1
  <2>. QED  BY <2>3, <2>4 DEF row
<1>4. QueueInv' /\ queue \subseteq queue'
  <2>1. CASE queue' = queue
    BY <1>1, <2>1 DEF IInv, QueueInv, OnePerDay, Copy, Copied
  <2>2. CASE queue' # queue
    BY <1>1, <1>3, <2>2, PostQueued DEF IInv
  <2>. QED  BY <2>1, <2>2
<1>5. call' \in [Caller -> CallRec] /\ CallInv'
  <2>1. call' = [e \in Caller |-> IF e \in {c} THEN Idle ELSE call[e]]
    BY <1>1 DEF IInv, TInv
  <2>2. \A e \in Caller \ {c} : AwaitsMail(e) =>
            /\ call[e].run \in DOMAIN runs'[call[e].job][call[e].day]
            /\ runs'[call[e].job][call[e].day][call[e].run].status = "running"
            /\ e \in Api => call[e].job \in running'
    BY <1>1 DEF IInv, CallInv
  <2>3. TInv /\ CallInv
    BY DEF IInv
  <2>. QED  BY <2>1, <2>2, <2>3, CallsEnd
<1>6. job' \in [Job -> JobRec]
  BY <1>1, <1>3, RecordedMark, Constants DEF IInv
<1>7. TInv'
  BY <1>1, <1>5, <1>6 DEF IInv, TInv
<1>8. SentMeansQueued'
  BY <1>1, <1>4, SentKept, SameUncopied DEF IInv, Says
<1>9. WatchInv'
  BY <1>1 DEF IInv, WatchInv
<1>10. DayInv'
  <2>1. call["tick"].pc = "idle" => call'["tick"].pc = "idle"
    BY <1>1, IdleCall DEF IInv, TInv
  <2>2. \A k \in Kind : TickRuns(k) => TickRuns(k)'
    <3>1. \A k \in Kind : TickRuns(k) => c # "tick"
      BY <1>1, Constants DEF TickRuns
    <3>2. c # "tick" => call'["tick"] = call["tick"]
      BY <1>1, Constants DEF IInv, TInv
    <3>. QED  BY <3>1, <3>2 DEF TickRuns
  <2>3. \A k \in Kind : Served(k, 0) => Served(k, 0)'
    BY <1>1 DEF Served
  <2>. QED  BY <1>1, <2>1, <2>2, <2>3 DEF IInv, DayInv, Todo
<1>. QED  BY <1>4, <1>5, <1>7, <1>8, <1>9, <1>10 DEF IInv

-----------------------------------------------------------------------------
(* A process stops.                                                        *)

\* One of the calls cut off may have been in its loop, and have mailed some of its recipients.
SomeSaid ==
    \/ \E k \in Kind, d \in 0..1, mailed \in SUBSET Account :
       \E copied, through \in SUBSET NewMails(k, d, mailed) :
          /\ LoopRan(k, d, mailed, copied, through)
          /\ k = "price_alerts" => \A a \in mailed : evaluateWatch(a)
    \/ /\ past'.heard = past.heard /\ past'.uncopied = past.uncopied
       /\ past'.unmarked = past.unmarked /\ UNCHANGED <<queue, watch>>

LEMMA SaidKeeps ==
    ASSUME IInv, SomeSaid, runs' = runs
    PROVE  /\ QueueInv' /\ SentMeansQueued' /\ WatchInv'
           /\ watch' \in [Account -> WatchRec]
<1>0. past \in PastRec
  BY DEF IInv, TInv
<1>1. ASSUME NEW k \in Kind, NEW d \in 0..1, NEW mailed \in SUBSET Account,
             NEW copied, NEW through, LoopRan(k, d, mailed, copied, through),
             k = "price_alerts" => \A a \in mailed : evaluateWatch(a)
      PROVE  /\ QueueInv' /\ SentMeansQueued' /\ WatchInv'
             /\ watch' \in [Account -> WatchRec]
  <2>1. QueueInv' /\ queue \subseteq queue' /\ CopiesFollow
    BY <1>0, <1>1, MailsKeep DEF IInv
  <2>2. SentMeansQueued'
    BY <2>1, SentKept DEF IInv, Says
  <2>3. watch' \in [Account -> WatchRec] /\ WatchInv'
    BY <1>1, MailsTold DEF IInv
  <2>. QED  BY <2>1, <2>2, <2>3
<1>2. CASE /\ past'.heard = past.heard /\ past'.uncopied = past.uncopied
           /\ past'.unmarked = past.unmarked /\ UNCHANGED <<queue, watch>>
  <2>1. QueueInv'
    BY <1>2 DEF IInv, QueueInv, OnePerDay, Copy, Copied
  <2>2. SentMeansQueued' /\ WatchInv'
    BY <1>2 DEF IInv, SentMeansQueued, WatchInv
  <2>3. watch' \in [Account -> WatchRec]
    BY <1>2 DEF IInv, TInv
  <2>. QED  BY <2>1, <2>2, <2>3
<1>. QED  BY <1>1, <1>2 DEF SomeSaid

\* What the stopped calls had queued, and what is remembered of them.
LEMMA CutSays ==
    ASSUME IInv, NEW stopped \in SUBSET Caller, NEW owed \in SUBSET Job,
           NEW torn \in SUBSET Job, CutOff(stopped, owed, torn)
    PROVE  /\ SomeSaid /\ past' \in PastRec /\ past'.calm = past.calm
           /\ past'.owed = owed /\ past'.torn = torn
<1>0. past \in PastRec
  BY DEF IInv, TInv
<1>1. CASE past' = [past EXCEPT !.owed = owed, !.torn = torn] /\ UNCHANGED <<queue, watch>>
  BY <1>0, <1>1 DEF SomeSaid, PastRec
<1>2. ASSUME NEW c \in stopped, NEW mailed \in SUBSET Account, call[c].job \in Kind,
             \E all \in HasSomething(call[c].job, call[c].day, call[c].to) : mailed \subseteq all,
             NEW copied \in SUBSET NewMails(call[c].job, call[c].day, mailed),
             NEW through \in SUBSET copied,
             MailsQueued(call[c].job, call[c].day, mailed, copied, through),
             past' = [Remembered(call[c].job, call[c].day, mailed, copied, through)
                         EXCEPT !.owed = owed, !.torn = torn]
      PROVE  /\ SomeSaid /\ past' \in PastRec /\ past'.calm = past.calm
             /\ past'.owed = owed /\ past'.torn = torn
  <2>1. PICK k \in Kind, d \in 0..1 : k = call[c].job /\ d = call[c].day
    BY <1>2 DEF IInv, TInv, CallRec
  <2> DEFINE p == Remembered(k, d, mailed, copied, through)
  <2>2. p \in PastRec /\ p.calm = past.calm
    <3>1. Remembers(p, k, d, mailed, copied, through)
      BY <1>0, RememberedIs
    <3>. QED  BY <3>1 DEF Remembers
  <2>3. past' = [p EXCEPT !.owed = owed, !.torn = torn]
    BY <1>2, <2>1
  <2> HIDE DEF p
  <2>4. /\ past' \in PastRec /\ past'.calm = p.calm /\ past'.owed = owed /\ past'.torn = torn
        /\ past'.heard = p.heard /\ past'.unmarked = p.unmarked /\ past'.uncopied = p.uncopied
    BY <2>2, <2>3 DEF PastRec
  <2>5. LoopRan(k, d, mailed, copied, through)
    BY <1>2, <2>1, <2>4 DEF LoopRan, p
  <2>6. k = "price_alerts" => \A a \in mailed : evaluateWatch(a)
    BY <1>2, <2>1, SaidTo
  <2>7. copied \in SUBSET NewMails(k, d, mailed) /\ through \in SUBSET NewMails(k, d, mailed)
    BY <1>2, <2>1
  <2>8. SomeSaid
    BY <2>5, <2>6, <2>7 DEF SomeSaid
  <2>. QED  BY <2>2, <2>4, <2>8
<1>3. \/ past' = [past EXCEPT !.owed = owed, !.torn = torn] /\ UNCHANGED <<queue, watch>>
      \/ \E c \in stopped, mailed \in SUBSET Account :
            /\ call[c].job \in Kind
            /\ \E all \in HasSomething(call[c].job, call[c].day, call[c].to) : mailed \subseteq all
            /\ \E copied \in SUBSET NewMails(call[c].job, call[c].day, mailed) :
               \E through \in SUBSET copied :
                  /\ MailsQueued(call[c].job, call[c].day, mailed, copied, through)
                  /\ past' = [Remembered(call[c].job, call[c].day, mailed, copied, through)
                                EXCEPT !.owed = owed, !.torn = torn]
  BY DEF CutOff
<1>4. CASE \E c \in stopped, mailed \in SUBSET Account :
            /\ call[c].job \in Kind
            /\ \E all \in HasSomething(call[c].job, call[c].day, call[c].to) : mailed \subseteq all
            /\ \E copied \in SUBSET NewMails(call[c].job, call[c].day, mailed) :
               \E through \in SUBSET copied :
                  /\ MailsQueued(call[c].job, call[c].day, mailed, copied, through)
                  /\ past' = [Remembered(call[c].job, call[c].day, mailed, copied, through)
                                EXCEPT !.owed = owed, !.torn = torn]
  <2>1. PICK c \in stopped, mailed \in SUBSET Account :
            /\ call[c].job \in Kind
            /\ \E all \in HasSomething(call[c].job, call[c].day, call[c].to) : mailed \subseteq all
            /\ \E copied \in SUBSET NewMails(call[c].job, call[c].day, mailed) :
               \E through \in SUBSET copied :
                  /\ MailsQueued(call[c].job, call[c].day, mailed, copied, through)
                  /\ past' = [Remembered(call[c].job, call[c].day, mailed, copied, through)
                                EXCEPT !.owed = owed, !.torn = torn]
    BY <1>4
  <2>2. PICK copied \in SUBSET NewMails(call[c].job, call[c].day, mailed) :
            \E through \in SUBSET copied :
                  /\ MailsQueued(call[c].job, call[c].day, mailed, copied, through)
                  /\ past' = [Remembered(call[c].job, call[c].day, mailed, copied, through)
                                EXCEPT !.owed = owed, !.torn = torn]
    BY <2>1
  <2>3. PICK through \in SUBSET copied :
                  /\ MailsQueued(call[c].job, call[c].day, mailed, copied, through)
                  /\ past' = [Remembered(call[c].job, call[c].day, mailed, copied, through)
                                EXCEPT !.owed = owed, !.torn = torn]
    BY <2>2
  <2>. QED  BY <1>2, <2>1, <2>3
<1>. QED  BY <1>1, <1>3, <1>4

LEMMA StopSays ==
    ASSUME IInv, Stop
    PROVE  /\ SomeSaid /\ past' \in PastRec /\ past'.calm = past.calm
           /\ past'.owed = past.owed \ Todo
           /\ past'.torn = past.torn \cup ({call[c].job : c \in Api} \cap Job)
<1> DEFINE owed == past.owed \ Todo
           torn == past.torn \cup ({call[c].job : c \in Api} \cap Job)
<1>1. owed \in SUBSET Job /\ torn \in SUBSET Job
  BY DEF IInv, TInv, PastRec
<1>2. CutOff(Api, owed, torn)
  BY DEF Stop
<1> HIDE DEF owed, torn
<1>3. Api \in SUBSET Caller
  BY Constants
<1>. QED  BY <1>1, <1>2, <1>3, CutSays DEF owed, torn

LEMMA StopKeeps == IInv /\ Stop => IInv'
<1> SUFFICES ASSUME IInv, Stop PROVE IInv'
  OBVIOUS
<1>1. /\ up' = FALSE /\ fired' = FALSE /\ running' = {} /\ tick' = [pc |-> "idle", todo |-> {}]
      /\ call' = [c \in Caller |-> IF c \in Api THEN Idle ELSE call[c]]
      /\ UNCHANGED <<phase, job, runs, wants, price, deals>>
  BY DEF Stop, CutOff
<1>2. SomeSaid /\ past' \in PastRec /\ past'.calm = past.calm /\ past'.owed = past.owed \ Todo
      /\ past'.torn = past.torn \cup ({call[c].job : c \in Api} \cap Job)
  BY StopSays
<1>3. /\ QueueInv' /\ SentMeansQueued' /\ WatchInv'
      /\ watch' \in [Account -> WatchRec]
  BY <1>1, <1>2, SaidKeeps
<1>5. call' \in [Caller -> CallRec] /\ CallInv'
  <2>1. \A e \in Caller \ Api : AwaitsMail(e) =>
            /\ call[e].run \in DOMAIN runs'[call[e].job][call[e].day]
            /\ runs'[call[e].job][call[e].day][call[e].run].status = "running"
            /\ e \in Api => call[e].job \in running'
    BY <1>1 DEF IInv, CallInv
  <2>2. TInv /\ CallInv /\ Api \in SUBSET Caller
    BY Constants DEF IInv
  <2>. QED  BY <1>1, <2>1, <2>2, CallsEnd
<1>6. TInv'
  BY <1>1, <1>2, <1>3, <1>5 DEF IInv, TInv
<1>7. DayInv'
  <2>1. call'["tick"].pc = "idle"
    BY <1>1, IdleCall, Constants DEF Api
  <2>2. \A k \in Kind : TickRuns(k) => k \in past'.torn
    BY <1>2, Constants DEF TickRuns, Api
  <2>3. \A k \in Kind : Served(k, 0) => Served(k, 0)'
    BY <1>1 DEF Served
  <2>. QED  BY <1>1, <1>2, <2>1, <2>2, <2>3 DEF IInv, DayInv
<1>. QED  BY <1>3, <1>5, <1>6, <1>7 DEF IInv

LEMMA ShellSays ==
    ASSUME IInv, NEW s \in Shell, StopShell(s)
    PROVE  /\ SomeSaid /\ past' \in PastRec /\ past'.calm = past.calm
           /\ past'.owed = past.owed /\ past'.torn = past.torn
<1>1. past.owed \in SUBSET Job /\ past.torn \in SUBSET Job /\ {s} \in SUBSET Caller
  BY Constants DEF IInv, TInv, PastRec
<1>2. CutOff({s}, past.owed, past.torn)
  BY DEF StopShell
<1>. QED  BY <1>1, <1>2, CutSays

LEMMA ShellKeeps == ASSUME IInv, NEW s \in Shell, StopShell(s) PROVE IInv'
<1>1. /\ call' = [c \in Caller |-> IF c \in {s} THEN Idle ELSE call[c]]
      /\ UNCHANGED <<phase, up, fired, job, tick, running, runs, wants, price, deals>>
  BY DEF StopShell, CutOff
<1>2. SomeSaid /\ past' \in PastRec /\ past'.calm = past.calm /\ past'.owed = past.owed
      /\ past'.torn = past.torn
  BY ShellSays
<1>3. /\ QueueInv' /\ SentMeansQueued' /\ WatchInv'
      /\ watch' \in [Account -> WatchRec]
  BY <1>1, <1>2, SaidKeeps
<1>5. call' \in [Caller -> CallRec] /\ CallInv'
  <2>1. \A e \in Caller \ {s} : AwaitsMail(e) =>
            /\ call[e].run \in DOMAIN runs'[call[e].job][call[e].day]
            /\ runs'[call[e].job][call[e].day][call[e].run].status = "running"
            /\ e \in Api => call[e].job \in running'
    BY <1>1 DEF IInv, CallInv
  <2>2. TInv /\ CallInv /\ {s} \in SUBSET Caller
    BY Constants DEF IInv
  <2>. QED  BY <1>1, <2>1, <2>2, CallsEnd
<1>6. TInv'
  BY <1>1, <1>2, <1>3, <1>5 DEF IInv, TInv
<1>7. DayInv'
  <2>1. call'["tick"] = call["tick"]
    BY <1>1, Constants
  <2>2. \A k \in Kind : Served(k, 0) => Served(k, 0)'
    BY <1>1 DEF Served
  <2>. QED  BY <1>1, <1>2, <2>1, <2>2 DEF IInv, DayInv, Todo, TickRuns
<1>. QED  BY <1>3, <1>5, <1>6, <1>7 DEF IInv

-----------------------------------------------------------------------------
(* The theorems.                                                           *)

LEMMA StepKeeps == IInv /\ [Next]_vars => IInv'
<1> SUFFICES ASSUME IInv, [Next]_vars PROVE IInv'
  OBVIOUS
<1>1. CASE UNCHANGED vars
  <2>1. CallInv' /\ QueueInv' /\ SentMeansQueued' /\ WatchInv'
    BY <1>1, Undisturbed DEF vars
  <2>2. DayInv'
    BY <1>1, DayStays DEF IInv, vars
  <2>3. TInv'
    BY <1>1 DEF IInv, TInv, vars
  <2>. QED  BY <2>1, <2>2, <2>3 DEF IInv
<1>2. CASE TimerFires \/ TickLists \/ TickThrows \/ NextJob \/ TickEnds
  BY <1>2, TimerKeeps, ListKeeps, ThrowKeeps, NextKeeps
<1>3. CASE \E c \in Caller : RunFails(c) \/ RunCompletes(c) \/ DealsComputed(c) \/ PostEnds(c)
  BY <1>3, FailKeeps, CompleteKeeps, DealsKeep, PostKeeps
<1>4. CASE \E c \in Caller, j \in Job, how \in {"now", "plain", "forced", "dry"} : RunByHand(c, j, how)
  BY <1>4, HandKeeps
<1>5. CASE (\E j \in Job : saveJob(j)) \/ (\E a \in Account : SwitchMail(a))
  BY <1>5, SaveKeeps, SwitchKeeps
<1>6. CASE RowSettles \/ Minute \/ Stop \/ Restart
  BY <1>6, SettleKeeps, MinuteKeeps, StopKeeps, RestartKeeps
<1>7. CASE \E c \in Shell : StopShell(c)
  BY <1>7, ShellKeeps
<1>. QED  BY <1>1, <1>2, <1>3, <1>4, <1>5, <1>6, <1>7 DEF Next

LEMMA Always == Spec => []IInv
BY InitIInv, StepKeeps, PTL DEF Spec

LEMMA Types == IInv => TypeOK
<1> SUFFICES ASSUME IInv PROVE TypeOK
  OBVIOUS
<1>1. \A c \in Caller :
          /\ call[c].pc \in {"idle", "waiting"} /\ call[c].day \in 0..1
          /\ call[c].to \subseteq Account /\ call[c].at \in 0..Horizon
          /\ call[c].how \in {"none", "scheduled", "now", "plain", "forced", "dry"}
  BY DEF IInv, TInv, CallRec
<1>2. \A c \in Caller : call[c].pc = "waiting" /\ call[c].job \in Kind =>
          /\ runs[call[c].job][call[c].day][call[c].run].status = "running"
          /\ c \in Api => call[c].job \in running
  BY DEF IInv, CallInv, AwaitsMail
<1>3. \A k \in Kind, d \in 0..1 : \A i \in DOMAIN runs[k][d] : runs[k][d][i].status \in RunStatus
  <2>1. \A k \in Kind, d \in 0..1 : runs[k][d] \in Seq(RunRec)
    BY DEF IInv, TInv, Runs
  <2>2. \A k \in Kind, d \in 0..1 : \A i \in DOMAIN runs[k][d] : runs[k][d][i] \in RunRec
    BY <2>1
  <2>. QED  BY <2>2 DEF RunRec
<1>4. tick.pc \in {"idle", "dispatch", "jobs"} /\ tick.todo \subseteq DOMAIN JobOrder
  BY DEF IInv, TInv
<1>. QED  BY <1>1, <1>2, <1>3, <1>4 DEF IInv, TInv, TypeOK, JobRec, WatchRec

\* The channels' clock keeps its types, and a mail run that is under way has its row, and in
\* the API its place in the set, whoever began it and whatever the day turned in between.
THEOREM TypeCorrect == Spec => []TypeOK
BY Always, Types, PTL

\* Every job is idempotent within its day: whoever runs it, however often, in however many
\* processes, and wherever a run was cut off, one live mail or post of a kind and day at most.
THEOREM OneADay == Spec => []OnePerDay
<1>1. IInv => OnePerDay
  BY DEF IInv, QueueInv
<1>. QED  BY <1>1, Always, PTL

\* What newsletter_run says was sent is in the outbox, and a linked chat's copy with it, but
\* for a copy that a stop or an error kept from following its mail.
THEOREM SentIsThere == Spec => []SentMeansQueued
<1>1. IInv => SentMeansQueued
  BY DEF IInv
<1>. QED  BY <1>1, Always, PTL

\* A mail that came due and was listed is served by the end of its day, when every run got
\* its answer and none was cut off: refused, repeated and late ticks leave none out.
THEOREM DaysServed == Spec => []DayIsServed
<1>1. IInv => DayIsServed
  BY DEF IInv, DayInv, DayIsServed, ServedUnless, Underway, TickRuns, Caller, Api
<1>. QED  BY <1>1, Always, PTL

-----------------------------------------------------------------------------
(* Alerts.                                                                 *)

AlertStep ==
    phase' = phase => \A r \in queue' \ queue :
        /\ <<r.kind, r.via, r.status>> = <<"price_alerts", "email", "queued">>
        /\ Rule[r.to].mode = "below"
        => past.heard[r.to] = RepeatAfter \/ r.to \in past.unmarked

LEMMA SaidWaits ==
    ASSUME IInv, NEW k \in Kind, NEW d \in 0..1, NEW mailed \in SUBSET Account,
           NEW copied, NEW through, LoopRan(k, d, mailed, copied, through),
           k = "price_alerts" => \A a \in mailed : evaluateWatch(a)
    PROVE  AlertStep
<1> SUFFICES ASSUME NEW r \in queue' \ queue, r.kind = "price_alerts", r.via = "email",
                    Rule[r.to].mode = "below"
             PROVE  past.heard[r.to] = RepeatAfter \/ r.to \in past.unmarked
  BY DEF AlertStep
<1>1. r.kind = k /\ r.to \in NewMails(k, d, mailed)
  <2>1. past \in PastRec
    BY DEF IInv, TInv
  <2>. QED  BY <2>1, MailsKeep DEF IInv
<1>2. r.to \in mailed /\ evaluateWatch(r.to)
  BY <1>1 DEF NewMails
<1>. QED  BY <1>2, AlertSaid DEF IInv

LEMMA StepWaits == ASSUME IInv, [Next]_vars PROVE AlertStep
<1>1. CASE UNCHANGED queue
  BY <1>1 DEF AlertStep
<1>2. ASSUME NEW c \in Caller, RunCompletes(c)
      PROVE  AlertStep
  <2>0. past \in PastRec
    BY DEF IInv, TInv
  <2>1. PICK k \in Kind, d \in 0..1, status \in RunStatus, mailed \in SUBSET Account :
           /\ LoopEnds(c, k, d, status, mailed)
           /\ k = "price_alerts" => \A a \in mailed : evaluateWatch(a)
    BY <1>2, Completes
  <2>2. PICK copied \in SUBSET NewMails(k, d, mailed) : \E through \in SUBSET copied :
           /\ MailsQueued(k, d, mailed, copied, through)
           /\ past' = Remembered(k, d, mailed, copied, through)
    BY <2>1 DEF LoopEnds
  <2>3. PICK through \in SUBSET copied : LoopRan(k, d, mailed, copied, through)
    BY <2>2 DEF LoopRan
  <2>. QED  BY <2>1, <2>3, SaidWaits
<1>3. ASSUME NEW c \in Caller, PostEnds(c)
      PROVE  AlertStep
  <2>1. \A r \in queue' \ queue : r.kind \in Post
    BY <1>3 DEF PostEnds, Queued
  <2>2. "price_alerts" \notin Post
    BY MailingsAssumption DEF NewsletterKind
  <2>. QED  BY <2>1, <2>2 DEF AlertStep
<1>4. CASE RowSettles
  <2>1. PICK r \in queue, s \in {"sent", "dead"} :
            queue' = (queue \ {r}) \cup {[r EXCEPT !.status = s]}
    BY <1>4 DEF RowSettles
  <2>2. RowOK(r)
    BY DEF IInv, QueueInv
  <2>3. [r EXCEPT !.status = s].status = s
    BY <2>2 DEF RowOK
  <2>. QED  BY <2>1, <2>3 DEF AlertStep
<1>5. CASE Minute
  <2>1. phase' = (phase + 1) % DayLength /\ phase \in 0..(DayLength - 1)
    BY <1>5 DEF Minute, IInv, TInv
  <2>2. phase' # phase
    BY <2>1, Constants
  <2>. QED  BY <2>2 DEF AlertStep
<1>6. ASSUME SomeSaid
      PROVE  AlertStep
  BY <1>1, <1>6, SaidWaits DEF SomeSaid
<1>7. CASE Stop
  BY <1>6, <1>7, StopSays
<1>8. ASSUME NEW s \in Shell, StopShell(s)
      PROVE  AlertStep
  BY <1>6, <1>8, ShellSays
<1>9. UNCHANGED vars => UNCHANGED queue
  BY DEF vars
<1>10. TimerFires \/ TickLists \/ TickThrows \/ NextJob \/ TickEnds \/ Restart => UNCHANGED queue
  BY DEF TimerFires, TickLists, TickThrows, NextJob, TickEnds, Restart
<1>11. \A c \in Caller : RunFails(c) \/ DealsComputed(c) => UNCHANGED queue
  BY DEF RunFails, DealsComputed
<1>12. \A c \in Caller, j \in Job, how \in {"now", "plain", "forced", "dry"} :
          RunByHand(c, j, how) => UNCHANGED queue
  BY DEF RunByHand
<1>13. (\E j \in Job : saveJob(j)) \/ (\E a \in Account : SwitchMail(a)) => UNCHANGED queue
  BY DEF saveJob, SwitchMail
<1>. QED  BY <1>1, <1>2, <1>3, <1>4, <1>5, <1>7, <1>8, <1>9, <1>10, <1>11, <1>12, <1>13 DEF Next

\* An alert on a price under the mark is never said again before its time, whatever was run
\* by hand or in two processes at once, when the turn of the loop that mailed it came to the
\* mark.
THEOREM AlertsWait == Spec => AlertWaits
<1>1. IInv /\ [Next]_vars => [AlertStep]_vars
  BY StepWaits
<1>2. Spec => [][AlertStep]_vars
  BY <1>1, Always, PTL DEF Spec
<1>. QED  BY <1>2 DEF AlertWaits, AlertStep
=============================================================================
