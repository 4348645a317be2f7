------------------------------ MODULE Accounts ------------------------------
(***************************************************************************)
(* People's accounts on the public site (src/api/src/account): passwords,  *)
(* sessions, the links in account mail, Google sign-in and the Telegram    *)
(* chat of an account, over the tables of src/foundry/src/db.ts.           *)
(*                                                                         *)
(* One process serves every request and SQLite answers synchronously, so a *)
(* handler is one step up to its next await.  Register, the first          *)
(* verification and a reset await a mail between their writes and the      *)
(* session they start: waiting counts the requests in that gap.  A mail    *)
(* may be lost; a link that arrived may be followed at any time until it   *)
(* is used, voided or expired.  An address stands for its spellings in any *)
(* case (the column collates NOCASE).  The budgets per connection and the  *)
(* profile, which no other handler reads, are left out.                    *)
(***************************************************************************)
EXTENDS Naturals, FiniteSets

CONSTANTS Account,      \* ids an account may be given; none is given twice
          Address,      \* mail addresses
          Subject,      \* Google users
          Chat,         \* Telegram chats
          MaxFails,     \* wrong passwords that lock an account
          MaxLinks,     \* bound: links ever mailed
          MaxSessions,  \* bound: live sessions of an account
          MaxWaiting    \* bound: requests of an account awaiting their mail

ASSUME BoundsAssumption ==
    /\ MaxFails \in Nat \ {0} /\ MaxLinks \in Nat
    /\ MaxSessions \in Nat \ {0} /\ MaxWaiting \in Nat

Kinds == {"verify_email", "reset_password", "change_email"}
Status == {"active", "disabled"}

AccountRow == [email : Address, verified : BOOLEAN, password : BOOLEAN,
               status : Status, fails : 0 .. MaxFails]

\* A row of account_token; to is where the link was mailed, which for
\* change_email is the payload.
Link == [n : 1 .. MaxLinks, account : Account, kind : Kinds, to : Address,
         used : BOOLEAN]

VARIABLES account,   \* the rows that exist; fails = MaxFails is "locked"
          spent,     \* ids given to an account so far
          sessions,  \* live sessions of each account
          waiting,   \* requests that will start a session after their mail
          token,     \* rows of account_token that have not expired
          issued,    \* links mailed so far: their order of creation
          identity,  \* rows of account_identity: <<subject, account>>
          chat,      \* rows of account_telegram: <<account, chat>>
          code,      \* accounts with a live row in account_telegram_link
          proved     \* history: <<account, address>> somebody showed to hold

vars == <<account, spent, sessions, waiting, token, issued, identity, chat,
          code, proved>>

TypeOK ==
    /\ DOMAIN account \subseteq spent
    /\ account \in [DOMAIN account -> AccountRow]
    /\ spent \subseteq Account
    /\ sessions \in [Account -> 0 .. MaxSessions]
    /\ waiting \in [Account -> 0 .. MaxWaiting]
    /\ token \subseteq Link
    /\ issued \in 0 .. MaxLinks
    /\ \A l \in token : l.n <= issued /\ l.account \in DOMAIN account
    /\ identity \subseteq Subject \X (DOMAIN account)
    /\ chat \subseteq (DOMAIN account) \X Chat
    /\ code \subseteq DOMAIN account
    /\ proved \subseteq Account \X Address

Init ==
    /\ account = [a \in {} |-> 0]
    /\ spent = {}
    /\ sessions = [a \in Account |-> 0]
    /\ waiting = [a \in Account |-> 0]
    /\ token = {} /\ issued = 0
    /\ identity = {} /\ chat = {} /\ code = {}
    /\ proved = {}

-----------------------------------------------------------------------------
(* The store.                                                              *)

Exists == DOMAIN account

FindByEmail(e) == {a \in Exists : account[a].email = e}

CreateAccount(a, row) ==
    /\ a \in Account \ spent
    /\ spent' = spent \cup {a}
    /\ account' = [x \in Exists \cup {a} |-> IF x = a THEN row ELSE account[x]]

NewRow(e, verified, password) ==
    [email |-> e, verified |-> verified, password |-> password,
     status |-> "active", fails |-> 0]

\* createSession inserts a row; the live ones are counted up to the bound.
OneMore(a) ==
    [sessions EXCEPT ![a] = IF @ < MaxSessions THEN @ + 1 ELSE @]

\* (slip) createToken leaves the earlier links of its kind.
KeepsOldLinks(a, kind, e) ==
    /\ issued < MaxLinks
    /\ issued' = issued + 1
    /\ token' = token \cup {[n |-> issued + 1, account |-> a, kind |-> kind,
                             to |-> e, used |-> FALSE]}

\* createToken: a new link voids the earlier unused ones of its kind.
CreateToken(a, kind, e) ==
    /\ issued < MaxLinks
    /\ issued' = issued + 1
    /\ token' = {l \in token : l.account # a \/ l.kind # kind \/ l.used}
                   \cup {[n |-> issued + 1, account |-> a, kind |-> kind,
                          to |-> e, used |-> FALSE]}

\* (slip) consumeToken looks the row up without comparing its kind.
AnyLink(kind) == {l \in token : ~l.used}

\* The links consumeToken accepts for a kind; it marks the one it takes.
Live(kind) == {l \in token : l.kind = kind /\ ~l.used}

Consume(l) == token' = (token \ {l}) \cup {[l EXCEPT !.used = TRUE]}

-----------------------------------------------------------------------------
(* Sign-in with a password.                                                *)

\* register: the address must be free; the session starts after the mail.
Register(e) ==
    /\ FindByEmail(e) = {}
    /\ \E a \in Account \ spent :
          /\ waiting[a] < MaxWaiting
          /\ CreateAccount(a, NewRow(e, FALSE, TRUE))
          /\ CreateToken(a, "verify_email", e)
          /\ waiting' = [waiting EXCEPT ![a] = @ + 1]
    /\ UNCHANGED <<sessions, identity, chat, code, proved>>

\* The mail was sent or has failed: the request starts its session.  The
\* account may be gone by then, and the insert fails on its foreign key.
SignInAfterMail(a) ==
    /\ waiting[a] > 0
    /\ waiting' = [waiting EXCEPT ![a] = @ - 1]
    /\ sessions' = IF a \in Exists THEN OneMore(a) ELSE sessions
    /\ UNCHANGED <<account, spent, token, issued, identity, chat, code,
                   proved>>

\* login with the right password, on an account neither locked nor disabled.
Login(a) ==
    /\ a \in Exists /\ account[a].password
    /\ account[a].fails < MaxFails /\ account[a].status = "active"
    /\ account' = [account EXCEPT ![a].fails = 0]
    /\ sessions' = OneMore(a)
    /\ UNCHANGED <<spent, waiting, token, issued, identity, chat, code, proved>>

\* login with a wrong one: the last of MaxFails locks the account.
LoginFails(a) ==
    /\ a \in Exists /\ account[a].password
    /\ account[a].fails < MaxFails
    /\ account' = [account EXCEPT ![a].fails = @ + 1]
    /\ UNCHANGED <<spent, sessions, waiting, token, issued, identity, chat,
                   code, proved>>

\* The lock runs out; the count began again at zero when it was set.
LockEnds(a) ==
    /\ a \in Exists /\ account[a].fails = MaxFails
    /\ account' = [account EXCEPT ![a].fails = 0]
    /\ UNCHANGED <<spent, sessions, waiting, token, issued, identity, chat,
                   code, proved>>

\* requireAccount: a live session of an account that is not disabled.
SignedIn(a) == a \in Exists /\ sessions[a] > 0 /\ account[a].status = "active"

\* logout, or the session's time is over.
SessionEnds(a) ==
    /\ sessions[a] > 0
    /\ sessions' = [sessions EXCEPT ![a] = @ - 1]
    /\ UNCHANGED <<account, spent, waiting, token, issued, identity, chat, code,
                   proved>>

RevokeOtherSessions(a) ==
    /\ SignedIn(a) /\ sessions[a] > 1
    /\ sessions' = [sessions EXCEPT ![a] = 1]
    /\ UNCHANGED <<account, spent, waiting, token, issued, identity, chat, code,
                   proved>>

-----------------------------------------------------------------------------
(* The links in mail.                                                      *)

\* A link was followed: its address belongs to whoever holds the account.
Prove(l) == proved' = proved \cup {<<l.account, l.to>>}

\* verify-email.  The first time the welcome mail is awaited; the browser is
\* signed in after it unless it already was (asks).
VerifyEmail(l, asks) ==
    LET a == l.account IN
    /\ l \in Live("verify_email")
    /\ Consume(l) /\ Prove(l)
    /\ account' = [account EXCEPT ![a].verified = TRUE]
    /\ IF asks /\ ~account[a].verified
         THEN /\ waiting[a] < MaxWaiting
              /\ waiting' = [waiting EXCEPT ![a] = @ + 1]
              /\ UNCHANGED sessions
         ELSE /\ sessions' = IF asks THEN OneMore(a) ELSE sessions
              /\ UNCHANGED waiting
    /\ UNCHANGED <<spent, issued, identity, chat, code>>

ResendVerification(a) ==
    /\ SignedIn(a) /\ ~account[a].verified
    /\ CreateToken(a, "verify_email", account[a].email)
    /\ UNCHANGED <<account, spent, sessions, waiting, identity, chat, code,
                   proved>>

ForgotPassword(a) ==
    /\ a \in Exists /\ account[a].status = "active"
    /\ CreateToken(a, "reset_password", account[a].email)
    /\ UNCHANGED <<account, spent, sessions, waiting, identity, chat, code,
                   proved>>

\* reset-password: following the link proves the address too.  A disabled
\* account has its link consumed and nothing else.
ResetPassword(l) ==
    LET a == l.account IN
    /\ l \in Live("reset_password")
    /\ Consume(l) /\ Prove(l)
    /\ IF account[a].status = "disabled"
         THEN UNCHANGED <<account, sessions, waiting>>
         ELSE /\ waiting[a] < MaxWaiting
              /\ account' = [account EXCEPT ![a].password = TRUE,
                                            ![a].verified = TRUE,
                                            ![a].fails = 0]
              /\ sessions' = [sessions EXCEPT ![a] = 0]
              /\ waiting' = [waiting EXCEPT ![a] = @ + 1]
    /\ UNCHANGED <<spent, issued, identity, chat, code>>

\* change-password: this session stays, the others end.
ChangePassword(a) ==
    /\ SignedIn(a) /\ account[a].password
    /\ sessions' = [sessions EXCEPT ![a] = 1]
    /\ UNCHANGED <<account, spent, waiting, token, issued, identity, chat, code,
                   proved>>

\* change-email: nothing changes until the link sent to e is followed.
ChangeEmail(a, e) ==
    /\ SignedIn(a) /\ account[a].password
    /\ FindByEmail(e) = {}
    /\ CreateToken(a, "change_email", e)
    /\ UNCHANGED <<account, spent, sessions, waiting, identity, chat, code,
                   proved>>

\* (slip) confirm-email trusts the look change-email had at the address.
ConfirmUnchecked(l) ==
    /\ l \in Live("change_email")
    /\ Consume(l) /\ Prove(l)
    /\ account' = [account EXCEPT ![l.account].email = l.to,
                                  ![l.account].verified = TRUE]
    /\ UNCHANGED <<spent, sessions, waiting, issued, identity, chat, code>>

\* confirm-email: the link is consumed, also when another account has taken
\* the address since it was mailed.
ConfirmEmail(l) ==
    /\ l \in Live("change_email")
    /\ Consume(l) /\ Prove(l)
    /\ IF FindByEmail(l.to) \subseteq {l.account}
         THEN account' = [account EXCEPT ![l.account].email = l.to,
                                         ![l.account].verified = TRUE]
         ELSE UNCHANGED account
    /\ UNCHANGED <<spent, sessions, waiting, issued, identity, chat, code>>

LinkExpires(l) ==
    /\ l \in token
    /\ token' = token \ {l}
    /\ UNCHANGED <<account, spent, sessions, waiting, issued, identity, chat,
                   code, proved>>

-----------------------------------------------------------------------------
(* Leaving, and the owner's hand.                                          *)

\* deleteAccount: the rows that refer to the account go with it.
DeleteAccount(a) ==
    /\ SignedIn(a)
    /\ account' = [x \in Exists \ {a} |-> account[x]]
    /\ sessions' = [sessions EXCEPT ![a] = 0]
    /\ token' = {l \in token : l.account # a}
    /\ identity' = {i \in identity : i[2] # a}
    /\ chat' = {c \in chat : c[1] # a}
    /\ code' = code \ {a}
    /\ proved' = {p \in proved : p[1] # a}
    /\ UNCHANGED <<spent, waiting, issued>>

\* PATCH /v1/admin/accounts/:id.
SetStatus(a, s) ==
    /\ a \in Exists
    /\ account' = [account EXCEPT ![a].status = s]
    /\ sessions' = IF s = "disabled" THEN [sessions EXCEPT ![a] = 0]
                   ELSE sessions
    /\ UNCHANGED <<spent, waiting, token, issued, identity, chat, code, proved>>

-----------------------------------------------------------------------------
(* Google: the callback, once Google has vouched that g holds address e.   *)

\* linkIdentity moves the subject's row when there is one.
LinkIdentity(g, a) ==
    identity' = {i \in identity : i[1] # g} \cup {<<g, a>>}

Linked(g) == {i[2] : i \in {j \in identity : j[1] = g}} \cap Exists

\* The session the callback starts, unless the account is disabled.
GoogleSession(a) ==
    sessions' = IF account[a].status = "active" THEN OneMore(a) ELSE sessions

\* (slip) resolveAccount looks at the address before the subject.
GoogleByAddress(g, e) ==
    \E a \in FindByEmail(e) :
       /\ LinkIdentity(g, a)
       /\ proved' = proved \cup {<<a, e>>}
       /\ account' = [account EXCEPT ![a].verified = TRUE]
       /\ GoogleSession(a)
       /\ UNCHANGED <<spent, waiting, token, issued, chat, code>>

\* The account of this address: linked now, and verified.
GoogleLinks(g, e) ==
    /\ Linked(g) = {}
    /\ \E a \in FindByEmail(e) :
          /\ LinkIdentity(g, a)
          /\ proved' = proved \cup {<<a, e>>}
          /\ account' = [account EXCEPT ![a].verified = TRUE]
          /\ GoogleSession(a)
    /\ UNCHANGED <<spent, waiting, token, issued, chat, code>>

\* The subject is known: its account, whatever the address now is.
GoogleKnown(g) ==
    /\ \E a \in Linked(g) : GoogleSession(a)
    /\ UNCHANGED <<account, spent, waiting, token, issued, identity, chat, code,
                   proved>>

\* Nobody yet: a new account, verified and without a password.
GoogleCreates(g, e) ==
    /\ Linked(g) = {} /\ FindByEmail(e) = {}
    /\ \E a \in Account \ spent :
          /\ CreateAccount(a, NewRow(e, TRUE, FALSE))
          /\ LinkIdentity(g, a)
          /\ proved' = proved \cup {<<a, e>>}
          /\ sessions' = OneMore(a)
    /\ UNCHANGED <<waiting, token, issued, chat, code>>

-----------------------------------------------------------------------------
(* Telegram.                                                               *)

\* createCode: the account's one live code; an earlier one is dropped.
CreateCode(a) ==
    /\ SignedIn(a)
    /\ code' = code \cup {a}
    /\ UNCHANGED <<account, spent, sessions, waiting, token, issued, identity,
                   chat, proved>>

CodeExpires(a) ==
    /\ a \in code
    /\ code' = code \ {a}
    /\ UNCHANGED <<account, spent, sessions, waiting, token, issued, identity,
                   chat, proved>>

\* (slip) link deletes the account's row only.
PairsOnce(a, c) ==
    /\ a \in code
    /\ code' = code \ {a}
    /\ chat' = {r \in chat : r[1] # a} \cup {<<a, c>>}
    /\ UNCHANGED <<account, spent, sessions, waiting, token, issued, identity,
                   proved>>

\* /start with the code: consumed, and the chat moves to the account.
StartChat(a, c) ==
    /\ a \in code
    /\ code' = code \ {a}
    /\ chat' = {r \in chat : r[1] # a /\ r[2] # c} \cup {<<a, c>>}
    /\ UNCHANGED <<account, spent, sessions, waiting, token, issued, identity,
                   proved>>

\* Disconnect on the page, or /stop in the chat.
Disconnect(a) ==
    /\ SignedIn(a)
    /\ \E r \in chat : r[1] = a
    /\ chat' = {r \in chat : r[1] # a}
    /\ UNCHANGED <<account, spent, sessions, waiting, token, issued, identity,
                   code, proved>>

StopChat(c) ==
    /\ \E r \in chat : r[2] = c
    /\ chat' = {r \in chat : r[2] # c}
    /\ UNCHANGED <<account, spent, sessions, waiting, token, issued, identity,
                   code, proved>>

-----------------------------------------------------------------------------
Person(a) ==
    \/ SignInAfterMail(a) \/ Login(a) \/ LoginFails(a) \/ LockEnds(a)
    \/ SessionEnds(a) \/ RevokeOtherSessions(a)
    \/ ResendVerification(a) \/ ForgotPassword(a) \/ ChangePassword(a)
    \/ DeleteAccount(a) \/ CreateCode(a) \/ CodeExpires(a) \/ Disconnect(a)
    \/ \E e \in Address : ChangeEmail(a, e)
    \/ \E s \in Status : SetStatus(a, s)
    \/ \E c \in Chat : StartChat(a, c)

Follow(l) ==
    \/ \E asks \in BOOLEAN : VerifyEmail(l, asks)
    \/ ResetPassword(l) \/ ConfirmEmail(l) \/ LinkExpires(l)

Google(g) ==
    \/ GoogleKnown(g)
    \/ \E e \in Address : GoogleLinks(g, e) \/ GoogleCreates(g, e)

Next ==
    \/ \E e \in Address : Register(e)
    \/ \E a \in Account : Person(a)
    \/ \E l \in token : Follow(l)
    \/ \E g \in Subject : Google(g)
    \/ \E c \in Chat : StopChat(c)

Spec == Init /\ [][Next]_vars

-----------------------------------------------------------------------------
(* Properties.                                                             *)

\* No address belongs to two accounts, although change-email looks at it a
\* day before confirm-email writes it, and people register and sign in with
\* Google in between: no write of an address meets the UNIQUE index.
OneAccountPerAddress ==
    \A a, b \in Exists : account[a].email = account[b].email => a = b

\* A verified account's present address was shown to be its holder's: a link
\* mailed to that very address was followed, or Google vouched for it.  Links
\* of three kinds, mailed to two addresses, live side by side for a day.
VerifiedWasProved ==
    \A a \in Exists :
       account[a].verified => <<a, account[a].email>> \in proved

\* docs/accounts.md: "single use", and "making a new one voids the old": a
\* link that still works is the latest of its account and kind, later than
\* every other one that works or was used.
OnlyLatestWorks ==
    \A l, k \in token :
       (l.account = k.account /\ l.kind = k.kind /\ ~l.used /\ k # l)
          => k.n < l.n

\* A Google user who has an account keeps coming back to it for as long as it
\* exists, also when its address has changed and somebody else has taken the
\* address that Google knows.
SubjectKeepsAccount ==
    [][\A i \in identity : i[2] \in DOMAIN account' => i \in identity']_vars

\* docs/accounts.md: "one chat per account and one account per chat", however
\* codes of several accounts are opened in several chats: no insert meets the
\* primary key or the UNIQUE index.
ChatsPair ==
    \A r, s \in chat : (r[1] = s[1] \/ r[2] = s[2]) => r = s
=============================================================================
