--------------------------- MODULE AccountsProofs ---------------------------
(***************************************************************************)
(* Theorems about Accounts, for every number of accounts, addresses,       *)
(* Google users and chats and every value of the limits.  The inductive    *)
(* invariant IInv joins the types, the four invariants of the runs and     *)
(* LinkFits, which says why following a link proves the present address.   *)
(***************************************************************************)
EXTENDS Accounts, TLAPS

\* As long as an account is not verified, its address has not changed, and
\* the links that verify it were mailed there.
LinkFits ==
    \A l \in token :
       (l.kind # "change_email" /\ ~account[l.account].verified)
          => l.to = account[l.account].email

IInv == /\ TypeOK /\ LinkFits
        /\ OneAccountPerAddress /\ VerifiedWasProved
        /\ OnlyLatestWorks /\ ChatsPair

\* The initial state satisfies the invariant.
LEMMA InitInv == Init => IInv
BY BoundsAssumption
   DEF Init, IInv, TypeOK, LinkFits, OneAccountPerAddress, VerifiedWasProved,
       OnlyLatestWorks, ChatsPair, Exists

-----------------------------------------------------------------------------
(* The operators of the store.                                             *)

\* A new link is well typed, and nothing else is added to the table.
LEMMA TokenType ==
    ASSUME TypeOK, NEW a \in Account, NEW kind \in Kinds, NEW e \in Address,
           CreateToken(a, kind, e)
    PROVE  /\ token' \subseteq Link
           /\ issued' \in 0 .. MaxLinks
           /\ \A l \in token' : l.n <= issued'
           /\ \A l \in token' : l \in token \/ (l.account = a /\ l.to = e)
<1> DEFINE new == [n |-> issued + 1, account |-> a, kind |-> kind, to |-> e,
                   used |-> FALSE]
<1>1. issued \in Nat /\ issued + 1 \in 1 .. MaxLinks /\ issued' = issued + 1
  BY BoundsAssumption DEF TypeOK, CreateToken
<1>2. new \in Link
  BY <1>1 DEF Link
<1>3. new.n = issued + 1 /\ new.account = a /\ new.to = e
  OBVIOUS
<1>4. token' \subseteq token \cup {new}
  BY DEF CreateToken
<1>5. \A l \in token : l \in Link /\ l.n \in Nat /\ l.n <= issued
  BY DEF TypeOK, Link
<1> HIDE DEF new
<1>. QED  BY <1>1, <1>2, <1>3, <1>4, <1>5

\* Only the latest link of an account and kind is left unused by createToken.
LEMMA TokenLatest ==
    ASSUME TypeOK, OnlyLatestWorks,
           NEW a \in Account, NEW kind \in Kinds, NEW e \in Address,
           CreateToken(a, kind, e)
    PROVE  OnlyLatestWorks'
<1> DEFINE new == [n |-> issued + 1, account |-> a, kind |-> kind, to |-> e,
                   used |-> FALSE]
           old == {l \in token : l.account # a \/ l.kind # kind \/ l.used}
<1>1. issued \in Nat
  BY DEF TypeOK
<1>2. new.n = issued + 1 /\ new.account = a /\ new.kind = kind /\ ~new.used
  OBVIOUS
<1>3. token' = old \cup {new}
  BY DEF CreateToken
<1>4. \A l \in old : /\ l \in token /\ l.n \in Nat /\ l.n <= issued
                     /\ l.account = a /\ l.kind = kind => l.used
  BY DEF TypeOK, Link
<1> HIDE DEF new, old
<1>5. \A l, k \in token' :
         l.account = k.account /\ l.kind = k.kind /\ ~l.used /\ k # l => k.n < l.n
  BY <1>1, <1>2, <1>3, <1>4 DEF OnlyLatestWorks
<1>. QED  BY <1>5 DEF OnlyLatestWorks

\* Following a link keeps its row, marked.
LEMMA ConsumeType ==
    ASSUME TypeOK, NEW l \in token, Consume(l)
    PROVE  /\ token' \subseteq Link
           /\ \A k \in token' : k.n <= issued
           /\ \A k \in token' : \E j \in token :
                 /\ k.account = j.account /\ k.kind = j.kind
                 /\ k.to = j.to /\ k.n = j.n
BY DEF TypeOK, Consume, Link

\* and the order of the links.
LEMMA ConsumeLatest ==
    ASSUME TypeOK, OnlyLatestWorks, NEW l \in token, Consume(l)
    PROVE  OnlyLatestWorks'
BY DEF TypeOK, Consume, Link, OnlyLatestWorks

\* One more session stays within the bound.
LEMMA OneMoreType ==
    ASSUME TypeOK, NEW a \in Account
    PROVE  OneMore(a) \in [Account -> 0 .. MaxSessions]
BY BoundsAssumption DEF TypeOK, OneMore

-----------------------------------------------------------------------------
(* Every step keeps the types.                                             *)

\* Operation by operation: the columns, their ranges and the foreign keys.
LEMMA TypeStep == TypeOK /\ [Next]_vars => TypeOK'
<1> SUFFICES ASSUME TypeOK, [Next]_vars PROVE TypeOK'
  OBVIOUS
<1>1. CASE UNCHANGED vars
  BY <1>1 DEF TypeOK, vars
<1>2. ASSUME NEW e \in Address, Register(e) PROVE TypeOK'
  <2>1. PICK a \in Account \ spent :
          /\ waiting[a] < MaxWaiting
          /\ CreateAccount(a, NewRow(e, FALSE, TRUE))
          /\ CreateToken(a, "verify_email", e)
          /\ waiting' = [waiting EXCEPT ![a] = @ + 1]
    BY <1>2 DEF Register
  <2>2. NewRow(e, FALSE, TRUE) \in AccountRow
    BY BoundsAssumption DEF NewRow, AccountRow, Status
  <2>3. /\ DOMAIN account' = DOMAIN account \cup {a}
        /\ account' \in [DOMAIN account' -> AccountRow]
        /\ spent' \subseteq Account /\ DOMAIN account' \subseteq spent'
    BY <2>1, <2>2 DEF CreateAccount, Exists, TypeOK
  <2>4. waiting' \in [Account -> 0 .. MaxWaiting]
    BY <2>1, BoundsAssumption DEF TypeOK
  <2>5. /\ token' \subseteq Link /\ issued' \in 0 .. MaxLinks
        /\ \A l \in token' : l.n <= issued'
        /\ \A l \in token' : l \in token \/ (l.account = a /\ l.to = e)
    BY <2>1, TokenType DEF Kinds
  <2>. QED  BY <1>2, <2>3, <2>4, <2>5 DEF TypeOK, Register
<1>3. ASSUME NEW a \in Account, Person(a) PROVE TypeOK'
  <2>1. CASE SignInAfterMail(a)
    BY <2>1, OneMoreType, BoundsAssumption DEF SignInAfterMail, TypeOK
  <2>2. CASE Login(a)
    <3>1. account' \in [DOMAIN account' -> AccountRow] /\ DOMAIN account' = DOMAIN account
      BY <2>2, BoundsAssumption DEF Login, TypeOK, AccountRow, Exists
    <3>. QED  BY <2>2, <3>1, OneMoreType DEF Login, TypeOK
  <2>3. CASE LoginFails(a) \/ LockEnds(a)
    <3>1. PICK n \in 0 .. MaxFails :
            a \in DOMAIN account /\ account' = [account EXCEPT ![a].fails = n]
      <4>1. a \in DOMAIN account /\ account[a].fails \in 0 .. MaxFails
        BY <2>3 DEF LoginFails, LockEnds, Exists, TypeOK, AccountRow
      <4>2. CASE LoginFails(a)
        <5>1. account[a].fails + 1 \in 0 .. MaxFails
          BY <4>1, <4>2, BoundsAssumption DEF LoginFails
        <5>. QED  BY <4>1, <4>2, <5>1 DEF LoginFails
      <4>3. CASE LockEnds(a)
        <5>1. 0 \in 0 .. MaxFails
          BY BoundsAssumption
        <5>. QED  BY <4>1, <4>3, <5>1 DEF LockEnds
      <4>. QED  BY <2>3, <4>2, <4>3
    <3>2. account' \in [DOMAIN account' -> AccountRow] /\ DOMAIN account' = DOMAIN account
      BY <3>1 DEF TypeOK, AccountRow
    <3>. QED  BY <2>3, <3>2 DEF LoginFails, LockEnds, TypeOK
  <2>4. CASE SessionEnds(a) \/ RevokeOtherSessions(a) \/ ChangePassword(a)
    <3>1. sessions' \in [Account -> 0 .. MaxSessions]
      BY <2>4, BoundsAssumption
         DEF SessionEnds, RevokeOtherSessions, ChangePassword, TypeOK
    <3>. QED  BY <2>4, <3>1 DEF SessionEnds, RevokeOtherSessions, ChangePassword, TypeOK
  <2>5. ASSUME NEW kind \in Kinds, NEW e \in Address, CreateToken(a, kind, e), a \in Exists,
               UNCHANGED <<account, spent, sessions, waiting, identity, chat, code, proved>>
        PROVE  TypeOK'
    BY <2>5, TokenType DEF TypeOK, Exists
  <2>6. CASE ResendVerification(a) \/ ForgotPassword(a)
    <3>1. a \in Exists => account[a].email \in Address
      BY DEF TypeOK, AccountRow, Exists
    <3>. QED  BY <2>6, <2>5, <3>1 DEF ResendVerification, ForgotPassword, SignedIn, Kinds
  <2>7. ASSUME NEW e \in Address, ChangeEmail(a, e) PROVE TypeOK'
    BY <2>7, <2>5 DEF ChangeEmail, SignedIn, Kinds
  <2>8. CASE DeleteAccount(a)
    <3>1. /\ DOMAIN account' = DOMAIN account \ {a}
          /\ account' \in [DOMAIN account' -> AccountRow]
      BY <2>8 DEF DeleteAccount, TypeOK, Exists
    <3>2. sessions' \in [Account -> 0 .. MaxSessions]
      BY <2>8, BoundsAssumption DEF DeleteAccount, TypeOK
    <3>3. identity' \subseteq Subject \X DOMAIN account' /\ chat' \subseteq (DOMAIN account') \X Chat
      BY <2>8, <3>1 DEF DeleteAccount, TypeOK
    <3>. QED  BY <2>8, <3>1, <3>2, <3>3 DEF DeleteAccount, TypeOK
  <2>9. CASE CreateCode(a) \/ CodeExpires(a)
    BY <2>9 DEF CreateCode, CodeExpires, SignedIn, Exists, TypeOK
  <2>10. CASE Disconnect(a)
    BY <2>10 DEF Disconnect, TypeOK
  <2>11. ASSUME NEW s \in Status, SetStatus(a, s) PROVE TypeOK'
    <3>1. account' \in [DOMAIN account' -> AccountRow] /\ DOMAIN account' = DOMAIN account
      BY <2>11 DEF SetStatus, TypeOK, AccountRow, Exists
    <3>2. sessions' \in [Account -> 0 .. MaxSessions]
      BY <2>11, BoundsAssumption DEF SetStatus, TypeOK
    <3>. QED  BY <2>11, <3>1, <3>2 DEF SetStatus, TypeOK
  <2>12. ASSUME NEW c \in Chat, StartChat(a, c) PROVE TypeOK'
    BY <2>12 DEF StartChat, TypeOK
  <2>. QED
    BY <1>3, <2>1, <2>2, <2>3, <2>4, <2>6, <2>7, <2>8, <2>9, <2>10, <2>11, <2>12
       DEF Person
<1>4. ASSUME NEW l \in token, Follow(l) PROVE TypeOK'
  <2> DEFINE a == l.account
  <2>1. a \in DOMAIN account /\ a \in Account /\ l.to \in Address /\ a \in Exists
    BY DEF TypeOK, Link, Exists
  <2>2. ASSUME Consume(l) PROVE /\ token' \subseteq Link
                                /\ \A k \in token' : k.n <= issued
                                /\ \A k \in token' : k.account \in DOMAIN account
    BY <2>2, ConsumeType DEF TypeOK
  <2>3. ASSUME Prove(l) PROVE proved' \subseteq Account \X Address
    BY <2>1, <2>3 DEF Prove, TypeOK
  <2>4. ASSUME NEW asks \in BOOLEAN, VerifyEmail(l, asks) PROVE TypeOK'
    <3>1. account' \in [DOMAIN account' -> AccountRow] /\ DOMAIN account' = DOMAIN account
      BY <2>4, <2>1 DEF VerifyEmail, TypeOK, AccountRow
    <3>2. sessions' \in [Account -> 0 .. MaxSessions] /\ waiting' \in [Account -> 0 .. MaxWaiting]
      BY <2>4, <2>1, OneMoreType, BoundsAssumption DEF VerifyEmail, TypeOK
    <3>. QED  BY <2>4, <2>2, <2>3, <3>1, <3>2 DEF VerifyEmail, TypeOK
  <2>5. CASE ResetPassword(l)
    <3>1. account' \in [DOMAIN account' -> AccountRow] /\ DOMAIN account' = DOMAIN account
      <4>1. CASE account[a].status = "disabled"
        BY <2>5, <4>1 DEF ResetPassword, TypeOK
      <4>2. CASE account[a].status # "disabled"
        <5>1. account' = [account EXCEPT ![a].password = TRUE, ![a].verified = TRUE,
                                         ![a].fails = 0]
          BY <2>5, <4>2 DEF ResetPassword
        <5>2. account' = [account EXCEPT ![a] = [account[a] EXCEPT
                             !.password = TRUE, !.verified = TRUE, !.fails = 0]]
          BY <5>1, <2>1
        <5>3. account[a] \in AccountRow /\ 0 \in 0 .. MaxFails
          BY <2>1, BoundsAssumption DEF TypeOK
        <5>4. [account[a] EXCEPT !.password = TRUE, !.verified = TRUE, !.fails = 0]
                 \in AccountRow
          BY <5>3 DEF AccountRow
        <5>. QED  BY <2>1, <5>2, <5>4 DEF TypeOK
      <4>. QED  BY <4>1, <4>2
    <3>2. sessions' \in [Account -> 0 .. MaxSessions] /\ waiting' \in [Account -> 0 .. MaxWaiting]
      BY <2>5, <2>1, BoundsAssumption DEF ResetPassword, TypeOK
    <3>. QED  BY <2>5, <2>2, <2>3, <3>1, <3>2 DEF ResetPassword, TypeOK
  <2>6. CASE ConfirmEmail(l)
    <3>1. account' \in [DOMAIN account' -> AccountRow] /\ DOMAIN account' = DOMAIN account
      BY <2>6, <2>1 DEF ConfirmEmail, TypeOK, AccountRow
    <3>. QED  BY <2>6, <2>2, <2>3, <3>1 DEF ConfirmEmail, TypeOK
  <2>7. CASE LinkExpires(l)
    BY <2>7 DEF LinkExpires, TypeOK
  <2>. QED  BY <1>4, <2>4, <2>5, <2>6, <2>7 DEF Follow
<1>5. ASSUME NEW g \in Subject, Google(g) PROVE TypeOK'
  <2>1. ASSUME NEW a \in Account, GoogleSession(a) PROVE sessions' \in [Account -> 0 .. MaxSessions]
    BY <2>1, OneMoreType DEF GoogleSession, TypeOK
  <2>2. CASE GoogleKnown(g)
    BY <2>2, <2>1 DEF GoogleKnown, Linked, Exists, TypeOK
  <2>3. ASSUME NEW e \in Address, GoogleLinks(g, e) PROVE TypeOK'
    <3>1. PICK a \in FindByEmail(e) :
            /\ LinkIdentity(g, a) /\ proved' = proved \cup {<<a, e>>}
            /\ account' = [account EXCEPT ![a].verified = TRUE]
            /\ GoogleSession(a)
      BY <2>3 DEF GoogleLinks
    <3>2. a \in DOMAIN account /\ a \in Account
      BY DEF FindByEmail, Exists, TypeOK
    <3>3. account' \in [DOMAIN account' -> AccountRow] /\ DOMAIN account' = DOMAIN account
      BY <3>1, <3>2 DEF TypeOK, AccountRow
    <3>4. identity' \subseteq Subject \X DOMAIN account
      BY <3>1, <3>2 DEF LinkIdentity, TypeOK
    <3>. QED  BY <2>1, <2>3, <3>1, <3>2, <3>3, <3>4 DEF GoogleLinks, TypeOK
  <2>4. ASSUME NEW e \in Address, GoogleCreates(g, e) PROVE TypeOK'
    <3>1. PICK a \in Account \ spent :
            /\ CreateAccount(a, NewRow(e, TRUE, FALSE)) /\ LinkIdentity(g, a)
            /\ proved' = proved \cup {<<a, e>>} /\ sessions' = OneMore(a)
      BY <2>4 DEF GoogleCreates
    <3>2. NewRow(e, TRUE, FALSE) \in AccountRow
      BY BoundsAssumption DEF NewRow, AccountRow, Status
    <3>3. /\ DOMAIN account' = DOMAIN account \cup {a}
          /\ account' \in [DOMAIN account' -> AccountRow]
          /\ spent' \subseteq Account /\ DOMAIN account' \subseteq spent'
      BY <3>1, <3>2 DEF CreateAccount, Exists, TypeOK
    <3>4. identity' \subseteq Subject \X DOMAIN account'
      BY <3>1, <3>3 DEF LinkIdentity, TypeOK
    <3>. QED  BY <2>4, <3>1, <3>3, <3>4, OneMoreType DEF GoogleCreates, TypeOK
  <2>. QED  BY <1>5, <2>2, <2>3, <2>4 DEF Google
<1>6. ASSUME NEW c \in Chat, StopChat(c) PROVE TypeOK'
  BY <1>6 DEF StopChat, TypeOK
<1>. QED  BY <1>1, <1>2, <1>3, <1>4, <1>5, <1>6 DEF Next

-----------------------------------------------------------------------------
(* What a step does to the addresses.  Most steps leave them alone.        *)

\* The accounts, their addresses and whether these are verified.
Same == /\ DOMAIN account' = DOMAIN account
        /\ \A a \in DOMAIN account :
              /\ account'[a].email = account[a].email
              /\ account'[a].verified = account[a].verified

\* The steps that leave the addresses, the links and the history alone.
Quiet == /\ Same
         /\ token' \subseteq token
         /\ proved \subseteq proved'

\* The three invariants about addresses.
Addresses == OneAccountPerAddress /\ VerifiedWasProved /\ LinkFits

\* Which steps are quiet.
LEMMA QuietSteps ==
    ASSUME TypeOK, NEW a \in Account,
           \/ SignInAfterMail(a) \/ Login(a) \/ LoginFails(a) \/ LockEnds(a)
           \/ SessionEnds(a) \/ RevokeOtherSessions(a) \/ ChangePassword(a)
           \/ CreateCode(a) \/ CodeExpires(a) \/ Disconnect(a)
           \/ \E s \in Status : SetStatus(a, s)
           \/ \E c \in Chat : StartChat(a, c) \/ StopChat(c)
           \/ \E l \in token : LinkExpires(l)
           \/ \E g \in Subject : GoogleKnown(g)
           \/ UNCHANGED vars
    PROVE  Quiet
<1>1. CASE \/ Login(a) \/ LoginFails(a) \/ LockEnds(a)
           \/ \E s \in Status : SetStatus(a, s)
  BY <1>1 DEF Quiet, Same, Login, LoginFails, LockEnds, SetStatus, TypeOK, AccountRow, Exists
<1>2. CASE \E l \in token : LinkExpires(l)
  BY <1>2 DEF Quiet, Same, LinkExpires
<1>3. CASE \/ SignInAfterMail(a) \/ SessionEnds(a) \/ RevokeOtherSessions(a)
           \/ ChangePassword(a) \/ CreateCode(a) \/ CodeExpires(a) \/ Disconnect(a)
           \/ \E c \in Chat : StartChat(a, c) \/ StopChat(c)
           \/ \E g \in Subject : GoogleKnown(g)
           \/ UNCHANGED vars
  <2>1. UNCHANGED <<account, token, proved>>
    BY <1>3 DEF SignInAfterMail, SessionEnds, RevokeOtherSessions, ChangePassword, CreateCode,
                CodeExpires, Disconnect, StartChat, StopChat, GoogleKnown, vars
  <2>. QED  BY <2>1 DEF Quiet, Same
<1>. QED  BY <1>1, <1>2, <1>3

\* A quiet step keeps what is known of the addresses.
LEMMA QuietKeeps == ASSUME TypeOK, Addresses, Quiet PROVE Addresses'
BY DEF TypeOK, Addresses, Quiet, Same, Exists, OneAccountPerAddress, VerifiedWasProved, LinkFits

\* So does a step that mails a link to the account's address, or a link of
\* change-email to any.
LEMMA MailKeeps ==
    ASSUME TypeOK, Addresses, NEW a \in Exists, NEW kind \in Kinds, NEW e \in Address,
           CreateToken(a, kind, e), kind = "change_email" \/ e = account[a].email,
           UNCHANGED <<account, proved>>
    PROVE  Addresses'
<1>1. OneAccountPerAddress' /\ VerifiedWasProved'
  BY DEF Addresses, OneAccountPerAddress, VerifiedWasProved, Exists
<1>2. \A l \in token' : l \in token \/ (l.account = a /\ l.to = e /\ l.kind = kind)
  BY DEF CreateToken
<1>3. LinkFits'
  BY <1>2 DEF Addresses, LinkFits
<1>. QED  BY <1>1, <1>3 DEF Addresses

\* A new account has an address nobody has, and the history holds it when it
\* is verified; of links it has only the one just mailed.
LEMMA CreateKeeps ==
    ASSUME TypeOK, Addresses, NEW a \in Account \ spent, NEW e \in Address,
           NEW v \in BOOLEAN, NEW p \in BOOLEAN,
           FindByEmail(e) = {}, CreateAccount(a, NewRow(e, v, p)),
           proved \subseteq proved', v => <<a, e>> \in proved',
           \A l \in token' : l \in token \/ (l.account = a /\ l.to = e)
    PROVE  Addresses'
<1>1. /\ DOMAIN account' = DOMAIN account \cup {a} /\ a \notin DOMAIN account
      /\ account'[a].email = e /\ account'[a].verified = v
      /\ \A b \in DOMAIN account : account'[b] = account[b] /\ account[b].email # e
  BY DEF TypeOK, CreateAccount, NewRow, FindByEmail, Exists
<1>2. OneAccountPerAddress'
  BY <1>1 DEF Addresses, OneAccountPerAddress, Exists
<1>3. VerifiedWasProved'
  BY <1>1 DEF Addresses, VerifiedWasProved, Exists
<1>4. LinkFits'
  BY <1>1 DEF Addresses, LinkFits, TypeOK
<1>. QED  BY <1>2, <1>3, <1>4 DEF Addresses

\* An account that is verified at the address it has, or at one that nobody
\* else has, when the history holds it.
LEMMA VerifyKeeps ==
    ASSUME TypeOK, Addresses, NEW a \in DOMAIN account, NEW e \in Address,
           DOMAIN account' = DOMAIN account,
           account'[a].email = e, FindByEmail(e) \subseteq {a}, account'[a].verified,
           \A b \in DOMAIN account : b # a => account'[b] = account[b],
           proved \subseteq proved', <<a, e>> \in proved',
           \A k \in token' : \E j \in token :
              k.account = j.account /\ k.kind = j.kind /\ k.to = j.to
    PROVE  Addresses'
<1>1. \A b \in DOMAIN account : b # a => account'[b] = account[b] /\ account[b].email # e
  BY DEF FindByEmail, Exists
<1>2. OneAccountPerAddress'
  BY <1>1 DEF Addresses, OneAccountPerAddress, Exists
<1>3. VerifiedWasProved'
  BY <1>1 DEF Addresses, VerifiedWasProved, Exists
<1>4. LinkFits'
  BY <1>1 DEF Addresses, LinkFits, TypeOK
<1>. QED  BY <1>2, <1>3, <1>4 DEF Addresses

\* Every step keeps the three invariants about addresses.
LEMMA AddressStep ==
    ASSUME TypeOK, Addresses, [Next]_vars PROVE Addresses'
<1>1. ASSUME UNCHANGED vars PROVE Addresses'
  BY <1>1 DEF vars, Addresses, OneAccountPerAddress, VerifiedWasProved, LinkFits, Exists
<1>2. ASSUME NEW e \in Address, Register(e) PROVE Addresses'
  <2>1. PICK a \in Account \ spent :
          CreateAccount(a, NewRow(e, FALSE, TRUE)) /\ CreateToken(a, "verify_email", e)
    BY <1>2 DEF Register
  <2>2. \A l \in token' : l \in token \/ (l.account = a /\ l.to = e)
    BY <2>1, TokenType DEF Kinds
  <2>3. FindByEmail(e) = {} /\ proved' = proved
    BY <1>2 DEF Register
  <2>. QED  BY <2>1, <2>2, <2>3, CreateKeeps
<1>3. ASSUME NEW a \in Account, Person(a) PROVE Addresses'
  <2>1. ASSUME \/ SignInAfterMail(a) \/ Login(a) \/ LoginFails(a) \/ LockEnds(a)
               \/ SessionEnds(a) \/ RevokeOtherSessions(a) \/ ChangePassword(a)
               \/ CreateCode(a) \/ CodeExpires(a) \/ Disconnect(a)
               \/ \E s \in Status : SetStatus(a, s)
               \/ \E c \in Chat : StartChat(a, c)
        PROVE  Addresses'
    BY <2>1, QuietSteps, QuietKeeps
  <2>2. CASE ResendVerification(a) \/ ForgotPassword(a)
    <3>1. a \in Exists /\ account[a].email \in Address
      BY <2>2 DEF ResendVerification, ForgotPassword, SignedIn, TypeOK, AccountRow, Exists
    <3>. QED  BY <2>2, <3>1, MailKeeps DEF ResendVerification, ForgotPassword, Kinds
  <2>3. ASSUME NEW e \in Address, ChangeEmail(a, e) PROVE Addresses'
    BY <2>3, MailKeeps DEF ChangeEmail, SignedIn, Kinds
  <2>4. CASE DeleteAccount(a)
    <3>1. /\ DOMAIN account' = DOMAIN account \ {a}
          /\ \A b \in DOMAIN account' : account'[b] = account[b]
      BY <2>4 DEF DeleteAccount, Exists
    <3>2. /\ \A l \in token' : l \in token /\ l.account # a
          /\ \A b \in Exists, e \in Address : b # a /\ <<b, e>> \in proved => <<b, e>> \in proved'
      BY <2>4 DEF DeleteAccount
    <3>3. OneAccountPerAddress' /\ LinkFits'
      BY <3>1, <3>2 DEF Addresses, OneAccountPerAddress, LinkFits, TypeOK, Exists
    <3>4. VerifiedWasProved'
      BY <3>1, <3>2 DEF Addresses, VerifiedWasProved, TypeOK, AccountRow, Exists
    <3>. QED  BY <3>3, <3>4 DEF Addresses
  <2>. QED  BY <1>3, <2>1, <2>2, <2>3, <2>4 DEF Person
<1>4. ASSUME NEW l \in token, Follow(l) PROVE Addresses'
  <2> DEFINE a == l.account
  <2>1. /\ a \in DOMAIN account /\ a \in Account /\ l.to \in Address
        /\ account[a].email \in Address /\ account[a].verified \in BOOLEAN
    BY DEF TypeOK, Link, AccountRow
  <2>2. ASSUME Consume(l)
        PROVE  \A k \in token' : \E j \in token :
                  k.account = j.account /\ k.kind = j.kind /\ k.to = j.to
    BY <2>2, ConsumeType
  <2>3. ASSUME Prove(l) PROVE proved \subseteq proved' /\ <<a, l.to>> \in proved'
    BY <2>3 DEF Prove
  <2>4. FindByEmail(account[a].email) \subseteq {a}
    BY <2>1 DEF FindByEmail, Exists, Addresses, OneAccountPerAddress
  <2>5. l.kind # "change_email" /\ Prove(l) => <<a, account[a].email>> \in proved'
    BY <2>1, <2>3 DEF Addresses, LinkFits, VerifiedWasProved, Exists
  <2>6. ASSUME NEW asks \in BOOLEAN, VerifyEmail(l, asks) PROVE Addresses'
    <3>1. /\ DOMAIN account' = DOMAIN account
          /\ account'[a].email = account[a].email /\ account'[a].verified
          /\ \A b \in DOMAIN account : b # a => account'[b] = account[b]
      BY <2>6, <2>1 DEF VerifyEmail, TypeOK, AccountRow
    <3>2. l.kind # "change_email" /\ Prove(l) /\ Consume(l)
      BY <2>6 DEF VerifyEmail, Live
    <3>. QED  BY <2>1, <2>2, <2>3, <2>4, <2>5, <3>1, <3>2, VerifyKeeps
  <2>7. CASE ResetPassword(l)
    <3>1. l.kind # "change_email" /\ Prove(l) /\ Consume(l)
      BY <2>7 DEF ResetPassword, Live
    <3>2. CASE account[a].status = "disabled"
      <4>1. account' = account
        BY <2>7, <3>2 DEF ResetPassword
      <4>. QED
        BY <2>2, <2>3, <3>1, <4>1
           DEF Addresses, OneAccountPerAddress, VerifiedWasProved, LinkFits, Exists
    <3>3. CASE account[a].status # "disabled"
      <4>1. account' = [account EXCEPT ![a].password = TRUE, ![a].verified = TRUE,
                                       ![a].fails = 0]
        BY <2>7, <3>3 DEF ResetPassword
      <4>2. /\ DOMAIN account' = DOMAIN account
            /\ account'[a].email = account[a].email /\ account'[a].verified
            /\ \A b \in DOMAIN account : b # a => account'[b] = account[b]
        BY <4>1, <2>1 DEF TypeOK, AccountRow
      <4>. QED  BY <2>1, <2>2, <2>3, <2>4, <2>5, <3>1, <4>2, VerifyKeeps
    <3>. QED  BY <3>2, <3>3
  <2>8. CASE ConfirmEmail(l)
    <3>1. Prove(l) /\ Consume(l)
      BY <2>8 DEF ConfirmEmail
    <3>2. CASE FindByEmail(l.to) \subseteq {a}
      <4>1. /\ DOMAIN account' = DOMAIN account
            /\ account'[a].email = l.to /\ account'[a].verified
            /\ \A b \in DOMAIN account : b # a => account'[b] = account[b]
        <5>1. account' = [account EXCEPT ![a].email = l.to, ![a].verified = TRUE]
          BY <2>8, <3>2 DEF ConfirmEmail
        <5>2. account' = [account EXCEPT ![a] =
                             [account[a] EXCEPT !.email = l.to, !.verified = TRUE]]
          BY <5>1, <2>1
        <5>3. account[a] \in AccountRow
          BY <2>1 DEF TypeOK
        <5>. QED  BY <2>1, <5>2, <5>3 DEF AccountRow
      <4>. QED  BY <2>1, <2>2, <2>3, <3>1, <3>2, <4>1, VerifyKeeps
    <3>3. CASE ~(FindByEmail(l.to) \subseteq {a})
      <4>1. account' = account
        BY <2>8, <3>3 DEF ConfirmEmail
      <4>. QED
        BY <2>2, <2>3, <3>1, <4>1
           DEF Addresses, OneAccountPerAddress, VerifiedWasProved, LinkFits, Exists
    <3>. QED  BY <3>2, <3>3
  <2>9. CASE LinkExpires(l)
    BY <2>9, <2>1, QuietSteps, QuietKeeps
  <2>. QED  BY <1>4, <2>6, <2>7, <2>8, <2>9 DEF Follow
<1>5. ASSUME NEW g \in Subject, Google(g) PROVE Addresses'
  <2>1. CASE GoogleKnown(g)
    BY <2>1, QuietKeeps DEF GoogleKnown, Quiet, Same
  <2>2. ASSUME NEW e \in Address, GoogleLinks(g, e) PROVE Addresses'
    <3>1. PICK a \in FindByEmail(e) :
            /\ proved' = proved \cup {<<a, e>>}
            /\ account' = [account EXCEPT ![a].verified = TRUE]
      BY <2>2 DEF GoogleLinks
    <3>2. a \in DOMAIN account /\ account[a].email = e
      BY DEF FindByEmail, Exists
    <3>3. /\ DOMAIN account' = DOMAIN account
          /\ account'[a].email = e /\ account'[a].verified
          /\ \A b \in DOMAIN account : b # a => account'[b] = account[b]
      BY <3>1, <3>2 DEF TypeOK, AccountRow
    <3>4. FindByEmail(e) \subseteq {a} /\ token' = token
      BY <2>2, <3>2 DEF FindByEmail, Exists, Addresses, OneAccountPerAddress, GoogleLinks
    <3>. QED  BY <3>1, <3>2, <3>3, <3>4, VerifyKeeps
  <2>3. ASSUME NEW e \in Address, GoogleCreates(g, e) PROVE Addresses'
    <3>1. PICK a \in Account \ spent :
            /\ CreateAccount(a, NewRow(e, TRUE, FALSE))
            /\ proved' = proved \cup {<<a, e>>}
      BY <2>3 DEF GoogleCreates
    <3>2. FindByEmail(e) = {} /\ token' = token
      BY <2>3 DEF GoogleCreates
    <3>. QED  BY <3>1, <3>2, CreateKeeps
  <2>. QED  BY <1>5, <2>1, <2>2, <2>3 DEF Google
<1>6. ASSUME NEW c \in Chat, StopChat(c) PROVE Addresses'
  BY <1>6, QuietKeeps DEF StopChat, Quiet, Same
<1>. QED  BY <1>1, <1>2, <1>3, <1>4, <1>5, <1>6 DEF Next

-----------------------------------------------------------------------------
(* Links, chats and Google users.                                          *)

\* Only createToken and consumeToken add rows, and they keep the order.
LEMMA LatestStep ==
    ASSUME TypeOK, OnlyLatestWorks, [Next]_vars PROVE OnlyLatestWorks'
<1>1. ASSUME token' \subseteq token PROVE OnlyLatestWorks'
  BY <1>1 DEF OnlyLatestWorks
<1>2. ASSUME UNCHANGED vars PROVE OnlyLatestWorks'
  BY <1>1, <1>2 DEF vars
<1>3. ASSUME NEW e \in Address, Register(e) PROVE OnlyLatestWorks'
  BY <1>3, TokenLatest DEF Register, Kinds
<1>4. ASSUME NEW a \in Account, Person(a) PROVE OnlyLatestWorks'
  <2>1. CASE ResendVerification(a) \/ ForgotPassword(a)
    <3>1. account[a].email \in Address
      BY <2>1 DEF ResendVerification, ForgotPassword, SignedIn, TypeOK, AccountRow, Exists
    <3>. QED  BY <2>1, <3>1, TokenLatest DEF ResendVerification, ForgotPassword, Kinds
  <2>2. ASSUME NEW e \in Address, ChangeEmail(a, e) PROVE OnlyLatestWorks'
    BY <2>2, TokenLatest DEF ChangeEmail, Kinds
  <2>3. ASSUME \/ SignInAfterMail(a) \/ Login(a) \/ LoginFails(a) \/ LockEnds(a)
               \/ SessionEnds(a) \/ RevokeOtherSessions(a) \/ ChangePassword(a)
               \/ CreateCode(a) \/ CodeExpires(a) \/ Disconnect(a)
               \/ \E s \in Status : SetStatus(a, s)
               \/ \E c \in Chat : StartChat(a, c)
        PROVE  OnlyLatestWorks'
    BY <1>1, <2>3, QuietSteps DEF Quiet
  <2>4. CASE DeleteAccount(a)
    BY <1>1, <2>4 DEF DeleteAccount
  <2>. QED  BY <1>4, <2>1, <2>2, <2>3, <2>4 DEF Person
<1>5. ASSUME NEW l \in token, Follow(l) PROVE OnlyLatestWorks'
  <2>1. CASE LinkExpires(l)
    BY <1>1, <2>1 DEF LinkExpires
  <2>2. CASE Consume(l)
    BY <2>2, ConsumeLatest
  <2>. QED  BY <1>5, <2>1, <2>2 DEF Follow, VerifyEmail, ResetPassword, ConfirmEmail
<1>6. ASSUME NEW g \in Subject, Google(g) PROVE OnlyLatestWorks'
  BY <1>1, <1>6 DEF Google, GoogleKnown, GoogleLinks, GoogleCreates
<1>7. ASSUME NEW c \in Chat, StopChat(c) PROVE OnlyLatestWorks'
  BY <1>1, <1>7 DEF StopChat
<1>. QED  BY <1>2, <1>3, <1>4, <1>5, <1>6, <1>7 DEF Next

\* A chat is linked only after the rows of both sides are gone.
LEMMA ChatStep ==
    ASSUME TypeOK, ChatsPair, [Next]_vars PROVE ChatsPair'
<1>1. ASSUME chat' \subseteq chat PROVE ChatsPair'
  BY <1>1 DEF ChatsPair
<1>2. ASSUME NEW a \in Account, NEW c \in Chat, StartChat(a, c) PROVE ChatsPair'
  BY <1>2 DEF StartChat, ChatsPair, TypeOK
<1>3. ASSUME NEW a \in Account, Person(a), ~ \E c \in Chat : StartChat(a, c)
      PROVE  chat' \subseteq chat
  BY <1>3 DEF Person, SignInAfterMail, Login, LoginFails, LockEnds, SessionEnds,
     RevokeOtherSessions, ResendVerification, ForgotPassword, ChangePassword, DeleteAccount,
     CreateCode, CodeExpires, Disconnect, ChangeEmail, SetStatus
<1>4. ASSUME \/ UNCHANGED vars
             \/ \E e \in Address : Register(e)
             \/ \E l \in token : Follow(l)
             \/ \E g \in Subject : Google(g)
             \/ \E c \in Chat : StopChat(c)
      PROVE  chat' \subseteq chat
  BY <1>4 DEF vars, Register, Follow, VerifyEmail, ResetPassword, ConfirmEmail, LinkExpires,
     Google, GoogleKnown, GoogleLinks, GoogleCreates, StopChat
<1>. QED  BY <1>1, <1>2, <1>3, <1>4 DEF Next

\* Rows of account_identity go only with their account.
LEMMA IdentityStep ==
    ASSUME TypeOK, [Next]_vars
    PROVE  \A i \in identity : i[2] \in DOMAIN account' => i \in identity'
<1> DEFINE Kept == \A i \in identity : i[2] \in DOMAIN account' => i \in identity'
<1>1. ASSUME NEW a \in Account, DeleteAccount(a) PROVE Kept
  BY <1>1 DEF DeleteAccount
<1>2. ASSUME NEW g \in Subject, NEW a \in Account, Linked(g) = {}, LinkIdentity(g, a) PROVE Kept
  BY <1>2 DEF Linked, LinkIdentity, TypeOK, Exists
<1>3. ASSUME NEW g \in Subject, Google(g) PROVE Kept
  <2>1. CASE GoogleKnown(g)
    BY <2>1 DEF GoogleKnown
  <2>2. ASSUME NEW e \in Address, GoogleLinks(g, e) \/ GoogleCreates(g, e) PROVE Kept
    <3>1. PICK a \in Account : Linked(g) = {} /\ LinkIdentity(g, a)
      BY <2>2 DEF GoogleLinks, GoogleCreates, FindByEmail, Exists, TypeOK
    <3>. QED  BY <3>1, <1>2
  <2>. QED  BY <1>3, <2>1, <2>2 DEF Google
<1>4. ASSUME NEW a \in Account, Person(a), ~DeleteAccount(a) PROVE identity' = identity
  BY <1>4 DEF Person, SignInAfterMail, Login, LoginFails, LockEnds, SessionEnds,
     RevokeOtherSessions, ResendVerification, ForgotPassword, ChangePassword,
     CreateCode, CodeExpires, Disconnect, ChangeEmail, SetStatus, StartChat
<1>5. ASSUME \/ UNCHANGED vars
             \/ \E e \in Address : Register(e)
             \/ \E l \in token : Follow(l)
             \/ \E c \in Chat : StopChat(c)
      PROVE  identity' = identity
  BY <1>5 DEF vars, Register, Follow, VerifyEmail, ResetPassword, ConfirmEmail, LinkExpires,
     StopChat
<1>. QED  BY <1>1, <1>3, <1>4, <1>5 DEF Next

-----------------------------------------------------------------------------
(* The theorems.                                                           *)

\* Every reachable state satisfies the inductive invariant.
THEOREM Invariance == Spec => []IInv
<1>1. IInv /\ [Next]_vars => IInv'
  BY TypeStep, AddressStep, LatestStep, ChatStep DEF IInv, Addresses
<1>. QED  BY InitInv, <1>1, PTL DEF Spec

\* The tables stay well typed, and no row refers to an account that is gone.
THEOREM TypeCorrect == Spec => []TypeOK
<1>1. IInv => TypeOK
  BY DEF IInv
<1>. QED  BY <1>1, Invariance, PTL

\* No two accounts ever share an address.
THEOREM OneAddressEach == Spec => []OneAccountPerAddress
<1>1. IInv => OneAccountPerAddress
  BY DEF IInv
<1>. QED  BY <1>1, Invariance, PTL

\* A verified address was shown to be its holder's.
THEOREM Verified == Spec => []VerifiedWasProved
<1>1. IInv => VerifiedWasProved
  BY DEF IInv
<1>. QED  BY <1>1, Invariance, PTL

\* Only the latest link of an account and kind works.
THEOREM Latest == Spec => []OnlyLatestWorks
<1>1. IInv => OnlyLatestWorks
  BY DEF IInv
<1>. QED  BY <1>1, Invariance, PTL

\* One chat per account and one account per chat.
THEOREM Paired == Spec => []ChatsPair
<1>1. IInv => ChatsPair
  BY DEF IInv
<1>. QED  BY <1>1, Invariance, PTL

\* A Google user keeps its account for as long as the account exists.
THEOREM Kept == Spec => SubjectKeepsAccount
<1>1. TypeOK /\ [Next]_vars
         => [\A i \in identity : i[2] \in DOMAIN account' => i \in identity']_vars
  BY IdentityStep
<1>. QED  BY <1>1, TypeCorrect, PTL DEF Spec, SubjectKeepsAccount

=============================================================================
