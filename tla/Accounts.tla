------------------------------- MODULE Accounts -------------------------------
(***************************************************************************)
(* Accounts and their wallets.  A handler reads the row of the account,    *)
(* decides, and later writes the columns it has assigned; other handlers   *)
(* commit in between.  Each wallet holds its key twice, under the password *)
(* of the day it was made and, for the server to sign with, under the      *)
(* master key.  Wallets made before the master copies have none.           *)
(***************************************************************************)
EXTENDS Integers, FiniteSets

CONSTANTS
  Emails,
  Passwords,
  Requests,     \* the requests a handler ever runs for
  MaxTokens     \* bound of the model: verification and reset tokens made

ASSUME AccountAssumption == MaxTokens \in Nat

VARIABLES
  account,   \* the row of the user and its wallet, per address
  mailed,    \* the links that have arrived
  tokens,    \* tokens made so far; 0 is a token that is null
  request

accountVars == <<account, mailed, tokens, request>>

Tokens == 0..MaxTokens

NoAccount == [exists |-> FALSE]

Account ==
  [exists : {TRUE}, password : Passwords, verified : BOOLEAN,
   verifyToken : Tokens, resetToken : Tokens,
   keyPassword : Passwords, master : BOOLEAN, member : BOOLEAN]

Kinds == {"register", "verify", "resend", "login", "forgot", "reset", "export", "profile"}

\* "row" is the account as the handler has read it.
Request ==
  [pc : {"write", "mail", "ended"}, kind : Kinds, email : Emails,
   password : Passwords \cup {"none"}, token : Tokens,
   row : Account \cup {NoAccount}, answer : {"none", "ok", "refused", "error"}]

NoRequest == [pc |-> "new"]

AccountTypeOK ==
  /\ account \in [Emails -> Account \cup {NoAccount}]
  /\ mailed \in SUBSET [email : Emails, kind : {"verify", "reset"}, token : Tokens \ {0}]
  /\ tokens \in Tokens
  /\ request \in [Requests -> Request \cup {NoRequest}]

\* The account of someone who was there before the master copies.
Earlier(p) ==
  [exists |-> TRUE, password |-> p, verified |-> TRUE, verifyToken |-> 0,
   resetToken |-> 0, keyPassword |-> p, master |-> FALSE, member |-> TRUE]

AccountInit ==
  /\ account \in [Emails -> {NoAccount} \cup {Earlier(p) : p \in Passwords}]
  /\ mailed = {}
  /\ tokens = 0
  /\ request = [r \in Requests |-> NoRequest]

-----------------------------------------------------------------------------
Exists(e) == account[e].exists

\* The handler has read what it needs, and either answers or goes on to write.
Begin(r, kind, e, p, t, answer) ==
  /\ request[r] = NoRequest
  /\ request' = [request EXCEPT ![r] =
       [pc |-> IF answer = "none" THEN "write" ELSE "ended", kind |-> kind,
        email |-> e, password |-> p, token |-> t, row |-> account[e], answer |-> answer]]
  /\ UNCHANGED <<account, mailed, tokens>>

BeginRegister(r, e, p) ==
  Begin(r, "register", e, p, 0, IF Exists(e) THEN "refused" ELSE "none")

\* The link names its account by the token; it may have expired.
BeginVerify(r, e, t) ==
  /\ [email |-> e, kind |-> "verify", token |-> t] \in mailed
  /\ \/ Begin(r, "verify", e, "none", t, "refused")
     \/ Exists(e) /\ account[e].verifyToken = t /\ Begin(r, "verify", e, "none", t, "none")

BeginResend(r, e) ==
  Begin(r, "resend", e, "none", 0,
        IF Exists(e) /\ ~account[e].verified THEN "none" ELSE "ok")

BeginLogin(r, e, p) ==
  Begin(r, "login", e, p, 0,
        IF Exists(e) /\ account[e].password = p THEN "none" ELSE "refused")

BeginForgot(r, e) ==
  Begin(r, "forgot", e, "none", 0, IF Exists(e) THEN "none" ELSE "ok")

BeginReset(r, e, t, p) ==
  /\ [email |-> e, kind |-> "reset", token |-> t] \in mailed
  /\ \/ Begin(r, "reset", e, p, t, "refused")
     \/ Exists(e) /\ account[e].resetToken = t /\ Begin(r, "reset", e, p, t, "none")

\* The key is decrypted with the password of the request; what cannot be
\* decrypted raises.
BeginExport(r, e, p) ==
  /\ Exists(e)
  /\ Begin(r, "export", e, p, 0,
           IF account[e].password # p THEN "refused"
           ELSE IF account[e].keyPassword = p THEN "ok" ELSE "error")

BeginProfile(r, e) == Exists(e) /\ Begin(r, "profile", e, "none", 0, "none")

-----------------------------------------------------------------------------
(***************************************************************************)
(* Writing.                                                                *)
(***************************************************************************)
Email(r) == request[r].email

Writing(r, kind) == request[r] # NoRequest /\ request[r].pc = "write" /\ request[r].kind = kind

\* A slip: the row goes back as it was read, with the new values.
WriteRow(r, row, fresh) == account' = [account EXCEPT ![Email(r)] = row]

\* Only the columns the handler has assigned another value are written.  A
\* "fresh" one always has another: the hash of a password is salted anew.
WriteBack(r, row, fresh) ==
  LET read == request[r].row
      now  == account[Email(r)]
  IN  account' = [account EXCEPT ![Email(r)] =
        [column \in DOMAIN now |->
           IF row[column] = read[column] /\ column \notin fresh
           THEN now[column] ELSE row[column]]]

Answer(r, answer) ==
  request' = [request EXCEPT ![r].pc = "ended", ![r].answer = answer]

NewToken == tokens < MaxTokens /\ tokens' = tokens + 1

Mailing(r) == request' = [request EXCEPT ![r].pc = "mail", ![r].token = tokens']

\* A slip: the user is committed before the wallet and the organization.
NewAccountInParts(p, t) ==
  {[exists |-> TRUE, password |-> p, verified |-> FALSE, verifyToken |-> t, resetToken |-> 0,
    keyPassword |-> p, master |-> whole, member |-> whole] : whole \in BOOLEAN}

\* User, wallet, organization, membership and audit entry in one transaction.
NewAccount(p, t) ==
  {[exists |-> TRUE, password |-> p, verified |-> FALSE, verifyToken |-> t, resetToken |-> 0,
    keyPassword |-> p, master |-> TRUE, member |-> TRUE]}

\* The address is unique in the table: another registration may have been faster.
Register(r) ==
  /\ Writing(r, "register")
  /\ IF Exists(Email(r))
     THEN Answer(r, "error") /\ UNCHANGED <<account, tokens>>
     ELSE /\ NewToken
          /\ \E new \in NewAccount(request[r].password, tokens') :
               account' = [account EXCEPT ![Email(r)] = new]
          /\ Mailing(r)
  /\ UNCHANGED mailed

Verified(row) == [row EXCEPT !.verified = TRUE, !.verifyToken = 0]

Verify(r) ==
  /\ Writing(r, "verify")
  /\ WriteBack(r, IF request[r].row.verified THEN request[r].row ELSE Verified(request[r].row), {})
  /\ Answer(r, "ok")
  /\ UNCHANGED <<mailed, tokens>>

Resend(r) ==
  /\ Writing(r, "resend")
  /\ NewToken
  /\ WriteBack(r, [request[r].row EXCEPT !.verifyToken = tokens'], {})
  /\ Mailing(r)
  /\ UNCHANGED mailed

\* The master copy is made from the key as the password opens it, if it does.
Backfilled(r) ==
  LET row == request[r].row
  IN  IF ~row.master /\ row.keyPassword = request[r].password
      THEN [row EXCEPT !.master = TRUE] ELSE row

Login(r) ==
  /\ Writing(r, "login")
  /\ WriteBack(r, Backfilled(r), {})
  /\ Answer(r, "ok")
  /\ UNCHANGED <<mailed, tokens>>

Forgot(r) ==
  /\ Writing(r, "forgot")
  /\ NewToken
  /\ WriteBack(r, [request[r].row EXCEPT !.resetToken = tokens'], {})
  /\ Mailing(r)
  /\ UNCHANGED mailed

\* The wallet's copy under the password is left as it is.
Reset(r) ==
  /\ Writing(r, "reset")
  /\ WriteBack(r, [request[r].row EXCEPT !.password = request[r].password, !.resetToken = 0],
               {"password"})
  /\ Answer(r, "ok")
  /\ UNCHANGED <<mailed, tokens>>

\* A name, and no column of the model.
Profile(r) ==
  /\ Writing(r, "profile")
  /\ WriteBack(r, request[r].row, {})
  /\ Answer(r, "ok")
  /\ UNCHANGED <<mailed, tokens>>

\* A mail is sent after the commit, and may not arrive; the answer is the same.
Mail(r) ==
  /\ request[r] # NoRequest
  /\ request[r].pc = "mail"
  /\ LET kind == IF request[r].kind = "forgot" THEN "reset" ELSE "verify"
         link == [email |-> Email(r), kind |-> kind, token |-> request[r].token]
     IN  mailed' = mailed \cup {link} \/ UNCHANGED mailed
  /\ Answer(r, "ok")
  /\ UNCHANGED <<account, tokens>>

\* The process stops, or the database refuses: nothing of the handler is written.
Fail(r) ==
  /\ request[r] # NoRequest
  /\ request[r].pc # "ended"
  /\ Answer(r, "error")
  /\ UNCHANGED <<account, mailed, tokens>>

AccountNext ==
  \E r \in Requests :
    \/ \E e \in Emails :
         \/ BeginResend(r, e) \/ BeginForgot(r, e) \/ BeginProfile(r, e)
         \/ \E p \in Passwords :
              BeginRegister(r, e, p) \/ BeginLogin(r, e, p) \/ BeginExport(r, e, p)
         \/ \E t \in Tokens :
              BeginVerify(r, e, t) \/ \E p \in Passwords : BeginReset(r, e, t, p)
    \/ Register(r) \/ Verify(r) \/ Resend(r) \/ Login(r) \/ Forgot(r) \/ Reset(r)
    \/ Profile(r) \/ Mail(r) \/ Fail(r)

AccountSpec == AccountInit /\ [][AccountNext]_accountVars

-----------------------------------------------------------------------------
\* An account is there with its wallet and its organization or not at all, and
\* whoever is not verified has a token to be verified by, with links, resends
\* and failures in any order (auth.py:74-113, 137-180).
AccountsUsable ==
  \A e \in Emails : Exists(e) =>
    /\ account[e].member
    /\ account[e].verified \/ account[e].verifyToken # 0

\* No handler brings back what it read and another has replaced since: a
\* verified account stays verified, a master copy stays, a link that has been
\* used or replaced never opens the account again, and a password changes only
\* when a reset is committed, to the password of that request.  It does not say
\* that what is committed lasts: a reset that read the row earlier clears a
\* token made since, and of two resets the last one's password stands
\* (auth.py:149, 173, 199, 247, 274).
NothingRevived ==
  [][\A e \in Emails : Exists(e) =>
       /\ account[e].verified => account'[e].verified
       /\ account[e].master => account'[e].master
       /\ \A t \in 1..tokens :
            /\ account[e].verifyToken # t => account'[e].verifyToken # t
            /\ account[e].resetToken # t => account'[e].resetToken # t
       /\ account'[e].password # account[e].password =>
            \E r \in Requests :
              /\ Reset(r)
              /\ Email(r) = e
              /\ account'[e].password = request[r].password]_accountVars
=============================================================================
