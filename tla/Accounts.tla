------------------------------ MODULE Accounts ------------------------------
(***************************************************************************)
(* The documents of "users" and the requests that look one up and write it *)
(* later: registration, one-time codes, password resets of users and       *)
(* administrators (src/controllers/auth, admin.go) and the link to a       *)
(* Solana wallet (solana.go).                                              *)
(*                                                                         *)
(* A request is a process.  Every lookup and every update is keyed by      *)
(* e-mail; with two documents of one e-mail, which one a call takes is     *)
(* left open.  A request that is refused changes nothing and is no step.   *)
(***************************************************************************)
EXTENDS Naturals

CONSTANTS
    Requests,       \* goroutines that serve requests
    Emails,         \* e-mail addresses
    AdminEmail,     \* the address of the administrator made at the start
    NoEmail,        \* the address of a document that does not exist
    Wallets,        \* Solana wallet addresses
    NoWallet,       \* no wallet
    MaxDocuments,   \* bound: documents ever inserted
    MaxCodes        \* bound: codes and reset tokens ever generated

ASSUME AccountsAssumption ==
    /\ AdminEmail \in Emails
    /\ NoEmail \notin Emails
    /\ NoWallet \notin Wallets
    /\ MaxDocuments \in Nat \ {0}
    /\ MaxCodes \in Nat

VARIABLES
    users,          \* the collection, by order of insertion
    inserted,       \* how many documents were inserted so far
    issued,         \* how many codes were generated so far
    expired,        \* codes whose time is over
    mailbox,        \* the codes each address was sent
    sessions,       \* e-mails somebody holds a JWT of
    pc,             \* the next call of each request
    req,            \* what it works on
    used,           \* history: codes that a document was changed by
    proved,         \* history: the document a code was found good for
    raced,          \* history: e-mails and wallets that two requests took at once
    disturbed       \* history: e-mails deleted while a request worked on them

requests == <<pc, req>>
history == <<used, proved, raced, disturbed>>
vars == <<users, inserted, issued, expired, mailbox, sessions, requests, history>>

Documents == 1 .. MaxDocuments
Codes == 1 .. MaxCodes
NoCode == 0

\* "password" is the code that set the password, NoCode the registration;
\* "otp" and "resetToken" are what the stored hashes are made of.
User ==
    [email : Emails, admin : BOOLEAN, seeded : BOOLEAN, isVerified : BOOLEAN,
     password : Codes \union {NoCode}, otp : Codes \union {NoCode},
     resetToken : Codes \union {NoCode}, wallet : Wallets \union {NoWallet}]

Absent ==
    [email |-> NoEmail, admin |-> FALSE, seeded |-> FALSE, isVerified |-> FALSE,
     password |-> NoCode, otp |-> NoCode, resetToken |-> NoCode,
     wallet |-> NoWallet]

NewUser(e, code) == [Absent EXCEPT !.email = e, !.otp = code]

DefaultAdmin ==
    [Absent EXCEPT !.email = AdminEmail, !.admin = TRUE, !.seeded = TRUE,
                   !.isVerified = TRUE]

Request ==
    [email : Emails \union {NoEmail}, code : Codes \union {NoCode},
     wallet : Wallets \union {NoWallet}]

Idle == [email |-> NoEmail, code |-> NoCode, wallet |-> NoWallet]

Stages ==
    {"idle", "insert", "saveOTP", "saveToken", "mail", "verify", "reset",
     "adminReset", "owner", "link"}

TypeOK ==
    /\ users \in [Documents -> User \union {Absent}]
    /\ inserted \in 0 .. MaxDocuments
    /\ issued \in 0 .. MaxCodes
    /\ expired \subseteq Codes
    /\ mailbox \in [Emails -> SUBSET Codes]
    /\ sessions \subseteq Emails
    /\ pc \in [Requests -> Stages]
    /\ req \in [Requests -> Request]
    /\ used \subseteq Codes
    /\ proved \subseteq Documents \X Codes
    /\ raced \subseteq Emails \union Wallets
    /\ disturbed \subseteq Emails

\* The first start of the server has made the administrator.
Init ==
    /\ users = [d \in Documents |-> IF d = 1 THEN DefaultAdmin ELSE Absent]
    /\ inserted = 1
    /\ issued = 0
    /\ expired = {}
    /\ mailbox = [e \in Emails |-> {}]
    /\ sessions = {}
    /\ pc = [r \in Requests |-> "idle"]
    /\ req = [r \in Requests |-> Idle]
    /\ used = {}
    /\ proved = {}
    /\ raced = {}
    /\ disturbed = {}

DocumentsOf(e) == {d \in Documents : users[d].email = e}

Mailed == UNION {mailbox[e] : e \in Emails}

Start(r, stage, e, code, w) ==
    /\ pc[r] = "idle"
    /\ pc' = [pc EXCEPT ![r] = stage]
    /\ req' = [req EXCEPT ![r] = [email |-> e, code |-> code, wallet |-> w]]

Goto(r, stage) ==
    /\ pc' = [pc EXCEPT ![r] = stage]
    /\ UNCHANGED req

Finish(r) ==
    /\ pc' = [pc EXCEPT ![r] = "idle"]
    /\ req' = [req EXCEPT ![r] = Idle]

\* A generated code goes on to its mail.
GenerateCode(r, stage) ==
    /\ pc[r] = stage
    /\ issued < MaxCodes
    /\ issued' = issued + 1
    /\ pc' = [pc EXCEPT ![r] = "mail"]
    /\ req' = [req EXCEPT ![r].code = issued + 1]

-----------------------------------------------------------------------------
(* Registration and the verification of the e-mail.                        *)

Registering(e) == {r \in Requests : pc[r] = "insert" /\ req[r].email = e}

\* Slip: the address is not looked up.
RegisterControllerUnchecked(r, e) ==
    /\ Start(r, "insert", e, NoCode, NoWallet)
    /\ raced' = IF Registering(e) = {} THEN raced ELSE raced \union {e}
    /\ UNCHANGED <<users, inserted, issued, expired, mailbox, sessions, used,
                   proved, disturbed>>

RegisterController(r, e) ==
    /\ DocumentsOf(e) = {}
    /\ Start(r, "insert", e, NoCode, NoWallet)
    /\ raced' = IF Registering(e) = {} THEN raced ELSE raced \union {e}
    /\ UNCHANGED <<users, inserted, issued, expired, mailbox, sessions, used,
                   proved, disturbed>>

InsertUser(r) ==
    /\ GenerateCode(r, "insert")
    /\ inserted < MaxDocuments
    /\ inserted' = inserted + 1
    /\ users' = [users EXCEPT ![inserted + 1] = NewUser(req[r].email, issued + 1)]
    /\ UNCHANGED <<expired, mailbox, sessions, history>>

\* A mail that is lost, or cannot be sent, is one whose code nobody enters.
SendEmail(r) ==
    /\ pc[r] = "mail"
    /\ mailbox' = [mailbox EXCEPT ![req[r].email] = @ \union {req[r].code}]
    /\ Finish(r)
    /\ UNCHANGED <<users, inserted, issued, expired, sessions, history>>

ResendOTPController(r, e) ==
    /\ \E d \in DocumentsOf(e) : ~users[d].isVerified
    /\ Start(r, "saveOTP", e, NoCode, NoWallet)
    /\ UNCHANGED <<users, inserted, issued, expired, mailbox, sessions, history>>

\* The update of a resend and of an administrator's reset: it is mailed even
\* if the update found nobody.
SaveOTP(r) ==
    /\ GenerateCode(r, "saveOTP")
    /\ \/ /\ DocumentsOf(req[r].email) = {}
          /\ UNCHANGED users
       \/ \E d \in DocumentsOf(req[r].email) :
             users' = [users EXCEPT ![d].otp = issued + 1]
    /\ UNCHANGED <<inserted, expired, mailbox, sessions, history>>

\* Slip: any code will do.
VerifyOTPControllerAnyCode(r, e, code) ==
    /\ \E d \in DocumentsOf(e) :
          /\ users[d].otp \notin expired \union {NoCode}
          /\ proved' = IF users[d].otp = code THEN proved \union {<<d, code>>} ELSE proved
    /\ Start(r, "verify", e, code, NoWallet)
    /\ UNCHANGED <<users, inserted, issued, expired, mailbox, sessions, used,
                   raced, disturbed>>

VerifyOTPController(r, e, code) ==
    /\ \E d \in DocumentsOf(e) :
          /\ users[d].otp = code
          /\ code \notin expired
          /\ proved' = proved \union {<<d, code>>}
    /\ Start(r, "verify", e, code, NoWallet)
    /\ UNCHANGED <<users, inserted, issued, expired, mailbox, sessions, used,
                   raced, disturbed>>

\* What an update by e-mail does: it changes a document of the address, if
\* there is one, and then the code has been used.
ApplyCode(r, stage, changed) ==
    /\ pc[r] = stage
    /\ \/ /\ DocumentsOf(req[r].email) = {}
          /\ UNCHANGED <<users, used>>
       \/ \E d \in DocumentsOf(req[r].email) :
             /\ users' = [users EXCEPT ![d] = changed[d]]
             /\ used' = used \union {req[r].code}
    /\ Finish(r)
    /\ UNCHANGED <<inserted, issued, expired, mailbox, sessions, proved, raced, disturbed>>

MarkVerified(r) ==
    ApplyCode(r, "verify",
              [d \in Documents |-> [users[d] EXCEPT !.isVerified = TRUE, !.otp = NoCode]])

\* The password has to be right, which is the client's affair, and the e-mail
\* verified. The JWT names the e-mail and outlives the document.
LoginController(e) ==
    /\ \E d \in DocumentsOf(e) : users[d].isVerified
    /\ sessions' = sessions \union {e}
    /\ UNCHANGED <<users, inserted, issued, expired, mailbox, requests, history>>

-----------------------------------------------------------------------------
(* Forgotten passwords.                                                    *)

ForgotPasswordController(r, e) ==
    /\ DocumentsOf(e) /= {}
    /\ Start(r, "saveToken", e, NoCode, NoWallet)
    /\ UNCHANGED <<users, inserted, issued, expired, mailbox, sessions, history>>

SaveResetToken(r) ==
    /\ GenerateCode(r, "saveToken")
    /\ \/ /\ DocumentsOf(req[r].email) = {}
          /\ UNCHANGED users
       \/ \E d \in DocumentsOf(req[r].email) :
             users' = [users EXCEPT ![d].resetToken = issued + 1]
    /\ UNCHANGED <<inserted, expired, mailbox, sessions, history>>

ResetPasswordController(r, e, token) ==
    /\ \E d \in DocumentsOf(e) :
          /\ users[d].resetToken = token
          /\ token \notin expired
          /\ proved' = proved \union {<<d, token>>}
    /\ Start(r, "reset", e, token, NoWallet)
    /\ UNCHANGED <<users, inserted, issued, expired, mailbox, sessions, used,
                   raced, disturbed>>

\* Slip: the token is not removed.
SetPasswordKeepToken(r) ==
    ApplyCode(r, "reset",
              [d \in Documents |-> [users[d] EXCEPT !.password = req[r].code]])

SetPassword(r) ==
    ApplyCode(r, "reset",
              [d \in Documents |->
                  [users[d] EXCEPT !.password = req[r].code, !.resetToken = NoCode]])

AdminForgotPassword(r, e) ==
    /\ \E d \in DocumentsOf(e) : users[d].admin
    /\ Start(r, "saveOTP", e, NoCode, NoWallet)
    /\ UNCHANGED <<users, inserted, issued, expired, mailbox, sessions, history>>

\* An administrator's reset takes the code that also verifies an e-mail.
AdminResetPassword(r, e, code) ==
    /\ \E d \in DocumentsOf(e) :
          /\ users[d].admin
          /\ users[d].otp = code
          /\ code \notin expired
          /\ proved' = proved \union {<<d, code>>}
    /\ Start(r, "adminReset", e, code, NoWallet)
    /\ UNCHANGED <<users, inserted, issued, expired, mailbox, sessions, used,
                   raced, disturbed>>

SetAdminPassword(r) ==
    ApplyCode(r, "adminReset",
              [d \in Documents |->
                  [users[d] EXCEPT !.password = req[r].code, !.otp = NoCode]])

-----------------------------------------------------------------------------
(* The Solana wallet.                                                      *)

ConnectSolanaWallet(r, e, w) ==
    /\ e \in sessions
    /\ DocumentsOf(e) /= {}
    /\ Start(r, "owner", e, NoCode, w)
    /\ UNCHANGED <<users, inserted, issued, expired, mailbox, sessions, history>>

OtherOwners(r) ==
    {d \in Documents : users[d].wallet = req[r].wallet /\ users[d].email /= req[r].email}

Linking(w) == {r \in Requests : pc[r] = "link" /\ req[r].wallet = w}

\* Slip: the owner of the wallet is not looked up.
FindOwnerUnchecked(r) ==
    /\ pc[r] = "owner"
    /\ Goto(r, "link")
    /\ raced' = IF Linking(req[r].wallet) = {} THEN raced
                ELSE raced \union {req[r].wallet}
    /\ UNCHANGED <<users, inserted, issued, expired, mailbox, sessions, used,
                   proved, disturbed>>

FindOwner(r) ==
    /\ pc[r] = "owner"
    /\ IF OtherOwners(r) = {} THEN Goto(r, "link") ELSE Finish(r)
    /\ raced' = IF Linking(req[r].wallet) = {} THEN raced
                ELSE raced \union {req[r].wallet}
    /\ UNCHANGED <<users, inserted, issued, expired, mailbox, sessions, used,
                   proved, disturbed>>

LinkWallet(r) ==
    /\ pc[r] = "link"
    /\ \/ /\ DocumentsOf(req[r].email) = {}
          /\ UNCHANGED users
       \/ \E d \in DocumentsOf(req[r].email) :
             users' = [users EXCEPT ![d].wallet = req[r].wallet]
    /\ Finish(r)
    /\ UNCHANGED <<inserted, issued, expired, mailbox, sessions, history>>

DisconnectSolanaWallet(e) ==
    /\ e \in sessions
    /\ \E d \in DocumentsOf(e) : users' = [users EXCEPT ![d].wallet = NoWallet]
    /\ UNCHANGED <<inserted, issued, expired, mailbox, sessions, requests, history>>

-----------------------------------------------------------------------------
(* Deletion, time, failures.                                               *)

\* The call of both deletions that concerns "users".
DeleteUser(e) ==
    /\ \E d \in DocumentsOf(e) : users' = [users EXCEPT ![d] = Absent]
    /\ disturbed' = IF \E r \in Requests : req[r].email = e
                    THEN disturbed \union {e} ELSE disturbed
    /\ UNCHANGED <<inserted, issued, expired, mailbox, sessions, requests, used,
                   proved, raced>>

\* The time of a code that is stored is over.
Expire(code) ==
    /\ \E d \in Documents : code \in {users[d].otp, users[d].resetToken}
    /\ code \notin expired
    /\ expired' = expired \union {code}
    /\ UNCHANGED <<users, inserted, issued, mailbox, sessions, requests, history>>

\* A call returns an error, or the code cannot be hashed.
CallFails(r) ==
    /\ pc[r] /= "idle"
    /\ Finish(r)
    /\ UNCHANGED <<users, inserted, issued, expired, mailbox, sessions, history>>

\* The server starts again: EnsureDefaultAdminAccount, before any request.
Restart ==
    /\ \/ /\ DocumentsOf(AdminEmail) = {}
          /\ inserted < MaxDocuments
          /\ inserted' = inserted + 1
          /\ users' = [users EXCEPT ![inserted + 1] = DefaultAdmin]
       \/ /\ \E d \in DocumentsOf(AdminEmail) :
                users' = [users EXCEPT ![d].admin = TRUE]
          /\ UNCHANGED inserted
    /\ pc' = [r \in Requests |-> "idle"]
    /\ req' = [r \in Requests |-> Idle]
    /\ UNCHANGED <<issued, expired, mailbox, sessions, history>>

-----------------------------------------------------------------------------

Arrival(r, e) ==
    \/ RegisterController(r, e)
    \/ ResendOTPController(r, e)
    \/ ForgotPasswordController(r, e)
    \/ AdminForgotPassword(r, e)
    \/ \E code \in Mailed :
          \/ VerifyOTPController(r, e, code)
          \/ ResetPasswordController(r, e, code)
          \/ AdminResetPassword(r, e, code)
    \/ \E w \in Wallets : ConnectSolanaWallet(r, e, w)

RequestStep(r) ==
    \/ InsertUser(r) \/ SaveOTP(r) \/ SaveResetToken(r) \/ SendEmail(r)
    \/ MarkVerified(r) \/ SetPassword(r) \/ SetAdminPassword(r)
    \/ FindOwner(r) \/ LinkWallet(r)
    \/ CallFails(r)

Next ==
    \/ \E r \in Requests : RequestStep(r) \/ \E e \in Emails : Arrival(r, e)
    \/ \E e \in Emails :
          LoginController(e) \/ DisconnectSolanaWallet(e) \/ DeleteUser(e)
    \/ \E code \in Codes : Expire(code)
    \/ Restart

Spec == Init /\ [][Next]_vars
-----------------------------------------------------------------------------
(* Safety.                                                                 *)

\* The lookup of a registration is worth what it can be without a unique index:
\* an e-mail has two documents only if two registrations overlapped.
DuplicatesRaced ==
    \A d1, d2 \in Documents :
        d1 /= d2 /\ users[d1].email = users[d2].email =>
            users[d1].email \in raced \union {NoEmail}

\* A code or token that changed a document is stored in none: no request that
\* starts later can use it again, although it is removed by e-mail and the
\* check was made on a copy, and although users and administrators share a field.
UsedCodesAreGone ==
    \A d \in Documents :
        users[d].email \in raced \union {NoEmail}
            \/ used \intersect {users[d].otp, users[d].resetToken} = {}

\* Who has shown, for this very document, a code that was sent to its address.
ProvedFor(d, code) == <<d, code>> \in proved /\ code \in mailbox[users[d].email]

\* A verification or a new password is the work of whoever reads the mail of
\* the account: an update reaches a document its code was not checked against
\* only if the e-mail had two, or was deleted while a request worked on it.
OwnerProved ==
    \A d \in Documents :
        LET u == users[d] IN
        u.email \notin raced \union disturbed \union {NoEmail} =>
            /\ u.isVerified => u.seeded \/ \E code \in Codes : ProvedFor(d, code)
            /\ u.password /= NoCode => ProvedFor(d, u.password)

\* Two accounts have the same wallet only if they connected it at the same time.
SharedWalletsRaced ==
    \A d1, d2 \in Documents :
        users[d1].wallet = users[d2].wallet /\ users[d1].email /= users[d2].email =>
            users[d1].wallet \in raced \union {NoWallet}
=============================================================================
