-------------------------- MODULE Accounts_proofs ---------------------------
EXTENDS Accounts, TLAPS

Checked(r) == pc[r] \in {"verify", "reset", "adminReset"}

\* What the stage of a request says about what it works on.
Staged ==
    \A r \in Requests :
        /\ pc[r] /= "idle" => req[r].email \in Emails
        /\ pc[r] \in {"owner", "link"} => req[r].wallet \in Wallets
        /\ pc[r] = "mail" \/ Checked(r) => req[r].code \in Codes

\* Neither the next document nor the next code is anywhere yet.
Numbered ==
    /\ issued \in Nat /\ inserted \in Nat
    /\ \A d \in Documents : users[d] /= Absent => d \in 1 .. inserted
    /\ \A d \in Documents : users[d].otp \in 0 .. issued /\ users[d].resetToken \in 0 .. issued
    /\ \A r \in Requests : req[r].code \in 0 .. issued
    /\ \A c \in used : c \in 1 .. issued
    /\ \A e \in Emails : \A c \in mailbox[e] : c \in 1 .. issued

\* A registration that nobody overlaps is alone with its e-mail until it inserts.
Alone ==
    \A r \in Requests :
        pc[r] = "insert" /\ req[r].email \notin raced =>
            /\ \A d \in Documents : users[d].email /= req[r].email
            /\ \A q \in Requests :
                  pc[q] = "insert" /\ req[q].email = req[r].email => q = r

\* A code is stored in one field of one document.
StoredOnce ==
    \A d1, d2 \in Documents :
        /\ users[d1].otp = users[d2].otp /\ users[d1].otp /= NoCode => d1 = d2
        /\ users[d1].resetToken = users[d2].resetToken /\ users[d1].resetToken /= NoCode
              => d1 = d2
        /\ users[d1].otp = users[d2].resetToken => users[d1].otp = NoCode

Holds(d, code) == code /= NoCode /\ code \in {users[d].otp, users[d].resetToken}

\* A code that is stored is known to the address of its document only, and a
\* request that checked it knows the field.
Addressed ==
    \A d \in Documents :
        /\ \A e \in Emails : \A c \in mailbox[e] : Holds(d, c) => e = users[d].email
        /\ \A r \in Requests :
              /\ Holds(d, req[r].code) => req[r].email = users[d].email
              /\ pc[r] = "reset" => users[d].otp /= req[r].code
              /\ pc[r] \in {"verify", "adminReset"} => users[d].resetToken /= req[r].code

\* While no deletion has touched its e-mail, the document that a request checked
\* its code against is there, and is the only one.
StillProved ==
    \A r \in Requests :
        Checked(r) /\ req[r].email \notin raced \union disturbed =>
            /\ \E d \in Documents : users[d].email = req[r].email
            /\ \A d \in Documents :
                  users[d].email = req[r].email => ProvedFor(d, req[r].code)

\* A connection that nobody overlaps is the only one with its wallet.
AloneWithWallet ==
    \A r \in Requests :
        pc[r] = "link" /\ req[r].wallet \notin raced =>
            /\ \A d \in Documents :
                  users[d].wallet = req[r].wallet => users[d].email = req[r].email
            /\ \A q \in Requests :
                  pc[q] = "link" /\ req[q].wallet = req[r].wallet => q = r

-----------------------------------------------------------------------------
(* What the updates make of a document: the code changes a field or two in *)
(* place; these lemmas say what every field is afterwards.                 *)

Is(x, u, verified, password, otp, resetToken, wallet) ==
    /\ x \in User
    /\ x.email = u.email
    /\ x.seeded = u.seeded
    /\ x.isVerified = verified
    /\ x.password = password
    /\ x.otp = otp
    /\ x.resetToken = resetToken
    /\ x.wallet = wallet

\* The updates of one or two fields that the handlers make, field by field.
LEMMA SetFields ==
    ASSUME NEW u \in User, NEW c \in Codes \union {NoCode},
           NEW w \in Wallets \union {NoWallet}
    PROVE  /\ Is([u EXCEPT !.otp = c], u, u.isVerified, u.password, c, u.resetToken, u.wallet)
           /\ Is([u EXCEPT !.resetToken = c], u, u.isVerified, u.password, u.otp, c, u.wallet)
           /\ Is([u EXCEPT !.isVerified = TRUE, !.otp = NoCode], u, TRUE, u.password, NoCode,
                 u.resetToken, u.wallet)
           /\ Is([u EXCEPT !.password = c, !.resetToken = NoCode], u, u.isVerified, c, u.otp,
                 NoCode, u.wallet)
           /\ Is([u EXCEPT !.password = c, !.otp = NoCode], u, u.isVerified, c, NoCode,
                 u.resetToken, u.wallet)
           /\ Is([u EXCEPT !.wallet = w], u, u.isVerified, u.password, u.otp, u.resetToken, w)
           /\ Is([u EXCEPT !.admin = TRUE], u, u.isVerified, u.password, u.otp, u.resetToken,
                 u.wallet)
<1>1. Is([u EXCEPT !.otp = c], u, u.isVerified, u.password, c, u.resetToken, u.wallet)
  BY DEF Is, User, NoCode
<1>2. Is([u EXCEPT !.resetToken = c], u, u.isVerified, u.password, u.otp, c, u.wallet)
  BY DEF Is, User, NoCode
<1>3. Is([u EXCEPT !.isVerified = TRUE, !.otp = NoCode], u, TRUE, u.password, NoCode,
         u.resetToken, u.wallet)
  BY DEF Is, User, NoCode
<1>4. Is([u EXCEPT !.password = c, !.resetToken = NoCode], u, u.isVerified, c, u.otp,
         NoCode, u.wallet)
  BY DEF Is, User, NoCode
<1>5. Is([u EXCEPT !.password = c, !.otp = NoCode], u, u.isVerified, c, NoCode,
         u.resetToken, u.wallet)
  BY DEF Is, User, NoCode
<1>6. Is([u EXCEPT !.wallet = w], u, u.isVerified, u.password, u.otp, u.resetToken, w)
  BY DEF Is, User, NoCode
<1>7. Is([u EXCEPT !.admin = TRUE], u, u.isVerified, u.password, u.otp, u.resetToken,
         u.wallet)
  BY DEF Is, User, NoCode
<1> QED
  BY <1>1, <1>2, <1>3, <1>4, <1>5, <1>6, <1>7

\* The documents that a registration and the seeding of the administrator
\* insert.
LEMMA NewDocuments ==
    /\ \A e \in Emails, c \in Codes :
            Is(NewUser(e, c), NewUser(e, c), FALSE, NoCode, c, NoCode, NoWallet)
                /\ NewUser(e, c).email = e
    /\ Is(DefaultAdmin, DefaultAdmin, TRUE, NoCode, NoCode, NoCode, NoWallet)
    /\ DefaultAdmin.email = AdminEmail /\ DefaultAdmin.seeded
<1>1. ASSUME NEW e \in Emails, NEW c \in Codes
      PROVE  /\ Is(NewUser(e, c), NewUser(e, c), FALSE, NoCode, c, NoCode, NoWallet)
             /\ NewUser(e, c).email = e
  BY DEF Is, NewUser, Absent, User, NoCode
<1>2. /\ Is(DefaultAdmin, DefaultAdmin, TRUE, NoCode, NoCode, NoCode, NoWallet)
      /\ DefaultAdmin.email = AdminEmail /\ DefaultAdmin.seeded
  BY AccountsAssumption DEF Is, DefaultAdmin, Absent, User, NoCode
<1> QED
  BY <1>1, <1>2

\* A document found by its e-mail is one of the collection and has that e-mail.
LEMMA StoredDocuments ==
    ASSUME TypeOK, NEW e \in Emails, NEW d \in DocumentsOf(e)
    PROVE  d \in Documents /\ users[d] \in User /\ users[d].email = e
BY AccountsAssumption DEF TypeOK, DocumentsOf, Absent

\* The update of a document of e, if there is one.
Nobody(e) == DocumentsOf(e) = {} /\ users' = users

\* SaveOTP stores a fresh code, in one document of the e-mail if it has any.
LEMMA SaveOTPEffect ==
    ASSUME TypeOK, Staged, NEW r \in Requests, SaveOTP(r)
    PROVE  LET e == req[r].email IN
           /\ GenerateCode(r, "saveOTP")
           /\ UNCHANGED <<inserted, expired, mailbox, sessions, history>>
           /\ \/ Nobody(e)
              \/ \E d \in DocumentsOf(e), x \in User :
                    /\ users' = [users EXCEPT ![d] = x]
                    /\ Is(x, users[d], users[d].isVerified, users[d].password, issued + 1,
                          users[d].resetToken, users[d].wallet)
<1> DEFINE e == req[r].email
<1>1. GenerateCode(r, "saveOTP")
      /\ UNCHANGED <<inserted, expired, mailbox, sessions, history>>
  BY DEF SaveOTP
<1>2. /\ e \in Emails
      /\ req[r].code \in Codes \union {NoCode}
      /\ issued \in Nat
  BY <1>1 DEF TypeOK, Request, Staged, GenerateCode
<1>3. CASE DocumentsOf(e) = {}
  BY <1>1, <1>3 DEF Nobody, SaveOTP
<1>4. ASSUME DocumentsOf(e) /= {}
      PROVE  \E d \in DocumentsOf(e), x \in User :
                /\ users' = [users EXCEPT ![d] = x]
                /\ Is(x, users[d], users[d].isVerified, users[d].password, issued + 1,
                          users[d].resetToken, users[d].wallet)
  <2>1. PICK d \in DocumentsOf(e) :
            /\ users' = [users EXCEPT ![d] = [users[d] EXCEPT !.otp = issued + 1]]
    BY <1>4, StoredDocuments, <1>2 DEF TypeOK, SaveOTP
  <2> DEFINE x == [users[d] EXCEPT !.otp = issued + 1]
  <2>2. users[d] \in User
    BY <1>2, StoredDocuments
  <2>3. Is(x, users[d], users[d].isVerified, users[d].password, issued + 1,
                          users[d].resetToken, users[d].wallet)
    <3>1. issued + 1 \in Codes \/ pc[r] \notin {"saveOTP", "saveToken"}
      BY <1>1, AccountsAssumption DEF GenerateCode, TypeOK, Codes
    <3> QED
      BY <1>1, <1>2, <2>2, <3>1, SetFields DEF GenerateCode, Staged
  <2>4. x \in User
    BY <2>3 DEF Is
  <2>5. users' = [users EXCEPT ![d] = x]
    BY <2>1
  <2> HIDE DEF x
  <2> QED
    BY <2>1, <2>3, <2>4, <2>5
<1> QED
  BY <1>1, <1>3, <1>4

\* SaveResetToken stores a fresh reset token, in one document of the e-mail if
\* it has any.
LEMMA SaveResetTokenEffect ==
    ASSUME TypeOK, Staged, NEW r \in Requests, SaveResetToken(r)
    PROVE  LET e == req[r].email IN
           /\ GenerateCode(r, "saveToken")
           /\ UNCHANGED <<inserted, expired, mailbox, sessions, history>>
           /\ \/ Nobody(e)
              \/ \E d \in DocumentsOf(e), x \in User :
                    /\ users' = [users EXCEPT ![d] = x]
                    /\ Is(x, users[d], users[d].isVerified, users[d].password, users[d].otp,
                          issued + 1, users[d].wallet)
<1> DEFINE e == req[r].email
<1>1. GenerateCode(r, "saveToken")
      /\ UNCHANGED <<inserted, expired, mailbox, sessions, history>>
  BY DEF SaveResetToken
<1>2. /\ e \in Emails
      /\ req[r].code \in Codes \union {NoCode}
      /\ issued \in Nat
  BY <1>1 DEF TypeOK, Request, Staged, GenerateCode
<1>3. CASE DocumentsOf(e) = {}
  BY <1>1, <1>3 DEF Nobody, SaveResetToken
<1>4. ASSUME DocumentsOf(e) /= {}
      PROVE  \E d \in DocumentsOf(e), x \in User :
                /\ users' = [users EXCEPT ![d] = x]
                /\ Is(x, users[d], users[d].isVerified, users[d].password, users[d].otp,
                          issued + 1, users[d].wallet)
  <2>1. PICK d \in DocumentsOf(e) :
            /\ users' = [users EXCEPT ![d] = [users[d] EXCEPT !.resetToken = issued + 1]]
    BY <1>4, StoredDocuments, <1>2 DEF TypeOK, SaveResetToken
  <2> DEFINE x == [users[d] EXCEPT !.resetToken = issued + 1]
  <2>2. users[d] \in User
    BY <1>2, StoredDocuments
  <2>3. Is(x, users[d], users[d].isVerified, users[d].password, users[d].otp,
                          issued + 1, users[d].wallet)
    <3>1. issued + 1 \in Codes \/ pc[r] \notin {"saveOTP", "saveToken"}
      BY <1>1, AccountsAssumption DEF GenerateCode, TypeOK, Codes
    <3> QED
      BY <1>1, <1>2, <2>2, <3>1, SetFields DEF GenerateCode, Staged
  <2>4. x \in User
    BY <2>3 DEF Is
  <2>5. users' = [users EXCEPT ![d] = x]
    BY <2>1
  <2> HIDE DEF x
  <2> QED
    BY <2>1, <2>3, <2>4, <2>5
<1> QED
  BY <1>1, <1>3, <1>4

\* MarkVerified verifies the e-mail and takes the code out, in one document of
\* the e-mail if it has any.
LEMMA MarkVerifiedEffect ==
    ASSUME TypeOK, Staged, NEW r \in Requests, MarkVerified(r)
    PROVE  LET e == req[r].email IN
           /\ pc[r] = "verify" /\ Finish(r)
           /\ UNCHANGED <<inserted, issued, expired, mailbox, sessions, proved, raced, disturbed>>
           /\ \/ Nobody(e) /\ used' = used
              \/ \E d \in DocumentsOf(e), x \in User :
                    /\ users' = [users EXCEPT ![d] = x]
                    /\ Is(x, users[d], TRUE, users[d].password, NoCode, users[d].resetToken,
                          users[d].wallet)
                    /\ used' = used \union {req[r].code}
<1> DEFINE e == req[r].email
<1>1. pc[r] = "verify" /\ Finish(r)
      /\ UNCHANGED <<inserted, issued, expired, mailbox, sessions, proved, raced, disturbed>>
  BY DEF MarkVerified, ApplyCode
<1>2. /\ e \in Emails
      /\ req[r].code \in Codes \union {NoCode}
      /\ issued \in Nat
  BY <1>1 DEF TypeOK, Request, Staged, GenerateCode
<1>3. CASE DocumentsOf(e) = {}
  BY <1>1, <1>3 DEF Nobody, MarkVerified, ApplyCode
<1>4. ASSUME DocumentsOf(e) /= {}
      PROVE  \E d \in DocumentsOf(e), x \in User :
                /\ users' = [users EXCEPT ![d] = x]
                /\ Is(x, users[d], TRUE, users[d].password, NoCode, users[d].resetToken,
                          users[d].wallet)
                /\ used' = used \union {req[r].code}
  <2>1. PICK d \in DocumentsOf(e) :
            /\ users' = [users EXCEPT ![d] = [users[d] EXCEPT !.isVerified = TRUE, !.otp = NoCode]]
            /\ used' = used \union {req[r].code}
    BY <1>4, StoredDocuments, <1>2 DEF TypeOK, MarkVerified, ApplyCode
  <2> DEFINE x == [users[d] EXCEPT !.isVerified = TRUE, !.otp = NoCode]
  <2>2. users[d] \in User
    BY <1>2, StoredDocuments
  <2>3. Is(x, users[d], TRUE, users[d].password, NoCode, users[d].resetToken,
                          users[d].wallet)
    <3>1. issued + 1 \in Codes \/ pc[r] \notin {"saveOTP", "saveToken"}
      BY <1>1, AccountsAssumption DEF GenerateCode, TypeOK, Codes
    <3> QED
      BY <1>1, <1>2, <2>2, <3>1, SetFields DEF GenerateCode, Staged
  <2>4. x \in User
    BY <2>3 DEF Is
  <2>5. users' = [users EXCEPT ![d] = x]
    BY <2>1
  <2> HIDE DEF x
  <2> QED
    BY <2>1, <2>3, <2>4, <2>5
<1> QED
  BY <1>1, <1>3, <1>4

\* SetPassword sets the password and takes the reset token out, in one document
\* of the e-mail if it has any.
LEMMA SetPasswordEffect ==
    ASSUME TypeOK, Staged, NEW r \in Requests, SetPassword(r)
    PROVE  LET e == req[r].email IN
           /\ pc[r] = "reset" /\ Finish(r)
           /\ UNCHANGED <<inserted, issued, expired, mailbox, sessions, proved, raced, disturbed>>
           /\ \/ Nobody(e) /\ used' = used
              \/ \E d \in DocumentsOf(e), x \in User :
                    /\ users' = [users EXCEPT ![d] = x]
                    /\ Is(x, users[d], users[d].isVerified, req[r].code, users[d].otp, NoCode,
                          users[d].wallet)
                    /\ used' = used \union {req[r].code}
<1> DEFINE e == req[r].email
<1>1. pc[r] = "reset" /\ Finish(r)
      /\ UNCHANGED <<inserted, issued, expired, mailbox, sessions, proved, raced, disturbed>>
  BY DEF SetPassword, ApplyCode
<1>2. /\ e \in Emails
      /\ req[r].code \in Codes \union {NoCode}
      /\ issued \in Nat
  BY <1>1 DEF TypeOK, Request, Staged, GenerateCode
<1>3. CASE DocumentsOf(e) = {}
  BY <1>1, <1>3 DEF Nobody, SetPassword, ApplyCode
<1>4. ASSUME DocumentsOf(e) /= {}
      PROVE  \E d \in DocumentsOf(e), x \in User :
                /\ users' = [users EXCEPT ![d] = x]
                /\ Is(x, users[d], users[d].isVerified, req[r].code, users[d].otp, NoCode,
                          users[d].wallet)
                /\ used' = used \union {req[r].code}
  <2>1. PICK d \in DocumentsOf(e) :
            /\ users' = [users EXCEPT ![d] = [users[d] EXCEPT !.password = req[r].code, !.resetToken = NoCode]]
            /\ used' = used \union {req[r].code}
    BY <1>4, StoredDocuments, <1>2 DEF TypeOK, SetPassword, ApplyCode
  <2> DEFINE x == [users[d] EXCEPT !.password = req[r].code, !.resetToken = NoCode]
  <2>2. users[d] \in User
    BY <1>2, StoredDocuments
  <2>3. Is(x, users[d], users[d].isVerified, req[r].code, users[d].otp, NoCode,
                          users[d].wallet)
    <3>1. issued + 1 \in Codes \/ pc[r] \notin {"saveOTP", "saveToken"}
      BY <1>1, AccountsAssumption DEF GenerateCode, TypeOK, Codes
    <3> QED
      BY <1>1, <1>2, <2>2, <3>1, SetFields DEF GenerateCode, Staged
  <2>4. x \in User
    BY <2>3 DEF Is
  <2>5. users' = [users EXCEPT ![d] = x]
    BY <2>1
  <2> HIDE DEF x
  <2> QED
    BY <2>1, <2>3, <2>4, <2>5
<1> QED
  BY <1>1, <1>3, <1>4

\* SetAdminPassword sets the password of an administrator and takes the code
\* out, in one document of the e-mail if it has any.
LEMMA SetAdminPasswordEffect ==
    ASSUME TypeOK, Staged, NEW r \in Requests, SetAdminPassword(r)
    PROVE  LET e == req[r].email IN
           /\ pc[r] = "adminReset" /\ Finish(r)
           /\ UNCHANGED <<inserted, issued, expired, mailbox, sessions, proved, raced, disturbed>>
           /\ \/ Nobody(e) /\ used' = used
              \/ \E d \in DocumentsOf(e), x \in User :
                    /\ users' = [users EXCEPT ![d] = x]
                    /\ Is(x, users[d], users[d].isVerified, req[r].code, NoCode,
                          users[d].resetToken, users[d].wallet)
                    /\ used' = used \union {req[r].code}
<1> DEFINE e == req[r].email
<1>1. pc[r] = "adminReset" /\ Finish(r)
      /\ UNCHANGED <<inserted, issued, expired, mailbox, sessions, proved, raced, disturbed>>
  BY DEF SetAdminPassword, ApplyCode
<1>2. /\ e \in Emails
      /\ req[r].code \in Codes \union {NoCode}
      /\ issued \in Nat
  BY <1>1 DEF TypeOK, Request, Staged, GenerateCode
<1>3. CASE DocumentsOf(e) = {}
  BY <1>1, <1>3 DEF Nobody, SetAdminPassword, ApplyCode
<1>4. ASSUME DocumentsOf(e) /= {}
      PROVE  \E d \in DocumentsOf(e), x \in User :
                /\ users' = [users EXCEPT ![d] = x]
                /\ Is(x, users[d], users[d].isVerified, req[r].code, NoCode,
                          users[d].resetToken, users[d].wallet)
                /\ used' = used \union {req[r].code}
  <2>1. PICK d \in DocumentsOf(e) :
            /\ users' = [users EXCEPT ![d] = [users[d] EXCEPT !.password = req[r].code, !.otp = NoCode]]
            /\ used' = used \union {req[r].code}
    BY <1>4, StoredDocuments, <1>2 DEF TypeOK, SetAdminPassword, ApplyCode
  <2> DEFINE x == [users[d] EXCEPT !.password = req[r].code, !.otp = NoCode]
  <2>2. users[d] \in User
    BY <1>2, StoredDocuments
  <2>3. Is(x, users[d], users[d].isVerified, req[r].code, NoCode,
                          users[d].resetToken, users[d].wallet)
    <3>1. issued + 1 \in Codes \/ pc[r] \notin {"saveOTP", "saveToken"}
      BY <1>1, AccountsAssumption DEF GenerateCode, TypeOK, Codes
    <3> QED
      BY <1>1, <1>2, <2>2, <3>1, SetFields DEF GenerateCode, Staged
  <2>4. x \in User
    BY <2>3 DEF Is
  <2>5. users' = [users EXCEPT ![d] = x]
    BY <2>1
  <2> HIDE DEF x
  <2> QED
    BY <2>1, <2>3, <2>4, <2>5
<1> QED
  BY <1>1, <1>3, <1>4

\* LinkWallet stores the wallet, in one document of the e-mail if it has any.
LEMMA LinkWalletEffect ==
    ASSUME TypeOK, Staged, NEW r \in Requests, LinkWallet(r)
    PROVE  LET e == req[r].email IN
           /\ pc[r] = "link" /\ Finish(r)
           /\ UNCHANGED <<inserted, issued, expired, mailbox, sessions, history>>
           /\ \/ Nobody(e)
              \/ \E d \in DocumentsOf(e), x \in User :
                    /\ users' = [users EXCEPT ![d] = x]
                    /\ Is(x, users[d], users[d].isVerified, users[d].password, users[d].otp,
                          users[d].resetToken, req[r].wallet)
<1> DEFINE e == req[r].email
<1>1. pc[r] = "link" /\ Finish(r)
      /\ UNCHANGED <<inserted, issued, expired, mailbox, sessions, history>>
  BY DEF LinkWallet
<1>2. /\ e \in Emails
      /\ req[r].code \in Codes \union {NoCode}
      /\ issued \in Nat
  BY <1>1 DEF TypeOK, Request, Staged, GenerateCode
<1>3. CASE DocumentsOf(e) = {}
  BY <1>1, <1>3 DEF Nobody, LinkWallet
<1>4. ASSUME DocumentsOf(e) /= {}
      PROVE  \E d \in DocumentsOf(e), x \in User :
                /\ users' = [users EXCEPT ![d] = x]
                /\ Is(x, users[d], users[d].isVerified, users[d].password, users[d].otp,
                          users[d].resetToken, req[r].wallet)
  <2>1. PICK d \in DocumentsOf(e) :
            /\ users' = [users EXCEPT ![d] = [users[d] EXCEPT !.wallet = req[r].wallet]]
    BY <1>4, StoredDocuments, <1>2 DEF TypeOK, LinkWallet
  <2> DEFINE x == [users[d] EXCEPT !.wallet = req[r].wallet]
  <2>2. users[d] \in User
    BY <1>2, StoredDocuments
  <2>3. Is(x, users[d], users[d].isVerified, users[d].password, users[d].otp,
                          users[d].resetToken, req[r].wallet)
    <3>1. issued + 1 \in Codes \/ pc[r] \notin {"saveOTP", "saveToken"}
      BY <1>1, AccountsAssumption DEF GenerateCode, TypeOK, Codes
    <3> QED
      BY <1>1, <1>2, <2>2, <3>1, SetFields DEF GenerateCode, Staged
  <2>4. x \in User
    BY <2>3 DEF Is
  <2>5. users' = [users EXCEPT ![d] = x]
    BY <2>1
  <2> HIDE DEF x
  <2> QED
    BY <2>1, <2>3, <2>4, <2>5
<1> QED
  BY <1>1, <1>3, <1>4

RequestsTyped == pc' \in [Requests -> Stages] /\ req' \in [Requests -> Request]

OthersGoOn(r) == \A q \in Requests : q /= r => pc'[q] = pc[q] /\ req'[q] = req[q]

\* A request is over: nothing of what it worked on is left.
Over(r) ==
    /\ pc'[r] = "idle" /\ req'[r].email = NoEmail
    /\ req'[r].code = NoCode /\ req'[r].wallet = NoWallet

\* What an idle request works on: nothing.
LEMMA IdleFields ==
    /\ Idle \in Request
    /\ Idle.email = NoEmail
    /\ Idle.code = NoCode
    /\ Idle.wallet = NoWallet
BY DEF Idle, Request

\* A request starts, and the others go on as they were.
LEMMA StartEffect ==
    ASSUME TypeOK, NEW r \in Requests, NEW stage \in Stages, NEW e \in Emails,
           NEW code \in Codes \union {NoCode}, NEW w \in Wallets \union {NoWallet},
           Start(r, stage, e, code, w)
    PROVE  /\ RequestsTyped /\ OthersGoOn(r)
           /\ pc[r] = "idle" /\ pc'[r] = stage
           /\ req'[r].email = e /\ req'[r].code = code /\ req'[r].wallet = w
<1> DEFINE x == [email |-> e, code |-> code, wallet |-> w]
<1>1. x \in Request /\ x.email = e /\ x.code = code /\ x.wallet = w
  BY DEF Request
<1>2. /\ pc[r] = "idle" /\ pc' = [pc EXCEPT ![r] = stage]
      /\ req' = [req EXCEPT ![r] = x]
  BY DEF Start
<1> HIDE DEF x
<1> QED
  BY <1>1, <1>2 DEF TypeOK, RequestsTyped, OthersGoOn

\* A request finishes, and the others go on as they were.
LEMMA FinishEffect ==
    ASSUME TypeOK, NEW r \in Requests, Finish(r)
    PROVE  /\ RequestsTyped /\ OthersGoOn(r)
           /\ Over(r)
<1>1. "idle" \in Stages
  BY DEF Stages
<1> QED
  BY <1>1, IdleFields DEF TypeOK, Finish, RequestsTyped, OthersGoOn, Over

\* A request takes the next code, which fits its range, and goes on to mail it.
LEMMA GenerateEffect ==
    ASSUME TypeOK, NEW r \in Requests, NEW stage, GenerateCode(r, stage)
    PROVE  /\ RequestsTyped /\ OthersGoOn(r)
           /\ pc[r] = stage /\ pc'[r] = "mail"
           /\ issued \in Nat /\ issued' = issued + 1 /\ issued' \in Codes
           /\ issued' \in 0 .. MaxCodes
           /\ \A q \in Requests : q /= r => req'[q] = req[q]
           /\ req'[r].email = req[r].email
           /\ req'[r].code = issued + 1
<1>1. /\ pc[r] = stage
      /\ issued \in Nat /\ issued' = issued + 1 /\ issued' \in Codes
      /\ pc' = [pc EXCEPT ![r] = "mail"]
      /\ req' = [req EXCEPT ![r].code = issued + 1]
  BY AccountsAssumption DEF GenerateCode, TypeOK, Codes
<1>2. RequestsTyped
  BY <1>1 DEF TypeOK, Request, Stages, RequestsTyped
<1>3. /\ \A q \in Requests : q /= r => req'[q] = req[q]
      /\ req'[r].email = req[r].email
      /\ req'[r].code = issued + 1
  BY <1>1 DEF TypeOK, Request
<1>4. issued' \in 0 .. MaxCodes
  BY <1>1, AccountsAssumption DEF Codes
<1>5. \A q \in Requests : q /= r => pc'[q] = pc[q]
  BY <1>1 DEF TypeOK
<1>6. pc'[r] = "mail"
  BY <1>1 DEF TypeOK
<1> QED
  BY <1>1, <1>2, <1>3, <1>4, <1>5, <1>6 DEF OthersGoOn

\* An insert takes the next place and stores an unverified account there.
LEMMA InsertUserEffect ==
    ASSUME TypeOK, Staged, NEW r \in Requests, InsertUser(r)
    PROVE  /\ GenerateCode(r, "insert")
           /\ inserted' = inserted + 1 /\ inserted + 1 \in Documents
           /\ \E x \in User :
                 /\ users' = [users EXCEPT ![inserted + 1] = x]
                 /\ Is(x, x, FALSE, NoCode, issued + 1, NoCode, NoWallet)
                 /\ x.email = req[r].email
           /\ UNCHANGED <<expired, mailbox, sessions, history>>
<1> DEFINE x == NewUser(req[r].email, issued + 1)
<1>1. /\ GenerateCode(r, "insert")
      /\ inserted' = inserted + 1 /\ inserted + 1 \in Documents
      /\ users' = [users EXCEPT ![inserted + 1] = x]
      /\ UNCHANGED <<expired, mailbox, sessions, history>>
  BY AccountsAssumption DEF InsertUser, TypeOK, Documents
<1>2. issued + 1 \in Codes /\ req[r].email \in Emails
  BY <1>1, AccountsAssumption DEF GenerateCode, Staged, TypeOK, Codes
<1>3. Is(x, x, FALSE, NoCode, issued + 1, NoCode, NoWallet) /\ x.email = req[r].email
  BY <1>2, NewDocuments
<1>4. x \in User
  BY <1>3 DEF Is
<1> HIDE DEF x
<1> QED
  BY <1>1, <1>3, <1>4

\* What a free place of the collection holds in each field.
LEMMA AbsentFields ==
    /\ Absent.email = NoEmail
    /\ Absent.isVerified = FALSE
    /\ Absent.password = NoCode
    /\ Absent.otp = NoCode
    /\ Absent.resetToken = NoCode
    /\ Absent.wallet = NoWallet
BY DEF Absent

\* A wallet is taken off one document of the e-mail.
LEMMA DisconnectEffect ==
    ASSUME TypeOK, NEW e \in Emails, DisconnectSolanaWallet(e)
    PROVE  /\ \E d \in DocumentsOf(e), x \in User :
                 /\ users' = [users EXCEPT ![d] = x]
                 /\ Is(x, users[d], users[d].isVerified, users[d].password, users[d].otp,
                       users[d].resetToken, NoWallet)
           /\ UNCHANGED <<inserted, issued, expired, mailbox, sessions, requests, history>>
<1>1. PICK d \in DocumentsOf(e) : users' = [users EXCEPT ![d].wallet = NoWallet]
  BY DEF DisconnectSolanaWallet
<1>2. d \in Documents /\ users[d] \in User
  BY StoredDocuments
<1> DEFINE x == [users[d] EXCEPT !.wallet = NoWallet]
<1>3. Is(x, users[d], users[d].isVerified, users[d].password, users[d].otp,
         users[d].resetToken, NoWallet)
  <2>1. NoCode \in Codes \union {NoCode} /\ NoWallet \in Wallets \union {NoWallet}
    OBVIOUS
  <2> QED
    BY <1>2, <2>1, SetFields
<1>4. x \in User
  BY <1>3 DEF Is
<1>5. users' = [users EXCEPT ![d] = x]
  BY <1>1, <1>2 DEF TypeOK
<1> HIDE DEF x
<1> QED
  BY <1>3, <1>4, <1>5 DEF DisconnectSolanaWallet

\* A restart ends all requests and seeds, or promotes, the administrator.
LEMMA RestartEffect ==
    ASSUME TypeOK, Restart
    PROVE  /\ \/ /\ DocumentsOf(AdminEmail) = {}
                 /\ inserted' = inserted + 1 /\ inserted + 1 \in Documents
                 /\ \E x \in User :
                       /\ users' = [users EXCEPT ![inserted + 1] = x]
                       /\ Is(x, x, TRUE, NoCode, NoCode, NoCode, NoWallet)
                       /\ x.email = AdminEmail /\ x.seeded
              \/ /\ inserted' = inserted
                 /\ \E d \in DocumentsOf(AdminEmail), x \in User :
                       /\ users' = [users EXCEPT ![d] = x]
                       /\ Is(x, users[d], users[d].isVerified, users[d].password,
                             users[d].otp, users[d].resetToken, users[d].wallet)
           /\ pc' = [r \in Requests |-> "idle"]
           /\ req' = [r \in Requests |-> Idle]
           /\ UNCHANGED <<issued, expired, mailbox, sessions, history>>
<1>1. /\ pc' = [r \in Requests |-> "idle"]
      /\ req' = [r \in Requests |-> Idle]
      /\ UNCHANGED <<issued, expired, mailbox, sessions, history>>
  BY DEF Restart
<1>2. CASE DocumentsOf(AdminEmail) = {}
  <2> DEFINE x == DefaultAdmin
  <2>1. /\ inserted' = inserted + 1 /\ inserted + 1 \in Documents
        /\ users' = [users EXCEPT ![inserted + 1] = x]
    BY <1>2, AccountsAssumption DEF Restart, TypeOK, Documents
  <2>2. /\ Is(x, x, TRUE, NoCode, NoCode, NoCode, NoWallet)
        /\ x.email = AdminEmail /\ x.seeded
    BY NewDocuments
  <2>3. x \in User
    BY <2>2 DEF Is
  <2> HIDE DEF x
  <2> QED
    BY <1>1, <1>2, <2>1, <2>2, <2>3
<1>3. CASE DocumentsOf(AdminEmail) /= {}
  <2>1. PICK d \in DocumentsOf(AdminEmail) : users' = [users EXCEPT ![d].admin = TRUE]
    BY <1>3 DEF Restart
  <2>2. d \in Documents /\ users[d] \in User
    BY AccountsAssumption, StoredDocuments
  <2> DEFINE x == [users[d] EXCEPT !.admin = TRUE]
  <2>3. Is(x, users[d], users[d].isVerified, users[d].password, users[d].otp,
           users[d].resetToken, users[d].wallet)
    <3>1. NoCode \in Codes \union {NoCode} /\ NoWallet \in Wallets \union {NoWallet}
      OBVIOUS
    <3> QED
      BY <2>2, <3>1, SetFields
  <2>4. x \in User
    BY <2>3 DEF Is
  <2>5. users' = [users EXCEPT ![d] = x] /\ inserted' = inserted
    BY <1>3, <2>1, <2>2 DEF TypeOK, Restart
  <2> HIDE DEF x
  <2> QED
    BY <1>1, <2>3, <2>4, <2>5
<1> QED
  BY <1>2, <1>3

-----------------------------------------------------------------------------
(* The same, point by point.                                               *)

SameEmails    == \A d \in Documents : users'[d].email = users[d].email
SameSeeds     == \A d \in Documents : users'[d].seeded = users[d].seeded
SameVerified  == \A d \in Documents : users'[d].isVerified = users[d].isVerified
SamePasswords == \A d \in Documents : users'[d].password = users[d].password
SameOTPs      == \A d \in Documents : users'[d].otp = users[d].otp
SameTokens    == \A d \in Documents : users'[d].resetToken = users[d].resetToken
SameWallets   == \A d \in Documents : users'[d].wallet = users[d].wallet

UsersTyped == users' \in [Documents -> User \union {Absent}]

\* Nothing is absent that was there, and the other way round.
SamePresence == \A d \in Documents : users'[d] = Absent <=> users[d] = Absent

UsesCode(r) == used' = used \union {req[r].code}

\* A code counts as used only if it was taken out of a document of its address.
UsesOTP(r) ==
    \/ used' = used
    \/ /\ UsesCode(r)
       /\ \E d \in DocumentsOf(req[r].email) : users'[d].otp = NoCode

UsesToken(r) ==
    \/ used' = used
    \/ /\ UsesCode(r)
       /\ \E d \in DocumentsOf(req[r].email) : users'[d].resetToken = NoCode

\* SaveOTP stores a fresh code; every other field of every document stays.
LEMMA SaveOTPPoints ==
    ASSUME TypeOK, Staged, NEW r \in Requests, SaveOTP(r)
    PROVE  /\ GenerateCode(r, "saveOTP")
           /\ UNCHANGED <<inserted, expired, mailbox, sessions, history>>
           /\ UsersTyped /\ SamePresence
           /\ SameEmails /\ SameSeeds /\ SameVerified /\ SamePasswords
           /\ SameTokens /\ SameWallets
           /\ \A k \in Documents : users'[k].otp /= users[k].otp =>
                users'[k].otp = issued + 1 /\ users[k].email = req[r].email
           /\ \A d1, d2 \in Documents :
                users'[d1].otp /= users[d1].otp /\ users'[d2].otp /= users[d2].otp => d1 = d2
<1> DEFINE e == req[r].email
<1>1. GenerateCode(r, "saveOTP")
      /\ UNCHANGED <<inserted, expired, mailbox, sessions, history>>
  BY SaveOTPEffect
<1>2. CASE Nobody(e)
  BY <1>1, <1>2
    DEF Nobody, DocumentsOf, UsersTyped, SamePresence, TypeOK, SameEmails, SameSeeds,
        SameVerified, SamePasswords, SameTokens, SameWallets
<1>3. ASSUME NEW d \in DocumentsOf(e), NEW x \in User,
             users' = [users EXCEPT ![d] = x],
             Is(x, users[d], users[d].isVerified, users[d].password, issued + 1,
                users[d].resetToken, users[d].wallet)
      PROVE  /\ UsersTyped /\ SamePresence
             /\ SameEmails /\ SameSeeds /\ SameVerified /\ SamePasswords
             /\ SameTokens /\ SameWallets
             /\ \A k \in Documents : users'[k].otp /= users[k].otp =>
                  users'[k].otp = issued + 1 /\ users[k].email = req[r].email
             /\ \A d1, d2 \in Documents :
                  users'[d1].otp /= users[d1].otp /\ users'[d2].otp /= users[d2].otp => d1 = d2
  <2>1. d \in Documents /\ users[d] \in User /\ users[d].email = e /\ e \in Emails
    BY <1>1, StoredDocuments DEF Staged, GenerateCode
  <2>2. users[d] /= Absent /\ x /= Absent
    BY <2>1, <1>3, AbsentFields, AccountsAssumption DEF Is
  <2> QED
    BY <1>3, <2>1, <2>2
      DEF Is, TypeOK, DocumentsOf, UsersTyped, SamePresence, SameEmails, SameSeeds,
          SameVerified, SamePasswords, SameTokens, SameWallets
<1>4. CASE \E d \in DocumentsOf(e), x \in User :
              /\ users' = [users EXCEPT ![d] = x]
              /\ Is(x, users[d], users[d].isVerified, users[d].password, issued + 1,
                users[d].resetToken, users[d].wallet)
  <2>1. PICK d \in DocumentsOf(e), x \in User :
           /\ users' = [users EXCEPT ![d] = x]
           /\ Is(x, users[d], users[d].isVerified, users[d].password, issued + 1,
                users[d].resetToken, users[d].wallet)
    BY <1>4
  <2> QED
    BY <1>1, <1>3, <2>1
<1> QED
  BY <1>1, <1>2, <1>4, SaveOTPEffect

\* SaveResetToken stores a fresh reset token; every other field of every
\* document stays.
LEMMA SaveResetTokenPoints ==
    ASSUME TypeOK, Staged, NEW r \in Requests, SaveResetToken(r)
    PROVE  /\ GenerateCode(r, "saveToken")
           /\ UNCHANGED <<inserted, expired, mailbox, sessions, history>>
           /\ UsersTyped /\ SamePresence
           /\ SameEmails /\ SameSeeds /\ SameVerified /\ SamePasswords
           /\ SameOTPs /\ SameWallets
           /\ \A k \in Documents : users'[k].resetToken /= users[k].resetToken =>
                users'[k].resetToken = issued + 1 /\ users[k].email = req[r].email
           /\ \A d1, d2 \in Documents :
                users'[d1].resetToken /= users[d1].resetToken
                    /\ users'[d2].resetToken /= users[d2].resetToken => d1 = d2
<1> DEFINE e == req[r].email
<1>1. GenerateCode(r, "saveToken")
      /\ UNCHANGED <<inserted, expired, mailbox, sessions, history>>
  BY SaveResetTokenEffect
<1>2. CASE Nobody(e)
  BY <1>1, <1>2
    DEF Nobody, DocumentsOf, UsersTyped, SamePresence, TypeOK, SameEmails, SameSeeds,
        SameVerified, SamePasswords, SameOTPs, SameWallets
<1>3. ASSUME NEW d \in DocumentsOf(e), NEW x \in User,
             users' = [users EXCEPT ![d] = x],
             Is(x, users[d], users[d].isVerified, users[d].password, users[d].otp,
                issued + 1, users[d].wallet)
      PROVE  /\ UsersTyped /\ SamePresence
             /\ SameEmails /\ SameSeeds /\ SameVerified /\ SamePasswords
             /\ SameOTPs /\ SameWallets
             /\ \A k \in Documents : users'[k].resetToken /= users[k].resetToken =>
                  users'[k].resetToken = issued + 1 /\ users[k].email = req[r].email
             /\ \A d1, d2 \in Documents :
                  users'[d1].resetToken /= users[d1].resetToken
                      /\ users'[d2].resetToken /= users[d2].resetToken => d1 = d2
  <2>1. d \in Documents /\ users[d] \in User /\ users[d].email = e /\ e \in Emails
    BY <1>1, StoredDocuments DEF Staged, GenerateCode
  <2>2. users[d] /= Absent /\ x /= Absent
    BY <2>1, <1>3, AbsentFields, AccountsAssumption DEF Is
  <2> QED
    BY <1>3, <2>1, <2>2
      DEF Is, TypeOK, DocumentsOf, UsersTyped, SamePresence, SameEmails, SameSeeds,
          SameVerified, SamePasswords, SameOTPs, SameWallets
<1>4. CASE \E d \in DocumentsOf(e), x \in User :
              /\ users' = [users EXCEPT ![d] = x]
              /\ Is(x, users[d], users[d].isVerified, users[d].password, users[d].otp,
                issued + 1, users[d].wallet)
  <2>1. PICK d \in DocumentsOf(e), x \in User :
           /\ users' = [users EXCEPT ![d] = x]
           /\ Is(x, users[d], users[d].isVerified, users[d].password, users[d].otp,
                issued + 1, users[d].wallet)
    BY <1>4
  <2> QED
    BY <1>1, <1>3, <2>1
<1> QED
  BY <1>1, <1>2, <1>4, SaveResetTokenEffect

\* MarkVerified verifies the e-mail and takes the code out; every other field
\* of every document stays.
LEMMA MarkVerifiedPoints ==
    ASSUME TypeOK, Staged, NEW r \in Requests, MarkVerified(r)
    PROVE  /\ pc[r] = "verify" /\ Finish(r)
           /\ UNCHANGED <<inserted, issued, expired, mailbox, sessions, proved, raced, disturbed>>
           /\ UsersTyped /\ SamePresence
           /\ SameEmails /\ SameSeeds /\ SamePasswords /\ SameTokens
           /\ SameWallets
           /\ \A k \in Documents : users'[k].otp = users[k].otp \/ users'[k].otp = NoCode
           /\ \A k \in Documents : users'[k].isVerified =>
                users[k].isVerified \/ users[k].email = req[r].email
           /\ UsesOTP(r)
<1> DEFINE e == req[r].email
<1>1. pc[r] = "verify" /\ Finish(r)
      /\ UNCHANGED <<inserted, issued, expired, mailbox, sessions, proved, raced, disturbed>>
  BY MarkVerifiedEffect
<1>2. CASE Nobody(e) /\ used' = used
  BY <1>1, <1>2
    DEF Nobody, DocumentsOf, UsersTyped, SamePresence, TypeOK, SameEmails, SameSeeds,
        SamePasswords, SameTokens, SameWallets, UsesOTP
<1>3. ASSUME NEW d \in DocumentsOf(e), NEW x \in User,
             users' = [users EXCEPT ![d] = x],
             Is(x, users[d], TRUE, users[d].password, NoCode, users[d].resetToken,
                users[d].wallet),
             UsesCode(r)
      PROVE  /\ UsersTyped /\ SamePresence
             /\ SameEmails /\ SameSeeds /\ SamePasswords /\ SameTokens
             /\ SameWallets
             /\ \A k \in Documents : users'[k].otp = users[k].otp \/ users'[k].otp = NoCode
             /\ \A k \in Documents : users'[k].isVerified =>
                  users[k].isVerified \/ users[k].email = req[r].email
             /\ UsesOTP(r)
  <2>1. d \in Documents /\ users[d] \in User /\ users[d].email = e /\ e \in Emails
    BY <1>1, StoredDocuments DEF Staged, GenerateCode
  <2>2. users[d] /= Absent /\ x /= Absent
    BY <2>1, <1>3, AbsentFields, AccountsAssumption DEF Is
  <2> QED
    BY <1>3, <2>1, <2>2
      DEF Is, TypeOK, DocumentsOf, UsersTyped, SamePresence, SameEmails, SameSeeds,
          SamePasswords, SameTokens, SameWallets, UsesOTP
<1>4. CASE \E d \in DocumentsOf(e), x \in User :
              /\ users' = [users EXCEPT ![d] = x]
              /\ Is(x, users[d], TRUE, users[d].password, NoCode, users[d].resetToken,
                users[d].wallet)
              /\ UsesCode(r)
  <2>1. PICK d \in DocumentsOf(e), x \in User :
           /\ users' = [users EXCEPT ![d] = x]
           /\ Is(x, users[d], TRUE, users[d].password, NoCode, users[d].resetToken,
                users[d].wallet)
              /\ UsesCode(r)
    BY <1>4
  <2> QED
    BY <1>1, <1>3, <2>1
<1> QED
  BY <1>1, <1>2, <1>4, MarkVerifiedEffect DEF UsesCode

\* SetPassword sets the password and takes the reset token out; every other
\* field of every document stays.
LEMMA SetPasswordPoints ==
    ASSUME TypeOK, Staged, NEW r \in Requests, SetPassword(r)
    PROVE  /\ pc[r] = "reset" /\ Finish(r)
           /\ UNCHANGED <<inserted, issued, expired, mailbox, sessions, proved, raced, disturbed>>
           /\ UsersTyped /\ SamePresence
           /\ SameEmails /\ SameSeeds /\ SameVerified /\ SameOTPs
           /\ SameWallets
           /\ \A k \in Documents : users'[k].resetToken = users[k].resetToken \/ users'[k].resetToken = NoCode
           /\ \A k \in Documents : users'[k].password /= users[k].password =>
                users'[k].password = req[r].code /\ users[k].email = req[r].email
           /\ UsesToken(r)
<1> DEFINE e == req[r].email
<1>1. pc[r] = "reset" /\ Finish(r)
      /\ UNCHANGED <<inserted, issued, expired, mailbox, sessions, proved, raced, disturbed>>
  BY SetPasswordEffect
<1>2. CASE Nobody(e) /\ used' = used
  BY <1>1, <1>2
    DEF Nobody, DocumentsOf, UsersTyped, SamePresence, TypeOK, SameEmails, SameSeeds,
        SameVerified, SameOTPs, SameWallets, UsesToken
<1>3. ASSUME NEW d \in DocumentsOf(e), NEW x \in User,
             users' = [users EXCEPT ![d] = x],
             Is(x, users[d], users[d].isVerified, req[r].code, users[d].otp, NoCode,
                users[d].wallet),
             UsesCode(r)
      PROVE  /\ UsersTyped /\ SamePresence
             /\ SameEmails /\ SameSeeds /\ SameVerified /\ SameOTPs
             /\ SameWallets
             /\ \A k \in Documents : users'[k].resetToken = users[k].resetToken \/ users'[k].resetToken = NoCode
             /\ \A k \in Documents : users'[k].password /= users[k].password =>
                  users'[k].password = req[r].code /\ users[k].email = req[r].email
             /\ UsesToken(r)
  <2>1. d \in Documents /\ users[d] \in User /\ users[d].email = e /\ e \in Emails
    BY <1>1, StoredDocuments DEF Staged, GenerateCode
  <2>2. users[d] /= Absent /\ x /= Absent
    BY <2>1, <1>3, AbsentFields, AccountsAssumption DEF Is
  <2> QED
    BY <1>3, <2>1, <2>2
      DEF Is, TypeOK, DocumentsOf, UsersTyped, SamePresence, SameEmails, SameSeeds,
          SameVerified, SameOTPs, SameWallets, UsesToken
<1>4. CASE \E d \in DocumentsOf(e), x \in User :
              /\ users' = [users EXCEPT ![d] = x]
              /\ Is(x, users[d], users[d].isVerified, req[r].code, users[d].otp, NoCode,
                users[d].wallet)
              /\ UsesCode(r)
  <2>1. PICK d \in DocumentsOf(e), x \in User :
           /\ users' = [users EXCEPT ![d] = x]
           /\ Is(x, users[d], users[d].isVerified, req[r].code, users[d].otp, NoCode,
                users[d].wallet)
              /\ UsesCode(r)
    BY <1>4
  <2> QED
    BY <1>1, <1>3, <2>1
<1> QED
  BY <1>1, <1>2, <1>4, SetPasswordEffect DEF UsesCode

\* SetAdminPassword sets the password of an administrator and takes the code
\* out; every other field of every document stays.
LEMMA SetAdminPasswordPoints ==
    ASSUME TypeOK, Staged, NEW r \in Requests, SetAdminPassword(r)
    PROVE  /\ pc[r] = "adminReset" /\ Finish(r)
           /\ UNCHANGED <<inserted, issued, expired, mailbox, sessions, proved, raced, disturbed>>
           /\ UsersTyped /\ SamePresence
           /\ SameEmails /\ SameSeeds /\ SameVerified /\ SameTokens
           /\ SameWallets
           /\ \A k \in Documents : users'[k].otp = users[k].otp \/ users'[k].otp = NoCode
           /\ \A k \in Documents : users'[k].password /= users[k].password =>
                users'[k].password = req[r].code /\ users[k].email = req[r].email
           /\ UsesOTP(r)
<1> DEFINE e == req[r].email
<1>1. pc[r] = "adminReset" /\ Finish(r)
      /\ UNCHANGED <<inserted, issued, expired, mailbox, sessions, proved, raced, disturbed>>
  BY SetAdminPasswordEffect
<1>2. CASE Nobody(e) /\ used' = used
  BY <1>1, <1>2
    DEF Nobody, DocumentsOf, UsersTyped, SamePresence, TypeOK, SameEmails, SameSeeds,
        SameVerified, SameTokens, SameWallets, UsesOTP
<1>3. ASSUME NEW d \in DocumentsOf(e), NEW x \in User,
             users' = [users EXCEPT ![d] = x],
             Is(x, users[d], users[d].isVerified, req[r].code, NoCode,
                users[d].resetToken, users[d].wallet),
             UsesCode(r)
      PROVE  /\ UsersTyped /\ SamePresence
             /\ SameEmails /\ SameSeeds /\ SameVerified /\ SameTokens
             /\ SameWallets
             /\ \A k \in Documents : users'[k].otp = users[k].otp \/ users'[k].otp = NoCode
             /\ \A k \in Documents : users'[k].password /= users[k].password =>
                  users'[k].password = req[r].code /\ users[k].email = req[r].email
             /\ UsesOTP(r)
  <2>1. d \in Documents /\ users[d] \in User /\ users[d].email = e /\ e \in Emails
    BY <1>1, StoredDocuments DEF Staged, GenerateCode
  <2>2. users[d] /= Absent /\ x /= Absent
    BY <2>1, <1>3, AbsentFields, AccountsAssumption DEF Is
  <2> QED
    BY <1>3, <2>1, <2>2
      DEF Is, TypeOK, DocumentsOf, UsersTyped, SamePresence, SameEmails, SameSeeds,
          SameVerified, SameTokens, SameWallets, UsesOTP
<1>4. CASE \E d \in DocumentsOf(e), x \in User :
              /\ users' = [users EXCEPT ![d] = x]
              /\ Is(x, users[d], users[d].isVerified, req[r].code, NoCode,
                users[d].resetToken, users[d].wallet)
              /\ UsesCode(r)
  <2>1. PICK d \in DocumentsOf(e), x \in User :
           /\ users' = [users EXCEPT ![d] = x]
           /\ Is(x, users[d], users[d].isVerified, req[r].code, NoCode,
                users[d].resetToken, users[d].wallet)
              /\ UsesCode(r)
    BY <1>4
  <2> QED
    BY <1>1, <1>3, <2>1
<1> QED
  BY <1>1, <1>2, <1>4, SetAdminPasswordEffect DEF UsesCode

\* LinkWallet stores the wallet; every other field of every document stays.
LEMMA LinkWalletPoints ==
    ASSUME TypeOK, Staged, NEW r \in Requests, LinkWallet(r)
    PROVE  /\ pc[r] = "link" /\ Finish(r)
           /\ UNCHANGED <<inserted, issued, expired, mailbox, sessions, history>>
           /\ UsersTyped /\ SamePresence
           /\ SameEmails /\ SameSeeds /\ SameVerified /\ SamePasswords
           /\ SameOTPs /\ SameTokens
           /\ \A k \in Documents : users'[k].wallet /= users[k].wallet =>
                users'[k].wallet = req[r].wallet /\ users[k].email = req[r].email
<1> DEFINE e == req[r].email
<1>1. pc[r] = "link" /\ Finish(r)
      /\ UNCHANGED <<inserted, issued, expired, mailbox, sessions, history>>
  BY LinkWalletEffect
<1>2. CASE Nobody(e)
  BY <1>1, <1>2
    DEF Nobody, DocumentsOf, UsersTyped, SamePresence, TypeOK, SameEmails, SameSeeds,
        SameVerified, SamePasswords, SameOTPs, SameTokens
<1>3. ASSUME NEW d \in DocumentsOf(e), NEW x \in User,
             users' = [users EXCEPT ![d] = x],
             Is(x, users[d], users[d].isVerified, users[d].password, users[d].otp,
                users[d].resetToken, req[r].wallet)
      PROVE  /\ UsersTyped /\ SamePresence
             /\ SameEmails /\ SameSeeds /\ SameVerified /\ SamePasswords
             /\ SameOTPs /\ SameTokens
             /\ \A k \in Documents : users'[k].wallet /= users[k].wallet =>
                  users'[k].wallet = req[r].wallet /\ users[k].email = req[r].email
  <2>1. d \in Documents /\ users[d] \in User /\ users[d].email = e /\ e \in Emails
    BY <1>1, StoredDocuments DEF Staged, GenerateCode
  <2>2. users[d] /= Absent /\ x /= Absent
    BY <2>1, <1>3, AbsentFields, AccountsAssumption DEF Is
  <2> QED
    BY <1>3, <2>1, <2>2
      DEF Is, TypeOK, DocumentsOf, UsersTyped, SamePresence, SameEmails, SameSeeds,
          SameVerified, SamePasswords, SameOTPs, SameTokens
<1>4. CASE \E d \in DocumentsOf(e), x \in User :
              /\ users' = [users EXCEPT ![d] = x]
              /\ Is(x, users[d], users[d].isVerified, users[d].password, users[d].otp,
                users[d].resetToken, req[r].wallet)
  <2>1. PICK d \in DocumentsOf(e), x \in User :
           /\ users' = [users EXCEPT ![d] = x]
           /\ Is(x, users[d], users[d].isVerified, users[d].password, users[d].otp,
                users[d].resetToken, req[r].wallet)
    BY <1>4
  <2> QED
    BY <1>1, <1>3, <2>1
<1> QED
  BY <1>1, <1>2, <1>4, LinkWalletEffect

\* A wallet is taken off, and nothing else of any document changes.
LEMMA DisconnectPoints ==
    ASSUME TypeOK, NEW e \in Emails, DisconnectSolanaWallet(e)
    PROVE  /\ UsersTyped /\ SamePresence
           /\ SameEmails /\ SameSeeds /\ SameVerified /\ SamePasswords
           /\ SameOTPs /\ SameTokens
           /\ \A d \in Documents : users'[d].wallet \in {users[d].wallet, NoWallet}
           /\ UNCHANGED <<inserted, issued, expired, mailbox, sessions, requests, history>>
<1>1. PICK d \in DocumentsOf(e), x \in User :
         /\ users' = [users EXCEPT ![d] = x]
         /\ Is(x, users[d], users[d].isVerified, users[d].password, users[d].otp,
               users[d].resetToken, NoWallet)
  BY DisconnectEffect
<1>2. d \in Documents /\ users[d] \in User /\ users[d].email = e
  BY StoredDocuments
<1>3. users[d] /= Absent /\ x /= Absent
  BY <1>1, <1>2, AbsentFields, AccountsAssumption DEF Is
<1> QED
  BY <1>1, <1>2, <1>3, DisconnectEffect
    DEF Is, TypeOK, UsersTyped, SamePresence, SameEmails, SameSeeds, SameVerified,
        SamePasswords, SameOTPs, SameTokens

\* A document d is inserted, with no password, token or wallet.
Inserted(d, e, verified, otp) ==
    /\ inserted' = inserted + 1 /\ inserted' \in 0 .. MaxDocuments
    /\ d = inserted + 1 /\ d \in Documents
    /\ users[d] = Absent /\ users'[d] /= Absent
    /\ \A k \in Documents : k /= d => users'[k] = users[k]
    /\ users'[d].email = e
    /\ users'[d].isVerified = verified
    /\ users'[d].password = NoCode
    /\ users'[d].otp = otp
    /\ users'[d].resetToken = NoCode
    /\ users'[d].wallet = NoWallet

\* An insert changes one place, which was free.
LEMMA InsertUserPoints ==
    ASSUME TypeOK, Staged, Numbered, NEW r \in Requests, InsertUser(r)
    PROVE  /\ GenerateCode(r, "insert")
           /\ UsersTyped
           /\ Inserted(inserted + 1, req[r].email, FALSE, issued + 1)
           /\ UNCHANGED <<expired, mailbox, sessions, history>>
<1>1. PICK x \in User :
         /\ users' = [users EXCEPT ![inserted + 1] = x]
         /\ Is(x, x, FALSE, NoCode, issued + 1, NoCode, NoWallet)
         /\ x.email = req[r].email
  BY InsertUserEffect
<1>2. /\ GenerateCode(r, "insert")
      /\ inserted' = inserted + 1 /\ inserted + 1 \in Documents
      /\ UNCHANGED <<expired, mailbox, sessions, history>>
  BY InsertUserEffect
<1>3. users[inserted + 1] = Absent
  BY <1>2 DEF Numbered, TypeOK
<1>4. req[r].email \in Emails
  BY <1>2 DEF GenerateCode, Staged
<1>5. x /= Absent
  BY <1>1, <1>4, AbsentFields, AccountsAssumption
<1>6. UsersTyped
  BY <1>1 DEF TypeOK, UsersTyped
<1>7. Inserted(inserted + 1, req[r].email, FALSE, issued + 1)
  <2>1. inserted' \in 0 .. MaxDocuments
    BY <1>2, AccountsAssumption DEF Documents
  <2> QED
    BY <1>1, <1>2, <1>3, <1>5, <2>1 DEF Is, TypeOK, Inserted
<1> QED
  BY <1>2, <1>6, <1>7

AdminInserted ==
    /\ \A d \in Documents : users[d].email /= AdminEmail
    /\ users'[inserted + 1].seeded
    /\ Inserted(inserted + 1, AdminEmail, TRUE, NoCode)

AdminKept ==
    /\ inserted' = inserted /\ SamePresence
    /\ SameEmails /\ SameSeeds /\ SameVerified /\ SamePasswords
    /\ SameOTPs /\ SameTokens /\ SameWallets

\* A restart forgets all requests; only the place of the administrator may
\* change.
LEMMA RestartPoints ==
    ASSUME TypeOK, Numbered, Restart
    PROVE  /\ UsersTyped
           /\ AdminInserted \/ AdminKept
           /\ RequestsTyped
           /\ \A r \in Requests : Over(r)
           /\ UNCHANGED <<issued, expired, mailbox, sessions, history>>
<1>0. /\ RequestsTyped
      /\ \A r \in Requests : Over(r)
      /\ UNCHANGED <<issued, expired, mailbox, sessions, history>>
  <2>1. "idle" \in Stages
    BY DEF Stages
  <2> QED
    BY <2>1, RestartEffect, IdleFields DEF RequestsTyped, Over
<1>1. CASE /\ DocumentsOf(AdminEmail) = {}
           /\ inserted' = inserted + 1 /\ inserted + 1 \in Documents
           /\ \E x \in User :
                 /\ users' = [users EXCEPT ![inserted + 1] = x]
                 /\ Is(x, x, TRUE, NoCode, NoCode, NoCode, NoWallet)
                 /\ x.email = AdminEmail /\ x.seeded
  <2>1. PICK x \in User :
           /\ users' = [users EXCEPT ![inserted + 1] = x]
           /\ Is(x, x, TRUE, NoCode, NoCode, NoCode, NoWallet)
           /\ x.email = AdminEmail /\ x.seeded
    BY <1>1
  <2>2. users[inserted + 1] = Absent
    BY <1>1 DEF Numbered, TypeOK
  <2>3. x /= Absent
    BY <2>1, AbsentFields, AccountsAssumption
  <2>4. UsersTyped
    BY <2>1 DEF TypeOK, UsersTyped
  <2>5. Inserted(inserted + 1, AdminEmail, TRUE, NoCode) /\ users'[inserted + 1].seeded
    <3>1. inserted' \in 0 .. MaxDocuments
      BY <1>1, AccountsAssumption DEF Documents
    <3> QED
      BY <1>1, <2>1, <2>2, <2>3, <3>1 DEF Is, TypeOK, Inserted
  <2> QED
    BY <1>0, <1>1, <2>4, <2>5 DEF AdminInserted, DocumentsOf
<1>2. CASE /\ inserted' = inserted
           /\ \E d \in DocumentsOf(AdminEmail), x \in User :
                 /\ users' = [users EXCEPT ![d] = x]
                 /\ Is(x, users[d], users[d].isVerified, users[d].password,
                       users[d].otp, users[d].resetToken, users[d].wallet)
  <2>1. PICK d \in DocumentsOf(AdminEmail), x \in User :
           /\ users' = [users EXCEPT ![d] = x]
           /\ Is(x, users[d], users[d].isVerified, users[d].password,
                 users[d].otp, users[d].resetToken, users[d].wallet)
    BY <1>2
  <2>2. d \in Documents /\ users[d] \in User /\ users[d].email = AdminEmail
    BY StoredDocuments, AccountsAssumption
  <2>3. users[d] /= Absent /\ x /= Absent
    BY <2>1, <2>2, AbsentFields, AccountsAssumption DEF Is
  <2>4. /\ UsersTyped /\ SamePresence
        /\ SameEmails /\ SameSeeds /\ SameVerified /\ SamePasswords
        /\ SameOTPs /\ SameTokens /\ SameWallets
    BY <2>1, <2>2, <2>3
      DEF Is, TypeOK, UsersTyped, SamePresence, SameEmails, SameSeeds, SameVerified,
          SamePasswords, SameOTPs, SameTokens, SameWallets
  <2> QED
    BY <1>0, <1>2, <2>4 DEF AdminKept
<1> QED
  BY <1>1, <1>2, RestartEffect

\* A deletion leaves every other document alone, and disturbs who works on its
\* e-mail.
LEMMA DeletePoints ==
    ASSUME TypeOK, NEW e \in Emails, DeleteUser(e)
    PROVE  /\ UsersTyped
           /\ \A d \in Documents : users'[d] \in {users[d], Absent}
           /\ \A d \in Documents : users'[d] /= users[d] => users[d].email = e
           /\ disturbed' = IF \E r \in Requests : req[r].email = e
                            THEN disturbed \union {e} ELSE disturbed
           /\ UNCHANGED <<inserted, issued, expired, mailbox, sessions, requests, used,
                          proved, raced>>
BY StoredDocuments DEF DeleteUser, TypeOK, UsersTyped

\* The search for the owner of a wallet writes no document; it may find the
\* connection late.
LEMMA FindOwnerPoints ==
    ASSUME TypeOK, Staged, NEW r \in Requests, FindOwner(r)
    PROVE  /\ RequestsTyped /\ OthersGoOn(r)
           /\ pc[r] = "owner" /\ req[r].wallet \in Wallets
           /\ \/ OtherOwners(r) = {} /\ pc'[r] = "link" /\ req'[r] = req[r]
              \/ Over(r)
           /\ raced \subseteq raced' /\ raced' \subseteq raced \union {req[r].wallet}
           /\ Linking(req[r].wallet) = {} \/ req[r].wallet \in raced'
           /\ UNCHANGED <<users, inserted, issued, expired, mailbox, sessions, used,
                          proved, disturbed>>
<1>1. /\ pc[r] = "owner" /\ req[r].wallet \in Wallets
      /\ UNCHANGED <<users, inserted, issued, expired, mailbox, sessions, used,
                     proved, disturbed>>
  BY DEF FindOwner, Staged
<1>2. /\ raced \subseteq raced' /\ raced' \subseteq raced \union {req[r].wallet}
      /\ Linking(req[r].wallet) = {} \/ req[r].wallet \in raced'
  BY DEF FindOwner
<1>3. CASE OtherOwners(r) = {}
  <2>1. Goto(r, "link")
    BY <1>3 DEF FindOwner
  <2>2. "link" \in Stages
    BY DEF Stages
  <2>3. RequestsTyped /\ OthersGoOn(r) /\ pc'[r] = "link" /\ req'[r] = req[r]
    BY <2>1, <2>2 DEF Goto, TypeOK, RequestsTyped, OthersGoOn
  <2> QED
    BY <1>1, <1>2, <1>3, <2>3
<1>4. CASE OtherOwners(r) /= {}
  <2>1. Finish(r)
    BY <1>4 DEF FindOwner
  <2> QED
    BY <1>1, <1>2, <2>1, FinishEffect DEF Over
<1> QED
  BY <1>3, <1>4

\* A request has begun.
Begun(r, stage, e, code, w) ==
    /\ RequestsTyped /\ OthersGoOn(r)
    /\ pc[r] = "idle" /\ pc'[r] = stage
    /\ req'[r].email = e /\ req'[r].code = code /\ req'[r].wallet = w

\* RegisterController begins a request, only for an e-mail that no document
\* has.
LEMMA RegisterControllerPoints ==
    ASSUME TypeOK, NEW r \in Requests, NEW e \in Emails,
           RegisterController(r, e)
    PROVE  /\ Begun(r, "insert", e, NoCode, NoWallet)
           /\ \A d \in Documents : users[d].email /= e
           /\ raced \subseteq raced' /\ raced' \subseteq raced \union {e}
           /\ e \in raced' \/ \A q \in Requests : pc[q] = "insert" => req[q].email /= e
           /\ UNCHANGED <<users, inserted, issued, expired, mailbox, sessions, used,
                          proved, disturbed>>
<1>1. "insert" \in Stages /\ NoCode \in Codes \union {NoCode}
  BY DEF Stages, Mailed, TypeOK
<1>2. Start(r, "insert", e, NoCode, NoWallet)
  BY DEF RegisterController
<1>3. Begun(r, "insert", e, NoCode, NoWallet)
  BY <1>1, <1>2, StartEffect DEF Begun
<1> QED
  BY <1>3 DEF RegisterController, DocumentsOf, Registering

\* ResendOTPController begins a request, and writes nothing yet.
LEMMA ResendOTPControllerPoints ==
    ASSUME TypeOK, NEW r \in Requests, NEW e \in Emails,
           ResendOTPController(r, e)
    PROVE  /\ Begun(r, "saveOTP", e, NoCode, NoWallet)
           /\ UNCHANGED <<users, inserted, issued, expired, mailbox, sessions, history>>
<1>1. "saveOTP" \in Stages /\ NoCode \in Codes \union {NoCode}
  BY DEF Stages, Mailed, TypeOK
<1>2. Start(r, "saveOTP", e, NoCode, NoWallet)
  BY DEF ResendOTPController
<1>3. Begun(r, "saveOTP", e, NoCode, NoWallet)
  BY <1>1, <1>2, StartEffect DEF Begun
<1> QED
  BY <1>3 DEF ResendOTPController

\* ForgotPasswordController begins a request, and writes nothing yet.
LEMMA ForgotPasswordControllerPoints ==
    ASSUME TypeOK, NEW r \in Requests, NEW e \in Emails,
           ForgotPasswordController(r, e)
    PROVE  /\ Begun(r, "saveToken", e, NoCode, NoWallet)
           /\ UNCHANGED <<users, inserted, issued, expired, mailbox, sessions, history>>
<1>1. "saveToken" \in Stages /\ NoCode \in Codes \union {NoCode}
  BY DEF Stages, Mailed, TypeOK
<1>2. Start(r, "saveToken", e, NoCode, NoWallet)
  BY DEF ForgotPasswordController
<1>3. Begun(r, "saveToken", e, NoCode, NoWallet)
  BY <1>1, <1>2, StartEffect DEF Begun
<1> QED
  BY <1>3 DEF ForgotPasswordController

\* AdminForgotPassword begins a request, and writes nothing yet.
LEMMA AdminForgotPasswordPoints ==
    ASSUME TypeOK, NEW r \in Requests, NEW e \in Emails,
           AdminForgotPassword(r, e)
    PROVE  /\ Begun(r, "saveOTP", e, NoCode, NoWallet)
           /\ UNCHANGED <<users, inserted, issued, expired, mailbox, sessions, history>>
<1>1. "saveOTP" \in Stages /\ NoCode \in Codes \union {NoCode}
  BY DEF Stages, Mailed, TypeOK
<1>2. Start(r, "saveOTP", e, NoCode, NoWallet)
  BY DEF AdminForgotPassword
<1>3. Begun(r, "saveOTP", e, NoCode, NoWallet)
  BY <1>1, <1>2, StartEffect DEF Begun
<1> QED
  BY <1>3 DEF AdminForgotPassword

\* VerifyOTPController begins a request, with a code that a document of the
\* e-mail stores.
LEMMA VerifyOTPControllerPoints ==
    ASSUME TypeOK, NEW r \in Requests, NEW e \in Emails, NEW code \in Mailed,
           VerifyOTPController(r, e, code)
    PROVE  /\ Begun(r, "verify", e, code, NoWallet)
           /\ code \in Codes
           /\ \E d \in Documents :
                 /\ users[d].email = e /\ users[d].otp = code
                 /\ proved' = proved \union {<<d, code>>}
           /\ UNCHANGED <<users, inserted, issued, expired, mailbox, sessions, used,
                          raced, disturbed>>
<1>1. "verify" \in Stages /\ code \in Codes \union {NoCode}
  BY DEF Stages, Mailed, TypeOK
<1>2. Start(r, "verify", e, code, NoWallet)
  BY DEF VerifyOTPController
<1>3. Begun(r, "verify", e, code, NoWallet)
  BY <1>1, <1>2, StartEffect DEF Begun
<1> QED
  BY <1>3 DEF VerifyOTPController, DocumentsOf, Mailed, TypeOK

\* ResetPasswordController begins a request, with a reset token that a document
\* of the e-mail stores.
LEMMA ResetPasswordControllerPoints ==
    ASSUME TypeOK, NEW r \in Requests, NEW e \in Emails, NEW code \in Mailed,
           ResetPasswordController(r, e, code)
    PROVE  /\ Begun(r, "reset", e, code, NoWallet)
           /\ code \in Codes
           /\ \E d \in Documents :
                 /\ users[d].email = e /\ users[d].resetToken = code
                 /\ proved' = proved \union {<<d, code>>}
           /\ UNCHANGED <<users, inserted, issued, expired, mailbox, sessions, used,
                          raced, disturbed>>
<1>1. "reset" \in Stages /\ code \in Codes \union {NoCode}
  BY DEF Stages, Mailed, TypeOK
<1>2. Start(r, "reset", e, code, NoWallet)
  BY DEF ResetPasswordController
<1>3. Begun(r, "reset", e, code, NoWallet)
  BY <1>1, <1>2, StartEffect DEF Begun
<1> QED
  BY <1>3 DEF ResetPasswordController, DocumentsOf, Mailed, TypeOK

\* AdminResetPassword begins a request, with a code that a document of the
\* e-mail stores.
LEMMA AdminResetPasswordPoints ==
    ASSUME TypeOK, NEW r \in Requests, NEW e \in Emails, NEW code \in Mailed,
           AdminResetPassword(r, e, code)
    PROVE  /\ Begun(r, "adminReset", e, code, NoWallet)
           /\ code \in Codes
           /\ \E d \in Documents :
                 /\ users[d].email = e /\ users[d].otp = code
                 /\ proved' = proved \union {<<d, code>>}
           /\ UNCHANGED <<users, inserted, issued, expired, mailbox, sessions, used,
                          raced, disturbed>>
<1>1. "adminReset" \in Stages /\ code \in Codes \union {NoCode}
  BY DEF Stages, Mailed, TypeOK
<1>2. Start(r, "adminReset", e, code, NoWallet)
  BY DEF AdminResetPassword
<1>3. Begun(r, "adminReset", e, code, NoWallet)
  BY <1>1, <1>2, StartEffect DEF Begun
<1> QED
  BY <1>3 DEF AdminResetPassword, DocumentsOf, Mailed, TypeOK

\* ConnectSolanaWallet begins a request, and looks for an owner of the wallet
\* next.
LEMMA ConnectSolanaWalletPoints ==
    ASSUME TypeOK, NEW r \in Requests, NEW e \in Emails, NEW w \in Wallets,
           ConnectSolanaWallet(r, e, w)
    PROVE  /\ Begun(r, "owner", e, NoCode, w)
           /\ UNCHANGED <<users, inserted, issued, expired, mailbox, sessions, history>>
<1>1. "owner" \in Stages /\ NoCode \in Codes \union {NoCode}
  BY DEF Stages, Mailed, TypeOK
<1>2. Start(r, "owner", e, NoCode, w)
  BY DEF ConnectSolanaWallet
<1>3. Begun(r, "owner", e, NoCode, w)
  BY <1>1, <1>2, StartEffect DEF Begun
<1> QED
  BY <1>3 DEF ConnectSolanaWallet

\* Every step keeps the ranges of the variables.
LEMMA TypesStep ==
    ASSUME TypeOK, Staged, Numbered, [Next]_vars
    PROVE  TypeOK'
<1>1. ASSUME NEW r \in Requests, RequestStep(r) PROVE TypeOK'
  <2>1. CASE InsertUser(r)
    <3>1. /\ pc[r] = "insert" /\ pc'[r] = "mail" /\ OthersGoOn(r)
          /\ issued \in Nat /\ issued' = issued + 1 /\ issued' \in Codes /\ issued' \in 0 .. MaxCodes
          /\ req'[r].email = req[r].email /\ req'[r].code = issued + 1 /\ RequestsTyped
          /\ UsersTyped /\ Inserted(inserted + 1, req[r].email, FALSE, issued + 1)
          /\ UNCHANGED <<expired, mailbox, sessions, history>>
      BY <2>1, InsertUserPoints, GenerateEffect
    <3> QED
      BY <3>1, AccountsAssumption
        DEF TypeOK, UsersTyped, RequestsTyped, history, requests, Inserted
  <2>2. CASE SaveOTP(r)
    BY <2>2, SaveOTPPoints, GenerateEffect, AccountsAssumption
      DEF TypeOK, UsersTyped, RequestsTyped, history, requests
  <2>3. CASE SaveResetToken(r)
    BY <2>3, SaveResetTokenPoints, GenerateEffect, AccountsAssumption
      DEF TypeOK, UsersTyped, RequestsTyped, history, requests
  <2>4. CASE SendEmail(r)
    BY <2>4, FinishEffect, AccountsAssumption
      DEF SendEmail, TypeOK, UsersTyped, RequestsTyped, history, requests, Staged
  <2>5. CASE MarkVerified(r)
    BY <2>5, MarkVerifiedPoints, FinishEffect, AccountsAssumption
      DEF TypeOK, UsersTyped, RequestsTyped, history, requests, UsesOTP, UsesCode,
          Staged, Checked
  <2>6. CASE SetPassword(r)
    BY <2>6, SetPasswordPoints, FinishEffect, AccountsAssumption
      DEF TypeOK, UsersTyped, RequestsTyped, history, requests, UsesToken, UsesCode,
          Staged, Checked
  <2>7. CASE SetAdminPassword(r)
    BY <2>7, SetAdminPasswordPoints, FinishEffect, AccountsAssumption
      DEF TypeOK, UsersTyped, RequestsTyped, history, requests, UsesOTP, UsesCode,
          Staged, Checked
  <2>8. CASE FindOwner(r)
    BY <2>8, FindOwnerPoints, AccountsAssumption
      DEF TypeOK, UsersTyped, RequestsTyped, history, requests
  <2>9. CASE LinkWallet(r)
    BY <2>9, LinkWalletPoints, FinishEffect, AccountsAssumption
      DEF TypeOK, UsersTyped, RequestsTyped, history, requests
  <2>10. CASE CallFails(r)
    BY <2>10, FinishEffect, AccountsAssumption
      DEF CallFails, TypeOK, UsersTyped, RequestsTyped, history, requests
  <2> QED
    BY <1>1, <2>1, <2>2, <2>3, <2>4, <2>5, <2>6, <2>7, <2>8, <2>9, <2>10 DEF RequestStep
<1>2. ASSUME NEW r \in Requests, NEW e \in Emails, Arrival(r, e) PROVE TypeOK'
  <2>1. CASE RegisterController(r, e)
    BY <2>1, RegisterControllerPoints, AccountsAssumption
      DEF TypeOK, UsersTyped, RequestsTyped, history, requests, Begun
  <2>2. CASE ResendOTPController(r, e)
    BY <2>2, ResendOTPControllerPoints, AccountsAssumption
      DEF TypeOK, UsersTyped, RequestsTyped, history, requests, Begun
  <2>3. CASE ForgotPasswordController(r, e)
    BY <2>3, ForgotPasswordControllerPoints, AccountsAssumption
      DEF TypeOK, UsersTyped, RequestsTyped, history, requests, Begun
  <2>4. CASE AdminForgotPassword(r, e)
    BY <2>4, AdminForgotPasswordPoints, AccountsAssumption
      DEF TypeOK, UsersTyped, RequestsTyped, history, requests, Begun
  <2>5. ASSUME NEW code \in Mailed, VerifyOTPController(r, e, code) PROVE TypeOK'
    BY <2>5, VerifyOTPControllerPoints, AccountsAssumption
      DEF TypeOK, UsersTyped, RequestsTyped, history, requests, Begun
  <2>6. ASSUME NEW code \in Mailed, ResetPasswordController(r, e, code) PROVE TypeOK'
    BY <2>6, ResetPasswordControllerPoints, AccountsAssumption
      DEF TypeOK, UsersTyped, RequestsTyped, history, requests, Begun
  <2>7. ASSUME NEW code \in Mailed, AdminResetPassword(r, e, code) PROVE TypeOK'
    BY <2>7, AdminResetPasswordPoints, AccountsAssumption
      DEF TypeOK, UsersTyped, RequestsTyped, history, requests, Begun
  <2>8. ASSUME NEW w \in Wallets, ConnectSolanaWallet(r, e, w) PROVE TypeOK'
    BY <2>8, ConnectSolanaWalletPoints, AccountsAssumption
      DEF TypeOK, UsersTyped, RequestsTyped, history, requests, Begun
  <2> QED
    BY <1>2, <2>1, <2>2, <2>3, <2>4, <2>5, <2>6, <2>7, <2>8 DEF Arrival
<1>3. ASSUME NEW e \in Emails, LoginController(e) \/ DisconnectSolanaWallet(e) \/ DeleteUser(e)
      PROVE  TypeOK'
  <2>1. CASE LoginController(e)
    BY <2>1, AccountsAssumption
      DEF LoginController, TypeOK, UsersTyped, RequestsTyped, history, requests
  <2>2. CASE DisconnectSolanaWallet(e)
    BY <2>2, DisconnectPoints, AccountsAssumption
      DEF TypeOK, UsersTyped, RequestsTyped, history, requests
  <2>3. CASE DeleteUser(e)
    BY <2>3, DeletePoints, AbsentFields, AccountsAssumption
      DEF TypeOK, UsersTyped, RequestsTyped, history, requests
  <2> QED
    BY <1>3, <2>1, <2>2, <2>3
<1>4. ASSUME NEW code \in Codes, Expire(code) PROVE TypeOK'
  BY <1>4, AccountsAssumption
    DEF Expire, TypeOK, UsersTyped, RequestsTyped, history, requests
<1>5. CASE Restart
  <2>1. CASE AdminInserted
    BY <1>5, <2>1, RestartPoints, AccountsAssumption
      DEF AdminInserted, TypeOK, UsersTyped, RequestsTyped, history, requests,
          Inserted
  <2>2. CASE AdminKept
    BY <1>5, <2>2, RestartPoints, AccountsAssumption
      DEF AdminKept, TypeOK, UsersTyped, RequestsTyped, history, requests
  <2> QED
    BY <1>5, <2>1, <2>2, RestartPoints
<1>6. CASE UNCHANGED vars
  BY <1>6, AccountsAssumption
    DEF vars, TypeOK, UsersTyped, RequestsTyped, history, requests
<1> QED
  BY <1>1, <1>2, <1>3, <1>4, <1>5, <1>6 DEF Next

\* Every step keeps what a stage says of its request.
LEMMA StagedStep ==
    ASSUME TypeOK, Staged, Numbered, [Next]_vars
    PROVE  Staged'
<1>1. ASSUME NEW r \in Requests, RequestStep(r) PROVE Staged'
  <2>1. CASE InsertUser(r)
    <3>1. /\ pc[r] = "insert" /\ pc'[r] = "mail" /\ OthersGoOn(r)
          /\ issued \in Nat /\ issued' = issued + 1 /\ issued' \in Codes /\ issued' \in 0 .. MaxCodes
          /\ req'[r].email = req[r].email /\ req'[r].code = issued + 1 /\ RequestsTyped
          /\ UsersTyped /\ Inserted(inserted + 1, req[r].email, FALSE, issued + 1)
          /\ UNCHANGED <<expired, mailbox, sessions, history>>
      BY <2>1, InsertUserPoints, GenerateEffect
    <3> QED
      BY <3>1, AccountsAssumption DEF Staged, Checked, OthersGoOn, requests
  <2>2. CASE SaveOTP(r)
    BY <2>2, SaveOTPPoints, GenerateEffect, AccountsAssumption
      DEF Staged, Checked, OthersGoOn, requests
  <2>3. CASE SaveResetToken(r)
    BY <2>3, SaveResetTokenPoints, GenerateEffect, AccountsAssumption
      DEF Staged, Checked, OthersGoOn, requests
  <2>4. CASE SendEmail(r)
    BY <2>4, FinishEffect, AccountsAssumption
      DEF SendEmail, Staged, Checked, OthersGoOn, requests, Over
  <2>5. CASE MarkVerified(r)
    BY <2>5, MarkVerifiedPoints, FinishEffect, AccountsAssumption
      DEF Staged, Checked, OthersGoOn, requests, Over
  <2>6. CASE SetPassword(r)
    BY <2>6, SetPasswordPoints, FinishEffect, AccountsAssumption
      DEF Staged, Checked, OthersGoOn, requests, Over
  <2>7. CASE SetAdminPassword(r)
    BY <2>7, SetAdminPasswordPoints, FinishEffect, AccountsAssumption
      DEF Staged, Checked, OthersGoOn, requests, Over
  <2>8. CASE FindOwner(r)
    BY <2>8, FindOwnerPoints, AccountsAssumption
      DEF Staged, Checked, OthersGoOn, requests, Over
  <2>9. CASE LinkWallet(r)
    BY <2>9, LinkWalletPoints, FinishEffect, AccountsAssumption
      DEF Staged, Checked, OthersGoOn, requests, Over
  <2>10. CASE CallFails(r)
    BY <2>10, FinishEffect, AccountsAssumption
      DEF CallFails, Staged, Checked, OthersGoOn, requests, Over
  <2> QED
    BY <1>1, <2>1, <2>2, <2>3, <2>4, <2>5, <2>6, <2>7, <2>8, <2>9, <2>10 DEF RequestStep
<1>2. ASSUME NEW r \in Requests, NEW e \in Emails, Arrival(r, e) PROVE Staged'
  <2>1. CASE RegisterController(r, e)
    BY <2>1, RegisterControllerPoints, AccountsAssumption
      DEF Staged, Checked, OthersGoOn, requests, Begun
  <2>2. CASE ResendOTPController(r, e)
    BY <2>2, ResendOTPControllerPoints, AccountsAssumption
      DEF Staged, Checked, OthersGoOn, requests, Begun
  <2>3. CASE ForgotPasswordController(r, e)
    BY <2>3, ForgotPasswordControllerPoints, AccountsAssumption
      DEF Staged, Checked, OthersGoOn, requests, Begun
  <2>4. CASE AdminForgotPassword(r, e)
    BY <2>4, AdminForgotPasswordPoints, AccountsAssumption
      DEF Staged, Checked, OthersGoOn, requests, Begun
  <2>5. ASSUME NEW code \in Mailed, VerifyOTPController(r, e, code) PROVE Staged'
    BY <2>5, VerifyOTPControllerPoints, AccountsAssumption
      DEF Staged, Checked, OthersGoOn, requests, Begun
  <2>6. ASSUME NEW code \in Mailed, ResetPasswordController(r, e, code) PROVE Staged'
    BY <2>6, ResetPasswordControllerPoints, AccountsAssumption
      DEF Staged, Checked, OthersGoOn, requests, Begun
  <2>7. ASSUME NEW code \in Mailed, AdminResetPassword(r, e, code) PROVE Staged'
    BY <2>7, AdminResetPasswordPoints, AccountsAssumption
      DEF Staged, Checked, OthersGoOn, requests, Begun
  <2>8. ASSUME NEW w \in Wallets, ConnectSolanaWallet(r, e, w) PROVE Staged'
    BY <2>8, ConnectSolanaWalletPoints, AccountsAssumption
      DEF Staged, Checked, OthersGoOn, requests, Begun
  <2> QED
    BY <1>2, <2>1, <2>2, <2>3, <2>4, <2>5, <2>6, <2>7, <2>8 DEF Arrival
<1>3. ASSUME NEW e \in Emails, LoginController(e) \/ DisconnectSolanaWallet(e) \/ DeleteUser(e)
      PROVE  Staged'
  <2>1. CASE LoginController(e)
    BY <2>1, AccountsAssumption
      DEF LoginController, Staged, Checked, OthersGoOn, requests
  <2>2. CASE DisconnectSolanaWallet(e)
    BY <2>2, DisconnectPoints, AccountsAssumption
      DEF Staged, Checked, OthersGoOn, requests
  <2>3. CASE DeleteUser(e)
    BY <2>3, DeletePoints, AbsentFields, AccountsAssumption
      DEF Staged, Checked, OthersGoOn, requests
  <2> QED
    BY <1>3, <2>1, <2>2, <2>3
<1>4. ASSUME NEW code \in Codes, Expire(code) PROVE Staged'
  BY <1>4, AccountsAssumption DEF Expire, Staged, Checked, OthersGoOn, requests
<1>5. CASE Restart
  <2>1. CASE AdminInserted
    BY <1>5, <2>1, RestartPoints, AccountsAssumption
      DEF AdminInserted, Staged, Checked, OthersGoOn, requests, Over
  <2>2. CASE AdminKept
    BY <1>5, <2>2, RestartPoints, AccountsAssumption
      DEF AdminKept, Staged, Checked, OthersGoOn, requests, Over
  <2> QED
    BY <1>5, <2>1, <2>2, RestartPoints
<1>6. CASE UNCHANGED vars
  BY <1>6, AccountsAssumption DEF vars, Staged, Checked, OthersGoOn, requests
<1> QED
  BY <1>1, <1>2, <1>3, <1>4, <1>5, <1>6 DEF Next

\* Every step keeps the numbering of documents and codes.
LEMMA NumberedStep ==
    ASSUME TypeOK, Staged, Numbered, [Next]_vars
    PROVE  Numbered'
<1>1. ASSUME NEW r \in Requests, RequestStep(r) PROVE Numbered'
  <2>1. CASE InsertUser(r)
    <3>1. /\ pc[r] = "insert" /\ pc'[r] = "mail" /\ OthersGoOn(r)
          /\ issued \in Nat /\ issued' = issued + 1 /\ issued' \in Codes /\ issued' \in 0 .. MaxCodes
          /\ req'[r].email = req[r].email /\ req'[r].code = issued + 1 /\ RequestsTyped
          /\ UsersTyped /\ Inserted(inserted + 1, req[r].email, FALSE, issued + 1)
          /\ UNCHANGED <<expired, mailbox, sessions, history>>
      BY <2>1, InsertUserPoints, GenerateEffect
    <3> QED
      BY <3>1, AccountsAssumption
        DEF Numbered, OthersGoOn, requests, history, Inserted, NoCode
  <2>2. CASE SaveOTP(r)
    BY <2>2, SaveOTPPoints, GenerateEffect, AccountsAssumption
      DEF Numbered, OthersGoOn, requests, history, SamePresence, SameOTPs, SameTokens,
          NoCode
  <2>3. CASE SaveResetToken(r)
    BY <2>3, SaveResetTokenPoints, GenerateEffect, AccountsAssumption
      DEF Numbered, OthersGoOn, requests, history, SamePresence, SameOTPs, SameTokens,
          NoCode
  <2>4. CASE SendEmail(r)
    BY <2>4, FinishEffect, AccountsAssumption
      DEF SendEmail, Numbered, OthersGoOn, requests, history, Over, NoCode, Staged,
          Codes, TypeOK
  <2>5. CASE MarkVerified(r)
    BY <2>5, MarkVerifiedPoints, FinishEffect, AccountsAssumption
      DEF Numbered, OthersGoOn, requests, history, Over, UsesOTP, UsesCode, Staged,
          Checked, Codes, SamePresence, SameOTPs, SameTokens, NoCode
  <2>6. CASE SetPassword(r)
    BY <2>6, SetPasswordPoints, FinishEffect, AccountsAssumption
      DEF Numbered, OthersGoOn, requests, history, Over, UsesToken, UsesCode, Staged,
          Checked, Codes, SamePresence, SameOTPs, SameTokens, NoCode
  <2>7. CASE SetAdminPassword(r)
    BY <2>7, SetAdminPasswordPoints, FinishEffect, AccountsAssumption
      DEF Numbered, OthersGoOn, requests, history, Over, UsesOTP, UsesCode, Staged,
          Checked, Codes, SamePresence, SameOTPs, SameTokens, NoCode
  <2>8. CASE FindOwner(r)
    BY <2>8, FindOwnerPoints, AccountsAssumption
      DEF Numbered, OthersGoOn, requests, history, Over, SamePresence, SameOTPs,
          SameTokens, NoCode
  <2>9. CASE LinkWallet(r)
    BY <2>9, LinkWalletPoints, FinishEffect, AccountsAssumption
      DEF Numbered, OthersGoOn, requests, history, Over, SamePresence, SameOTPs,
          SameTokens, NoCode
  <2>10. CASE CallFails(r)
    BY <2>10, FinishEffect, AccountsAssumption
      DEF CallFails, Numbered, OthersGoOn, requests, history, Over, SamePresence,
          SameOTPs, SameTokens, NoCode
  <2> QED
    BY <1>1, <2>1, <2>2, <2>3, <2>4, <2>5, <2>6, <2>7, <2>8, <2>9, <2>10 DEF RequestStep
<1>2. ASSUME NEW r \in Requests, NEW e \in Emails, Arrival(r, e) PROVE Numbered'
  <2>1. CASE RegisterController(r, e)
    BY <2>1, RegisterControllerPoints, AccountsAssumption
      DEF Numbered, OthersGoOn, requests, history, Begun, NoCode
  <2>2. CASE ResendOTPController(r, e)
    BY <2>2, ResendOTPControllerPoints, AccountsAssumption
      DEF Numbered, OthersGoOn, requests, history, Begun, NoCode
  <2>3. CASE ForgotPasswordController(r, e)
    BY <2>3, ForgotPasswordControllerPoints, AccountsAssumption
      DEF Numbered, OthersGoOn, requests, history, Begun, NoCode
  <2>4. CASE AdminForgotPassword(r, e)
    BY <2>4, AdminForgotPasswordPoints, AccountsAssumption
      DEF Numbered, OthersGoOn, requests, history, Begun, NoCode
  <2>5. ASSUME NEW code \in Mailed, VerifyOTPController(r, e, code) PROVE Numbered'
    BY <2>5, VerifyOTPControllerPoints, AccountsAssumption
      DEF Numbered, OthersGoOn, requests, history, Begun, NoCode, Mailed
  <2>6. ASSUME NEW code \in Mailed, ResetPasswordController(r, e, code) PROVE Numbered'
    BY <2>6, ResetPasswordControllerPoints, AccountsAssumption
      DEF Numbered, OthersGoOn, requests, history, Begun, NoCode, Mailed
  <2>7. ASSUME NEW code \in Mailed, AdminResetPassword(r, e, code) PROVE Numbered'
    BY <2>7, AdminResetPasswordPoints, AccountsAssumption
      DEF Numbered, OthersGoOn, requests, history, Begun, NoCode, Mailed
  <2>8. ASSUME NEW w \in Wallets, ConnectSolanaWallet(r, e, w) PROVE Numbered'
    BY <2>8, ConnectSolanaWalletPoints, AccountsAssumption
      DEF Numbered, OthersGoOn, requests, history, Begun, NoCode
  <2> QED
    BY <1>2, <2>1, <2>2, <2>3, <2>4, <2>5, <2>6, <2>7, <2>8 DEF Arrival
<1>3. ASSUME NEW e \in Emails, LoginController(e) \/ DisconnectSolanaWallet(e) \/ DeleteUser(e)
      PROVE  Numbered'
  <2>1. CASE LoginController(e)
    BY <2>1, AccountsAssumption
      DEF LoginController, Numbered, OthersGoOn, requests, history
  <2>2. CASE DisconnectSolanaWallet(e)
    BY <2>2, DisconnectPoints, AccountsAssumption
      DEF Numbered, OthersGoOn, requests, history, SamePresence, SameOTPs, SameTokens,
          NoCode
  <2>3. CASE DeleteUser(e)
    BY <2>3, DeletePoints, AbsentFields, AccountsAssumption
      DEF Numbered, OthersGoOn, requests, history, NoCode
  <2> QED
    BY <1>3, <2>1, <2>2, <2>3
<1>4. ASSUME NEW code \in Codes, Expire(code) PROVE Numbered'
  BY <1>4, AccountsAssumption DEF Expire, Numbered, OthersGoOn, requests, history
<1>5. CASE Restart
  <2>1. CASE AdminInserted
    <3>1. /\ inserted' = inserted + 1 /\ issued' = issued /\ used' = used
          /\ mailbox' = mailbox
          /\ \A k \in Documents : k /= inserted + 1 => users'[k] = users[k]
          /\ users'[inserted + 1].otp = 0 /\ users'[inserted + 1].resetToken = 0
          /\ \A r \in Requests : req'[r].code = 0
      BY <1>5, <2>1, RestartPoints DEF AdminInserted, Inserted, Over, NoCode, history
    <3> QED
      BY <3>1 DEF Numbered
  <2>2. CASE AdminKept
    BY <1>5, <2>2, RestartPoints, AccountsAssumption
      DEF AdminKept, Numbered, OthersGoOn, requests, history, Over, NoCode,
          SamePresence, SameOTPs, SameTokens
  <2> QED
    BY <1>5, <2>1, <2>2, RestartPoints
<1>6. CASE UNCHANGED vars
  BY <1>6, AccountsAssumption DEF vars, Numbered, OthersGoOn, requests, history
<1> QED
  BY <1>1, <1>2, <1>3, <1>4, <1>5, <1>6 DEF Next

\* Every step keeps that a registration nobody overlaps is alone.
LEMMA AloneStep ==
    ASSUME TypeOK, Staged, Numbered, Alone, [Next]_vars
    PROVE  Alone'
<1>1. ASSUME NEW r \in Requests, RequestStep(r) PROVE Alone'
  <2>1. CASE InsertUser(r)
    <3>1. /\ pc[r] = "insert" /\ pc'[r] = "mail" /\ OthersGoOn(r)
          /\ issued \in Nat /\ issued' = issued + 1 /\ issued' \in Codes /\ issued' \in 0 .. MaxCodes
          /\ req'[r].email = req[r].email /\ req'[r].code = issued + 1 /\ RequestsTyped
          /\ UsersTyped /\ Inserted(inserted + 1, req[r].email, FALSE, issued + 1)
          /\ UNCHANGED <<expired, mailbox, sessions, history>>
      BY <2>1, InsertUserPoints, GenerateEffect
    <3> QED
      BY <3>1, AccountsAssumption
        DEF Alone, Staged, OthersGoOn, requests, history, Inserted
  <2>2. CASE SaveOTP(r)
    BY <2>2, SaveOTPPoints, GenerateEffect, AccountsAssumption
      DEF Alone, Staged, OthersGoOn, requests, history, SameEmails
  <2>3. CASE SaveResetToken(r)
    BY <2>3, SaveResetTokenPoints, GenerateEffect, AccountsAssumption
      DEF Alone, Staged, OthersGoOn, requests, history, SameEmails
  <2>4. CASE SendEmail(r)
    BY <2>4, FinishEffect, AccountsAssumption
      DEF SendEmail, Alone, Staged, OthersGoOn, requests, history, SameEmails, Over
  <2>5. CASE MarkVerified(r)
    BY <2>5, MarkVerifiedPoints, FinishEffect, AccountsAssumption
      DEF Alone, Staged, OthersGoOn, requests, history, SameEmails, Over
  <2>6. CASE SetPassword(r)
    BY <2>6, SetPasswordPoints, FinishEffect, AccountsAssumption
      DEF Alone, Staged, OthersGoOn, requests, history, SameEmails, Over
  <2>7. CASE SetAdminPassword(r)
    BY <2>7, SetAdminPasswordPoints, FinishEffect, AccountsAssumption
      DEF Alone, Staged, OthersGoOn, requests, history, SameEmails, Over
  <2>8. CASE FindOwner(r)
    BY <2>8, FindOwnerPoints, AccountsAssumption
      DEF Alone, Staged, OthersGoOn, requests, history, Over
  <2>9. CASE LinkWallet(r)
    BY <2>9, LinkWalletPoints, FinishEffect, AccountsAssumption
      DEF Alone, Staged, OthersGoOn, requests, history, SameEmails, Over
  <2>10. CASE CallFails(r)
    BY <2>10, FinishEffect, AccountsAssumption
      DEF CallFails, Alone, Staged, OthersGoOn, requests, history, SameEmails, Over
  <2> QED
    BY <1>1, <2>1, <2>2, <2>3, <2>4, <2>5, <2>6, <2>7, <2>8, <2>9, <2>10 DEF RequestStep
<1>2. ASSUME NEW r \in Requests, NEW e \in Emails, Arrival(r, e) PROVE Alone'
  <2>1. CASE RegisterController(r, e)
    BY <2>1, RegisterControllerPoints, AccountsAssumption
      DEF Alone, Staged, OthersGoOn, requests, history, Begun
  <2>2. CASE ResendOTPController(r, e)
    BY <2>2, ResendOTPControllerPoints, AccountsAssumption
      DEF Alone, Staged, OthersGoOn, requests, history, Begun
  <2>3. CASE ForgotPasswordController(r, e)
    BY <2>3, ForgotPasswordControllerPoints, AccountsAssumption
      DEF Alone, Staged, OthersGoOn, requests, history, Begun
  <2>4. CASE AdminForgotPassword(r, e)
    BY <2>4, AdminForgotPasswordPoints, AccountsAssumption
      DEF Alone, Staged, OthersGoOn, requests, history, Begun
  <2>5. ASSUME NEW code \in Mailed, VerifyOTPController(r, e, code) PROVE Alone'
    BY <2>5, VerifyOTPControllerPoints, AccountsAssumption
      DEF Alone, Staged, OthersGoOn, requests, history, Begun
  <2>6. ASSUME NEW code \in Mailed, ResetPasswordController(r, e, code) PROVE Alone'
    BY <2>6, ResetPasswordControllerPoints, AccountsAssumption
      DEF Alone, Staged, OthersGoOn, requests, history, Begun
  <2>7. ASSUME NEW code \in Mailed, AdminResetPassword(r, e, code) PROVE Alone'
    BY <2>7, AdminResetPasswordPoints, AccountsAssumption
      DEF Alone, Staged, OthersGoOn, requests, history, Begun
  <2>8. ASSUME NEW w \in Wallets, ConnectSolanaWallet(r, e, w) PROVE Alone'
    BY <2>8, ConnectSolanaWalletPoints, AccountsAssumption
      DEF Alone, Staged, OthersGoOn, requests, history, Begun
  <2> QED
    BY <1>2, <2>1, <2>2, <2>3, <2>4, <2>5, <2>6, <2>7, <2>8 DEF Arrival
<1>3. ASSUME NEW e \in Emails, LoginController(e) \/ DisconnectSolanaWallet(e) \/ DeleteUser(e)
      PROVE  Alone'
  <2>1. CASE LoginController(e)
    BY <2>1, AccountsAssumption
      DEF LoginController, Alone, Staged, OthersGoOn, requests, history
  <2>2. CASE DisconnectSolanaWallet(e)
    BY <2>2, DisconnectPoints, AccountsAssumption
      DEF Alone, Staged, OthersGoOn, requests, history, SameEmails
  <2>3. CASE DeleteUser(e)
    BY <2>3, DeletePoints, AbsentFields, AccountsAssumption
      DEF Alone, Staged, OthersGoOn, requests, history
  <2> QED
    BY <1>3, <2>1, <2>2, <2>3
<1>4. ASSUME NEW code \in Codes, Expire(code) PROVE Alone'
  BY <1>4, AccountsAssumption DEF Expire, Alone, Staged, OthersGoOn, requests, history
<1>5. CASE Restart
  <2>1. CASE AdminInserted
    BY <1>5, <2>1, RestartPoints, AccountsAssumption
      DEF AdminInserted, Alone, Staged, OthersGoOn, requests, history, Over
  <2>2. CASE AdminKept
    BY <1>5, <2>2, RestartPoints, AccountsAssumption
      DEF AdminKept, Alone, Staged, OthersGoOn, requests, history, SameEmails, Over
  <2> QED
    BY <1>5, <2>1, <2>2, RestartPoints
<1>6. CASE UNCHANGED vars
  BY <1>6, AccountsAssumption DEF vars, Alone, Staged, OthersGoOn, requests, history
<1> QED
  BY <1>1, <1>2, <1>3, <1>4, <1>5, <1>6 DEF Next

\* Every step keeps that only overlapping registrations double an e-mail.
LEMMA DuplicatesStep ==
    ASSUME TypeOK, Staged, Numbered, Alone, DuplicatesRaced, [Next]_vars
    PROVE  DuplicatesRaced'
<1>1. ASSUME NEW r \in Requests, RequestStep(r) PROVE DuplicatesRaced'
  <2>1. CASE InsertUser(r)
    <3>1. /\ pc[r] = "insert" /\ pc'[r] = "mail" /\ OthersGoOn(r)
          /\ issued \in Nat /\ issued' = issued + 1 /\ issued' \in Codes /\ issued' \in 0 .. MaxCodes
          /\ req'[r].email = req[r].email /\ req'[r].code = issued + 1 /\ RequestsTyped
          /\ UsersTyped /\ Inserted(inserted + 1, req[r].email, FALSE, issued + 1)
          /\ UNCHANGED <<expired, mailbox, sessions, history>>
      BY <2>1, InsertUserPoints, GenerateEffect
    <3> QED
      BY <3>1, AccountsAssumption
        DEF DuplicatesRaced, requests, history, Inserted, Alone
  <2>2. CASE SaveOTP(r)
    BY <2>2, SaveOTPPoints, GenerateEffect, AccountsAssumption
      DEF DuplicatesRaced, requests, history, SameEmails
  <2>3. CASE SaveResetToken(r)
    BY <2>3, SaveResetTokenPoints, GenerateEffect, AccountsAssumption
      DEF DuplicatesRaced, requests, history, SameEmails
  <2>4. CASE SendEmail(r)
    BY <2>4, FinishEffect, AccountsAssumption
      DEF SendEmail, DuplicatesRaced, requests, history, SameEmails
  <2>5. CASE MarkVerified(r)
    BY <2>5, MarkVerifiedPoints, FinishEffect, AccountsAssumption
      DEF DuplicatesRaced, requests, history, SameEmails
  <2>6. CASE SetPassword(r)
    BY <2>6, SetPasswordPoints, FinishEffect, AccountsAssumption
      DEF DuplicatesRaced, requests, history, SameEmails
  <2>7. CASE SetAdminPassword(r)
    BY <2>7, SetAdminPasswordPoints, FinishEffect, AccountsAssumption
      DEF DuplicatesRaced, requests, history, SameEmails
  <2>8. CASE FindOwner(r)
    BY <2>8, FindOwnerPoints, AccountsAssumption DEF DuplicatesRaced, requests, history
  <2>9. CASE LinkWallet(r)
    BY <2>9, LinkWalletPoints, FinishEffect, AccountsAssumption
      DEF DuplicatesRaced, requests, history, SameEmails
  <2>10. CASE CallFails(r)
    BY <2>10, FinishEffect, AccountsAssumption
      DEF CallFails, DuplicatesRaced, requests, history, SameEmails
  <2> QED
    BY <1>1, <2>1, <2>2, <2>3, <2>4, <2>5, <2>6, <2>7, <2>8, <2>9, <2>10 DEF RequestStep
<1>2. ASSUME NEW r \in Requests, NEW e \in Emails, Arrival(r, e) PROVE DuplicatesRaced'
  <2>1. CASE RegisterController(r, e)
    BY <2>1, RegisterControllerPoints, AccountsAssumption
      DEF DuplicatesRaced, requests, history
  <2>2. CASE ResendOTPController(r, e)
    BY <2>2, ResendOTPControllerPoints, AccountsAssumption
      DEF DuplicatesRaced, requests, history
  <2>3. CASE ForgotPasswordController(r, e)
    BY <2>3, ForgotPasswordControllerPoints, AccountsAssumption
      DEF DuplicatesRaced, requests, history
  <2>4. CASE AdminForgotPassword(r, e)
    BY <2>4, AdminForgotPasswordPoints, AccountsAssumption
      DEF DuplicatesRaced, requests, history
  <2>5. ASSUME NEW code \in Mailed, VerifyOTPController(r, e, code) PROVE DuplicatesRaced'
    BY <2>5, VerifyOTPControllerPoints, AccountsAssumption
      DEF DuplicatesRaced, requests, history
  <2>6. ASSUME NEW code \in Mailed, ResetPasswordController(r, e, code) PROVE DuplicatesRaced'
    BY <2>6, ResetPasswordControllerPoints, AccountsAssumption
      DEF DuplicatesRaced, requests, history
  <2>7. ASSUME NEW code \in Mailed, AdminResetPassword(r, e, code) PROVE DuplicatesRaced'
    BY <2>7, AdminResetPasswordPoints, AccountsAssumption
      DEF DuplicatesRaced, requests, history
  <2>8. ASSUME NEW w \in Wallets, ConnectSolanaWallet(r, e, w) PROVE DuplicatesRaced'
    BY <2>8, ConnectSolanaWalletPoints, AccountsAssumption
      DEF DuplicatesRaced, requests, history
  <2> QED
    BY <1>2, <2>1, <2>2, <2>3, <2>4, <2>5, <2>6, <2>7, <2>8 DEF Arrival
<1>3. ASSUME NEW e \in Emails, LoginController(e) \/ DisconnectSolanaWallet(e) \/ DeleteUser(e)
      PROVE  DuplicatesRaced'
  <2>1. CASE LoginController(e)
    BY <2>1, AccountsAssumption DEF LoginController, DuplicatesRaced, requests, history
  <2>2. CASE DisconnectSolanaWallet(e)
    BY <2>2, DisconnectPoints, AccountsAssumption
      DEF DuplicatesRaced, requests, history, SameEmails
  <2>3. CASE DeleteUser(e)
    BY <2>3, DeletePoints, AbsentFields, AccountsAssumption
      DEF DuplicatesRaced, requests, history
  <2> QED
    BY <1>3, <2>1, <2>2, <2>3
<1>4. ASSUME NEW code \in Codes, Expire(code) PROVE DuplicatesRaced'
  BY <1>4, AccountsAssumption DEF Expire, DuplicatesRaced, requests, history
<1>5. CASE Restart
  <2>1. CASE AdminInserted
    BY <1>5, <2>1, RestartPoints, AccountsAssumption
      DEF AdminInserted, DuplicatesRaced, requests, history, Inserted, DocumentsOf
  <2>2. CASE AdminKept
    BY <1>5, <2>2, RestartPoints, AccountsAssumption
      DEF AdminKept, DuplicatesRaced, requests, history, SameEmails, DocumentsOf
  <2> QED
    BY <1>5, <2>1, <2>2, RestartPoints
<1>6. CASE UNCHANGED vars
  BY <1>6, AccountsAssumption DEF vars, DuplicatesRaced, requests, history
<1> QED
  BY <1>1, <1>2, <1>3, <1>4, <1>5, <1>6 DEF Next

\* Every step keeps that a code is stored once.
LEMMA StoredOnceStep ==
    ASSUME TypeOK, Staged, Numbered, StoredOnce, [Next]_vars
    PROVE  StoredOnce'
<1>1. ASSUME NEW r \in Requests, RequestStep(r) PROVE StoredOnce'
  <2>1. CASE InsertUser(r)
    <3>1. /\ pc[r] = "insert" /\ pc'[r] = "mail" /\ OthersGoOn(r)
          /\ issued \in Nat /\ issued' = issued + 1 /\ issued' \in Codes /\ issued' \in 0 .. MaxCodes
          /\ req'[r].email = req[r].email /\ req'[r].code = issued + 1 /\ RequestsTyped
          /\ UsersTyped /\ Inserted(inserted + 1, req[r].email, FALSE, issued + 1)
          /\ UNCHANGED <<expired, mailbox, sessions, history>>
      BY <2>1, InsertUserPoints, GenerateEffect
    <3> QED
      BY <3>1, AccountsAssumption
        DEF StoredOnce, Numbered, requests, history, NoCode, Inserted
  <2>2. CASE SaveOTP(r)
    BY <2>2, SaveOTPPoints, GenerateEffect, AccountsAssumption
      DEF StoredOnce, Numbered, requests, history, NoCode, SameOTPs, SameTokens
  <2>3. CASE SaveResetToken(r)
    BY <2>3, SaveResetTokenPoints, GenerateEffect, AccountsAssumption
      DEF StoredOnce, Numbered, requests, history, NoCode, SameOTPs, SameTokens
  <2>4. CASE SendEmail(r)
    BY <2>4, FinishEffect, AccountsAssumption
      DEF SendEmail, StoredOnce, Numbered, requests, history, NoCode, SameOTPs,
          SameTokens
  <2>5. CASE MarkVerified(r)
    BY <2>5, MarkVerifiedPoints, FinishEffect, AccountsAssumption
      DEF StoredOnce, Numbered, requests, history, NoCode, SameOTPs, SameTokens
  <2>6. CASE SetPassword(r)
    BY <2>6, SetPasswordPoints, FinishEffect, AccountsAssumption
      DEF StoredOnce, Numbered, requests, history, NoCode, SameOTPs, SameTokens
  <2>7. CASE SetAdminPassword(r)
    BY <2>7, SetAdminPasswordPoints, FinishEffect, AccountsAssumption
      DEF StoredOnce, Numbered, requests, history, NoCode, SameOTPs, SameTokens
  <2>8. CASE FindOwner(r)
    BY <2>8, FindOwnerPoints, AccountsAssumption
      DEF StoredOnce, Numbered, requests, history, NoCode, SameOTPs, SameTokens
  <2>9. CASE LinkWallet(r)
    BY <2>9, LinkWalletPoints, FinishEffect, AccountsAssumption
      DEF StoredOnce, Numbered, requests, history, NoCode, SameOTPs, SameTokens
  <2>10. CASE CallFails(r)
    BY <2>10, FinishEffect, AccountsAssumption
      DEF CallFails, StoredOnce, Numbered, requests, history, NoCode, SameOTPs,
          SameTokens
  <2> QED
    BY <1>1, <2>1, <2>2, <2>3, <2>4, <2>5, <2>6, <2>7, <2>8, <2>9, <2>10 DEF RequestStep
<1>2. ASSUME NEW r \in Requests, NEW e \in Emails, Arrival(r, e) PROVE StoredOnce'
  <2>1. CASE RegisterController(r, e)
    BY <2>1, RegisterControllerPoints, AccountsAssumption
      DEF StoredOnce, Numbered, requests, history, NoCode
  <2>2. CASE ResendOTPController(r, e)
    BY <2>2, ResendOTPControllerPoints, AccountsAssumption
      DEF StoredOnce, Numbered, requests, history, NoCode
  <2>3. CASE ForgotPasswordController(r, e)
    BY <2>3, ForgotPasswordControllerPoints, AccountsAssumption
      DEF StoredOnce, Numbered, requests, history, NoCode
  <2>4. CASE AdminForgotPassword(r, e)
    BY <2>4, AdminForgotPasswordPoints, AccountsAssumption
      DEF StoredOnce, Numbered, requests, history, NoCode
  <2>5. ASSUME NEW code \in Mailed, VerifyOTPController(r, e, code) PROVE StoredOnce'
    BY <2>5, VerifyOTPControllerPoints, AccountsAssumption
      DEF StoredOnce, Numbered, requests, history, NoCode
  <2>6. ASSUME NEW code \in Mailed, ResetPasswordController(r, e, code) PROVE StoredOnce'
    BY <2>6, ResetPasswordControllerPoints, AccountsAssumption
      DEF StoredOnce, Numbered, requests, history, NoCode
  <2>7. ASSUME NEW code \in Mailed, AdminResetPassword(r, e, code) PROVE StoredOnce'
    BY <2>7, AdminResetPasswordPoints, AccountsAssumption
      DEF StoredOnce, Numbered, requests, history, NoCode
  <2>8. ASSUME NEW w \in Wallets, ConnectSolanaWallet(r, e, w) PROVE StoredOnce'
    BY <2>8, ConnectSolanaWalletPoints, AccountsAssumption
      DEF StoredOnce, Numbered, requests, history, NoCode
  <2> QED
    BY <1>2, <2>1, <2>2, <2>3, <2>4, <2>5, <2>6, <2>7, <2>8 DEF Arrival
<1>3. ASSUME NEW e \in Emails, LoginController(e) \/ DisconnectSolanaWallet(e) \/ DeleteUser(e)
      PROVE  StoredOnce'
  <2>1. CASE LoginController(e)
    BY <2>1, AccountsAssumption
      DEF LoginController, StoredOnce, Numbered, requests, history, NoCode
  <2>2. CASE DisconnectSolanaWallet(e)
    BY <2>2, DisconnectPoints, AccountsAssumption
      DEF StoredOnce, Numbered, requests, history, NoCode, SameOTPs, SameTokens
  <2>3. CASE DeleteUser(e)
    BY <2>3, DeletePoints, AbsentFields, AccountsAssumption
      DEF StoredOnce, Numbered, requests, history, NoCode
  <2> QED
    BY <1>3, <2>1, <2>2, <2>3
<1>4. ASSUME NEW code \in Codes, Expire(code) PROVE StoredOnce'
  BY <1>4, AccountsAssumption
    DEF Expire, StoredOnce, Numbered, requests, history, NoCode
<1>5. CASE Restart
  <2>1. CASE AdminInserted
    BY <1>5, <2>1, RestartPoints, AccountsAssumption
      DEF AdminInserted, StoredOnce, Numbered, requests, history, NoCode, Inserted
  <2>2. CASE AdminKept
    BY <1>5, <2>2, RestartPoints, AccountsAssumption
      DEF AdminKept, StoredOnce, Numbered, requests, history, NoCode, SameOTPs,
          SameTokens
  <2> QED
    BY <1>5, <2>1, <2>2, RestartPoints
<1>6. CASE UNCHANGED vars
  BY <1>6, AccountsAssumption DEF vars, StoredOnce, Numbered, requests, history, NoCode
<1> QED
  BY <1>1, <1>2, <1>3, <1>4, <1>5, <1>6 DEF Next
\* No code is stored where it was not.
FewerCodes ==
    \A d \in Documents :
        \/ /\ users'[d].email = users[d].email
           /\ users'[d].otp = users[d].otp \/ users'[d].otp = NoCode
           /\ users'[d].resetToken = users[d].resetToken \/ users'[d].resetToken = NoCode
        \/ users'[d].otp = NoCode /\ users'[d].resetToken = NoCode

FewerRequests ==
    \A r \in Requests : Over(r) \/ (pc'[r] = pc[r] /\ req'[r] = req[r])

\* A request that finishes leaves fewer requests.
LEMMA FinishedRequests ==
    ASSUME TypeOK, NEW r \in Requests, Finish(r)
    PROVE  FewerRequests
<1>1. Over(r) /\ OthersGoOn(r)
  BY FinishEffect
<1>2. ASSUME NEW q \in Requests
      PROVE  Over(q) \/ (pc'[q] = pc[q] /\ req'[q] = req[q])
  <2>1. CASE q = r
    BY <1>1, <2>1 DEF Over
  <2>2. CASE q /= r
    BY <1>1, <2>2 DEF OthersGoOn
  <2> QED
    BY <2>1, <2>2
<1> QED
  BY <1>2 DEF FewerRequests

\* With no new code stored and no new mail, the stored ones stay addressed.
LEMMA FewerCodesAddressed ==
    ASSUME Addressed, Staged, FewerCodes, FewerRequests, mailbox' = mailbox
    PROVE  Addressed'
<1> SUFFICES ASSUME NEW d \in Documents
             PROVE  /\ \A e \in Emails : \A c \in mailbox[e] :
                           Holds(d, c)' => e = users'[d].email
                    /\ \A r \in Requests :
                          /\ Holds(d, req[r].code)' => req'[r].email = users'[d].email
                          /\ pc'[r] = "reset" => users'[d].otp /= req'[r].code
                          /\ pc'[r] \in {"verify", "adminReset"} =>
                                users'[d].resetToken /= req'[r].code
  BY DEF Addressed
<1>1. \A c : c /= NoCode /\ c \in {users'[d].otp, users'[d].resetToken} =>
          Holds(d, c) /\ users'[d].email = users[d].email
  BY DEF FewerCodes, Holds
<1>2. \A e \in Emails : \A c \in mailbox[e] : Holds(d, c)' => e = users'[d].email
  BY <1>1 DEF Addressed, Holds
<1>3. ASSUME NEW r \in Requests
      PROVE  /\ Holds(d, req[r].code)' => req'[r].email = users'[d].email
             /\ pc'[r] = "reset" => users'[d].otp /= req'[r].code
             /\ pc'[r] \in {"verify", "adminReset"} =>
                   users'[d].resetToken /= req'[r].code
  <2>1. CASE Over(r)
    BY <2>1 DEF Over, Holds
  <2>2. CASE pc'[r] = pc[r] /\ req'[r] = req[r]
    <3>1. Holds(d, req[r].code)' => req'[r].email = users'[d].email
      BY <1>1, <2>2 DEF Addressed, Holds
    <3>2. Checked(r) => req[r].code /= NoCode
      BY DEF Staged, Codes, NoCode
    <3>3. pc'[r] = "reset" => users'[d].otp /= req'[r].code
      BY <2>2, <3>2 DEF Addressed, FewerCodes, Checked
    <3>4. pc'[r] \in {"verify", "adminReset"} => users'[d].resetToken /= req'[r].code
      BY <2>2, <3>2 DEF Addressed, FewerCodes, Checked
    <3> QED
      BY <3>1, <3>3, <3>4
  <2> QED
    BY <2>1, <2>2 DEF FewerRequests
<1> QED
  BY <1>2, <1>3

\* With no new code stored, the used ones stay gone.
LEMMA FewerCodesUsed ==
    ASSUME TypeOK, UsedCodesAreGone, FewerCodes, used' = used, raced \subseteq raced'
    PROVE  UsedCodesAreGone'
<1>1. NoCode \notin used
  BY DEF TypeOK, Codes, NoCode
<1> QED
  BY <1>1 DEF UsedCodesAreGone, FewerCodes

\* Every step keeps that a stored code is known to its own address only.
LEMMA AddressedStep ==
    ASSUME TypeOK, Staged, Numbered, StoredOnce, Addressed, [Next]_vars
    PROVE  Addressed'
<1>1. ASSUME NEW r \in Requests, RequestStep(r) PROVE Addressed'
  <2>1. CASE InsertUser(r)
    <3>1. /\ pc[r] = "insert" /\ pc'[r] = "mail" /\ OthersGoOn(r)
          /\ issued \in Nat /\ req'[r].email = req[r].email /\ req'[r].code = issued + 1
          /\ Inserted(inserted + 1, req[r].email, FALSE, issued + 1) /\ mailbox' = mailbox
      BY <2>1, InsertUserPoints, GenerateEffect
    <3> DEFINE n == inserted + 1
    <3>2. /\ n \in Documents /\ users'[n].otp = issued + 1 /\ users'[n].resetToken = NoCode
          /\ users'[n].email = req[r].email
          /\ \A k \in Documents : k /= n => users'[k] = users[k]
      BY <3>1 DEF Inserted
    <3> HIDE DEF n
    <3>3. ASSUME NEW d \in Documents, NEW e \in Emails, NEW c \in mailbox[e], Holds(d, c)'
          PROVE  e = users'[d].email
      BY <3>1, <3>2, <3>3 DEF Addressed, Holds, Numbered, NoCode
    <3>4. ASSUME NEW d \in Documents, NEW q \in Requests
          PROVE  /\ Holds(d, req[q].code)' => req'[q].email = users'[d].email
                 /\ pc'[q] = "reset" => users'[d].otp /= req'[q].code
                 /\ pc'[q] \in {"verify", "adminReset"} => users'[d].resetToken /= req'[q].code
      <4>1. CASE q = r
        BY <3>1, <3>2, <4>1 DEF Holds, Numbered, NoCode
      <4>2. CASE q /= r
        <5>1. pc'[q] = pc[q] /\ req'[q] = req[q] /\ req[q].code \in 0 .. issued
          BY <3>1, <4>2 DEF OthersGoOn, Numbered
        <5>2. Checked(q) => req[q].code /= NoCode
          BY DEF Staged, Codes, NoCode
        <5>3. CASE d = n
          BY <3>1, <3>2, <5>1, <5>2, <5>3 DEF Holds, Checked, NoCode
        <5>4. CASE d /= n
          BY <3>2, <5>1, <5>4 DEF Addressed, Holds
        <5> QED
          BY <5>3, <5>4
      <4> QED
        BY <4>1, <4>2
    <3> QED
      BY <3>1, <3>3, <3>4 DEF Addressed
  <2>2. CASE SaveOTP(r)
    BY <2>2, SaveOTPPoints, GenerateEffect, AccountsAssumption
      DEF Addressed, Holds, OthersGoOn, Numbered, Staged, requests, history, NoCode,
          SameOTPs, SameTokens, SameEmails
  <2>3. CASE SaveResetToken(r)
    BY <2>3, SaveResetTokenPoints, GenerateEffect, AccountsAssumption
      DEF Addressed, Holds, OthersGoOn, Numbered, Staged, requests, history, NoCode,
          SameOTPs, SameTokens, SameEmails
  <2>4. CASE SendEmail(r)
    BY <2>4, FinishEffect, AccountsAssumption
      DEF SendEmail, Addressed, Holds, OthersGoOn, Numbered, Staged, requests, history,
          NoCode, SameOTPs, SameTokens, SameEmails, Over
  <2>5. CASE MarkVerified(r)
    <3>1. FewerCodes /\ mailbox' = mailbox
      BY <2>5, MarkVerifiedPoints
        DEF FewerCodes, requests, history, SameEmails, SameOTPs, SameTokens
    <3>2. FewerRequests
      BY <2>5, MarkVerifiedPoints, FinishedRequests
    <3> QED
      BY <3>1, <3>2, FewerCodesAddressed
  <2>6. CASE SetPassword(r)
    <3>1. FewerCodes /\ mailbox' = mailbox
      BY <2>6, SetPasswordPoints
        DEF FewerCodes, requests, history, SameEmails, SameOTPs, SameTokens
    <3>2. FewerRequests
      BY <2>6, SetPasswordPoints, FinishedRequests
    <3> QED
      BY <3>1, <3>2, FewerCodesAddressed
  <2>7. CASE SetAdminPassword(r)
    <3>1. FewerCodes /\ mailbox' = mailbox
      BY <2>7, SetAdminPasswordPoints
        DEF FewerCodes, requests, history, SameEmails, SameOTPs, SameTokens
    <3>2. FewerRequests
      BY <2>7, SetAdminPasswordPoints, FinishedRequests
    <3> QED
      BY <3>1, <3>2, FewerCodesAddressed
  <2>8. CASE FindOwner(r)
    BY <2>8, FindOwnerPoints, AccountsAssumption
      DEF Addressed, Holds, OthersGoOn, Numbered, Staged, requests, history, NoCode,
          SameOTPs, SameTokens, SameEmails, Over
  <2>9. CASE LinkWallet(r)
    <3>1. FewerCodes /\ mailbox' = mailbox
      BY <2>9, LinkWalletPoints
        DEF FewerCodes, requests, history, SameEmails, SameOTPs, SameTokens
    <3>2. FewerRequests
      BY <2>9, LinkWalletPoints, FinishedRequests
    <3> QED
      BY <3>1, <3>2, FewerCodesAddressed
  <2>10. CASE CallFails(r)
    <3>1. FewerCodes /\ mailbox' = mailbox
      BY <2>10
        DEF CallFails, FewerCodes, requests, history, SameEmails, SameOTPs, SameTokens
    <3>2. FewerRequests
      BY <2>10, FinishedRequests DEF CallFails
    <3> QED
      BY <3>1, <3>2, FewerCodesAddressed
  <2> QED
    BY <1>1, <2>1, <2>2, <2>3, <2>4, <2>5, <2>6, <2>7, <2>8, <2>9, <2>10 DEF RequestStep
<1>2. ASSUME NEW r \in Requests, NEW e \in Emails, Arrival(r, e) PROVE Addressed'
  <2>1. CASE RegisterController(r, e)
    BY <2>1, RegisterControllerPoints, AccountsAssumption
      DEF Addressed, Holds, OthersGoOn, Numbered, Staged, requests, history, NoCode,
          Begun, StoredOnce, Codes
  <2>2. CASE ResendOTPController(r, e)
    BY <2>2, ResendOTPControllerPoints, AccountsAssumption
      DEF Addressed, Holds, OthersGoOn, Numbered, Staged, requests, history, NoCode,
          Begun, StoredOnce, Codes
  <2>3. CASE ForgotPasswordController(r, e)
    BY <2>3, ForgotPasswordControllerPoints, AccountsAssumption
      DEF Addressed, Holds, OthersGoOn, Numbered, Staged, requests, history, NoCode,
          Begun, StoredOnce, Codes
  <2>4. CASE AdminForgotPassword(r, e)
    BY <2>4, AdminForgotPasswordPoints, AccountsAssumption
      DEF Addressed, Holds, OthersGoOn, Numbered, Staged, requests, history, NoCode,
          Begun, StoredOnce, Codes
  <2>5. ASSUME NEW code \in Mailed, VerifyOTPController(r, e, code) PROVE Addressed'
    BY <2>5, VerifyOTPControllerPoints, AccountsAssumption
      DEF Addressed, Holds, OthersGoOn, Numbered, Staged, requests, history, NoCode,
          Begun, StoredOnce, Codes
  <2>6. ASSUME NEW code \in Mailed, ResetPasswordController(r, e, code) PROVE Addressed'
    BY <2>6, ResetPasswordControllerPoints, AccountsAssumption
      DEF Addressed, Holds, OthersGoOn, Numbered, Staged, requests, history, NoCode,
          Begun, StoredOnce, Codes
  <2>7. ASSUME NEW code \in Mailed, AdminResetPassword(r, e, code) PROVE Addressed'
    BY <2>7, AdminResetPasswordPoints, AccountsAssumption
      DEF Addressed, Holds, OthersGoOn, Numbered, Staged, requests, history, NoCode,
          Begun, StoredOnce, Codes
  <2>8. ASSUME NEW w \in Wallets, ConnectSolanaWallet(r, e, w) PROVE Addressed'
    BY <2>8, ConnectSolanaWalletPoints, AccountsAssumption
      DEF Addressed, Holds, OthersGoOn, Numbered, Staged, requests, history, NoCode,
          Begun, StoredOnce, Codes
  <2> QED
    BY <1>2, <2>1, <2>2, <2>3, <2>4, <2>5, <2>6, <2>7, <2>8 DEF Arrival
<1>3. ASSUME NEW e \in Emails, LoginController(e) \/ DisconnectSolanaWallet(e) \/ DeleteUser(e)
      PROVE  Addressed'
  <2>1. CASE LoginController(e)
    BY <2>1, AccountsAssumption
      DEF LoginController, Addressed, Holds, OthersGoOn, Numbered, Staged, requests,
          history, NoCode
  <2>2. CASE DisconnectSolanaWallet(e)
    <3>1. FewerCodes /\ mailbox' = mailbox
      BY <2>2, DisconnectPoints
        DEF FewerCodes, requests, history, SameEmails, SameOTPs, SameTokens
    <3>2. FewerRequests
      BY <2>2, DisconnectPoints DEF FewerRequests, Over, requests
    <3> QED
      BY <3>1, <3>2, FewerCodesAddressed
  <2>3. CASE DeleteUser(e)
    <3>1. FewerCodes /\ mailbox' = mailbox
      BY <2>3, DeletePoints, AbsentFields
        DEF FewerCodes, requests, history, SameEmails, SameOTPs, SameTokens
    <3>2. FewerRequests
      BY <2>3, DeletePoints, AbsentFields DEF FewerRequests, Over, requests
    <3> QED
      BY <3>1, <3>2, FewerCodesAddressed
  <2> QED
    BY <1>3, <2>1, <2>2, <2>3
<1>4. ASSUME NEW code \in Codes, Expire(code) PROVE Addressed'
  BY <1>4, AccountsAssumption
    DEF Expire, Addressed, Holds, OthersGoOn, Numbered, Staged, requests, history,
        NoCode
<1>5. CASE Restart
  <2>1. CASE AdminInserted
    <3>1. FewerCodes /\ mailbox' = mailbox
      BY <1>5, <2>1, RestartPoints
        DEF AdminInserted, Inserted, FewerCodes, requests, history, SameEmails,
            SameOTPs, SameTokens
    <3>2. FewerRequests
      BY <1>5, <2>1, RestartPoints DEF FewerRequests, Over, requests
    <3> QED
      BY <3>1, <3>2, FewerCodesAddressed
  <2>2. CASE AdminKept
    <3>1. FewerCodes /\ mailbox' = mailbox
      BY <1>5, <2>2, RestartPoints
        DEF AdminKept, FewerCodes, requests, history, SameEmails, SameOTPs, SameTokens
    <3>2. FewerRequests
      BY <1>5, <2>2, RestartPoints DEF FewerRequests, Over, requests
    <3> QED
      BY <3>1, <3>2, FewerCodesAddressed
  <2> QED
    BY <1>5, <2>1, <2>2, RestartPoints
<1>6. CASE UNCHANGED vars
  BY <1>6, AccountsAssumption
    DEF vars, Addressed, Holds, OthersGoOn, Numbered, Staged, requests, history,
        NoCode
<1> QED
  BY <1>1, <1>2, <1>3, <1>4, <1>5, <1>6 DEF Next

\* Every step keeps that a used code is gone.
LEMMA UsedCodesStep ==
    ASSUME TypeOK, Staged, Numbered, DuplicatesRaced, StoredOnce, Addressed, UsedCodesAreGone, [Next]_vars
    PROVE  UsedCodesAreGone'
<1>1. ASSUME NEW r \in Requests, RequestStep(r) PROVE UsedCodesAreGone'
  <2>1. CASE InsertUser(r)
    <3>1. /\ pc[r] = "insert" /\ pc'[r] = "mail" /\ OthersGoOn(r)
          /\ issued \in Nat /\ issued' = issued + 1 /\ issued' \in Codes /\ issued' \in 0 .. MaxCodes
          /\ req'[r].email = req[r].email /\ req'[r].code = issued + 1 /\ RequestsTyped
          /\ UsersTyped /\ Inserted(inserted + 1, req[r].email, FALSE, issued + 1)
          /\ UNCHANGED <<expired, mailbox, sessions, history>>
      BY <2>1, InsertUserPoints, GenerateEffect
    <3> QED
      BY <3>1, AccountsAssumption
        DEF UsedCodesAreGone, Numbered, requests, history, NoCode, Inserted
  <2>2. CASE SaveOTP(r)
    BY <2>2, SaveOTPPoints, GenerateEffect, AccountsAssumption
      DEF UsedCodesAreGone, Numbered, requests, history, NoCode, SameOTPs, SameTokens,
          SameEmails
  <2>3. CASE SaveResetToken(r)
    BY <2>3, SaveResetTokenPoints, GenerateEffect, AccountsAssumption
      DEF UsedCodesAreGone, Numbered, requests, history, NoCode, SameOTPs, SameTokens,
          SameEmails
  <2>4. CASE SendEmail(r)
    BY <2>4, FinishEffect, AccountsAssumption
      DEF SendEmail, UsedCodesAreGone, Numbered, requests, history, NoCode
  <2>5. CASE MarkVerified(r)
    <3> DEFINE code == req[r].code
    <3>1. FewerCodes /\ raced' = raced /\ UsesOTP(r) /\ SameTokens /\ SameEmails
      BY <2>5, MarkVerifiedPoints DEF FewerCodes, SameEmails, SameOTPs, SameTokens
    <3>2. CASE used' = used
      BY <3>1, <3>2, FewerCodesUsed
    <3>3. ASSUME UsesCode(r), NEW k \in DocumentsOf(req[r].email), users'[k].otp = NoCode
          PROVE  UsedCodesAreGone'
      <4>1. /\ code \in Codes /\ code /= NoCode
            /\ k \in Documents /\ users[k].email = req[r].email
        BY <2>5, MarkVerifiedPoints DEF Staged, Checked, DocumentsOf, Codes, NoCode
      <4>2. ASSUME NEW d \in Documents, users'[d].email \notin raced' \union {NoEmail}
            PROVE  code \notin {users'[d].otp, users'[d].resetToken}
        <5>1. users'[d].resetToken /= code
          BY <2>5, <3>1, MarkVerifiedPoints DEF Addressed, SameTokens
        <5>2. users'[d].otp = code => d = k
          BY <3>1, <4>1, <4>2
            DEF Addressed, Holds, DuplicatesRaced, FewerCodes, SameEmails
        <5> QED
          BY <3>3, <4>1, <5>1, <5>2
      <4>3. NoCode \notin used
        BY DEF TypeOK, Codes, NoCode
      <4>4. ASSUME NEW d \in Documents, users'[d].email \notin raced' \union {NoEmail}
            PROVE  used \intersect {users'[d].otp, users'[d].resetToken} = {}
        BY <3>1, <4>3, <4>4 DEF UsedCodesAreGone, FewerCodes
      <4> QED
        BY <3>3, <4>2, <4>4 DEF UsedCodesAreGone, UsesCode
    <3> QED
      BY <3>1, <3>2, <3>3 DEF UsesOTP
  <2>6. CASE SetPassword(r)
    <3> DEFINE code == req[r].code
    <3>1. FewerCodes /\ raced' = raced /\ UsesToken(r) /\ SameOTPs /\ SameEmails
      BY <2>6, SetPasswordPoints DEF FewerCodes, SameEmails, SameOTPs, SameTokens
    <3>2. CASE used' = used
      BY <3>1, <3>2, FewerCodesUsed
    <3>3. ASSUME UsesCode(r), NEW k \in DocumentsOf(req[r].email), users'[k].resetToken = NoCode
          PROVE  UsedCodesAreGone'
      <4>1. /\ code \in Codes /\ code /= NoCode
            /\ k \in Documents /\ users[k].email = req[r].email
        BY <2>6, SetPasswordPoints DEF Staged, Checked, DocumentsOf, Codes, NoCode
      <4>2. ASSUME NEW d \in Documents, users'[d].email \notin raced' \union {NoEmail}
            PROVE  code \notin {users'[d].otp, users'[d].resetToken}
        <5>1. users'[d].otp /= code
          BY <2>6, <3>1, SetPasswordPoints DEF Addressed, SameOTPs
        <5>2. users'[d].resetToken = code => d = k
          BY <3>1, <4>1, <4>2
            DEF Addressed, Holds, DuplicatesRaced, FewerCodes, SameEmails
        <5> QED
          BY <3>3, <4>1, <5>1, <5>2
      <4>3. NoCode \notin used
        BY DEF TypeOK, Codes, NoCode
      <4>4. ASSUME NEW d \in Documents, users'[d].email \notin raced' \union {NoEmail}
            PROVE  used \intersect {users'[d].otp, users'[d].resetToken} = {}
        BY <3>1, <4>3, <4>4 DEF UsedCodesAreGone, FewerCodes
      <4> QED
        BY <3>3, <4>2, <4>4 DEF UsedCodesAreGone, UsesCode
    <3> QED
      BY <3>1, <3>2, <3>3 DEF UsesToken
  <2>7. CASE SetAdminPassword(r)
    <3> DEFINE code == req[r].code
    <3>1. FewerCodes /\ raced' = raced /\ UsesOTP(r) /\ SameTokens /\ SameEmails
      BY <2>7, SetAdminPasswordPoints DEF FewerCodes, SameEmails, SameOTPs, SameTokens
    <3>2. CASE used' = used
      BY <3>1, <3>2, FewerCodesUsed
    <3>3. ASSUME UsesCode(r), NEW k \in DocumentsOf(req[r].email), users'[k].otp = NoCode
          PROVE  UsedCodesAreGone'
      <4>1. /\ code \in Codes /\ code /= NoCode
            /\ k \in Documents /\ users[k].email = req[r].email
        BY <2>7, SetAdminPasswordPoints DEF Staged, Checked, DocumentsOf, Codes, NoCode
      <4>2. ASSUME NEW d \in Documents, users'[d].email \notin raced' \union {NoEmail}
            PROVE  code \notin {users'[d].otp, users'[d].resetToken}
        <5>1. users'[d].resetToken /= code
          BY <2>7, <3>1, SetAdminPasswordPoints DEF Addressed, SameTokens
        <5>2. users'[d].otp = code => d = k
          BY <3>1, <4>1, <4>2
            DEF Addressed, Holds, DuplicatesRaced, FewerCodes, SameEmails
        <5> QED
          BY <3>3, <4>1, <5>1, <5>2
      <4>3. NoCode \notin used
        BY DEF TypeOK, Codes, NoCode
      <4>4. ASSUME NEW d \in Documents, users'[d].email \notin raced' \union {NoEmail}
            PROVE  used \intersect {users'[d].otp, users'[d].resetToken} = {}
        BY <3>1, <4>3, <4>4 DEF UsedCodesAreGone, FewerCodes
      <4> QED
        BY <3>3, <4>2, <4>4 DEF UsedCodesAreGone, UsesCode
    <3> QED
      BY <3>1, <3>2, <3>3 DEF UsesOTP
  <2>8. CASE FindOwner(r)
    BY <2>8, FindOwnerPoints, AccountsAssumption
      DEF UsedCodesAreGone, Numbered, requests, history, NoCode
  <2>9. CASE LinkWallet(r)
    <3>1. FewerCodes /\ used' = used /\ raced \subseteq raced'
      BY <2>9, LinkWalletPoints
        DEF FewerCodes, requests, history, SameEmails, SameOTPs, SameTokens
    <3> QED
      BY <3>1, FewerCodesUsed
  <2>10. CASE CallFails(r)
    <3>1. FewerCodes /\ used' = used /\ raced \subseteq raced'
      BY <2>10
        DEF CallFails, FewerCodes, requests, history, SameEmails, SameOTPs, SameTokens
    <3> QED
      BY <3>1, FewerCodesUsed
  <2> QED
    BY <1>1, <2>1, <2>2, <2>3, <2>4, <2>5, <2>6, <2>7, <2>8, <2>9, <2>10 DEF RequestStep
<1>2. ASSUME NEW r \in Requests, NEW e \in Emails, Arrival(r, e) PROVE UsedCodesAreGone'
  <2>1. CASE RegisterController(r, e)
    BY <2>1, RegisterControllerPoints, AccountsAssumption
      DEF UsedCodesAreGone, Numbered, requests, history, NoCode
  <2>2. CASE ResendOTPController(r, e)
    BY <2>2, ResendOTPControllerPoints, AccountsAssumption
      DEF UsedCodesAreGone, Numbered, requests, history, NoCode
  <2>3. CASE ForgotPasswordController(r, e)
    BY <2>3, ForgotPasswordControllerPoints, AccountsAssumption
      DEF UsedCodesAreGone, Numbered, requests, history, NoCode
  <2>4. CASE AdminForgotPassword(r, e)
    BY <2>4, AdminForgotPasswordPoints, AccountsAssumption
      DEF UsedCodesAreGone, Numbered, requests, history, NoCode
  <2>5. ASSUME NEW code \in Mailed, VerifyOTPController(r, e, code) PROVE UsedCodesAreGone'
    BY <2>5, VerifyOTPControllerPoints, AccountsAssumption
      DEF UsedCodesAreGone, Numbered, requests, history, NoCode
  <2>6. ASSUME NEW code \in Mailed, ResetPasswordController(r, e, code) PROVE UsedCodesAreGone'
    BY <2>6, ResetPasswordControllerPoints, AccountsAssumption
      DEF UsedCodesAreGone, Numbered, requests, history, NoCode
  <2>7. ASSUME NEW code \in Mailed, AdminResetPassword(r, e, code) PROVE UsedCodesAreGone'
    BY <2>7, AdminResetPasswordPoints, AccountsAssumption
      DEF UsedCodesAreGone, Numbered, requests, history, NoCode
  <2>8. ASSUME NEW w \in Wallets, ConnectSolanaWallet(r, e, w) PROVE UsedCodesAreGone'
    BY <2>8, ConnectSolanaWalletPoints, AccountsAssumption
      DEF UsedCodesAreGone, Numbered, requests, history, NoCode
  <2> QED
    BY <1>2, <2>1, <2>2, <2>3, <2>4, <2>5, <2>6, <2>7, <2>8 DEF Arrival
<1>3. ASSUME NEW e \in Emails, LoginController(e) \/ DisconnectSolanaWallet(e) \/ DeleteUser(e)
      PROVE  UsedCodesAreGone'
  <2>1. CASE LoginController(e)
    BY <2>1, AccountsAssumption
      DEF LoginController, UsedCodesAreGone, Numbered, requests, history, NoCode
  <2>2. CASE DisconnectSolanaWallet(e)
    <3>1. FewerCodes /\ used' = used /\ raced \subseteq raced'
      BY <2>2, DisconnectPoints
        DEF FewerCodes, requests, history, SameEmails, SameOTPs, SameTokens
    <3> QED
      BY <3>1, FewerCodesUsed
  <2>3. CASE DeleteUser(e)
    <3>1. FewerCodes /\ used' = used /\ raced \subseteq raced'
      BY <2>3, DeletePoints, AbsentFields
        DEF FewerCodes, requests, history, SameEmails, SameOTPs, SameTokens
    <3> QED
      BY <3>1, FewerCodesUsed
  <2> QED
    BY <1>3, <2>1, <2>2, <2>3
<1>4. ASSUME NEW code \in Codes, Expire(code) PROVE UsedCodesAreGone'
  BY <1>4, AccountsAssumption
    DEF Expire, UsedCodesAreGone, Numbered, requests, history, NoCode
<1>5. CASE Restart
  <2>1. CASE AdminInserted
    <3>1. FewerCodes /\ used' = used /\ raced \subseteq raced'
      BY <1>5, <2>1, RestartPoints
        DEF AdminInserted, Inserted, FewerCodes, requests, history, SameEmails,
            SameOTPs, SameTokens
    <3> QED
      BY <3>1, FewerCodesUsed
  <2>2. CASE AdminKept
    <3>1. FewerCodes /\ used' = used /\ raced \subseteq raced'
      BY <1>5, <2>2, RestartPoints
        DEF AdminKept, FewerCodes, requests, history, SameEmails, SameOTPs, SameTokens
    <3> QED
      BY <3>1, FewerCodesUsed
  <2> QED
    BY <1>5, <2>1, <2>2, RestartPoints
<1>6. CASE UNCHANGED vars
  BY <1>6, AccountsAssumption
    DEF vars, UsedCodesAreGone, Numbered, requests, history, NoCode
<1> QED
  BY <1>1, <1>2, <1>3, <1>4, <1>5, <1>6 DEF Next

\* Every step keeps that a connection nobody overlaps is alone with its wallet.
LEMMA AloneWithWalletStep ==
    ASSUME TypeOK, Staged, Numbered, AloneWithWallet, [Next]_vars
    PROVE  AloneWithWallet'
<1>1. ASSUME NEW r \in Requests, RequestStep(r) PROVE AloneWithWallet'
  <2>1. CASE InsertUser(r)
    <3>1. /\ pc[r] = "insert" /\ pc'[r] = "mail" /\ OthersGoOn(r)
          /\ issued \in Nat /\ issued' = issued + 1 /\ issued' \in Codes /\ issued' \in 0 .. MaxCodes
          /\ req'[r].email = req[r].email /\ req'[r].code = issued + 1 /\ RequestsTyped
          /\ UsersTyped /\ Inserted(inserted + 1, req[r].email, FALSE, issued + 1)
          /\ UNCHANGED <<expired, mailbox, sessions, history>>
      BY <2>1, InsertUserPoints, GenerateEffect
    <3> QED
      BY <3>1, AccountsAssumption
        DEF AloneWithWallet, Staged, OthersGoOn, requests, history, Inserted
  <2>2. CASE SaveOTP(r)
    BY <2>2, SaveOTPPoints, GenerateEffect, AccountsAssumption
      DEF AloneWithWallet, Staged, OthersGoOn, requests, history, SameWallets,
          SameEmails
  <2>3. CASE SaveResetToken(r)
    BY <2>3, SaveResetTokenPoints, GenerateEffect, AccountsAssumption
      DEF AloneWithWallet, Staged, OthersGoOn, requests, history, SameWallets,
          SameEmails
  <2>4. CASE SendEmail(r)
    BY <2>4, FinishEffect, AccountsAssumption
      DEF SendEmail, AloneWithWallet, Staged, OthersGoOn, requests, history,
          SameWallets, SameEmails, Over
  <2>5. CASE MarkVerified(r)
    BY <2>5, MarkVerifiedPoints, FinishEffect, AccountsAssumption
      DEF AloneWithWallet, Staged, OthersGoOn, requests, history, SameWallets,
          SameEmails, Over
  <2>6. CASE SetPassword(r)
    BY <2>6, SetPasswordPoints, FinishEffect, AccountsAssumption
      DEF AloneWithWallet, Staged, OthersGoOn, requests, history, SameWallets,
          SameEmails, Over
  <2>7. CASE SetAdminPassword(r)
    BY <2>7, SetAdminPasswordPoints, FinishEffect, AccountsAssumption
      DEF AloneWithWallet, Staged, OthersGoOn, requests, history, SameWallets,
          SameEmails, Over
  <2>8. CASE FindOwner(r)
    BY <2>8, FindOwnerPoints, AccountsAssumption
      DEF AloneWithWallet, Staged, OthersGoOn, requests, history, Over, OtherOwners,
          Linking
  <2>9. CASE LinkWallet(r)
    BY <2>9, LinkWalletPoints, FinishEffect, AccountsAssumption
      DEF AloneWithWallet, Staged, OthersGoOn, requests, history, SameWallets,
          SameEmails, Over
  <2>10. CASE CallFails(r)
    BY <2>10, FinishEffect, AccountsAssumption
      DEF CallFails, AloneWithWallet, Staged, OthersGoOn, requests, history,
          SameWallets, SameEmails, Over
  <2> QED
    BY <1>1, <2>1, <2>2, <2>3, <2>4, <2>5, <2>6, <2>7, <2>8, <2>9, <2>10 DEF RequestStep
<1>2. ASSUME NEW r \in Requests, NEW e \in Emails, Arrival(r, e) PROVE AloneWithWallet'
  <2>1. CASE RegisterController(r, e)
    BY <2>1, RegisterControllerPoints, AccountsAssumption
      DEF AloneWithWallet, Staged, OthersGoOn, requests, history, Begun
  <2>2. CASE ResendOTPController(r, e)
    BY <2>2, ResendOTPControllerPoints, AccountsAssumption
      DEF AloneWithWallet, Staged, OthersGoOn, requests, history, Begun
  <2>3. CASE ForgotPasswordController(r, e)
    BY <2>3, ForgotPasswordControllerPoints, AccountsAssumption
      DEF AloneWithWallet, Staged, OthersGoOn, requests, history, Begun
  <2>4. CASE AdminForgotPassword(r, e)
    BY <2>4, AdminForgotPasswordPoints, AccountsAssumption
      DEF AloneWithWallet, Staged, OthersGoOn, requests, history, Begun
  <2>5. ASSUME NEW code \in Mailed, VerifyOTPController(r, e, code) PROVE AloneWithWallet'
    BY <2>5, VerifyOTPControllerPoints, AccountsAssumption
      DEF AloneWithWallet, Staged, OthersGoOn, requests, history, Begun
  <2>6. ASSUME NEW code \in Mailed, ResetPasswordController(r, e, code) PROVE AloneWithWallet'
    BY <2>6, ResetPasswordControllerPoints, AccountsAssumption
      DEF AloneWithWallet, Staged, OthersGoOn, requests, history, Begun
  <2>7. ASSUME NEW code \in Mailed, AdminResetPassword(r, e, code) PROVE AloneWithWallet'
    BY <2>7, AdminResetPasswordPoints, AccountsAssumption
      DEF AloneWithWallet, Staged, OthersGoOn, requests, history, Begun
  <2>8. ASSUME NEW w \in Wallets, ConnectSolanaWallet(r, e, w) PROVE AloneWithWallet'
    BY <2>8, ConnectSolanaWalletPoints, AccountsAssumption
      DEF AloneWithWallet, Staged, OthersGoOn, requests, history, Begun
  <2> QED
    BY <1>2, <2>1, <2>2, <2>3, <2>4, <2>5, <2>6, <2>7, <2>8 DEF Arrival
<1>3. ASSUME NEW e \in Emails, LoginController(e) \/ DisconnectSolanaWallet(e) \/ DeleteUser(e)
      PROVE  AloneWithWallet'
  <2>1. CASE LoginController(e)
    BY <2>1, AccountsAssumption
      DEF LoginController, AloneWithWallet, Staged, OthersGoOn, requests, history
  <2>2. CASE DisconnectSolanaWallet(e)
    BY <2>2, DisconnectPoints, AccountsAssumption
      DEF AloneWithWallet, Staged, OthersGoOn, requests, history, SameWallets,
          SameEmails
  <2>3. CASE DeleteUser(e)
    BY <2>3, DeletePoints, AbsentFields, AccountsAssumption
      DEF AloneWithWallet, Staged, OthersGoOn, requests, history
  <2> QED
    BY <1>3, <2>1, <2>2, <2>3
<1>4. ASSUME NEW code \in Codes, Expire(code) PROVE AloneWithWallet'
  BY <1>4, AccountsAssumption
    DEF Expire, AloneWithWallet, Staged, OthersGoOn, requests, history
<1>5. CASE Restart
  <2>1. CASE AdminInserted
    BY <1>5, <2>1, RestartPoints, AccountsAssumption
      DEF AdminInserted, AloneWithWallet, Staged, OthersGoOn, requests, history, Over
  <2>2. CASE AdminKept
    BY <1>5, <2>2, RestartPoints, AccountsAssumption
      DEF AdminKept, AloneWithWallet, Staged, OthersGoOn, requests, history, Over
  <2> QED
    BY <1>5, <2>1, <2>2, RestartPoints
<1>6. CASE UNCHANGED vars
  BY <1>6, AccountsAssumption
    DEF vars, AloneWithWallet, Staged, OthersGoOn, requests, history
<1> QED
  BY <1>1, <1>2, <1>3, <1>4, <1>5, <1>6 DEF Next

\* Every step keeps that only overlapping connections share a wallet.
LEMMA SharedWalletsStep ==
    ASSUME TypeOK, Staged, Numbered, AloneWithWallet, SharedWalletsRaced, [Next]_vars
    PROVE  SharedWalletsRaced'
<1>1. ASSUME NEW r \in Requests, RequestStep(r) PROVE SharedWalletsRaced'
  <2>1. CASE InsertUser(r)
    <3>1. /\ pc[r] = "insert" /\ pc'[r] = "mail" /\ OthersGoOn(r)
          /\ issued \in Nat /\ issued' = issued + 1 /\ issued' \in Codes /\ issued' \in 0 .. MaxCodes
          /\ req'[r].email = req[r].email /\ req'[r].code = issued + 1 /\ RequestsTyped
          /\ UsersTyped /\ Inserted(inserted + 1, req[r].email, FALSE, issued + 1)
          /\ UNCHANGED <<expired, mailbox, sessions, history>>
      BY <2>1, InsertUserPoints, GenerateEffect
    <3> QED
      BY <3>1, AccountsAssumption DEF SharedWalletsRaced, requests, history, Inserted
  <2>2. CASE SaveOTP(r)
    BY <2>2, SaveOTPPoints, GenerateEffect, AccountsAssumption
      DEF SharedWalletsRaced, requests, history, SameWallets, SameEmails
  <2>3. CASE SaveResetToken(r)
    BY <2>3, SaveResetTokenPoints, GenerateEffect, AccountsAssumption
      DEF SharedWalletsRaced, requests, history, SameWallets, SameEmails
  <2>4. CASE SendEmail(r)
    BY <2>4, FinishEffect, AccountsAssumption
      DEF SendEmail, SharedWalletsRaced, requests, history, SameWallets, SameEmails
  <2>5. CASE MarkVerified(r)
    BY <2>5, MarkVerifiedPoints, FinishEffect, AccountsAssumption
      DEF SharedWalletsRaced, requests, history, SameWallets, SameEmails
  <2>6. CASE SetPassword(r)
    BY <2>6, SetPasswordPoints, FinishEffect, AccountsAssumption
      DEF SharedWalletsRaced, requests, history, SameWallets, SameEmails
  <2>7. CASE SetAdminPassword(r)
    BY <2>7, SetAdminPasswordPoints, FinishEffect, AccountsAssumption
      DEF SharedWalletsRaced, requests, history, SameWallets, SameEmails
  <2>8. CASE FindOwner(r)
    BY <2>8, FindOwnerPoints, AccountsAssumption
      DEF SharedWalletsRaced, requests, history
  <2>9. CASE LinkWallet(r)
    BY <2>9, LinkWalletPoints, FinishEffect, AccountsAssumption
      DEF SharedWalletsRaced, requests, history, SameWallets, SameEmails,
          AloneWithWallet
  <2>10. CASE CallFails(r)
    BY <2>10, FinishEffect, AccountsAssumption
      DEF CallFails, SharedWalletsRaced, requests, history, SameWallets, SameEmails
  <2> QED
    BY <1>1, <2>1, <2>2, <2>3, <2>4, <2>5, <2>6, <2>7, <2>8, <2>9, <2>10 DEF RequestStep
<1>2. ASSUME NEW r \in Requests, NEW e \in Emails, Arrival(r, e) PROVE SharedWalletsRaced'
  <2>1. CASE RegisterController(r, e)
    BY <2>1, RegisterControllerPoints, AccountsAssumption
      DEF SharedWalletsRaced, requests, history
  <2>2. CASE ResendOTPController(r, e)
    BY <2>2, ResendOTPControllerPoints, AccountsAssumption
      DEF SharedWalletsRaced, requests, history
  <2>3. CASE ForgotPasswordController(r, e)
    BY <2>3, ForgotPasswordControllerPoints, AccountsAssumption
      DEF SharedWalletsRaced, requests, history
  <2>4. CASE AdminForgotPassword(r, e)
    BY <2>4, AdminForgotPasswordPoints, AccountsAssumption
      DEF SharedWalletsRaced, requests, history
  <2>5. ASSUME NEW code \in Mailed, VerifyOTPController(r, e, code) PROVE SharedWalletsRaced'
    BY <2>5, VerifyOTPControllerPoints, AccountsAssumption
      DEF SharedWalletsRaced, requests, history
  <2>6. ASSUME NEW code \in Mailed, ResetPasswordController(r, e, code) PROVE SharedWalletsRaced'
    BY <2>6, ResetPasswordControllerPoints, AccountsAssumption
      DEF SharedWalletsRaced, requests, history
  <2>7. ASSUME NEW code \in Mailed, AdminResetPassword(r, e, code) PROVE SharedWalletsRaced'
    BY <2>7, AdminResetPasswordPoints, AccountsAssumption
      DEF SharedWalletsRaced, requests, history
  <2>8. ASSUME NEW w \in Wallets, ConnectSolanaWallet(r, e, w) PROVE SharedWalletsRaced'
    BY <2>8, ConnectSolanaWalletPoints, AccountsAssumption
      DEF SharedWalletsRaced, requests, history
  <2> QED
    BY <1>2, <2>1, <2>2, <2>3, <2>4, <2>5, <2>6, <2>7, <2>8 DEF Arrival
<1>3. ASSUME NEW e \in Emails, LoginController(e) \/ DisconnectSolanaWallet(e) \/ DeleteUser(e)
      PROVE  SharedWalletsRaced'
  <2>1. CASE LoginController(e)
    BY <2>1, AccountsAssumption
      DEF LoginController, SharedWalletsRaced, requests, history
  <2>2. CASE DisconnectSolanaWallet(e)
    BY <2>2, DisconnectPoints, AccountsAssumption
      DEF SharedWalletsRaced, requests, history, SameWallets, SameEmails
  <2>3. CASE DeleteUser(e)
    BY <2>3, DeletePoints, AbsentFields, AccountsAssumption
      DEF SharedWalletsRaced, requests, history
  <2> QED
    BY <1>3, <2>1, <2>2, <2>3
<1>4. ASSUME NEW code \in Codes, Expire(code) PROVE SharedWalletsRaced'
  BY <1>4, AccountsAssumption DEF Expire, SharedWalletsRaced, requests, history
<1>5. CASE Restart
  <2>1. CASE AdminInserted
    BY <1>5, <2>1, RestartPoints, AccountsAssumption
      DEF AdminInserted, SharedWalletsRaced, requests, history, Inserted
  <2>2. CASE AdminKept
    BY <1>5, <2>2, RestartPoints, AccountsAssumption
      DEF AdminKept, SharedWalletsRaced, requests, history, SameWallets, SameEmails
  <2> QED
    BY <1>5, <2>1, <2>2, RestartPoints
<1>6. CASE UNCHANGED vars
  BY <1>6, AccountsAssumption DEF vars, SharedWalletsRaced, requests, history
<1> QED
  BY <1>1, <1>2, <1>3, <1>4, <1>5, <1>6 DEF Next
\* Nothing that was proved, sent or disturbed is forgotten.
Remembers ==
    /\ proved \subseteq proved'
    /\ \A e \in Emails : mailbox[e] \subseteq mailbox'[e]
    /\ raced \subseteq raced'
    /\ disturbed \subseteq disturbed'

NoNewChecks ==
    \A q \in Requests : Checked(q)' => pc'[q] = pc[q] /\ req'[q] = req[q]

\* Fewer requests are no new checks.
LEMMA FewerRequestsChecked ==
    ASSUME FewerRequests
    PROVE  NoNewChecks
BY DEF FewerRequests, Over, NoNewChecks, Checked

\* A request that begins without a code has checked none.
LEMMA BegunUnchecked ==
    ASSUME NEW r \in Requests, NEW stage, NEW e, NEW code, NEW w,
           Begun(r, stage, e, code, w), stage \notin {"verify", "reset", "adminReset"}
    PROVE  NoNewChecks
BY DEF Begun, OthersGoOn, NoNewChecks, Checked

\* A request that generates a code has checked none.
LEMMA GeneratedUnchecked ==
    ASSUME TypeOK, NEW r \in Requests, NEW stage, GenerateCode(r, stage)
    PROVE  NoNewChecks
<1>1. OthersGoOn(r) /\ pc'[r] = "mail"
  BY GenerateEffect
<1> QED
  BY <1>1 DEF OthersGoOn, NoNewChecks, Checked

\* What a request checked holds as long as the e-mails and the proofs do.
LEMMA StillProvedKept ==
    ASSUME TypeOK, Staged, StillProved, SameEmails, Remembers, NoNewChecks
    PROVE  StillProved'
<1> SUFFICES ASSUME NEW r \in Requests, Checked(r)',
                    req'[r].email \notin raced' \union disturbed'
             PROVE  /\ \E d \in Documents : users'[d].email = req'[r].email
                    /\ \A d \in Documents :
                          users'[d].email = req'[r].email => ProvedFor(d, req[r].code)'
  BY DEF StillProved
<1>1. /\ Checked(r) /\ req'[r] = req[r] /\ req[r].email \in Emails
      /\ req[r].email \notin raced \union disturbed
  BY DEF NoNewChecks, Checked, Remembers, Staged
<1>2. PICK d \in Documents : users[d].email = req[r].email
  BY <1>1 DEF StillProved
<1>3. users'[d].email = req'[r].email
  BY <1>1, <1>2 DEF SameEmails
<1>4. ASSUME NEW k \in Documents, users'[k].email = req'[r].email
      PROVE  ProvedFor(k, req[r].code)'
  BY <1>1, <1>4 DEF StillProved, SameEmails, ProvedFor, Remembers
<1> QED
  BY <1>3, <1>4

\* A proof of the address of a document that keeps its e-mail stays a proof.
LEMMA OwnerProvedKept ==
    ASSUME TypeOK, OwnerProved, Remembers, NEW d \in Documents,
           users'[d].email = users[d].email, users'[d].seeded = users[d].seeded,
           users'[d].email \notin raced' \union disturbed' \union {NoEmail}
    PROVE  /\ users[d].email \in Emails
           /\ users[d].isVerified =>
                 users'[d].seeded \/ \E code \in Codes : ProvedFor(d, code)'
           /\ \A code : users[d].password = code /\ code /= NoCode => ProvedFor(d, code)'
<1>1. users[d].email \in Emails
  BY DEF TypeOK, User, Absent
<1>2. users[d].email \notin raced \union disturbed \union {NoEmail}
  BY DEF Remembers
<1>3. \A code : ProvedFor(d, code) => ProvedFor(d, code)'
  BY <1>1 DEF ProvedFor, Remembers
<1>4. users[d].isVerified => users[d].seeded \/ \E code \in Codes : ProvedFor(d, code)
  BY <1>2 DEF OwnerProved
<1>5. users[d].password /= NoCode => ProvedFor(d, users[d].password)
  BY <1>2 DEF OwnerProved
<1> QED
  BY <1>1, <1>3, <1>4, <1>5

\* Every step keeps what a checked code proved.
LEMMA StillProvedStep ==
    ASSUME TypeOK, Staged, Numbered, Alone, DuplicatesRaced, Addressed, StillProved, [Next]_vars
    PROVE  StillProved'
<1>1. ASSUME NEW r \in Requests, RequestStep(r) PROVE StillProved'
  <2>1. CASE InsertUser(r)
    <3>1. /\ Inserted(inserted + 1, req[r].email, FALSE, issued + 1) /\ pc[r] = "insert"
          /\ Remembers /\ UNCHANGED <<raced, disturbed, proved, mailbox>>
      BY <2>1, InsertUserPoints DEF GenerateCode, Remembers, history
    <3>2. NoNewChecks
      BY <2>1, InsertUserPoints, GeneratedUnchecked
    <3>3. ASSUME NEW q \in Requests, Checked(q)', req'[q].email \notin raced' \union disturbed'
          PROVE  /\ \E d \in Documents : users'[d].email = req'[q].email
                 /\ \A d \in Documents :
                       users'[d].email = req'[q].email => ProvedFor(d, req[q].code)'
      <4>1. /\ Checked(q) /\ req'[q] = req[q]
            /\ req[q].email \notin raced \union disturbed
        BY <3>1, <3>2, <3>3 DEF NoNewChecks, Checked
      <4>2. PICK k \in Documents : users[k].email = req[q].email
        BY <4>1 DEF StillProved
      <4>3. req[r].email /= req[q].email
        BY <3>1, <4>1, <4>2 DEF Alone
      <4>4. users'[k].email = req[q].email
        <5>1. users[k] /= Absent
          BY <4>1, <4>2, AbsentFields, AccountsAssumption DEF Staged, Checked
        <5> QED
          BY <3>1, <4>2, <5>1 DEF Inserted
      <4>5. ASSUME NEW d \in Documents, users'[d].email = req[q].email
            PROVE  ProvedFor(d, req[q].code)'
        <5>1. users'[d] = users[d]
          BY <3>1, <4>3, <4>5 DEF Inserted
        <5> QED
          BY <3>1, <4>1, <4>5, <5>1 DEF StillProved, ProvedFor
      <4> QED
        BY <4>1, <4>4, <4>5
    <3> QED
      BY <3>3 DEF StillProved
  <2>2. CASE SaveOTP(r)
    <3>1. SameEmails /\ Remembers
      BY <2>2, SaveOTPPoints DEF SameEmails, Remembers, history, requests
    <3>2. NoNewChecks
      BY <2>2, SaveOTPPoints, GeneratedUnchecked
    <3> QED
      BY <3>1, <3>2, StillProvedKept
  <2>3. CASE SaveResetToken(r)
    <3>1. SameEmails /\ Remembers
      BY <2>3, SaveResetTokenPoints DEF SameEmails, Remembers, history, requests
    <3>2. NoNewChecks
      BY <2>3, SaveResetTokenPoints, GeneratedUnchecked
    <3> QED
      BY <3>1, <3>2, StillProvedKept
  <2>4. CASE SendEmail(r)
    <3>1. SameEmails /\ Remembers
      BY <2>4 DEF SendEmail, TypeOK, Staged, SameEmails, Remembers, history, requests
    <3>2. NoNewChecks
      BY <2>4, FinishedRequests, FewerRequestsChecked DEF SendEmail
    <3> QED
      BY <3>1, <3>2, StillProvedKept
  <2>5. CASE MarkVerified(r)
    <3>1. SameEmails /\ Remembers
      BY <2>5, MarkVerifiedPoints DEF SameEmails, Remembers, history, requests
    <3>2. NoNewChecks
      BY <2>5, MarkVerifiedPoints, FinishedRequests, FewerRequestsChecked
    <3> QED
      BY <3>1, <3>2, StillProvedKept
  <2>6. CASE SetPassword(r)
    <3>1. SameEmails /\ Remembers
      BY <2>6, SetPasswordPoints DEF SameEmails, Remembers, history, requests
    <3>2. NoNewChecks
      BY <2>6, SetPasswordPoints, FinishedRequests, FewerRequestsChecked
    <3> QED
      BY <3>1, <3>2, StillProvedKept
  <2>7. CASE SetAdminPassword(r)
    <3>1. SameEmails /\ Remembers
      BY <2>7, SetAdminPasswordPoints DEF SameEmails, Remembers, history, requests
    <3>2. NoNewChecks
      BY <2>7, SetAdminPasswordPoints, FinishedRequests, FewerRequestsChecked
    <3> QED
      BY <3>1, <3>2, StillProvedKept
  <2>8. CASE FindOwner(r)
    <3>1. SameEmails /\ Remembers
      BY <2>8, FindOwnerPoints DEF SameEmails, Remembers, history, requests
    <3>2. NoNewChecks
      BY <2>8, FindOwnerPoints DEF NoNewChecks, Checked, OthersGoOn, Over
    <3> QED
      BY <3>1, <3>2, StillProvedKept
  <2>9. CASE LinkWallet(r)
    <3>1. SameEmails /\ Remembers
      BY <2>9, LinkWalletPoints DEF SameEmails, Remembers, history, requests
    <3>2. NoNewChecks
      BY <2>9, LinkWalletPoints, FinishedRequests, FewerRequestsChecked
    <3> QED
      BY <3>1, <3>2, StillProvedKept
  <2>10. CASE CallFails(r)
    <3>1. SameEmails /\ Remembers
      BY <2>10 DEF CallFails, SameEmails, Remembers, history, requests
    <3>2. NoNewChecks
      BY <2>10, FinishedRequests, FewerRequestsChecked DEF CallFails
    <3> QED
      BY <3>1, <3>2, StillProvedKept
  <2> QED
    BY <1>1, <2>1, <2>2, <2>3, <2>4, <2>5, <2>6, <2>7, <2>8, <2>9, <2>10 DEF RequestStep
<1>2. ASSUME NEW r \in Requests, NEW e \in Emails, Arrival(r, e) PROVE StillProved'
  <2>1. CASE RegisterController(r, e)
    <3>1. SameEmails /\ Remembers
      BY <2>1, RegisterControllerPoints DEF SameEmails, Remembers, history, requests
    <3>2. NoNewChecks
      BY <2>1, RegisterControllerPoints, BegunUnchecked
    <3> QED
      BY <3>1, <3>2, StillProvedKept
  <2>2. CASE ResendOTPController(r, e)
    <3>1. SameEmails /\ Remembers
      BY <2>2, ResendOTPControllerPoints DEF SameEmails, Remembers, history, requests
    <3>2. NoNewChecks
      BY <2>2, ResendOTPControllerPoints, BegunUnchecked
    <3> QED
      BY <3>1, <3>2, StillProvedKept
  <2>3. CASE ForgotPasswordController(r, e)
    <3>1. SameEmails /\ Remembers
      BY <2>3, ForgotPasswordControllerPoints
        DEF SameEmails, Remembers, history, requests
    <3>2. NoNewChecks
      BY <2>3, ForgotPasswordControllerPoints, BegunUnchecked
    <3> QED
      BY <3>1, <3>2, StillProvedKept
  <2>4. CASE AdminForgotPassword(r, e)
    <3>1. SameEmails /\ Remembers
      BY <2>4, AdminForgotPasswordPoints DEF SameEmails, Remembers, history, requests
    <3>2. NoNewChecks
      BY <2>4, AdminForgotPasswordPoints, BegunUnchecked
    <3> QED
      BY <3>1, <3>2, StillProvedKept
  <2>5. ASSUME NEW code \in Mailed, VerifyOTPController(r, e, code) PROVE StillProved'
    <3>1. /\ Begun(r, "verify", e, code, NoWallet) /\ code \in Codes
          /\ UNCHANGED <<users, mailbox, raced, disturbed>>
      BY <2>5, VerifyOTPControllerPoints
    <3>2. PICK k \in Documents :
             /\ users[k].email = e /\ users[k].otp = code
             /\ proved' = proved \union {<<k, code>>}
      BY <2>5, VerifyOTPControllerPoints
    <3>3. code \in mailbox[e]
      BY <3>1, <3>2 DEF Mailed, Addressed, Holds, Codes, NoCode
    <3>4. ASSUME NEW q \in Requests, Checked(q)', req'[q].email \notin raced' \union disturbed'
          PROVE  /\ \E d \in Documents : users'[d].email = req'[q].email
                 /\ \A d \in Documents :
                       users'[d].email = req'[q].email => ProvedFor(d, req[q].code)'
      <4>1. CASE q = r
        <5>1. req'[q].email = e /\ req'[q].code = code /\ e \notin raced \union {NoEmail}
          BY <3>1, <3>4, <4>1, AccountsAssumption DEF Begun
        <5>2. \A d \in Documents : users[d].email = e => d = k
          BY <3>2, <5>1 DEF DuplicatesRaced
        <5> QED
          BY <3>1, <3>2, <3>3, <5>1, <5>2 DEF ProvedFor
      <4>2. CASE q /= r
        <5>1. Checked(q) /\ req'[q] = req[q] /\ req[q].email \notin raced \union disturbed
          BY <3>1, <3>4, <4>2 DEF Begun, OthersGoOn, Checked
        <5> QED
          BY <3>1, <3>2, <5>1 DEF StillProved, ProvedFor
      <4> QED
        BY <4>1, <4>2
    <3> QED
      BY <3>4 DEF StillProved
  <2>6. ASSUME NEW code \in Mailed, ResetPasswordController(r, e, code) PROVE StillProved'
    <3>1. /\ Begun(r, "reset", e, code, NoWallet) /\ code \in Codes
          /\ UNCHANGED <<users, mailbox, raced, disturbed>>
      BY <2>6, ResetPasswordControllerPoints
    <3>2. PICK k \in Documents :
             /\ users[k].email = e /\ users[k].resetToken = code
             /\ proved' = proved \union {<<k, code>>}
      BY <2>6, ResetPasswordControllerPoints
    <3>3. code \in mailbox[e]
      BY <3>1, <3>2 DEF Mailed, Addressed, Holds, Codes, NoCode
    <3>4. ASSUME NEW q \in Requests, Checked(q)', req'[q].email \notin raced' \union disturbed'
          PROVE  /\ \E d \in Documents : users'[d].email = req'[q].email
                 /\ \A d \in Documents :
                       users'[d].email = req'[q].email => ProvedFor(d, req[q].code)'
      <4>1. CASE q = r
        <5>1. req'[q].email = e /\ req'[q].code = code /\ e \notin raced \union {NoEmail}
          BY <3>1, <3>4, <4>1, AccountsAssumption DEF Begun
        <5>2. \A d \in Documents : users[d].email = e => d = k
          BY <3>2, <5>1 DEF DuplicatesRaced
        <5> QED
          BY <3>1, <3>2, <3>3, <5>1, <5>2 DEF ProvedFor
      <4>2. CASE q /= r
        <5>1. Checked(q) /\ req'[q] = req[q] /\ req[q].email \notin raced \union disturbed
          BY <3>1, <3>4, <4>2 DEF Begun, OthersGoOn, Checked
        <5> QED
          BY <3>1, <3>2, <5>1 DEF StillProved, ProvedFor
      <4> QED
        BY <4>1, <4>2
    <3> QED
      BY <3>4 DEF StillProved
  <2>7. ASSUME NEW code \in Mailed, AdminResetPassword(r, e, code) PROVE StillProved'
    <3>1. /\ Begun(r, "adminReset", e, code, NoWallet) /\ code \in Codes
          /\ UNCHANGED <<users, mailbox, raced, disturbed>>
      BY <2>7, AdminResetPasswordPoints
    <3>2. PICK k \in Documents :
             /\ users[k].email = e /\ users[k].otp = code
             /\ proved' = proved \union {<<k, code>>}
      BY <2>7, AdminResetPasswordPoints
    <3>3. code \in mailbox[e]
      BY <3>1, <3>2 DEF Mailed, Addressed, Holds, Codes, NoCode
    <3>4. ASSUME NEW q \in Requests, Checked(q)', req'[q].email \notin raced' \union disturbed'
          PROVE  /\ \E d \in Documents : users'[d].email = req'[q].email
                 /\ \A d \in Documents :
                       users'[d].email = req'[q].email => ProvedFor(d, req[q].code)'
      <4>1. CASE q = r
        <5>1. req'[q].email = e /\ req'[q].code = code /\ e \notin raced \union {NoEmail}
          BY <3>1, <3>4, <4>1, AccountsAssumption DEF Begun
        <5>2. \A d \in Documents : users[d].email = e => d = k
          BY <3>2, <5>1 DEF DuplicatesRaced
        <5> QED
          BY <3>1, <3>2, <3>3, <5>1, <5>2 DEF ProvedFor
      <4>2. CASE q /= r
        <5>1. Checked(q) /\ req'[q] = req[q] /\ req[q].email \notin raced \union disturbed
          BY <3>1, <3>4, <4>2 DEF Begun, OthersGoOn, Checked
        <5> QED
          BY <3>1, <3>2, <5>1 DEF StillProved, ProvedFor
      <4> QED
        BY <4>1, <4>2
    <3> QED
      BY <3>4 DEF StillProved
  <2>8. ASSUME NEW w \in Wallets, ConnectSolanaWallet(r, e, w) PROVE StillProved'
    <3>1. SameEmails /\ Remembers
      BY <2>8, ConnectSolanaWalletPoints DEF SameEmails, Remembers, history, requests
    <3>2. NoNewChecks
      BY <2>8, ConnectSolanaWalletPoints, BegunUnchecked
    <3> QED
      BY <3>1, <3>2, StillProvedKept
  <2> QED
    BY <1>2, <2>1, <2>2, <2>3, <2>4, <2>5, <2>6, <2>7, <2>8 DEF Arrival
<1>3. ASSUME NEW e \in Emails, LoginController(e) \/ DisconnectSolanaWallet(e) \/ DeleteUser(e)
      PROVE  StillProved'
  <2>1. CASE LoginController(e)
    <3>1. SameEmails /\ Remembers
      BY <2>1 DEF LoginController, SameEmails, Remembers, history, requests
    <3>2. NoNewChecks
      BY <2>1 DEF LoginController, NoNewChecks, Checked, requests
    <3> QED
      BY <3>1, <3>2, StillProvedKept
  <2>2. CASE DisconnectSolanaWallet(e)
    <3>1. SameEmails /\ Remembers
      BY <2>2, DisconnectPoints DEF SameEmails, Remembers, history, requests
    <3>2. NoNewChecks
      BY <2>2, DisconnectPoints DEF NoNewChecks, Checked, requests
    <3> QED
      BY <3>1, <3>2, StillProvedKept
  <2>3. CASE DeleteUser(e)
    <3>1. /\ \A d \in Documents : users'[d] = users[d] \/ users'[d] = Absent
          /\ \A d \in Documents : users'[d] /= users[d] => users[d].email = e
          /\ disturbed \subseteq disturbed'
          /\ e \in disturbed' \/ \A r \in Requests : req[r].email /= e
          /\ UNCHANGED <<mailbox, pc, req, proved, raced>>
      BY <2>3, DeletePoints DEF requests
    <3>2. ASSUME NEW q \in Requests, Checked(q)', req'[q].email \notin raced' \union disturbed'
          PROVE  /\ \E d \in Documents : users'[d].email = req'[q].email
                 /\ \A d \in Documents :
                       users'[d].email = req'[q].email => ProvedFor(d, req[q].code)'
      <4>1. /\ Checked(q) /\ req'[q] = req[q] /\ req[q].email \in Emails
            /\ req[q].email \notin raced \union disturbed /\ req[q].email /= e
        BY <3>1, <3>2 DEF Checked, Staged
      <4>2. PICK k \in Documents : users[k].email = req[q].email
        BY <4>1 DEF StillProved
      <4>3. users'[k].email = req[q].email
        BY <3>1, <4>1, <4>2
      <4>4. ASSUME NEW d \in Documents, users'[d].email = req[q].email
            PROVE  ProvedFor(d, req[q].code)'
        <5>1. users'[d] = users[d]
          BY <3>1, <4>1, <4>4, AbsentFields, AccountsAssumption
        <5> QED
          BY <3>1, <4>1, <4>4, <5>1 DEF StillProved, ProvedFor
      <4> QED
        BY <4>1, <4>3, <4>4
    <3> QED
      BY <3>2 DEF StillProved
  <2> QED
    BY <1>3, <2>1, <2>2, <2>3
<1>4. ASSUME NEW code \in Codes, Expire(code) PROVE StillProved'
  <2>1. SameEmails /\ Remembers
    BY <1>4 DEF Expire, SameEmails, Remembers, history, requests
  <2>2. NoNewChecks
    BY <1>4 DEF Expire, NoNewChecks, Checked, requests
  <2> QED
    BY <2>1, <2>2, StillProvedKept
<1>5. CASE Restart
  <2>1. CASE AdminInserted
    BY <1>5, RestartPoints DEF StillProved, Checked, Over
  <2>2. CASE AdminKept
    BY <1>5, RestartPoints DEF StillProved, Checked, Over
  <2> QED
    BY <1>5, <2>1, <2>2, RestartPoints
<1>6. CASE UNCHANGED vars
  <2>1. SameEmails /\ Remembers
    BY <1>6 DEF vars, SameEmails, Remembers, history, requests
  <2>2. NoNewChecks
    BY <1>6 DEF vars, NoNewChecks, Checked, requests
  <2> QED
    BY <2>1, <2>2, StillProvedKept
<1> QED
  BY <1>1, <1>2, <1>3, <1>4, <1>5, <1>6 DEF Next

\* It is enough to look at the e-mails that nothing raced or disturbed.
LEMMA OwnerProvedShown ==
    ASSUME TypeOK,
           \A d \in Documents :
              users'[d].email \notin raced' \union disturbed' \union {NoEmail} =>
                    /\ users'[d].isVerified =>
                          users'[d].seeded \/ \E code \in Codes : ProvedFor(d, code)'
                    /\ \A code : users'[d].password = code /\ code /= NoCode =>
                          ProvedFor(d, code)'
    PROVE  OwnerProved'
<1> SUFFICES ASSUME NEW d \in Documents,
                    users'[d].email \notin raced' \union disturbed' \union {NoEmail}
             PROVE  /\ users'[d].isVerified =>
                          users'[d].seeded \/ \E code \in Codes : ProvedFor(d, code)'
                    /\ users'[d].password /= NoCode => ProvedFor(d, users[d].password)'
  BY DEF OwnerProved
<1> QED
  OBVIOUS

\* A step that verifies nothing and sets no password keeps what was proved.
LEMMA OwnerProvedSame ==
    ASSUME TypeOK, OwnerProved, Remembers, SameEmails, SameSeeds, SameVerified, SamePasswords
    PROVE  OwnerProved'
<1> SUFFICES ASSUME NEW d \in Documents,
                    users'[d].email \notin raced' \union disturbed' \union {NoEmail}
             PROVE  /\ users'[d].isVerified =>
                          users'[d].seeded \/ \E code \in Codes : ProvedFor(d, code)'
                    /\ \A code : users'[d].password = code /\ code /= NoCode =>
                          ProvedFor(d, code)'
  BY OwnerProvedShown
<1>1. /\ users'[d].email = users[d].email /\ users'[d].seeded = users[d].seeded
      /\ users'[d].isVerified = users[d].isVerified
      /\ users'[d].password = users[d].password
  BY DEF SameEmails, SameSeeds, SameVerified, SamePasswords
<1> QED
  BY <1>1, OwnerProvedKept

\* Every step keeps that whoever verified or reset was mailed the code.
LEMMA OwnerProvedStep ==
    ASSUME TypeOK, Staged, Numbered, StillProved, OwnerProved, [Next]_vars
    PROVE  OwnerProved'
<1>1. ASSUME NEW r \in Requests, RequestStep(r) PROVE OwnerProved'
  <2>1. CASE InsertUser(r)
    <3> SUFFICES ASSUME NEW d \in Documents,
                        users'[d].email \notin raced' \union disturbed' \union {NoEmail}
                 PROVE  /\ users'[d].isVerified =>
                              users'[d].seeded \/ \E code \in Codes : ProvedFor(d, code)'
                        /\ \A code : users'[d].password = code /\ code /= NoCode =>
                              ProvedFor(d, code)'
      BY OwnerProvedShown
    <3>1. Remembers /\ \A k \in Documents : k /= inserted + 1 => users'[k] = users[k]
      BY <2>1, InsertUserPoints DEF Inserted, Remembers, history
    <3>2. CASE d = inserted + 1
      BY <2>1, <3>2, InsertUserPoints DEF Inserted
    <3>3. CASE d /= inserted + 1
      BY <3>1, <3>3, OwnerProvedKept
    <3> QED
      BY <3>2, <3>3
  <2>2. CASE SaveOTP(r)
    <3>1. Remembers /\ SameEmails /\ SameSeeds /\ SameVerified /\ SamePasswords
      BY <2>2, SaveOTPPoints
        DEF Remembers, SameEmails, SameSeeds, SameVerified, SamePasswords, history,
            requests
    <3> QED
      BY <3>1, OwnerProvedSame
  <2>3. CASE SaveResetToken(r)
    <3>1. Remembers /\ SameEmails /\ SameSeeds /\ SameVerified /\ SamePasswords
      BY <2>3, SaveResetTokenPoints
        DEF Remembers, SameEmails, SameSeeds, SameVerified, SamePasswords, history,
            requests
    <3> QED
      BY <3>1, OwnerProvedSame
  <2>4. CASE SendEmail(r)
    <3>1. Remembers /\ SameEmails /\ SameSeeds /\ SameVerified /\ SamePasswords
      BY <2>4
        DEF SendEmail, TypeOK, Staged, Remembers, SameEmails, SameSeeds, SameVerified,
            SamePasswords, history, requests
    <3> QED
      BY <3>1, OwnerProvedSame
  <2>5. CASE MarkVerified(r)
    <3> SUFFICES ASSUME NEW d \in Documents,
                        users'[d].email \notin raced' \union disturbed' \union {NoEmail}
                 PROVE  /\ users'[d].isVerified =>
                              users'[d].seeded \/ \E code \in Codes : ProvedFor(d, code)'
                        /\ \A code : users'[d].password = code /\ code /= NoCode =>
                              ProvedFor(d, code)'
      BY OwnerProvedShown
    <3>1. Remembers /\ UNCHANGED <<proved, mailbox, raced, disturbed>>
          /\ SameEmails /\ SameSeeds /\ Checked(r) /\ req[r].code \in Codes
      BY <2>5, MarkVerifiedPoints DEF Remembers, Checked, Staged
    <3>2. /\ users'[d].email = users[d].email /\ users'[d].seeded = users[d].seeded
      BY <3>1 DEF SameEmails, SameSeeds
    <3>3. users[d].email = req[r].email => ProvedFor(d, req[r].code)
      BY <3>1, <3>2 DEF StillProved
    <3>4. \A code : ProvedFor(d, code) => ProvedFor(d, code)'
      BY <3>1, <3>2 DEF ProvedFor
    <3>5. /\ users'[d].password = users[d].password
          /\ users'[d].isVerified => users[d].isVerified \/ users[d].email = req[r].email
      BY <2>5, MarkVerifiedPoints DEF SamePasswords, SameVerified
    <3> QED
      BY <3>1, <3>2, <3>3, <3>4, <3>5, OwnerProvedKept
  <2>6. CASE SetPassword(r)
    <3> SUFFICES ASSUME NEW d \in Documents,
                        users'[d].email \notin raced' \union disturbed' \union {NoEmail}
                 PROVE  /\ users'[d].isVerified =>
                              users'[d].seeded \/ \E code \in Codes : ProvedFor(d, code)'
                        /\ \A code : users'[d].password = code /\ code /= NoCode =>
                              ProvedFor(d, code)'
      BY OwnerProvedShown
    <3>1. Remembers /\ UNCHANGED <<proved, mailbox, raced, disturbed>>
          /\ SameEmails /\ SameSeeds /\ Checked(r) /\ req[r].code \in Codes
      BY <2>6, SetPasswordPoints DEF Remembers, Checked, Staged
    <3>2. /\ users'[d].email = users[d].email /\ users'[d].seeded = users[d].seeded
      BY <3>1 DEF SameEmails, SameSeeds
    <3>3. users[d].email = req[r].email => ProvedFor(d, req[r].code)
      BY <3>1, <3>2 DEF StillProved
    <3>4. \A code : ProvedFor(d, code) => ProvedFor(d, code)'
      BY <3>1, <3>2 DEF ProvedFor
    <3>5. /\ users'[d].isVerified = users[d].isVerified
          /\ users'[d].password = users[d].password
                \/ (users'[d].password = req[r].code /\ users[d].email = req[r].email)
      BY <2>6, SetPasswordPoints DEF SamePasswords, SameVerified
    <3> QED
      BY <3>1, <3>2, <3>3, <3>4, <3>5, OwnerProvedKept
  <2>7. CASE SetAdminPassword(r)
    <3> SUFFICES ASSUME NEW d \in Documents,
                        users'[d].email \notin raced' \union disturbed' \union {NoEmail}
                 PROVE  /\ users'[d].isVerified =>
                              users'[d].seeded \/ \E code \in Codes : ProvedFor(d, code)'
                        /\ \A code : users'[d].password = code /\ code /= NoCode =>
                              ProvedFor(d, code)'
      BY OwnerProvedShown
    <3>1. Remembers /\ UNCHANGED <<proved, mailbox, raced, disturbed>>
          /\ SameEmails /\ SameSeeds /\ Checked(r) /\ req[r].code \in Codes
      BY <2>7, SetAdminPasswordPoints DEF Remembers, Checked, Staged
    <3>2. /\ users'[d].email = users[d].email /\ users'[d].seeded = users[d].seeded
      BY <3>1 DEF SameEmails, SameSeeds
    <3>3. users[d].email = req[r].email => ProvedFor(d, req[r].code)
      BY <3>1, <3>2 DEF StillProved
    <3>4. \A code : ProvedFor(d, code) => ProvedFor(d, code)'
      BY <3>1, <3>2 DEF ProvedFor
    <3>5. /\ users'[d].isVerified = users[d].isVerified
          /\ users'[d].password = users[d].password
                \/ (users'[d].password = req[r].code /\ users[d].email = req[r].email)
      BY <2>7, SetAdminPasswordPoints DEF SamePasswords, SameVerified
    <3> QED
      BY <3>1, <3>2, <3>3, <3>4, <3>5, OwnerProvedKept
  <2>8. CASE FindOwner(r)
    <3>1. Remembers /\ SameEmails /\ SameSeeds /\ SameVerified /\ SamePasswords
      BY <2>8, FindOwnerPoints
        DEF Remembers, SameEmails, SameSeeds, SameVerified, SamePasswords, history,
            requests
    <3> QED
      BY <3>1, OwnerProvedSame
  <2>9. CASE LinkWallet(r)
    <3>1. Remembers /\ SameEmails /\ SameSeeds /\ SameVerified /\ SamePasswords
      BY <2>9, LinkWalletPoints
        DEF Remembers, SameEmails, SameSeeds, SameVerified, SamePasswords, history,
            requests
    <3> QED
      BY <3>1, OwnerProvedSame
  <2>10. CASE CallFails(r)
    <3>1. Remembers /\ SameEmails /\ SameSeeds /\ SameVerified /\ SamePasswords
      BY <2>10
        DEF CallFails, Remembers, SameEmails, SameSeeds, SameVerified, SamePasswords,
            history, requests
    <3> QED
      BY <3>1, OwnerProvedSame
  <2> QED
    BY <1>1, <2>1, <2>2, <2>3, <2>4, <2>5, <2>6, <2>7, <2>8, <2>9, <2>10 DEF RequestStep
<1>2. ASSUME NEW r \in Requests, NEW e \in Emails, Arrival(r, e) PROVE OwnerProved'
  <2>1. CASE RegisterController(r, e)
    <3>1. Remembers /\ SameEmails /\ SameSeeds /\ SameVerified /\ SamePasswords
      BY <2>1, RegisterControllerPoints
        DEF Remembers, SameEmails, SameSeeds, SameVerified, SamePasswords, history,
            requests
    <3> QED
      BY <3>1, OwnerProvedSame
  <2>2. CASE ResendOTPController(r, e)
    <3>1. Remembers /\ SameEmails /\ SameSeeds /\ SameVerified /\ SamePasswords
      BY <2>2, ResendOTPControllerPoints
        DEF Remembers, SameEmails, SameSeeds, SameVerified, SamePasswords, history,
            requests
    <3> QED
      BY <3>1, OwnerProvedSame
  <2>3. CASE ForgotPasswordController(r, e)
    <3>1. Remembers /\ SameEmails /\ SameSeeds /\ SameVerified /\ SamePasswords
      BY <2>3, ForgotPasswordControllerPoints
        DEF Remembers, SameEmails, SameSeeds, SameVerified, SamePasswords, history,
            requests
    <3> QED
      BY <3>1, OwnerProvedSame
  <2>4. CASE AdminForgotPassword(r, e)
    <3>1. Remembers /\ SameEmails /\ SameSeeds /\ SameVerified /\ SamePasswords
      BY <2>4, AdminForgotPasswordPoints
        DEF Remembers, SameEmails, SameSeeds, SameVerified, SamePasswords, history,
            requests
    <3> QED
      BY <3>1, OwnerProvedSame
  <2>5. ASSUME NEW code \in Mailed, VerifyOTPController(r, e, code) PROVE OwnerProved'
    <3>1. Remembers /\ SameEmails /\ SameSeeds /\ SameVerified /\ SamePasswords
      BY <2>5, VerifyOTPControllerPoints
        DEF Remembers, SameEmails, SameSeeds, SameVerified, SamePasswords, history,
            requests
    <3> QED
      BY <3>1, OwnerProvedSame
  <2>6. ASSUME NEW code \in Mailed, ResetPasswordController(r, e, code) PROVE OwnerProved'
    <3>1. Remembers /\ SameEmails /\ SameSeeds /\ SameVerified /\ SamePasswords
      BY <2>6, ResetPasswordControllerPoints
        DEF Remembers, SameEmails, SameSeeds, SameVerified, SamePasswords, history,
            requests
    <3> QED
      BY <3>1, OwnerProvedSame
  <2>7. ASSUME NEW code \in Mailed, AdminResetPassword(r, e, code) PROVE OwnerProved'
    <3>1. Remembers /\ SameEmails /\ SameSeeds /\ SameVerified /\ SamePasswords
      BY <2>7, AdminResetPasswordPoints
        DEF Remembers, SameEmails, SameSeeds, SameVerified, SamePasswords, history,
            requests
    <3> QED
      BY <3>1, OwnerProvedSame
  <2>8. ASSUME NEW w \in Wallets, ConnectSolanaWallet(r, e, w) PROVE OwnerProved'
    <3>1. Remembers /\ SameEmails /\ SameSeeds /\ SameVerified /\ SamePasswords
      BY <2>8, ConnectSolanaWalletPoints
        DEF Remembers, SameEmails, SameSeeds, SameVerified, SamePasswords, history,
            requests
    <3> QED
      BY <3>1, OwnerProvedSame
  <2> QED
    BY <1>2, <2>1, <2>2, <2>3, <2>4, <2>5, <2>6, <2>7, <2>8 DEF Arrival
<1>3. ASSUME NEW e \in Emails, LoginController(e) \/ DisconnectSolanaWallet(e) \/ DeleteUser(e)
      PROVE  OwnerProved'
  <2>1. CASE LoginController(e)
    <3>1. Remembers /\ SameEmails /\ SameSeeds /\ SameVerified /\ SamePasswords
      BY <2>1
        DEF LoginController, Remembers, SameEmails, SameSeeds, SameVerified,
            SamePasswords, history, requests
    <3> QED
      BY <3>1, OwnerProvedSame
  <2>2. CASE DisconnectSolanaWallet(e)
    <3>1. Remembers /\ SameEmails /\ SameSeeds /\ SameVerified /\ SamePasswords
      BY <2>2, DisconnectPoints
        DEF Remembers, SameEmails, SameSeeds, SameVerified, SamePasswords, history,
            requests
    <3> QED
      BY <3>1, OwnerProvedSame
  <2>3. CASE DeleteUser(e)
    <3> SUFFICES ASSUME NEW d \in Documents,
                        users'[d].email \notin raced' \union disturbed' \union {NoEmail}
                 PROVE  /\ users'[d].isVerified =>
                              users'[d].seeded \/ \E code \in Codes : ProvedFor(d, code)'
                        /\ \A code : users'[d].password = code /\ code /= NoCode =>
                              ProvedFor(d, code)'
      BY OwnerProvedShown
    <3>1. Remembers /\ \A k \in Documents : users'[k] = users[k] \/ users'[k] = Absent
      BY <2>3, DeletePoints DEF Remembers, requests
    <3>2. users'[d] = users[d]
      BY <3>1, AbsentFields
    <3> QED
      BY <3>1, <3>2, OwnerProvedKept
  <2> QED
    BY <1>3, <2>1, <2>2, <2>3
<1>4. ASSUME NEW code \in Codes, Expire(code) PROVE OwnerProved'
  <2>1. Remembers /\ SameEmails /\ SameSeeds /\ SameVerified /\ SamePasswords
    BY <1>4
      DEF Expire, Remembers, SameEmails, SameSeeds, SameVerified, SamePasswords,
          history, requests
  <2> QED
    BY <2>1, OwnerProvedSame
<1>5. CASE Restart
  <2>1. CASE AdminInserted
    <3> SUFFICES ASSUME NEW d \in Documents,
                        users'[d].email \notin raced' \union disturbed' \union {NoEmail}
                 PROVE  /\ users'[d].isVerified =>
                              users'[d].seeded \/ \E code \in Codes : ProvedFor(d, code)'
                        /\ \A code : users'[d].password = code /\ code /= NoCode =>
                              ProvedFor(d, code)'
      BY OwnerProvedShown
    <3>1. Remembers /\ \A k \in Documents : k /= inserted + 1 => users'[k] = users[k]
      BY <1>5, <2>1, RestartPoints DEF AdminInserted, Inserted, Remembers, history
    <3>2. CASE d = inserted + 1
      BY <1>5, <2>1, <3>2, RestartPoints DEF AdminInserted, Inserted
    <3>3. CASE d /= inserted + 1
      BY <3>1, <3>3, OwnerProvedKept
    <3> QED
      BY <3>2, <3>3
  <2>2. CASE AdminKept
    <3>1. Remembers
      BY <1>5, RestartPoints DEF Remembers, history
    <3> QED
      BY <3>1, <2>2, OwnerProvedSame DEF AdminKept
  <2> QED
    BY <1>5, <2>1, <2>2, RestartPoints
<1>6. CASE UNCHANGED vars
  <2>1. Remembers /\ SameEmails /\ SameSeeds /\ SameVerified /\ SamePasswords
    BY <1>6
      DEF vars, Remembers, SameEmails, SameSeeds, SameVerified, SamePasswords, history,
          requests
  <2> QED
    BY <2>1, OwnerProvedSame
<1> QED
  BY <1>1, <1>2, <1>3, <1>4, <1>5, <1>6 DEF Next
-----------------------------------------------------------------------------
(* The inductive invariant.                                                *)

IInv ==
    /\ TypeOK /\ Staged /\ Numbered
    /\ Alone /\ DuplicatesRaced
    /\ StoredOnce /\ Addressed /\ UsedCodesAreGone
    /\ StillProved /\ OwnerProved
    /\ AloneWithWallet /\ SharedWalletsRaced

\* The first start of the server: one administrator and nothing else.
LEMMA InitIInv ==
    ASSUME Init
    PROVE  IInv
<1>1. /\ \A d \in Documents : users[d] = IF d = 1 THEN DefaultAdmin ELSE Absent
      /\ inserted = 1 /\ issued = 0 /\ used = {}
      /\ \A e \in Emails : mailbox[e] = {}
      /\ \A r \in Requests : pc[r] = "idle" /\ req[r] = Idle
  BY DEF Init
<1>2. /\ DefaultAdmin \in User /\ DefaultAdmin.email = AdminEmail /\ DefaultAdmin.seeded
      /\ DefaultAdmin.password = NoCode /\ DefaultAdmin.otp = NoCode
      /\ DefaultAdmin.resetToken = NoCode /\ DefaultAdmin.wallet = NoWallet
  BY NewDocuments DEF Is
<1>3. TypeOK
  <2>1. users \in [Documents -> User \union {Absent}]
    BY <1>2 DEF Init
  <2>2. req \in [Requests -> Request] /\ pc \in [Requests -> Stages]
    BY IdleFields DEF Init, Stages
  <2>3. mailbox \in [Emails -> SUBSET Codes]
    BY DEF Init
  <2>4. inserted \in 0 .. MaxDocuments /\ issued \in 0 .. MaxCodes
    BY AccountsAssumption DEF Init
  <2> QED
    BY <2>1, <2>2, <2>3, <2>4 DEF Init, TypeOK
<1>4. \A d \in Documents :
         /\ users[d].otp = NoCode /\ users[d].resetToken = NoCode
         /\ users[d].password = NoCode /\ users[d].wallet = NoWallet
  BY <1>1, <1>2, AbsentFields
<1>5. \A d \in Documents : users[d].email /= NoEmail => d = 1 /\ users[d].seeded
  BY <1>1, <1>2, AbsentFields
<1>6. Staged
  BY <1>1 DEF Staged, Checked
<1>7. Numbered
  BY <1>1, <1>4, IdleFields DEF Numbered, NoCode
<1>8. Alone /\ AloneWithWallet /\ StillProved
  BY <1>1 DEF Alone, AloneWithWallet, StillProved, Checked
<1>9. DuplicatesRaced
  BY <1>5 DEF DuplicatesRaced
<1>10. StoredOnce
  BY <1>4 DEF StoredOnce
<1>11. Addressed
  BY <1>1, <1>4 DEF Addressed, Holds
<1>12. UsedCodesAreGone
  BY <1>1 DEF UsedCodesAreGone
<1>13. OwnerProved
  BY <1>4, <1>5 DEF OwnerProved
<1>14. SharedWalletsRaced
  BY <1>4 DEF SharedWalletsRaced
<1> QED
  BY <1>3, <1>6, <1>7, <1>8, <1>9, <1>10, <1>11, <1>12, <1>13, <1>14 DEF IInv

\* Every step keeps the strengthening.
LEMMA NextIInv ==
    ASSUME IInv, [Next]_vars
    PROVE  IInv'
<1>1. TypeOK' /\ Staged' /\ Numbered'
  BY TypesStep, StagedStep, NumberedStep DEF IInv
<1>2. Alone' /\ DuplicatesRaced'
  BY AloneStep, DuplicatesStep DEF IInv
<1>3. StoredOnce' /\ Addressed' /\ UsedCodesAreGone'
  BY StoredOnceStep, AddressedStep, UsedCodesStep DEF IInv
<1>4. StillProved' /\ OwnerProved'
  BY StillProvedStep, OwnerProvedStep DEF IInv
<1>5. AloneWithWallet' /\ SharedWalletsRaced'
  BY AloneWithWalletStep, SharedWalletsStep DEF IInv
<1> QED
  BY <1>1, <1>2, <1>3, <1>4, <1>5 DEF IInv

\* The strengthening holds in every state of every run of the server.
THEOREM Inductive == Spec => []IInv
<1>1. Init => IInv
  BY InitIInv
<1>2. IInv /\ [Next]_vars => IInv'
  BY NextIInv
<1> QED
  BY <1>1, <1>2, PTL DEF Spec

-----------------------------------------------------------------------------
(* The results.                                                            *)

\* The collection, the codes and the local variables of every request stay in
\* their ranges, whatever requests, deletions and restarts come.
THEOREM AccountTypes == Spec => []TypeOK
<1>1. IInv => TypeOK
  BY DEF IInv
<1> QED
  BY Inductive, <1>1, PTL

\* An e-mail has two documents only if two calls of RegisterController
\* overlapped, with any number of other requests and deletions around them.
THEOREM DuplicatesNeedARace == Spec => []DuplicatesRaced
<1>1. IInv => DuplicatesRaced
  BY DEF IInv
<1> QED
  BY Inductive, <1>1, PTL

\* A one-time code or reset token that verified an e-mail or set a password is
\* stored in no document of an e-mail that has only one.
THEOREM CodesAreUsedUp == Spec => []UsedCodesAreGone
<1>1. IInv => UsedCodesAreGone
  BY DEF IInv
<1> QED
  BY Inductive, <1>1, PTL

\* An e-mail is verified and a password reset by whoever was mailed a code for
\* that very document, unless the e-mail was doubled or deleted under a request.
THEOREM OwnersProve == Spec => []OwnerProved
<1>1. IInv => OwnerProved
  BY DEF IInv
<1> QED
  BY Inductive, <1>1, PTL

\* Two accounts have one Solana wallet only if two calls of
\* ConnectSolanaWallet for it overlapped.
THEOREM SharedWalletsNeedARace == Spec => []SharedWalletsRaced
<1>1. IInv => SharedWalletsRaced
  BY DEF IInv
<1> QED
  BY Inductive, <1>1, PTL

-----------------------------------------------------------------------------
(* What the exceptions are worth: where no two requests register one       *)
(* e-mail, or connect one wallet, at the same time, there are none.        *)

Apart ==
    \A r, q \in Requests :
        \/ pc[r] = "insert" /\ pc[q] = "insert" /\ req[r].email = req[q].email
        \/ /\ pc[r] \in {"owner", "link"} /\ pc[q] \in {"owner", "link"}
           /\ req[r].wallet = req[q].wallet
        => r = q

NoRace == raced = {}

LEMMA ApartStep ==
    ASSUME TypeOK, Apart, Apart', NoRace, [Next]_vars
    PROVE  NoRace'
<1> USE DEF NoRace
<1>1. ASSUME NEW r \in Requests, NEW e \in Emails, RegisterController(r, e)
      PROVE  raced' = {}
  <2>1. /\ pc[r] = "idle" /\ pc'[r] = "insert" /\ req'[r].email = e
        /\ \A q \in Requests \ {r} : pc'[q] = pc[q] /\ req'[q] = req[q]
    BY <1>1 DEF RegisterController, Start, TypeOK
  <2>2. ASSUME NEW q \in Registering(e) PROVE FALSE
    <3>1. q \in Requests /\ pc[q] = "insert" /\ req[q].email = e /\ q /= r
      BY <2>1 DEF Registering
    <3>2. pc'[q] = "insert" /\ req'[q].email = e
      BY <2>1, <3>1
    <3> QED
      BY <2>1, <3>1, <3>2 DEF Apart
  <2> QED
    BY <1>1, <2>2 DEF RegisterController
<1>2. ASSUME NEW r \in Requests, FindOwner(r) PROVE raced' = {}
  <2>1. Linking(req[r].wallet) = {}
    BY <1>2 DEF FindOwner, Linking, Apart
  <2> QED
    BY <1>2, <2>1 DEF FindOwner
<1>3. ASSUME NEW r \in Requests, RequestStep(r) PROVE raced' = {}
  BY <1>2, <1>3
  DEF RequestStep, InsertUser, SaveOTP, SaveResetToken, SendEmail, MarkVerified,
      SetPassword, SetAdminPassword, ApplyCode, LinkWallet, CallFails, history
<1>4. ASSUME NEW r \in Requests, NEW e \in Emails, Arrival(r, e) PROVE raced' = {}
  BY <1>1, <1>4
  DEF Arrival, ResendOTPController, ForgotPasswordController, AdminForgotPassword,
      VerifyOTPController, ResetPasswordController, AdminResetPassword,
      ConnectSolanaWallet, history
<1>5. ASSUME NEW e \in Emails,
             LoginController(e) \/ DisconnectSolanaWallet(e) \/ DeleteUser(e)
      PROVE  raced' = {}
  BY <1>5 DEF LoginController, DisconnectSolanaWallet, DeleteUser, history
<1>6. ASSUME NEW code \in Codes, Expire(code) PROVE raced' = {}
  BY <1>6 DEF Expire, history
<1>7. CASE Restart
  BY <1>7 DEF Restart, history
<1>8. CASE UNCHANGED vars
  BY <1>8 DEF vars, history
<1> QED
  BY <1>3, <1>4, <1>5, <1>6, <1>7, <1>8 DEF Next

LEMMA ApartNeverRaces == Spec /\ []Apart => []NoRace
<1>1. Init => NoRace
  BY DEF Init, NoRace
<1>2. TypeOK /\ Apart /\ Apart' /\ NoRace /\ [Next]_vars => NoRace'
  BY ApartStep
<1> QED
  BY <1>1, <1>2, AccountTypes, PTL DEF Spec

\* No index of the collection asks for either of these.
UniqueEmails ==
    \A d1, d2 \in Documents :
        d1 /= d2 /\ users[d1].email = users[d2].email => users[d1].email = NoEmail

UniqueWallets ==
    \A d1, d2 \in Documents :
        users[d1].wallet = users[d2].wallet /\ users[d1].email /= users[d2].email =>
            users[d1].wallet = NoWallet

\* Where registrations of one e-mail, and connections of one wallet, come one
\* after the other, every e-mail has one document and every wallet one owner,
\* although no index of the collection asks for either.
THEOREM ApartAccountsAreUnique ==
    Spec /\ []Apart => [](UniqueEmails /\ UniqueWallets)
<1>1. NoRace /\ DuplicatesRaced /\ SharedWalletsRaced => UniqueEmails /\ UniqueWallets
  BY DEF NoRace, DuplicatesRaced, SharedWalletsRaced, UniqueEmails, UniqueWallets
<1> QED
  BY <1>1, ApartNeverRaces, DuplicatesNeedARace, SharedWalletsNeedARace, PTL

\* What a code or token has changed, no document holds it any more.
CodesUsedOnce ==
    \A d \in Documents : used \intersect {users[d].otp, users[d].resetToken} = {}

\* There, no code or token is good for a second change: MarkVerified and the
\* two password resets clear the only document that held it.
THEOREM ApartCodesAreUsedOnce == Spec /\ []Apart => []CodesUsedOnce
<1>1. TypeOK /\ NoRace /\ UsedCodesAreGone => CodesUsedOnce
  <2> SUFFICES ASSUME TypeOK, NoRace, UsedCodesAreGone, NEW d \in Documents
               PROVE  used \intersect {users[d].otp, users[d].resetToken} = {}
    BY DEF CodesUsedOnce
  <2>1. CASE users[d].email /= NoEmail
    BY <2>1 DEF NoRace, UsedCodesAreGone
  <2>2. CASE users[d].email = NoEmail
    <3>1. users[d] = Absent
      BY <2>2, AccountsAssumption DEF TypeOK, User
    <3>2. users[d].otp = NoCode /\ users[d].resetToken = NoCode /\ NoCode \notin used
      BY <3>1 DEF Absent, TypeOK, NoCode, Codes
    <3> QED
      BY <3>2
  <2> QED
    BY <2>1, <2>2
<1> QED
  BY <1>1, ApartNeverRaces, AccountTypes, CodesAreUsedUp, PTL
=============================================================================
