---------------------------- MODULE ScanBilling -----------------------------
(***************************************************************************)
(* Scans and what they cost: ScanContent of src/controllers/scan.go, the   *)
(* wallet summary of user.go, and the purchases, registrations and         *)
(* deletions that change an account while a scan runs for many seconds.    *)
(*                                                                         *)
(* A scan is a process.  It looks the account up, investigates, stores a   *)
(* record and charges the account by its e-mail; an account that was       *)
(* deleted and registered again meanwhile is another one with that e-mail. *)
(***************************************************************************)
EXTENDS Integers, FiniteSets, FiniteSetsExt

CONSTANTS
    Scans,          \* scan requests
    Emails,         \* account e-mail addresses
    NoEmail,        \* the e-mail of a scan that has not started
    Reported,       \* what the analyst may report as TokensUsed
    PlanTokens,     \* tokens of the payment plans
    FreeTokens,     \* tokens of a new account
    MaxAccounts,    \* bound: registrations of an e-mail
    MaxBought,      \* bound: tokens bought for an account
    MaxFaults       \* bound: failed calls and restarts

ASSUME ScanAssumption ==
    /\ IsFiniteSet(Scans)
    /\ NoEmail \notin Emails
    /\ Reported \subseteq Int
    /\ PlanTokens \subseteq Nat
    /\ {FreeTokens, MaxAccounts, MaxBought, MaxFaults} \subseteq Nat

VARIABLES
    live,           \* e-mails with a document in "users"
    account,        \* the counters of that document
    records,        \* scans with a document in "scan_records"
    deleting,       \* deletions between their two calls
    pc,             \* the next call of each scan
    scan,           \* what a scan works on
    reply,          \* what its client was told
    charged,        \* history: the account a scan was charged to, 0 is none
    disturbed,      \* history: scans that overlapped a deletion
    uncharged,      \* history: scans whose charge failed
    removed,        \* history: scans whose record was deleted
    interrupted,    \* history: e-mails with an unfinished admin deletion
    faults          \* failed calls and restarts so far

store == <<live, account, records>>
scans == <<pc, scan, reply>>
history == <<charged, disturbed, uncharged, removed, interrupted>>
vars == <<store, deleting, scans, history, faults>>

\* "generation" numbers the accounts an e-mail has had and "bought" counts
\* their purchases; the wallet is in tenths of a dollar.
Account ==
    [generation : Nat, remaining : Int, used : Nat, wallet : Int, bought : Nat]

NewAccount(n) ==
    [generation |-> n, remaining |-> FreeTokens, used |-> 0, wallet |-> 0,
     bought |-> 0]

Scan == [email : Emails \union {NoEmail}, generation : Nat, cost : Nat]

Deletions == {"user", "admin"} \X Emails

TypeOK ==
    /\ live \subseteq Emails
    /\ account \in [Emails -> Account]
    /\ records \subseteq Scans
    /\ deleting \subseteq Deletions
    /\ pc \in [Scans -> {"new", "ask", "store", "charge", "notify", "done"}]
    /\ scan \in [Scans -> Scan]
    /\ reply \in [Scans -> {"none", "error", "ai_unavailable", "completed"}]
    /\ charged \in [Scans -> Nat]
    /\ disturbed \subseteq Scans
    /\ uncharged \subseteq Scans
    /\ removed \subseteq Scans
    /\ interrupted \subseteq Emails
    /\ faults \in 0 .. MaxFaults

Init ==
    /\ live = {}
    /\ account = [e \in Emails |-> NewAccount(0)]
    /\ records = {}
    /\ deleting = {}
    /\ pc = [s \in Scans |-> "new"]
    /\ scan = [s \in Scans |-> [email |-> NoEmail, generation |-> 0, cost |-> 0]]
    /\ reply = [s \in Scans |-> "none"]
    /\ charged = [s \in Scans |-> 0]
    /\ disturbed = {}
    /\ uncharged = {}
    /\ removed = {}
    /\ interrupted = {}
    /\ faults = 0

RunningFor(e) ==
    {s \in Scans : scan[s].email = e /\ pc[s] \notin {"new", "done"}}

RecordsOf(e) == {s \in records : scan[s].email = e}

BeingDeleted(e) == \E d \in deleting : d[2] = e

-----------------------------------------------------------------------------
(* A scan.                                                                 *)

Goto(s, stage) ==
    /\ pc' = [pc EXCEPT ![s] = stage]
    /\ UNCHANGED reply

Reply(s, message) ==
    /\ pc' = [pc EXCEPT ![s] = "done"]
    /\ reply' = [reply EXCEPT ![s] = message]

\* The account must exist; what it has left is not looked at.
ScanContent(s, e) ==
    /\ pc[s] = "new"
    /\ scan' = [scan EXCEPT ![s].email = e,
                            ![s].generation = account[e].generation]
    /\ IF e \in live THEN Goto(s, "ask") ELSE Reply(s, "error")
    /\ disturbed' = IF BeingDeleted(e) THEN disturbed \union {s} ELSE disturbed
    /\ UNCHANGED <<store, deleting, charged, uncharged, removed, interrupted, faults>>

\* The analyst's own count, and one token when it gives none.
TokenCost(reported) == IF reported <= 0 THEN 1 ELSE reported

\* The investigation fails, finds no analyst, or gives an assessment.
Investigate(s) ==
    /\ pc[s] = "ask"
    /\ \/ Reply(s, "error") /\ UNCHANGED scan
       \/ Reply(s, "ai_unavailable") /\ UNCHANGED scan
       \/ /\ Goto(s, "store")
          /\ \E n \in Reported : scan' = [scan EXCEPT ![s].cost = TokenCost(n)]
    /\ UNCHANGED <<store, deleting, history, faults>>

\* Slip: a failed insert goes unnoticed.
StoreScanUnchecked(s) ==
    /\ pc[s] = "store"
    /\ records' \in {records, records \union {s}}
    /\ Goto(s, "charge")
    /\ UNCHANGED <<live, account, deleting, scan, history, faults>>

StoreScan(s) ==
    /\ pc[s] = "store"
    /\ records' = records \union {s}
    /\ Goto(s, "charge")
    /\ UNCHANGED <<live, account, deleting, scan, history, faults>>

\* Slip: the tokens are counted as used and not taken off.
ChargeUserUsedOnly(s) ==
    LET e == scan[s].email IN
    /\ pc[s] = "charge"
    /\ IF e \in live
       THEN /\ account' = [account EXCEPT ![e].used = @ + scan[s].cost]
            /\ charged' = [charged EXCEPT ![s] = account[e].generation]
       ELSE UNCHANGED <<account, charged>>
    /\ Goto(s, "notify")
    /\ UNCHANGED <<live, records, deleting, scan, disturbed, uncharged,
                   removed, interrupted, faults>>

\* Slip: every scan costs one token.
ChargeUserOneToken(s) ==
    LET e == scan[s].email IN
    /\ pc[s] = "charge"
    /\ IF e \in live
       THEN /\ account' = [account EXCEPT ![e].remaining = @ - 1,
                                          ![e].used      = @ + 1,
                                          ![e].wallet    = @ - 1]
            /\ charged' = [charged EXCEPT ![s] = account[e].generation]
       ELSE UNCHANGED <<account, charged>>
    /\ Goto(s, "notify")
    /\ UNCHANGED <<live, records, deleting, scan, disturbed, uncharged,
                   removed, interrupted, faults>>

\* One $inc of three fields, which matches nobody if the account is gone.
ChargeUser(s) ==
    LET e == scan[s].email IN
    /\ pc[s] = "charge"
    /\ IF e \in live
       THEN /\ account' = [account EXCEPT ![e].remaining = @ - scan[s].cost,
                                          ![e].used      = @ + scan[s].cost,
                                          ![e].wallet    = @ - scan[s].cost]
            /\ charged' = [charged EXCEPT ![s] = account[e].generation]
       ELSE UNCHANGED <<account, charged>>
    /\ Goto(s, "notify")
    /\ UNCHANGED <<live, records, deleting, scan, disturbed, uncharged,
                   removed, interrupted, faults>>

NotifyComplete(s) ==
    /\ pc[s] = "notify"
    /\ Reply(s, "completed")
    /\ UNCHANGED <<store, deleting, scan, history, faults>>

-----------------------------------------------------------------------------
(* The account meanwhile.                                                  *)

RegisterController(e) ==
    /\ e \notin live
    /\ account[e].generation < MaxAccounts
    /\ live' = live \union {e}
    /\ account' = [account EXCEPT ![e] = NewAccount(@.generation + 1)]
    /\ UNCHANGED <<records, deleting, scans, history, faults>>

\* The $inc of a payment, card or crypto: ten tokens for a dollar.
CreditTokens(e, n) ==
    /\ e \in live
    /\ account[e].bought + n <= MaxBought
    /\ account' = [account EXCEPT ![e].remaining = @ + n,
                                  ![e].wallet    = @ + n,
                                  ![e].bought    = @ + n]
    /\ UNCHANGED <<live, records, deleting, scans, history, faults>>

\* A user deletes the own account: the scans go first.
DeleteCurrentUser(e) ==
    /\ <<"user", e>> \notin deleting
    /\ deleting' = deleting \union {<<"user", e>>}
    /\ records' = records \ RecordsOf(e)
    /\ removed' = removed \union RecordsOf(e)
    /\ disturbed' = disturbed \union RunningFor(e)
    /\ UNCHANGED <<live, account, scans, charged, uncharged, interrupted, faults>>

\* Slip: the scans of the account are forgotten.
DeleteUserOnly(e) ==
    /\ <<"admin", e>> \notin deleting
    /\ live' = live \ {e}
    /\ disturbed' = disturbed \union RunningFor(e)
    /\ UNCHANGED <<deleting, account, records, scans, charged, uncharged,
                   removed, interrupted, faults>>

\* An administrator deletes it: the account goes first.
DeleteUserByEmail(e) ==
    /\ <<"admin", e>> \notin deleting
    /\ deleting' = deleting \union {<<"admin", e>>}
    /\ live' = live \ {e}
    /\ disturbed' = disturbed \union RunningFor(e)
    /\ UNCHANGED <<account, records, scans, charged, uncharged, removed,
                   interrupted, faults>>

FinishDelete(who, e) ==
    /\ <<who, e>> \in deleting
    /\ deleting' = deleting \ {<<who, e>>}
    /\ \/ /\ who = "user"
          /\ live' = live \ {e}
          /\ UNCHANGED <<records, removed>>
       \/ /\ who = "admin"
          /\ records' = records \ RecordsOf(e)
          /\ removed' = removed \union RecordsOf(e)
          /\ UNCHANGED live
    /\ UNCHANGED <<account, scans, charged, disturbed, uncharged, interrupted,
                   faults>>

-----------------------------------------------------------------------------
(* Failures.  A call that returns an error may have been carried out.      *)

Fault ==
    /\ faults < MaxFaults
    /\ faults' = faults + 1

InsertFails(s) ==
    /\ Fault
    /\ pc[s] = "store"
    /\ records' \in {records, records \union {s}}
    /\ Reply(s, "error")
    /\ UNCHANGED <<live, account, deleting, scan, history>>

\* The error of the update is ignored.
ChargeFails(s) ==
    /\ Fault
    /\ pc[s] = "charge"
    /\ uncharged' = uncharged \union {s}
    /\ Goto(s, "notify")
    /\ UNCHANGED <<store, deleting, scan, charged, disturbed, removed, interrupted>>

\* The second call of a deletion fails: its error is returned to the user, and
\* ignored for an administrator.
DeletionFails(who, e) ==
    /\ Fault
    /\ <<who, e>> \in deleting
    /\ deleting' = deleting \ {<<who, e>>}
    /\ interrupted' = IF who = "admin" THEN interrupted \union {e} ELSE interrupted
    /\ UNCHANGED <<store, scans, charged, disturbed, uncharged, removed>>

Restart ==
    /\ Fault
    /\ pc' = [s \in Scans |-> IF pc[s] = "new" THEN "new" ELSE "done"]
    /\ deleting' = {}
    /\ interrupted' = interrupted \union {e \in Emails : <<"admin", e>> \in deleting}
    /\ UNCHANGED <<store, scan, reply, charged, disturbed, uncharged, removed>>

-----------------------------------------------------------------------------

ScanStep(s) ==
    \/ \E e \in Emails : ScanContent(s, e)
    \/ Investigate(s)
    \/ StoreScan(s)
    \/ ChargeUser(s)
    \/ NotifyComplete(s)
    \/ InsertFails(s)
    \/ ChargeFails(s)

AccountStep(e) ==
    \/ RegisterController(e)
    \/ \E n \in PlanTokens : CreditTokens(e, n)
    \/ DeleteCurrentUser(e)
    \/ DeleteUserByEmail(e)
    \/ \E who \in {"user", "admin"} : FinishDelete(who, e) \/ DeletionFails(who, e)

Next ==
    \/ \E s \in Scans : ScanStep(s)
    \/ \E e \in Emails : AccountStep(e)
    \/ Restart

Spec == Init /\ [][Next]_vars
-----------------------------------------------------------------------------
(* Safety.                                                                 *)

\* Scans, purchases and deletions in any order leave the counters of an
\* account consistent: nothing is lost between tokens left, tokens used and
\* tokens bought, and the wallet is what was paid for and not yet used.
BalanceAddsUp ==
    \A e \in live :
        /\ account[e].remaining + account[e].used = FreeTokens + account[e].bought
        /\ account[e].wallet = account[e].remaining - FreeTokens

\* What an account has used is what its scans have cost, also when an account
\* was registered again and charges for the one before it are still to come.
ChargedTo(e) ==
    {s \in Scans : scan[s].email = e /\ charged[s] = account[e].generation}

UsedIsCharged ==
    \A e \in live : account[e].used =
        MapThenSumSet(LAMBDA s : scan[s].cost, ChargedTo(e))

\* Nobody pays for a scan that is not in the history, unless the history was
\* deleted since, or for one that was answered with an error.
OnlyStoredIsCharged ==
    \A s \in Scans : charged[s] > 0 =>
        /\ reply[s] \in {"none", "completed"}
        /\ s \in records \union removed

\* A scan is free only if its charge failed or its account was being deleted:
\* overlapping scans, purchases and an empty balance make none free.
CompletedIsCharged ==
    \A s \in Scans :
        reply[s] = "completed" => charged[s] > 0 \/ s \in disturbed \union uncharged

\* A charge reaches a later account of the same e-mail only from a scan that
\* was running while the earlier one was deleted.
ChargedOwnAccount ==
    \A s \in Scans : charged[s] > 0 => charged[s] = scan[s].generation \/ s \in disturbed

\* A charge and the history tell the same: nobody pays for a scan that is not
\* stored or was answered with an error, an answered scan is paid for unless a
\* failed charge or a deletion hit it, and the account that pays is the one that
\* asked unless it was deleted meanwhile.
ChargesMatchHistory == OnlyStoredIsCharged /\ CompletedIsCharged /\ ChargedOwnAccount

\* A new account does not see the scans of an earlier one with its e-mail,
\* except those that overlapped the deletion, while an administrator's deletion
\* is under way, or if it was broken off.
HistoryIsOwn ==
    \A s \in records :
        LET e == scan[s].email IN
        e \in live /\ scan[s].generation /= account[e].generation =>
            s \in disturbed \/ <<"admin", e>> \in deleting \/ e \in interrupted
=============================================================================
