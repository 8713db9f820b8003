# Ganium backend: TLA+ models and proofs

Ganium is a Go HTTP service that rates URLs, wallet addresses and messages for
fraud risk. Customers register, buy tokens (Paystack or a Solana transfer),
spend them on scans, and talk to support; administrators manage the accounts.
This directory holds TLA+ modules for its core logic, TLC configurations that
check them on small instances, and TLAPS proofs for every instance.

Paths below are relative to the repository. `payment.go` is
`src/controllers/payment.go` unless another directory is named.

## 1. The system

### Execution model

- `net/http` runs every request in its own goroutine; nothing serialises two
  requests, not even two of one user.
- All business state is in MongoDB. Every driver call is atomic on one document.
  No transaction spans two calls, no collection has a unique index
  (`src/db/mongo.go` creates none), and most updates are keyed by e-mail.
- A restart forgets goroutines, caches and streams and keeps the database.
- The investigation code (`internal/`) starts goroutines of its own and
  keeps a little shared memory: caches, a shared HTTP client, a channel.

So the models have one shape: a handler is a process, each of its steps is one
database or provider call, and everything else may happen between two steps.

### Parts, state, operations, interactions

| Part | State | Operations | Interacts with | Correct means |
|---|---|---|---|---|
| Card payments (`payment.go`, `src/routes/payment.go`) | `payment_history`: status, credited | initialize, verify (client), webhook, credit | Paystack, users, notifications | paid once, credited once, never credited unpaid, a paid payment is not lost |
| Crypto payments (same files) | `crypto_payments`: status, signature, credited | create, submit signature, complete | users, notifications | the same, plus the documented statuses |
| Status streams (`src/routes/payment.go`) | an open SSE connection | tick every 4 s (cards) or 3 s (crypto) | payments | shows only own payments, ends |
| Exchange rate (`payment.go:90-162`) | one cached rate under a mutex | fetch when older than 15 min | exchangerate API | a price uses a rate that is not too old |
| Accounts (`src/controllers/auth/*`, `user.go`) | `users`: codes, password hash, tokens, wallet | register, verify, resend, forgot, reset, delete | mail, every other part | one document per e-mail, codes are used once |
| Scan billing (`scan.go`) | `scan_records`, token counters of `users` | scan, charge | investigation, notifications | a charge for each stored scan, no charge otherwise |
| Wallet summary (`user.go:151-182`) | none (derived) | read | users | balance follows from the counters |
| Solana wallet link (`solana.go`) | wallet fields of `users` | connect, disconnect | users | a wallet belongs to one account |
| Support (`support.go`) | conversations and messages | open, send, reply, close, update | users | the status chosen last stands, only the parties write |
| Administration (`admin.go`) | users, admins | list, update, delete, stats | all collections | deletion is complete |
| Notifications (`notification.go`) | `notifications` | add, read, mark | all | one for each event |
| Investigation (`internal/investigation`) | none | classify a target, collect evidence, ask the analyst | analysers, analyst | only a refused target fails; nothing that was found gets lost |
| Gemini analyst (`internal/ai/analyst.go`) | a channel, goroutines, a context | ask all models, first success wins | Gemini | an answer is used if there is one; no leak, no panic |
| Threat intelligence (`internal/threatintel`) | cache with 30 min expiry | check URL, domain, wallet; clean up | providers | the worst report counts, a failed lookup does not, no answer is too old |
| URL analysis, page sandbox (`internal/urlanalyzer`, `internal/sandbox`) | one evidence struct for four goroutines; one shared HTTP client | follow redirects, look at names, certificates, links | the web | the evidence was seen, is connected and bounded, and is complete when it is used |
| Wallet and message analysis | none | choose a driver, extract entities | threat intelligence | entities reach the report |
| Tickets, rate limiter (`internal/security`) | maps under a mutex | issue, redeem, allow, clean up | none: no route uses them | a ticket is good once |
| Database client (`src/db/mongo.go`) | one client pointer | connect lazily, disconnect | all | one client |

### What is hard

- **Overlap.** The client's verification and Paystack's webhook usually arrive
  together and work on the same record.
- **Half-done work.** Crediting is "`$inc` the user, then claim the record";
  a failure or a restart may fall between the two.
- **Deletion.** Accounts and their records are deleted, in two different
  orders, under handlers that looked them up before.
- **Retries.** Paystack repeats a webhook until it gets 200, so what is answered
  when decides whether money can be lost.
- **Stale reads.** Signature submission, support replies, wallet links, reset
  tokens and one-time codes read a document and write it later.
- **Goroutines.** The analyst races models over a channel that another goroutine
  closes, and the reader leaves early.
- **Caches.** The exchange rate and threat intelligence are fetched outside
  the lock and stored inside it, so a slow answer may replace a newer one.
- **The web.** Servers redirect in circles, to private addresses or to nowhere, hang,
  and answer differently each time, while four goroutines fill one struct.

`PROJECT.json` lists each hazard at its line with the properties that cover it.

## 2. Modules

| Module | Content |
|---|---|
| `PaystackPayments` | card payments, webhook retries, deletion |
| `PaystackStream` | the status stream of card payments, beside all of the above |
| `TokenGrant` | abstract: paid, granted at most `Limit` times, settled once |
| `CryptoPayments` | crypto payments and their status stream |
| `AnalystRace` | the race of the Gemini models |
| `FirstAnswer` | abstract: the verdict is an answer; none only if all failed |
| `ScanBilling` | scans, their charge and history, purchases, deletion |
| `Accounts` | registration, codes, password resets, login, wallet link, the default administrator |
| `Support` | support conversations: messages, replies, status, assignment |
| `Investigation` | an investigation from the request to the assessment: classification, the URL pipeline, the page sandbox, wallets, messages |
| `ThreatIntel` | the aggregator of threat intelligence, its providers and its cache |
| `ExchangeRate` | the cached dollar rate |
| `TimedStore` | abstract: a store whose entries end by themselves; implemented by both caches |
| `*_proofs` | theorems about the module of that name; `TimedStore_proofs` about both caches, `PaystackPayments_proofs` also about the stream |
| `MC*` | TLC instances: the values of constants, symmetry sets |

In each module an operator whose comment starts with "Slip:" stands before the
operation it varies. It is no part of the specification: it is the operation
with a plausible mistake in it, and shows that a property would notice that mistake.

### PaystackPayments

| TLA+ | Code |
|---|---|
| `accounts` | e-mails with a document in `users` |
| `payments` | `payment_history` by reference: status, e-mail, credited |
| `pc`, `req` | where a goroutine is in `InitializePaymentForPlan` or `VerifyPaymentAndCredit`, and its local variables |
| `deleter` | a deletion between its two calls |
| `provider`, `links`, `acked` | Paystack: state of the charge, links handed out, webhooks answered with 200 |
| `credits`, `claims`, `notices` | history variables: successful `$inc`, successful claims, notifications |
| `InitializePaymentForPlan`, `SaveInitialized` | payment.go:328-545 |
| `PaystackVerifyRoute`, `PaystackWebhookRoute` | src/routes/payment.go:163-306 |
| `FindPayment` ... `NotifySuccess` | the thirteen numbered steps of payment.go:551-985, one action per call |
| `Register`, `DeleteCurrentUser`, `DeleteUserByEmail`, `FinishDelete` | auth/register.go, user.go:75-145, admin.go:242-256 |
| `CallFails`, `Restart` | any call returns an error; the process dies |

Abstractions. Amount, currency, plan and metadata are left out. Step 6 only looks up the
plan, which initialization took from the same table and stored, so it finds one; no step
compares the amount or the currency Paystack reports with that plan, and no
property says so. `Fold` is an e-mail without the case of its letters, for the routes compare
owners with `strings.EqualFold` (src/routes/payment.go:192, 501, 752, 898), while
registration, login and JWT keep the case and lookups are exact: two accounts may
differ in case only. `Forbidden` is that comparison, which is skipped for a
record without an e-mail. Paystack refuses a reference it has seen (`AcceptsReference`), and then
nothing is stored; that the upsert would reset `credited` if it did not is a hazard
outside the models. "users" has one document per e-mail, although two
registrations that overlap can insert two (a hazard of its own); a second
document would take no part in `UpdateOne`. A read that fails in the verify route
skips the comparison of owners; since the credit goes to the owner of the
record anyway, this changes no action after it. The failure notifications in
payment.go:938-974 come after the checks that would lead to them and are never
reached. Notifications are written without looking at the error, so a failed one
still leads to a successful reply (`CallFails` at "notify").

### PaystackStream

| TLA+ | Code |
|---|---|
| `stream` | an SSE connection of an account: its reference, and what it told last |
| `PaystackPaymentStreamRoute` | src/routes/payment.go:398-472 |
| `StreamTick`, `StreamTickFails`, `ClientLeaves` | the loop of 474-534: one lookup and one event per tick |
| `RestartStreams` | the process, with its connections |

It extends `PaystackPayments`: every step of that module is a step of this one that
leaves the streams alone, except a restart, which breaks them (`Running`, `Restart`).
The owner is compared as in the verify route (`Forbidden`). The client may leave and open another stream at any time.

### CryptoPayments

| TLA+ | Code |
|---|---|
| `crypto` | `crypto_payments` by id; `Unissued` and `Deleted` tell apart an id to come and one that is gone |
| `stream` | an SSE connection, and the last status it sent |
| `CreateCryptoTokenPayment` | payment.go:1176-1257 |
| `SaveCryptoPaymentSignature`, `SaveSignature` | payment.go:1073-1139: lookup, then update |
| `FindCryptoPayment` ... `NotifyCompleted` | payment.go:1263-1411 |
| `CryptoPaymentStreamRoute`, `StreamTick`, `ClientLeaves` | src/routes/payment.go:786-931 |
| `EqualFold`, `Forbidden` | the comparison of owners, 897-911, without regard to case as for cards |
| `DeleteUserByEmail` | an administrator's deletion leaves crypto payments behind |

`CompleteCryptoPayment` is exported and has no caller in the repository. It is
modelled as a request from outside (`CallComplete`, external): any number of
calls, at any time, overlapping.

### AnalystRace

| TLA+ | Code |
|---|---|
| `worker`, `outcome` | the goroutine of a model in analyst.go:204-221, and how `assessWithModel` ended |
| `results`, `closed` | the buffered channel |
| `reader`, `verdict` | `assessConcurrently` and what it returns |
| `canceled`, `parent` | the context derived for the race, and the one of the HTTP request |
| `Send`, `Leave`, `CloseResults` | send, `wg.Done()`, `wg.Wait()` + `close` |
| `Receive`, `ReceivedAll` | one turn of `for range results`; the end of the loop |

The content of an assessment is the model that gave it. A request ends with an
answer or an error at any time and, after cancellation, with "stopped".

### ScanBilling

| TLA+ | Code |
|---|---|
| `live`, `account` | the document of an e-mail in `users`: tokens left, tokens used, wallet; `generation` numbers the documents an e-mail has had |
| `records` | `scan_records` |
| `pc`, `scan`, `reply` | a goroutine in `ScanContent`, its local variables, its answer |
| `ScanContent`, `Investigate`, `StoreScan`, `ChargeUser`, `NotifyComplete` | scan.go:51-129, one action per call |
| `RegisterController`, `CreditTokens` | auth/register.go; the `$inc` of both kinds of payment |
| `DeleteCurrentUser`, `DeleteUserByEmail`, `FinishDelete` | user.go:75-145, admin.go:242-256: two calls each, in opposite orders |
| `InsertFails`, `ChargeFails`, `DeletionFails`, `Restart` | errors of single calls, the death of the process |
| `charged`, `disturbed`, `uncharged`, `removed`, `interrupted` | history variables the properties speak with |

Abstractions. What is scanned and how its type is found, and the texts of replies
and notifications, are left out; the analyst may report any number of
tokens in `Reported`. The wallet is an integer in tenths of a dollar: rounding of
floats is left out, and every amount the code adds or takes is a
multiple of a tenth. A call that returns an error may have been carried out. The free-form edit
`UpdateUserByEmail` of administrators, which can set the counters to anything, is left out.

### Accounts

| TLA+ | Code |
|---|---|
| `users`, `inserted` | the documents of `users` by order of insertion; two may have one e-mail |
| `otp`, `resetToken`, `password` of a document | the stored hashes: a code is a number, and the password is the code that set it |
| `issued`, `expired`, `mailbox` | codes generated so far, those out of time, those an address was sent |
| `sessions` | e-mails somebody holds a JWT of; it outlives the document |
| `pc`, `req` | a request between its lookup and its update |
| `RegisterController`, `InsertUser`, `SendEmail` | auth/register.go |
| `ResendOTPController`, `SaveOTP`, `VerifyOTPController`, `MarkVerified` | auth/verify.go |
| `ForgotPasswordController`, `SaveResetToken`, `ResetPasswordController`, `SetPassword` | the reset of a user's password |
| `AdminForgotPassword`, `AdminResetPassword`, `SetAdminPassword` | the reset of an administrator's, in the fields of the one-time code |
| `ConnectSolanaWallet`, `FindOwner`, `LinkWallet`, `DisconnectSolanaWallet` | solana.go |
| `DeleteUser`, `Restart`, `Expire`, `CallFails` | both deletions; `EnsureDefaultAdminAccount` at every start; time; failed calls |
| `used`, `proved`, `raced`, `disturbed` | history variables the properties speak with |

Abstractions. A lookup or update by e-mail takes any document of the e-mail,
because MongoDB gives no order. A request that is refused changes nothing and is
no step. A lost mail is a code that nobody enters. Passwords are the client's affair;
hashing is one-to-one. Spaces around an e-mail are left out: an
e-mail is what is left after them. `UpdateUserByEmail` is left out here too.

### Support

| TLA+ | Code |
|---|---|
| `conversations`, `messages` | the two collections of support.go; `created` counts the conversations inserted |
| `clock` | the time: each message takes the next one |
| `pc`, `req` | a request between its lookup and its last call, and its local variables |
| `CreateSupportConversation`, `InsertConversation`, `InsertFirstMessage`, `TouchConversation` | support.go:57-111: three writes |
| `SendSupportMessage`, `InsertSentMessage`, `TouchConversation` | 143-178: two writes |
| `SendAdminSupportReply`, `InsertReply`, `SetPending` | 277-323: two writes, of which the second has the status that was read |
| `CloseSupportConversation`, `CloseConversation`; `UpdateSupportConversationByAdmin`, `UpdateConversation` | 180-203, 325-370 |
| `MayHandle` | the checks of role and assignment, and `RequireAdmin` |
| `CallFails`, `Restart` | failed calls, also those whose errors are ignored; the death of the process |
| `decided`, `overlapped`, `assignees`, `behind` | history variables the properties speak with |

Abstractions. People keep their role: no code gives anybody the roles "support" or
"support_agent", so who has them is a constant. Texts and the listings, which only read, are left
out. An administrator may name anybody as the assignee, also who is no agent; the code only
checks that it is an id. Two messages never have the same time. Reading the conversation and reading
the clock are one step, as only local work is between them: no
property relates the status a reply has read to the time of its message. A call
that was carried out and reported an error is its success followed by the failure of the
next call.

### Investigation

| TLA+ | Code |
|---|---|
| `request` | what `ScanContent` or the investigation route hands over; a text is known by its form only |
| `ResolvedInvestigationTargetType`, `NormalizeTargetType` | scan.go:179-243; manager.go:248-266 |
| `stage` | how far `Manager.Investigate` is |
| `task` | the four goroutines of `Pipeline.Analyze` (urlanalyzer/analyzer.go:75-157) |
| `evidence` | the `URLEvidence` they share, with the rest of the bundle |
| `at`, `chain` | `currentURL` and `chain` of `HTTPSandbox.InspectURL` |
| `links`, `seen`, `observed` | `passiveObserveEndpoints`: candidates, the map, the result |
| `PageRedirects`, `PageRedirectsTooOften`, `PageRedirectsNowhere`, `PageArrives`, `PageFails` | the turns and ends of the loop, http_sandbox.go:67-142 |
| `InspectDomain`, `InspectTLS`, `CheckIntel` | dns.go, tls.go, the third goroutine |
| `Collected` | `wg.Wait()` and what the manager adds |
| `AnalyzeWallet`, `AnalyzeMessage`, `Reject` | walletanalyzer, messageanalyzer, refused targets |
| `AssessAnswered`, `AssessUnavailable` | the analyst's answer with merged entities; every path without one |
| `contacted` | history: addresses that answered |

Abstractions. Addresses are told apart by their host and by whether the host is
refused by name (`Blocked`), or only when it is dialled, because it resolves to no public
address (`Unreachable`): `IsBlockedHost` resolves nothing. A page is the sequence
of its links, forms and scripts. What DNS, TLS and a reputation find is one of a few outcomes;
the structural and textual features (heuristics.go, the signals of a message) are left
out, as nothing else depends on them. The driver of a wallet asks no node. The
race inside the analyst is `AnalystRace`; here it answers or does not.
`CheckURL` never says "unknown", for the embedded feed calls clean what it does not list,
so the fallback to `CheckDomain` (analyzer.go:109-112) is never taken and
VirusTotal, which answers for domains only, is not asked by any scan. Lines 137-148
of the same file are never reached either: a 3xx response always leaves a hop in the chain.

What the model keeps although it may surprise: the evidence of a chain that was too long, or
whose last body could not be read, is dropped; a redirect without
Location has the final destination "" and counts as another domain; addresses that begin
with 1 or 3 are taken for Bitcoin's; a name in .eth is a wallet for the manager and
refused by the driver; wallets found in a page, redirect targets and endpoints are not
among the entities.

### ThreatIntel

| TLA+ | Code |
|---|---|
| `cache` | `InMemoryCache.entries`; `left` is what remains until `expiresAt` |
| `sweep` | time to the next tick of `cleanupLoop` |
| `phase`, `asked`, `turn`, `left`, `found` | a goroutine in `CheckURL`, `CheckDomain` or `CheckWallet`, which are the same loop |
| `CheckCached`, `CheckMissed`, `ProviderReports`, `ProviderSkipped`, `StoreAnswer` | threatintel.go:62-135, one action per call |
| `MergeReport` | threatintel.go:137-165 |
| `FeedURL`, `FeedDomain`, `FeedWallet`; `VirusTotalDomain` | local_feed.go; providers.go:32-106 |
| `CleanUp`, `Tick`, `Restart`, `Learn` | the clean-up; time; the process; VirusTotal changes its verdict |
| `verdict`, `reports`, `age` | VirusTotal; history: the reports in an answer and the time since they were asked for |

Labels, feeds and confidences are left out. Time moves in units; only deadlines stop it.

### ExchangeRate

| TLA+ | Code |
|---|---|
| `cachedUSDToNGN`, `since` | the two variables of payment.go:65-69, the second as time since |
| `stage`, `remains`, `rate` | a goroutine in `GetUSDToNGNRate`, the timeout of its client, its rate |
| `RateTTL`, `ClientTimeout` | `exchangeRateCacheTTL`, the timeout of the HTTP client |
| `CachedRate`, `AskRate`, `RateArrives`, `AskFails`, `StoreRate`, `Convert` | payment.go:90-172 |
| `market`, `MarketMoves`, `APIAnswers` | the API |
| `quoteAge`, `cachedAge` | history: time since the API quoted the rate |

## 3. Runs

| Run | Bounds | Question |
|---|---|---|
| `paystack_concurrent` | 2 handlers, 1 reference, 3 e-mails, of which 2 differ only in case and 1 has a stream, 1 fault, fair | acknowledgements, the bound on double credits, `TokenGrant`; is a paid payment settled in the end, what may a customer who waits be told, and does the stream end? |
| `paystack_overlap` | 2 handlers, no fault | is a payment credited at most once? **No** (finding 1) |
| `crypto_concurrent` | 2 handlers, 1 payment, the same 3 e-mails, 1 stream, 1 fault, fair | every safety property of crypto payments; does a completion that started settle its payment, do streams of deleted payments end? |
| `crypto_submitted` | 1 handler, no fault, fair, completion called again and again | is a submitted payment settled? **No** (finding 2) |
| `analyst_race` | 3 models, fair | every property of the race, with deadlock checking |
| `scan_billing` | 2 scans, 1 e-mail registered twice, one purchase, 1 fault | every safety property of scan billing |
| `accounts` | 2 requests, the administrator and 1 user, 1 wallet, 3 documents, 2 codes | every safety property of accounts |
| `support` | 2 requests, 1 owner, 1 agent, 1 administrator, 1 conversation, 2 messages, 1 fault | every safety property of support conversations |
| `threat_intel` | 2 checks of 1 domain, 2 providers, 3 opinions, TTL 2, timeout 1, clean-up every 2, fair | merging, recency, `TimedStore`, and whether checks return and expired entries go |
| `investigation` | 4 addresses (public, listed, blocked, unresolvable), 2 pages, 2 redirects, 2 observed links, a request of every kind, fair | is the evidence what was seen and complete when used; what fails; do entities stay; does it end? |
| `investigation_text` | the same | does a scan of a sentence have a result? **No** (finding 3) |
| `exchange_rate` | 2 callers, rates 0, 1500 and 1600, TTL 3, timeout 2 | how old is a rate that prices a payment; `TimedStore` |

Why the bounds are enough. Handlers for different references share only
`accounts`, and every property speaks of one reference at a time, so one
reference shows all that can happen to it. Where owners are compared (streams) there are three
e-mails: the caller's own, one that differs only in case, and a stranger's. Two handlers give a client and a webhook, which is
repeated as soon as one of them is free; the proofs cover any number. One fault puts a failure or a
restart into every gap; more only repeat it, and the proofs cover any number.
Three models give a winner, a loser that sends before and one that sends after
the caller left. Two scans overlap each other, a purchase, a deletion and the account that
is registered after it (`MaxAccounts` = 2: a third is to the second what the second is
to the first); the analyst reports nonsense (-1) or more than the five free tokens (6), so
balances become negative. Three documents are the
administrator's, a first one of the user and its duplicate or successor; two codes
are an old one and the one that replaces it. A second code is explored only without
sessions (`SecondCodeOrSessions`): sessions matter only to the wallet routes, which
read and write a field no code touches. Requests on different conversations share
nothing, so one is enough; the first message and one more are an older and a newer one, and
begin in one order and are stored in either.
Two checks of one domain, or two callers for the rate, overlap in a miss, a Set and a hit;
checks of different keys share nothing. Streams of card payments only read, so one shows what any number would; those of crypto payments do not meet either
(`OneWatches`). The stranger is no longer registered and no other account than the
caller's is deleted in the card run (`OthersPass`, `OneWatches`), as a stream that meets a
stranger's record ends whatever becomes of it, and the twin's and the caller's accounts
go the same ways. A TTL longer than the timeout lets an entry be
overwritten by a slower check, and expire before, at and after a clean-up. Two redirects allow a
loop of two and one too many; the pages of the instance link twice to one address, to
themselves and to a blocked host, and have more links than are observed.

The bounds in the guards are `MaxFaults` (faults), `MaxAccounts` (registrations of an
e-mail), `MaxBought` (tokens bought for an account), `MaxDocuments` (documents inserted),
`MaxCodes` (codes generated), and `MaxConversations` and `MaxMessages`
(conversations inserted, messages begun). Ages are bounded by the deadlines. `credits` and `notices` are bounded by what
the model does.

Fairness. A goroutine that can take a step does (weak fairness per handler,
stream and worker): the Go scheduler is preemptive, and driver calls and Gemini
requests have timeouts. For the same reason each goroutine of an investigation ends, and
a check of threat intelligence goes on when its provider's context ends; providers themselves need
never answer. Tickers fire and time passes. `PaystackWebhookRoute` is strongly fair because Paystack
repeats the webhook and the server starts a new goroutine for each request; in
the model a slot of `Handlers` has to be free, which it is again and again. Nothing that
holds rests on a call of `CompleteCryptoPayment`, which nobody makes; only
`crypto_submitted` runs under `HelpedSpec`, where it is called again and again, as
finding 2 is stronger if it fails in spite of that. Nothing is assumed
of customers, clients, registrations, deletions, faults or signatures. The order of the
webhook is not assumed either: it may come before, during and after the client's
verification.

## 4. Properties and results

Card payments. They implement `TokenGrant` (`ImplementsPromise`): tokens only for a
successful charge, a claimed record was credited, one claim and at most one notification, at
most |Handlers| x (faults + 1) grants (`OverCreditBound`). 200 goes to the webhook only
after the claim (`AckMeansSettled`). With retries a paid payment is settled unless its
account or record is deleted (`PaidIsSettled`). The parts of the promise are theorems of
their own: `GrantedOnlyIfPaid`, `SettledOnlyIfGranted`, `SettledOnce`.

Streams of card payments. Whoever is told "success" has the tokens
(`ToldSuccessIsGranted`), nobody is told the status of another account's payment, except of
one whose e-mail differs only in case (`ToldToOwner`; see the disagreements below), and the stream of a paid payment ends unless the account is gone
(`PaidStreamEnds`). That of a charge that failed does not: the code waits for a status
"failed" that it never stores.

Crypto payments. A payment marked or announced as credited was credited
(`CreditedIsGranted`), stays so (`CreditedStays`) and is not credited more often
than the same limit (`CreditBound`). A stream shows no other account's payment, with
the same exception (`StreamShowsOwn`), and ends when its payment is deleted
(`StreamEndsWithPayment`). A completion that found its payment pending ends with the
payment credited, whatever is submitted or completed meanwhile, unless something fails or
the payment or account goes away (`StartedIsSettled`). That a completion ever
starts is not promised by the code: nothing in it calls one.

Analyst. The race implements `FirstAnswer` (`ImplementsFirstAnswer`): the verdict is a
real answer, and "unavailable" and "canceled" come only when no model answered (as
theorems: `VerdictAnswered`, `NoAnswerLost`). No send hits the closed channel
(`NoSendAfterClose`); the race returns (`AssessReturns`) and leaves no goroutine behind
(`NoGoroutineLeaks`), since no send blocks (`SendNeverBlocks`, a theorem).

Scan billing. Tokens left, used and bought agree, and the wallet is what was bought
and not used (`BalanceAddsUp`); what an account has used is what its scans cost
(`UsedIsCharged`); the charges match the history (`ChargesMatchHistory`): only a stored scan is charged, never one that was answered with an error
(`OnlyStoredIsCharged`); a completed scan is free only if its charge failed or
its account was being deleted (`CompletedIsCharged`); charges and records of an
earlier account of an e-mail reach a later one only from scans that overlapped the deletion,
or, for records, if an administrator's deletion is not complete
(`ChargedOwnAccount`, `HistoryIsOwn`). That an empty balance does not stop a scan is what
the code does (it never looks); nothing in the repository says otherwise.

Accounts. An e-mail has two documents only if two registrations overlapped
(`DuplicatesRaced`); two accounts have one wallet only if two connections
overlapped (`SharedWalletsRaced`); a code that changed a document is stored nowhere,
so nobody can use it twice one after the other (`UsedCodesAreGone`); a verified e-mail or a
new password is the work of a reader of its mail, checked against that very document
(`OwnerProved`). The last two hold although the update that follows a check is
keyed by e-mail alone; the exceptions they name, an e-mail that was deleted or doubled
while a request worked on it, are real.

Support. A conversation has the status that was chosen last, or is pending where that was
"open", unless a reply was under way when it was chosen (`DecisionStands`): the
exception is real, since a reply writes back the status it has read, and so reopens what its
customer just closed. A message is from the owner, an administrator, or an agent the
conversation was once assigned to (`MessagesFromParties`); it need not be assigned
to that agent any more when the message is stored. The time of the last message
is that of the newest one (`LastMessageShown`), unless two messages overlapped or a call
between the insert and the update failed.

Investigations. The chain of redirects, the page and the observed links of a result fit
together and were really seen, within their limits, whatever the servers do
(`EvidenceWasSeen`); the evidence does not change once the analyst is asked
(`EvidenceIsFrozen`); only a target that is refused fails, before anybody is contacted, and
a result leaves no goroutine at work (`FailsBeforeItStarts`); what was investigated and what
a message mentions is in the report whatever the model says (`EntitiesKept`); it ends
(`InvestigationEnds`).

Threat intelligence. An answer is the worst that any provider really reported and counts
nobody who did not (`WorstReportWins`); it is no older than one TTL and a round of timeouts
(`AnswersAreRecent`), which also limits how long a partial answer, cached although a provider
failed or its caller had gone, hides what that provider would have reported; the cache implements `TimedStore` (`ImplementsTimedStore`); a check
returns though its providers hang (`ChecksReturn`); what has expired is deleted
(`ExpiredIsDropped`). A TTL counts from the Set, not from the answers: that is why the
timeouts add up.

Exchange rate. A price uses a positive rate quoted less than one TTL and one timeout ago
(`QuotesAreRecent`), and the cache implements `TimedStore` (`RateImplementsStore`), with a life
of TTL - 1 as the code compares with `<`. It does not hold that the newest answer stays: a slow one may
replace it and then counts as new.

Findings.

1. Two verifications that overlap credit a card payment twice: both pass the
   check of step 2 and both run the `$inc` of step 9 before step 12 claims the
   record. The comments at models/payment.go:56-57 and payment.go:905-907 say it
   is credited once.
2. A crypto payment whose signature was submitted is "verifying", and completion
   accepts only "pending": it is never credited.
3. A basic, mid or advance scan of a sentence with a full stop fails with 500: scan.go:355
   takes any text with a "." for an address, and manager.go:268-284 refuses it. The routes
   give such sentences as their examples (src/routes/scan.go:24, 28, 32).

Four more disagreements between the code and its comments that came up while modelling
and have no run of their own:

- "Never allow one authenticated user to inspect another user's payment."
  (src/routes/payment.go:749-750) does not hold exactly: owners are compared with
  `EqualFold` there and in both streams, and two accounts whose e-mails differ only
  in case see each other's payment status. `ToldToOwner` and `StreamShowsOwn` name this
  exception; without it neither would hold. The credit is not affected: it goes to
  the exact e-mail of the record.
- Completion writes the status "completed" (payment.go:1385), which models/payment.go:102-107
  does not list and at which the status stream (src/routes/payment.go:924-928) does not end.
- The wallet summary shows tokens / 10 only while the wallet is exactly 0, and the free
  tokens are not in the wallet (user.go:161): $0.50 for 5 free tokens becomes -$0.10 for 4 after
  a scan, or $1.00 for 15 after a purchase. The text at src/routes/user.go:145 and the
  summary's own token value say a token is ten cents.
- Two accounts that connect the same Solana wallet at the same time both get it: each
  looks for another owner before either has written. The comment at solana.go:125-126 says
  this is prevented; `SharedWalletsRaced` says that it needs such a race.

## 5. Proofs

`tlapm` proves, for every number of handlers, payments, streams, models, scans, requests,
accounts, codes, conversations, messages, checks, providers, callers, addresses, pages and
faults, and for all times and limits (assumed: the sets of handlers, models and scans are
finite, there is at least one model, the administrator's e-mail is one of the e-mails, the
null values are none of the elements, the bounds, times and rates are natural numbers and
the analyst reports integers), every safety invariant, every action property and every
refinement that a passing run checks, and type correctness of every component:

- `PaystackPayments_proofs`: all safety properties of card payments and their streams, and
  the refinement of `TokenGrant`, with streams (`StreamsKeepPromise`, since streams only
  read: `StreamsOnlyRead`) and without.
- `CryptoPayments_proofs`: `CreditedIsGranted`, `CreditBound`, `StreamShowsOwn`,
  `CreditedStays`.
- `ScanBilling_proofs`: `BalanceAddsUp`, `UsedIsCharged`, `HistoryIsOwn`, and
  `ChargesMatchHistory`, whose three parts are also theorems of their own.
- `Accounts_proofs`, `Support_proofs`: all safety properties of accounts and of support.
- `AnalystRace_proofs`: `NoSendAfterClose`, what was said of it as theorems in section 4,
  and the refinement of `FirstAnswer`.
- `TimedStore_proofs`: `WorstReportWins` and `AnswersAreRecent` of `ThreatIntel`,
  `QuotesAreRecent` of `ExchangeRate`, and that both caches implement `TimedStore`.
- `Investigation_proofs`: `EvidenceWasSeen`, `FailsBeforeItStarts`, `EntitiesKept` and
  `EvidenceIsFrozen`.

Several properties have an exception (an overlap, a failure), or a bound larger than one
would like. Further theorems say what the exceptions are worth, that is, what holds where
they do not occur:

- With one handler and no faults a card payment is credited at most once
  (`SerialCreditsOnce`) and the code implements `TokenGrant` with `Limit` = 1
  (`SerialKeepsIdealPromise`); a crypto payment is credited at most once
  (`SerialCompletionsCreditOnce`). So overlap and failures are the only two causes of
  finding 1.
- Until a call fails, a payment that is granted and not recorded has a request at the step
  that records it (`OpenGrantIsInHand`, `PendingGrantIsInHand`).
- An account whose scans met no failure and no deletion has used exactly what its
  completed scans cost (`BillsAreExact`).
- Where no two e-mails differ only in case, streams show a payment to its owner and nobody
  else (`DistinctOwnersAreTold`, `DistinctOwnersSeeOwn`).
- Where no two registrations of one e-mail and no two connections of one wallet overlap
  (`Apart`), e-mails and wallets are unique and codes are used once, whatever fails or is
  deleted (`ApartAccountsAreUnique`, `ApartCodesAreUsedOnce`).
- Where requests on one conversation do not overlap (`Apart` again), the status chosen
  last stands through every failure (`ApartDecisionsStand`), and without failures the
  newest message is shown (`ApartNewestIsShown`).

The hypotheses restrict who comes when, as a queue per account or conversation would; in
TLC the behaviours that satisfy them still use codes, link wallets and decide on
conversations.

Of termination, the part that is a safety property is proved. `RaceIsFinite` and
`EveryStepIsNearer` give a measure in the natural numbers that every step of a race makes
smaller, and every step of an investigation makes smaller or keeps while it tries one of
finitely many links; `RaceNeverStuck` and `InvestigationNeverStuck` say that there is
somebody who can go on until the end is reached, where "can go on" repeats the guards of
the actions, as ENABLED is beyond the prover. What fairness adds, `AssessReturns`,
`NoGoroutineLeaks` and `InvestigationEnds`, TLC checks. Of a check of threat intelligence,
`ChecksStayInTime` bounds the time it takes, and `MergeOrderIsFree` says that the order in
which providers answer does not matter.

The arguments. None of the invariants is inductive alone.

- Card payments: the strengthening says what a handler knows at each stage: past "ask" the
  charge is successful (it never stops being so), past "credit" its own `$inc` happened,
  and at "notify" its claim did. The bound needs an accounting argument: the handlers that
  have passed the check of step 2 but not yet run the `$inc` are counted with `credits`;
  while nothing is claimed a handler that has run the `$inc` cannot start again without
  having claimed the record or failed. So, while the record is open, the credits are at
  most |Handlers| x faults plus the handlers that have granted and not claimed;
  afterwards, the credits plus the handlers that may still grant are at most |Handlers| x
  (faults + 1).
- Crypto payments: a handler at "mark" or "notify" has granted; an e-mail of a payment
  never changes while it is stored, so what a stream showed stays its own or its twin's; and the same
  accounting bounds the credits (`Budget`), given that an id that was not issued has no
  credits and no handler (`Fresh`).
- Streams of card payments: a record has a link, and as a link stays and a reference is
  accepted once, nobody can make the record of another owner under that reference
  (`Owned`, `Kept`); so what a stream told stays its own or its twin's.
- Scan billing: the stage of a scan says what is stored and what it was told, a scan of an
  earlier generation that still runs is marked as disturbed, and so is one whose account
  is gone. What an account has used is a sum over a set of scans, which `MapThenSumSet`
  defines as a function on subsets that takes one element off at a time. That there is
  such a function, and that a new scan adds its cost to the sum whichever element is taken
  off first, would need induction over finite sets; as the induction theorems cannot be
  used, it is proved from a smallest counterexample: a non-empty collection of subsets of
  a finite set has a minimal one (`MinimalSubset`, `UnrollExists`, `SpentWith`). While no
  call fails, every scan that is completed was charged and every charge ends in an answer
  (`Faultless`), which makes bills exact.
- Accounts: a registration that nobody overlapped is alone with its e-mail until it
  inserts (`Alone`), and a connection with its wallet (`AloneWithWallet`). Codes are
  numbered in the order they are generated, so a new one is in no document and no mailbox
  (`Numbered`); each is stored in one field of one document (`StoredOnce`) and known only
  to the address of that document (`Addressed`), so a code that is removed by e-mail alone
  is removed from where it was. While neither a duplicate nor a deletion touched the
  e-mail, what a request checked still holds when it writes (`StillProved`).
- Support: a reply that no decision overlapped has read the status that stands
  (`RepliesRead`), a request about to store a message was checked (`Senders`), the clock
  is ahead of all times (`Stamped`), and where nothing overlapped or failed a message has
  a single writer whose stage says whether the message and its time are stored
  (`Written`).
- Analyst: the channel together with the workers that have not sent is a partition of the
  models, which bounds the length of the channel, and a closed channel means that all are
  gone; every model that was received and did not win had an error.
- Threat intelligence: an entry and a check each carry the reports they were merged from,
  so merging is one lemma about appending a report; the age of a check plus what remains
  of its timeouts never exceeds all timeouts, and the age of a live entry plus what
  remains of its life never exceeds life and timeouts. The exchange rate has the same
  budget with a single timeout (`RateTimed`). Both refinements map an entry to what is
  left of its life, and time that passes to the abstract store's.
- Investigation: while the page is fetched, the chain itself is connected, bounded and
  answered, and ends where the next request goes; the observed links are distinct and all
  among those tried; each stage says which goroutines may run.

Every proof has a lemma or a step per action, and the theorem combines them. In
`Accounts_proofs` and `Support_proofs` lemmas named after an action with "Points" or
"Effect" say what it does to each field of each document; the lemmas named "Step" take one
part of the invariant through all actions.

In `AnalystRace_proofs` and `Investigation_proofs` the measure (`Effort`) weighs what each
goroutine has before it: a worker that must still answer, send and leave counts more than
the message it puts into the channel.

Only model-checked: the liveness properties `PaidIsSettled`, `PaidStreamEnds`,
`StartedIsSettled`, `StreamEndsWithPayment`, `AssessReturns`, `NoGoroutineLeaks`,
`ChecksReturn`, `ExpiredIsDropped` and `InvestigationEnds`, as ENABLED, and with it
fairness, is out of the prover's reach. Type correctness is a theorem of every component,
and no run repeats it. The findings are counterexamples and need no proof.

## 6. Not modelled

Pure text and number work (patterns, heuristics, scoring, prompt
building, PDF, mail), stateless checks (JWT, the predicates on addresses, origin), configuration, the
one-time migration command, generated documents and static pages. The tickets and the rate
limiter (`internal/security`) are wired to no route, and each of their operations holds one lock
from its beginning to its end, so no two of them interleave. `UpdateUserByEmail` writes whatever an
administrator sends into a user's document, the counters included: any property of these
fields would have to except it. Reading and marking notifications are single calls keyed
by id and owner. The database client is set before the server listens
and only read afterwards. All inspections assign `CheckRedirect` of one shared HTTP client
(http_sandbox.go:63), always the same function, so the order does not show in any state. The chain that
would verify a Solana transaction does not exist in the code.

## 7. Plan

Done: card and crypto payments with their status streams, the race of the analyst, scan
billing, accounts, support, investigations, threat intelligence, the exchange rate. Left, in this order:

1. `UpdateUserByEmail` as a fault of the other modules, to see which of their properties
   an administrator's edit can break.
2. Tickets and rate limiter, once a route uses them.
