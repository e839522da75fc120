# M-Duara API: TLA+ models, checks and proofs

M-Duara is a Node/Express back end over PostgreSQL for savings groups ("Chamas"): members pay
contributions by M-Pesa, the group's treasury lends them money, pays merry-go-round turns, charges
penalties, and every movement is journalled. This directory models the parts that move money and the parts
that decide who may: how members join and govern a Chama, how sessions begin and end, and what the background
workers send, scan and produce. TLC checks the models on small instances; TLAPS proves every safety property of the
passing runs (all but the three about liveness) for every value of the constants.

The models are written from the code under `src/`. Where a document, a comment or a test promises
something else, the difference is a `violation` run and a finding in `PROJECT.json`, or, where no run shows it, a remark in
section 2 or 4.

## 1. The system and its parts

Every financial flow follows the same pattern: a request is checked in one database transaction, the
provider (M-Pesa) is called **outside** any transaction, its answer is stored in a second one, and the
money is booked later, in the transaction of a provider callback. Callbacks may be lost, repeated, late or
overtake the request that caused them; the process may stop between any two transactions; and a
transaction may be re-run up to two times after a serialization failure. The rest of the system follows three
more: rows of a Chama change in SERIALIZABLE transactions that lock the Chama first (those of a deposit in READ COMMITTED
ones that lock it with its membership and application); rows of an account change in
READ COMMITTED ones; and workers claim rows under a token and a lease, work outside any transaction, and settle the
row if they still hold the token.

| part | state it keeps | operations | how it can go wrong | what makes it right |
|---|---|---|---|---|
| treasury ledger (`shared/business-logic.ts`, `db/transaction.ts`, `charge-ledger.service.ts`) | `chamas.pooled_amount`, `ledger_transactions`, `ledger_entries` | deposit, payout, transfer, loan disbursement, penalty and interest charge | a snapshot older than the lock it waits for, lost updates, deadlock, lost commit acknowledgement, overdraft at the boundary | balance = opening + journal; one posting per reference; answers are true; calls return |
| loans (`loan.service.ts`) | `loans`, `loan_guarantors`, `loan_disbursements` | rule, apply, accept guarantee, approve (two offices), dispatch, result, timeout, reject | ambiguous dispatch error, catch block against callback, crash between transactions, double pledges | pledges covered by savings; payouts authorised; journal = what was paid |
| merry-go-round (`mgr.service.ts`) | `merry_go_round_cycles`, `_payouts`, `_swap_requests`, `_disbursement_attempts` | create cycle, swap, disburse, result, timeout | retries with several attempts, swaps during a payout, repeated callbacks of old attempts | turns paid in order, once, for good |
| contribution payments (`payment.service.ts`) | `contributions`, `contribution_payments`, `payment_provider_logs` | STK push, callback | unlocked read before the push, concurrent pushes, catch block against callback | treasury = receipts; nothing collected beyond what is due |
| penalties and defaults (`jobs/penalties.ts`) with provider reconciliation (`ledger.service.ts`) | `penalties`, miss markers, `ledger_reconciliation_runs` | assess a contribution, reconcile a window | a reconciliation gate that looks at other records, contributions assessed out of order | no penalty for a payment the provider confirmed; consecutive misses counted as such |
| commitment deposits (`commitment.service.ts`, `commitment-payment.service.ts`) | `commitment_deposits`, escrow ledger | apply, hold, release, at risk, default, forfeit, replace | crash between two settlements, transitions from several actors | every deposit is held, released or forfeited once |
| payments to the platform (`chama-registration.service.ts`, `subscription.service.ts`) | registration and billing rows, billing period, SMS usage | STK payment, activation, renewal, quota slots | callbacks of two payments that cross or repeat; slots lost with a process or given back twice | each payment buys one thing; periods do not overlap; every used slot is accounted for |
| joining and membership (`public-chama`, `chama-application`, `chama-invitation`, `business_base`, `admin.service`) | `chama_members`, applications, invitations, recruitment | apply, join, approve, invite, resend, cancel, change members, moderate | capacity by several ways in at once; an invitation used while it is sent again; an office lost after the role check | whoever enters fits and has accepted the rules in force; invitations are accounted for |
| polls and Constitution (`poll.service.ts`, `chama.service.ts`) | `polls`, `poll_votes`, `chama_rules`, acceptances | open, vote, close, remove, amend, configure, accept | last chairperson removed, a stale amendment, a text rewritten under its readers | an outcome is applied once, to the version voted on; an acceptance keeps its text |
| workers and uploads (`jobs/reminders.ts`, `meeting-reminders.ts`, `report.worker.ts`, `upload.service.ts`) | delivery, notification, report and scan rows with leases; objects in storage | enqueue, claim, send, settle, retry, expire; upload, complete, verdict | lease expiry during I/O, death on the last attempt, contradicting verdicts | duplicates only after a loss; what reads sent was taken; one clean asset; nothing left open |
| identity (`token`, `otp`, `credential`, `admin.service`) | account status, refresh tokens, OTP codes | register, verify, log in, rotate, log out, change password, revoke, moderate | rotation against revocation, one token presented twice, counters rolled back | a revocation ends every earlier session; a token or code is used once |
| read models, support tickets, goals, messages, trust scores, mail and SMS adapters, routing, validation | - | queries, CRUD, I/O | - | not modelled: no protocol of their own |

How they interact: the loan, merry-go-round and contribution services post through the **same treasury row**;
the merry-go-round and the loans each reserve against it without seeing the other; the penalty worker writes
rows that payment callbacks write; penalties default a member and move the commitment deposit; officials, polls and
penalties change memberships that every other service checks; what a Chama pays to the platform sets the quota
within which the reminder workers send.

`PROJECT.json` lists, under `hazards`, what is hard to test in this code, each at its line and with the
properties that would catch it; the hazards without a property carry a note.

## 2. Modules

```
LedgerOperations            instructions of the ledger, as data
   |
TreasuryLedger              abstract specification: what the ledger promises
   |-- TreasuryLedgerProofs    sums over finite sets; balances and journals       (theorems)
   |-- LedgerExecution      the code: locks, snapshots, retries       -- MCLedgerExecution
   |      `-- LedgerExecutionProofs                                               (theorems)
   |-- LoanDisbursement     loans over the abstract ledger            -- MCLoanDisbursement
   |      `-- LoanDisbursementProofs                                              (theorems)
   |-- MerryGoRound         one cycle over the abstract ledger        -- MCMerryGoRound
   |      `-- MerryGoRoundProofs                                                  (theorems)
   `-- ContributionPayment  STK collection over the abstract ledger   -- MCContributionPayment
          `-- ContributionPaymentProofs                                           (theorems)

EscrowCustody               abstract specification: what a deposit promises
   |
CommitmentDeposit           payment and custody of one deposit        -- MCCommitmentDeposit
   `-- PenaltyAssessment    deadlines, reconciliation, defaults       -- MCPenaltyAssessment
          `-- CommitmentDepositProofs   about both                                (theorems)

Membership                  ways into and out of one Chama
   `-- Governance           polls and Constitution, over them         -- MCGovernance

Sessions                    accounts, codes and refresh tokens        -- MCSessions

Governance, Sessions
   `-- AccessProofs         about both, which share nothing                       (theorems)

PlatformPayments            registration fee and subscription
WorkerLease                 claims under tokens and leases
   |-- Delivery             SMS, notifications, reports (uses both)
   |-- MediaUpload          uploads and their scans
   `-- BackgroundWork       Delivery and MediaUpload together         -- MCBackgroundWork
          `-- BackgroundWorkProofs   about these five                             (theorems)
```

**LedgerOperations** describes an instruction as the code prepares it: its type, reference, `deltas` (what the
treasuries gain or lose) and `entries` (the journal). The code never derives one from the other, so neither
does the module, and that they agree is what `BalanceIsJournalled` checks.

**TreasuryLedger** is the abstract ledger, and states `BalanceIsJournalled`. An instruction is posted whole or not at
all, at most once per reference, never overdraws, and its journal is final. `ExecuteWithinTransaction` is the form other services
use inside their own transaction: a posting or a replay.

**LedgerExecution** is `LedgerBusinessLogic.execute` under `withDatabaseTransaction`, one action per statement
at which callers interleave:

| code | action |
|---|---|
| a call of `recordDeposit`, `recordPayout`, ... | `Submit` |
| `BEGIN` and the snapshot of the first statement | `Begin` |
| `pg_advisory_xact_lock` (or waiting for it) | `AcquireReference` |
| `findExistingOperation`: replay, conflict or go on | `FindExisting` |
| `SELECT ... ORDER BY id FOR UPDATE`, row by row | `LockTreasury`, `TreasuriesLocked` |
| `calculateBalances` throws | `RefuseOverdraft` |
| inserts of journal and entries; unique index | `InsertJournal` |
| `UPDATE chamas`, `COMMIT`, answer possibly lost | `Commit` |
| 40001 / 40P01, and the retry loop | `SerializationFailure`, `Retry` |
| process or connection lost | `ConnectionLost` |

`snapshot` is what the transaction's statements read; `stale` holds the treasury rows that others committed
since, for which `FOR UPDATE` fails under SERIALIZABLE ("first updater wins"). The advisory lock is the
*first* statement, so it takes the snapshot before it waits: the lock alone does not make the second caller see
the first one's journal. The correctness rests on the row rule, the unique index and the retries together, and
the mutants show that removing either one breaks a property.

**LoanDisbursement**, **MerryGoRound** and **ContributionPayment** model each `withDatabaseTransaction` as one
action, because these transactions are SERIALIZABLE and lock the rows they decide on. A request that calls the
provider is several actions: `ChairApprove` / `Disburse` / `Request` and `InsertLog` (before), `Dispatch` (the
call, whose error does not say whether the provider accepted), `RecordDispatch` (storing the answer, which may
fail or commit unnoticed), `FailDispatch` (the catch block), `Crash` (anywhere in between). The provider decides
once (`ProviderDecides`, `CustomerDecides`) and its outcome stays deliverable for ever: since no action consumes
it, callbacks are lost, late, reordered or repeated at will. These modules post by the actions of
`TreasuryLedger`, which `LedgerExecution` is shown to implement; `Postings` in each of them is what it may post, and
`PostingAssumption` says that the ledger knows these instructions.

In `ContributionPayment` the callback writes journal and treasury itself instead of calling `LedgerService`
(`payment.service.ts:355-369`); the effect is that of one posting because the receipt is looked up under the
lock of the log row and the reference is unique, and `TreasuryHoldsReceipts` checks it.

**CommitmentDeposit** follows one deposit from its M-Pesa payment to its refund or forfeiture.
`CommitmentPaymentService` uses no transaction, so every statement of a request (`RequestPayment`, `InsertAttempt`,
`Dispatch`, `RecordDispatch`, `FailDispatch`) and of a callback (`CallbackSuccess`, `ConfirmHold`, `StoreConfirmed`) is an
action, and `Crash` may fall between any two. An operation of `CommitmentService` is one transaction, a plain
`BEGIN` (`commitment.service.ts:512`) at PostgreSQL's default of READ COMMITTED. It holds the given reference under an
advisory lock, takes `FOR UPDATE OF cd, cm, ca` on deposit, membership and application (`:550`), which reads those rows again
after a wait, and decides on them, hence one action each; a replay or a conflict changes nothing.
`SetMembership` is `updateMember` (`business_base.ts:521`), which sets any status whatever the deposit is.

**EscrowCustody** is what that deposit promises, with no request, callback or worker in sight: one payment in; a default
or a leave, never both; then the money out once, for the reason that justifies it. `ImplementsEscrow` instantiates it
with a refinement mapping: `Standing` is read off the state of the deposit, `taken` and `given` off the journals.

**PenaltyAssessment** extends CommitmentDeposit with the contributions of the same member, a clock and the workers.
`assessContribution` runs at READ COMMITTED under the row lock of its contribution, so it is two actions: what it
reads (`AssessRead`) and the moment its writes become visible (`AssessCommit`, with `Escalate` for a miss), or the
rollback (`AssessAbort`). A callback is `CallbackBegin` / `CallbackCommit` / `CallbackAbort`, because `paid_at` is
`CURRENT_TIMESTAMP`, the time at which its transaction *began*. `Reconcile` is a clean run of the gate's provider over some
window, and `covered` the contributions the gate then lets through. Contribution `c` may be paid on time during
`[c - 1, c)`. The module starts from a member whose deposit is held.

**Membership** has one action per service call that runs in a SERIALIZABLE transaction on the locked Chama. What the
code reads *before* such a transaction is a step of its own: the role check of the middleware (`Authorize`, after
which `Handle` no longer looks at the office) and the SMS between the insertion of an invitation and the
`UPDATE` that marks it (`sending`, then `MarkSent` or `DeliveryFails`). Ways in are `JoinDirectly`,
`ApplyForReview` with `ApproveApplication`, and `JoinByInvitation`; `DepositHeld` activates a pending member;
`UpdateMember`, `AddMembership`, `ChangeRole`, `ModerateChama` and `PenaltyDefault` are the changes others make.

**Governance** adds polls and the Constitution. A poll copies its electorate, thresholds and version when it is created;
its deadline is looked at by every operation first, so `PollDeadline` may happen at any time. `ConfigureConstitution`
rewrites version 1 in place, `AmendConstitution` appends one. Some things the code does, which the properties
leave room for:
* Officials who reactivate a member, lower `target_members`, or add one as administrators do not look at the
  capacity; `EntryRespectsChama` is about those who enter on their own account. A Chama once full stays closed, but moving
  its deadline reopens one that was closed only by the deadline.
* A poll opened before a reconfiguration of version 1 still targets version 1. A tie meets a 50 % majority.
* A vote after the deadline closes the poll and throws, which rolls the closing back.
* `updateMember` sets a pending member active although the deposit is unpaid, while `src/README.md:282` says that "only
  BE-34 provider confirmation activates that member".
* `exitChama` is left out: its query of open obligations (`chama.service.ts:427`) compares with labels the enum types do
  not have, which PostgreSQL refuses, so nobody ever exits this way.

**PlatformPayments** models both services that collect for the platform; they have the same shape, so one set of actions with an
`item` stands for both and `SameService` keeps their one-pending rules apart. A payment whose initiation died, or whose
callback never comes, stays pending and blocks the next one; nothing in the code ends that.

**WorkerLease** is the claim: it counts an attempt, writes a token and a lease, and `Settle` writes an outcome only if the
token is still there. The kinds differ in what they claim: reports and scans below the maximum of attempts, reminders once more (to
be given up), meetings until they start. **Delivery** has the attempts of reminders, meetings and
reports, with the slot of the SMS quota that is reserved in one transaction and given back in another
(`ReserveSlot`, `Send`, `Release`), and the notification of a meeting, which is inserted once under its dedupe key and
delivered only by the attempt that inserted it. **MediaUpload** has the uploads for one asset, the form that can be posted
any number of times until it expires (`PutObject`, `ExpireForm`), completions, the scanner's verdicts under their claim, and
deletions. A completion looks at storage before its transaction; `seen` holds what such requests have found, and because any
number of them may be under way and be slow, each finding stays there to be acted on (`RequestScan`, `RejectMismatch`, and
`RemoveMismatch`, which deletes whatever the row has become). **BackgroundWork** composes them with
deaths of workers (`DeliveryDies`), leases that a running attempt outlives (`Outlived`) and the clock. Again some things the code does:
* An SMS whose send throws after the provider took it gives its slot back, so more messages can leave than slots are used.
  `src/README.md:563` says "a provider failure releases the reserved slot, while a provider-accepted send keeps it", which
  holds of the sends the code knows to be accepted; `QuotaAccounted` counts those.
* `deliver` returns `this.finish(...)` without awaiting it inside its `try` (`notification.service.ts:456`), so what that
  statement throws is not handled there: the notification stays pending and its dedupe key keeps any later attempt from
  delivering it.
* A report or a scan whose last attempt is lost (the worker dies, or a scanner answers after its lease) stays open for ever:
  a claim takes only jobs below the maximum (`report.worker.ts:133`, `upload.service.ts:185`) and nothing else closes it. That
  contradicts `src/README.md:741`, "Abandoned `processing` leases are recoverable; failures retry with exponential backoff and
  eventually become `failed`", and `:860`, "scanner failures retry and eventually become terminal `scan_failed`". Both
  sentences hold of every earlier attempt and of failures that are reported. `JobsSettle` says so: it excepts a job whose
  attempt number `MaxAttempts` is among the `lost` ones and nothing else (`Abandoned`), and is false without that exception.
* A completion that found a mismatching file deletes the object even if the right one was posted meanwhile, completed by another
  request and found clean (`upload.service.ts:131-136`: the `UPDATE` asks for `initiated`, the deletion for nothing). The asset
  is then shown without its file. A mismatch takes a storage that does not enforce the size, type and id the form fixes.
* The form is not used up by a completion or a scan (`object-storage.service.ts:44-76`), and nothing compares the object with
  the stored etag or SHA-256 again. A file posted over a scanned one is shown unscanned until the form has expired, and later:
  "malware scanning is fail-closed" (`src/README.md:866`) is true of the rows and not of the objects. `AssetIsClean` therefore
  says when a shown file can be gone (`"other"` was `seen`) or another one (`reposted`), and that nothing else does it.

**Sessions** is one account at READ COMMITTED, statement by statement where that matters: a statement sees what is
committed when it starts, waits for rows others have locked, and looks at such a row again; writes become visible with the last
action of a request. `held` are the rows a request has locked. An invalidation (logout everywhere, changed password, reuse of
a spent token, an administrator) is `LockUser`, `ReadLive`, `RevokeAllRefreshTokens`, `CommitRevocation`. `raced`
marks a token issued while an invalidation was under way. That such a refresh token outlives "log out everywhere" is what the
code allows: its row was not visible to the statement that revokes. Its access token ends with `session_version`;
the refresh token does not, and `SessionsEnd` excuses exactly it. `src/README.md:47` ("PIN changes/recovery invalidate all
refresh tokens") and `:49` ("detected refresh-token reuse invalidates every session for that user") promise more. A
refresh token that is not the stored one with its id (`token.service.ts:105-113`) is treated as reused even when the row is
live, so `Refresh` may begin a `reuse` on any row. Not in the model:
* Recovery codes. The `CHECK` of `otp_codes` and `otp_request_events` (`001_initial_schema.sql:119`, `:136`) admits
  `registration` and `pin_reset`, while the API asks for `password_reset` (`auth.validation.ts:55`, `otp.service.ts:9`), so no
  such code can be stored.
* Counts of wrong codes and passwords. They are written in the transaction that the following `throw` rolls back
  (`credential.service.ts:76`, `otp.service.ts:160`), so they never take effect.
* Access tokens: one is accepted iff its `session_version` is the current one.

A suspension (`ModerateUser`) raises `session_version` and leaves the refresh tokens live: one that is not used during the
suspension works again after the reactivation, although `src/README.md:839` says that "old credentials cannot silently become
valid again".

## 3. Runs

| run | question | bounds | distinct states |
|---|---|---|---|
| `ledger_concurrent` | do concurrent callers keep the ledger right, does every call return, and is this the abstract ledger? | 2 callers, 2 calls each (a second call after an unknown outcome), 1 retry; 2 treasuries of which transfers use both, 1 unknown Chama; 2 references that clash; amounts at and above the balance | 224 000 |
| `loan_lifecycle` | do collateral, approvals and payouts stay consistent? | 2 loans, 3 members, principal 1 or 2, pledges of 1, rule of 1 or 2 guarantors, 2 contributions, 1 competing turn | 168 000 |
| `loan_rejection` | is a dispatched payout really safe from rejection? | as above | violation |
| `mgr_cycle` | is the rotation paid in order, once and for good? | 2 members, 3 attempts, 1 member inactive at a time, 1 further deposit | 213 000 |
| `mgr_timeout` | can a timed-out attempt always settle later? | as above | violation |
| `commitment_custody` | is the deposit taken once and settled once, as promised? | 2 payments, 2 references of evidence | 9 200 |
| `penalty_default` | are findings, defaults and escalations justified, and none forgotten? | 2 contributions, 2 workers, clock 0..2, default after 2 misses | 147 000 |
| `penalty_gate` | does the gate rule out false penalties? | as above | violation |
| `contribution_collection` | does the treasury hold what customers paid? | 2 contributions of 2 units, 3 pushes of 1 to 3 units | 703 000 |
| `governance` | do capacity, consent and offices survive every order of requests? | founder and 2 users (one perhaps enrolled, one a platform administrator), target 2 or 3, 1 invitation of 1 or 2 uses, 2 polls, 2 initiatives | 794 000 |
| `background_work` | are slots, periods, messages and assets accounted for, and does the work end? | 2 workers, 2 attempts, 11 agendas: what may begin, how many faults (0 to 2), how long (0 to 2 months) | 135 000 |
| `sessions` | does a revocation end every session, is every grant used once? | 4 tokens, 2 codes, 3 requests at a time, 5 in all | 54 000 |

Why the bounds are enough: each hazard needs at most three actors. A reference or a treasury row is contended
by two callers, of which the second holds a snapshot that the first makes stale; a third caller only adds another such pair, and
the theorems hold for any number. A guarantor over-pledges with two loans. The merry-go-round
needs an old attempt, a retry and one more after a swap, hence three attempts, and two turns to swap. Two pushes
compete for one contribution and a third pays another one. A deposit needs a second payment that may overtake or follow
the first, and a second reference that contradicts the first. Two contributions and a threshold of two are the smallest
case in which a count builds on an earlier one, two workers take them out of order, and a default follows; the clock
reaches the deadline of both.

In `governance` an *initiative* is what sets things going: an application, a request of an official, a poll, a default, a
platform decision, the passing of a term. What follows from one (reviews, votes, resends, outcomes, deposits) is
unbounded, so two initiatives are every pair of causes with every interleaving of their consequences: two ways into one last
place, an amendment and the poll it makes stale, a removal and a default, an invitation used while it is sent again. In
`background_work` an agenda names jobs and payments whose state meets: a reminder with a payment changes the quota between
reservation and release, two uploads supersede each other (without a fault, since the
claim of one says nothing of the other; a single upload meets two), two payments cross. Posts and completions are unbounded. Two attempts are the smallest number
with a retry and a last one; two workers overtake each other, and a dead one is replaced. A month passes within one send, so a
slot may be reserved in one and released in the next. In `sessions` three requests are a rotation, a second
presentation of the same token and a revocation between their statements; four tokens are a login and three
successors. Every passing run's mutants (one for each property)
are found inside the same bounds.

Symmetry is used over members, loans, receipts, pushes, attempts, evidence, polls, tokens, codes and requests in the runs
that check only safety (invariants, action properties, and the refinement of `commitment_custody`, which is a safety
property too); `ledger_concurrent`, `penalty_default` and `background_work`, which check liveness, use none.
`CHECK_DEADLOCK FALSE` is set where the bounded model ends: callers use up their calls, a cycle completes, loans
are settled, initiatives, agendas and requests are used up. The deposit and penalty runs check deadlock, as a membership
can always change.

**Fairness.** `ledger_concurrent` assumes weak fairness of the steps of each caller's transaction
(`FairSpec`). It is what an event loop and a database scheduler give: a statement that can run is run. Nothing is
assumed of `Submit`, of serialization failures or of lost connections. `penalty_default` assumes strong fairness
of `AssessRead` for each contribution, by whichever worker, and of `AssessCommit` for each worker (`PenaltyFairness`):
the scans visit every contribution that is due and recur as long as a worker runs, so a contribution that is due and
unlocked again and again is taken up, and not every attempt ends in a rollback. It is strong because a lock held by a
callback or another worker makes a scan skip the row. `background_work` assumes weak fairness of three things as a whole:
that some worker goes on with its attempt (`Work`; its calls return, with or without an error), that some claimable job
is claimed (`Poll`; the scheduler runs every batch again and again), and that a lease nobody works under expires (`Lapse`;
it is a time). Nothing is assumed of customers, users, uploads, deaths or outlived leases, and not that any
one job or worker is preferred. That a scanner asks for work and answers is part of `Poll` and `Work`; it is an external program, so this is
an assumption about the deployment.

**What the three violation runs show.**
* `loan_rejection`. `src/README.md:298` says that "a dispatched-but-unreconciled payout is not safe to reject".
  When the dispatch call throws after M-Pesa accepted, or the transaction that stores the ConversationID fails,
  the catch block (`loan.service.ts:439-459`) leaves the loan `disbursement_failed` without a reference. `reject`
  looks only at that reference, so the loan is rejected, the collateral is released, and the result callback of the
  paid loan is answered 404.
* `mgr_timeout`. `src/README.md:530` says of a timed-out attempt: "A later successful result can still settle that
  timed-out attempt". A repeated failure callback of an *earlier* attempt is ignored only while the turn is
  `scheduled` (`mgr.service.ts:533`). While the next attempt is in flight it reschedules the turn; the turn can be
  swapped away, the attempt times out, and its later success is rolled back with `MGR_CYCLE_POSITION_CONFLICT`.
* `penalty_gate`. `src/README.md:167-169` says of the reconciliation gate: "This prevents a missed webhook/server
  outage from turning a provider-confirmed payment into a false penalty." The gate asks for a clean run of the provider
  `mpesa` (`penalties.ts:6`), and a run compares the journals whose metadata carry exactly the name it is given
  (`ledger.service.ts:105`), while contribution deposits carry `safaricom_daraja` (`payment.service.ts:359`). A run under
  the first name is clean whatever happened to contributions. Independently of the name, `paid_at` is the time of the callback
  (`payment.service.ts:350`), so a payment recovered after the deadline still counts as late.

## 4. Properties

* Ledger: `BalanceIsJournalled`, `AnswersAreTrue`, `OnePostingAnswer`, `LockedBalanceIsCurrent`, `CallsReturn`,
  `ImplementsTreasuryLedger`, and the type invariant `TypeOK` (no treasury is negative).
* Loans: `PledgesCovered`, `PayoutIsAuthorised`, `JournalMatchesPayout`, `DispatchedLoanKeepsCollateral`,
  `SettlementIsFinal`, and `LoanTypeOK`.
* Merry-go-round: `PaidInRotationOrder`, `OnePostingPerTurn`, `OneOpenAttempt`, `PaidTurnsAreFixed`.
* Contributions: `StatusFollowsPayments`, `TreasuryHoldsReceipts`, `CollectedStaysCollected`.
* Deposits: `EscrowFollowsState`, `ConfirmedAttemptBacksDeposit`, `ImplementsEscrow`.
* Penalties: `AssessedOnCurrentPayments`, `DefaultNeedsMisses`, `RetriedUntilAssessed`, and `EscrowFollowsState` again, now
  with a worker that escalates the deposit while others settle it.
* Membership and Constitution: `EntryRespectsChama`, `InvitationsAccounted`, `AmendedByItsPoll`, `AcceptedTextStands`,
  `ChairLostOnlyByDefault`.
* Workers and payments to the platform: `EveryPaymentBuysOnce`, `QuotaAccounted`, `DuplicatesNeedLoss`, `SentIsTrue`,
  `AssetIsClean`, `JobsSettle`.
* Identity: `SessionsEnd`, `GrantsAreUsedOnce`.

Each is stated in words above its definition.

Some of them say less than one might wish, because the code does less. `DefaultNeedsMisses` counts misses, not
consecutive ones: when contributions are assessed out of order, a timely one in between that is assessed last resets nothing, although
`src/README.md:171-174` calls the count consecutive. `JournalMatchesPayout` admits a charged loan
that reads `disbursement_failed`: the catch block of `approve` overwrites both rows without looking at them and can
do so after a callback that overtook it. `StatusFollowsPayments` says that a contribution is never over-collected in
the books; a customer who paid a second push for the same remainder has paid money the callback refuses to record
(`CONTRIBUTION_OVERPAID`). `ChairLostOnlyByDefault` names the one way a Chama loses its last chairperson: the penalty worker
(`penalties.ts:244`), while officials, administrators and polls all refuse to. `DuplicatesNeedLoss` admits a second SMS after
an attempt that died, outlived its lease or could not be recorded, since no delivery over such a provider can do better.
`OneOpenAttempt` leaves out the attempts that the catch block of `disburse` marked failed without a ConversationID
(`GivenUp`): M-Pesa may have taken their payout, and the turn is open for another. `AssetIsClean` and `JobsSettle` name the cases
in which a shown file is lost or replaced, and a job left behind (section 2).

## 5. Proofs

Every invariant, action property and refinement that a passing run checks is a theorem, with one proof module per
component. A theorem speaks of every instance: any number of callers, loans, members, attempts, users, tokens or workers,
any amounts and bounds. Its hypotheses are the `ASSUME`s of the modules, which TLC evaluates in the runs; they say that
sets whose elements are counted are finite (loans, members, pushes, users, workers), that amounts, periods and thresholds
are natural numbers in the range the code requires, and that a value standing for "nothing" is not a real one
(`NoReceipt` is not a receipt, no job is called `"none"`, tokens are not codes).

Each theorem about a state follows the same argument: an inductive invariant, `Init => IInv`,
`IInv /\ [Next]_vars => IInv'` with one lemma or step per action, and `IInv => ` the property. An action property adds the
invariant in the state before the step. The invariants below are what had to be added to make the properties inductive.

**TreasuryLedgerProofs.** The money properties add up functions over sets (`SumFunctionOnSet`), a fold that is defined by
recursion on a set. `SumWithOneMore`, `SumOfSameValues`, `SumOfFewer` are proved by induction on the size of the set, done
with *sets* of numbers and of sets (`EveryNumber`, `EveryFiniteSet`) instead of predicates, so that every step is
first-order. `JournalSaysDeltas`: the entries of each kind of instruction sum, per treasury, to its deltas, which the code
writes independently of each other. From both, `LedgerInvariance: LedgerSpec => []LedgerInv`, of which
`BalanceIsJournalled` is a part, and `JournalsAreFinal`.

**LedgerExecutionProofs.** `TypeCorrect` (in particular no treasury is negative), `NoLostUpdate`
(`LockedBalanceIsCurrent`), `TrueAnswers`, `SinglePosting`, `Refinement` (`ImplementsTreasuryLedger`), and through it
`BalancesFollowJournals` (`BalanceIsJournalled`). `TypeOK` is not inductive: that a commit writes a natural number needs
that the caller checked the balances it holds (`Sufficient` at `commit`), that these are the committed ones needs
that a row it locked is neither stale nor locked by another, and that a `posted` answer is unique needs that a caller
about to commit has a reference no journal holds and no other caller is about to commit. `IInv` is the conjunction of
these facts.

**LoanDisbursementProofs.** `TypeCorrect`, `SavingsCoverPledges`, `OnlyAuthorisedPayouts`, `ChargedWhatWasPaid`,
`CollateralStays`, `SettledForGood`. `LoanPlaces` says of one loan how its row, its disbursement, the request of the
Chairperson, the provider and the journal fit together; it is what keeps a payout authorised although its status row is
overwritten by the catch block. Loans meet only in a member's pledges: `PledgesCovered` is preserved because the sum of a
member's pledges grows only in `AcceptGuarantee` (`OneMorePledge`), which looks at all of them, and otherwise shrinks
(`FewerPledges`).

**MerryGoRoundProofs.** `RotationOrder`, `AtMostOneOpen`, `PostedOnce`, `PaidTurnsStay`. `OneOpenAttempt` is about
attempts that are still to be answered, or whose payout M-Pesa took and did not refuse, other than those the catch block gave up;
inductive is the stronger `OneLiveAttempt`, that a turn has at most one attempt that is not *failed*, together with what the
fields of an attempt say of the provider (`RequestPlace`, and `OutcomeIsReal`: what failed with a ConversationID was refused)
and that a turn is paid exactly if one of its attempts is confirmed and journalled (`PaidIsConfirmed`).

**ContributionPaymentProofs.** `StatusIsTrue`, `TreasuryIsExact`, `PaymentsStay`. `PushPlaces` says that nothing is asked
of the customer before contribution and amount are fixed, `ReceiptOfPush` that a receipt is worth what its push asked for.

These three specifications are shown to post as the abstract ledger does: `LoansPostToLedger`, `TurnsPostToLedger` and
`CollectionPostsToLedger` (`... => LedgerSpec`), and so `TreasuryFollowsJournals` for loans and turns, which no run of
theirs checks. With `Refinement` of the execution, the chain is closed: what the services assume of the ledger, the code
of the ledger provides. (A loan must encumber a principal the ledger can post, `Principals`; attempts stay within
`MaxAttempts`.)

**CommitmentDepositProofs.** For `DepositSpec`: `TypeCorrect`, `CustodyIsSettledOnce` (`EscrowFollowsState`),
`ConfirmationsAreTrue`, `Refinement` (`ImplementsEscrow`). `EscrowFollowsState` is not inductive because it counts: the
invariant states instead which journals there are (`Escrow`, by kind and as "none" or "one singleton"), that only an
unpaid deposit lacks a receipt (`AppliedHasNoReceipt`), and what each place of a callback knows (`Callbacks`).
`Refinement` rests on the same facts: a hold takes money for the first time, a refund or a forfeiture is the first
(`HoldIsPayment`, `SettlementIsFirst`). For `PenaltySpec`: `CustodyUnderPenalties` (`EscrowFollowsState` with the worker as
one more author of transitions), `DefaultsAreEarned` (`DefaultNeedsMisses`), `FindingsAreCurrent`
(`AssessedOnCurrentPayments`). What an assessment has read stays true until it takes effect because it holds the row of its
contribution (`JobsAreCurrent`), and a stored count never exceeds the misses so far (`CountsAreMisses`).
`EscrowUnderPenalties` says that every step of `PenaltySpec` is one `EscrowCustody` allows; its initial state is not the
abstract one, since the module starts from a deposit that is already held.

**AccessProofs.** For `Governance`: `AmendmentsWereVoted`, `AcceptedTextsStand`, `InvitationsCounted`, `EntryIsRespected`,
`ChairStays`. Polls count votes of their electorate only and are acted on once closed (`PollsConsistent`); every text
anybody accepted is that of an existing version, also in applications still under review (`RulesStand`), which is what
keeps an acceptance true when the application is approved later. For `Sessions`: `RevocationEndsSessions` (`SessionsEnd`),
`GrantsAreSpent` (`GrantsAreUsedOnce`). `SeenOK` is the heart of the first: an invalidation past its read has
seen every live token that was not issued while it was under way; `HeldOnce` (no row is locked twice) keeps what a request
relies on from being changed by another, and `GrantsSpent` says that what a token was issued for is used up.

**BackgroundWorkProofs.** `PaymentsBuyOnce`, `QuotaIsAccounted`, `DuplicatesAreExplained`, `SentMeansTaken`,
`ShownAssetIsClean`. The invariant has a part per component, and the proof shows which steps leave which part alone:
`PaymentsInv` (purchases and their periods), `LeaseInv` (`Tokens`: no two workers are at one attempt of a job),
`DeliveryInv` (where the message of an attempt stands; a slot in flight belongs to exactly one worker) and `UploadInv`.
Its heart is `UploadPlace`: a scan was asked for after some completion had found the declared file; a file is gone only once
its upload is closed or after some completion had found another one; and what was not posted again is what all of them found.

One thing came out of the proofs rather than of the runs. In `Sessions`, a step of `RevokeOne` or `ModerateUser` could be
taken on behalf of a request that was in the middle of another one; a request now has to be idle to begin (`Arrive`).

**Only model-checked.** `CallsReturn`, `RetriedUntilAssessed` and `JobsSettle`: liveness under fairness, which needs
`ENABLED` and is out of the prover's reach. The properties of the three violation runs are false of the code and so are
no theorems. Everything else the passing runs check is proved.

## 6. What is abstracted

* Amounts are small naturals; currency is a single code. 64-bit overflow does not occur in the code (`bigint`, checked
  columns).
* Audit rows, notifications of the API, trust scores and response bodies are left out: nothing modelled reads them back.
* A request the code refuses changes nothing and is therefore not an action (wrong role, missing phone, expired
  subscription, inactive membership).
* Dates: a swap keeps dates with positions, which adds no state; the deadline of a contribution is "assessed at some time".
* In `ContributionPayment`, `Assess` stands for what `assessContribution` does to the contribution row only.
* In `PenaltyAssessment` a contribution is settled by one payment; partial ones are a matter of `ContributionPayment`. A
  penalty row and its journal are written exactly with a miss under a late fee, so `missed` stands for them. Waived
  contributions and inactive Chamas are not assessed and not modelled. Of reconciliation runs only the clean ones are kept.
* One deposit of one membership: no code path creates a second one. The simulated provider of development, which answers
  inside the request, is left out. Two concurrent callbacks of one payment are modelled one after the other, each
  repeatable at any point.
* `recordRepaymentIntent` and `processLoanInterest` work on loan statuses that no code path sets, so they are not actions.
* `Membership` follows one Chama. Of the versions a member accepted only the latest is kept, of a Constitution its version
  and an abstract text. The plan's member limit and `CHAMA_MAX_MEMBERS` are one number, `MaxMembers`.
* In `Delivery` a reminder has one recipient on one channel and a meeting one recipient; other recipients run the
  same steps on other rows, and e-mail and push the same path without a slot. A report's content is abstracted: it is captured
  in one read-only transaction.
* Time is a counter of months; a backoff is over before the next claim. An upload's form expires at any time, for
  storage and for the row at once.
* In `MediaUpload` all uploads are for one asset, since assets do not interact.
* In `Sessions` a retry of a transaction counts as another request, and a deadlock (a password change with a lock
  FOR UPDATE against the foreign key of a new token) is a `Rollback`. The status of the account is the one at the statement
  that takes the lock on a token; that it may have been read while waiting for it is not modelled. Revoking a single session
  as an administrator is `RevokeOne`.

## 7. Not modelled

* Simulated provider answers of development, in all payment services: they do not exist in production.
* A second merry-go-round cycle of one Chama. The code allows one once the first is completed (`mgr.service.ts:134` refuses it
  only while one is active); it has rows of its own and shares only the treasury with the first. The code creates no second
  deposit of one membership.
* Editing and cancelling meetings, reading and removing notifications and assets, support tickets, messages, goals and plans:
  single transactions on rows nobody else decides by.
* Member commitment status, trust score and merchant rewards: recomputed from other tables by one statement inside the
  transaction that changed them.
* Read models, routing, validation, adapters and configuration: no state of their own.

## 8. What could be added

* `TreasuryContention`: loans and merry-go-round over one treasury. Neither counts the other's reservation, so a payout
  M-Pesa made may find the treasury short; a specification of what the ledger can then still record.
* Partial payments at the deadline in `PenaltyAssessment`.
