# INKON CRM: a TLA+ verification project

INKON CRM runs a school centre: a FastAPI backend over PostgreSQL and Redis, arq and in-process
workers, a Telegram bot and a React frontend. This directory holds TLA+ models of its core logic,
the TLC configurations that check them on small instances, and TLAPS proofs of what matters most for
every instance. Paths below are relative to `src/backend/app/` unless they start with `frontend/`,
`deploy/` or `backend/`.

| File | What it is |
|---|---|
| `OutboxDelivery.tla` | the transactional outbox and its workers |
| `MessageLifecycle.tla` | what the outbox promises, without workers, leases or time |
| `OutboxDelivery_proofs.tla` | theorems about `OutboxDelivery`, and its refinement of `MessageLifecycle` |
| `MCOutboxDelivery.tla`, `Outbox*.cfg` | its instances for TLC |
| `FinanceLedger.tla` | one student's charges, ledger entries, allocations and wallet |
| `LedgerSums.tla` | lemmas about the sums, folds and orders `FinanceLedger` is built from |
| `LedgerRows.tla` | lemmas about its balances and its loops |
| `FinanceLedger_proofs.tla` | theorems about `FinanceLedger` |
| `MCFinanceLedger.tla`, `Finance*.cfg` | its instances for TLC |
| `ExamResultDelivery.tla` | debounced delivery of exam results to parents |
| `ExamResultDelivery_proofs.tla` | theorems about `ExamResultDelivery` |
| `MCExamResultDelivery.tla`, `Exam*.cfg` | its instances for TLC |
| `LedgerRequests.tla` | payment requests, the closing of months and analytics reports that meet in the ledger |
| `LedgerRequests_proofs.tla` | theorems about `LedgerRequests` |
| `MCLedgerRequests.tla`, `LedgerRequests.cfg` | its instance for TLC |
| `AuthSessions.tla` | refresh tokens in the backend and the tabs of the browser that share one |
| `AuthSessions_proofs.tla` | theorems about `AuthSessions` |
| `MCAuthSessions.tla`, `AuthSessions.cfg` | its instance for TLC |
| `JournalQueue.tla` | the browser's autosave queue of a journal and the entries it writes to |
| `JournalQueue_proofs.tla` | theorems about `JournalQueue` |
| `MCJournalQueue.tla`, `JournalQueue.cfg` | its instance for TLC |
| `PROJECT.json` | components, runs, mutants, the map from definitions to source lines, hazards, theorems |

`tlc -config OutboxSafety.cfg MCOutboxDelivery.tla` checks one run, `tlapm OutboxDelivery_proofs.tla`
checks the proofs of one module.

## 1. The system

### Components, their state and operations

| Component | Code | State | Operations | Hard parts | Model |
|---|---|---|---|---|---|
| Outbox | `repositories/sqlalchemy/outbox_repository.py`, `workers/outbox.py`, `workers/sms_delivery.py`, `workers/debt_reminder_sms.py`, `services/outbox_service.py` | `outbox_events`: status, attempts, lease, next attempt, expiry, encrypted payload | enqueue; claim; pre-send check; begin attempt; transport; mark delivered/failed/expired; release and expire stale rows | several workers, leases, crash between commit and send, stalls, late answers | `OutboxDelivery` |
| Finance ledger | `services/finance_service.py` | `charges`, `ledger_entries`, `allocations`, `payment_targets` | payment, discount, adjustment, void, refund, allocation | append-only reversals, stored statuses, sums that must agree | `FinanceLedger` |
| Enrollments and billing mode | `services/enrollment_service.py`, `enrollment_billing_service.py` | `enrollments` and their schedule of charges | enroll, withdraw, paid to grant and back | day-boundary arithmetic, long sequences | `FinanceLedger` |
| Accounting periods | `finance_service.py` 146-183, 1978-2044 | `accounting_periods`, advisory locks | close, reopen, check | a payment racing a close | `FinanceLedger` (what is forbidden), `LedgerRequests` (the locks) |
| Idempotency of payments and allocations | `payment_idempotency_service.py`, `credit_allocation_idempotency_service.py`, `frontend/src/lib/finance/paymentIdempotencyKey.ts` | keys on ledger entries, the form's key | record or replay | retries, lost answers, races resolved by a unique index | payments in `LedgerRequests` |
| Exam results | `workers/exam_result_delivery.py`, `repositories/sqlalchemy/exam_result_notification_repository.py`, `services/exam_result_scheduling_service.py` | `exam_result_notifications`: status, due time, attempts, lease, send started | edit a score, schedule, cancel, release stale claims, claim a batch, start, send, settle | batch under one lease, unknown outcomes, edits while claimed, a unique index on pending rows | `ExamResultDelivery` |
| Debt reminders | `workers/debt_reminder_delivery.py`, `services/debt_reminder_service.py` | `debt_reminder_notifications` | queue, claim, start, settle, release | the same lease, a switch that turns delivery off | SMS channel in `OutboxDelivery` |
| Notification log | `services/notification_service.py`, `workers/notification_retry.py`, `repositories/.../notification_log_repository.py` | `notification_logs`: revision, claim token, lease | queue, claim, finalize, recover, manual retry | two revisions in flight, lost jobs | no |
| Auth sessions, passwords, codes | `services/auth_service.py`, `auth_session_service.py`, `frontend/src/lib/auth/refreshCoordinator.ts` | refresh tokens in families, auth version, deny list | issue, rotate, reuse detection, logout, reset | logout racing refresh, reuse grace, tabs sharing a token | `AuthSessions` |
| Rate limits, lockouts | `core/rate_limiter.py`, `services/telegram_attempt_limiter.py` | Redis counters and reservations | reserve, commit, release | window turns, crash between scripts | no |
| Telegram linking | `services/telegram_link_service.py` | link codes, chat ids | replace code, consume, unlink | single use, attempt budget | no |
| Analytics cache | `services/analytics_cache_service.py`, `cache_generation_repository.py` | Redis value and lease, generation row | get or compute, advance | publishing a value computed before a commit | `LedgerRequests` |
| Journal | `services/journal_service.py` | cells and summaries with versions | batch update, exam and bonus, period settings | partial conflicts, sums | batch updates in `JournalQueue` |
| Journal autosave | `frontend/src/lib/journals/JournalQueue*.ts` | drafts, in-flight values, conflicts | edit, flush, absorb, reconcile, retry | late answers, edits during a flush | `JournalQueue` |
| Object storage | `services/storage_lifecycle_service.py`, `workers/storage_cleanup.py` | storage intents, objects | stage, adopt, deferred delete, cleanup | reservation outliving its request, leases | no |
| Scheduled maintenance | `workers/settings.py`, `api/v1/cron.py` | Redis locks, job ids | enqueue daily jobs, run under a lock | lock shorter than the task | no |
| Courses, users, profiles, dashboards, audit, documents | the other services | rows | CRUD and queries | little | not modelled |
| Backup, deployment | `services/backup_alert_service.py`, `deploy/` | files | scripts | external tools | not modelled |

### How they interact

A request runs in one database transaction. `get_db_session` (`core/deps.py:36`) commits behind its `yield`; the
image installs `backend/requirements.lock`, whose FastAPI (0.141.1, line 501) runs that code after the answer has
been sent. So payments, logins and refreshes are answered before their commit, which may still fail; an error of the
route is rolled back before it is answered. Journal commands are the exception: `JournalCommandTransaction`
(`journal_transaction.py:14`) commits when the route leaves it, before the answer. Finance operations first lock the student's row
(`lock_student_accounts`) and then the accounting periods they write to (shared advisory locks; closing
a period takes the exclusive one), so operations on one account are serial. Services that must reach a
person write an `outbox_events` row in the same transaction; the outbox worker of each backend process
polls for such rows, and passes notification jobs on to arq, whose tasks use the notification log. A
debt reminder by SMS ties a `debt_reminder_notifications` row to its outbox row. Editing an exam score
schedules a delayed delivery that the arq cron picks up. Every finance mutation advances the cache
generation that the analytics cache puts in its key. The browser's autosave queue talks to the journal
service by optimistic versions; its HTTP client shares one refresh of the access token among requests.

### What makes each component correct

* Outbox: attempts are counted before they are made, so no crash can exceed the maximum; two workers
  never send the same message at once; a message that was overtaken and stayed so is not sent; every event closes; a
  closed row keeps no secret; the reminder row follows.
* Finance: no money is used twice; the wallet, the single entries, the stored statuses and the
  allocations agree; a reversal un-applies exactly what it says; closed months stay as they were; no month
  is billed twice or lost.
* Periods: nothing is written to a month after its close committed. Idempotency: one key, one entry.
* Delivery of exam results, reminders, notifications: at most one message per attempt, never a resend
  after an unknown outcome, the last score delivered is the last score entered, revisions do not overwrite
  each other's outcome.
* Sessions: a new password ends every older session; tabs that race, and answers that are lost, keep theirs.
* Cache: a report shows every payment committed before it was asked for. Journal: no edit overwrites
  one its author has not seen; the queue loses no edit. Storage: a referenced object is never deleted, an
  unreferenced one eventually is. Lockout: in-flight attempts count against the limit.

## 2. The outbox: `OutboxDelivery`

### State and actions

`row` is the table: status, `attempts` (attempt_count), `owner` and `lease` (lease_owner,
lease_expires_at), `wait` (next_attempt_at), `ttl` (expires_at), and whether the encrypted payload is
still there. `worker` is what `run_once` and the frames below it remember between transactions: where
they are, the event, how often they may still claim, whether the attempt was counted. `valid` is
whether the code, password or debt is still the one to send, and a worker's `wasValid` (history) whether it was so at
some moment since the claim; `reminder` is the reminder row of a debt
SMS. `accepted` and `sends` are history: what the provider took and how often a transport started.

Each transaction is one action, so another worker, a clock tick, an exception or a crash can come between
any two:

| Action | Code |
|---|---|
| `Enqueue`, `Supersede`, `Reinstate` | `OutboxService.enqueue_*`; a newer code, a password change, a paid debt, a changed number; a debt owed again or a number changed back, which `debt_reminder_sms.py:37` recomputes at every check |
| `Maintain` | `release_stale_leases` and `expire_stale`, one transaction at the start of `run_once`; both bring the reminder rows along |
| `Claim` | `claim_pending_batch` with batch size 1; rows another transaction has locked are skipped, so any claimable row may be next |
| `Process`, `Undecryptable` | `process_single_event`: decryption, dispatch on the kind; a payload that cannot be decrypted is failed |
| `Check`, `Reject` | `check_verification_state` and `SmsDelivery._inspect`, and the `mark_expired` that follows |
| `Begin`, `CannotBegin` | `begin_attempt`: lease still valid for `MinLeaseRemaining`, attempt left; counts the attempt |
| `Transport` | SMTP, SMS gateway or `enqueue_job`: accepted, refused, or an error though accepted |
| `Settle` | `mark_delivered`, `mark_failed` (retry with backoff, or terminal) |
| `Finally` | the `finally` of `run_once`: release unless an attempt was counted, then the next event |
| `Raise`, `Crash` | an exception out of any step; a process that dies, with what was on the wire taken or not |
| `Tick` | time passes; a tick inside any step but a bounded transport is a stall |

Deadlines are countdowns: "lease_expires_at > now" is `lease > 0`. The worker's own `lease` is the
lease of its claim, which it compares with before it begins although the row may have been released
and claimed again since. The age limit of e-mails (`max_queue_age_seconds`) and their expiry close a row
in the same way and are one countdown, `ttl`.

### Runs

| Run | Instance | Checks |
|---|---|---|
| `outbox_safety` | one debt reminder by SMS, two interchangeable workers | `TypeOK`, `PendingIsClaimable`, `SendsAreCounted`, `OneTransportAtATime`, `LatenessIsBounded`, `PayloadPurgedOnClose`, `NothingOvertakenIsSent`, `ReminderFollowsRow`, and `LifecycleSpec`: the outbox implements `MessageLifecycle` |
| `outbox_liveness` | an e-mail and a notification job, one worker | `EveryEventCloses` |

A debt reminder takes every step an e-mail takes and has the reminder row besides; what distinguishes the kinds
is covered by `outbox_liveness` and, for any mixture of events, by the proofs. The rows of different events meet only
in the workers, which handle one at a time.

Bounds: two attempts give a first, a retried and an exhausted one; a lease of 4 (3) ticks with 2 that must
remain and a transport of 1 gives every order of lease end, transport end and expiry; a time to live
of 5, 6 or 2 lets an event expire waiting, claimed or in transport; 4 faults (1 for liveness) cover a
stall or crash of each worker in each of two attempts. `MaxFaults` is the only artificial bound; the
others are configuration of the code, and the proofs leave all of them open.

The configuration the code ships satisfies `OutboxConstants`: the lease is longer than what must remain of
it, and that is longer than the deadline of an SMTP or SMS transport. Where it does not, two sends can
overlap; `OneTransportAtATime` is where this shows.

Fairness: `WF(Tick)` because the clock runs, and `WF(Step(w))` because `run_loop` polls in an endless loop
that catches every exception. Nothing is assumed of `Enqueue`, `Supersede`, `Reinstate`, `Raise` or `Crash`. That faults are
finite is an assumption: an event whose rendering raises each time, before `begin_attempt` counts
it, is released uncounted and claimed again until it expires, ahead of younger ones.

`NothingOvertakenIsSent` is about one claim: what it sends was valid at some moment since that claim. A debt paid
before the claim and owed again before the check is sent, rightly; a code overtaken while an earlier attempt was
under way is not sent by a later one. `Reinstate` is there for every kind but notification jobs, though only a debt
or a phone number comes back, which allows more than the code does.

What the model shows beyond the properties: `expires_at` is compared at the claim and not before the
transport, so a message can leave up to `LeaseDuration - MinLeaseRemaining + TransportDeadline` after
it expired (`LatenessIsBounded` is that bound); `expire_stale` closes a row another worker has in
transport, which is then recorded expired though the provider may have taken it (`MessageLifecycle`
allows `Take` after `Close` for this reason); notification jobs have no transport deadline and rely on
the arq job id instead, so the mutual exclusion properties are about e-mail and SMS.

### Proofs

`OutboxDelivery_proofs.tla` proves, from `OutboxConstants` alone, for any number of events and workers:

* `Invariance`: `Spec => []IInv`. None of the safety properties is inductive. That a transport excludes
  another needs what a worker knows against what the row says: while an e-mail or SMS is in flight the
  row is either closed or still held with a lease longer than the rest of the flight (`TransportInv`). That in
  turn needs `Holds(w, e) => row[e].lease = worker[w].lease` and, for retries, that a held row not yet
  counted has an attempt left (`ClaimInv`, which also says that a worker past its check has `wasValid`). `RowInv` ties payload, attempts, history and reminder
  to the status. Each action has a lemma (`ClaimKept`, `BeginKept`, `TickKept`, ...) that it keeps `IInv`;
  `NextKept` collects them.
* `TypeCorrectness`, `NothingIsStuck`, `SecretsArePurged`, `SendsAreBounded`, `MutualExclusion`,
  `OvertakenIsNotSent`, `BoundedLateness`, `RemindersFollow`: each property of the runs, from `IInv`.
* `Refinement`: `Spec => LifecycleSpec`. Lifecycle phases are read off the status; each step is an attempt,
  a take, a close of some messages, a submission, or a stutter (`StepRefines`).

Only model-checked: `EveryEventCloses` (fairness and leads-to).

## 3. The ledger: `FinanceLedger`

### State and actions

One student's account. Every operation of `FinanceService` and the billing operations lock the student's
row first and run in one transaction, so each is one action and no other operation of the account
interleaves; what can go wrong is the arithmetic over long sequences of legal operations. `charge`,
`entry` and `alloc` are the tables, in id order; an allocation's `by` is `reversed_by_entry_id`;
`enrollment` is status, billing mode and enrollment day; `closed` are the closed months; `today`
is the date in Dushanbe. `beforeGrant` is history.

| Action | Code |
|---|---|
| `Enroll` | `enroll_student` and `generate_schedule_for_enrollment` |
| `Withdraw` | `withdraw_student`: `withdrawal_calculation`, `reverse_withdrawal_allocations`, cancellation |
| `ToGrant`, `ToPaid` | `change_billing_mode`: `convert_future_charges_to_grant`, `resume_billing_after_grant` |
| `Pay` | `create_payment` with its targets |
| `Discount`, `Adjust` | `create_discount`, `create_adjustment` |
| `Void`, `Refund` | `void_payment`, `refund_payment`, both through `_reverse_allocations` |
| `AllocateToCourse`, `AllocateToCharge` | `allocate_course_credit`, `allocate_credit` |
| `ClosePeriod`, `ReopenPeriod` | `close_period`, `reopen_period` |
| `Tick` | the next day |

Abstractions: money is an integer (the code quantizes to two decimals and only adds, subtracts and
compares); a day is half a month, so that "begins today" and "is under way" are distinct; course months begin
on day `2k`; the due date of a charge lies in its month, so due order is month order; an entry
keeps the month it occurred in. A payment's date may lie in the past; since every course of the model
starts on day 0, `PaymentDateWindow` never refuses it. Not modelled: soft deletion, date changes
of a course (after which a charge's sequence number may name another month), completed enrollments,
`auto_allocate_student_credit` (called from tests only), reports.

### Runs

| Run | Instance | Checks |
|---|---|---|
| `finance_money` | two enrollments, one day, amounts 1..2, three entries, three charges | `TypeOK`, `NoEntryOverspent`, `WalletIsExact`, `PaymentLandsOnTargets`, `CreditLandsInFull` |
| `finance_months` | one enrollment, two days (the second begins a month), a month that closes and reopens | `ChargeStatusAgrees`, `OneLiveInstallment`, `ReversalsAreExact`, `ClosedMonthsAreSealed`, `WithdrawalReturnsPayments`, `GrantClearsTheFuture` |
| `finance_reversed_rows` | as `finance_months` | finds `OnlyUnreversedRowsCount` violated |
| `finance_round_trip` | as `finance_months` | finds `RoundTripRestoresMonths` violated |

Bounds: a price of 2 with amounts of 1 and 2 gives partly and fully paid charges, partial refunds and
survivors; three entries give credit, a reversal of it and a second reversal or a re-allocation, the
shortest sequences that break the sums under the mutants of `PROJECT.json`; three charges give two months and a
regenerated one, or charges of two enrollments. `MaxAmount`, `MaxEntries`, `MaxCharges`, `LastDay` and `Closable`
are bounds; deadlock is off because the ledger stops at them.

### What the runs found

* `models/allocation.py:15` and the head of `finance_service.py` say that only allocations with
  `reversed_by_entry_id IS NULL` count toward balances. `_consumed_credit_allocation`
  (`finance_service.py:254`) also counts an adjustment's allocation that a withdrawal reversed: the
  adjustment stays spent. The exception is deliberate code; the rule as written is wrong.
* `test_finance_p4_transitions.py` expects that an enrollment turned to a grant and back gets every cancelled
  month again. Cancelling takes months that begin today or later (`starts >= today`, line 656),
  resuming generates months that begin after today (`period_start > today`, line 744). On a day that begins a
  course month, that month's charge is cancelled and never regenerated.

### Proofs

`FinanceLedger_proofs.tla` proves all five invariants and all six action properties of the two passing runs from
`LedgerConstants` alone: any finite number of enrollments, any months, price, days, closable months and bounds. The
constants are naturals, a course has at least one month and its price is positive (`validate_installment_price`), and the
first day is not after the last.

`LedgerIsSound` (`Spec => []LedgerInv`) carries them; TLC checked `LedgerInv` on both instances first. Its parts:

* `Calendar`, `Tables`, `References`: types, and ids that refer to rows that exist. `RefundsStand`, `VoidsHold`: a refund
  or void reverses a payment, a refunded one is never voided and a voided one has no live allocation.
* `Settled`: what is allocated to a charge is at most its amount and decides its status. Each operation recomputes the
  charges it names only, so each proof shows that the allocations of all others are as before.
* `Funded`: for each credit or discount, what it consumed and what was paid back in cash is covered, and so are its refunds.
  `Available(e) >= 0` is the first half; without the second a cash refund could take out more than there is.
* `LiveOnce`, `ChargesEnrolled`: no month is live twice, and an enrollment that was never made has no charges, which is
  what `Enroll` needs to keep the former.

`NoEntryOverspent`, `ChargeStatusAgrees` and `OneLiveInstallment` are parts of it in other words (`LedgerSpendsOnce`,
`LedgerStatusAgrees`, `LedgerBillsOnce`). `WalletIsExact` (`LedgerWalletExact`) is not: that the three sums of
`get_unallocated_credit` agree with the single entries needs that a cash refund is of a payment that still stands and that
no allocation or refund is counted for an entry the first sum leaves out.

Operations fall into a few kinds, and each kind has one lemma that it keeps the invariant: `CreditStep` (new credit, new
allocations: payment, discount, adjustment, both allocations), `BillsAnew` (enrolling, billing resumed), `FreeingStep`
(withdrawal), `ReversalStep` (void and refund), `GrantStep`. The action properties follow from the same kinds: `WalletMoves`
and `DebtFalls` say how the wallet and a debt change when single entries and charges do.

The arithmetic rests on three things the model leaves to folds, each with lemmas in `LedgerSums` and `LedgerRows`:

* Sums. A balance is the sum of the rows of a kind, `Taken(rows, kind)`; what happens to it when rows are appended,
  stamped, split by kind or summed class by class (`TakenConcat`, `TakenStamped`, `TakenSplit`, `TakenClasses`) is all the
  steps need. `WalletIsExact` is `TakenClasses` with one class per credit.
* Order. `Ordered` puts a finite set in due order, oldest or newest first: each element at its rank (`RankedLists`).
* Loops. `Pour` stands for `_apply_credit` and the payment's loop. `PourFills` (in `LedgerRows`) states it for any set of
  caps: each pair writes as much as the tightest cap that concerns it allows, so no cap is exceeded and each pair leaves one
  of its caps met. From this: all that was asked for is written if credit and debt cover it. `Unapply` stands for
  `_reverse_allocations`: un-applies the least of what is asked and what is applied, and the survivor keeps the rest.

The prover cannot instantiate the library's induction theorems, whose parameter is an operator. `LedgerSums` therefore
states induction over a *set* of numbers or subsets (`NatInduct`, `SubsetInduct`, from a least counterexample), and proves
the existence and uniqueness of the functions the community modules define by `CHOOSE` (`RecursionExists`,
`RecursionUnique`). For the same reason `FinanceLedger` sums with `SumFunction` and orders with `Ordered`, both first-order.

Not proved: the two violated statements above, which the runs refute.

## 4. Exam results: `ExamResultDelivery`

### State and actions

`row` is the table `exam_result_notifications`, by id: status, result (student and journal), `attempts`, `owner` and
`lease`, `started` (send_started_at is set), `due`. The `skipped` status is split by its reason. `score` is the
exam score of each result; `worker` is what each run of `deliver_due_exam_results` remembers between
transactions: the clock it read at its start (`age` ago), the rows of its batch still to do, the row it is at,
the score it read for the card. History: `basis`, the row the last edit of a result was put on; `handed`, how
often Telegram took a card of a row without an exception; `shown`, the score on the last card the parent got.

| Action | Code |
|---|---|
| `Edit` | `update_exam_or_bonus` with a changed exam score, and `register_exam_score_edit`: upsert of the pending row, or its cancellation when the score is cleared |
| `ReleaseStaleClaims` | the first transaction of `run_once`: rows whose send began, or without attempts, fail; the others go back to pending, or are superseded by a pending one |
| `ClaimDueBatch` | the second transaction: oldest due rows, one lease for all, attempts counted |
| `LoadSource` | `load_source` and `resolve_skip_reason` |
| `SettleSkipped` | `mark_skipped`, also for a chat that refuses the bot |
| `MarkSendStarted` | `mark_send_started`: lease not yet expired |
| `SendPhoto` | `send_photo`: taken, refused, or an exception though perhaps taken |
| `Settle` | `mark_sent`, `mark_retry` |
| `Crash` | a run that dies: the process, the job timeout, an exception of the rendering or of a transaction |
| `Tick` | time passes; a tick inside any step but a bounded transport is a stall |

`ReleaseStaleClaims` is disabled where the unique index would refuse it: the code then raises, rolls back and
ends the run, and nothing has changed.

Abstractions: an edit reads the clock when it commits. A transport is bounded from the commit of
`mark_send_started`. `release_stale_claims` and its reading of the clock are one step; the claim follows it after at
most `ClaimWindow`. Rows a transaction has locked are not skipped, they are claimed a little later. A closed row
forgets all columns but its result. A row claimed before an edit and loaded after it sends the new score at once,
and its own row sends it again when due: the code does so, and no document speaks of it.

### Runs

| Run | Instance | Checks |
|---|---|---|
| `exam_results` | one result, three edits, two interchangeable runs, one dies | `TypeOK`, `HandedOverOnce`, `OneCardAtATime`, `SentMeansShown`, `NoEditIsDropped`, `ReleaseNeverCollides` |
| `exam_liveness` | two results, two edits, two runs, batches of two, one dies | `EveryRowCloses` with batches over several results |
| `exam_zero_delay` | one result, two edits, lease 1, delay 0, two runs die | finds `DeadClaimsAreReleased` violated |

Bounds: two attempts give a first, a retried and an exhausted one; a lease of 2 and a transport of 1 let a lease
lapse before, during and after a transport; a delay of 3 is the least that satisfies `DelayOutlastsLease` (with 2,
`OneCardAtATime` fails); three edits give a row that is claimed, one that is pending and one that is moved. `MaxEdits`,
`MaxFaults` and `ClaimWindow` are bounds, the other constants are configuration or scores.

Fairness: `WF(Tick)`; `WF(Step(w))` because arq starts a run every half minute and no step of a run waits for
anything but the transport. Edits, deaths and the outcome of a send are free.

### What the runs found

`core/config.py:173` accepts a delay of 0. With a delay shorter than the lease, a result can have two claimed rows.
If the runs that hold them die before they send, the release sets both back to pending, which the unique index
refuses; every later run fails at the same place, before it claims anything, so no result of anyone is
delivered until the result in question is edited again. The default delay, four hours, excludes it: see `ReleaseIsFree`.

### Proofs

`ExamResultDelivery_proofs.tla` proves, from `ExamConstants`, for any results, runs and edits:

* `Invariance`: `Spec => []IInv`, and from it `TypeCorrectness` and `AtMostOnce`. At-most-once is not inductive: it
  needs that the row of a card in transport is closed or still held and marked as started (`RunsAreSound`),
  that no two transports share a row (`TransportsAreApart`), and that the row of a card taken is never open and
  unstarted again (`HandedRowsAreDone`). This holds for every delay.
* under `DelayOutlastsLease` (the delay is at least the lease plus the transport deadline), `TimedInvariance`:
  `Spec => []TimedInv`, and from it `CardsDoNotOvertake`, `SentScoreStands`, `EditsAreKept`, `ReleaseIsFree`. The argument:
  while one row of a result is claimed, the next one falls due after the lease and after any transport begun under it
  (`ClaimsAreApart`, `TransportEndsFirst`), and a run that reads its clock late claims no sooner
  (`ClaimsFollowReleases`). So claims of one result follow each other, the row of the last edit is the only one with
  work left (`BasisIsCurrent`), and what a run read of it is still true (`CardsAreCurrent`).

`DelayOutlastsLease` is a hypothesis of those theorems, not an assumption of the module: the code does not check it,
its defaults (14400 s against 180 s and the timeout of the Telegram client) satisfy it. Each action has a lemma about the
rows it writes (`ReleaseFacts`, `ClaimFacts`, ...) and one that it keeps each invariant. Only model-checked: `EveryRowCloses`.

## 5. Requests that meet in the ledger: `LedgerRequests`

### State and actions

`FinanceLedger` takes each operation as atomic. This module looks at what makes it so for payments, and at the
readers: the payment form with its idempotency key, the payment transactions, the transaction that closes a
month, and analytics reports with their cache. A request is one PostgreSQL transaction under READ COMMITTED; a
step of it ends where it can wait for a lock or where another transaction can come in between. What a payment
does to charges is abstracted to the row it leaves in `ledger_entries` (`entries`).

| Action | Code |
|---|---|
| `Submit`, `Learns`, `Answered`, `LoseAnswer`, `CloseForm` | `PaymentEntryDialog.tsx` `handleSubmit`, `useCreatePayment`, `PaymentIdempotencyKeys.keyFor` and `release`; the key lives as long as the content of the form and the dialog do |
| `SubmitByHand` | `POST /finance/payments/` from any other client, with a key and a payload of its choice |
| `LockAccount`, `FindOriginal`, `Replay` | `PaymentIdempotencyService.record_payment` up to `_find_original` and `_replay` |
| `CheckPeriod` | `_acquire_period_locks` (shared) and `_check_periods_open`; also any refusal by the targets |
| `Advance` | `SQLAlchemyCacheGenerationRepository.advance`: an upsert that locks the generation row |
| `FlushKey` | the key is flushed inside the savepoint: the unique index finds a payment another student's request committed under it |
| `Answer`, `Commit`, `CommitFails` | the route returns and its answer goes out; `get_db_session` commits behind its `yield`, or the commit fails and nobody is told |
| `Abort` | a lock timeout, a lost connection or a crash before the answer: rolled back, then answered as an error or not at all |
| `RequestClosing`, `LockMonth`, `SetStatus` | `close_period`, `reopen_period` with the exclusive lock |
| `Ask`, `Hit`, `Look`, `TakeLease`, `WithoutLease`, `Compute`, `Publish`, `Release`, `RedisForgets` | `get_analytics`, `AnalyticsCacheService.get_or_compute` with its Lua scripts; every Redis command may fail, lease and value may lapse |

`generation` is read by `Ask`, moved by `Advance` and visible at the commit. A report reads the ledger by several
queries, each at its own moment; two stand for them (`first`, `second`). `wanted`, `acked`, `unsure`, `told` and `undone` are
history: `told` are the requests a clerk has a success of and that are not committed yet, `undone` counts the successes
whose commit then failed; a submission of the form counts as one more payment the clerk meant unless it repeats the content of
the last one, for which no success came back and whose dialog was not closed.

Abstractions: one date range and so one cache key per generation; the lease's time is `RedisForgets`; what
`can_publish` excludes (a report inside a transaction that changed the ledger) does not occur in the report
requests. The verification checkbox that the form demands after an unclear failure is left out: it makes the
clerk look before the retry, which only removes behaviours. The answer comes before the commit, as section 1 says; the
clerk may submit again, a report may be asked for and the month's closing may wait between the two.

### Run

`ledger_requests`: one clerk, two payments of two students into one month, two interchangeable transactions,
two reports, two submissions, one closing, one fault. Two payloads under one form give a kept key, a new key
and, by hand, one key on two students, where only the unique index decides; two reports and a payment in
between give a report that waits for, hits or outlives the figures of the other. `MaxSubmits`, `MaxClosings`,
`MaxFaults` are bounds; two of each did not fit the time of a run, and the proofs leave them open. Deadlock is off
because the bounds stop the system.

* `PaidOnce`: recorded at most as often as meant; acknowledged at most as often as recorded, but for the successes told
  before a commit that is still to come or has failed. That exception is real: a clerk told of a payment whose commit
  then fails has a form with a new key, and nothing tells him (the hazard at `core/deps.py:40`).
* `NothingEntersAClosedMonth`: at the commit of a payment its month is open, though it was checked long before.
* `ReportsAreCurrent`: every figure a report shows includes the payments committed before it was asked for.

No fairness and no liveness: waits end with the transactions they wait for, or by PostgreSQL's timeouts.

### Proofs

`LedgerRequests_proofs.tla` proves all properties of the run from `RequestConstants`, for any clerks, students,
months, requests and reports.

* `TypeCorrect`, with `Counted`: entries are numbered by the generation, so as many were committed as it says.
* `ClosedMonthsStayClosed` needs `HeldMonthsStayOpen`: a transaction that holds the shared lock of a month and
  has passed the check sees it open until its end, because the closing transaction waits for it.
* `ReportsCurrent` needs `FiguresAreFresh`: all figures, those in the cache included, are at least as new as the
  generation of the key they are or will be under; the generation read by a report is at least as new as what was
  committed before.
* `PaymentsOnce` counts. A key of a clerk stands for a payload the clerk meant (`Meant`: recorded, in a request, or
  in the form); there are at most `wanted` such keys (`MeantCovers`), each records one entry (`KeysAreUnique`), and every
  acknowledgement belongs to an entry whose key the form has left behind, to a request in `told` or to one counted in
  `undone` (`AcksAreSettled`); a request in `told` is at its commit, under a key no form has (`AnsweredIsLetGo`), and
  there is one at a time, since it holds the generation (`ToldAlone`).

## 6. Sessions: `AuthSessions`

### State and actions

One user. `tokens` are the rows of `refresh_tokens`: family, status (`active`, `rotated`, `revoked`; `pending` before
its commit, which only the browser that was handed the token knows of; `void` when that commit failed), whether the
reuse grace still runs (`fresh`), and, as history, the `auth_version` they were issued under. `request` are the
transactions of the backend, statement by statement; a row a transaction has updated is locked until it ends
(`takes`). `store` is the refresh token in `localStorage`, `tab` what each tab remembers of its refresh.

| Action | Code |
|---|---|
| `LockUser`, `Rotate`, `Grace`, `CheckFamily`, `EndFamily`, `Issue` | `AuthSessionService.refresh`: `get_by_id_for_update`, `rotate_valid_token`, `_family_within_grace`, the family's revocation that the route commits before it refuses, the new token, whose answer goes out |
| `Commit`, `CommitFails` | `get_db_session` behind its `yield`, after the answer |
| `Rotate`, `ListFamily`, `RevokeFamily` | `logout`, without the lock of the user; the rows `revoke_family` changes are those its statement saw when it began |
| `ReplacePassword`, `Login`, `SignInUndone` | `set_password`, `change_password`, `password_reset_confirm`, `login`; the same when the commit behind the answer fails |
| `Start`, `Enter`, `Asks`, `Persist`, `Refused` | `RefreshCoordinator`: Web Lock or lease in `localStorage`, the other tab's message, the exchange, the check before storing, the one retry |
| `Apply`, `Clear` | `setAuthenticated` after the lock is released, which stores again; the interceptor's `tokenStorage.clear()` after a definitive rejection |
| `Logout`, `Leave` | `useLogout` |
| `Lose`, `Abort`, `Lapse` | a closed tab or lost answer; a transaction rolled back before its answer; the end of the grace of a rotated token |

A refresh is answered before its commit: `Persist` may store the pending token, and a tab may ask with it again, while
the commit is under way; that request then waits for the lock of the user. Sign-ins are one action each: they hold the
user's row too (`auth_service.py:73`, `:203`, `:234`, `:373`), so a refresh waits for their commit, and what can come in
between is only a logout with the token. `SignInUndone` is a sign-in whose commit fails behind the answer. The
revocation by a logout is answered before its commit as well; `RevokeFamily` then frees the request and `Leave` does not
wait for it, so the browser may forget its token before or after.

Left out: access tokens and their deny list (it fails open), expiry and purge of refresh tokens after 30 days,
tokens of before families existed, deleted users. `Lapse` may come at any time to a token that some tab or request
still holds, and the session counts as ended, because the code then treats the token as stolen; the grace of a token
that nobody holds, or will hold again, does not matter.

### Run

`auth_sessions`: two interchangeable tabs and requests, four tokens, one logout or new password, one fault. Two tabs
with one exchange each, a retry and a lost answer need three tokens; the fourth is a new session that an old
exchange may run into. No fairness: nothing obliges a tab to refresh.

* `SessionIsKept`: unless the user ended the session, its token lapsed while held, or the commit behind a token that
  was handed out failed, the stored token can be exchanged, or can be once the commit under way is done. The last
  exception is real: the backend has never had such a token, refuses it, and the browser is logged out (the hazard at
  `core/deps.py:40`). A failed commit whose token reached nobody ends nothing. It is not the newest token in every state, see below; what saves the session is that a rotated
  token is good for its grace as long as its family has an active one.
* `OnlyTheLastPassword`: every active token was issued after the last new password.

### What the model shows beyond the properties

* `apply` stores the tokens of a refresh a second time, after the lock is released (`authStore.ts:34`). It can put
  an older token over a newer login's or rotation's, or bring back a session another tab has cleared, which
  the check at `refreshCoordinator.ts:103` is there to prevent for the first store.
* A definitive rejection clears the store whatever is in it by then (`httpClient.ts:80`), also a new login.
* A refresh in its grace window can commit a token into a family after the statement of logout's `revoke_family`
  has begun (`auth_session_service.py:99`): the token outlives the logout.

### Proofs

`AuthSessions_proofs.tla` proves all three properties from `SessionConstants`, for any number of tabs, requests and
tokens.

* `OnlyTheLastPassword` is not inductive: the request that issues a token read the version when it locked the user,
  so the invariant adds that a request that holds the user has the current version (`HoldersAreCurrent`), which the
  exclusion of holders (`OneHolder`) and the wait of `ReplacePassword` for them keep.
* `SessionIsKept` needs `SessionInv`. In a session nobody has ended no row is revoked or stale and one is active
  (`Whole`): a refresh rotates a row only together with the commit of a successor of the same family, and only a logout,
  a reuse or a new password revokes. A pending row has its commit to come (`CommitToCome`), and a void one that anybody
  holds, asks with or is answered with belongs to a session that is over (`Real`). A request works on the family of its
  token, and one that is refused has found a session ended (`Fits`). So a tab clears the store only then, and it never stores nothing (`TabFits`).

## 7. The autosave queue: `JournalQueue`

### State and actions

One journal, its entries on the server (`server`: value, graded, version) and the browser's queue. `cell` is all the
browser has of an entry: the queue's record (`confirmed`, `graded`, `ver`, `draft`, `sent`), its
conflict, the rejection of the cell, and the entry in the query cache that the grid shows (`shown`). `request` is the
batch under way with its answer, `late` the batches the browser has given up and the backend may still serve, `fetch`
the GETs, `queue` the owner's flags, `task` where `drain`, `retryManual` and `discardUnsettled` wait.

JavaScript runs one piece of code at a time; an action is what runs from one event or `await` to the next. Marks,
timers and answers come in between. An `await` that continues when a flush is over is an action of its own, which the
model may also run later than the browser would.

| Action | Code |
|---|---|
| `Edit` | `applyEntryCommand` and `editEntry`: `stageEntry`, the write to the cache, `schedule` |
| `FlushDue`, `ClaimBatch` | `flush` from a timer or a hidden page; a round of `runCycles` up to its `await` |
| `AbsorbBatch`, `AbsorbClash`, `AbsorbRefusal`, `AbsorbError` | `absorbBatchResponse` with `absorbAppliedEntry` and `absorbRejectedEntry`; `absorbEntryFailure`; `settleCycle` |
| `KeepMine`, `KeepTheirs` | `resolveConflict` |
| `Retry`, `Drain`, `Discard` and their `...Step`s | `retryManual`, `drain`, `discardUnsettled` |
| `FetchReads`, `FetchArrives`, `FetchFails`, `PageRefetch` | `refetchAuthoritative`, `reconcileWithServer`, `reapplyLocalWork` on a refetch of the page |
| `Serve`, `ServeLate`, `Fail`, `LoseAnswer` | the route `batch_update_entries` (`api/v1/journals.py:44`): `JournalService.batch_update_entries` in a `JournalCommandTransaction`, committed before the answer; requests refused, failed in the database, lost, or served after the browser gave up |
| `Others` | other people: another mark, an entry that goes, a cell closed or opened, the right to write |

A value stands for attendance, score and comment; `Sanitized` is `sanitize_html`, which makes the stored comment
differ from the one sent. Left out: exam and bonus summaries, which go through the same steps with one request each;
the sums in the answers; `dispose` and the registry of queues; the timers of "saved" marks.

`Serve` stores and answers in one step, other than the requests of sections 5 and 6. The route runs the service inside
`async with JournalCommandTransaction(db)`, whose `__aexit__` commits (`journal_transaction.py:26`) before the route
returns, and so before the answer; when that commit fails the answer is a 409 or an error (`Fail`). The commit of
`get_db_session` after the answer then has nothing left to do. An answer "applied" is never followed by a rollback.

Timers are not state: a page that becomes hidden flushes whenever it does (`JournalQueueRegistry.ts:157`), so a
pending debounce or retry timer allows nothing more. `failed` of a record and `halted` only change what is displayed.

History: `wish` is the mentor's newest mark until the backend has held it or he has taken it back (a mark that an
older answer or GET still to come in shows as stored already is left out, `TakenForStored`), `told` the last answer of `drain`, `base` in a record the version the work on a cell was made over, or a newer one the mentor was shown in a conflict he
settled or his mark turned out to equal.

### Run

`journal_queue`: two interchangeable cells, three values (blank, a comment that is sanitized, its sanitized form), three
acts of the mentor, one of other people, one fault, one GET at a time, one retry. Three acts give a mark, a newer
mark while the first is in flight, and a drain, retry or discard; two cells give a batch with a partial conflict.
`BatchLimit` is 2, so the limit of 250 entries itself is not reached; a batch is any subset of the ready cells of
the right size, and the cells beyond it would wait as cells marked later do. `MaxActs`, `MaxForeign`, `MaxFaults` are
bounds, and deadlock is off because of them.

* `EditsAreKept`: until the backend has held it or the mentor took it back, a mark is the newest work on its cell.
* `AcknowledgedIsStored`: when `drain` says "acknowledged" and the page is left, the backend has held every mark that
  was not taken back: since it was made or, for a mark that is `TakenForStored`, before it. In that case somebody else may
  have changed the entry since, the mark is dropped, and `drain` says "acknowledged" all the same.
* `NoBlindOverwrite`: a batch changes an entry only over the version its mark was made over or was shown against.
* `GridShowsTheMark`: the cache, whoever writes it, shows the newest mark of a cell.

No liveness: without a further event the code need not send a draft (a halted queue, a closed cell), see below.

### What the model shows beyond the properties

Found by TLC while the properties were being stated; each is in `PROJECT.json` as a hazard.

* A refetch nobody waits for (`JournalQueueSender.ts:415`) or a retry's, read before a mark and arriving after it, drops a
  mark that equals the old value: `reconcileWithServer` takes it for stored. `areEqual` ignores `is_graded`, so an explicit
  zero or absence on an ungraded cell is dropped too. `TakenForStored` leaves these
  marks out of `EditsAreKept` and `AcknowledgedIsStored`.
* `keepTheirs`, or a reconcile that drops an equal draft, raises a record's version while an older mark of the cell is in
  flight (`JournalQueueReconciler.ts:48`, `:131`). If that batch then fails, `restoreInFlightEntry` makes the older mark the
  draft at the new version, and it overwrites what the mentor chose.
* A conflict clears the debounce for all drafts (`JournalQueueSender.ts:306`); when a reconcile resolves it, nothing
  schedules the other drafts. They wait for the next mark, drain or hidden page.
* A late reconcile resets `uncertain`, and a discard after it reverts to a state that may be stale.
* `batch_update_entries` answers a mark that changes nothing without raising the version.

### Proofs

`JournalQueue_proofs.tla` proves all five properties of the run from `QueueConstants`, for any cells, values, GETs, batch
limit and bounds. The inductive invariant `IInv`, checked by TLC on the run's instance first, has these parts:

* `BackendInv`, `RequestInv`, `FetchInv`, `OwnerInv`, `CountInv`: types, and that whatever the backend has stored, an
  answer or a GET shows is sanitized. `FlightInv`: what is in flight is in the batch under way.
* `CellInv`: a record with work is live, its work stands on the record's own version (`base = ver`), and the cache shows
  the newest work. `GridShowsTheMark` and `NoBlindOverwrite` follow: a batch carries the version of its record.
* `WishInv`: a mark the backend never held (`Unmet`) is the newest work on its cell. `EditsAreKept` says only the latter,
  and is not inductive: an answer or a GET drops a draft equal to what it shows. `Unanswered` and `Unread` say that none
  under way shows an unheld mark.

Each operation on one record (`Staged`, `Claimed`, `AbsorbedApplied`, `AbsorbedRejected`, `Reconciled`, ...) has a lemma
that it keeps a record `Good`; the lemmas about actions cite them. `AcknowledgedIsStored` follows as `drain`
acknowledges only when no cell has work.

## 8. Not modelled, and why

* The notification log, debt reminders by Telegram, and the storage cleanup claim rows under a lease and a token and
  settle under the same condition: the protocol that sections 2 and 4 check where more depends on it. What is their
  own (revisions of a notification, the delivery switch, references to objects) is listed as hazards where it bites.
* Rate limits, lockouts, Telegram codes and verification codes decide in one Redis script or one conditional UPDATE each.
* Credit allocations repeat the idempotency of payments on their own table.
* Exam and bonus summaries repeat the steps of entries in the autosave queue; the stored sums are aggregates of rows.
* Read models, dashboards, the audit log, HTTP parsing and the pages hold no protocol of their own. Deployment and
  backup scripts drive external tools; most script files of the repository (`frontend/scripts`, `.github/skills`) are
  tooling for screenshots and agents and no part of the system.

## 9. What could come next

In order: the notification log with its revisions and the Telegram debt reminders; storage intents (a referenced object
is never deleted, an unreferenced one eventually is); the lockouts with in-flight attempts; the stored sums of a
journal under two batches of one student; summaries in `JournalQueue`.
