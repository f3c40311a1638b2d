--------------------------- MODULE LedgerRequests ---------------------------
(***************************************************************************)
(* Requests that meet in the ledger: payments of the payment form and of   *)
(* other clients, each with an idempotency key; the closing of accounting  *)
(* months; and analytics reports with their shared cache.                  *)
(*                                                                         *)
(* A request is one PostgreSQL transaction (READ COMMITTED), and a step of *)
(* it ends where it can wait for a lock or where another one can come in   *)
(* between.  What a payment does to charges and balances is the subject of *)
(* FinanceLedger.                                                          *)
(***************************************************************************)
EXTENDS Integers, FiniteSets

CONSTANTS
  Clerk,       \* people who record payments (recorded_by_id)
  Payload,     \* contents of a payment: student, targets, amount, date, ...
  Student, Month,
  StudentOf, MonthOf,
  Tx,          \* payment requests the backend may run together
  Report,      \* analytics requests
  None,
  MaxSubmits,  \* bound: payment requests
  MaxClosings, \* bound: closings and reopenings
  MaxFaults    \* bound: aborts, lost answers, Redis errors, lapsed leases and keys

ASSUME RequestConstants ==
  /\ StudentOf \in [Payload -> Student] /\ MonthOf \in [Payload -> Month]
  /\ None \notin Payload \cup Tx \cup Month
  /\ IsFiniteSet(Report)
  /\ MaxSubmits \in Nat /\ MaxClosings \in Nat /\ MaxFaults \in Nat

VARIABLES
  form,       \* the payment form of a clerk: signature, key, the request it waits for
  tx,         \* the payment transactions
  entries,    \* ledger_entries: the committed payments, by order of commit
  generation, \* cache_generations: the committed generation of the analytics
  period,     \* accounting_periods: the status of each month
  closing,    \* the transaction that closes or reopens a month
  report,     \* the analytics requests
  leases,     \* lease keys in Redis: a generation and the owner's token
  cached,     \* figures in Redis, under the generation of their key
  wanted,     \* ghost: how many times a clerk meant to record a payload
  acked,      \* ghost: how many times the clerk was told that it is recorded
  unsure,     \* ghost: the payload whose last request the clerk has no success of
  told,       \* ghost: requests a clerk was told a success of, not committed yet
  undone,     \* ghost: how many successes a clerk was told whose commit then failed
  submits, closings, faults

payments == <<form, tx, entries, generation>>
months == <<period, closing>>
analytics == <<report, leases, cached>>
ghosts == <<wanted, acked, unsure, told, undone>>
counts == <<submits, closings, faults>>
vars == <<payments, months, analytics, ghosts, counts>>

Empty == [signature |-> None, key |-> 0, waits |-> None]
Idle == [stage |-> "idle", clerk |-> None, key |-> 0, payload |-> None]
NoClosing == [stage |-> "idle", month |-> None, to |-> "open"]
NoReport == [stage |-> "idle", mode |-> "alone", gen |-> 0, floor |-> 0, first |-> 0,
             second |-> 0]

Init ==
  /\ form = [k \in Clerk |-> Empty] /\ tx = [t \in Tx |-> Idle]
  /\ entries = {} /\ generation = 0
  /\ period \in [Month -> {"absent", "closed"}] /\ closing = NoClosing
  /\ report = [r \in Report |-> NoReport] /\ leases = {} /\ cached = {}
  /\ wanted = [k \in Clerk |-> [p \in Payload |-> 0]]
  /\ acked = [k \in Clerk |-> [p \in Payload |-> 0]]
  /\ unsure = [k \in Clerk |-> None]
  /\ told = {} /\ undone = [k \in Clerk |-> [p \in Payload |-> 0]]
  /\ submits = 0 /\ closings = 0 /\ faults = 0

Fault == faults < MaxFaults /\ faults' = faults + 1

-----------------------------------------------------------------------------
(* The payment form.                                                       *)

\* Mutant: every submission gets a key of its own.
NewKeyFor(f, p) == submits + 1

\* keyFor: the key stays while the content of the form does.
KeyFor(f, p) == IF f.key # 0 /\ f.signature = p THEN f.key ELSE submits + 1

\* handleSubmit; one request at a time.
Submit(k, p, t) ==
  /\ form[k].waits = None /\ tx[t] = Idle /\ submits < MaxSubmits
  /\ submits' = submits + 1
  /\ form' = [form EXCEPT ![k] = [signature |-> p, key |-> KeyFor(form[k], p), waits |-> t]]
  /\ tx' = [tx EXCEPT ![t] = [stage |-> "lock", clerk |-> k, key |-> KeyFor(form[k], p),
                              payload |-> p]]
  /\ wanted' = IF unsure[k] = p THEN wanted ELSE [wanted EXCEPT ![k][p] = @ + 1]
  /\ unsure' = [unsure EXCEPT ![k] = p]
  /\ UNCHANGED <<entries, generation, months, analytics, acked, told, undone, closings, faults>>

\* Another client of the API: it sends the key it likes with what it likes.
SubmitByHand(k, p, key, t) ==
  /\ tx[t] = Idle /\ submits < MaxSubmits
  /\ submits' = submits + 1
  /\ tx' = [tx EXCEPT ![t] = [stage |-> "lock", clerk |-> k, key |-> key, payload |-> p]]
  /\ wanted' = [wanted EXCEPT ![k][p] = @ + 1]
  /\ UNCHANGED <<form, entries, generation, months, analytics, acked, unsure, told, undone,
                 closings, faults>>

\* The answer does not reach the form; the backend goes on.
LoseAnswer(k) ==
  /\ form[k].waits # None /\ Fault
  /\ form' = [form EXCEPT ![k].waits = None]
  /\ UNCHANGED <<tx, entries, generation, months, analytics, ghosts, submits, closings>>

\* The dialog is closed and its keys with it.
CloseForm(k) ==
  /\ form[k] # Empty /\ form[k].waits = None
  /\ form' = [form EXCEPT ![k] = Empty]
  /\ unsure' = [unsure EXCEPT ![k] = None]
  /\ UNCHANGED <<tx, entries, generation, months, analytics, wanted, acked, told, undone,
                 counts>>

\* The form learns how t ended: release of the key and the dialog after a
\* success, the key kept for a retry after anything else.
Learns(t, success) ==
  LET k == tx[t].clerk IN
  /\ IF form[k].waits # t THEN UNCHANGED <<form, acked, unsure>>
     ELSE IF success
     THEN /\ form' = [form EXCEPT ![k] = Empty]
          /\ acked' = [acked EXCEPT ![k][tx[t].payload] = @ + 1]
          /\ unsure' = [unsure EXCEPT ![k] = None]
     ELSE /\ form' = [form EXCEPT ![k].waits = None]
          /\ UNCHANGED <<acked, unsure>>
  /\ UNCHANGED wanted

\* The answer of a transaction that has written nothing: an error rolls back
\* before it is answered, and a replay has nothing to commit.
Answered(t, success) ==
  /\ Learns(t, success)
  /\ tx' = [tx EXCEPT ![t] = Idle]
  /\ UNCHANGED <<told, undone>>

-----------------------------------------------------------------------------
(* record_payment and create_payment.                                      *)

HoldsAccount(t) == tx[t].stage \in {"find", "period", "advance", "flush", "answer", "commit"}
HoldsMonth(t) == tx[t].stage \in {"advance", "flush", "answer", "commit"}
HoldsGeneration(t) == tx[t].stage \in {"flush", "answer", "commit"}

\* Mutant: the student's account is read without FOR UPDATE.
NeverWaits(t) == TRUE

AccountIsFree(t) ==
  \A u \in Tx : HoldsAccount(u) => StudentOf[tx[u].payload] # StudentOf[tx[t].payload]

Goes(t, from, to) ==
  /\ tx[t].stage = from
  /\ tx' = [tx EXCEPT ![t].stage = to]
  /\ UNCHANGED <<form, entries, generation, months, analytics, ghosts, counts>>

Recorded(k, key) == {e \in entries : e.clerk = k /\ e.key = key}

\* _replay of the payment the key was used for.
Replay(t, original) ==
  /\ Answered(t, original.payload = tx[t].payload)
  /\ UNCHANGED <<entries, generation, months, analytics, counts>>

\* lock_student_accounts
LockAccount(t) == tx[t].stage = "lock" /\ AccountIsFree(t) /\ Goes(t, "lock", "find")

FindOriginal(t) ==
  \/ /\ tx[t].stage = "find"
     /\ \E e \in Recorded(tx[t].clerk, tx[t].key) : Replay(t, e)
  \/ /\ Recorded(tx[t].clerk, tx[t].key) = {}
     /\ Goes(t, "find", "period")

Refuse(t) ==
  /\ Answered(t, FALSE)
  /\ UNCHANGED <<entries, generation, months, analytics, counts>>

\* _acquire_period_locks, shared, and then _check_periods_open; a payment is
\* also refused for a target that is no more, or for more than is owed.
CheckPeriod(t) ==
  /\ tx[t].stage = "period"
  /\ closing.stage = "held" => closing.month # MonthOf[tx[t].payload]
  /\ \/ period[MonthOf[tx[t].payload]] # "closed" /\ Goes(t, "period", "advance")
     \/ Refuse(t)

\* advance: its upsert locks the generation until the transaction ends.
Advance(t) ==
  /\ \A u \in Tx : ~HoldsGeneration(u)
  /\ Goes(t, "advance", "flush")

\* The key is written; another student's payment may have used it since.
FlushKey(t) ==
  /\ tx[t].stage = "flush"
  /\ \/ \E e \in Recorded(tx[t].clerk, tx[t].key) : Replay(t, e)
     \/ /\ Recorded(tx[t].clerk, tx[t].key) = {}
        /\ Goes(t, "flush", "answer")

\* create_payment has returned, and its answer goes out before get_db_session
\* goes on behind its yield, to the commit: the order of the FastAPI release that
\* requirements.lock pins.
Answer(t) ==
  /\ tx[t].stage = "answer"
  /\ tx' = [tx EXCEPT ![t].stage = "commit"]
  /\ Learns(t, TRUE)
  /\ told' = IF form[tx[t].clerk].waits = t THEN told \cup {t} ELSE told
  /\ UNCHANGED <<entries, generation, months, analytics, undone, counts>>

Commit(t) ==
  /\ tx[t].stage = "commit"
  /\ entries' = entries \cup {[id |-> generation + 1, clerk |-> tx[t].clerk, key |-> tx[t].key,
                               payload |-> tx[t].payload]}
  /\ generation' = generation + 1
  /\ tx' = [tx EXCEPT ![t] = Idle]
  /\ told' = told \ {t}
  /\ UNCHANGED <<form, months, analytics, wanted, acked, unsure, undone, counts>>

\* The commit fails behind the answer, and the transaction rolls back.
CommitFails(t) ==
  /\ tx[t].stage = "commit" /\ Fault
  /\ tx' = [tx EXCEPT ![t] = Idle]
  /\ told' = told \ {t}
  /\ undone' = IF t \in told THEN [undone EXCEPT ![tx[t].clerk][tx[t].payload] = @ + 1]
               ELSE undone
  /\ UNCHANGED <<form, entries, generation, months, analytics, wanted, acked, unsure, submits,
                 closings>>

\* A lock timeout, a lost connection or a crash before the answer: the
\* transaction rolls back.
Abort(t) ==
  /\ tx[t].stage \notin {"idle", "commit"} /\ Fault
  /\ Answered(t, FALSE)
  /\ UNCHANGED <<entries, generation, months, analytics, submits, closings>>

-----------------------------------------------------------------------------
(* close_period and reopen_period.                                         *)

RequestClosing(m, to) ==
  /\ closing = NoClosing /\ closings < MaxClosings
  /\ closings' = closings + 1
  /\ closing' = [stage |-> "lock", month |-> m, to |-> to]
  /\ UNCHANGED <<payments, period, analytics, ghosts, submits, faults>>

\* Mutant: the month is closed under payments that have checked it already.
AnyMonth(m) == TRUE

NobodyHolds(m) == \A t \in Tx : HoldsMonth(t) => MonthOf[tx[t].payload] # m

\* _acquire_period_locks, exclusive.
LockMonth ==
  /\ closing.stage = "lock" /\ NobodyHolds(closing.month)
  /\ closing' = [closing EXCEPT !.stage = "held"]
  /\ UNCHANGED <<payments, period, analytics, ghosts, counts>>

\* A month that was never closed has no row, and is not found when reopened.
SetStatus ==
  /\ closing.stage = "held"
  /\ period' = IF closing.to = "open" /\ period[closing.month] = "absent" THEN period
               ELSE [period EXCEPT ![closing.month] = closing.to]
  /\ closing' = NoClosing
  /\ UNCHANGED <<payments, analytics, ghosts, counts>>

-----------------------------------------------------------------------------
(* get_analytics and AnalyticsCacheService.                                *)

\* Figures come from many queries; two stand for them.  The ledger only grows,
\* so a query is known by how many entries it saw.
Seen == Cardinality(entries)

\* read_committed_generation
Ask(r) ==
  /\ report[r] = NoReport
  /\ report' = [report EXCEPT ![r] = [NoReport EXCEPT !.stage = "get", !.gen = generation,
                                                       !.floor = Seen]]
  /\ UNCHANGED <<payments, months, leases, cached, ghosts, counts>>

ReportStep(r, from, to, mode) ==
  /\ report[r].stage = from
  /\ report' = [report EXCEPT ![r].stage = to, ![r].mode = mode]
  /\ UNCHANGED <<payments, months, leases, cached, ghosts, submits, closings>>

\* Mutant: the key is made from the generation there is when it is used.
CurrentKey(r) == generation

CacheKey(r) == report[r].gen

InCache(r) == {x \in cached : x.gen = CacheKey(r)}

\* A hit ends the request; an owner releases its lease first.
Hit(r) ==
  /\ report[r].stage \in {"get", "again"}
  /\ \E x \in InCache(r) :
       report' = [report EXCEPT ![r].stage = IF @ = "again" THEN "release" ELSE "done",
                                ![r].first = x.first, ![r].second = x.second]
  /\ UNCHANGED <<payments, months, leases, cached, ghosts, counts>>

\* A miss; or GET fails, and the figures are not shared.
Look(r) ==
  \/ InCache(r) = {} /\ ReportStep(r, "get", "lease", "alone") /\ UNCHANGED faults
  \/ InCache(r) = {} /\ ReportStep(r, "again", "first", "owner") /\ UNCHANGED faults
  \/ ReportStep(r, "get", "first", "alone") /\ Fault
  \/ ReportStep(r, "again", "first", "quiet") /\ Fault

LeaseOf(r) == [gen |-> report[r].gen, owner |-> r]

Leased(r) == \E x \in leases : x.gen = report[r].gen

TakeLease(r) ==
  /\ report[r].stage = "lease" /\ ~Leased(r)
  /\ leases' = leases \cup {LeaseOf(r)}
  /\ \/ report' = [report EXCEPT ![r].stage = "again"] /\ UNCHANGED faults
     \/ report' = [report EXCEPT ![r].stage = "first"] /\ Fault
  /\ UNCHANGED <<payments, months, cached, ghosts, submits, closings>>

\* Another look after a while; at the deadline or on an error figures of its own.
WithoutLease(r) ==
  \/ /\ Leased(r) /\ UNCHANGED faults
     /\ ReportStep(r, "lease", "get", "alone") \/ ReportStep(r, "lease", "first", "alone")
  \/ ReportStep(r, "lease", "first", "alone") /\ Fault

AfterCompute(r) ==
  CASE report[r].mode = "alone" -> "done"
    [] report[r].mode = "quiet" -> "release"
    [] report[r].mode = "owner" -> "publish"

Compute(r) ==
  /\ \/ /\ report[r].stage = "first"
        /\ report' = [report EXCEPT ![r].stage = "second", ![r].first = Seen]
     \/ /\ report[r].stage = "second"
        /\ report' = [report EXCEPT ![r].stage = AfterCompute(r), ![r].second = Seen]
  /\ UNCHANGED <<payments, months, leases, cached, ghosts, counts>>

\* PUBLISH_SCRIPT: only while the lease is still the report's; an error is let be.
Publish(r) ==
  \/ /\ report[r].stage = "publish"
     /\ cached' = IF LeaseOf(r) \notin leases THEN cached
                  ELSE {x \in cached : x.gen # CacheKey(r)}
                       \cup {[gen |-> CacheKey(r), first |-> report[r].first,
                              second |-> report[r].second]}
     /\ report' = [report EXCEPT ![r].stage = "release"]
     /\ UNCHANGED <<payments, months, leases, ghosts, counts>>
  \/ ReportStep(r, "publish", "release", "owner") /\ Fault

\* RELEASE_SCRIPT
Release(r) ==
  /\ report[r].stage = "release"
  /\ report' = [report EXCEPT ![r].stage = "done"]
  /\ \/ leases' = leases \ {LeaseOf(r)} /\ UNCHANGED faults
     \/ UNCHANGED leases /\ Fault
  /\ UNCHANGED <<payments, months, cached, ghosts, submits, closings>>

\* A lease or a key lapses, or Redis starts anew.
RedisForgets ==
  /\ Fault
  /\ \/ \E x \in leases : leases' = leases \ {x} /\ UNCHANGED cached
     \/ \E x \in cached : cached' = cached \ {x} /\ UNCHANGED leases
  /\ UNCHANGED <<payments, months, report, ghosts, submits, closings>>

-----------------------------------------------------------------------------
Forms ==
  \/ \E k \in Clerk, p \in Payload, t \in Tx :
       Submit(k, p, t) \/ \E key \in 1 .. submits : SubmitByHand(k, p, key, t)
  \/ \E k \in Clerk : LoseAnswer(k) \/ CloseForm(k)

Payments ==
  \E t \in Tx : \/ LockAccount(t) \/ FindOriginal(t) \/ CheckPeriod(t)
                \/ Advance(t) \/ FlushKey(t) \/ Answer(t) \/ Commit(t)
                \/ CommitFails(t) \/ Abort(t)

Closings ==
  \/ \E m \in Month, to \in {"open", "closed"} : RequestClosing(m, to)
  \/ LockMonth \/ SetStatus

Reports ==
  \E r \in Report : \/ Ask(r) \/ Hit(r) \/ Look(r) \/ TakeLease(r) \/ WithoutLease(r)
                    \/ Compute(r) \/ Publish(r) \/ Release(r)

Next == Forms \/ Payments \/ Closings \/ Reports \/ RedisForgets

Spec == Init /\ [][Next]_vars

-----------------------------------------------------------------------------
(* Properties.                                                             *)

Entry == [id : Nat, clerk : Clerk, key : Nat, payload : Payload]

FormsTyped ==
  /\ form \in [Clerk -> [signature : Payload \cup {None}, key : Nat, waits : Tx \cup {None}]]
  /\ wanted \in [Clerk -> [Payload -> Nat]] /\ acked \in [Clerk -> [Payload -> Nat]]
  /\ unsure \in [Clerk -> Payload \cup {None}]
  /\ told \subseteq Tx /\ undone \in [Clerk -> [Payload -> Nat]]

Stages == {"idle", "lock", "find", "period", "advance", "flush", "answer", "commit"}

PaymentsTyped ==
  /\ tx \in [Tx -> [stage : Stages, clerk : Clerk \cup {None}, key : Nat,
                     payload : Payload \cup {None}]]
  /\ \A t \in Tx : \/ tx[t] = Idle
                  \/ /\ tx[t].stage # "idle"
                     /\ tx[t].clerk \in Clerk /\ tx[t].payload \in Payload

LedgerTyped ==
  /\ entries \subseteq Entry /\ generation \in Nat
  /\ period \in [Month -> {"absent", "open", "closed"}]
  /\ closing \in [stage : {"idle", "lock", "held"}, month : Month \cup {None},
                  to : {"open", "closed"}]
  /\ closing.stage # "idle" => closing.month \in Month
  /\ submits \in 0 .. MaxSubmits /\ closings \in 0 .. MaxClosings
  /\ faults \in 0 .. MaxFaults

ReportsTyped ==
  /\ report \in [Report -> [stage : {"idle", "get", "lease", "again", "first", "second",
                                     "publish", "release", "done"},
                            mode : {"alone", "quiet", "owner"}, gen : Nat, floor : Nat,
                            first : Nat, second : Nat]]
  /\ leases \subseteq [gen : Nat, owner : Report]
  /\ cached \subseteq [gen : Nat, first : Nat, second : Nat]

\* Two payments of one student are never together between lock_student_accounts
\* and the end of their transactions, nor two that have moved the generation.
LocksExclude ==
  \A t, u \in Tx :
    t # u => /\ ~(HoldsGeneration(t) /\ HoldsGeneration(u))
             /\ HoldsAccount(t) /\ HoldsAccount(u) =>
                  StudentOf[tx[t].payload] # StudentOf[tx[u].payload]

\* The types, and what the row locks exclude.
TypeOK == FormsTyped /\ PaymentsTyped /\ LedgerTyped /\ ReportsTyped /\ LocksExclude

PaymentsOf(k, p) == {e \in entries : e.clerk = k /\ e.payload = p}

Told(k, p) == {t \in told : tx[t].clerk = k /\ tx[t].payload = p}

\* A payment is recorded once, however often the form sent it again because an
\* answer was lost (PaymentIdempotencyKeys, record_payment): no more often than
\* the clerk meant it, and as often as he was told so, but for the successes he
\* was told before the commit (get_db_session commits behind its yield, after
\* the answer): one that is not committed yet, and those whose commit failed.
\* Each of these stands for one payment only, and each other one is recorded.
PaidOnce ==
  \A k \in Clerk, p \in Payload :
    LET paid == Cardinality(PaymentsOf(k, p)) IN
    /\ acked[k][p] <= paid + Cardinality(Told(k, p)) + undone[k][p]
    /\ paid <= wanted[k][p]

\* No payment is committed into a month that is closed at that moment, although
\* its transaction has read the month's status long before.
NothingEntersAClosedMonth ==
  [][\A e \in entries' \ entries : period[MonthOf[e.payload]] # "closed"]_vars

\* A report shows every payment committed before it was asked for, whether its
\* figures are its own or were computed earlier by another one.
ReportsAreCurrent ==
  \A r \in Report : report[r].stage \in {"release", "done"} =>
    report[r].first >= report[r].floor /\ report[r].second >= report[r].floor

=============================================================================
