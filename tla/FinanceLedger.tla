---------------------------- MODULE FinanceLedger ----------------------------
(***************************************************************************)
(* One student's account: the charges of the enrollments, the immutable    *)
(* ledger entries, and the allocations that say which credit settles which *)
(* charge.  Every operation locks the student's row first, so an operation *)
(* is one action.                                                          *)
(*                                                                         *)
(* Money is an integer.  A day is half a month: day 2k is the first of     *)
(* month k, day 2k + 1 lies within it; course months begin on even days.   *)
(* An entry keeps the month it occurred in; entries of one month are       *)
(* ordered by id.  Ids are positions: 0 is no id.                          *)
(***************************************************************************)
EXTENDS Integers, Sequences, FiniteSetsExt, SequencesExt

CONSTANTS
  Enrollment,   \* enrollments of the student, one per course
  Months,       \* months of a course
  Price,        \* price_at_enrollment
  FirstDay,     \* today at first
  LastDay,      \* bound on today
  Closable,     \* months somebody may close
  MaxAmount,    \* bound on the amounts operations are asked for
  MaxEntries,   \* bound on ledger_entries
  MaxCharges    \* bound on charges

ASSUME LedgerConstants ==
  /\ IsFiniteSet(Enrollment) /\ Months \in Nat \ {0} /\ Price \in Nat \ {0}
  /\ FirstDay \in Nat /\ LastDay \in Nat /\ FirstDay <= LastDay
  /\ MaxAmount \in Nat /\ MaxEntries \in Nat /\ MaxCharges \in Nat

VARIABLES
  today,
  enrollment,   \* status, billing mode and day of enrollment
  charge,       \* charges, by id
  entry,        \* ledger_entries, by id
  alloc,        \* allocations, by id; by is reversed_by_entry_id
  closed,       \* months whose accounting period is closed
  beforeGrant   \* history: months that were billed before today's conversion to a grant

vars == <<today, enrollment, charge, entry, alloc, closed, beforeGrant>>

ThisMonth == today \div 2
AccountingMonths == FirstDay \div 2 .. LastDay \div 2

Init ==
  /\ today = FirstDay
  /\ enrollment = [e \in Enrollment |-> [status |-> "none", mode |-> "paid", since |-> 0]]
  /\ charge = <<>> /\ entry = <<>> /\ alloc = <<>>
  /\ closed = {}
  /\ beforeGrant = [e \in Enrollment |-> {}]

-----------------------------------------------------------------------------
(* Balances: every one is a sum over rows.                                 *)

Amount(rows, Counts(_)) ==
  SumFunction([i \in {j \in DOMAIN rows : Counts(rows[j])} |-> rows[i].amount])

Least(a, b) == IF a < b THEN a ELSE b

\* The elements of a finite set, Before by Before: each at its rank.
Ordered(S, Before(_, _)) ==
  [k \in 1 .. Cardinality(S) |-> CHOOSE x \in S : Cardinality({y \in S : Before(y, x)}) = k - 1]

AllocatedTo(rows, c) == Amount(rows, LAMBDA r : r.charge = c /\ r.by = 0)
Remaining(c) == charge[c].amount - AllocatedTo(alloc, c)

IsCredit(e) == entry[e].type \in {"payment", "adjustment"}
IsVoided(e) == \E v \in DOMAIN entry : entry[v].type = "void" /\ entry[v].reverses = e

\* An adjustment stays spent when a withdrawal reverses its allocation.
Consumes(r) ==
  \/ r.by = 0
  \/ entry[r.entry].type = "adjustment" /\ entry[r.by].type = "withdrawal"

Consumed(e) == Amount(alloc, LAMBDA r : r.entry = e /\ Consumes(r))
Refunds(e) == Amount(entry, LAMBDA r : r.type = "refund" /\ r.reverses = e)
CashOut(e) == Amount(entry, LAMBDA r : r.type = "refund" /\ r.reverses = e /\ r.cash)
Available(e) == entry[e].amount - Consumed(e) - CashOut(e)

Credits == {e \in DOMAIN entry : IsCredit(e) /\ ~IsVoided(e)}

\* get_unallocated_credit, before max(0, ...): three sums over the whole account.
RawWallet ==
  SumFunction([e \in Credits |-> entry[e].amount])
  - Amount(entry, LAMBDA r : r.type = "refund" /\ r.cash)
  - Amount(alloc, LAMBDA r : r.entry \in Credits /\ Consumes(r))
Wallet == IF RawWallet > 0 THEN RawWallet ELSE 0

-----------------------------------------------------------------------------
(* The schedule.                                                           *)

Billed(enr) == 1 .. Months - enrollment[enr].since \div 2
Start(enr, seq) == 2 * (enrollment[enr].since \div 2 + seq - 1)
ChargeStart(c) == Start(charge[c].enr, charge[c].seq)

ChargesOf(enr, statuses) ==
  {c \in DOMAIN charge : charge[c].enr = enr /\ charge[c].status \in statuses}
Live(enr) == {charge[c].seq : c \in ChargesOf(enr, {"open", "settled"})}

\* Mutants: the month under way, and the month that begins today, on the wrong side.
FutureOrUnderWay(enr) == {c \in ChargesOf(enr, {"open", "settled"}) : ChargeStart(c) >= today - 1}
FutureAfterToday(enr) == {c \in ChargesOf(enr, {"open", "settled"}) : ChargeStart(c) > today}

\* What a withdrawal or a grant takes back: months not begun before today.
Future(enr) == {c \in ChargesOf(enr, {"open", "settled"}) : ChargeStart(c) >= today}

\* due_date, sequence_no, id; the due date of a charge lies in its month.
InDueOrder(cs) ==
  Ordered(cs, LAMBDA c, d :
    \/ ChargeStart(c) < ChargeStart(d)
    \/ ChargeStart(c) = ChargeStart(d) /\ charge[c].seq < charge[d].seq
    \/ ChargeStart(c) = ChargeStart(d) /\ charge[c].seq = charge[d].seq /\ c < d)

NewCharges(enr, seqs) ==
  LET order == Ordered(seqs, <)
  IN [i \in DOMAIN order |-> [enr |-> enr, seq |-> order[i], amount |-> Price, status |-> "open"]]

\* _recompute_charge_status, on the charges an operation touched.
Recomputed(charges, rows, touched) ==
  [c \in DOMAIN charges |->
    IF c \in touched /\ charges[c].status # "cancelled"
    THEN [charges[c] EXCEPT !.status =
            IF AllocatedTo(rows, c) >= charges[c].amount THEN "settled" ELSE "open"]
    ELSE charges[c]]

-----------------------------------------------------------------------------
(* Applying credit and un-applying it.                                     *)

Row(e, c, n) == [entry |-> e, charge |-> c, amount |-> n, by |-> 0]
NoTargets == [enr \in {} |-> 0]
Entry(type, n, month) ==
  [type |-> type, amount |-> n, at |-> month, reverses |-> 0, cash |-> FALSE, targets |-> NoTargets]

ChargesIn(rows) == {rows[i].charge : i \in DOMAIN rows}

\* Sources in turn, each over the charges in turn; Portion(made, s, c) of what s
\* has left goes to c once made is written.
Pour(sources, order, Portion(_, _, _)) ==
  LET pairs == FlattenSeq([i \in DOMAIN sources |-> [j \in DOMAIN order |-> <<sources[i], order[j]>>]])
      Give(made, p) == LET n == Portion(made, p[1], p[2])
                       IN IF n > 0 THEN Append(made, Row(p[1].entry, p[2], n)) ELSE made
  IN FoldLeft(Give, <<>>, pairs)

LeftOf(s, made) == s.left - Amount(made, LAMBDA r : r.entry = s.entry)
Needed(c, made) == Remaining(c) - Amount(made, LAMBDA r : r.charge = c)

\* Mutant: what other sources gave the charge is forgotten.
SweepForgettingSettled(sources, order, limit) ==
  Pour(sources, order, LAMBDA made, s, c :
    Least(Least(LeftOf(s, made), limit - Amount(made, LAMBDA r : TRUE)), Remaining(c)))

\* Mutant: the limit is compared with each row and not with their sum.
SweepLimitPerRow(sources, order, limit) ==
  Pour(sources, order, LAMBDA made, s, c : Least(Least(LeftOf(s, made), limit), Needed(c, made)))

\* _apply_credit: oldest credit first, oldest charge first, limit in all.
Sweep(sources, order, limit) ==
  Pour(sources, order, LAMBDA made, s, c :
    Least(Least(LeftOf(s, made), limit - Amount(made, LAMBDA r : TRUE)), Needed(c, made)))

\* The student's credit, oldest first.
Sources ==
  LET order == Ordered(Credits, LAMBDA d, e :
                 entry[d].at < entry[e].at \/ (entry[d].at = entry[e].at /\ d < e))
  IN [i \in DOMAIN order |-> [entry |-> order[i], left |-> Available(order[i])]]

\* A payment settles the open charges of its targets, oldest first across them.
PaymentRows(p, n, targets) ==
  Pour(<<[entry |-> p, left |-> n]>>,
       InDueOrder(UNION {ChargesOf(enr, {"open"}) : enr \in DOMAIN targets}),
       LAMBDA made, s, c :
         Least(targets[charge[c].enr]
                 - Amount(made, LAMBDA r : charge[r.charge].enr = charge[c].enr),
               Needed(c, made)))

\* Mutants: the untouched part is lost; a row reversed in full leaves one of nothing.
NoSurvivor(e, row, left) == <<>>
AlwaysSurvivor(e, row, left) == <<Row(e, row.charge, row.amount - left)>>

\* What is written again of a row that is reversed in part.
Survivor(e, row, left) ==
  IF row.amount > left THEN <<Row(e, row.charge, row.amount - left)>> ELSE <<>>

\* _reverse_allocations: newest first, every row it reaches is stamped in full.
Unapply(e, n, by) ==
  LET newest == Ordered({i \in DOMAIN alloc : alloc[i].entry = e /\ alloc[i].by = 0}, >)
      Stamp(acc, i) ==
        IF acc.left = 0 THEN acc
        ELSE [rows |-> [acc.rows EXCEPT ![i].by = by] \o Survivor(e, alloc[i], acc.left),
              left |-> acc.left - Least(acc.left, alloc[i].amount)]
  IN FoldLeft(Stamp, [rows |-> alloc, left |-> n], newest).rows

Open(month) == month \notin closed
NextEntry == Len(entry) + 1
HasRoom(n) == Len(entry) + n <= MaxEntries

-----------------------------------------------------------------------------
(* Enrollments.                                                            *)

Enroll(enr, mode) ==
  /\ enrollment[enr].status = "none"
  /\ today < 2 * Months
  /\ enrollment' = [enrollment EXCEPT ![enr] = [status |-> "active", mode |-> mode, since |-> today]]
  /\ LET new == [seq \in 1 .. (IF mode = "grant" THEN 0 ELSE Months - ThisMonth) |->
                   [enr |-> enr, seq |-> seq, amount |-> Price, status |-> "open"]]
     IN /\ Len(charge) + Len(new) <= MaxCharges
        /\ charge' = charge \o new
  /\ UNCHANGED <<today, entry, alloc, closed, beforeGrant>>

\* The months not begun are cancelled and what was allocated to them is
\* un-applied by an entry of its own, whatever period is closed.
Withdraw(enr) ==
  LET gone == Future(enr)
      freed == {i \in DOMAIN alloc : alloc[i].by = 0 /\ alloc[i].charge \in gone}
  IN
  /\ enrollment[enr].status = "active"
  /\ IF freed = {} THEN UNCHANGED <<entry, alloc>>
     ELSE /\ HasRoom(1)
          /\ entry' = Append(entry, Entry("withdrawal", SumFunction([i \in freed |-> alloc[i].amount]), ThisMonth))
          /\ alloc' = [i \in DOMAIN alloc |->
                         IF i \in freed THEN [alloc[i] EXCEPT !.by = NextEntry] ELSE alloc[i]]
  /\ charge' = [c \in DOMAIN charge |->
                  IF c \in gone THEN [charge[c] EXCEPT !.status = "cancelled"] ELSE charge[c]]
  /\ enrollment' = [enrollment EXCEPT ![enr].status = "withdrawn"]
  /\ UNCHANGED <<today, closed, beforeGrant>>

\* Months not begun are cancelled when nothing was paid on them; the remainder
\* of a partly paid one is written off by a discount, which needs an open period.
ToGrant(enr) ==
  LET paid == {c \in Future(enr) : AllocatedTo(alloc, c) > 0}
      partly == Ordered({c \in paid : Remaining(c) > 0}, <)
      discounts == [i \in DOMAIN partly |-> Entry("discount", Remaining(partly[i]), ThisMonth)]
      rows == [i \in DOMAIN partly |-> Row(Len(entry) + i, partly[i], Remaining(partly[i]))]
  IN
  /\ enrollment[enr].status = "active" /\ enrollment[enr].mode = "paid"
  /\ partly # <<>> => Open(ThisMonth) /\ HasRoom(Len(partly))
  /\ \A c \in Range(partly) : charge[c].status = "open"
  /\ entry' = entry \o discounts
  /\ alloc' = alloc \o rows
  /\ charge' = [c \in DOMAIN charge |->
                  IF c \in Future(enr) \ paid THEN [charge[c] EXCEPT !.status = "cancelled"]
                  ELSE Recomputed(charge, alloc \o rows, Range(partly))[c]]
  /\ enrollment' = [enrollment EXCEPT ![enr].mode = "grant"]
  /\ beforeGrant' = [beforeGrant EXCEPT ![enr] = Live(enr)]
  /\ UNCHANGED <<today, closed>>

\* Mutant: billing resumes for every month to come.
ToPaidAnew(enr) ==
  LET new == NewCharges(enr, {seq \in Billed(enr) : Start(enr, seq) > today})
  IN
  /\ enrollment[enr].status = "active" /\ enrollment[enr].mode = "grant"
  /\ Len(charge) + Len(new) <= MaxCharges
  /\ charge' = charge \o new
  /\ enrollment' = [enrollment EXCEPT ![enr].mode = "paid"]
  /\ beforeGrant' = [beforeGrant EXCEPT ![enr] = {}]
  /\ UNCHANGED <<today, entry, alloc, closed>>

ToPaid(enr) ==
  LET new == NewCharges(enr, {seq \in Billed(enr) \ Live(enr) : Start(enr, seq) > today})
  IN
  /\ enrollment[enr].status = "active" /\ enrollment[enr].mode = "grant"
  /\ Len(charge) + Len(new) <= MaxCharges
  /\ charge' = charge \o new
  /\ enrollment' = [enrollment EXCEPT ![enr].mode = "paid"]
  /\ beforeGrant' = [beforeGrant EXCEPT ![enr] = {}]
  /\ UNCHANGED <<today, entry, alloc, closed>>

-----------------------------------------------------------------------------
(* Money.                                                                  *)

\* The operation writes one entry and new rows, and touches their charges.
Record(new, rows) ==
  /\ HasRoom(1)
  /\ entry' = Append(entry, new)
  /\ alloc' = alloc \o rows
  /\ charge' = Recomputed(charge, alloc \o rows, ChargesIn(rows))
  /\ UNCHANGED <<today, enrollment, closed, beforeGrant>>

\* Mutant: what was already paid of an open charge is not deducted.
OpenBalanceGross(enr) == SumFunction([c \in ChargesOf(enr, {"open"}) |-> charge[c].amount])

OpenBalance(enr) == SumFunction([c \in ChargesOf(enr, {"open"}) |-> Remaining(c)])

\* targets: what of the payment goes to each enrollment it names.
Pay(targets, month) ==
  LET n == SumFunction(targets)
  IN
  /\ month <= ThisMonth /\ Open(month)
  /\ \A enr \in DOMAIN targets :
       /\ enrollment[enr].status \in {"active", "withdrawn"}
       /\ targets[enr] <= OpenBalance(enr)
  /\ Record([Entry("payment", n, month) EXCEPT !.targets = targets], PaymentRows(NextEntry, n, targets))

Discount(c, n, month) ==
  /\ month <= ThisMonth /\ Open(month)
  /\ charge[c].status = "open"
  /\ n <= Remaining(c)
  /\ Record(Entry("discount", n, month), Sweep(<<[entry |-> NextEntry, left |-> n]>>, <<c>>, n))

Adjust(n, month) ==
  /\ month <= ThisMonth /\ Open(month)
  /\ Record(Entry("adjustment", n, month), <<>>)

\* A void or a refund un-applies n of payment p.
TakeBack(type, p, n, cash) ==
  LET rows == Unapply(p, n, NextEntry)
      touched == {rows[i].charge : i \in {j \in DOMAIN alloc : rows[j].by = NextEntry}}
  IN
  /\ HasRoom(1)
  /\ entry' = Append(entry, [Entry(type, n, ThisMonth) EXCEPT !.reverses = p, !.cash = cash])
  /\ alloc' = rows
  /\ charge' = Recomputed(charge, rows, touched)
  /\ UNCHANGED <<today, enrollment, closed, beforeGrant>>

\* Mutant: a refunded payment can be voided.
VoidableThoughRefunded(p) == entry[p].type = "payment" /\ ~IsVoided(p)

Voidable(p) == entry[p].type = "payment" /\ ~IsVoided(p) /\ Refunds(p) = 0

\* Mutant: only the period the entry is written in must be open.
VoidToday(p) ==
  /\ Voidable(p)
  /\ Open(ThisMonth)
  /\ TakeBack("void", p, entry[p].amount, FALSE)

Void(p) ==
  /\ Voidable(p)
  /\ Open(entry[p].at) /\ Open(ThisMonth)
  /\ TakeBack("void", p, entry[p].amount, FALSE)

\* Mutant: earlier refunds are forgotten.
RefundableIgnoringEarlier(p, n) == entry[p].type = "payment" /\ ~IsVoided(p) /\ n <= entry[p].amount

Refundable(p, n) == entry[p].type = "payment" /\ ~IsVoided(p) /\ n <= entry[p].amount - Refunds(p)

\* cash: the money leaves the centre; otherwise it returns to the wallet.
Refund(p, n, cash) ==
  /\ Refundable(p, n)
  /\ Open(entry[p].at) /\ Open(ThisMonth)
  /\ TakeBack("refund", p, n, cash)

\* Wallet credit, oldest first, goes to the charges in order.
Allocate(order, n) ==
  LET rows == Sweep(Sources, order, n)
  IN
  /\ alloc' = alloc \o rows
  /\ charge' = Recomputed(charge, alloc \o rows, ChargesIn(rows))
  /\ UNCHANGED <<today, enrollment, entry, closed, beforeGrant>>

\* allocate_course_credit
AllocateToCourse(enr, n) ==
  LET due == ChargesOf(enr, {"open", "settled"})
  IN
  /\ n <= Wallet
  /\ n <= SumFunction([c \in due |-> Remaining(c)])
  /\ Allocate(InDueOrder(due), n)

\* allocate_credit
AllocateToCharge(c, n) ==
  /\ charge[c].status # "cancelled"
  /\ n <= Wallet
  /\ n <= Remaining(c)
  /\ Allocate(<<c>>, n)

-----------------------------------------------------------------------------

ClosePeriod(month) ==
  /\ closed' = closed \cup {month}
  /\ UNCHANGED <<today, enrollment, charge, entry, alloc, beforeGrant>>

ReopenPeriod(month) ==
  /\ month \in closed
  /\ closed' = closed \ {month}
  /\ UNCHANGED <<today, enrollment, charge, entry, alloc, beforeGrant>>

Tick ==
  /\ today < LastDay
  /\ today' = today + 1
  /\ beforeGrant' = [enr \in Enrollment |-> {}]
  /\ UNCHANGED <<enrollment, charge, entry, alloc, closed>>

Sums == 1 .. MaxAmount
Targets == UNION {[enrs -> Sums] : enrs \in (SUBSET Enrollment) \ {{}}}

Next ==
  \/ \E enr \in Enrollment :
       \/ \E mode \in {"paid", "grant"} : Enroll(enr, mode)
       \/ Withdraw(enr) \/ ToGrant(enr) \/ ToPaid(enr)
       \/ \E n \in Sums : AllocateToCourse(enr, n)
  \/ \E targets \in Targets, month \in AccountingMonths : Pay(targets, month)
  \/ \E n \in Sums, month \in AccountingMonths :
       Adjust(n, month) \/ \E c \in DOMAIN charge : Discount(c, n, month)
  \/ \E p \in DOMAIN entry : Void(p) \/ \E n \in Sums, cash \in BOOLEAN : Refund(p, n, cash)
  \/ \E c \in DOMAIN charge, n \in Sums : AllocateToCharge(c, n)
  \/ \E month \in Closable : ClosePeriod(month) \/ ReopenPeriod(month)
  \/ Tick

Spec == Init /\ [][Next]_vars

-----------------------------------------------------------------------------
(* Properties.                                                             *)

Ids(seq) == 0 .. Len(seq)
Positive == Nat \ {0}

\* Types and the check constraints of the tables: amounts are positive, ids refer
\* to rows that exist.
TypeOK ==
  /\ today \in 0 .. LastDay
  /\ enrollment \in [Enrollment -> [status : {"none", "active", "withdrawn"},
                                    mode : {"paid", "grant"}, since : 0 .. LastDay]]
  /\ \A c \in DOMAIN charge :
       charge[c] \in [enr : Enrollment, seq : 1 .. Months, amount : {Price},
                      status : {"open", "settled", "cancelled"}]
  /\ \A e \in DOMAIN entry :
       entry[e] \in [type : {"payment", "discount", "adjustment", "refund", "void", "withdrawal"},
                     amount : Positive, at : AccountingMonths, reverses : Ids(entry),
                     cash : BOOLEAN, targets : {NoTargets} \cup Targets]
  /\ \A i \in DOMAIN alloc :
       alloc[i] \in [entry : 1 .. Len(entry), charge : 1 .. Len(charge), amount : Positive, by : Ids(entry)]
  /\ closed \subseteq Closable

\* No money is used twice: what an entry has settled and what was paid back of it
\* never exceed it, however it was voided, refunded and re-allocated.
NoEntryOverspent ==
  \A e \in DOMAIN entry :
    entry[e].type \in {"payment", "adjustment", "discount"} =>
      /\ Available(e) >= 0
      /\ Refunds(e) <= entry[e].amount

\* The stored status is the one the allocations imply, whichever operation changed
\* them last; a charge is never over-allocated and a cancelled one holds no money.
ChargeStatusAgrees ==
  \A c \in DOMAIN charge :
    /\ Remaining(c) >= 0
    /\ charge[c].status = "cancelled" => AllocatedTo(alloc, c) = 0
    /\ charge[c].status # "cancelled" => (charge[c].status = "settled" <=> Remaining(c) = 0)

\* The wallet's three account-wide sums are the credit that is left on the single
\* entries, so what get_unallocated_credit promises can be allocated.
WalletIsExact == RawWallet = SumFunction([e \in Credits |-> Available(e)])

\* uq_charges_active_tuition_installment: no month is billed twice, through any
\* sequence of grants, resumptions and withdrawals.
OneLiveInstallment ==
  \A c, d \in DOMAIN charge :
    /\ charge[c].status # "cancelled" /\ charge[d].status # "cancelled"
    /\ charge[c].enr = charge[d].enr /\ charge[c].seq = charge[d].seq
    => c = d

New == Len(entry) + 1 .. Len(entry')  \* the entries a step writes
Applied(e) == Amount(alloc, LAMBDA r : r.entry = e /\ r.by = 0)
DebtOf(enr) == SumFunction([c \in ChargesOf(enr, {"open", "settled"}) |-> Remaining(c)])

\* A payment reduces the debt of each target by the target's amount, to the unit,
\* and leaves the wallet alone.
PaymentLandsOnTargets ==
  [][\A p \in New : entry'[p].type = "payment" =>
       /\ Wallet' = Wallet
       /\ \A enr \in Enrollment :
            LET targets == entry'[p].targets
            IN DebtOf(enr)' = DebtOf(enr) - (IF enr \in DOMAIN targets THEN targets[enr] ELSE 0)]_vars

\* The amount an allocation answers and audits is the amount the wallet loses and
\* the debt loses.
CreditLandsInFull ==
  [][entry' = entry /\ alloc' # alloc =>
       \A n \in Sums : \A enr \in Enrollment :
         (AllocateToCourse(enr, n) \/ \E c \in ChargesOf(enr, {"open"}) : AllocateToCharge(c, n)) =>
           Wallet' = Wallet - n /\ DebtOf(enr)' = DebtOf(enr) - n]_vars

\* A void un-applies all of a payment, a refund as much of what was applied as it
\* refunds: the rest survives, and only a cash refund takes money out.
ReversalsAreExact ==
  [][\A r \in New, p \in DOMAIN entry : entry'[r].reverses = p =>
       LET n == Least(entry'[r].amount, Applied(p)) IN
       /\ entry'[r].type = "void" => Applied(p)' = 0 /\ RawWallet' = RawWallet - Available(p)
       /\ entry'[r].type = "refund" =>
            /\ Applied(p)' = Applied(p) - n
            /\ RawWallet' = RawWallet + n - (IF entry'[r].cash THEN entry'[r].amount ELSE 0)]_vars

\* Nothing is entered into a closed month and no allocation of an entry of a
\* closed month is un-applied; a withdrawal alone does both.
ClosedMonthsAreSealed ==
  [][/\ \A e \in New :
          entry'[e].at \in closed => entry'[e].type = "withdrawal"
     /\ \A i \in DOMAIN alloc :
          alloc'[i].by # alloc[i].by /\ entry[alloc[i].entry].at \in closed =>
            entry'[alloc'[i].by].type = "withdrawal"]_vars

Begun(enr) == {c \in ChargesOf(enr, {"open", "settled"}) : ChargeStart(c) < today}
KeepsBegun(enr) ==
  \A c \in Begun(enr) : charge'[c] = charge[c] /\ AllocatedTo(alloc', c) = AllocatedTo(alloc, c)

\* A withdrawal returns to the wallet what payments had settled of the months not
\* begun, and changes nothing of the months begun.
WithdrawalReturnsPayments ==
  [][\A enr \in Enrollment : enrollment[enr].status # "withdrawn" /\ enrollment'[enr].status = "withdrawn" =>
       /\ KeepsBegun(enr)
       /\ Wallet' = Wallet + Amount(alloc, LAMBDA r :
            /\ r.by = 0 /\ entry[r.entry].type = "payment"
            /\ charge[r.charge].enr = enr /\ ChargeStart(r.charge) >= today)]_vars

BecomesGrant(enr) ==
  enrollment[enr] # enrollment'[enr] /\ enrollment'[enr] = [enrollment[enr] EXCEPT !.mode = "grant"]

\* The day an enrollment becomes a grant, no month not begun owes anything, and
\* no credit has moved to make it so.
GrantClearsTheFuture ==
  [][\A enr \in Enrollment : BecomesGrant(enr) =>
       /\ KeepsBegun(enr)
       /\ Wallet' = Wallet
       /\ \A c \in ChargesOf(enr, {"open", "settled"}) \ Begun(enr) :
            charge'[c].status = "cancelled" \/ Remaining(c)' = 0]_vars

-----------------------------------------------------------------------------
(* What the repository says of itself and the code does not do.            *)

\* models/allocation.py: "Only rows with reversed_by_entry_id IS NULL count toward
\* balances."
OnlyUnreversedRowsCount ==
  \A e \in Credits : Available(e) = entry[e].amount - Applied(e) - CashOut(e)

\* test_finance_p4_transitions.py: paid to grant and back, on one day, bills every
\* month that was billed before.
RoundTripRestoresMonths ==
  [][\A enr \in Enrollment : ToPaid(enr) => beforeGrant[enr] \subseteq Live(enr)']_vars

=============================================================================
