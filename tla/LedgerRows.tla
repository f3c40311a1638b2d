----------------------------- MODULE LedgerRows -----------------------------
(***************************************************************************)
(* The balances of FinanceLedger as what is taken by rows of a kind, and   *)
(* what its loops write: Sweep (_apply_credit), PaymentRows and Unapply    *)
(* (_reverse_allocations).                                                 *)
(***************************************************************************)
EXTENDS FinanceLedger, LedgerSums

-----------------------------------------------------------------------------
(* Types.                                                                  *)

EntryTypes == {"payment", "discount", "adjustment", "refund", "void", "withdrawal"}
EnrollmentRec == [status : {"none", "active", "withdrawn"}, mode : {"paid", "grant"}, since : 0 .. LastDay]
ChargeRec == [enr : Enrollment, seq : 1 .. Months, amount : {Price}, status : {"open", "settled", "cancelled"}]
EntryRec == [type : EntryTypes, amount : Positive, at : AccountingMonths, reverses : Nat,
             cash : BOOLEAN, targets : {NoTargets} \cup Targets]
AllocRec == [entry : Nat, charge : Nat, amount : Positive, by : Nat]

\* The tables, typed; references are numbers.
Tables(ch, en, al) == ch \in Seq(ChargeRec) /\ en \in Seq(EntryRec) /\ al \in Seq(AllocRec)

\* References are to rows that exist.
References(ch, en, al) ==
  /\ \A e \in 1 .. Len(en) : en[e].reverses <= Len(en)
  /\ \A i \in 1 .. Len(al) : /\ al[i].entry \in 1 .. Len(en) /\ al[i].charge \in 1 .. Len(ch)
                             /\ al[i].by <= Len(en)

Calendar ==
  /\ today \in FirstDay .. LastDay
  /\ enrollment \in [Enrollment -> EnrollmentRec]
  /\ closed \subseteq Closable

-----------------------------------------------------------------------------
(* Kinds of rows, and the balances as what is taken by rows of a kind.     *)

OfEntry(e) == {r \in AllocRec : r.entry = e}
OnCharge(c) == {r \in AllocRec : r.charge = c}
LiveOf(e) == {r \in AllocRec : r.entry = e /\ r.by = 0}
LiveOn(c) == {r \in AllocRec : r.charge = c /\ r.by = 0}

\* Consumes and IsVoided, said of a ledger en.
ConsumesIn(en, r) == r.by = 0 \/ (en[r.entry].type = "adjustment" /\ en[r.by].type = "withdrawal")
VoidedIn(en, e) == \E v \in DOMAIN en : en[v].type = "void" /\ en[v].reverses = e
CreditsIn(en) == {e \in DOMAIN en : en[e].type \in {"payment", "adjustment"} /\ ~VoidedIn(en, e)}

SpentOf(en, e) == {r \in AllocRec : r.entry = e /\ ConsumesIn(en, r)}
SpentBy(en, E) == {r \in AllocRec : r.entry \in E /\ ConsumesIn(en, r)}
RefundOf(e) == {r \in EntryRec : r.type = "refund" /\ r.reverses = e}
CashOf(e) == {r \in EntryRec : r.type = "refund" /\ r.reverses = e /\ r.cash}
AnyCash == {r \in EntryRec : r.type = "refund" /\ r.cash}

\* Allocations and entries carry an amount.
LEMMA RowTypes == HaveAmounts(AllocRec) /\ HaveAmounts(EntryRec)
BY DEF HaveAmounts, AllocRec, EntryRec, Positive

\* A sum over the rows that pass a test, as what a kind of rows takes.
LEMMA AllocationSums ==
  ASSUME NEW al \in Seq(AllocRec)
  PROVE  /\ \A e : Amount(al, LAMBDA r : r.entry = e) = Taken(al, OfEntry(e))
         /\ \A c : Amount(al, LAMBDA r : r.charge = c) = Taken(al, OnCharge(c))
         /\ Amount(al, LAMBDA r : TRUE) = Taken(al, AllocRec)
         /\ \A c : AllocatedTo(al, c) = Taken(al, LiveOn(c))
         /\ \A e : Amount(al, LAMBDA r : r.entry = e /\ r.by = 0) = Taken(al, LiveOf(e))
<1>1. \A j \in DOMAIN al : al[j] \in AllocRec
  OBVIOUS
<1>2. \A e : {j \in DOMAIN al : al[j].entry = e} = {j \in DOMAIN al : al[j] \in OfEntry(e)}
  BY <1>1 DEF OfEntry
<1>3. \A c : {j \in DOMAIN al : al[j].charge = c} = {j \in DOMAIN al : al[j] \in OnCharge(c)}
  BY <1>1 DEF OnCharge
<1>4. {j \in DOMAIN al : TRUE} = {j \in DOMAIN al : al[j] \in AllocRec}
  BY <1>1
<1>5. \A c : {j \in DOMAIN al : al[j].charge = c /\ al[j].by = 0} = {j \in DOMAIN al : al[j] \in LiveOn(c)}
  BY <1>1 DEF LiveOn
<1>6. \A e : {j \in DOMAIN al : al[j].entry = e /\ al[j].by = 0} = {j \in DOMAIN al : al[j] \in LiveOf(e)}
  BY <1>1 DEF LiveOf
<1> QED BY <1>2, <1>3, <1>4, <1>5, <1>6 DEF Taken, Amount, AllocatedTo

\* The balances of the ledger.
BalanceKinds ==
  /\ \A e : Consumed(e) = Taken(alloc, SpentOf(entry, e))
  /\ \A e : Applied(e) = Taken(alloc, LiveOf(e))
  /\ \A e : Refunds(e) = Taken(entry, RefundOf(e))
  /\ \A e : CashOut(e) = Taken(entry, CashOf(e))
  /\ \A e : Available(e) = entry[e].amount - Taken(alloc, SpentOf(entry, e)) - Taken(entry, CashOf(e))
  /\ \A c : Remaining(c) = charge[c].amount - Taken(alloc, LiveOn(c))
  /\ Credits = CreditsIn(entry)
  /\ RawWallet = SumFunction([e \in CreditsIn(entry) |-> entry[e].amount]) - Taken(entry, AnyCash)
                   - Taken(alloc, SpentBy(entry, CreditsIn(entry)))

\* Each balance of the ledger is what is taken by its kind of rows.
LEMMA Balances == Tables(charge, entry, alloc) => BalanceKinds
<1> SUFFICES ASSUME Tables(charge, entry, alloc) PROVE BalanceKinds
  OBVIOUS
<1>1. alloc \in Seq(AllocRec) /\ \A j \in DOMAIN alloc : alloc[j] \in AllocRec
  BY DEF Tables
<1>2. \A j \in DOMAIN entry : entry[j] \in EntryRec
  BY DEF Tables
<1>3. \A e : {j \in DOMAIN alloc : alloc[j].entry = e /\ Consumes(alloc[j])}
             = {j \in DOMAIN alloc : alloc[j] \in SpentOf(entry, e)}
  BY <1>1 DEF SpentOf, Consumes, ConsumesIn
<1>4. {j \in DOMAIN alloc : alloc[j].entry \in Credits /\ Consumes(alloc[j])}
      = {j \in DOMAIN alloc : alloc[j] \in SpentBy(entry, Credits)}
  BY <1>1 DEF SpentBy, Consumes, ConsumesIn
<1>5. \A e : {j \in DOMAIN entry : entry[j].type = "refund" /\ entry[j].reverses = e}
             = {j \in DOMAIN entry : entry[j] \in RefundOf(e)}
  BY <1>2 DEF RefundOf
<1>6. \A e : {j \in DOMAIN entry : entry[j].type = "refund" /\ entry[j].reverses = e /\ entry[j].cash}
             = {j \in DOMAIN entry : entry[j] \in CashOf(e)}
  BY <1>2 DEF CashOf
<1>7. {j \in DOMAIN entry : entry[j].type = "refund" /\ entry[j].cash} = {j \in DOMAIN entry : entry[j] \in AnyCash}
  BY <1>2 DEF AnyCash
<1>8. Credits = CreditsIn(entry)
  BY DEF Credits, CreditsIn, IsCredit, IsVoided, VoidedIn
<1>9. \A e : Consumed(e) = Taken(alloc, SpentOf(entry, e))
  BY <1>3 DEF Consumed, Amount, Taken
<1>10. \A e : Refunds(e) = Taken(entry, RefundOf(e))
  BY <1>5 DEF Refunds, Amount, Taken
<1>11. \A e : CashOut(e) = Taken(entry, CashOf(e))
  BY <1>6 DEF CashOut, Amount, Taken
<1>12. \A e : Applied(e) = Taken(alloc, LiveOf(e))
  BY <1>1, AllocationSums DEF Applied
<1>13. \A c : Remaining(c) = charge[c].amount - Taken(alloc, LiveOn(c))
  BY <1>1, AllocationSums DEF Remaining
<1>14. RawWallet = SumFunction([e \in Credits |-> entry[e].amount]) - Taken(entry, AnyCash)
                     - Taken(alloc, SpentBy(entry, Credits))
  BY <1>4, <1>7 DEF RawWallet, Amount, Taken
<1> QED BY <1>8, <1>9, <1>10, <1>11, <1>12, <1>13, <1>14 DEF BalanceKinds, Available

\* And so it is after a step.
LEMMA BalancesNext == Tables(charge, entry, alloc)' => BalanceKinds'
BY Balances, PTL
-----------------------------------------------------------------------------
(* The orders: an ordered set is a list of its elements, each once.        *)

Ascending(S) == Ordered(S, <)
Descending(S) == Ordered(S, >)
OldestFirst(S) ==
  Ordered(S, LAMBDA d, e : entry[d].at < entry[e].at \/ (entry[d].at = entry[e].at /\ d < e))

\* Numbers in ascending or descending order.
LEMMA NumbersOrdered ==
  ASSUME NEW S \in SUBSET Nat, IsFiniteSet(S)
  PROVE  Lists(Ascending(S), S) /\ Lists(Descending(S), S)
<1>1. Cardinality(S) \in Nat
  BY FS_CardinalityType
<1>3. Lists(Ascending(S), S)
  <2> DEFINE R == {p \in S \X S : p[1] < p[2]}
             s == Ascending(S)
  <2>1. \A x \in S : {y \in S : y < x} = Before(x, R, S)
    BY DEF Before
  <2>2. Ranked(s, R, S)
    <3>1. s = [k \in 1 .. Cardinality(S) |-> CHOOSE x \in S : Cardinality({y \in S : y < x}) = k - 1]
      BY DEF Ascending, Ordered
    <3>2. ASSUME NEW k \in 1 .. Cardinality(S), \E x \in S : Cardinality(Before(x, R, S)) = k - 1
        PROVE  s[k] \in S /\ Cardinality(Before(s[k], R, S)) = k - 1
      <4> HIDE DEF R
      <4>1. PICK x \in S : Cardinality({y \in S : y < x}) = k - 1
        BY <2>1, <3>2
      <4>2. s[k] = CHOOSE z \in S : Cardinality({y \in S : y < z}) = k - 1
        BY <3>1
      <4> HIDE DEF s
      <4>3. s[k] \in S /\ Cardinality({y \in S : y < s[k]}) = k - 1
        BY <4>1, <4>2
      <4> QED BY <2>1, <4>3
    <3>3. s = [k \in 1 .. Cardinality(S) |-> s[k]]
      BY <3>1
    <3> HIDE DEF R, s
    <3> QED BY <3>2, <3>3 DEF Ranked
  <2>3. StrictOrder(R, S)
    BY DEF StrictOrder
  <2> HIDE DEF R, s
  <2> QED BY <2>2, <2>3, RankedLists DEF s
<1>4. Lists(Descending(S), S)
  <2> DEFINE R == {p \in S \X S : p[1] > p[2]}
             s == Descending(S)
  <2>1. \A x \in S : {y \in S : y > x} = Before(x, R, S)
    BY DEF Before
  <2>2. Ranked(s, R, S)
    <3>1. s = [k \in 1 .. Cardinality(S) |-> CHOOSE x \in S : Cardinality({y \in S : y > x}) = k - 1]
      BY DEF Descending, Ordered
    <3>2. ASSUME NEW k \in 1 .. Cardinality(S), \E x \in S : Cardinality(Before(x, R, S)) = k - 1
        PROVE  s[k] \in S /\ Cardinality(Before(s[k], R, S)) = k - 1
      <4> HIDE DEF R
      <4>1. PICK x \in S : Cardinality({y \in S : y > x}) = k - 1
        BY <2>1, <3>2
      <4>2. s[k] = CHOOSE z \in S : Cardinality({y \in S : y > z}) = k - 1
        BY <3>1
      <4> HIDE DEF s
      <4>3. s[k] \in S /\ Cardinality({y \in S : y > s[k]}) = k - 1
        BY <4>1, <4>2
      <4> QED BY <2>1, <4>3
    <3>3. s = [k \in 1 .. Cardinality(S) |-> s[k]]
      BY <3>1
    <3> HIDE DEF R, s
    <3> QED BY <3>2, <3>3 DEF Ranked
  <2>3. StrictOrder(R, S)
    BY DEF StrictOrder
  <2> HIDE DEF R, s
  <2> QED BY <2>2, <2>3, RankedLists DEF s
<1> QED BY <1>3, <1>4

\* Entries by month and id, as the credit query of _apply_credit orders them.
LEMMA OldestFirstLists ==
  ASSUME Tables(charge, entry, alloc), NEW S \in SUBSET (1 .. Len(entry))
  PROVE  Lists(OldestFirst(S), S)
<1> DEFINE Lex(d, e) == entry[d].at < entry[e].at \/ (entry[d].at = entry[e].at /\ d < e)
           R == {p \in S \X S : Lex(p[1], p[2])}
           s == OldestFirst(S)
<1>1. IsFiniteSet(S)
  <2>1. Len(entry) \in Nat
    BY DEF Tables
  <2>2. IsFiniteSet(1 .. Len(entry))
    BY <2>1, FS_Interval
  <2> QED BY <2>2, FS_Subset
<1>2. \A x \in S : x \in Int /\ entry[x].at \in Int
  <2>1. \A x \in S : entry[x] \in EntryRec /\ x \in 1 .. Len(entry)
    BY DEF Tables
  <2>2. AccountingMonths \subseteq Int
    BY LedgerConstants DEF AccountingMonths
  <2> QED
    <3> SUFFICES ASSUME NEW x \in S PROVE x \in Int /\ entry[x].at \in Int
      OBVIOUS
    <3>1. entry[x].at \in AccountingMonths /\ x \in 1 .. Len(entry)
      BY <2>1 DEF EntryRec
    <3>2. x \in Int
      BY <3>1
    <3>3. entry[x].at \in Int
      BY <2>2, <3>1
    <3> QED BY <3>2, <3>3
<1>3. \A x \in S : {y \in S : Lex(y, x)} = Before(x, R, S)
  BY DEF Before
<1>4. Ranked(s, R, S)
  <2>1. s = [k \in 1 .. Cardinality(S) |-> CHOOSE x \in S : Cardinality({y \in S : Lex(y, x)}) = k - 1]
    BY DEF OldestFirst, Ordered
  <2>2. ASSUME NEW k \in 1 .. Cardinality(S), \E x \in S : Cardinality(Before(x, R, S)) = k - 1
      PROVE  s[k] \in S /\ Cardinality(Before(s[k], R, S)) = k - 1
    <3> HIDE DEF R
    <3>1. PICK x \in S : Cardinality({y \in S : Lex(y, x)}) = k - 1
      BY <1>3, <2>2
    <3>2. s[k] = CHOOSE z \in S : Cardinality({y \in S : Lex(y, z)}) = k - 1
      BY <2>1
    <3> HIDE DEF s
    <3>3. s[k] \in S /\ Cardinality({y \in S : Lex(y, s[k])}) = k - 1
      BY <3>1, <3>2
    <3> QED BY <1>3, <3>3
  <2>3. s = [k \in 1 .. Cardinality(S) |-> s[k]]
    BY <2>1
  <2> HIDE DEF R, s
  <2> QED BY <2>2, <2>3 DEF Ranked
<1>5. \A x, y \in S : <<x, y>> \in R <=> Lex(x, y)
  OBVIOUS
<1>6. StrictOrder(R, S)
  <2> HIDE DEF R
  <2> QED BY <1>2, <1>5, SMTT(30) DEF StrictOrder
<1> HIDE DEF R, s
<1> QED BY <1>1, <1>4, <1>6, RankedLists DEF s

\* The day a charge begins is a number.
LEMMA StartsAreDays ==
  ASSUME Tables(charge, entry, alloc), Calendar, NEW c \in 1 .. Len(charge)
  PROVE  charge[c] \in ChargeRec /\ charge[c].seq \in Int /\ ChargeStart(c) \in Int
<1>1. charge[c] \in ChargeRec
  BY DEF Tables
<1>2. charge[c].enr \in Enrollment /\ charge[c].seq \in Int
  BY <1>1, LedgerConstants DEF ChargeRec
<1>3. enrollment[charge[c].enr].since \in Int
  BY <1>2, LedgerConstants DEF Calendar, EnrollmentRec
<1> QED BY <1>1, <1>2, <1>3 DEF ChargeStart, Start

\* Charges by due date, sequence number and id (_open_charges).
LEMMA DueOrderLists ==
  ASSUME Tables(charge, entry, alloc), Calendar, NEW cs \in SUBSET (1 .. Len(charge))
  PROVE  Lists(InDueOrder(cs), cs)
<1> DEFINE Lex(c, d) == \/ ChargeStart(c) < ChargeStart(d)
                        \/ ChargeStart(c) = ChargeStart(d) /\ charge[c].seq < charge[d].seq
                        \/ ChargeStart(c) = ChargeStart(d) /\ charge[c].seq = charge[d].seq /\ c < d
           R == {p \in cs \X cs : Lex(p[1], p[2])}
           s == InDueOrder(cs)
<1>1. IsFiniteSet(cs)
  <2>1. Len(charge) \in Nat
    BY DEF Tables
  <2>2. IsFiniteSet(1 .. Len(charge))
    BY <2>1, FS_Interval
  <2> QED BY <2>2, FS_Subset
<1>2. \A x \in cs : x \in Int /\ charge[x].seq \in Int /\ ChargeStart(x) \in Int
  BY StartsAreDays
<1>3. \A x \in cs : {y \in cs : Lex(y, x)} = Before(x, R, cs)
  BY DEF Before
<1>4. Ranked(s, R, cs)
  <2>1. s = [k \in 1 .. Cardinality(cs) |-> CHOOSE x \in cs : Cardinality({y \in cs : Lex(y, x)}) = k - 1]
    BY DEF InDueOrder, Ordered
  <2>2. ASSUME NEW k \in 1 .. Cardinality(cs), \E x \in cs : Cardinality(Before(x, R, cs)) = k - 1
      PROVE  s[k] \in cs /\ Cardinality(Before(s[k], R, cs)) = k - 1
    <3> HIDE DEF R
    <3>1. PICK x \in cs : Cardinality({y \in cs : Lex(y, x)}) = k - 1
      BY <1>3, <2>2
    <3>2. s[k] = CHOOSE z \in cs : Cardinality({y \in cs : Lex(y, z)}) = k - 1
      BY <2>1
    <3> HIDE DEF s
    <3>3. s[k] \in cs /\ Cardinality({y \in cs : Lex(y, s[k])}) = k - 1
      BY <3>1, <3>2
    <3> QED BY <1>3, <3>3
  <2>3. s = [k \in 1 .. Cardinality(cs) |-> s[k]]
    BY <2>1
  <2> HIDE DEF R, s
  <2> QED BY <2>2, <2>3 DEF Ranked
<1>5. \A x, y \in cs : <<x, y>> \in R <=> Lex(x, y)
  OBVIOUS
<1>6. StrictOrder(R, cs)
  <2>1. \A x \in cs : ~Lex(x, x)
    BY <1>2
  <2>2. \A x, y, z \in cs : Lex(x, y) /\ Lex(y, z) => Lex(x, z)
    BY <1>2
  <2>3. \A x, y \in cs : x # y => Lex(x, y) \/ Lex(y, x)
    BY <1>2
  <2> HIDE DEF R, Lex
  <2> QED BY <1>5, <2>1, <2>2, <2>3 DEF StrictOrder
<1> HIDE DEF R, s
<1> QED BY <1>1, <1>4, <1>6, RankedLists DEF s

-----------------------------------------------------------------------------
(* Pour, one pair of a source and a charge after the other.                *)

SourceRec == [entry : Nat, left : Nat]
PairSet == SourceRec \X (1 .. Len(charge))

Pairs(sources, order) ==
  FlattenSeq([i \in DOMAIN sources |-> [j \in DOMAIN order |-> <<sources[i], order[j]>>]])

\* Every source meets every charge.
AllMeet(sources, order) ==
  \A i \in 1 .. Len(sources), j \in 1 .. Len(order) :
    \E k \in 1 .. Len(Pairs(sources, order)) : Pairs(sources, order)[k] = <<sources[i], order[j]>>

\* The pairs of a source and a charge, and that every source meets every charge.
LEMMA PairsCover ==
  ASSUME NEW S, NEW C, NEW sources \in Seq(S), NEW order \in Seq(C)
  PROVE  /\ Pairs(sources, order) \in Seq(S \X C)
         /\ AllMeet(sources, order)
<1> DEFINE line(i) == [j \in DOMAIN order |-> <<sources[i], order[j]>>]
           grid == [i \in DOMAIN sources |-> line(i)]
<1>1. \A i \in DOMAIN sources : line(i) \in Seq(S \X C) /\ Len(line(i)) = Len(order)
  OBVIOUS
<1>2. grid \in Seq(Seq(S \X C)) /\ Len(grid) = Len(sources)
  <2>1. Len(sources) \in Nat /\ DOMAIN sources = 1 .. Len(sources)
    OBVIOUS
  <2> HIDE DEF line
  <2>2. grid \in [1 .. Len(sources) -> Seq(S \X C)]
    BY <1>1, <2>1
  <2> HIDE DEF grid
  <2> QED BY <2>1, <2>2, FunctionIsSeq
<1>3. \A i \in 1 .. Len(sources), j \in 1 .. Len(order) : grid[i] = line(i)
        /\ line(i)[j] = <<sources[i], order[j]>>
  <2>1. DOMAIN sources = 1 .. Len(sources) /\ DOMAIN order = 1 .. Len(order)
    OBVIOUS
  <2>2. \A i \in 1 .. Len(sources) : grid[i] = line(i)
    <3> HIDE DEF line
    <3> QED BY <2>1
  <2>3. \A i \in 1 .. Len(sources), j \in 1 .. Len(order) : line(i)[j] = <<sources[i], order[j]>>
    BY <2>1
  <2> HIDE DEF grid, line
  <2> QED BY <2>2, <2>3
<1>4. Pairs(sources, order) = FlattenSeq(grid)
  BY DEF Pairs
<1> HIDE DEF grid
<1>5. FlattenSeq(grid) \in Seq(S \X C) /\ Covers(FlattenSeq(grid), grid)
  BY <1>2, FlattenCovers
<1>6. ASSUME NEW i \in 1 .. Len(sources), NEW j \in 1 .. Len(order)
      PROVE  \E k \in 1 .. Len(FlattenSeq(grid)) : FlattenSeq(grid)[k] = <<sources[i], order[j]>>
  <2>1. grid[i] = line(i) /\ Len(line(i)) = Len(order) /\ line(i)[j] = <<sources[i], order[j]>>
    <3>1. DOMAIN sources = 1 .. Len(sources)
      OBVIOUS
    <3> HIDE DEF line
    <3> QED BY <1>1, <1>3, <3>1
  <2> HIDE DEF line
  <2>2. i \in 1 .. Len(grid) /\ j \in 1 .. Len(grid[i]) /\ grid[i][j] = <<sources[i], order[j]>>
    BY <1>2, <2>1
  <2> QED BY <1>5, <2>2 DEF Covers
<1> QED BY <1>4, <1>5, <1>6 DEF AllMeet

\* What one pair adds to the rows made.
Poured(made, p, n) == IF n > 0 THEN Append(made, Row(p[1].entry, p[2], n)) ELSE made

\* The rows made stay rows.
LEMMA PouredType ==
  ASSUME NEW made \in Seq(AllocRec), Tables(charge, entry, alloc), NEW p \in PairSet, NEW n \in Int
  PROVE  Poured(made, p, n) \in Seq(AllocRec)
<1>1. p[1].entry \in Nat /\ p[2] \in Nat
  BY DEF PairSet, SourceRec, Tables
<1>2. n > 0 => Row(p[1].entry, p[2], n) \in AllocRec
  BY <1>1 DEF Row, AllocRec, Positive
<1> QED BY <1>2 DEF Poured

\* made[k] are the rows after k pairs, portion[k] what pair k was given.
Pours(made, portion, pairs) ==
  /\ made \in [0 .. Len(pairs) -> Seq(AllocRec)] /\ made[0] = <<>>
  /\ portion \in [1 .. Len(pairs) -> Int]
  /\ \A k \in 1 .. Len(pairs) : made[k] = Poured(made[k - 1], pairs[k], portion[k])

-----------------------------------------------------------------------------
(* The loop of Sweep.                                                      *)

SweepPortion(made, p, limit) ==
  Least(Least(p[1].left - Amount(made, LAMBDA r : r.entry = p[1].entry),
              limit - Amount(made, LAMBDA r : TRUE)),
        Remaining(p[2]) - Amount(made, LAMBDA r : r.charge = p[2]))

SweepFold(it, pairs, limit) ==
  it = [s \in SUBSET (DOMAIN pairs) |->
         IF s = {} THEN <<>>
         ELSE Poured(it[s \ {Max(s)}], pairs[Max(s)], SweepPortion(it[s \ {Max(s)}], pairs[Max(s)], limit))]

\* Sweep is the fold of its portions over the pairs.
LEMMA SweepExpanded ==
  ASSUME NEW sources, NEW order, NEW limit
  PROVE  Sweep(sources, order, limit) =
           (CHOOSE it : SweepFold(it, Pairs(sources, order), limit))[DOMAIN Pairs(sources, order)]
BY DEF Sweep, Pour, FoldLeft, MapThenFoldSet, Pairs, LeftOf, Needed, Amount, SweepFold, SweepPortion, Poured

\* What a pair is given by Sweep: the least of what the source has left, what the
\* limit leaves and what the charge needs.
LEMMA SweepPortionType ==
  ASSUME Tables(charge, entry, alloc), NEW made \in Seq(AllocRec), NEW p \in PairSet, NEW limit \in Int
  PROVE  /\ SweepPortion(made, p, limit) \in Int
         /\ SweepPortion(made, p, limit) =
              Least(Least(p[1].left - Taken(made, OfEntry(p[1].entry)), limit - Taken(made, AllocRec)),
                    Remaining(p[2]) - Taken(made, OnCharge(p[2])))
         /\ Remaining(p[2]) \in Int
<1>1. p[1].left \in Int /\ p[2] \in 1 .. Len(charge) /\ charge[p[2]] \in ChargeRec
  BY DEF PairSet, SourceRec, Tables
<1>2. \A K : Taken(made, K) \in Int /\ Taken(alloc, K) \in Int
  BY RowTypes, TakenNat DEF Tables
<1>3. charge[p[2]].amount \in Int
  BY <1>1, LedgerConstants DEF ChargeRec
<1>4. Remaining(p[2]) \in Int
  BY <1>2, <1>3, Balances DEF BalanceKinds
<1>5. SweepPortion(made, p, limit) =
        Least(Least(p[1].left - Taken(made, OfEntry(p[1].entry)), limit - Taken(made, AllocRec)),
              Remaining(p[2]) - Taken(made, OnCharge(p[2])))
  BY AllocationSums DEF SweepPortion
<1>6. SweepPortion(made, p, limit) \in Int
  <2> DEFINE a == Taken(made, OfEntry(p[1].entry))  b == Taken(made, AllocRec)  c == Taken(made, OnCharge(p[2]))
             l == p[1].left  m == Remaining(p[2])
  <2>1. a \in Int /\ b \in Int /\ c \in Int /\ l \in Int /\ m \in Int
    BY <1>1, <1>2, <1>4
  <2>2. SweepPortion(made, p, limit) = Least(Least(l - a, limit - b), m - c)
    BY <1>5
  <2> HIDE DEF a, b, c, l, m
  <2> QED BY <2>1, <2>2 DEF Least
<1> QED BY <1>4, <1>5, <1>6

\* Sweep is such a loop.
LEMMA SweepRuns ==
  ASSUME Tables(charge, entry, alloc),
         NEW sources \in Seq(SourceRec), NEW order \in Seq(1 .. Len(charge)), NEW limit \in Int
  PROVE  \E made, portion :
           /\ Pours(made, portion, Pairs(sources, order))
           /\ made[Len(Pairs(sources, order))] = Sweep(sources, order, limit)
           /\ \A k \in 1 .. Len(Pairs(sources, order)) :
                portion[k] = SweepPortion(made[k - 1], Pairs(sources, order)[k], limit)
<1> DEFINE pairs == Pairs(sources, order)
           n == Len(pairs)
           V == Seq(AllocRec)
           Step(k, v) == Poured(v, pairs[k], SweepPortion(v, pairs[k], limit))
           step == [kv \in (1 .. n) \X V |-> Step(kv[1], kv[2])]
<1>1. pairs \in Seq(PairSet)
  BY PairsCover DEF PairSet
<1> HIDE DEF pairs
<1>2. n \in Nat /\ DOMAIN pairs = 1 .. n /\ \A k \in 1 .. n : pairs[k] \in PairSet
  BY <1>1
<1> HIDE DEF n
<1>3. \A k \in 1 .. n, v \in V : SweepPortion(v, pairs[k], limit) \in Int /\ Step(k, v) \in V
  BY <1>2, SweepPortionType, PouredType
<1> HIDE DEF Step
<1>4. step \in [(1 .. n) \X V -> V] /\ \A k \in 1 .. n, v \in V : step[<<k, v>>] = Step(k, v)
  BY <1>3
<1>5. <<>> \in V
  OBVIOUS
<1>6. PICK it \in [SUBSET (1 .. n) -> V] : FoldsUp(it, n, V, <<>>, step)
  <2> HIDE DEF step, V
  <2>1. Foldable(n, V, <<>>, step)
    BY <1>2, <1>4, <1>5, FoldExists
  <2> QED BY <2>1 DEF Foldable
<1>7. SweepFold(it, pairs, limit)
  <2>1. ASSUME NEW s \in SUBSET (1 .. n), s # {} PROVE it[s] = Step(Max(s), it[s \ {Max(s)}])
    <3>1. Max(s) \in 1 .. n /\ s \ {Max(s)} \in SUBSET (1 .. n)
      BY <1>2, <2>1, MaxIn
    <3>2. it[s \ {Max(s)}] \in V
      BY <3>1
    <3> HIDE DEF step, V
    <3>3. it[s] = step[<<Max(s), it[s \ {Max(s)}]>>]
      BY <1>6, <2>1 DEF FoldsUp
    <3> QED BY <1>4, <3>1, <3>2, <3>3
  <2>2. it[{}] = <<>>
    BY <1>6 DEF FoldsUp
  <2>3. it = [s \in SUBSET (1 .. n) |-> it[s]]
    OBVIOUS
  <2> QED BY <1>2, <2>1, <2>2, <2>3 DEF SweepFold, Step
<1> DEFINE g == CHOOSE g : SweepFold(g, pairs, limit)
<1>8. SweepFold(g, pairs, limit)
  BY <1>7
<1>9. Sweep(sources, order, limit) = g[1 .. n]
  BY <1>2, SweepExpanded DEF pairs
<1> HIDE DEF g
<1>10. StepsFrom(g, n, V, <<>>, step)
  <2>1. g[{}] = <<>>
    BY <1>8 DEF SweepFold
  <2>2. ASSUME NEW s \in SUBSET (1 .. n), s # {}, g[s \ {Max(s)}] \in V
        PROVE  g[s] = step[<<Max(s), g[s \ {Max(s)}]>>]
    <3>1. Max(s) \in 1 .. n
      BY <1>2, <2>2, MaxIn
    <3>2. g[s] = Step(Max(s), g[s \ {Max(s)}])
      BY <1>2, <1>8, <2>2 DEF SweepFold, Step
    <3> HIDE DEF step, V
    <3> QED BY <1>4, <2>2, <3>1, <3>2
  <2> HIDE DEF step, V
  <2> QED BY <2>1, <2>2 DEF StepsFrom
<1>11. PICK acc : Accumulates(acc, n, V, <<>>, step) /\ acc[n] = g[1 .. n]
  <2> HIDE DEF step, V
  <2>1. FoldsTo(g[1 .. n], n, V, <<>>, step)
    BY <1>2, <1>4, <1>5, <1>10, FoldAccumulates
  <2> QED BY <2>1 DEF FoldsTo
<1>12. acc \in [0 .. n -> V] /\ acc[0] = <<>> /\ \A k \in 1 .. n : acc[k - 1] \in V
         /\ acc[k] = Step(k, acc[k - 1])
  <2>1. acc \in [0 .. n -> V] /\ acc[0] = <<>> /\ \A k \in 1 .. n : acc[k] = step[<<k, acc[k - 1]>>]
    <3> HIDE DEF step
    <3> QED BY <1>11 DEF Accumulates
  <2>2. \A k \in 1 .. n : k - 1 \in 0 .. n
    BY <1>2
  <2> HIDE DEF step, V
  <2> QED BY <1>4, <2>1, <2>2
<1> DEFINE portion == [k \in 1 .. n |-> SweepPortion(acc[k - 1], pairs[k], limit)]
<1>13. portion \in [1 .. n -> Int]
  BY <1>3, <1>12
<1>14. \A k \in 1 .. n : acc[k] = Poured(acc[k - 1], pairs[k], portion[k])
  BY <1>12 DEF Step
<1>15. Pours(acc, portion, pairs)
  <2> HIDE DEF portion
  <2> QED BY <1>12, <1>13, <1>14 DEF Pours, n
<1>16. acc[n] = Sweep(sources, order, limit)
  BY <1>9, <1>11
<1>17. \A k \in 1 .. n : portion[k] = SweepPortion(acc[k - 1], pairs[k], limit)
  OBVIOUS
<1> HIDE DEF portion
<1> QED BY <1>15, <1>16, <1>17 DEF pairs, n

-----------------------------------------------------------------------------
(* Caps: what a loop may give to the rows of a kind.                       *)

\* The caps on pair k are those whose kind its row is of; its portion is the least
\* of what they leave.
CapsFit(made, portion, pairs, Caps, capsOf) ==
  /\ \A cap \in Caps : cap[2] \in Nat
  /\ \A k \in 1 .. Len(pairs) :
       /\ capsOf[k] \subseteq Caps
       /\ \A cap \in Caps, m \in Positive : Row(pairs[k][1].entry, pairs[k][2], m) \in cap[1]
            <=> cap \in capsOf[k]
       /\ \A cap \in capsOf[k] : portion[k] <= cap[2] - Taken(made[k - 1], cap[1])
       /\ \E cap \in capsOf[k] : portion[k] = cap[2] - Taken(made[k - 1], cap[1])

WithinCaps(rows, Caps) == \A cap \in Caps : Taken(rows, cap[1]) <= cap[2]
CapsMet(rows, capsOf, k) == \A j \in 1 .. k : \E cap \in capsOf[j] : Taken(rows, cap[1]) = cap[2]
FromPairs(rows, pairs) ==
  \A i \in 1 .. Len(rows) :
    /\ rows[i] \in AllocRec /\ rows[i].by = 0
    /\ \E j \in 1 .. Len(pairs) : rows[i].entry = pairs[j][1].entry /\ rows[i].charge = pairs[j][2]

\* What one pair adds to what a kind has taken.
LEMMA PouredTaken ==
  ASSUME NEW made \in Seq(AllocRec), Tables(charge, entry, alloc), NEW p \in PairSet, NEW n \in Int, NEW K
  PROVE  Taken(Poured(made, p, n), K)
           = Taken(made, K) + IF n > 0 /\ Row(p[1].entry, p[2], n) \in K THEN n ELSE 0
<1> DEFINE r == Row(p[1].entry, p[2], n)
<1>1. n > 0 => r \in AllocRec /\ r.amount = n
  BY DEF PairSet, SourceRec, Tables, Row, AllocRec, Positive
<1>2. Taken(made, K) \in Nat
  BY RowTypes, TakenNat
<1>3. CASE n > 0
  <2>1. Poured(made, p, n) = Append(made, r)
    BY <1>3 DEF Poured
  <2> HIDE DEF r
  <2>2. Taken(Append(made, r), K) = Taken(made, K) + IF r \in K THEN r.amount ELSE 0
    BY <1>1, <1>3, RowTypes, TakenAppend
  <2> QED BY <1>1, <1>3, <2>1, <2>2 DEF r
<1>4. CASE ~(n > 0)
  BY <1>2, <1>4 DEF Poured
<1> QED BY <1>3, <1>4

\* No cap is exceeded, and every pair meets one of its own.
LEMMA PourFills ==
  ASSUME Tables(charge, entry, alloc), NEW pairs \in Seq(PairSet), NEW made, NEW portion,
         Pours(made, portion, pairs), NEW Caps, NEW capsOf, CapsFit(made, portion, pairs, Caps, capsOf)
  PROVE  /\ made[Len(pairs)] \in Seq(AllocRec)
         /\ WithinCaps(made[Len(pairs)], Caps)
         /\ CapsMet(made[Len(pairs)], capsOf, Len(pairs))
         /\ FromPairs(made[Len(pairs)], pairs)
<1> DEFINE n == Len(pairs)
           Good(k) == WithinCaps(made[k], Caps) /\ CapsMet(made[k], capsOf, k) /\ FromPairs(made[k], pairs)
           P == {k \in Nat : k <= n => Good(k)}
<1>1. n \in Nat /\ \A k \in 1 .. n : pairs[k] \in PairSet
  OBVIOUS
<1>2. \A k \in 0 .. n : made[k] \in Seq(AllocRec)
  BY DEF Pours
<1>3. \A K : \A rows \in Seq(AllocRec) : Taken(rows, K) \in Nat
  BY RowTypes, TakenNat
<1>4. Good(0)
  <2>1. made[0] = <<>>
    BY DEF Pours
  <2>2. \A K : Taken(<<>>, K) = 0
    <3>1. <<>> \in Seq(AllocRec) /\ \A K : \A j \in 1 .. Len(<<>>) : <<>>[j] \notin K
      OBVIOUS
    <3> QED BY <3>1, RowTypes, TakenNone
  <2> QED BY <2>1, <2>2 DEF WithinCaps, CapsMet, FromPairs, CapsFit
<1>5. ASSUME NEW k \in Nat, k + 1 <= n, Good(k) PROVE Good(k + 1)
  <2> DEFINE p == pairs[k + 1]
             m == portion[k + 1]
             K(cap) == Taken(made[k], cap[1])
             L(cap) == Taken(made[k + 1], cap[1])
  <2>1. k + 1 \in 1 .. n /\ k \in 0 .. n /\ k + 1 - 1 = k /\ k + 1 \in 0 .. n
    BY <1>1, <1>5
  <2>2. p \in PairSet /\ m \in Int /\ made[k + 1] = Poured(made[k], p, m)
    BY <2>1, <1>1 DEF Pours
  <2>3. made[k] \in Seq(AllocRec) /\ made[k + 1] \in Seq(AllocRec)
    BY <2>1, <1>2
  <2>4. \A cap \in Caps : K(cap) \in Nat /\ cap[2] \in Nat /\ K(cap) <= cap[2]
    BY <2>3, <1>3, <1>5 DEF WithinCaps, CapsFit
  <2>5. \A cap \in Caps : L(cap) = K(cap) + IF m > 0 /\ cap \in capsOf[k + 1] THEN m ELSE 0
    <3>1. \A cap \in Caps : L(cap) = K(cap) + IF m > 0 /\ Row(p[1].entry, p[2], m) \in cap[1] THEN m ELSE 0
      BY <2>2, <2>3, PouredTaken
    <3>2. m > 0 => \A cap \in Caps : Row(p[1].entry, p[2], m) \in cap[1] <=> cap \in capsOf[k + 1]
      BY <2>1, <2>2 DEF CapsFit, Positive
    <3> HIDE DEF K, L, p, m
    <3> QED BY <3>1, <3>2
  <2>6. capsOf[k + 1] \subseteq Caps /\ \A cap \in capsOf[k + 1] : m <= cap[2] - K(cap)
    BY <2>1 DEF CapsFit
  <2>7. PICK tight \in capsOf[k + 1] : m = tight[2] - K(tight)
    BY <2>1 DEF CapsFit
  <2>8. WithinCaps(made[k + 1], Caps)
    <3>1. \A cap \in Caps : L(cap) <= cap[2]
      <4> HIDE DEF K, L, p, m
      <4> QED BY <2>2, <2>4, <2>5, <2>6
    <3> QED BY <3>1 DEF WithinCaps
  <2>9. CapsMet(made[k + 1], capsOf, k + 1)
    <3>1. L(tight) = tight[2]
      <4> HIDE DEF K, L, p, m
      <4> QED BY <2>2, <2>4, <2>5, <2>6, <2>7
    <3>2. ASSUME NEW j \in 1 .. k PROVE \E cap \in capsOf[j] : L(cap) = cap[2]
      <4>1. PICK cap \in capsOf[j] : K(cap) = cap[2]
        BY <1>5 DEF CapsMet
      <4>2. j \in 1 .. n /\ cap \in Caps
        <5>1. j \in 1 .. n
          BY <2>1, <1>1
        <5> QED BY <5>1 DEF CapsFit
      <4>3. L(cap) <= cap[2] /\ L(cap) >= K(cap) /\ L(cap) \in Int
        <5>1. L(cap) \in Nat
          BY <2>3, <1>3
        <5>2. L(cap) <= cap[2]
          BY <2>8, <4>2 DEF WithinCaps
        <5> HIDE DEF K, L, p, m
        <5> QED BY <5>1, <5>2, <2>2, <2>4, <2>5, <4>2
      <4>4. cap[2] \in Nat
        BY <4>2, <2>4
      <4> HIDE DEF K, L, p, m
      <4> QED BY <4>1, <4>3, <4>4
    <3>3. \A j \in 1 .. k + 1 : j = k + 1 \/ j \in 1 .. k
      OBVIOUS
    <3>4. \A j \in 1 .. k + 1 : \E cap \in capsOf[j] : L(cap) = cap[2]
      <4> HIDE DEF K, L, p, m
      <4> QED BY <3>1, <3>2, <3>3
    <3> QED BY <3>4 DEF CapsMet
  <2>10. FromPairs(made[k + 1], pairs)
    <3>1. CASE m > 0
      <4> DEFINE r == Row(p[1].entry, p[2], m)
      <4>1. made[k + 1] = Append(made[k], r) /\ r.by = 0 /\ r.entry = p[1].entry /\ r.charge = p[2]
        BY <2>2, <3>1 DEF Poured, Row
      <4>2. \A i \in 1 .. Len(made[k + 1]) : made[k + 1][i] = r \/ (i \in 1 .. Len(made[k]) /\ made[k + 1][i] = made[k][i])
        <5> HIDE DEF r
        <5> QED BY <4>1, <2>3
      <4>3. \A i \in 1 .. Len(made[k + 1]) : made[k + 1][i] \in AllocRec
        BY <2>3
      <4> HIDE DEF r
      <4> QED BY <4>1, <4>2, <4>3, <2>1, <1>5 DEF FromPairs
    <3>2. CASE ~(m > 0)
      <4>1. made[k + 1] = made[k]
        BY <2>2, <3>2 DEF Poured
      <4> QED BY <4>1, <1>5
    <3> QED BY <3>1, <3>2
  <2> QED BY <2>8, <2>9, <2>10
<1> HIDE DEF Good
<1>6. \A k \in Nat : k \in P
  <2>1. 0 \in P
    BY <1>4
  <2>2. \A k \in Nat : k \in P => k + 1 \in P
    BY <1>1, <1>5
  <2> HIDE DEF P
  <2> QED BY <2>1, <2>2, NatInduct
<1>7. Good(n)
  BY <1>1, <1>6
<1> QED BY <1>1, <1>2, <1>7 DEF Good

-----------------------------------------------------------------------------
(* What Sweep gives.                                                       *)

\* The sources are those of S, each an entry of its own; the charges are those of C,
\* and none is over-allocated.
SweepOver(sources, order, S, C) ==
  /\ sources \in Seq(S) /\ \A s \in S : \E i \in 1 .. Len(sources) : sources[i] = s
  /\ order \in Seq(C) /\ \A c \in C : \E j \in 1 .. Len(order) : order[j] = c
  /\ \A s, t \in S : s.entry = t.entry => s = t
  /\ \A c \in C : Remaining(c) \in Nat

\* Live rows of the sources on the charges, within what each has and the limit; what
\* stops short of the limit has exhausted the source or settled the charge.
Drawn(rows, S, C, limit) ==
  /\ rows \in Seq(AllocRec)
  /\ \A i \in 1 .. Len(rows) :
       rows[i].by = 0 /\ rows[i].charge \in C /\ \E s \in S : rows[i].entry = s.entry
  /\ Taken(rows, AllocRec) <= limit
  /\ \A s \in S : Taken(rows, OfEntry(s.entry)) <= s.left
  /\ \A c \in C : Taken(rows, OnCharge(c)) <= Remaining(c)
  /\ \A s \in S, c \in C :
       \/ Taken(rows, AllocRec) = limit
       \/ Taken(rows, OfEntry(s.entry)) = s.left
       \/ Taken(rows, OnCharge(c)) = Remaining(c)

\* The caps of Sweep: each source, the limit, each charge.
SourceCap(s) == <<OfEntry(s.entry), s.left>>
LimitCap(limit) == <<AllocRec, limit>>
ChargeCap(c) == <<OnCharge(c), Remaining(c)>>

\* Which kinds a row that is written is of.
LEMMA RowKinds ==
  ASSUME Tables(charge, entry, alloc), NEW p \in PairSet, NEW m \in Positive
  PROVE  /\ Row(p[1].entry, p[2], m) \in AllocRec
         /\ \A e : Row(p[1].entry, p[2], m) \in OfEntry(e) <=> e = p[1].entry
         /\ \A c : Row(p[1].entry, p[2], m) \in OnCharge(c) <=> c = p[2]
<1>1. p[1].entry \in Nat /\ p[2] \in Nat
  BY DEF PairSet, SourceRec, Tables
<1>2. Row(p[1].entry, p[2], m) \in AllocRec
  BY <1>1 DEF Row, AllocRec, Positive
<1> QED BY <1>2 DEF OfEntry, OnCharge, Row

\* A minimum is one of the numbers it is the least of.
LEMMA LeastOfThree ==
  ASSUME NEW a \in Int, NEW b \in Int, NEW c \in Int, NEW m, m = Least(Least(a, b), c)
  PROVE  m <= a /\ m <= b /\ m <= c /\ (m = a \/ m = b \/ m = c)
BY DEF Least

\* Sweep (_apply_credit) draws from the sources, within each, the limit and each charge.
LEMMA SweepDraws ==
  ASSUME Tables(charge, entry, alloc), NEW S \in SUBSET SourceRec, NEW C \in SUBSET (1 .. Len(charge)),
         NEW sources, NEW order, SweepOver(sources, order, S, C), NEW limit \in Nat
  PROVE  Drawn(Sweep(sources, order, limit), S, C, limit)
<1> DEFINE pairs == Pairs(sources, order)
           n == Len(pairs)
           rows == Sweep(sources, order, limit)
<1>1. pairs \in Seq(S \X C)
  BY PairsCover DEF SweepOver
<1>2. \A s \in S, c \in C : \E k \in 1 .. n : pairs[k] = <<s, c>>
  <2> SUFFICES ASSUME NEW s \in S, NEW c \in C PROVE \E k \in 1 .. n : pairs[k] = <<s, c>>
    OBVIOUS
  <2>1. PICK i \in 1 .. Len(sources) : sources[i] = s
    BY DEF SweepOver
  <2>2. PICK j \in 1 .. Len(order) : order[j] = c
    BY DEF SweepOver
  <2>3. sources \in Seq(S) /\ order \in Seq(C)
    BY DEF SweepOver
  <2>4. AllMeet(sources, order)
    BY <2>3, PairsCover
  <2> QED BY <2>1, <2>2, <2>4 DEF AllMeet
<1>3. sources \in Seq(SourceRec) /\ order \in Seq(1 .. Len(charge)) /\ limit \in Int
  <2>1. sources \in Seq(S) /\ order \in Seq(C)
    BY DEF SweepOver
  <2>2. sources \in Seq(SourceRec)
    BY <2>1, SeqSubset
  <2>3. order \in Seq(1 .. Len(charge))
    BY <2>1, SeqSubset
  <2> QED BY <2>2, <2>3
<1>4. PICK made, portion :
        /\ Pours(made, portion, pairs)
        /\ made[n] = rows
        /\ \A k \in 1 .. n : portion[k] = SweepPortion(made[k - 1], pairs[k], limit)
  BY <1>3, SweepRuns
<1> HIDE DEF pairs, rows
<1>5. n \in Nat /\ pairs \in Seq(PairSet) /\ \A k \in 1 .. n : pairs[k] \in PairSet /\ pairs[k][1] \in S
        /\ pairs[k][2] \in C
  <2>1. S \X C \subseteq PairSet
    BY DEF PairSet
  <2>2. \A k \in 1 .. n : pairs[k] \in S \X C
    BY <1>1
  <2>3. n \in Nat /\ pairs \in Seq(PairSet)
    BY <1>1, <2>1
  <2> QED BY <2>1, <2>2, <2>3
<1> HIDE DEF n
<1> DEFINE Caps == {SourceCap(s) : s \in S} \cup {LimitCap(limit)} \cup {ChargeCap(c) : c \in C}
           capsOf == [k \in 1 .. n |-> {SourceCap(pairs[k][1]), LimitCap(limit), ChargeCap(pairs[k][2])}]
<1>6. \A cap \in Caps : cap[2] \in Nat
  BY DEF SourceCap, LimitCap, ChargeCap, SourceRec, SweepOver
<1>7. ASSUME NEW k \in 1 .. n
      PROVE  /\ capsOf[k] \subseteq Caps
             /\ \A cap \in Caps, m \in Positive : Row(pairs[k][1].entry, pairs[k][2], m) \in cap[1]
                  <=> cap \in capsOf[k]
             /\ \A cap \in capsOf[k] : portion[k] <= cap[2] - Taken(made[k - 1], cap[1])
             /\ \E cap \in capsOf[k] : portion[k] = cap[2] - Taken(made[k - 1], cap[1])
  <2> DEFINE p == pairs[k]
  <2>1. p \in PairSet /\ p[1] \in S /\ p[2] \in C
    BY <1>5
  <2>2. capsOf[k] = {SourceCap(p[1]), LimitCap(limit), ChargeCap(p[2])}
    OBVIOUS
  <2>3. capsOf[k] \subseteq Caps
    BY <2>1, <2>2
  <2>4. ASSUME NEW cap \in Caps, NEW m \in Positive
        PROVE  Row(p[1].entry, p[2], m) \in cap[1] <=> cap \in capsOf[k]
    <3> DEFINE r == Row(p[1].entry, p[2], m)
    <3>1. r \in AllocRec /\ (\A e : r \in OfEntry(e) <=> e = p[1].entry)
            /\ (\A c : r \in OnCharge(c) <=> c = p[2])
      BY <2>1, RowKinds
    <3> HIDE DEF r
    <3>2. \A s \in S : r \in SourceCap(s)[1] <=> s = p[1]
      BY <3>1, <2>1 DEF SourceCap, SweepOver
    <3>3. \A c \in C : r \in ChargeCap(c)[1] <=> c = p[2]
      BY <3>1 DEF ChargeCap
    <3>4. r \in LimitCap(limit)[1]
      BY <3>1 DEF LimitCap
    <3>5. r \in cap[1] => cap \in capsOf[k]
      BY <2>1, <2>2, <3>2, <3>3
    <3>6. cap \in capsOf[k] => r \in cap[1]
      BY <2>1, <2>2, <3>2, <3>3, <3>4
    <3> QED BY <3>5, <3>6 DEF r
  <2> DEFINE a == p[1].left - Taken(made[k - 1], OfEntry(p[1].entry))
             b == limit - Taken(made[k - 1], AllocRec)
             c == Remaining(p[2]) - Taken(made[k - 1], OnCharge(p[2]))
  <2>5. made[k - 1] \in Seq(AllocRec)
    <3>1. k - 1 \in 0 .. n
      BY <1>5
    <3> QED BY <3>1, <1>4 DEF Pours, n
  <2>6. portion[k] = Least(Least(a, b), c) /\ Remaining(p[2]) \in Int
    <3>1. portion[k] = SweepPortion(made[k - 1], p, limit)
      BY <1>4 DEF n
    <3>2. SweepPortion(made[k - 1], p, limit) = Least(Least(a, b), c) /\ Remaining(p[2]) \in Int
      BY <2>1, <2>5, <1>3, SweepPortionType
    <3> QED BY <3>1, <3>2
  <2>7. a \in Int /\ b \in Int /\ c \in Int
    <3>1. \A K : Taken(made[k - 1], K) \in Int
      BY <2>5, RowTypes, TakenNat
    <3>2. p[1].left \in Int
      BY <2>1 DEF SourceRec
    <3> QED BY <3>1, <3>2, <2>6, SMTT(30)
  <2>8. /\ a = SourceCap(p[1])[2] - Taken(made[k - 1], SourceCap(p[1])[1])
        /\ b = LimitCap(limit)[2] - Taken(made[k - 1], LimitCap(limit)[1])
        /\ c = ChargeCap(p[2])[2] - Taken(made[k - 1], ChargeCap(p[2])[1])
    BY DEF SourceCap, LimitCap, ChargeCap
  <2> HIDE DEF a, b, c
  <2>9. /\ portion[k] <= a /\ portion[k] <= b /\ portion[k] <= c
        /\ portion[k] = a \/ portion[k] = b \/ portion[k] = c
    BY <2>6, <2>7, LeastOfThree
  <2> QED BY <2>2, <2>3, <2>4, <2>8, <2>9
<1> HIDE DEF Caps, capsOf
<1>8. CapsFit(made, portion, pairs, Caps, capsOf)
  BY <1>6, <1>7 DEF CapsFit, n
<1>9. /\ rows \in Seq(AllocRec) /\ WithinCaps(rows, Caps)
      /\ CapsMet(rows, capsOf, n) /\ FromPairs(rows, pairs)
  BY <1>4, <1>5, <1>8, PourFills DEF n
<1>10. ASSUME NEW i \in 1 .. Len(rows)
       PROVE  rows[i].by = 0 /\ rows[i].charge \in C /\ \E s \in S : rows[i].entry = s.entry
  BY <1>5, <1>9 DEF FromPairs, n
<1>11. /\ Taken(rows, AllocRec) <= limit
       /\ \A s \in S : Taken(rows, OfEntry(s.entry)) <= s.left
       /\ \A c \in C : Taken(rows, OnCharge(c)) <= Remaining(c)
  <2>1. \A s \in S : Taken(rows, SourceCap(s)[1]) <= SourceCap(s)[2]
    BY <1>9 DEF WithinCaps, Caps
  <2>2. \A c \in C : Taken(rows, ChargeCap(c)[1]) <= ChargeCap(c)[2]
    BY <1>9 DEF WithinCaps, Caps
  <2>3. Taken(rows, LimitCap(limit)[1]) <= LimitCap(limit)[2]
    BY <1>9 DEF WithinCaps, Caps
  <2> QED BY <2>1, <2>2, <2>3 DEF SourceCap, LimitCap, ChargeCap
<1>12. ASSUME NEW s \in S, NEW c \in C
       PROVE  \/ Taken(rows, AllocRec) = limit
              \/ Taken(rows, OfEntry(s.entry)) = s.left
              \/ Taken(rows, OnCharge(c)) = Remaining(c)
  <2>1. PICK k \in 1 .. n : pairs[k] = <<s, c>>
    BY <1>2 DEF n
  <2>2. capsOf[k] = {SourceCap(s), LimitCap(limit), ChargeCap(c)}
    BY <2>1 DEF capsOf
  <2>3. \E cap \in capsOf[k] : Taken(rows, cap[1]) = cap[2]
    BY <1>9 DEF CapsMet
  <2> QED BY <2>2, <2>3 DEF SourceCap, LimitCap, ChargeCap
<1> QED BY <1>9, <1>10, <1>11, <1>12 DEF Drawn, rows

\* A source for each entry of E, with what left says it has.
SourcesOf(E, left) == {[entry |-> e, left |-> left[e]] : e \in E}

\* When the sources and the charges both have room for the limit, it is met.
LEMMA SweepExact ==
  ASSUME NEW E, IsFiniteSet(E), NEW left, NEW C, IsFiniteSet(C), NEW rem, \A c \in C : rem[c] = Remaining(c),
         NEW limit \in Nat, NEW rows, Drawn(rows, SourcesOf(E, left), C, limit),
         limit <= SumFunctionOnSet(left, E), limit <= SumFunctionOnSet(rem, C)
  PROVE  Taken(rows, AllocRec) = limit
<1> SUFFICES ASSUME Taken(rows, AllocRec) # limit PROVE FALSE
  OBVIOUS
<1>1. rows \in Seq(AllocRec) /\ \A j \in 1 .. Len(rows) : rows[j] \in AllocRec
  BY DEF Drawn
<1>2. Taken(rows, AllocRec) \in Nat /\ Taken(rows, AllocRec) <= limit
  BY <1>1, RowTypes, TakenNat DEF Drawn
<1>3. \A j \in 1 .. Len(rows) : rows[j].charge \in C /\ rows[j].entry \in E
  BY DEF Drawn, SourcesOf
<1>4. \A e \in E, c \in C : Taken(rows, OfEntry(e)) = left[e] \/ Taken(rows, OnCharge(c)) = Remaining(c)
  <2> SUFFICES ASSUME NEW e \in E, NEW c \in C
               PROVE  Taken(rows, OfEntry(e)) = left[e] \/ Taken(rows, OnCharge(c)) = Remaining(c)
    OBVIOUS
  <2> DEFINE s == [entry |-> e, left |-> left[e]]
  <2>1. s \in SourcesOf(E, left) /\ s.entry = e /\ s.left = left[e]
    BY DEF SourcesOf
  <2> HIDE DEF s
  <2> QED BY <2>1 DEF Drawn
<1>5. CASE \A c \in C : Taken(rows, OnCharge(c)) = Remaining(c)
  <2> DEFINE K == [c \in C |-> OnCharge(c)]
  <2>1. \A c \in C : rem[c] = Taken(rows, K[c])
    BY <1>5
  <2>2. \A j \in 1 .. Len(rows) :
          /\ rows[j] \in AllocRec <=> \E c \in C : rows[j] \in K[c]
          /\ \A c, d \in C : rows[j] \in K[c] /\ rows[j] \in K[d] => c = d
    BY <1>1, <1>3 DEF OnCharge
  <2> HIDE DEF K
  <2>3. SumFunctionOnSet(rem, C) = Taken(rows, AllocRec)
    BY <1>1, <2>1, <2>2, RowTypes, TakenClasses
  <2> QED BY <1>2, <2>3
<1>6. CASE \A e \in E : Taken(rows, OfEntry(e)) = left[e]
  <2> DEFINE K == [e \in E |-> OfEntry(e)]
  <2>1. \A e \in E : left[e] = Taken(rows, K[e])
    BY <1>6
  <2>2. \A j \in 1 .. Len(rows) :
          /\ rows[j] \in AllocRec <=> \E e \in E : rows[j] \in K[e]
          /\ \A d, e \in E : rows[j] \in K[d] /\ rows[j] \in K[e] => d = e
    BY <1>1, <1>3 DEF OfEntry
  <2> HIDE DEF K
  <2>3. SumFunctionOnSet(left, E) = Taken(rows, AllocRec)
    BY <1>1, <2>1, <2>2, RowTypes, TakenClasses
  <2> QED BY <1>2, <2>3
<1> QED BY <1>4, <1>5, <1>6

-----------------------------------------------------------------------------
(* The loop of PaymentRows, and what it gives.                             *)

OnEnr(x) == {r \in AllocRec : charge[r.charge].enr = x}

PaymentPortion(made, p, targets) ==
  Least(targets[charge[p[2]].enr] - Amount(made, LAMBDA r : charge[r.charge].enr = charge[p[2]].enr),
        Remaining(p[2]) - Amount(made, LAMBDA r : r.charge = p[2]))

PaymentFold(it, pairs, targets) ==
  it = [s \in SUBSET (DOMAIN pairs) |->
         IF s = {} THEN <<>>
         ELSE Poured(it[s \ {Max(s)}], pairs[Max(s)], PaymentPortion(it[s \ {Max(s)}], pairs[Max(s)], targets))]

PaidPairs(p, n, targets) ==
  Pairs(<<[entry |-> p, left |-> n]>>, InDueOrder(UNION {ChargesOf(enr, {"open"}) : enr \in DOMAIN targets}))

\* PaymentRows is the fold of its portions over the pairs.
LEMMA PaymentExpanded ==
  ASSUME NEW p, NEW n, NEW targets
  PROVE  PaymentRows(p, n, targets) =
           (CHOOSE it : PaymentFold(it, PaidPairs(p, n, targets), targets))[DOMAIN PaidPairs(p, n, targets)]
BY DEF PaymentRows, Pour, FoldLeft, MapThenFoldSet, Pairs, PaidPairs, Needed, Amount, PaymentFold,
   PaymentPortion, Poured

\* What a charge is given by a payment: the lesser of what its target leaves and what
\* it needs.
LEMMA PaymentPortionType ==
  ASSUME Tables(charge, entry, alloc), NEW made \in Seq(AllocRec), NEW p \in PairSet,
         NEW targets, targets[charge[p[2]].enr] \in Int
  PROVE  /\ PaymentPortion(made, p, targets) \in Int
         /\ PaymentPortion(made, p, targets) =
              Least(targets[charge[p[2]].enr] - Taken(made, OnEnr(charge[p[2]].enr)),
                    Remaining(p[2]) - Taken(made, OnCharge(p[2])))
         /\ Remaining(p[2]) \in Int
<1> DEFINE x == charge[p[2]].enr
<1>1. p[2] \in 1 .. Len(charge) /\ charge[p[2]] \in ChargeRec
  BY DEF PairSet, Tables
<1>2. \A K : Taken(made, K) \in Int /\ Taken(alloc, K) \in Int
  BY RowTypes, TakenNat DEF Tables
<1>3. charge[p[2]].amount \in Int
  BY <1>1, LedgerConstants DEF ChargeRec
<1>4. Remaining(p[2]) \in Int
  BY <1>2, <1>3, Balances DEF BalanceKinds
<1>5. Amount(made, LAMBDA r : charge[r.charge].enr = x) = Taken(made, OnEnr(x))
  <2>1. \A j \in DOMAIN made : made[j] \in AllocRec
    OBVIOUS
  <2>2. {j \in DOMAIN made : charge[made[j].charge].enr = x} = {j \in DOMAIN made : made[j] \in OnEnr(x)}
    BY <2>1 DEF OnEnr
  <2> HIDE DEF x
  <2> QED BY <2>2 DEF Amount, Taken
<1>6. PaymentPortion(made, p, targets) = Least(targets[x] - Taken(made, OnEnr(x)), Remaining(p[2]) - Taken(made, OnCharge(p[2])))
  BY <1>5, AllocationSums DEF PaymentPortion
<1>7. PaymentPortion(made, p, targets) \in Int
  <2> DEFINE a == Taken(made, OnEnr(x))  c == Taken(made, OnCharge(p[2]))
             l == targets[x]  m == Remaining(p[2])
  <2>1. a \in Int /\ c \in Int /\ l \in Int /\ m \in Int
    BY <1>2, <1>4
  <2>2. PaymentPortion(made, p, targets) = Least(l - a, m - c)
    BY <1>6
  <2> HIDE DEF a, c, l, m
  <2> QED BY <2>1, <2>2 DEF Least
<1> QED BY <1>4, <1>6, <1>7

\* What a payment p with these targets is paid on.
TargetCharges(targets) == UNION {ChargesOf(enr, {"open"}) : enr \in DOMAIN targets}

TargetsFit(targets) ==
  /\ DOMAIN targets \subseteq Enrollment /\ \A x \in DOMAIN targets : targets[x] \in Nat
  /\ \A c \in TargetCharges(targets) : Remaining(c) \in Nat

\* The charges a payment is for are open charges of its targets.
LEMMA TargetChargesOpen ==
  ASSUME Tables(charge, entry, alloc), NEW targets, NEW c \in TargetCharges(targets)
  PROVE  c \in 1 .. Len(charge) /\ charge[c].status = "open" /\ charge[c].enr \in DOMAIN targets
<1>1. PICK x \in DOMAIN targets : c \in ChargesOf(x, {"open"})
  BY DEF TargetCharges
<1>2. DOMAIN charge = 1 .. Len(charge)
  BY DEF Tables
<1> QED BY <1>1, <1>2 DEF ChargesOf

\* The source s meets every charge of C.
Meets(pairs, s, C) == \A c \in C : \E k \in 1 .. Len(pairs) : pairs[k] = <<s, c>>

\* PaymentRows is such a loop.
LEMMA PaymentRuns ==
  ASSUME Tables(charge, entry, alloc), Calendar, NEW p \in Nat, NEW n \in Nat, NEW targets, TargetsFit(targets)
  PROVE  /\ PaidPairs(p, n, targets) \in Seq({[entry |-> p, left |-> n]} \X TargetCharges(targets))
         /\ Meets(PaidPairs(p, n, targets), [entry |-> p, left |-> n], TargetCharges(targets))
         /\ \E made, portion :
              /\ Pours(made, portion, PaidPairs(p, n, targets))
              /\ made[Len(PaidPairs(p, n, targets))] = PaymentRows(p, n, targets)
              /\ \A k \in 1 .. Len(PaidPairs(p, n, targets)) :
                   portion[k] = PaymentPortion(made[k - 1], PaidPairs(p, n, targets)[k], targets)
<1> DEFINE source == [entry |-> p, left |-> n]
           C == TargetCharges(targets)
           order == InDueOrder(C)
           pairs == PaidPairs(p, n, targets)
           l == Len(pairs)
           V == Seq(AllocRec)
           Step(k, v) == Poured(v, pairs[k], PaymentPortion(v, pairs[k], targets))
           step == [kv \in (1 .. l) \X V |-> Step(kv[1], kv[2])]
<1>1. Lists(order, C) /\ C \subseteq 1 .. Len(charge)
  <2>1. C \in SUBSET (1 .. Len(charge))
    BY TargetChargesOpen
  <2> HIDE DEF C
  <2> QED BY <2>1, DueOrderLists
<1>2. pairs = Pairs(<<source>>, order)
  BY DEF PaidPairs, TargetCharges
<1>3. source \in SourceRec /\ <<source>> \in Seq({source}) /\ order \in Seq(C) /\ <<source>>[1] = source
        /\ Len(<<source>>) = 1
  <2>1. order \in Seq(C)
    BY <1>1 DEF Lists
  <2>2. source \in SourceRec
    BY DEF SourceRec
  <2> HIDE DEF source, order, C
  <2> QED BY <2>1, <2>2
<1> HIDE DEF source, order, C
<1>4. pairs \in Seq({source} \X C) /\ AllMeet(<<source>>, order)
  <2> DEFINE one == <<source>>  S == {source}
  <2>1. one \in Seq(S) /\ order \in Seq(C)
    BY <1>3
  <2> HIDE DEF one, S
  <2>2. Pairs(one, order) \in Seq(S \X C) /\ AllMeet(one, order)
    BY <2>1, PairsCover
  <2> HIDE DEF pairs
  <2> QED BY <2>2, <1>2 DEF one, S
<1>5. \A c \in C : \E k \in 1 .. l : pairs[k] = <<source, c>>
  <2> SUFFICES ASSUME NEW c \in C PROVE \E k \in 1 .. l : pairs[k] = <<source, c>>
    OBVIOUS
  <2>1. PICK j \in 1 .. Len(order) : order[j] = c
    BY <1>1 DEF Lists
  <2>2. 1 \in 1 .. Len(<<source>>)
    BY <1>3
  <2>3. \E k \in 1 .. Len(Pairs(<<source>>, order)) : Pairs(<<source>>, order)[k] = <<(<<source>>)[1], order[j]>>
    BY <2>2, <1>4 DEF AllMeet
  <2> QED BY <2>1, <2>3, <1>2, <1>3
<1> HIDE DEF pairs
<1>6. l \in Nat /\ DOMAIN pairs = 1 .. l /\ \A k \in 1 .. l : pairs[k] \in PairSet
        /\ targets[charge[pairs[k][2]].enr] \in Int
  <2>1. l \in Nat /\ DOMAIN pairs = 1 .. l /\ \A k \in 1 .. l : pairs[k] \in {source} \X C
    BY <1>4
  <2>2. {source} \X C \subseteq PairSet
    BY <1>1, <1>3 DEF PairSet
  <2>3. \A c \in C : charge[c].enr \in DOMAIN targets
    BY TargetChargesOpen DEF C
  <2>4. \A x \in DOMAIN targets : targets[x] \in Int
    BY DEF TargetsFit
  <2> QED BY <2>1, <2>2, <2>3, <2>4
<1> HIDE DEF l
<1>7. \A k \in 1 .. l, v \in V : PaymentPortion(v, pairs[k], targets) \in Int /\ Step(k, v) \in V
  BY <1>6, PaymentPortionType, PouredType
<1> HIDE DEF Step
<1>8. step \in [(1 .. l) \X V -> V] /\ \A k \in 1 .. l, v \in V : step[<<k, v>>] = Step(k, v)
  BY <1>7
<1>9. <<>> \in V
  OBVIOUS
<1>10. PICK it \in [SUBSET (1 .. l) -> V] : FoldsUp(it, l, V, <<>>, step)
  <2> HIDE DEF step, V
  <2>1. Foldable(l, V, <<>>, step)
    BY <1>6, <1>8, <1>9, FoldExists
  <2> QED BY <2>1 DEF Foldable
<1>11. PaymentFold(it, pairs, targets)
  <2>1. ASSUME NEW s \in SUBSET (1 .. l), s # {} PROVE it[s] = Step(Max(s), it[s \ {Max(s)}])
    <3>1. Max(s) \in 1 .. l /\ s \ {Max(s)} \in SUBSET (1 .. l)
      BY <1>6, <2>1, MaxIn
    <3>2. it[s \ {Max(s)}] \in V
      BY <3>1
    <3> HIDE DEF step, V
    <3>3. it[s] = step[<<Max(s), it[s \ {Max(s)}]>>]
      BY <1>10, <2>1 DEF FoldsUp
    <3> QED BY <1>8, <3>1, <3>2, <3>3
  <2>2. it[{}] = <<>>
    BY <1>10 DEF FoldsUp
  <2>3. it = [s \in SUBSET (1 .. l) |-> it[s]]
    OBVIOUS
  <2> QED BY <1>6, <2>1, <2>2, <2>3 DEF PaymentFold, Step
<1> DEFINE g == CHOOSE g : PaymentFold(g, pairs, targets)
<1>12. PaymentFold(g, pairs, targets)
  BY <1>11
<1>13. PaymentRows(p, n, targets) = g[1 .. l]
  BY <1>6, PaymentExpanded DEF pairs
<1> HIDE DEF g
<1>14. StepsFrom(g, l, V, <<>>, step)
  <2>1. g[{}] = <<>>
    BY <1>12 DEF PaymentFold
  <2>2. ASSUME NEW s \in SUBSET (1 .. l), s # {}, g[s \ {Max(s)}] \in V
        PROVE  g[s] = step[<<Max(s), g[s \ {Max(s)}]>>]
    <3>1. Max(s) \in 1 .. l
      BY <1>6, <2>2, MaxIn
    <3>2. g[s] = Step(Max(s), g[s \ {Max(s)}])
      BY <1>6, <1>12, <2>2 DEF PaymentFold, Step
    <3> HIDE DEF step, V
    <3> QED BY <1>8, <2>2, <3>1, <3>2
  <2> HIDE DEF step, V
  <2> QED BY <2>1, <2>2 DEF StepsFrom
<1>15. PICK acc : Accumulates(acc, l, V, <<>>, step) /\ acc[l] = g[1 .. l]
  <2> HIDE DEF step, V
  <2>1. FoldsTo(g[1 .. l], l, V, <<>>, step)
    BY <1>6, <1>8, <1>9, <1>14, FoldAccumulates
  <2> QED BY <2>1 DEF FoldsTo
<1>16. acc \in [0 .. l -> V] /\ acc[0] = <<>> /\ \A k \in 1 .. l : acc[k - 1] \in V
         /\ acc[k] = Step(k, acc[k - 1])
  <2>1. acc \in [0 .. l -> V] /\ acc[0] = <<>> /\ \A k \in 1 .. l : acc[k] = step[<<k, acc[k - 1]>>]
    <3> HIDE DEF step
    <3> QED BY <1>15 DEF Accumulates
  <2>2. \A k \in 1 .. l : k - 1 \in 0 .. l
    BY <1>6
  <2> HIDE DEF step, V
  <2> QED BY <1>8, <2>1, <2>2
<1> DEFINE portion == [k \in 1 .. l |-> PaymentPortion(acc[k - 1], pairs[k], targets)]
<1>17. portion \in [1 .. l -> Int]
  BY <1>7, <1>16
<1>18. \A k \in 1 .. l : acc[k] = Poured(acc[k - 1], pairs[k], portion[k])
  BY <1>16 DEF Step
<1>19. Pours(acc, portion, pairs)
  <2> HIDE DEF portion
  <2> QED BY <1>16, <1>17, <1>18 DEF Pours, l
<1>20. acc[l] = PaymentRows(p, n, targets)
  BY <1>13, <1>15
<1>21. \A k \in 1 .. l : portion[k] = PaymentPortion(acc[k - 1], pairs[k], targets)
  OBVIOUS
<1>22. \E made, por : Pours(made, por, pairs) /\ made[l] = PaymentRows(p, n, targets)
                      /\ \A k \in 1 .. l : por[k] = PaymentPortion(made[k - 1], pairs[k], targets)
  <2> HIDE DEF portion
  <2> QED BY <1>19, <1>20, <1>21
<1> QED BY <1>4, <1>5, <1>22 DEF pairs, l, source, C, Meets

\* Live rows of the payment on the open charges of its targets, within each target
\* and what each charge needs; what stops short of a target has settled the charge.
PaidOut(rows, p, targets) ==
  /\ rows \in Seq(AllocRec)
  /\ \A i \in 1 .. Len(rows) : rows[i].by = 0 /\ rows[i].charge \in TargetCharges(targets) /\ rows[i].entry = p
  /\ \A x \in DOMAIN targets : Taken(rows, OnEnr(x)) <= targets[x]
  /\ \A c \in TargetCharges(targets) : Taken(rows, OnCharge(c)) <= Remaining(c)
  /\ \A c \in TargetCharges(targets) :
       \/ Taken(rows, OnEnr(charge[c].enr)) = targets[charge[c].enr]
       \/ Taken(rows, OnCharge(c)) = Remaining(c)

TargetCap(x, targets) == <<OnEnr(x), targets[x]>>

\* PaymentRows pays the open charges of its targets, within each target and charge.
LEMMA PaymentPaysOut ==
  ASSUME Tables(charge, entry, alloc), Calendar, NEW p \in Nat, NEW n \in Nat, NEW targets, TargetsFit(targets)
  PROVE  PaidOut(PaymentRows(p, n, targets), p, targets)
<1> DEFINE source == [entry |-> p, left |-> n]
           C == TargetCharges(targets)
           pairs == PaidPairs(p, n, targets)
           l == Len(pairs)
           rows == PaymentRows(p, n, targets)
           D == DOMAIN targets
           enr(c) == charge[c].enr
<1>1. pairs \in Seq({source} \X C) /\ \A c \in C : \E k \in 1 .. l : pairs[k] = <<source, c>>
  <2>1. pairs \in Seq({source} \X C) /\ Meets(pairs, source, C)
    BY PaymentRuns
  <2> HIDE DEF pairs, source, C
  <2> QED BY <2>1 DEF Meets
<1>2. PICK made, portion :
        /\ Pours(made, portion, pairs)
        /\ made[l] = rows
        /\ \A k \in 1 .. l : portion[k] = PaymentPortion(made[k - 1], pairs[k], targets)
  BY PaymentRuns
<1>3. source \in SourceRec /\ C \subseteq 1 .. Len(charge) /\ \A c \in C : enr(c) \in D
  <2>1. source \in SourceRec
    BY DEF SourceRec
  <2> QED BY <2>1, TargetChargesOpen
<1>4. \A x \in D : targets[x] \in Nat
  BY DEF TargetsFit
<1>5. \A c \in C : Remaining(c) \in Nat
  BY DEF TargetsFit
<1> HIDE DEF pairs, rows, C, D
<1>6. l \in Nat /\ pairs \in Seq(PairSet) /\ \A k \in 1 .. l : pairs[k] \in PairSet /\ pairs[k][1].entry = p
        /\ pairs[k][2] \in C
  <2>1. {source} \X C \subseteq PairSet
    BY <1>3 DEF PairSet
  <2>2. \A k \in 1 .. l : pairs[k] \in {source} \X C
    BY <1>1
  <2>3. l \in Nat /\ pairs \in Seq(PairSet)
    BY <1>1, <2>1
  <2> QED BY <2>1, <2>2, <2>3
<1> HIDE DEF l
<1> DEFINE Caps == {TargetCap(x, targets) : x \in D} \cup {ChargeCap(c) : c \in C}
           capsOf == [k \in 1 .. l |-> {TargetCap(enr(pairs[k][2]), targets), ChargeCap(pairs[k][2])}]
<1>7. \A cap \in Caps : cap[2] \in Nat
  BY <1>4, <1>5 DEF TargetCap, ChargeCap
<1>8. ASSUME NEW k \in 1 .. l
      PROVE  /\ capsOf[k] \subseteq Caps
             /\ \A cap \in Caps, m \in Positive : Row(pairs[k][1].entry, pairs[k][2], m) \in cap[1]
                  <=> cap \in capsOf[k]
             /\ \A cap \in capsOf[k] : portion[k] <= cap[2] - Taken(made[k - 1], cap[1])
             /\ \E cap \in capsOf[k] : portion[k] = cap[2] - Taken(made[k - 1], cap[1])
  <2> DEFINE q == pairs[k]
             x == enr(q[2])
  <2>1. q \in PairSet /\ q[2] \in C /\ x \in D
    BY <1>3, <1>6
  <2>2. capsOf[k] = {TargetCap(x, targets), ChargeCap(q[2])}
    OBVIOUS
  <2>3. capsOf[k] \subseteq Caps
    BY <2>1, <2>2
  <2>4. ASSUME NEW cap \in Caps, NEW m \in Positive
        PROVE  Row(q[1].entry, q[2], m) \in cap[1] <=> cap \in capsOf[k]
    <3> DEFINE r == Row(q[1].entry, q[2], m)
    <3>1. r \in AllocRec /\ (\A c : r \in OnCharge(c) <=> c = q[2])
      BY <2>1, RowKinds
    <3>2. r.charge = q[2]
      BY DEF Row
    <3> HIDE DEF r
    <3>3. \A y \in D : r \in TargetCap(y, targets)[1] <=> y = x
      BY <3>1, <3>2 DEF TargetCap, OnEnr
    <3>4. \A c \in C : r \in ChargeCap(c)[1] <=> c = q[2]
      BY <3>1 DEF ChargeCap
    <3>5. r \in cap[1] => cap \in capsOf[k]
      BY <2>1, <2>2, <3>3, <3>4
    <3>6. cap \in capsOf[k] => r \in cap[1]
      BY <2>1, <2>2, <3>3, <3>4
    <3> QED BY <3>5, <3>6 DEF r
  <2> DEFINE a == targets[x] - Taken(made[k - 1], OnEnr(x))
             c == Remaining(q[2]) - Taken(made[k - 1], OnCharge(q[2]))
  <2>5. made[k - 1] \in Seq(AllocRec)
    <3>1. k - 1 \in 0 .. l
      BY <1>6
    <3> QED BY <3>1, <1>2 DEF Pours, l
  <2>6. portion[k] = Least(a, c) /\ Remaining(q[2]) \in Int
    <3>1. portion[k] = PaymentPortion(made[k - 1], q, targets)
      BY <1>2 DEF l
    <3>2. targets[enr(q[2])] \in Int
      BY <1>4, <2>1
    <3>3. PaymentPortion(made[k - 1], q, targets) = Least(a, c) /\ Remaining(q[2]) \in Int
      BY <2>1, <2>5, <3>2, PaymentPortionType
    <3> QED BY <3>1, <3>3
  <2>7. a \in Int /\ c \in Int
    <3>1. \A K : Taken(made[k - 1], K) \in Int
      BY <2>5, RowTypes, TakenNat
    <3>2. targets[x] \in Int
      BY <1>4, <2>1
    <3> QED BY <3>1, <3>2, <2>6
  <2>8. /\ a = TargetCap(x, targets)[2] - Taken(made[k - 1], TargetCap(x, targets)[1])
        /\ c = ChargeCap(q[2])[2] - Taken(made[k - 1], ChargeCap(q[2])[1])
    BY DEF TargetCap, ChargeCap
  <2> HIDE DEF a, c
  <2>9. portion[k] <= a /\ portion[k] <= c /\ (portion[k] = a \/ portion[k] = c)
    BY <2>6, <2>7 DEF Least
  <2> QED BY <2>2, <2>3, <2>4, <2>8, <2>9
<1> HIDE DEF Caps, capsOf
<1>9. CapsFit(made, portion, pairs, Caps, capsOf)
  BY <1>7, <1>8 DEF CapsFit, l
<1>10. /\ rows \in Seq(AllocRec) /\ WithinCaps(rows, Caps)
       /\ CapsMet(rows, capsOf, l) /\ FromPairs(rows, pairs)
  BY <1>2, <1>6, <1>9, PourFills DEF l
<1>11. \A i \in 1 .. Len(rows) : rows[i].by = 0 /\ rows[i].charge \in C /\ rows[i].entry = p
  BY <1>6, <1>10 DEF FromPairs, l
<1>12. (\A x \in D : Taken(rows, OnEnr(x)) <= targets[x])
         /\ (\A c \in C : Taken(rows, OnCharge(c)) <= Remaining(c))
  <2>1. \A x \in D : Taken(rows, TargetCap(x, targets)[1]) <= TargetCap(x, targets)[2]
    BY <1>10 DEF WithinCaps, Caps
  <2>2. \A c \in C : Taken(rows, ChargeCap(c)[1]) <= ChargeCap(c)[2]
    BY <1>10 DEF WithinCaps, Caps
  <2> QED BY <2>1, <2>2 DEF TargetCap, ChargeCap
<1>13. ASSUME NEW c \in C
       PROVE  Taken(rows, OnEnr(enr(c))) = targets[enr(c)] \/ Taken(rows, OnCharge(c)) = Remaining(c)
  <2>1. PICK k \in 1 .. l : pairs[k] = <<source, c>>
    BY <1>1 DEF l
  <2>2. capsOf[k] = {TargetCap(enr(c), targets), ChargeCap(c)}
    BY <2>1 DEF capsOf
  <2>3. \E cap \in capsOf[k] : Taken(rows, cap[1]) = cap[2]
    BY <1>10 DEF CapsMet
  <2> QED BY <2>2, <2>3 DEF TargetCap, ChargeCap
<1> QED BY <1>10, <1>11, <1>12, <1>13 DEF PaidOut, rows, C, D

\* When no target is more than its enrollment owes, every target is met.
LEMMA PaymentExact ==
  ASSUME Tables(charge, entry, alloc), NEW p, NEW targets, NEW rows, PaidOut(rows, p, targets),
         TargetsFit(targets), NEW x \in DOMAIN targets, targets[x] <= OpenBalance(x)
  PROVE  Taken(rows, OnEnr(x)) = targets[x]
<1> SUFFICES ASSUME Taken(rows, OnEnr(x)) # targets[x] PROVE FALSE
  OBVIOUS
<1> DEFINE Cx == ChargesOf(x, {"open"})
           rem == [c \in Cx |-> Remaining(c)]
           K == [c \in Cx |-> OnCharge(c)]
<1>1. rows \in Seq(AllocRec) /\ \A j \in 1 .. Len(rows) : rows[j] \in AllocRec
  BY DEF PaidOut
<1>2. Taken(rows, OnEnr(x)) \in Nat /\ Taken(rows, OnEnr(x)) <= targets[x] /\ targets[x] \in Nat
  BY <1>1, RowTypes, TakenNat DEF PaidOut, TargetsFit
<1>3. IsFiniteSet(Cx) /\ \A c \in Cx : c \in TargetCharges(targets) /\ charge[c].enr = x
  <2>1. DOMAIN charge = 1 .. Len(charge) /\ Len(charge) \in Nat
    BY DEF Tables
  <2>2. IsFiniteSet(1 .. Len(charge)) /\ Cx \subseteq 1 .. Len(charge)
    BY <2>1, FS_Interval DEF ChargesOf
  <2>3. IsFiniteSet(Cx)
    BY <2>2, FS_Subset
  <2> QED BY <2>3 DEF ChargesOf, TargetCharges
<1>4. \A c \in Cx : Taken(rows, OnCharge(c)) = Remaining(c)
  BY <1>3 DEF PaidOut
<1>5. OpenBalance(x) = SumFunctionOnSet(rem, Cx)
  BY DEF OpenBalance, SumFunction
<1>6. \A c \in Cx : rem[c] = Taken(rows, K[c])
  BY <1>4
<1>7. ASSUME NEW j \in 1 .. Len(rows)
      PROVE  /\ rows[j] \in OnEnr(x) <=> \E c \in Cx : rows[j] \in K[c]
             /\ \A c, d \in Cx : rows[j] \in K[c] /\ rows[j] \in K[d] => c = d
  <2>1. rows[j].charge \in TargetCharges(targets) /\ rows[j] \in AllocRec
    BY <1>1 DEF PaidOut
  <2>2. rows[j].charge \in 1 .. Len(charge) /\ charge[rows[j].charge].status = "open"
    BY <2>1, TargetChargesOpen
  <2>3. charge[rows[j].charge].enr = x => rows[j].charge \in Cx
    BY <2>2 DEF ChargesOf, Tables
  <2> QED BY <1>3, <2>1, <2>3 DEF OnEnr, OnCharge
<1> DEFINE M == OnEnr(x)
<1> HIDE DEF Cx, rem, K, M
<1>8. SumFunctionOnSet(rem, Cx) = Taken(rows, M)
  <2>1. IsFiniteSet(Cx) /\ rows \in Seq(AllocRec)
    BY <1>1, <1>3
  <2>2. \A j \in 1 .. Len(rows) :
          /\ rows[j] \in M <=> \E c \in Cx : rows[j] \in K[c]
          /\ \A c, d \in Cx : rows[j] \in K[c] /\ rows[j] \in K[d] => c = d
    BY <1>7 DEF M
  <2>3. HaveAmounts(AllocRec)
    BY RowTypes
  <2> QED BY <2>1, <2>2, <2>3, <1>6, TakenClasses, SMTT(30)
<1> QED BY <1>2, <1>5, <1>8 DEF M

-----------------------------------------------------------------------------
(* The loop of Unapply.                                                    *)

LiveRows(e) == {i \in DOMAIN alloc : alloc[i].entry = e /\ alloc[i].by = 0}
NewestRows(e) == Descending(LiveRows(e))

UnapplyStart(n) == [rows |-> alloc, left |-> n]

\* What the loop does with row i.
Stamped(acc, e, i, by) ==
  IF acc.left = 0 THEN acc
  ELSE [rows |-> [acc.rows EXCEPT ![i].by = by] \o Survivor(e, alloc[i], acc.left),
        left |-> acc.left - Least(acc.left, alloc[i].amount)]

UnapplyFold(it, e, n, by) ==
  it = [s \in SUBSET (DOMAIN NewestRows(e)) |->
         IF s = {} THEN UnapplyStart(n) ELSE Stamped(it[s \ {Max(s)}], e, NewestRows(e)[Max(s)], by)]

\* Unapply is the fold of Stamped over the live rows, newest first.
LEMMA UnapplyExpanded ==
  ASSUME NEW e, NEW n, NEW by
  PROVE  Unapply(e, n, by) = (CHOOSE it : UnapplyFold(it, e, n, by))[DOMAIN NewestRows(e)].rows
BY DEF Unapply, FoldLeft, MapThenFoldSet, NewestRows, Descending, LiveRows, UnapplyStart, UnapplyFold, Stamped

UnapplyAcc == [rows : {rows \in Seq(AllocRec) : Len(rows) >= Len(alloc)}, left : Nat]

\* One row stamped.
LEMMA StampedRow ==
  ASSUME Tables(charge, entry, alloc), NEW rows \in Seq(AllocRec), Len(rows) >= Len(alloc),
         NEW i \in 1 .. Len(alloc), NEW by \in Nat
  PROVE  /\ [rows EXCEPT ![i].by = by] \in Seq(AllocRec)
         /\ Len([rows EXCEPT ![i].by = by]) = Len(rows)
         /\ [rows EXCEPT ![i].by = by] = [rows EXCEPT ![i] = [rows[i] EXCEPT !.by = by]]
         /\ [rows[i] EXCEPT !.by = by] \in AllocRec
         /\ i \in 1 .. Len(rows)
<1>1. i \in 1 .. Len(rows) /\ rows[i] \in AllocRec
  BY DEF Tables
<1>2. [rows[i] EXCEPT !.by = by] \in AllocRec
  BY <1>1 DEF AllocRec
<1>3. [rows EXCEPT ![i].by = by] = [rows EXCEPT ![i] = [rows[i] EXCEPT !.by = by]]
  BY <1>1
<1> DEFINE r == [rows[i] EXCEPT !.by = by]
<1> HIDE DEF r
<1>4. r \in AllocRec
  BY <1>2 DEF r
<1>5. [rows EXCEPT ![i] = r] \in Seq(AllocRec) /\ Len([rows EXCEPT ![i] = r]) = Len(rows)
  BY <1>1, <1>4
<1> QED BY <1>1, <1>2, <1>3, <1>5 DEF r

\* What is written again of a row that is reversed in part is a row.
LEMMA SurvivorType ==
  ASSUME Tables(charge, entry, alloc), NEW e \in Nat, NEW i \in 1 .. Len(alloc), NEW left \in Nat
  PROVE  /\ Survivor(e, alloc[i], left) \in Seq(AllocRec)
         /\ alloc[i] \in AllocRec /\ alloc[i].amount \in Nat /\ alloc[i].amount > 0
         /\ alloc[i].amount > left => Row(e, alloc[i].charge, alloc[i].amount - left) \in AllocRec
<1>1. alloc[i] \in AllocRec
  BY DEF Tables
<1>2. alloc[i].charge \in Nat /\ alloc[i].amount \in Nat /\ alloc[i].amount > 0
  BY <1>1 DEF AllocRec, Positive
<1> DEFINE r == Row(e, alloc[i].charge, alloc[i].amount - left)
<1>3. alloc[i].amount > left => r \in AllocRec
  BY <1>2 DEF Row, AllocRec, Positive
<1> HIDE DEF r
<1>4. Survivor(e, alloc[i], left) = IF alloc[i].amount > left THEN <<r>> ELSE <<>>
  BY DEF Survivor, r
<1>5. Survivor(e, alloc[i], left) \in Seq(AllocRec)
  BY <1>3, <1>4
<1> QED BY <1>1, <1>2, <1>3, <1>5 DEF r

\* The loop stays among its accumulators.
LEMMA StampedType ==
  ASSUME Tables(charge, entry, alloc), NEW acc \in UnapplyAcc, NEW e \in Nat, NEW i \in 1 .. Len(alloc),
         NEW by \in Nat
  PROVE  Stamped(acc, e, i, by) \in UnapplyAcc
<1>1. acc.rows \in Seq(AllocRec) /\ Len(acc.rows) >= Len(alloc) /\ acc.left \in Nat /\ Len(alloc) \in Nat
  BY DEF UnapplyAcc, Tables
<1> DEFINE a == [acc.rows EXCEPT ![i].by = by]
           b == Survivor(e, alloc[i], acc.left)
           m == alloc[i].amount
<1>2. a \in Seq(AllocRec) /\ Len(a) = Len(acc.rows)
  BY <1>1, StampedRow
<1>3. b \in Seq(AllocRec) /\ m \in Nat
  BY <1>1, SurvivorType
<1>4. Stamped(acc, e, i, by) = IF acc.left = 0 THEN acc ELSE [rows |-> a \o b, left |-> acc.left - Least(acc.left, m)]
  BY DEF Stamped
<1> HIDE DEF a, b, m
<1>5. a \o b \in Seq(AllocRec) /\ Len(a \o b) >= Len(alloc)
  BY <1>1, <1>2, <1>3
<1>6. acc.left - Least(acc.left, m) \in Nat
  BY <1>1, <1>3 DEF Least
<1> DEFINE ab == a \o b
<1>7. ab \in {rows \in Seq(AllocRec) : Len(rows) >= Len(alloc)}
  BY <1>5
<1> HIDE DEF ab
<1> QED BY <1>4, <1>6, <1>7 DEF UnapplyAcc, ab

\* The loop is at acc[k] after k rows.
Unapplies(acc, e, n, by) ==
  /\ acc \in [0 .. Len(NewestRows(e)) -> UnapplyAcc] /\ acc[0] = UnapplyStart(n)
  /\ \A k \in 1 .. Len(NewestRows(e)) : acc[k] = Stamped(acc[k - 1], e, NewestRows(e)[k], by)

\* The live rows of an entry, newest first.
LEMMA NewestLists ==
  ASSUME Tables(charge, entry, alloc), NEW e
  PROVE  Lists(NewestRows(e), LiveRows(e)) /\ LiveRows(e) \subseteq 1 .. Len(alloc)
<1>1. DOMAIN alloc = 1 .. Len(alloc) /\ Len(alloc) \in Nat
  BY DEF Tables
<1>2. LiveRows(e) \subseteq 1 .. Len(alloc)
  BY <1>1 DEF LiveRows
<1>3. IsFiniteSet(1 .. Len(alloc)) /\ 1 .. Len(alloc) \subseteq Nat
  BY <1>1, FS_Interval
<1>4. IsFiniteSet(LiveRows(e)) /\ LiveRows(e) \in SUBSET Nat
  BY <1>2, <1>3, FS_Subset
<1> QED BY <1>2, <1>4, NumbersOrdered DEF NewestRows

\* Unapply (_reverse_allocations) is such a loop.
LEMMA UnapplyRuns ==
  ASSUME Tables(charge, entry, alloc), NEW e \in Nat, NEW n \in Nat, NEW by \in Nat
  PROVE  \E acc : Unapplies(acc, e, n, by) /\ acc[Len(NewestRows(e))].rows = Unapply(e, n, by)
<1> DEFINE newest == NewestRows(e)
           l == Len(newest)
           V == UnapplyAcc
           start == UnapplyStart(n)
           Step(k, v) == Stamped(v, e, newest[k], by)
           step == [kv \in (1 .. l) \X V |-> Step(kv[1], kv[2])]
<1>1. Lists(newest, LiveRows(e)) /\ LiveRows(e) \subseteq 1 .. Len(alloc)
  BY NewestLists
<1> HIDE DEF newest
<1>2. l \in Nat /\ DOMAIN newest = 1 .. l /\ \A k \in 1 .. l : newest[k] \in 1 .. Len(alloc)
  BY <1>1 DEF Lists
<1> HIDE DEF l
<1>3. \A k \in 1 .. l, v \in V : Step(k, v) \in V
  BY <1>2, StampedType
<1> HIDE DEF Step
<1>4. step \in [(1 .. l) \X V -> V] /\ \A k \in 1 .. l, v \in V : step[<<k, v>>] = Step(k, v)
  BY <1>3
<1>5. start \in V
  BY DEF UnapplyStart, UnapplyAcc, Tables
<1> HIDE DEF start
<1>6. PICK it \in [SUBSET (1 .. l) -> V] : FoldsUp(it, l, V, start, step)
  <2> HIDE DEF step, V
  <2>1. Foldable(l, V, start, step)
    BY <1>2, <1>4, <1>5, FoldExists
  <2> QED BY <2>1 DEF Foldable
<1>7. UnapplyFold(it, e, n, by)
  <2>1. ASSUME NEW s \in SUBSET (1 .. l), s # {} PROVE it[s] = Step(Max(s), it[s \ {Max(s)}])
    <3>1. Max(s) \in 1 .. l /\ s \ {Max(s)} \in SUBSET (1 .. l)
      BY <1>2, <2>1, MaxIn
    <3>2. it[s \ {Max(s)}] \in V
      BY <3>1
    <3> HIDE DEF step, V
    <3>3. it[s] = step[<<Max(s), it[s \ {Max(s)}]>>]
      BY <1>6, <2>1 DEF FoldsUp
    <3> QED BY <1>4, <3>1, <3>2, <3>3
  <2>2. it[{}] = start
    BY <1>6 DEF FoldsUp
  <2>3. it = [s \in SUBSET (1 .. l) |-> it[s]]
    OBVIOUS
  <2> QED BY <1>2, <2>1, <2>2, <2>3 DEF UnapplyFold, Step, newest, start
<1> DEFINE g == CHOOSE g : UnapplyFold(g, e, n, by)
<1>8. UnapplyFold(g, e, n, by)
  BY <1>7
<1>9. Unapply(e, n, by) = g[1 .. l].rows
  BY <1>2, UnapplyExpanded DEF newest
<1> HIDE DEF g
<1>10. StepsFrom(g, l, V, start, step)
  <2>1. g[{}] = start
    BY <1>8 DEF UnapplyFold, start
  <2>2. ASSUME NEW s \in SUBSET (1 .. l), s # {}, g[s \ {Max(s)}] \in V
        PROVE  g[s] = step[<<Max(s), g[s \ {Max(s)}]>>]
    <3>1. Max(s) \in 1 .. l
      BY <1>2, <2>2, MaxIn
    <3>2. g[s] = Step(Max(s), g[s \ {Max(s)}])
      BY <1>2, <1>8, <2>2 DEF UnapplyFold, Step, newest
    <3> HIDE DEF step, V
    <3> QED BY <1>4, <2>2, <3>1, <3>2
  <2> HIDE DEF step, V
  <2> QED BY <2>1, <2>2 DEF StepsFrom
<1>11. PICK acc : Accumulates(acc, l, V, start, step) /\ acc[l] = g[1 .. l]
  <2> HIDE DEF step, V
  <2>1. FoldsTo(g[1 .. l], l, V, start, step)
    BY <1>2, <1>4, <1>5, <1>10, FoldAccumulates
  <2> QED BY <2>1 DEF FoldsTo
<1>12. acc \in [0 .. l -> V] /\ acc[0] = start /\ \A k \in 1 .. l : acc[k - 1] \in V
         /\ acc[k] = Step(k, acc[k - 1])
  <2>1. acc \in [0 .. l -> V] /\ acc[0] = start /\ \A k \in 1 .. l : acc[k] = step[<<k, acc[k - 1]>>]
    <3> HIDE DEF step
    <3> QED BY <1>11 DEF Accumulates
  <2>2. \A k \in 1 .. l : k - 1 \in 0 .. l
    BY <1>2
  <2> HIDE DEF step, V
  <2> QED BY <1>4, <2>1, <2>2
<1>13. Unapplies(acc, e, n, by)
  BY <1>12 DEF Unapplies, Step, newest, l, start
<1>14. acc[l].rows = Unapply(e, n, by)
  BY <1>9, <1>11
<1> QED BY <1>13, <1>14 DEF newest, l

-----------------------------------------------------------------------------
(* What Unapply does.                                                      *)

\* The old rows are kept, or are live rows of e and stamped; the new ones are live
\* rows of e on charges of stamped ones; no charge has gained.
Unapplied(rows, e, by) ==
  /\ rows \in Seq(AllocRec) /\ Len(rows) >= Len(alloc)
  /\ \A i \in 1 .. Len(alloc) :
       \/ rows[i] = alloc[i]
       \/ alloc[i].entry = e /\ alloc[i].by = 0 /\ rows[i] = [alloc[i] EXCEPT !.by = by]
  /\ \A i \in Len(alloc) + 1 .. Len(rows) :
       /\ rows[i].by = 0 /\ rows[i].entry = e
       /\ \E j \in 1 .. Len(alloc) : rows[j] # alloc[j] /\ alloc[j].charge = rows[i].charge
  /\ \A c : Taken(rows, LiveOn(c)) <= Taken(alloc, LiveOn(c))

\* The loop after k rows.
UnapplyLoop(acc, k, e, n, by) ==
  /\ acc \in UnapplyAcc
  /\ Unapplied(acc.rows, e, by)
  /\ \A i \in 1 .. Len(alloc) : acc.rows[i] # alloc[i] => \E j \in 1 .. k : NewestRows(e)[j] = i
  /\ acc.left <= n
  /\ Taken(acc.rows, LiveOf(e)) = Taken(alloc, LiveOf(e)) - (n - acc.left)
  /\ acc.left > 0 => /\ Len(acc.rows) = Len(alloc)
                     /\ \A j \in 1 .. k : acc.rows[NewestRows(e)[j]].by = by

\* Row i of e stamped, given of it taken off, the rest written again.
StampsOne(acc, next, e, i, by, given) ==
  /\ given \in Nat /\ next.left = acc.left - given
  /\ Taken(next.rows, LiveOf(e)) = Taken(acc.rows, LiveOf(e)) - given
  /\ \A c : Taken(next.rows, LiveOn(c)) = Taken(acc.rows, LiveOn(c)) - IF c = alloc[i].charge THEN given ELSE 0
  /\ Len(next.rows) >= Len(acc.rows)
  /\ \A j \in 1 .. Len(acc.rows) : next.rows[j] = IF j = i THEN [alloc[i] EXCEPT !.by = by] ELSE acc.rows[j]
  /\ \A j \in Len(acc.rows) + 1 .. Len(next.rows) :
       next.rows[j].by = 0 /\ next.rows[j].entry = e /\ next.rows[j].charge = alloc[i].charge
  /\ next.left > 0 => Len(next.rows) = Len(acc.rows)

\* One row stamped takes its part off the entry and off its charge, nothing else.
LEMMA StampedSums ==
  ASSUME Tables(charge, entry, alloc), NEW acc \in UnapplyAcc, acc.left > 0, NEW e \in Nat, NEW by \in Nat,
         by # 0,
         NEW i \in 1 .. Len(alloc), alloc[i].entry = e, alloc[i].by = 0, acc.rows[i] = alloc[i],
         NEW next, next = Stamped(acc, e, i, by), NEW given, given = Least(acc.left, alloc[i].amount)
  PROVE  StampsOne(acc, next, e, i, by, given)
<1> DEFINE old == acc.rows
           left == acc.left
           r == [alloc[i] EXCEPT !.by = by]
           stamped == [old EXCEPT ![i] = r]
           m == alloc[i].amount
           rest == Row(e, alloc[i].charge, m - left)
           b == Survivor(e, alloc[i], left)
<1>1. old \in Seq(AllocRec) /\ Len(old) >= Len(alloc) /\ left \in Nat /\ Len(alloc) \in Nat /\ left > 0
  BY DEF UnapplyAcc, Tables
<1>2. [old EXCEPT ![i].by = by] = stamped /\ r \in AllocRec /\ i \in 1 .. Len(old) /\ stamped \in Seq(AllocRec)
        /\ Len(stamped) = Len(old)
  <2> HIDE DEF old
  <2>1. old[i] = alloc[i]
    BY DEF old
  <2>2. /\ [old EXCEPT ![i].by = by] \in Seq(AllocRec)
        /\ Len([old EXCEPT ![i].by = by]) = Len(old)
        /\ [old EXCEPT ![i].by = by] = [old EXCEPT ![i] = [old[i] EXCEPT !.by = by]]
        /\ [old[i] EXCEPT !.by = by] \in AllocRec
        /\ i \in 1 .. Len(old)
    BY <1>1, StampedRow
  <2> QED BY <2>1, <2>2
<1>3. alloc[i] \in AllocRec /\ m \in Nat /\ m > 0 /\ b \in Seq(AllocRec) /\ (m > left => rest \in AllocRec)
  BY <1>1, SurvivorType
<1>4. next.rows = stamped \o b /\ next.left = left - given
  <2>1. next = [rows |-> [old EXCEPT ![i].by = by] \o b, left |-> left - given]
    BY <1>1 DEF Stamped
  <2> DEFINE x == [old EXCEPT ![i].by = by]
  <2>2. x = stamped
    BY <1>2
  <2>3. next = [rows |-> x \o b, left |-> left - given]
    BY <2>1
  <2> HIDE DEF x, b, left, stamped
  <2>4. next.rows = x \o b /\ next.left = left - given
    BY <2>3
  <2> QED BY <2>2, <2>4
<1>5. b = IF m > left THEN <<rest>> ELSE <<>>
  BY DEF Survivor
<1>6. r.amount = m /\ r.by = by /\ r.entry = e /\ r.charge = alloc[i].charge
  BY <1>3 DEF AllocRec
<1>7. rest.amount = m - left /\ rest.by = 0 /\ rest.entry = e /\ rest.charge = alloc[i].charge
  BY DEF Row
<1>8. r.amount = old[i].amount /\ old[i] = alloc[i]
  BY <1>6
<1> HIDE DEF r, rest, m, left, b, old
<1>9. \A K : Taken(stamped, K) = Taken(old, K) - (IF alloc[i] \in K THEN m ELSE 0) + (IF r \in K THEN m ELSE 0)
  <2>1. ASSUME NEW K
        PROVE  Taken([old EXCEPT ![i] = r], K) =
                 Taken(old, K) - (IF old[i] \in K THEN r.amount ELSE 0) + (IF r \in K THEN r.amount ELSE 0)
    <3>1. old \in Seq(AllocRec) /\ i \in 1 .. Len(old) /\ r \in AllocRec /\ r.amount = old[i].amount
      BY <1>1, <1>2, <1>8
    <3> QED BY <3>1, RowTypes, TakenStamped
  <2> QED BY <1>6, <1>8, <2>1
<1> HIDE DEF stamped
<1>10. \A K : Taken(next.rows, K) = Taken(stamped, K) + IF m > left /\ rest \in K THEN m - left ELSE 0
  <2>1. CASE m > left
    <3>1. next.rows = Append(stamped, rest)
      BY <1>2, <1>4, <1>5, <2>1
    <3>2. \A K : Taken(Append(stamped, rest), K) = Taken(stamped, K) + IF rest \in K THEN rest.amount ELSE 0
      BY <1>2, <1>3, <2>1, RowTypes, TakenAppend
    <3> QED BY <1>7, <2>1, <3>1, <3>2
  <2>2. CASE ~(m > left)
    <3>1. next.rows = stamped
      BY <1>2, <1>4, <1>5, <2>2
    <3>2. \A K : Taken(stamped, K) \in Nat
      BY <1>2, RowTypes, TakenNat
    <3> QED BY <2>2, <3>1, <3>2
  <2> QED BY <2>1, <2>2
<1>11. given \in Nat /\ given = IF m > left THEN left ELSE m
  BY <1>1, <1>3 DEF m, left, Least
<1>12. \A K : Taken(old, K) \in Nat
  BY <1>1, RowTypes, TakenNat
<1>13. Taken(next.rows, LiveOf(e)) = Taken(old, LiveOf(e)) - given
  <2>1. alloc[i] \in LiveOf(e) /\ r \notin LiveOf(e) /\ (m > left => rest \in LiveOf(e))
    BY <1>3, <1>6, <1>7 DEF LiveOf
  <2> DEFINE t == Taken(old, LiveOf(e))  u == Taken(stamped, LiveOf(e))  v == Taken(next.rows, LiveOf(e))
  <2>2. t \in Nat /\ u = t - m + 0 /\ v = u + IF m > left THEN m - left ELSE 0
    BY <1>9, <1>10, <1>12, <2>1
  <2> HIDE DEF t, u, v
  <2>3. v = t - given
    BY <1>1, <1>3, <1>11, <2>2
  <2> QED BY <2>3 DEF t, v
<1>14. ASSUME NEW c
       PROVE  Taken(next.rows, LiveOn(c)) = Taken(old, LiveOn(c)) - IF c = alloc[i].charge THEN given ELSE 0
  <2>1. (alloc[i] \in LiveOn(c) <=> c = alloc[i].charge) /\ r \notin LiveOn(c)
          /\ (m > left => (rest \in LiveOn(c) <=> c = alloc[i].charge))
    BY <1>3, <1>6, <1>7 DEF LiveOn
  <2> DEFINE t == Taken(old, LiveOn(c))  u == Taken(stamped, LiveOn(c))  v == Taken(next.rows, LiveOn(c))
             here == c = alloc[i].charge
  <2>2. t \in Nat /\ u = t - (IF here THEN m ELSE 0) + 0 /\ v = u + IF m > left /\ here THEN m - left ELSE 0
    BY <1>9, <1>10, <1>12, <2>1
  <2> HIDE DEF t, u, v, here
  <2>3. v = t - IF here THEN given ELSE 0
    BY <1>1, <1>3, <1>11, <2>2
  <2> QED BY <2>3 DEF t, v, here
<1>15. /\ Len(next.rows) >= Len(old)
       /\ \A j \in 1 .. Len(old) : next.rows[j] = IF j = i THEN r ELSE old[j]
       /\ \A j \in Len(old) + 1 .. Len(next.rows) : next.rows[j] = rest
       /\ next.left > 0 => Len(next.rows) = Len(old)
  <2>1. \A j \in 1 .. Len(old) : stamped[j] = IF j = i THEN r ELSE old[j]
    BY <1>1, <1>2 DEF stamped
  <2>2. CASE m > left
    <3>1. next.rows = Append(stamped, rest) /\ Len(next.rows) = Len(old) + 1
      <4>1. next.rows = stamped \o <<rest>>
        BY <1>4, <1>5, <2>2
      <4>2. stamped \in Seq(AllocRec) /\ rest \in AllocRec /\ Len(stamped) = Len(old)
        BY <1>2, <1>3, <2>2 DEF stamped
      <4> QED BY <4>1, <4>2
    <3>2. next.left = 0
      BY <1>1, <1>4, <1>11, <2>2
    <3>3. \A j \in 1 .. Len(old) : next.rows[j] = stamped[j]
      BY <3>1, <1>1, <1>2
    <3>4. \A j \in Len(old) + 1 .. Len(next.rows) : next.rows[j] = rest
      BY <3>1, <1>1, <1>2
    <3> QED BY <1>1, <2>1, <3>1, <3>2, <3>3, <3>4
  <2>3. CASE ~(m > left)
    <3>1. next.rows = stamped
      BY <1>2, <1>4, <1>5, <2>3 DEF stamped
    <3>2. Len(stamped) = Len(old)
      BY <1>2 DEF stamped
    <3> QED BY <1>1, <2>1, <3>1, <3>2
  <2> QED BY <2>2, <2>3
<1> QED BY <1>4, <1>7, <1>11, <1>13, <1>14, <1>15 DEF old, left, r, StampsOne

\* After every row the loop has taken off what it has used of n.
LEMMA UnapplyLoops ==
  ASSUME Tables(charge, entry, alloc), NEW e \in Nat, NEW n \in Nat, NEW by \in Nat, by # 0,
         NEW acc, Unapplies(acc, e, n, by)
  PROVE  UnapplyLoop(acc[Len(NewestRows(e))], Len(NewestRows(e)), e, n, by)
<1> DEFINE newest == NewestRows(e)
           l == Len(newest)
           Good(k) == UnapplyLoop(acc[k], k, e, n, by)
           P == {k \in Nat : k <= l => Good(k)}
<1>1. /\ l \in Nat /\ \A k \in 1 .. l : newest[k] \in 1 .. Len(alloc) /\ alloc[newest[k]].entry = e
           /\ alloc[newest[k]].by = 0
      /\ \A j, k \in 1 .. l : newest[j] = newest[k] => j = k
  <2>1. Lists(newest, LiveRows(e)) /\ LiveRows(e) \subseteq 1 .. Len(alloc)
    BY NewestLists
  <2> HIDE DEF newest
  <2>2. l \in Nat /\ (\A k \in 1 .. l : newest[k] \in LiveRows(e)) /\ \A j, k \in 1 .. l : newest[j] = newest[k]
          => j = k
    BY <2>1 DEF Lists
  <2> QED BY <2>1, <2>2 DEF LiveRows
<1>2. \A k \in 0 .. l : acc[k] \in UnapplyAcc
  BY DEF Unapplies
<1>3. alloc \in Seq(AllocRec) /\ Len(alloc) \in Nat
  BY DEF Tables
<1>4. Good(0)
  <2>1. acc[0] = UnapplyStart(n) /\ acc[0].rows = alloc /\ acc[0].left = n
    BY DEF Unapplies, UnapplyStart
  <2>2. \A K : Taken(alloc, K) \in Nat
    BY <1>3, RowTypes, TakenNat
  <2>3. Unapplied(alloc, e, by)
    BY <1>3, <2>2 DEF Unapplied
  <2>4. acc[0] \in UnapplyAcc
    BY <1>1, <1>2
  <2>5. Taken(alloc, LiveOf(e)) = Taken(alloc, LiveOf(e)) - (n - n)
    BY <2>2
  <2> QED BY <2>1, <2>3, <2>4, <2>5 DEF UnapplyLoop
<1>5. ASSUME NEW k \in Nat, k + 1 <= l, Good(k) PROVE Good(k + 1)
  <2> DEFINE i == newest[k + 1]
             a == acc[k]
             b == acc[k + 1]
             old == a.rows
             new == b.rows
             given == Least(a.left, alloc[i].amount)
             inew == Len(old) + 1 .. Len(new)
  <2>1. k + 1 \in 1 .. l /\ k \in 0 .. l /\ k + 1 \in 0 .. l /\ k + 1 - 1 = k /\ 1 .. k \subseteq 1 .. l
          /\ k + 1 \notin 1 .. k
    BY <1>1, <1>5
  <2>2. a \in UnapplyAcc /\ b \in UnapplyAcc /\ b = Stamped(a, e, i, by)
    BY <2>1, <1>2 DEF Unapplies
  <2>3. i \in 1 .. Len(alloc) /\ alloc[i].entry = e /\ alloc[i].by = 0 /\ \A j \in 1 .. k : newest[j] # i
    BY <1>1, <2>1
  <2>4. /\ Unapplied(old, e, by)
        /\ \A j \in 1 .. Len(alloc) : old[j] # alloc[j] => \E h \in 1 .. k : newest[h] = j
        /\ a.left <= n
        /\ Taken(old, LiveOf(e)) = Taken(alloc, LiveOf(e)) - (n - a.left)
        /\ a.left > 0 => Len(old) = Len(alloc) /\ \A j \in 1 .. k : old[newest[j]].by = by
    BY <1>5 DEF UnapplyLoop
  <2>5. a.left \in Nat /\ b.left \in Nat /\ old \in Seq(AllocRec) /\ new \in Seq(AllocRec)
          /\ Len(old) >= Len(alloc) /\ Len(new) >= Len(alloc)
    BY <2>2 DEF UnapplyAcc
  <2>6. CASE a.left = 0
    <3>1. b = a
      BY <2>2, <2>6 DEF Stamped
    <3>2. \A j \in 1 .. Len(alloc) : old[j] # alloc[j] => \E h \in 1 .. k + 1 : newest[h] = j
      <4>1. \A h \in 1 .. k : h \in 1 .. k + 1
        BY <1>5
      <4> HIDE DEF newest, old
      <4> QED BY <2>4, <4>1
    <3>3. UnapplyLoop(b, k + 1, e, n, by)
      <4>1. ~(a.left > 0)
        BY <2>6
      <4> HIDE DEF a, b
      <4> QED BY <2>2, <2>4, <3>1, <3>2, <4>1 DEF UnapplyLoop
    <3> QED BY <3>3
  <2>7. CASE a.left # 0
    <3>1. a.left > 0 /\ Len(old) = Len(alloc) /\ old[i] = alloc[i] /\ \A j \in 1 .. k : old[newest[j]].by = by
      <4>1. a.left > 0
        BY <2>5, <2>7
      <4>2. old[i] = alloc[i]
        <5> HIDE DEF newest, old, i
        <5> QED BY <2>3, <2>4
      <4> QED BY <2>4, <4>1, <4>2
    <3>2. /\ given \in Nat /\ b.left = a.left - given
          /\ Taken(new, LiveOf(e)) = Taken(old, LiveOf(e)) - given
          /\ \A c : Taken(new, LiveOn(c)) = Taken(old, LiveOn(c)) - IF c = alloc[i].charge THEN given ELSE 0
          /\ Len(new) >= Len(old)
          /\ \A j \in 1 .. Len(old) : new[j] = IF j = i THEN [alloc[i] EXCEPT !.by = by] ELSE old[j]
          /\ \A j \in inew : new[j].by = 0 /\ new[j].entry = e /\ new[j].charge = alloc[i].charge
          /\ b.left > 0 => Len(new) = Len(old)
      <4> HIDE DEF i, a, b, given
      <4>1. given = Least(a.left, alloc[i].amount)
        BY DEF given
      <4>2. StampsOne(a, b, e, i, by, given)
        BY <2>2, <2>3, <3>1, <4>1, StampedSums
      <4> QED BY <4>2 DEF StampsOne
    <3> HIDE DEF i, a, b, old, new, given, newest
    <3>3. alloc[i] \in AllocRec /\ [alloc[i] EXCEPT !.by = by] # alloc[i] /\ [alloc[i] EXCEPT !.by = by].by = by
      <4>1. alloc[i] \in AllocRec
        BY <2>3, <1>3
      <4>2. [alloc[i] EXCEPT !.by = by].by = by
        BY <4>1 DEF AllocRec
      <4> QED BY <4>1, <4>2, <2>3
    <3>4. \A j \in 1 .. Len(alloc) : new[j] = IF j = i THEN [alloc[i] EXCEPT !.by = by] ELSE old[j]
      BY <3>1, <3>2
    <3>5. \A K : Taken(old, K) \in Nat /\ Taken(alloc, K) \in Nat
      BY <2>5, <1>3, RowTypes, TakenNat
    <3>6. Unapplied(new, e, by)
      <4>1. ASSUME NEW j \in 1 .. Len(alloc)
            PROVE  \/ new[j] = alloc[j]
                   \/ alloc[j].entry = e /\ alloc[j].by = 0 /\ new[j] = [alloc[j] EXCEPT !.by = by]
        <5>1. \/ old[j] = alloc[j]
              \/ alloc[j].entry = e /\ alloc[j].by = 0 /\ old[j] = [alloc[j] EXCEPT !.by = by]
          BY <2>4 DEF Unapplied
        <5>2. new[j] = IF j = i THEN [alloc[i] EXCEPT !.by = by] ELSE old[j]
          BY <3>4
        <5> QED BY <5>1, <5>2, <2>3
      <4>2. ASSUME NEW j \in Len(alloc) + 1 .. Len(new)
            PROVE  /\ new[j].by = 0 /\ new[j].entry = e
                   /\ \E h \in 1 .. Len(alloc) : new[h] # alloc[h] /\ alloc[h].charge = new[j].charge
        <5>1. new[j].by = 0 /\ new[j].entry = e /\ new[j].charge = alloc[i].charge
          BY <3>1, <3>2 DEF inew
        <5>2. new[i] # alloc[i]
          BY <2>3, <3>3, <3>4
        <5> QED BY <2>3, <5>1, <5>2
      <4>3. ASSUME NEW c PROVE Taken(new, LiveOn(c)) <= Taken(alloc, LiveOn(c))
        <5>1. Taken(old, LiveOn(c)) <= Taken(alloc, LiveOn(c))
          BY <2>4 DEF Unapplied
        <5>2. Taken(new, LiveOn(c)) = Taken(old, LiveOn(c)) - IF c = alloc[i].charge THEN given ELSE 0
          BY <3>2
        <5>3. given \in Nat /\ Taken(old, LiveOn(c)) \in Nat /\ Taken(alloc, LiveOn(c)) \in Nat
          BY <3>2, <3>5
        <5> QED BY <5>1, <5>2, <5>3
      <4> QED BY <2>5, <4>1, <4>2, <4>3 DEF Unapplied
    <3>7. ASSUME NEW j \in 1 .. Len(alloc), new[j] # alloc[j] PROVE \E h \in 1 .. k + 1 : newest[h] = j
      <4>1. CASE j = i
        <5>1. k + 1 \in 1 .. k + 1
          BY <1>5
        <5> QED BY <4>1, <5>1 DEF i
      <4>2. CASE j # i
        <5>1. PICK h \in 1 .. k : newest[h] = j
          BY <2>4, <3>4, <3>7, <4>2
        <5> QED BY <5>1
      <4> QED BY <4>1, <4>2
    <3>8. b.left <= n /\ Taken(new, LiveOf(e)) = Taken(alloc, LiveOf(e)) - (n - b.left)
      <4> DEFINE t == Taken(old, LiveOf(e))  u == Taken(new, LiveOf(e))  v == Taken(alloc, LiveOf(e))
                 la == a.left  lb == b.left
      <4>1. t \in Nat /\ v \in Nat /\ la \in Nat /\ given \in Nat /\ lb = la - given /\ u = t - given
              /\ t = v - (n - la) /\ la <= n
        BY <2>4, <2>5, <3>2, <3>5
      <4> HIDE DEF t, u, v, la, lb
      <4>2. lb <= n /\ u = v - (n - lb)
        BY <4>1
      <4> QED BY <4>2 DEF u, v, lb
    <3>9. ASSUME b.left > 0
          PROVE  Len(new) = Len(alloc) /\ \A j \in 1 .. k + 1 : new[newest[j]].by = by
      <4>1. Len(new) = Len(alloc)
        BY <3>1, <3>2, <3>9
      <4>2. ASSUME NEW j \in 1 .. k + 1 PROVE new[newest[j]].by = by
        <5>1. CASE j = k + 1
          <6>1. newest[j] = i /\ new[i] = [alloc[i] EXCEPT !.by = by]
            BY <5>1, <2>3, <3>4 DEF i
          <6> QED BY <6>1, <3>3
        <5>2. CASE j \in 1 .. k
          <6>1. newest[j] \in 1 .. Len(alloc) /\ newest[j] # i /\ old[newest[j]].by = by
            BY <5>2, <2>1, <2>3, <3>1, <1>1 DEF l
          <6> QED BY <6>1, <3>4
        <5> QED BY <5>1, <5>2, <1>5
      <4> QED BY <4>1, <4>2
    <3>10. UnapplyLoop(b, k + 1, e, n, by)
      BY <2>2, <3>6, <3>7, <3>8, <3>9 DEF UnapplyLoop, new, newest
    <3> QED BY <3>10 DEF b
  <2> QED BY <2>6, <2>7
<1> HIDE DEF Good
<1>6. \A k \in Nat : k \in P
  <2>1. 0 \in P
    BY <1>4
  <2>2. \A k \in Nat : k \in P => k + 1 \in P
    BY <1>1, <1>5
  <2> HIDE DEF P
  <2> QED BY <2>1, <2>2, NatInduct
<1>7. Good(l)
  BY <1>1, <1>6
<1> QED BY <1>7 DEF Good

\* Unapply takes n off what is applied of an entry, or all of it.
LEMMA UnapplyTakes ==
  ASSUME Tables(charge, entry, alloc), NEW e \in Nat, NEW n \in Nat, NEW by \in Nat, by # 0
  PROVE  /\ Unapplied(Unapply(e, n, by), e, by)
         /\ Taken(Unapply(e, n, by), LiveOf(e)) = Taken(alloc, LiveOf(e)) - Least(n, Taken(alloc, LiveOf(e)))
<1> DEFINE newest == NewestRows(e)
           l == Len(newest)
           rows == Unapply(e, n, by)
           t == Taken(alloc, LiveOf(e))
           u == Taken(rows, LiveOf(e))
<1>1. PICK acc : Unapplies(acc, e, n, by) /\ acc[l].rows = rows
  BY UnapplyRuns
<1>2. UnapplyLoop(acc[l], l, e, n, by)
  BY <1>1, UnapplyLoops
<1> DEFINE left == acc[l].left
<1>3. /\ left \in Nat /\ Unapplied(rows, e, by) /\ left <= n /\ u = t - (n - left)
      /\ left > 0 => Len(rows) = Len(alloc) /\ \A j \in 1 .. l : rows[newest[j]].by = by
  BY <1>1, <1>2 DEF UnapplyLoop, UnapplyAcc
<1>4. t \in Nat /\ u \in Nat /\ rows \in Seq(AllocRec)
  <2>1. alloc \in Seq(AllocRec) /\ rows \in Seq(AllocRec)
    BY <1>3 DEF Tables, Unapplied
  <2> QED BY <2>1, RowTypes, TakenNat
<1>5. Lists(newest, LiveRows(e)) /\ LiveRows(e) \subseteq 1 .. Len(alloc)
  BY NewestLists
<1> HIDE DEF rows, newest
<1>6. left > 0 => u = 0
  <2> SUFFICES ASSUME left > 0 PROVE u = 0
    OBVIOUS
  <2>1. Len(rows) = Len(alloc) /\ \A j \in 1 .. l : rows[newest[j]].by = by
    BY <1>3
  <2>2. ASSUME NEW i \in 1 .. Len(rows) PROVE rows[i] \notin LiveOf(e)
    <3>1. CASE i \in LiveRows(e)
      <4>1. PICK j \in 1 .. l : newest[j] = i
        BY <1>5, <3>1 DEF Lists
      <4> QED BY <4>1, <2>1 DEF LiveOf
    <3>2. CASE i \notin LiveRows(e)
      <4>1. i \in 1 .. Len(alloc) /\ i \in DOMAIN alloc
        BY <2>1 DEF Tables
      <4>2. ~(alloc[i].entry = e /\ alloc[i].by = 0)
        BY <3>2, <4>1 DEF LiveRows
      <4>3. rows[i] = alloc[i]
        BY <1>3, <4>1, <4>2 DEF Unapplied
      <4> QED BY <4>2, <4>3 DEF LiveOf
    <3> QED BY <3>1, <3>2
  <2> QED BY <1>4, <2>2, RowTypes, TakenNone
<1> HIDE DEF left, t, u
<1>7. u = t - Least(n, t)
  BY <1>3, <1>4, <1>6 DEF Least
<1> QED BY <1>3, <1>7 DEF rows, t, u

=============================================================================
