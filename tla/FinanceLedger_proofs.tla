------------------------ MODULE FinanceLedger_proofs ------------------------
(***************************************************************************)
(* The inductive invariant of FinanceLedger, its invariants and its action *)
(* properties.  Every operation is first shown to be a step of one of a    *)
(* few kinds (credit that is entered and applied, charges that are billed, *)
(* rows that are freed, a reversal, a grant), and each kind to keep the    *)
(* invariant.                                                              *)
(***************************************************************************)
EXTENDS LedgerRows

-----------------------------------------------------------------------------
(* The inductive invariant.                                                *)

\* A charge belongs to an enrollment that was made.
ChargesEnrolled(ch, enrolled) == \A c \in 1 .. Len(ch) : enrolled[ch[c].enr].status # "none"

LiveOnce(ch) ==
  \A c, d \in 1 .. Len(ch) :
    ch[c].status # "cancelled" /\ ch[d].status # "cancelled" /\ ch[c].enr = ch[d].enr /\ ch[c].seq = ch[d].seq
      => c = d

\* The status of a charge is what is allocated to it.
StatusSettled(status, paid, amount) ==
  /\ paid <= amount
  /\ status = "cancelled" => paid = 0
  /\ status # "cancelled" => (status = "settled" <=> paid = amount)
Settled(ch, al) == \A c \in 1 .. Len(ch) : StatusSettled(ch[c].status, Taken(al, LiveOn(c)), ch[c].amount)

\* What an entry can pay for covers what it has paid for and what was paid back.
Funded(en, al) ==
  \A e \in 1 .. Len(en) : en[e].type \in {"payment", "adjustment", "discount"} =>
    /\ Taken(al, SpentOf(en, e)) + Taken(en, CashOf(e)) <= en[e].amount
    /\ Taken(en, RefundOf(e)) <= en[e].amount

\* A refund is of a payment that stands, and nothing is paid by a payment that was voided.
RefundsStand(en) ==
  \A r \in 1 .. Len(en) : en[r].type \in {"refund", "void"} =>
    /\ en[r].reverses \in 1 .. Len(en) /\ en[en[r].reverses].type = "payment"
    /\ en[r].type = "refund" => ~VoidedIn(en, en[r].reverses)
VoidsHold(en, al) == \A i \in 1 .. Len(al) : al[i].by = 0 => ~VoidedIn(en, al[i].entry)

\* The inductive invariant; its parts lean on each other.
LedgerInv ==
  /\ Calendar
  /\ Tables(charge, entry, alloc)
  /\ References(charge, entry, alloc)
  /\ ChargesEnrolled(charge, enrollment)
  /\ LiveOnce(charge)
  /\ Settled(charge, alloc)
  /\ Funded(entry, alloc)
  /\ RefundsStand(entry)
  /\ VoidsHold(entry, alloc)

-----------------------------------------------------------------------------
(* A ledger that has grown: entries are never changed.                     *)

Longer(en, longer) ==
  /\ en \in Seq(EntryRec) /\ longer \in Seq(EntryRec) /\ Len(longer) >= Len(en)
  /\ \A e \in 1 .. Len(en) : longer[e] = en[e]

\* What a row consumes does not depend on what was entered after it.
LEMMA ConsumesStays ==
  ASSUME NEW en, NEW longer, Longer(en, longer), NEW r, r.entry \in 1 .. Len(en), r.by \in Nat, r.by <= Len(en)
  PROVE  ConsumesIn(longer, r) <=> ConsumesIn(en, r)
<1>1. Len(en) \in Nat
  BY DEF Longer
<1>2. r.by # 0 => r.by \in 1 .. Len(en)
  BY <1>1
<1> QED BY <1>2 DEF ConsumesIn, Longer

\* What is voided stays voided, and only a new void voids.
LEMMA VoidedStays ==
  ASSUME NEW en, NEW longer, Longer(en, longer), NEW e
  PROVE  /\ VoidedIn(en, e) => VoidedIn(longer, e)
         /\ VoidedIn(longer, e) => \/ VoidedIn(en, e)
                                   \/ \E v \in Len(en) + 1 .. Len(longer) : longer[v].type = "void"
                                        /\ longer[v].reverses = e
<1>1. Len(en) \in Nat /\ Len(longer) \in Nat /\ DOMAIN en = 1 .. Len(en) /\ DOMAIN longer = 1 .. Len(longer)
        /\ Len(longer) >= Len(en)
  BY DEF Longer
<1>2. \A v \in 1 .. Len(en) : v \in 1 .. Len(longer) /\ longer[v] = en[v]
  BY <1>1 DEF Longer
<1>3. \A v \in 1 .. Len(longer) : v \in 1 .. Len(en) \/ v \in Len(en) + 1 .. Len(longer)
  BY <1>1
<1> QED BY <1>1, <1>2, <1>3 DEF VoidedIn

\* A kind of entries none of which is new.
LEMMA NoneEntered ==
  ASSUME NEW en, NEW longer, Longer(en, longer), NEW K,
         \A e \in Len(en) + 1 .. Len(longer) : longer[e] \notin K
  PROVE  Taken(longer, K) = Taken(en, K)
<1>1. en \in Seq(EntryRec) /\ longer \in Seq(EntryRec) /\ Len(longer) >= Len(en) /\ Len(en) \in Nat
        /\ Len(longer) \in Nat
  BY DEF Longer
<1>2. \A j \in 1 .. Len(en) : longer[j].amount = en[j].amount /\ (en[j] \in K <=> longer[j] \in K)
  BY DEF Longer
<1>3. \A j \in 1 .. Len(longer) : longer[j] \in K => j \in 1 .. Len(en)
  BY <1>1
<1> QED BY <1>1, <1>2, <1>3, RowTypes, TakenKept

\* The references of the rows, seen from a row.
LEMMA RowRefers ==
  ASSUME NEW ch, NEW en, NEW al, Tables(ch, en, al), References(ch, en, al), NEW i \in 1 .. Len(al)
  PROVE  /\ al[i] \in AllocRec /\ al[i].entry \in 1 .. Len(en) /\ al[i].charge \in 1 .. Len(ch)
         /\ al[i].by \in Nat /\ al[i].by <= Len(en) /\ al[i].amount \in Nat /\ al[i].amount > 0
         /\ al[i].entry \in Nat /\ al[i].charge \in Nat
<1>1. al[i] \in AllocRec
  BY DEF Tables
<1>2. al[i].by \in Nat /\ al[i].amount \in Nat /\ al[i].amount > 0 /\ al[i].entry \in Nat
        /\ al[i].charge \in Nat
  BY <1>1 DEF AllocRec, Positive
<1> QED BY <1>1, <1>2 DEF References

\* The fields of an entry.
LEMMA EntryFacts ==
  ASSUME NEW en \in Seq(EntryRec), NEW e \in 1 .. Len(en)
  PROVE  /\ en[e] \in EntryRec /\ en[e].amount \in Nat /\ en[e].amount > 0 /\ en[e].reverses \in Nat
         /\ en[e].type \in EntryTypes /\ en[e].at \in AccountingMonths /\ e \in Nat
<1>1. en[e] \in EntryRec /\ e \in Nat
  OBVIOUS
<1>2. Positive \subseteq Nat /\ \A p \in Positive : p > 0
  BY DEF Positive
<1> QED BY <1>1, <1>2 DEF EntryRec

-----------------------------------------------------------------------------
(* Credit and discounts entered and applied.                               *)

\* The entries reverse nothing.
GivesCredit(more) ==
  /\ more \in Seq(EntryRec)
  /\ \A k \in 1 .. Len(more) : more[k].type \in {"payment", "adjustment", "discount"} /\ more[k].reverses = 0

\* The rows are live, of the new entries within their amounts or of old credits
\* within what is available.
Applies(rows, more) ==
  /\ rows \in Seq(AllocRec)
  /\ \A i \in 1 .. Len(rows) :
       /\ rows[i].by = 0 /\ rows[i].charge \in 1 .. Len(charge)
       /\ rows[i].entry \in CreditsIn(entry) \/ rows[i].entry \in Len(entry) + 1 .. Len(entry) + Len(more)
  /\ \A e \in CreditsIn(entry) :
       Taken(rows, OfEntry(e)) + Taken(alloc, SpentOf(entry, e)) + Taken(entry, CashOf(e)) <= entry[e].amount
  /\ \A k \in 1 .. Len(more) : Taken(rows, OfEntry(Len(entry) + k)) <= more[k].amount

\* Entries written behind others.
LEMMA LongerBy ==
  ASSUME NEW en \in Seq(EntryRec), NEW more \in Seq(EntryRec)
  PROVE  /\ Longer(en, en \o more) /\ Len(en \o more) = Len(en) + Len(more)
         /\ \A k \in 1 .. Len(more) : (en \o more)[Len(en) + k] = more[k]
         /\ \A e \in Len(en) + 1 .. Len(en \o more) : \E k \in 1 .. Len(more) : e = Len(en) + k
              /\ (en \o more)[e] = more[k]
<1> DEFINE longer == en \o more
<1>1. longer \in Seq(EntryRec) /\ Len(longer) = Len(en) + Len(more) /\ Len(en) \in Nat /\ Len(more) \in Nat
  OBVIOUS
<1>2. (\A e \in 1 .. Len(en) : longer[e] = en[e]) /\ (\A k \in 1 .. Len(more) : longer[Len(en) + k] = more[k])
  OBVIOUS
<1>3. \A e \in Len(en) + 1 .. Len(longer) : e - Len(en) \in 1 .. Len(more) /\ e = Len(en) + (e - Len(en))
  BY <1>1
<1> HIDE DEF longer
<1>4. Longer(en, longer)
  BY <1>1, <1>2 DEF Longer
<1> QED BY <1>1, <1>2, <1>3, <1>4 DEF longer

\* The tables after credit that is entered and applied: no reference dangles, no entry
\* is overspent, no refund or void has lost its payment.
LEMMA CreditGiven ==
  ASSUME Tables(charge, entry, alloc), References(charge, entry, alloc), Funded(entry, alloc),
         RefundsStand(entry), VoidsHold(entry, alloc), NEW more, GivesCredit(more), NEW rows, Applies(rows, more)
  PROVE  /\ entry \o more \in Seq(EntryRec) /\ alloc \o rows \in Seq(AllocRec)
         /\ References(charge, entry \o more, alloc \o rows) /\ Funded(entry \o more, alloc \o rows)
         /\ RefundsStand(entry \o more) /\ VoidsHold(entry \o more, alloc \o rows)
<1> DEFINE en == entry \o more
           al == alloc \o rows
           n == Len(entry)
<1>1. entry \in Seq(EntryRec) /\ alloc \in Seq(AllocRec) /\ more \in Seq(EntryRec) /\ rows \in Seq(AllocRec)
        /\ n \in Nat
  BY DEF Tables, GivesCredit, Applies
<1>2. /\ Longer(entry, en) /\ Len(en) = n + Len(more)
      /\ \A k \in 1 .. Len(more) : en[n + k] = more[k]
      /\ \A e \in n + 1 .. Len(en) : \E k \in 1 .. Len(more) : e = n + k /\ en[e] = more[k]
  BY <1>1, LongerBy
<1>3. al \in Seq(AllocRec) /\ en \in Seq(EntryRec) /\ Len(al) = Len(alloc) + Len(rows) /\ Len(alloc) \in Nat
        /\ Len(rows) \in Nat /\ Len(more) \in Nat
  BY <1>1
<1>20. Len(en) \in Nat /\ n <= Len(en) /\ 1 .. n \subseteq 1 .. Len(en)
         /\ n + 1 .. n + Len(more) \subseteq 1 .. Len(en)
  <2>1. Len(en) = n + Len(more)
    BY <1>2
  <2> HIDE DEF en
  <2> QED BY <2>1, <1>1, <1>3
<1>4. /\ \A i \in 1 .. Len(alloc) : al[i] = alloc[i]
      /\ \A i \in Len(alloc) + 1 .. Len(al) : i - Len(alloc) \in 1 .. Len(rows) /\ al[i] = rows[i - Len(alloc)]
  BY <1>1
<1>5. \A K : Taken(al, K) = Taken(alloc, K) + Taken(rows, K) /\ Taken(alloc, K) \in Nat
        /\ Taken(rows, K) \in Nat
  BY <1>1, RowTypes, TakenConcat, TakenNat
<1> HIDE DEF en, al
<1>6. \A e \in n + 1 .. Len(en) : en[e].type \in {"payment", "adjustment", "discount"} /\ en[e].reverses = 0
  BY <1>2 DEF GivesCredit
<1>7. \A e \in 1 .. n : en[e] = entry[e] /\ e \in 1 .. Len(en)
  BY <1>2, <1>1, <1>3 DEF Longer
<1>8. \A e \in 1 .. Len(en) : e \in 1 .. n \/ e \in n + 1 .. Len(en)
  BY <1>1, <1>2, <1>3
<1>9. \A e : VoidedIn(en, e) <=> VoidedIn(entry, e)
  <2> SUFFICES ASSUME NEW e PROVE VoidedIn(en, e) <=> VoidedIn(entry, e)
    OBVIOUS
  <2>1. /\ VoidedIn(entry, e) => VoidedIn(en, e)
        /\ VoidedIn(en, e) => \/ VoidedIn(entry, e)
                              \/ \E v \in n + 1 .. Len(en) : en[v].type = "void" /\ en[v].reverses = e
    BY <1>2, VoidedStays
  <2>2. \A v \in n + 1 .. Len(en) : en[v].type # "void"
    BY <1>6
  <2> QED BY <2>1, <2>2
<1>10. CreditsIn(entry) \subseteq 1 .. n
  BY <1>1 DEF CreditsIn
<1>11. References(charge, en, al)
  <2>1. \A e \in 1 .. Len(en) : en[e].reverses <= Len(en)
    <3>1. ASSUME NEW e \in 1 .. Len(en) PROVE en[e].reverses <= Len(en)
      <4>1. CASE e \in 1 .. n
        <5>1. entry[e].reverses <= n /\ entry[e].reverses \in Nat
          BY <1>1, <4>1, EntryFacts DEF References
        <5> QED BY <4>1, <5>1, <1>1, <1>2, <1>3, <1>7
      <4>2. CASE e \in n + 1 .. Len(en)
        BY <4>2, <1>6, <1>20
      <4> QED BY <4>1, <4>2, <1>8
    <3> QED BY <3>1
  <2>2. ASSUME NEW i \in 1 .. Len(al)
        PROVE  al[i].entry \in 1 .. Len(en) /\ al[i].charge \in 1 .. Len(charge) /\ al[i].by <= Len(en)
    <3>1. CASE i \in 1 .. Len(alloc)
      <4>1. alloc[i].entry \in 1 .. n /\ alloc[i].charge \in 1 .. Len(charge) /\ alloc[i].by <= n
              /\ alloc[i].by \in Nat
        BY <3>1, RowRefers
      <4>2. al[i] = alloc[i]
        BY <3>1, <1>4
      <4> QED BY <4>1, <4>2, <1>1, <1>20
    <3>2. CASE i \in Len(alloc) + 1 .. Len(al)
      <4> DEFINE k == i - Len(alloc)
      <4>1. k \in 1 .. Len(rows) /\ al[i] = rows[k]
        BY <3>2, <1>4
      <4> HIDE DEF k
      <4>2. rows[k].by = 0 /\ rows[k].charge \in 1 .. Len(charge)
              /\ (rows[k].entry \in 1 .. n \/ rows[k].entry \in n + 1 .. n + Len(more))
        BY <4>1, <1>10 DEF Applies
      <4> QED BY <4>1, <4>2, <1>20
    <3> QED BY <3>1, <3>2, <1>3
  <2> QED BY <2>1, <2>2 DEF References
<1>12. RefundsStand(en)
  <2> SUFFICES ASSUME NEW r \in 1 .. Len(en), en[r].type \in {"refund", "void"}
               PROVE  /\ en[r].reverses \in 1 .. Len(en) /\ en[en[r].reverses].type = "payment"
                      /\ en[r].type = "refund" => ~VoidedIn(en, en[r].reverses)
    BY DEF RefundsStand
  <2>1. r \in 1 .. n /\ en[r] = entry[r]
    BY <1>6, <1>7, <1>8
  <2>2. /\ entry[r].reverses \in 1 .. n /\ entry[entry[r].reverses].type = "payment"
        /\ entry[r].type = "refund" => ~VoidedIn(entry, entry[r].reverses)
    BY <2>1 DEF RefundsStand
  <2> QED BY <2>1, <2>2, <1>7, <1>9
<1>13. VoidsHold(en, al)
  <2> SUFFICES ASSUME NEW i \in 1 .. Len(al), al[i].by = 0 PROVE ~VoidedIn(entry, al[i].entry)
    BY <1>9 DEF VoidsHold
  <2>1. CASE i \in 1 .. Len(alloc)
    BY <2>1, <1>4 DEF VoidsHold
  <2>2. CASE i \in Len(alloc) + 1 .. Len(al)
    <3> DEFINE k == i - Len(alloc)
    <3>1. k \in 1 .. Len(rows) /\ al[i] = rows[k]
      BY <2>2, <1>4
    <3> HIDE DEF k
    <3>2. CASE rows[k].entry \in CreditsIn(entry)
      BY <3>1, <3>2 DEF CreditsIn
    <3>3. CASE rows[k].entry \in n + 1 .. n + Len(more)
      <4>1. \A v \in DOMAIN entry : entry[v].reverses <= n
        BY <1>1 DEF References
      <4>2. \A v \in DOMAIN entry : entry[v].reverses \in Nat
        BY <1>1, EntryFacts, SMTT(30)
      <4>3. rows[k].entry > n /\ rows[k].entry \in Int
        BY <3>3, <1>1, <1>3
      <4> QED BY <3>1, <4>1, <4>2, <4>3, <1>1 DEF VoidedIn
    <3> QED BY <3>1, <3>2, <3>3 DEF Applies
  <2> QED BY <2>1, <2>2, <1>3
<1>14. Funded(en, al)
  <2> SUFFICES ASSUME NEW e \in 1 .. Len(en), en[e].type \in {"payment", "adjustment", "discount"}
               PROVE  /\ Taken(al, SpentOf(en, e)) + Taken(en, CashOf(e)) <= en[e].amount
                      /\ Taken(en, RefundOf(e)) <= en[e].amount
    BY DEF Funded
  <2>1. Taken(en, CashOf(e)) = Taken(entry, CashOf(e)) /\ Taken(en, RefundOf(e)) = Taken(entry, RefundOf(e))
    <3>1. \A d \in n + 1 .. Len(en) : en[d] \notin CashOf(e) /\ en[d] \notin RefundOf(e)
      BY <1>6 DEF CashOf, RefundOf
    <3> QED BY <3>1, <1>2, NoneEntered
  <2>2. Taken(alloc, SpentOf(en, e)) = Taken(alloc, SpentOf(entry, e))
    <3>1. \A i \in 1 .. Len(alloc) : alloc[i] \in SpentOf(entry, e) <=> alloc[i] \in SpentOf(en, e)
      BY <1>2, RowRefers, ConsumesStays DEF SpentOf
    <3> QED BY <3>1, <1>1, RowTypes, TakenSame
  <2>3. Taken(rows, SpentOf(en, e)) = Taken(rows, OfEntry(e))
    <3>1. \A i \in 1 .. Len(rows) : rows[i] \in OfEntry(e) <=> rows[i] \in SpentOf(en, e)
      BY DEF SpentOf, OfEntry, ConsumesIn, Applies
    <3> QED BY <3>1, <1>1, RowTypes, TakenSame
  <2> DEFINE s == Taken(alloc, SpentOf(entry, e))  t == Taken(rows, OfEntry(e))  c == Taken(entry, CashOf(e))
             f == Taken(entry, RefundOf(e))
  <2>4. Taken(al, SpentOf(en, e)) = s + t /\ s \in Nat /\ t \in Nat /\ c \in Nat /\ f \in Nat
    <3>1. c \in Nat /\ f \in Nat
      BY <1>1, RowTypes, TakenNat
    <3> QED BY <3>1, <1>5, <2>2, <2>3
  <2>5. CASE e \in 1 .. n
    <3>1. en[e] = entry[e] /\ s + c <= entry[e].amount /\ f <= entry[e].amount /\ entry[e].amount \in Nat
      BY <2>5, <1>1, <1>7, EntryFacts DEF Funded
    <3>2. CASE e \in CreditsIn(entry)
      <4>1. t + s + c <= entry[e].amount
        BY <3>2 DEF Applies
      <4> HIDE DEF s, t, c, f
      <4> QED BY <2>1, <2>4, <3>1, <4>1 DEF c, f
    <3>3. CASE e \notin CreditsIn(entry)
      <4>1. t = 0
        <5>1. \A i \in 1 .. Len(rows) : rows[i] \notin OfEntry(e)
          <6>1. \A i \in 1 .. Len(rows) : rows[i].entry \in CreditsIn(entry) \/ rows[i].entry \in n + 1 .. n + Len(more)
            BY DEF Applies
          <6>2. e \notin n + 1 .. n + Len(more)
            BY <2>5, <1>1, <1>3
          <6> QED BY <3>3, <6>1, <6>2 DEF OfEntry
        <5> QED BY <5>1, <1>1, RowTypes, TakenNone
      <4> HIDE DEF s, t, c, f
      <4> QED BY <2>1, <2>4, <3>1, <4>1 DEF c, f
    <3> QED BY <3>2, <3>3
  <2>6. CASE e \in n + 1 .. Len(en)
    <3>1. PICK k \in 1 .. Len(more) : e = n + k /\ en[e] = more[k]
      BY <2>6, <1>2
    <3>2. t <= en[e].amount /\ en[e].amount \in Nat
      BY <3>1, <1>1, EntryFacts DEF Applies
    <3>3. s = 0
      <4>1. \A i \in 1 .. Len(alloc) : alloc[i] \notin SpentOf(entry, e)
        <5>1. e \notin 1 .. n
          BY <2>6, <1>1
        <5> QED BY <5>1, RowRefers DEF SpentOf
      <4> QED BY <4>1, <1>1, RowTypes, TakenNone
    <3>4. c = 0 /\ f = 0
      <4>1. \A d \in 1 .. Len(entry) : entry[d].reverses <= n /\ entry[d].reverses \in Nat
        BY <1>1, EntryFacts DEF References
      <4>2. e > n /\ e \in Int
        BY <2>6, <1>1
      <4>3. \A d \in 1 .. Len(entry) : entry[d].reverses # e
        BY <4>1, <4>2, <1>1
      <4>4. \A d \in 1 .. Len(entry) : entry[d] \notin CashOf(e) /\ entry[d] \notin RefundOf(e)
        BY <4>3 DEF CashOf, RefundOf
      <4> QED BY <4>4, <1>1, RowTypes, TakenNone
    <3> HIDE DEF s, t, c, f
    <3> QED BY <2>1, <2>4, <3>2, <3>3, <3>4 DEF c, f
  <2> QED BY <2>5, <2>6, <1>8
<1> QED BY <1>3, <1>11, <1>12, <1>13, <1>14 DEF en, al

-----------------------------------------------------------------------------
(* Charges whose status is recomputed or that are cancelled.               *)

\* The same charges; a cancelled one stays cancelled.
SameCharges(ch, new) ==
  /\ new \in Seq(ChargeRec) /\ Len(new) = Len(ch)
  /\ \A c \in 1 .. Len(ch) :
       /\ new[c].enr = ch[c].enr /\ new[c].seq = ch[c].seq /\ new[c].amount = ch[c].amount
       /\ ch[c].status = "cancelled" => new[c].status = "cancelled"

\* The same charges are still enrolled and live once.
LEMMA SameChargesKeep ==
  ASSUME NEW ch \in Seq(ChargeRec), NEW new, SameCharges(ch, new), NEW enrolled, NEW enrolled2,
         ChargesEnrolled(ch, enrolled), \A x \in Enrollment : enrolled[x].status # "none"
           => enrolled2[x].status # "none",
         LiveOnce(ch)
  PROVE  ChargesEnrolled(new, enrolled2) /\ LiveOnce(new)
<1>1. \A c \in 1 .. Len(ch) : ch[c].enr \in Enrollment
  <2>1. \A c \in 1 .. Len(ch) : ch[c] \in ChargeRec
    OBVIOUS
  <2> QED BY <2>1 DEF ChargeRec
<1> QED BY <1>1 DEF SameCharges, ChargesEnrolled, LiveOnce

\* What the new allocations must keep to for Recomputed to be right.
Payable(ch, al, new, touched) ==
  \A c \in 1 .. Len(ch) :
    /\ Taken(new, LiveOn(c)) <= ch[c].amount
    /\ ch[c].status = "cancelled" => Taken(new, LiveOn(c)) = 0
    /\ c \notin touched => Taken(new, LiveOn(c)) = Taken(al, LiveOn(c))

\* Recomputed (_recompute_charge_status) makes the status agree again, provided the
\* charges it is not told of have kept their allocations.
LEMMA RecomputedSettles ==
  ASSUME NEW ch \in Seq(ChargeRec), NEW al \in Seq(AllocRec), NEW new \in Seq(AllocRec), NEW touched,
         Settled(ch, al), Payable(ch, al, new, touched)
  PROVE  /\ SameCharges(ch, Recomputed(ch, new, touched)) /\ Settled(Recomputed(ch, new, touched), new)
         /\ \A c \in 1 .. Len(ch) :
              /\ Recomputed(ch, new, touched)[c].status = "cancelled" => ch[c].status = "cancelled"
              /\ c \notin touched => Recomputed(ch, new, touched)[c] = ch[c]
<1> DEFINE paid(c) == Taken(new, LiveOn(c))
           status(c) == IF paid(c) >= ch[c].amount THEN "settled" ELSE "open"
           R(c) == IF c \in touched
             /\ ch[c].status # "cancelled" THEN [ch[c] EXCEPT !.status = status(c)] ELSE ch[c]
           re == Recomputed(ch, new, touched)
<1>1. DOMAIN ch = 1 .. Len(ch) /\ Len(ch) \in Nat
  OBVIOUS
<1>2. \A c : AllocatedTo(new, c) = paid(c)
  BY AllocationSums
<1>3. re = [c \in 1 .. Len(ch) |-> R(c)]
  BY <1>1, <1>2 DEF Recomputed
<1>4. ASSUME NEW c \in 1 .. Len(ch)
      PROVE  /\ R(c) \in ChargeRec
             /\ R(c).enr = ch[c].enr /\ R(c).seq = ch[c].seq /\ R(c).amount = ch[c].amount
             /\ R(c).status = "cancelled" <=> ch[c].status = "cancelled"
             /\ StatusSettled(R(c).status, paid(c), ch[c].amount)
             /\ c \notin touched => R(c) = ch[c]
  <2>1. ch[c] \in ChargeRec /\ ch[c].amount \in Nat
    <3>1. ch[c] \in ChargeRec
      OBVIOUS
    <3> QED BY <3>1, LedgerConstants DEF ChargeRec
  <2>2. paid(c) \in Nat
    BY RowTypes, TakenNat
  <2>3. paid(c) <= ch[c].amount /\ (ch[c].status = "cancelled" => paid(c) = 0)
        /\ (c \notin touched => paid(c) = Taken(al, LiveOn(c)))
    BY DEF Payable
  <2>4. StatusSettled(ch[c].status, Taken(al, LiveOn(c)), ch[c].amount)
    BY DEF Settled
  <2>5. CASE c \in touched /\ ch[c].status # "cancelled"
    <3> DEFINE r == [ch[c] EXCEPT !.status = status(c)]
    <3>1. R(c) = r
      BY <2>5
    <3>2. status(c) \in {"open", "settled"} /\ (status(c) = "settled" <=> paid(c) >= ch[c].amount)
      OBVIOUS
    <3> HIDE DEF status, paid
    <3>3. r \in ChargeRec /\ r.enr = ch[c].enr /\ r.seq = ch[c].seq /\ r.amount = ch[c].amount
            /\ r.status = status(c)
      BY <2>1, <3>2 DEF ChargeRec
    <3> HIDE DEF r, R
    <3>4. StatusSettled(status(c), paid(c), ch[c].amount)
      BY <2>1, <2>2, <2>3, <2>5, <3>2 DEF StatusSettled
    <3> QED BY <2>5, <3>1, <3>2, <3>3, <3>4
  <2>6. CASE ~(c \in touched /\ ch[c].status # "cancelled")
    <3>1. R(c) = ch[c]
      BY <2>6
    <3> HIDE DEF R, paid, status
    <3>2. StatusSettled(ch[c].status, paid(c), ch[c].amount)
      BY <2>1, <2>2, <2>3, <2>4, <2>6 DEF StatusSettled
    <3> QED BY <2>1, <3>1, <3>2
  <2> QED BY <2>5, <2>6
<1> HIDE DEF R
<1>5. re \in Seq(ChargeRec) /\ Len(re) = Len(ch) /\ \A c \in 1 .. Len(ch) : re[c] = R(c)
  <2>1. re \in [1 .. Len(ch) -> ChargeRec]
    BY <1>3, <1>4
  <2>2. \A c \in 1 .. Len(ch) : re[c] = R(c)
    BY <1>3
  <2> HIDE DEF re
  <2> QED BY <1>1, <2>1, <2>2, FunctionIsSeq
<1> HIDE DEF re, paid
<1>6. SameCharges(ch, re)
  BY <1>4, <1>5 DEF SameCharges
<1>7. Settled(re, new)
  BY <1>4, <1>5 DEF Settled, paid
<1> QED BY <1>4, <1>5, <1>6, <1>7 DEF re

\* Live rows on charges that are not cancelled, within what remains of each, can be paid.
LEMMA NewRowsPayable ==
  ASSUME NEW ch \in Seq(ChargeRec), NEW al \in Seq(AllocRec), NEW rows \in Seq(AllocRec), NEW touched,
         Settled(ch, al), ChargesIn(rows) \subseteq touched,
         \A i \in 1 .. Len(rows) : rows[i].by = 0 /\ rows[i].charge \in 1 .. Len(ch)
           /\ ch[rows[i].charge].status # "cancelled",
         \A c \in ChargesIn(rows) : Taken(rows, OnCharge(c)) <= ch[c].amount - Taken(al, LiveOn(c))
  PROVE  /\ al \o rows \in Seq(AllocRec) /\ Payable(ch, al, al \o rows, touched)
         /\ \A c : Taken(al \o rows, LiveOn(c)) = Taken(al, LiveOn(c)) + Taken(rows, OnCharge(c))
<1>1. al \o rows \in Seq(AllocRec)
  OBVIOUS
<1>2. \A c : /\ Taken(al \o rows, LiveOn(c)) = Taken(al, LiveOn(c)) + Taken(rows, LiveOn(c))
             /\ Taken(al, LiveOn(c)) \in Nat /\ Taken(rows, LiveOn(c)) \in Nat
  BY RowTypes, TakenConcat, TakenNat
<1>3. \A c : Taken(rows, LiveOn(c)) = Taken(rows, OnCharge(c))
  <2> SUFFICES ASSUME NEW c PROVE Taken(rows, LiveOn(c)) = Taken(rows, OnCharge(c))
    OBVIOUS
  <2>1. \A i \in 1 .. Len(rows) : rows[i] \in OnCharge(c) <=> rows[i] \in LiveOn(c)
    BY DEF OnCharge, LiveOn
  <2> QED BY <2>1, RowTypes, TakenSame
<1>4. ASSUME NEW c, c \notin ChargesIn(rows) PROVE Taken(rows, OnCharge(c)) = 0
  <2>1. \A i \in 1 .. Len(rows) : rows[i] \notin OnCharge(c)
    BY <1>4 DEF ChargesIn, OnCharge
  <2> QED BY <2>1, RowTypes, TakenNone
<1>5. ASSUME NEW c \in 1 .. Len(ch)
      PROVE  /\ Taken(al \o rows, LiveOn(c)) <= ch[c].amount
             /\ ch[c].status = "cancelled" => Taken(al \o rows, LiveOn(c)) = 0
             /\ c \notin touched => Taken(al \o rows, LiveOn(c)) = Taken(al, LiveOn(c))
  <2> DEFINE t == Taken(al, LiveOn(c))  u == Taken(rows, OnCharge(c))  v == Taken(al \o rows, LiveOn(c))
  <2>1. v = t + u /\ t \in Nat /\ u \in Nat
    BY <1>2, <1>3
  <2>2. StatusSettled(ch[c].status, t, ch[c].amount)
    BY DEF Settled
  <2>3. c \notin touched => u = 0
    BY <1>4
  <2>4. ch[c].status = "cancelled" => u = 0
    <3>1. ch[c].status = "cancelled" => c \notin ChargesIn(rows)
      BY DEF ChargesIn
    <3> QED BY <3>1, <1>4
  <2>5. u = 0 \/ u <= ch[c].amount - t
    BY <1>4
  <2>6. ch[c].amount \in Nat
    <3>1. ch[c] \in ChargeRec
      OBVIOUS
    <3> QED BY <3>1, LedgerConstants DEF ChargeRec
  <2> HIDE DEF t, u, v
  <2>7. v <= ch[c].amount /\ (ch[c].status = "cancelled" => v = 0) /\ (c \notin touched => v = t)
    BY <2>1, <2>2, <2>3, <2>4, <2>5, <2>6 DEF StatusSettled
  <2> QED BY <2>7 DEF t, v
<1> QED BY <1>1, <1>2, <1>3, <1>5 DEF Payable

-----------------------------------------------------------------------------
(* What the invariant says of the single charge and entry.                 *)

\* The tables under the invariant.
LEMMA InvTables ==
  ASSUME LedgerInv
  PROVE  /\ Tables(charge, entry, alloc) /\ charge \in Seq(ChargeRec) /\ entry \in Seq(EntryRec)
              /\ alloc \in Seq(AllocRec)
         /\ DOMAIN charge = 1 .. Len(charge) /\ DOMAIN entry = 1 .. Len(entry) /\ DOMAIN alloc = 1 .. Len(alloc)
         /\ Len(charge) \in Nat /\ Len(entry) \in Nat /\ Len(alloc) \in Nat /\ NextEntry \in Nat
              /\ NextEntry # 0
         /\ BalanceKinds
<1>1. Tables(charge, entry, alloc)
  BY DEF LedgerInv
<1>2. charge \in Seq(ChargeRec) /\ entry \in Seq(EntryRec) /\ alloc \in Seq(AllocRec)
  BY <1>1 DEF Tables
<1>3. BalanceKinds
  BY <1>1, Balances
<1> QED BY <1>1, <1>2, <1>3 DEF NextEntry

\* A charge under the invariant.
LEMMA ChargeFacts ==
  ASSUME LedgerInv, NEW c \in 1 .. Len(charge)
  PROVE  /\ charge[c] \in ChargeRec /\ charge[c].amount \in Nat /\ charge[c].amount > 0
              /\ charge[c].enr \in Enrollment
         /\ Taken(alloc, LiveOn(c)) \in Nat /\ Remaining(c) \in Nat
         /\ Remaining(c) = charge[c].amount - Taken(alloc, LiveOn(c))
         /\ StatusSettled(charge[c].status, Taken(alloc, LiveOn(c)), charge[c].amount)
<1>1. charge[c] \in ChargeRec
  BY InvTables
<1>2. charge[c].amount \in Nat /\ charge[c].enr \in Enrollment /\ charge[c].amount > 0
  BY <1>1, LedgerConstants DEF ChargeRec
<1>3. Taken(alloc, LiveOn(c)) \in Nat
  BY InvTables, RowTypes, TakenNat
<1>4. Remaining(c) = charge[c].amount - Taken(alloc, LiveOn(c))
  BY InvTables DEF BalanceKinds
<1>5. StatusSettled(charge[c].status, Taken(alloc, LiveOn(c)), charge[c].amount)
  BY DEF LedgerInv, Settled
<1>6. Remaining(c) \in Nat
  <2> DEFINE t == Taken(alloc, LiveOn(c))  a == charge[c].amount
  <2>1. t \in Nat /\ a \in Nat /\ t <= a
    BY <1>2, <1>3, <1>5 DEF StatusSettled
  <2> HIDE DEF t, a
  <2>2. a - t \in Nat
    BY <2>1
  <2> QED BY <2>2, <1>4 DEF t, a
<1> QED BY <1>1, <1>2, <1>3, <1>4, <1>5, <1>6

\* A credit that stands, under the invariant: what is available of it is never negative.
LEMMA CreditFacts ==
  ASSUME LedgerInv, NEW e \in CreditsIn(entry)
  PROVE  /\ e \in 1 .. Len(entry) /\ e \in Credits /\ e \in Nat
         /\ Taken(alloc, SpentOf(entry, e)) \in Nat /\ Taken(entry, CashOf(e)) \in Nat
              /\ entry[e].amount \in Nat
         /\ Available(e) = entry[e].amount - Taken(alloc, SpentOf(entry, e)) - Taken(entry, CashOf(e))
         /\ Available(e) \in Nat
<1>1. e \in 1 .. Len(entry) /\ entry[e].type \in {"payment", "adjustment"}
  BY InvTables DEF CreditsIn
<1>2. Taken(alloc, SpentOf(entry, e)) \in Nat /\ Taken(entry, CashOf(e)) \in Nat
  BY InvTables, RowTypes, TakenNat
<1>3. entry[e].amount \in Nat /\ e \in Nat
  BY <1>1, InvTables, EntryFacts
<1>4. Available(e) = entry[e].amount - Taken(alloc, SpentOf(entry, e)) - Taken(entry, CashOf(e))
        /\ e \in Credits
  BY InvTables DEF BalanceKinds
<1>5. Taken(alloc, SpentOf(entry, e)) + Taken(entry, CashOf(e)) <= entry[e].amount
  BY <1>1 DEF LedgerInv, Funded
<1>6. Available(e) \in Nat
  <2> DEFINE t == Taken(alloc, SpentOf(entry, e))  u == Taken(entry, CashOf(e))  a == entry[e].amount
  <2>1. t \in Nat /\ u \in Nat /\ a \in Nat /\ t + u <= a
    BY <1>2, <1>3, <1>5
  <2> HIDE DEF t, u, a
  <2>2. a - t - u \in Nat
    BY <2>1
  <2> QED BY <2>2, <1>4 DEF t, u, a
<1> QED BY <1>1, <1>2, <1>3, <1>4, <1>6

-----------------------------------------------------------------------------
(* Credit entered and applied: the whole step.                             *)

\* The rows are on charges that are not cancelled, within what remains of each.
Settles(rows) ==
  /\ \A i \in 1 .. Len(rows) : charge[rows[i].charge].status # "cancelled"
  /\ \A c \in ChargesIn(rows) : Taken(rows, OnCharge(c)) <= Remaining(c)

CreditStep(more, rows) ==
  /\ GivesCredit(more) /\ Applies(rows, more) /\ Settles(rows)
  /\ entry' = entry \o more /\ alloc' = alloc \o rows
  /\ charge' = Recomputed(charge, alloc \o rows, ChargesIn(rows))
  /\ UNCHANGED <<today, enrollment, closed>>

\* Credit that is entered and applied keeps the invariant.
LEMMA CreditStepKeeps ==
  ASSUME LedgerInv, NEW more, NEW rows, CreditStep(more, rows)
  PROVE  LedgerInv' /\ SameCharges(charge, charge')
<1>1. /\ entry' \in Seq(EntryRec) /\ alloc' \in Seq(AllocRec)
      /\ References(charge, entry', alloc') /\ Funded(entry', alloc')
      /\ RefundsStand(entry') /\ VoidsHold(entry', alloc')
  BY InvTables, CreditGiven DEF LedgerInv, CreditStep
<1>2. Payable(charge, alloc, alloc', ChargesIn(rows))
  <2>1. rows \in Seq(AllocRec) /\ \A i \in 1 .. Len(rows) :
          rows[i].by = 0 /\ rows[i].charge \in 1 .. Len(charge) /\ charge[rows[i].charge].status # "cancelled"
    BY DEF CreditStep, Applies, Settles
  <2>2. \A c \in ChargesIn(rows) : Taken(rows, OnCharge(c)) <= charge[c].amount - Taken(alloc, LiveOn(c))
    <3>1. BalanceKinds
      BY InvTables
    <3> QED BY <3>1 DEF CreditStep, Settles, BalanceKinds
  <2>3. Settled(charge, alloc)
    BY DEF LedgerInv
  <2>4. Payable(charge, alloc, alloc \o rows, ChargesIn(rows))
    BY <2>1, <2>2, <2>3, InvTables, NewRowsPayable
  <2> QED BY <2>4 DEF CreditStep
<1>3. SameCharges(charge, charge') /\ Settled(charge', alloc')
  <2>1. charge' = Recomputed(charge, alloc', ChargesIn(rows))
    BY DEF CreditStep
  <2>2. Settled(charge, alloc)
    BY DEF LedgerInv
  <2> QED BY <1>1, <1>2, <2>1, <2>2, InvTables, RecomputedSettles
<1>4. charge' \in Seq(ChargeRec) /\ Len(charge') = Len(charge)
  BY <1>3 DEF SameCharges
<1>5. ChargesEnrolled(charge', enrollment') /\ LiveOnce(charge')
  <2>1. enrollment' = enrollment /\ ChargesEnrolled(charge, enrollment) /\ LiveOnce(charge)
    BY DEF CreditStep, LedgerInv
  <2> QED BY <1>3, <2>1, InvTables, SameChargesKeep
<1>6. References(charge', entry', alloc')
  BY <1>1, <1>4 DEF References
<1>7. Calendar'
  BY DEF CreditStep, LedgerInv, Calendar
<1>8. Tables(charge', entry', alloc')
  BY <1>1, <1>4 DEF Tables
<1> QED BY <1>1, <1>3, <1>5, <1>6, <1>7, <1>8 DEF LedgerInv

-----------------------------------------------------------------------------
(* Entries that are written.                                               *)

\* The day, the enrollments and the periods under the invariant.
LEMMA CalendarFacts ==
  ASSUME LedgerInv
  PROVE  /\ today \in Nat /\ ThisMonth \in AccountingMonths
         /\ enrollment \in [Enrollment -> EnrollmentRec] /\ closed \subseteq Closable
<1>1. today \in FirstDay .. LastDay /\ enrollment \in [Enrollment -> EnrollmentRec] /\ closed \subseteq Closable
  BY DEF LedgerInv, Calendar
<1>2. FirstDay \in Nat /\ LastDay \in Nat
  BY LedgerConstants
<1>3. today \in Nat /\ ThisMonth \in AccountingMonths
  BY <1>1, <1>2 DEF ThisMonth, AccountingMonths
<1> QED BY <1>1, <1>3

\* What an entry that reverses nothing says.
IsEntry(new, type, n, month) ==
  /\ new \in EntryRec /\ new.type = type /\ new.amount = n /\ new.reverses = 0
  /\ new.at = month /\ new.cash = FALSE

\* Entry makes an entry.
LEMMA EntryType ==
  ASSUME NEW type \in EntryTypes, NEW n \in Positive, NEW month \in AccountingMonths, NEW new,
         new = Entry(type, n, month)
  PROVE  IsEntry(new, type, n, month)
BY DEF Entry, EntryRec, IsEntry

\* One entry of credit.
LEMMA OneCredit ==
  ASSUME NEW new \in EntryRec, new.type \in {"payment", "adjustment", "discount"}, new.reverses = 0
  PROVE  GivesCredit(<<new>>) /\ Len(<<new>>) = 1 /\ <<new>>[1] = new
BY DEF GivesCredit

\* The amounts asked for are positive.
LEMMA SumsPositive == Sums \subseteq Positive /\ Sums \subseteq Nat /\ \A n \in Sums : n > 0
BY LedgerConstants DEF Sums, Positive

\* The targets of a payment and their sum.
LEMMA TargetsSum ==
  ASSUME NEW targets \in Targets
  PROVE  /\ DOMAIN targets \in SUBSET Enrollment /\ IsFiniteSet(DOMAIN targets)
         /\ \A x \in DOMAIN targets : targets[x] \in Nat /\ targets[x] > 0
         /\ SumFunction(targets) = SumFunctionOnSet(targets, DOMAIN targets)
         /\ SumFunction(targets) \in Positive
<1>1. PICK enrs \in (SUBSET Enrollment) \ {{}} : targets \in [enrs -> Sums]
  BY DEF Targets
<1>2. DOMAIN targets = enrs /\ \A x \in enrs : targets[x] \in Nat /\ targets[x] > 0
  BY <1>1, SumsPositive
<1>3. IsFiniteSet(enrs)
  <2>1. enrs \in SUBSET Enrollment
    BY <1>1
  <2>2. IsFiniteSet(Enrollment)
    BY LedgerConstants
  <2> QED BY <2>1, <2>2, FS_Subset
<1>4. PICK x \in enrs : TRUE
  BY <1>1
<1>5. NatOn(targets, enrs)
  BY <1>2 DEF NatOn
<1>6. targets[x] <= SumFunctionOnSet(targets, enrs) /\ SumFunctionOnSet(targets, enrs) \in Nat
  BY <1>3, <1>5, SumElement, SumNat
<1>7. SumFunctionOnSet(targets, enrs) \in Positive
  BY <1>2, <1>6 DEF Positive
<1> QED BY <1>1, <1>2, <1>3, <1>7 DEF SumFunction

\* Rows of one new entry that stay within it are rows the ledger can bear.
LEMMA NewEntryApplies ==
  ASSUME LedgerInv, NEW new \in EntryRec, NEW rows \in Seq(AllocRec),
         \A i \in 1 .. Len(rows) : rows[i].by = 0 /\ rows[i].charge \in 1 .. Len(charge)
           /\ rows[i].entry = NextEntry,
         Taken(rows, AllocRec) <= new.amount
  PROVE  Applies(rows, <<new>>)
<1>1. Len(<<new>>) = 1 /\ <<new>>[1] = new
  OBVIOUS
<1>2. Len(entry) \in Nat /\ NextEntry = Len(entry) + 1
  BY InvTables DEF NextEntry
<1>3. ASSUME NEW i \in 1 .. Len(rows)
      PROVE  /\ rows[i].by = 0 /\ rows[i].charge \in 1 .. Len(charge)
             /\ rows[i].entry \in CreditsIn(entry) \/ rows[i].entry \in Len(entry) + 1 .. Len(entry) + Len(<<new>>)
  BY <1>1, <1>2
<1>4. ASSUME NEW e \in CreditsIn(entry)
      PROVE  Taken(rows, OfEntry(e)) + Taken(alloc, SpentOf(entry, e)) + Taken(entry, CashOf(e)) <= entry[e].amount
  <2>1. Taken(rows, OfEntry(e)) = 0
    <3>1. e # NextEntry
      BY CreditFacts, <1>2
    <3>2. \A i \in 1 .. Len(rows) : rows[i] \notin OfEntry(e)
      BY <3>1 DEF OfEntry
    <3> QED BY <3>2, RowTypes, TakenNone
  <2>2. e \in 1 .. Len(entry) /\ entry[e].type \in {"payment", "adjustment"}
    BY InvTables DEF CreditsIn
  <2>3. Taken(alloc, SpentOf(entry, e)) + Taken(entry, CashOf(e)) <= entry[e].amount
    BY <2>2 DEF LedgerInv, Funded
  <2>4. Taken(alloc, SpentOf(entry, e)) \in Nat /\ Taken(entry, CashOf(e)) \in Nat
    BY CreditFacts
  <2> QED BY <2>1, <2>3, <2>4
<1>5. \A k \in 1 .. Len(<<new>>) : Taken(rows, OfEntry(Len(entry) + k)) <= <<new>>[k].amount
  <2>1. Taken(rows, OfEntry(NextEntry)) = Taken(rows, AllocRec)
    <3>1. \A i \in 1 .. Len(rows) : rows[i] \in AllocRec <=> rows[i] \in OfEntry(NextEntry)
      BY DEF OfEntry
    <3> QED BY <3>1, RowTypes, TakenSame
  <2> QED BY <1>1, <1>2, <2>1
<1> QED BY <1>3, <1>4, <1>5 DEF Applies

-----------------------------------------------------------------------------
(* The operations that give credit are such steps.                         *)

\* A payment (create_payment) enters its sum and pays it out to its targets.
LEMMA PayGives ==
  ASSUME LedgerInv, NEW targets \in Targets, NEW month \in AccountingMonths, Pay(targets, month)
  PROVE  LET new == [Entry("payment", SumFunction(targets), month) EXCEPT !.targets = targets]
             rows == PaymentRows(NextEntry, SumFunction(targets), targets) IN
         /\ CreditStep(<<new>>, rows) /\ PaidOut(rows, NextEntry, targets) /\ TargetsFit(targets)
         /\ new.type = "payment" /\ new.amount = SumFunction(targets) /\ new.targets = targets
         /\ new.at = month /\ new.reverses = 0
<1> DEFINE n == SumFunction(targets)
           new == [Entry("payment", n, month) EXCEPT !.targets = targets]
           rows == PaymentRows(NextEntry, n, targets)
           g == [x \in DOMAIN targets |-> Taken(rows, OnEnr(x))]
           K == [x \in DOMAIN targets |-> OnEnr(x)]
<1>1. /\ DOMAIN targets \in SUBSET Enrollment /\ IsFiniteSet(DOMAIN targets)
      /\ \A x \in DOMAIN targets : targets[x] \in Nat
      /\ n = SumFunctionOnSet(targets, DOMAIN targets) /\ n \in Positive /\ n \in Nat
  BY TargetsSum DEF Positive
<1>2. TargetsFit(targets)
  <2>1. \A c \in TargetCharges(targets) : Remaining(c) \in Nat
    BY InvTables, TargetChargesOpen, ChargeFacts
  <2> QED BY <1>1, <2>1 DEF TargetsFit
<1>3. PaidOut(rows, NextEntry, targets)
  <2>1. Calendar /\ Tables(charge, entry, alloc) /\ NextEntry \in Nat
    BY InvTables DEF LedgerInv
  <2> HIDE DEF n
  <2> QED BY <1>1, <1>2, <2>1, PaymentPaysOut
<1> HIDE DEF n, rows
<1>4. new \in EntryRec /\ new.type = "payment" /\ new.amount = n /\ new.targets = targets /\ new.at = month
        /\ new.reverses = 0
  <2> DEFINE e == Entry("payment", n, month)
  <2>1. e \in EntryRec /\ e.type = "payment" /\ e.amount = n /\ e.at = month /\ e.reverses = 0
    <3>1. "payment" \in EntryTypes /\ e = Entry("payment", n, month)
      BY DEF EntryTypes
    <3> HIDE DEF e
    <3>2. IsEntry(e, "payment", n, month)
      BY <1>1, <3>1, EntryType
    <3> QED BY <3>2 DEF IsEntry
  <2> HIDE DEF e
  <2>2. [e EXCEPT !.targets = targets] \in EntryRec
    BY <2>1 DEF EntryRec
  <2>3. [e EXCEPT !.targets = targets].targets = targets
    BY <2>1 DEF EntryRec
  <2> QED BY <2>1, <2>2, <2>3 DEF e
<1> HIDE DEF new
<1>5. rows \in Seq(AllocRec)
      /\ \A i \in 1 .. Len(rows) : rows[i].by = 0 /\ rows[i].charge \in TargetCharges(targets)
           /\ rows[i].entry = NextEntry
  BY <1>3 DEF PaidOut
<1>6. \A c \in TargetCharges(targets) : c \in 1 .. Len(charge) /\ charge[c].status = "open"
        /\ charge[c].enr \in DOMAIN targets
  BY InvTables, TargetChargesOpen
<1>7. SumFunctionOnSet(g, DOMAIN targets) = Taken(rows, AllocRec)
  <2>1. ASSUME NEW j \in 1 .. Len(rows)
        PROVE  /\ rows[j] \in AllocRec <=> \E x \in DOMAIN targets : rows[j] \in K[x]
               /\ \A x, y \in DOMAIN targets : rows[j] \in K[x] /\ rows[j] \in K[y] => x = y
    <3>1. rows[j] \in AllocRec /\ charge[rows[j].charge].enr \in DOMAIN targets
      BY <1>5, <1>6
    <3> QED BY <3>1 DEF OnEnr
  <2>2. \A x \in DOMAIN targets : g[x] = Taken(rows, K[x])
    OBVIOUS
  <2> DEFINE D == DOMAIN targets
  <2>3. IsFiniteSet(D) /\ rows \in Seq(AllocRec) /\ \A x \in D : g[x] = Taken(rows, K[x])
    BY <1>1, <1>5, <2>2
  <2>4. \A j \in 1 .. Len(rows) :
          /\ rows[j] \in AllocRec <=> \E x \in D : rows[j] \in K[x]
          /\ \A x, y \in D : rows[j] \in K[x] /\ rows[j] \in K[y] => x = y
    BY <2>1
  <2> HIDE DEF g, K, D
  <2>5. SumFunctionOnSet(g, D) = Taken(rows, AllocRec)
    BY <2>3, <2>4, RowTypes, TakenClasses
  <2> QED BY <2>5 DEF D
<1>8. SumFunctionOnSet(g, DOMAIN targets) <= SumFunctionOnSet(targets, DOMAIN targets)
  <2>1. \A x \in DOMAIN targets : Taken(rows, OnEnr(x)) \in Nat
    BY <1>5, RowTypes, TakenNat
  <2>2. IntOn(g, DOMAIN targets) /\ IntOn(targets, DOMAIN targets)
    BY <1>1, <2>1 DEF IntOn
  <2>3. \A x \in DOMAIN targets : g[x] <= targets[x]
    BY <1>3 DEF PaidOut
  <2> HIDE DEF g
  <2> QED BY <1>1, <2>2, <2>3, SumMonotone
<1>9. Applies(rows, <<new>>)
  <2>1. Taken(rows, AllocRec) <= new.amount
    BY <1>1, <1>4, <1>7, <1>8
  <2> QED BY <1>4, <1>5, <1>6, <2>1, NewEntryApplies
<1>10. Settles(rows)
  <2>1. \A c \in ChargesIn(rows) : c \in TargetCharges(targets)
    BY <1>5 DEF ChargesIn
  <2> QED BY <1>3, <1>5, <1>6, <2>1 DEF Settles, PaidOut
<1>11. GivesCredit(<<new>>)
  BY <1>4, OneCredit
<1>12. /\ entry' = entry \o <<new>> /\ alloc' = alloc \o rows
       /\ charge' = Recomputed(charge, alloc \o rows, ChargesIn(rows))
            /\ UNCHANGED <<today, enrollment, closed>>
  <2>1. Record(new, rows)
    BY DEF Pay, n, new, rows
  <2>2. entry' = Append(entry, new)
    BY <2>1 DEF Record
  <2>3. Append(entry, new) = entry \o <<new>>
    BY <1>4, InvTables, AppendOne
  <2> QED BY <2>1, <2>2, <2>3 DEF Record
<1> QED BY <1>2, <1>3, <1>4, <1>9, <1>10, <1>11, <1>12 DEF CreditStep, n, new, rows

\* An adjustment enters credit and applies none.
LEMMA AdjustGives ==
  ASSUME LedgerInv, NEW n \in Sums, NEW month \in AccountingMonths, Adjust(n, month)
  PROVE  CreditStep(<<Entry("adjustment", n, month)>>, <<>>)
<1> DEFINE new == Entry("adjustment", n, month)
<1>1. n \in Positive
  BY SumsPositive
<1>2. new \in EntryRec /\ new.type = "adjustment" /\ new.amount = n /\ new.reverses = 0
  <2>1. "adjustment" \in EntryTypes /\ new = Entry("adjustment", n, month)
    BY DEF EntryTypes
  <2> HIDE DEF new
  <2>2. IsEntry(new, "adjustment", n, month)
    BY <1>1, <2>1, EntryType
  <2> QED BY <2>2 DEF IsEntry
<1>3. Record(new, <<>>)
  BY DEF Adjust
<1> HIDE DEF new
<1> DEFINE rows == <<>>
<1>4. rows \in Seq(AllocRec) /\ Len(rows) = 0 /\ ChargesIn(rows) = {}
  BY DEF ChargesIn
<1> HIDE DEF rows
<1>5. Taken(rows, AllocRec) = 0
  <2>1. \A j \in 1 .. Len(rows) : rows[j] \notin AllocRec
    BY <1>4
  <2> QED BY <1>4, <2>1, RowTypes, TakenNone
<1>6. Applies(rows, <<new>>)
  <2>1. Taken(rows, AllocRec) <= new.amount
    BY <1>2, <1>5 DEF EntryRec, Positive
  <2>2. \A i \in 1 .. Len(rows) : rows[i].by = 0 /\ rows[i].charge \in 1 .. Len(charge)
          /\ rows[i].entry = NextEntry
    BY <1>4
  <2> QED BY <1>2, <1>4, <2>1, <2>2, NewEntryApplies
<1>7. Settles(rows) /\ GivesCredit(<<new>>)
  BY <1>2, <1>4, OneCredit DEF Settles
<1>8. Append(entry, new) = entry \o <<new>>
  BY <1>2, InvTables, AppendOne
<1> QED BY <1>3, <1>6, <1>7, <1>8 DEF CreditStep, Record, new, rows

\* A discount enters credit and applies it to its charge.
LEMMA DiscountGives ==
  ASSUME LedgerInv, NEW n \in Sums, NEW month \in AccountingMonths, NEW c \in 1 .. Len(charge),
         Discount(c, n, month)
  PROVE  CreditStep(<<Entry("discount", n, month)>>, Sweep(<<[entry |-> NextEntry, left |-> n]>>, <<c>>, n))
<1> DEFINE new == Entry("discount", n, month)
           s == [entry |-> NextEntry, left |-> n]
           rows == Sweep(<<s>>, <<c>>, n)
<1>1. n \in Positive /\ n \in Nat
  BY SumsPositive
<1>2. new \in EntryRec /\ new.type = "discount" /\ new.amount = n /\ new.reverses = 0
  <2>1. "discount" \in EntryTypes /\ new = Entry("discount", n, month)
    BY DEF EntryTypes
  <2> HIDE DEF new
  <2>2. IsEntry(new, "discount", n, month)
    BY <1>1, <2>1, EntryType
  <2> QED BY <2>2 DEF IsEntry
<1>3. Record(new, rows) /\ charge[c].status = "open"
  BY DEF Discount
<1>4. s \in SourceRec /\ s.entry = NextEntry /\ s.left = n
  BY <1>1, InvTables DEF SourceRec
<1> HIDE DEF new, s
<1>5. SweepOver(<<s>>, <<c>>, {s}, {c})
  <2>1. <<s>> \in Seq({s}) /\ Len(<<s>>) = 1 /\ <<s>>[1] = s /\ <<c>> \in Seq({c}) /\ Len(<<c>>) = 1
          /\ <<c>>[1] = c
    OBVIOUS
  <2>2. Remaining(c) \in Nat
    BY ChargeFacts
  <2> QED BY <2>1, <2>2 DEF SweepOver
<1>6. Drawn(rows, {s}, {c}, n)
  <2> DEFINE S == {s}  C == {c}
  <2>1. S \in SUBSET SourceRec /\ C \in SUBSET (1 .. Len(charge)) /\ Tables(charge, entry, alloc)
    BY <1>4, InvTables, AppendOne
  <2>2. SweepOver(<<s>>, <<c>>, S, C)
    BY <1>5
  <2> HIDE DEF S, C
  <2>3. Drawn(rows, S, C, n)
    BY <1>1, <2>1, <2>2, SweepDraws
  <2> QED BY <2>3 DEF S, C
<1> HIDE DEF rows
<1>7. rows \in Seq(AllocRec) /\ \A i \in 1 .. Len(rows) : rows[i].by = 0 /\ rows[i].charge = c
        /\ rows[i].entry = NextEntry
  BY <1>4, <1>6 DEF Drawn
<1>8. Applies(rows, <<new>>)
  <2>1. Taken(rows, AllocRec) <= new.amount
    BY <1>2, <1>6 DEF Drawn
  <2> QED BY <1>2, <1>7, <2>1, NewEntryApplies
<1>9. Settles(rows) /\ GivesCredit(<<new>>)
  <2>1. \A d \in ChargesIn(rows) : d = c
    BY <1>7 DEF ChargesIn
  <2>2. Taken(rows, OnCharge(c)) <= Remaining(c)
    BY <1>6 DEF Drawn
  <2> QED BY <1>2, <1>3, <1>7, <2>1, <2>2, OneCredit DEF Settles
<1>10. Append(entry, new) = entry \o <<new>>
  BY <1>2, InvTables, AppendOne
<1> QED BY <1>3, <1>8, <1>9, <1>10 DEF CreditStep, Record, new, rows, s

-----------------------------------------------------------------------------
(* Wallet credit that is allocated.                                        *)

Avail == [e \in Credits |-> Available(e)]
CoversAll(order, C) == order \in Seq(C) /\ \A c \in C : \E j \in 1 .. Len(order) : order[j] = c

\* The sources are the credits that stand, each with what is available of it.
LEMMA SourcesFit ==
  ASSUME LedgerInv, NEW C \in SUBSET (1 .. Len(charge)), NEW order, CoversAll(order, C)
  PROVE  SweepOver(Sources, order, SourcesOf(Credits, Avail), C)
           /\ SourcesOf(Credits, Avail) \subseteq SourceRec
<1> DEFINE L == OldestFirst(Credits)
           S == SourcesOf(Credits, Avail)
           src(e) == [entry |-> e, left |-> Available(e)]
<1>1. Credits = CreditsIn(entry) /\ Credits \in SUBSET (1 .. Len(entry))
  BY InvTables, CreditFacts DEF BalanceKinds
<1>2. Lists(L, Credits)
  BY <1>1, InvTables, OldestFirstLists
<1>3. Sources = [i \in DOMAIN L |-> src(L[i])]
  BY DEF Sources, OldestFirst
<1> HIDE DEF L
<1>4. DOMAIN L = 1 .. Len(L) /\ Len(L) \in Nat /\ \A i \in 1 .. Len(L) : L[i] \in Credits
  BY <1>2 DEF Lists
<1>5. \A e \in Credits : src(e) \in S /\ src(e) \in SourceRec
  <2>1. \A e \in Credits : e \in Nat /\ Available(e) \in Nat
    BY <1>1, CreditFacts
  <2> QED BY <2>1 DEF SourcesOf, Avail, SourceRec
<1>6. \A s \in S : \E e \in Credits : s = src(e)
  BY DEF SourcesOf, Avail
<1>7. S \subseteq SourceRec
  BY <1>5, <1>6
<1>8. Sources \in [1 .. Len(L) -> S]
  BY <1>3, <1>4, <1>5
<1>9. Sources \in Seq(S) /\ Len(Sources) = Len(L)
  BY <1>4, <1>8, FunctionIsSeq
<1>10. \A i \in 1 .. Len(L) : Sources[i] = src(L[i])
  BY <1>3, <1>4
<1>11. \A s \in S : \E i \in 1 .. Len(Sources) : Sources[i] = s
  <2> SUFFICES ASSUME NEW s \in S PROVE \E i \in 1 .. Len(Sources) : Sources[i] = s
    OBVIOUS
  <2>1. PICK e \in Credits : s = src(e)
    BY <1>6
  <2>2. PICK i \in 1 .. Len(L) : L[i] = e
    BY <1>2 DEF Lists
  <2>3. Sources[i] = s
    BY <1>10, <2>1, <2>2
  <2> QED BY <1>9, <2>3
<1>12. \A s, t \in S : s.entry = t.entry => s = t
  BY <1>6
<1>13. \A c \in C : Remaining(c) \in Nat
  BY ChargeFacts
<1> HIDE DEF S
<1> QED BY <1>7, <1>9, <1>11, <1>12, <1>13 DEF SweepOver, CoversAll, S

\* What an allocation draws.
Allocated(rows, C, n) == Drawn(rows, SourcesOf(Credits, Avail), C, n)

\* Allocate applies credit that was there and enters none.
LEMMA AllocateGives ==
  ASSUME LedgerInv, NEW C \in SUBSET (1 .. Len(charge)), NEW order, CoversAll(order, C),
         \A c \in C : charge[c].status # "cancelled", NEW n \in Nat, Allocate(order, n),
         NEW rows, rows = Sweep(Sources, order, n)
  PROVE  CreditStep(<<>>, rows) /\ Allocated(rows, C, n) /\ entry' = entry /\ alloc' = alloc \o rows
<1> DEFINE S == SourcesOf(Credits, Avail)
<1>1. SweepOver(Sources, order, S, C) /\ S \in SUBSET SourceRec
  BY SourcesFit
<1>2. Drawn(rows, S, C, n)
  <2> HIDE DEF S
  <2> QED BY <1>1, InvTables, SweepDraws
<1>3. \A s \in S : s.entry \in CreditsIn(entry) /\ s.left = Available(s.entry)
  <2>1. Credits = CreditsIn(entry)
    BY InvTables DEF BalanceKinds
  <2> QED BY <2>1 DEF SourcesOf, Avail
<1>4. \A e \in CreditsIn(entry) : \E s \in S : s.entry = e
  <2> SUFFICES ASSUME NEW e \in CreditsIn(entry) PROVE \E s \in S : s.entry = e
    OBVIOUS
  <2>1. Credits = CreditsIn(entry)
    BY InvTables DEF BalanceKinds
  <2>2. [entry |-> e, left |-> Avail[e]] \in S
    BY <2>1 DEF SourcesOf
  <2> QED BY <2>2
<1> HIDE DEF S
<1> DEFINE more == <<>>
<1>5. more \in Seq(EntryRec) /\ Len(more) = 0
  OBVIOUS
<1>6. entry \o more = entry
  BY InvTables
<1> HIDE DEF more
<1>7. Applies(rows, more)
  <2>1. rows \in Seq(AllocRec)
    BY <1>2 DEF Drawn
  <2>2. \A i \in 1 .. Len(rows) : rows[i].by = 0 /\ rows[i].charge \in 1 .. Len(charge)
          /\ rows[i].entry \in CreditsIn(entry)
    BY <1>2, <1>3 DEF Drawn
  <2>3. ASSUME NEW e \in CreditsIn(entry)
        PROVE Taken(rows, OfEntry(e)) + Taken(alloc, SpentOf(entry, e)) + Taken(entry, CashOf(e)) <= entry[e].amount
    <3> DEFINE t == Taken(rows, OfEntry(e))  u == Taken(alloc, SpentOf(entry, e))  v == Taken(entry, CashOf(e))
               a == entry[e].amount
    <3>1. PICK s \in S : s.entry = e
      BY <1>4
    <3>2. t <= Available(e)
      BY <1>2, <1>3, <3>1 DEF Drawn
    <3>3. u \in Nat /\ v \in Nat /\ a \in Nat /\ Available(e) = a - u - v
      BY CreditFacts
    <3>4. t \in Nat
      BY <2>1, RowTypes, TakenNat
    <3> HIDE DEF t, u, v, a
    <3>5. t + u + v <= a
      BY <3>2, <3>3, <3>4
    <3> QED BY <3>5 DEF t, u, v, a
  <2>4. \A k \in 1 .. Len(more) : Taken(rows, OfEntry(Len(entry) + k)) <= more[k].amount
    BY <1>5
  <2> QED BY <2>1, <2>2, <2>3, <2>4 DEF Applies
<1>8. Settles(rows)
  <2>1. \A c \in ChargesIn(rows) : c \in C
    BY <1>2 DEF Drawn, ChargesIn
  <2> QED BY <1>2, <2>1 DEF Settles, Drawn
<1>9. GivesCredit(more)
  BY <1>5 DEF GivesCredit
<1>10. /\ entry' = entry \o more /\ alloc' = alloc \o rows /\ entry' = entry
       /\ charge' = Recomputed(charge, alloc \o rows, ChargesIn(rows))
            /\ UNCHANGED <<today, enrollment, closed>>
  BY <1>6 DEF Allocate
<1> QED BY <1>2, <1>7, <1>8, <1>9, <1>10 DEF CreditStep, Allocated, more, S

\* allocate_course_credit is such an allocation, to the charges of the course.
LEMMA ToCourseGives ==
  ASSUME LedgerInv, NEW enr \in Enrollment, NEW n \in Nat, AllocateToCourse(enr, n)
  PROVE  \E rows : /\ CreditStep(<<>>, rows) /\ Allocated(rows, ChargesOf(enr, {"open", "settled"}), n)
                   /\ entry' = entry /\ alloc' = alloc \o rows
<1> DEFINE C == ChargesOf(enr, {"open", "settled"})
           order == InDueOrder(C)
<1>1. C \in SUBSET (1 .. Len(charge)) /\ \A c \in C : charge[c].status # "cancelled"
  BY InvTables DEF ChargesOf
<1>2. Allocate(order, n)
  BY DEF AllocateToCourse
<1> HIDE DEF C
<1>3. Lists(order, C)
  BY <1>1, InvTables, DueOrderLists DEF LedgerInv
<1> HIDE DEF order
<1>4. CoversAll(order, C)
  BY <1>3 DEF Lists, CoversAll
<1> DEFINE rows == Sweep(Sources, order, n)
<1>5. rows = Sweep(Sources, order, n)
  OBVIOUS
<1> HIDE DEF rows
<1>6. CreditStep(<<>>, rows) /\ Allocated(rows, C, n) /\ entry' = entry /\ alloc' = alloc \o rows
  BY <1>1, <1>2, <1>4, <1>5, AllocateGives
<1> QED BY <1>6 DEF C

\* allocate_credit is such an allocation, to the charge.
LEMMA ToChargeGives ==
  ASSUME LedgerInv, NEW c \in 1 .. Len(charge), NEW n \in Nat, AllocateToCharge(c, n)
  PROVE  \E rows : /\ CreditStep(<<>>, rows) /\ Allocated(rows, {c}, n)
                   /\ entry' = entry /\ alloc' = alloc \o rows
<1> DEFINE C == {c}
           order == <<c>>
<1>1. C \in SUBSET (1 .. Len(charge)) /\ \A d \in C : charge[d].status # "cancelled"
  BY DEF AllocateToCharge
<1>2. Allocate(order, n)
  BY DEF AllocateToCharge
<1>3. CoversAll(order, C)
  <2>1. order \in Seq(C) /\ Len(order) = 1 /\ order[1] = c
    OBVIOUS
  <2> HIDE DEF order
  <2> QED BY <2>1 DEF CoversAll
<1> HIDE DEF order, C
<1> DEFINE rows == Sweep(Sources, order, n)
<1>4. rows = Sweep(Sources, order, n)
  OBVIOUS
<1> HIDE DEF rows
<1>5. CreditStep(<<>>, rows) /\ Allocated(rows, C, n) /\ entry' = entry /\ alloc' = alloc \o rows
  BY <1>1, <1>2, <1>3, <1>4, AllocateGives
<1> QED BY <1>5 DEF C
-----------------------------------------------------------------------------
(* Months that are billed.                                                 *)

\* Open charges of one enrollment, of months that are not live and each once.
BillsAnew(new, enr) ==
  /\ new \in Seq(ChargeRec)
  /\ \A k \in 1 .. Len(new) : new[k].enr = enr /\ new[k].status = "open" /\ new[k].seq \notin Live(enr)
  /\ \A j, k \in 1 .. Len(new) : new[j].seq = new[k].seq => j = k

\* Enrollments are still made when they were.
StillEnrolled == 
  /\ enrollment' \in [Enrollment -> EnrollmentRec]
  /\ \A x \in Enrollment : enrollment[x].status # "none" => enrollment'[x].status # "none"

\* Charges added to the table.
LEMMA ChargesAdded ==
  ASSUME LedgerInv, NEW enr \in Enrollment, NEW new, BillsAnew(new, enr), StillEnrolled,
         enrollment'[enr].status # "none",
         charge' = charge \o new, UNCHANGED <<today, entry, alloc, closed>>
  PROVE  LedgerInv'
<1> DEFINE ch == charge \o new
           m == Len(charge)
<1>1. charge \in Seq(ChargeRec) /\ new \in Seq(ChargeRec) /\ m \in Nat /\ Len(new) \in Nat
  BY InvTables DEF BillsAnew
<1>2. ch \in Seq(ChargeRec) /\ Len(ch) = m + Len(new)
  BY <1>1
<1>3. /\ \A c \in 1 .. m : ch[c] = charge[c] /\ c \in 1 .. Len(ch)
      /\ \A c \in m + 1 .. Len(ch) : c - m \in 1 .. Len(new) /\ ch[c] = new[c - m]
  BY <1>1
<1>4. \A c \in 1 .. Len(ch) : c \in 1 .. m \/ c \in m + 1 .. Len(ch)
  BY <1>1, <1>2
<1> HIDE DEF ch, m
<1>5. \A c \in m + 1 .. Len(ch) : ch[c].enr = enr /\ ch[c].status = "open" /\ ch[c].seq \notin Live(enr)
  BY <1>3 DEF BillsAnew
<1>6. \A c \in 1 .. m : ch[c].status # "cancelled" /\ ch[c].enr = enr => ch[c].seq \in Live(enr)
  <2> SUFFICES ASSUME NEW c \in 1 .. m, charge[c].status # "cancelled", charge[c].enr = enr
               PROVE  charge[c].seq \in Live(enr)
    BY <1>3
  <2>1. charge[c] \in ChargeRec
    BY <1>1 DEF m
  <2>2. charge[c].status \in {"open", "settled"}
    BY <2>1 DEF ChargeRec
  <2>3. c \in ChargesOf(enr, {"open", "settled"})
    BY <1>1, <2>2 DEF ChargesOf, m
  <2> QED BY <2>3 DEF Live
<1>7. LiveOnce(ch)
  <2> SUFFICES ASSUME NEW c \in 1 .. Len(ch), NEW d \in 1 .. Len(ch),
                      ch[c].status # "cancelled", ch[d].status # "cancelled",
                      ch[c].enr = ch[d].enr, ch[c].seq = ch[d].seq
               PROVE  c = d
    BY DEF LiveOnce
  <2>1. CASE c \in 1 .. m /\ d \in 1 .. m
    <3>1. LiveOnce(charge)
      BY DEF LedgerInv
    <3> QED BY <2>1, <1>3, <3>1 DEF LiveOnce, m
  <2>2. CASE c \in m + 1 .. Len(ch) /\ d \in m + 1 .. Len(ch)
    <3>1. c - m = d - m
      BY <2>2, <1>3, SMTT(30) DEF BillsAnew
    <3> QED BY <1>1, <1>2, <2>2, <3>1
  <2> QED BY <2>1, <2>2, <1>4, <1>5, <1>6
<1>8. ChargesEnrolled(ch, enrollment')
  <2>1. \A c \in 1 .. m : charge[c].enr \in Enrollment /\ enrollment[charge[c].enr].status # "none"
    BY ChargeFacts DEF LedgerInv, ChargesEnrolled, m
  <2> QED BY <2>1, <1>3, <1>4, <1>5 DEF ChargesEnrolled, StillEnrolled
<1>9. Settled(ch, alloc)
  <2> SUFFICES ASSUME NEW c \in 1 .. Len(ch)
        PROVE StatusSettled(ch[c].status, Taken(alloc, LiveOn(c)), ch[c].amount)
    BY DEF Settled
  <2>1. CASE c \in 1 .. m
    BY <2>1, <1>3, ChargeFacts DEF m
  <2>2. CASE c \in m + 1 .. Len(ch)
    <3>1. Taken(alloc, LiveOn(c)) = 0
      <4>1. c \notin 1 .. m
        BY <1>1, <2>2
      <4>2. \A i \in 1 .. Len(alloc) : alloc[i].charge \in 1 .. m
        BY InvTables, RowRefers DEF LedgerInv, m
      <4>3. \A i \in 1 .. Len(alloc) : alloc[i] \notin LiveOn(c)
        BY <4>1, <4>2 DEF LiveOn
      <4> QED BY <4>3, InvTables, RowTypes, TakenNone
    <3>2. ch[c] \in ChargeRec
      BY <1>2
    <3>3. ch[c].amount \in Nat /\ ch[c].amount > 0
      BY <3>2, LedgerConstants DEF ChargeRec
    <3> QED BY <1>5, <2>2, <3>1, <3>3 DEF StatusSettled
  <2> QED BY <2>1, <2>2, <1>4
<1>10. References(ch, entry, alloc)
  <2>1. 1 .. m \subseteq 1 .. Len(ch)
    BY <1>3
  <2> QED BY <2>1 DEF LedgerInv, References, m
<1>11. Tables(ch, entry, alloc)
  BY <1>2, InvTables DEF Tables
<1>12. Calendar'
  BY CalendarFacts DEF Calendar, StillEnrolled, LedgerInv
<1>13. charge' = ch /\ entry' = entry /\ alloc' = alloc
  BY DEF ch
<1>14. Funded(entry, alloc) /\ RefundsStand(entry) /\ VoidsHold(entry, alloc)
  BY DEF LedgerInv
<1> QED BY <1>7, <1>8, <1>9, <1>10, <1>11, <1>12, <1>13, <1>14 DEF LedgerInv

\* An enrollment keeps the invariant: its months are billed once.
LEMMA EnrollKeeps ==
  ASSUME LedgerInv, NEW enr \in Enrollment, NEW mode \in {"paid", "grant"}, Enroll(enr, mode)
  PROVE  LedgerInv'
<1> DEFINE N == IF mode = "grant" THEN 0 ELSE Months - ThisMonth
           row(seq) == [enr |-> enr, seq |-> seq, amount |-> Price, status |-> "open"]
           new == [seq \in 1 .. N |-> row(seq)]
           rec == [status |-> "active", mode |-> mode, since |-> today]
<1>1. /\ charge' = charge \o new /\ enrollment' = [enrollment EXCEPT ![enr] = rec]
      /\ UNCHANGED <<today, entry, alloc, closed>> /\ enrollment[enr].status = "none" /\ today < 2 * Months
  BY DEF Enroll
<1>2. today \in Nat /\ today \in FirstDay .. LastDay /\ enrollment \in [Enrollment -> EnrollmentRec]
  BY CalendarFacts DEF LedgerInv, Calendar
<1>3. Months \in Nat /\ FirstDay \in Nat /\ LastDay \in Nat
  BY LedgerConstants
<1>4. N \in Nat /\ N <= Months
  <2>1. ThisMonth \in Nat /\ ThisMonth <= Months
    BY <1>1, <1>2, <1>3 DEF ThisMonth
  <2> QED BY <1>3, <2>1
<1>5. \A seq \in 1 .. N : row(seq) \in ChargeRec
  BY <1>3, <1>4 DEF ChargeRec
<1>6. rec \in EnrollmentRec
  BY <1>2, <1>3 DEF EnrollmentRec
<1> HIDE DEF N, rec
<1>7. new \in Seq(ChargeRec) /\ Len(new) = N
  <2>1. new \in [1 .. N -> ChargeRec]
    BY <1>5
  <2> HIDE DEF new
  <2> QED BY <1>4, <2>1, FunctionIsSeq
<1>8. \A k \in 1 .. N : new[k] = row(k)
  OBVIOUS
<1> HIDE DEF new
<1>9. Live(enr) = {}
  <2>1. \A c \in DOMAIN charge : charge[c].enr # enr
    BY <1>1, InvTables DEF LedgerInv, ChargesEnrolled
  <2> QED BY <2>1 DEF Live, ChargesOf
<1>10. BillsAnew(new, enr)
  BY <1>7, <1>8, <1>9 DEF BillsAnew
<1>11. StillEnrolled /\ enrollment'[enr].status # "none"
  <2>1. enrollment'[enr] = rec /\ rec.status = "active"
          /\ \A x \in Enrollment \ {enr} : enrollment'[x] = enrollment[x]
    BY <1>1, <1>2 DEF rec
  <2>2. enrollment' \in [Enrollment -> EnrollmentRec]
    BY <1>1, <1>2, <1>6
  <2> QED BY <2>1, <2>2 DEF StillEnrolled
<1> QED BY <1>1, <1>10, <1>11, ChargesAdded

\* Billing that resumes keeps the invariant: only months that are not live are billed.
LEMMA ToPaidKeeps ==
  ASSUME LedgerInv, NEW enr \in Enrollment, ToPaid(enr)
  PROVE  LedgerInv'
<1> DEFINE seqs == {seq \in Billed(enr) \ Live(enr) : Start(enr, seq) > today}
           order == Ascending(seqs)
           row(i) == [enr |-> enr, seq |-> order[i], amount |-> Price, status |-> "open"]
           new == NewCharges(enr, seqs)
<1>1. /\ charge' = charge \o new /\ enrollment' = [enrollment EXCEPT ![enr].mode = "paid"]
      /\ UNCHANGED <<today, entry, alloc, closed>> /\ enrollment[enr].status = "active"
  BY DEF ToPaid
<1>2. enrollment \in [Enrollment -> EnrollmentRec] /\ enrollment[enr] \in EnrollmentRec
  BY CalendarFacts
<1>3. seqs \subseteq 1 .. Months /\ seqs \cap Live(enr) = {}
  <2>1. Months \in Nat /\ LastDay \in Nat
    BY LedgerConstants
  <2>2. enrollment[enr].since \in Nat
    BY <1>2, <2>1 DEF EnrollmentRec
  <2>3. Billed(enr) \subseteq 1 .. Months
    BY <2>1, <2>2 DEF Billed
  <2> QED BY <2>3
<1>4. Lists(order, seqs)
  <2>1. IsFiniteSet(1 .. Months)
    BY LedgerConstants, FS_Interval
  <2> DEFINE I == 1 .. Months
  <2>2. seqs \in SUBSET I /\ I \subseteq Nat /\ IsFiniteSet(I)
    BY <1>3, <2>1, LedgerConstants
  <2> HIDE DEF seqs, I
  <2>3. IsFiniteSet(seqs) /\ seqs \in SUBSET Nat
    BY <2>2, FS_Subset
  <2> QED BY <2>3, NumbersOrdered
<1>5. new = [i \in DOMAIN order |-> row(i)]
  BY DEF NewCharges, Ascending
<1> HIDE DEF new, order, seqs
<1>6. Len(order) \in Nat /\ DOMAIN order = 1 .. Len(order) /\ \A i \in 1 .. Len(order) : order[i] \in seqs
  BY <1>4 DEF Lists
<1>7. \A i \in 1 .. Len(order) : row(i) \in ChargeRec
  BY <1>3, <1>6 DEF ChargeRec
<1>8. new \in Seq(ChargeRec) /\ Len(new) = Len(order)
  <2>1. new \in [1 .. Len(order) -> ChargeRec]
    BY <1>5, <1>6, <1>7
  <2> QED BY <1>6, <2>1, FunctionIsSeq
<1>9. \A k \in 1 .. Len(order) : new[k] = row(k)
  BY <1>5, <1>6
<1>10. BillsAnew(new, enr)
  <2>1. \A j, k \in 1 .. Len(order) : order[j] = order[k] => j = k
    BY <1>4 DEF Lists
  <2>2. \A k \in 1 .. Len(order) :
          new[k].enr = enr /\ new[k].status = "open" /\ new[k].seq = order[k] /\ new[k].seq \notin Live(enr)
    <3>1. \A k \in 1 .. Len(order) : order[k] \notin Live(enr)
      BY <1>3, <1>6
    <3>2. \A k \in 1 .. Len(order) : new[k].enr = enr /\ new[k].status = "open" /\ new[k].seq = order[k]
      <4> SUFFICES ASSUME NEW k \in 1 .. Len(order)
                   PROVE  new[k].enr = enr /\ new[k].status = "open" /\ new[k].seq = order[k]
        OBVIOUS
      <4>1. new[k] = [enr |-> enr, seq |-> order[k], amount |-> Price, status |-> "open"]
        BY <1>9
      <4> QED BY <4>1
    <3> QED BY <3>1, <3>2
  <2> QED BY <2>1, <2>2, <1>8 DEF BillsAnew
<1>11. StillEnrolled /\ enrollment'[enr].status # "none"
  <2>1. \A x \in Enrollment : enrollment'[x].status = enrollment[x].status
    BY <1>1, <1>2 DEF EnrollmentRec
  <2>2. enrollment' \in [Enrollment -> EnrollmentRec]
    BY <1>1, <1>2 DEF EnrollmentRec
  <2> QED BY <1>1, <2>1, <2>2 DEF StillEnrolled
<1> QED BY <1>1, <1>10, <1>11, ChargesAdded

-----------------------------------------------------------------------------
(* Charges that are cancelled.                                             *)

\* The charges of gone are cancelled, the others are as in re.
Cancels(new, ch, re, gone) ==
  new = [c \in DOMAIN ch |-> IF c \in gone THEN [ch[c] EXCEPT !.status = "cancelled"] ELSE re[c]]

\* Charges that are cancelled with nothing allocated to them agree with their status.
LEMMA CancelledSettles ==
  ASSUME NEW ch \in Seq(ChargeRec), NEW re, SameCharges(ch, re), NEW gone, NEW new, Cancels(new, ch, re, gone),
         NEW al \in Seq(AllocRec), Settled(re, al), \A c \in gone : Taken(al, LiveOn(c)) = 0
  PROVE  /\ SameCharges(ch, new) /\ Settled(new, al)
         /\ \A c \in 1 .. Len(ch) : IF c \in gone THEN new[c].status = "cancelled" ELSE new[c] = re[c]
<1> DEFINE R(c) == IF c \in gone THEN [ch[c] EXCEPT !.status = "cancelled"] ELSE re[c]
<1>1. DOMAIN ch = 1 .. Len(ch) /\ Len(ch) \in Nat
  OBVIOUS
<1>2. new = [c \in 1 .. Len(ch) |-> R(c)]
  BY <1>1 DEF Cancels
<1>3. re \in Seq(ChargeRec) /\ Len(re) = Len(ch)
  BY DEF SameCharges
<1>4. ASSUME NEW c \in 1 .. Len(ch)
      PROVE  /\ R(c) \in ChargeRec
             /\ R(c).enr = ch[c].enr /\ R(c).seq = ch[c].seq /\ R(c).amount = ch[c].amount
             /\ ch[c].status = "cancelled" => R(c).status = "cancelled"
             /\ IF c \in gone THEN R(c).status = "cancelled" ELSE R(c) = re[c]
             /\ StatusSettled(R(c).status, Taken(al, LiveOn(c)), R(c).amount)
  <2>1. ch[c] \in ChargeRec /\ re[c] \in ChargeRec
    BY <1>3
  <2>2. StatusSettled(re[c].status, Taken(al, LiveOn(c)), re[c].amount)
    BY <1>3 DEF Settled
  <2>3. CASE c \in gone
    <3> DEFINE r == [ch[c] EXCEPT !.status = "cancelled"]
    <3>1. r \in ChargeRec /\ r.enr = ch[c].enr /\ r.seq = ch[c].seq /\ r.amount = ch[c].amount
            /\ r.status = "cancelled"
      BY <2>1 DEF ChargeRec
    <3>2. R(c) = r
      BY <2>3
    <3> HIDE DEF r, R
    <3>3. r.amount \in Nat
      BY <3>1, LedgerConstants DEF ChargeRec
    <3>4. StatusSettled("cancelled", Taken(al, LiveOn(c)), r.amount)
      BY <2>3, <3>3 DEF StatusSettled
    <3> QED BY <2>3, <3>1, <3>2, <3>4
  <2>4. CASE c \notin gone
    <3>1. R(c) = re[c]
      BY <2>4
    <3> HIDE DEF R
    <3> QED BY <2>1, <2>2, <2>4, <3>1 DEF SameCharges
  <2> QED BY <2>3, <2>4
<1> HIDE DEF R
<1>5. new \in Seq(ChargeRec) /\ Len(new) = Len(ch) /\ \A c \in 1 .. Len(ch) : new[c] = R(c)
  <2>1. new \in [1 .. Len(ch) -> ChargeRec]
    BY <1>2, <1>4
  <2>2. \A c \in 1 .. Len(ch) : new[c] = R(c)
    BY <1>2
  <2> QED BY <1>1, <2>1, <2>2, FunctionIsSeq
<1>6. SameCharges(ch, new)
  BY <1>4, <1>5 DEF SameCharges
<1>7. Settled(new, al)
  BY <1>4, <1>5 DEF Settled
<1> QED BY <1>4, <1>5, <1>6, <1>7

-----------------------------------------------------------------------------
(* Entries that are no reversals.                                          *)

\* The new entries neither void nor refund, and say nothing of an older entry.
NoReversals(en, longer) ==
  \A e \in Len(en) + 1 .. Len(longer) :
    longer[e].type \notin {"refund", "void"} /\ longer[e].reverses = 0

\* Such entries void nothing, refund nothing and orphan no refund.
LEMMA NoReversalKeeps ==
  ASSUME NEW en, NEW longer, Longer(en, longer), NoReversals(en, longer)
  PROVE  /\ \A e : VoidedIn(longer, e) <=> VoidedIn(en, e)
         /\ \A e : Taken(longer, CashOf(e)) = Taken(en, CashOf(e))
              /\ Taken(longer, RefundOf(e)) = Taken(en, RefundOf(e))
         /\ Taken(longer, AnyCash) = Taken(en, AnyCash)
         /\ RefundsStand(en) => RefundsStand(longer)
<1> DEFINE n == Len(en)
<1>1. n \in Nat /\ Len(longer) \in Nat /\ Len(longer) >= n /\ \A e \in 1 .. n : longer[e] = en[e]
        /\ e \in 1 .. Len(longer)
  BY DEF Longer
<1>2. \A e \in 1 .. Len(longer) : e \in 1 .. n \/ e \in n + 1 .. Len(longer)
  BY <1>1
<1>3. ASSUME NEW e PROVE VoidedIn(longer, e) <=> VoidedIn(en, e)
  <2>1. /\ VoidedIn(en, e) => VoidedIn(longer, e)
        /\ VoidedIn(longer, e) => \/ VoidedIn(en, e)
                                  \/ \E v \in n + 1 .. Len(longer) : longer[v].type = "void"
                                       /\ longer[v].reverses = e
    BY VoidedStays
  <2>2. \A v \in n + 1 .. Len(longer) : longer[v].type # "void"
    BY DEF NoReversals
  <2> QED BY <2>1, <2>2
<1>4. ASSUME NEW e
      PROVE  Taken(longer, CashOf(e)) = Taken(en, CashOf(e))
               /\ Taken(longer, RefundOf(e)) = Taken(en, RefundOf(e))
  <2>1. \A d \in n + 1 .. Len(longer) : longer[d] \notin CashOf(e) /\ longer[d] \notin RefundOf(e)
    BY DEF NoReversals, CashOf, RefundOf
  <2> QED BY <2>1, NoneEntered
<1>5. Taken(longer, AnyCash) = Taken(en, AnyCash)
  <2>1. \A d \in n + 1 .. Len(longer) : longer[d] \notin AnyCash
    BY DEF NoReversals, AnyCash
  <2> QED BY <2>1, NoneEntered
<1>6. ASSUME RefundsStand(en) PROVE RefundsStand(longer)
  <2> SUFFICES ASSUME NEW r \in 1 .. Len(longer), longer[r].type \in {"refund", "void"}
               PROVE  /\ longer[r].reverses \in 1 .. Len(longer) /\ longer[longer[r].reverses].type = "payment"
                      /\ longer[r].type = "refund" => ~VoidedIn(longer, longer[r].reverses)
    BY DEF RefundsStand
  <2>1. r \in 1 .. n
    BY <1>2 DEF NoReversals
  <2>2. longer[r] = en[r]
    BY <1>1, <2>1
  <2>3. en[r].reverses \in 1 .. n /\ en[en[r].reverses].type = "payment"
          /\ (en[r].type = "refund" => ~VoidedIn(en, en[r].reverses))
    BY <1>6, <2>1, <2>2 DEF RefundsStand
  <2> QED BY <1>1, <1>3, <2>2, <2>3
<1> QED BY <1>3, <1>4, <1>5, <1>6

-----------------------------------------------------------------------------
(* Withdrawal.                                                             *)

\* The live rows on the charges of gone are stamped with entry by.
Frees(new, al, gone, by) ==
  new = [i \in DOMAIN al |-> IF al[i].by = 0 /\ al[i].charge \in gone THEN [al[i] EXCEPT !.by = by] ELSE al[i]]
FreedKind(gone) == {r \in AllocRec : r.by = 0 /\ r.charge \in gone}
\* What still consumes an entry once the rows on gone are freed: an adjustment stays spent.
StillSpent(en, e, gone) ==
  {r \in AllocRec : r.entry = e /\ ConsumesIn(en, r) /\ (en[e].type # "adjustment" => r \notin FreedKind(gone))}

\* Where a table of allocations is freed.
FreedRows(new, al, gone, by) ==
  /\ new \in Seq(AllocRec) /\ Len(new) = Len(al)
  /\ \A i \in 1 .. Len(al) :
       /\ new[i].amount = al[i].amount /\ new[i].entry = al[i].entry /\ new[i].charge = al[i].charge
       /\ new[i].by = IF al[i] \in FreedKind(gone) THEN by ELSE al[i].by

\* The rows freed keep their amounts, entries and charges.
LEMMA FreedType ==
  ASSUME NEW al \in Seq(AllocRec), NEW gone, NEW by \in Nat, NEW new, Frees(new, al, gone, by)
  PROVE  FreedRows(new, al, gone, by)
<1> DEFINE R(i) == IF al[i].by = 0 /\ al[i].charge \in gone THEN [al[i] EXCEPT !.by = by] ELSE al[i]
<1>1. DOMAIN al = 1 .. Len(al) /\ Len(al) \in Nat
  OBVIOUS
<1>2. new = [i \in 1 .. Len(al) |-> R(i)]
  BY <1>1 DEF Frees
<1>3. ASSUME NEW i \in 1 .. Len(al)
      PROVE  /\ R(i) \in AllocRec
             /\ R(i).amount = al[i].amount /\ R(i).entry = al[i].entry /\ R(i).charge = al[i].charge
             /\ R(i).by = IF al[i] \in FreedKind(gone) THEN by ELSE al[i].by
  <2>1. al[i] \in AllocRec
    OBVIOUS
  <2> QED BY <2>1 DEF AllocRec, FreedKind
<1> HIDE DEF R
<1>4. new \in Seq(AllocRec) /\ Len(new) = Len(al) /\ \A i \in 1 .. Len(al) : new[i] = R(i)
  <2>1. new \in [1 .. Len(al) -> AllocRec]
    BY <1>2, <1>3
  <2>2. \A i \in 1 .. Len(al) : new[i] = R(i)
    BY <1>2
  <2> QED BY <1>1, <2>1, <2>2, FunctionIsSeq
<1> QED BY <1>3, <1>4 DEF FreedRows

\* The rows on gone are freed by a withdrawal, and the charges cancelled.
FreeingStep(gone) ==
  /\ Longer(entry, entry') /\ NoReversals(entry, entry')
  /\ \A e \in Len(entry) + 1 .. Len(entry') : entry'[e].type = "withdrawal"
  /\ FreedRows(alloc', alloc, gone, NextEntry)
  /\ (\E i \in 1 .. Len(alloc) : alloc[i] \in FreedKind(gone)) => Len(entry') = NextEntry
  /\ Cancels(charge', charge, charge, gone)
  /\ StillEnrolled /\ UNCHANGED <<today, closed>>

\* A withdrawal frees the rows on the months not begun and cancels these.
LEMMA WithdrawFrees ==
  ASSUME LedgerInv, NEW enr \in Enrollment, Withdraw(enr)
  PROVE  FreeingStep(Future(enr))
<1> DEFINE gone == Future(enr)
           freed == {i \in DOMAIN alloc : alloc[i].by = 0 /\ alloc[i].charge \in gone}
           S == SumFunction([i \in freed |-> alloc[i].amount])
           new == Entry("withdrawal", S, ThisMonth)
<1>1. DOMAIN alloc = 1 .. Len(alloc) /\ Len(alloc) \in Nat /\ Len(entry) \in Nat /\ NextEntry = Len(entry) + 1
      /\ NextEntry \in Nat
  BY InvTables DEF NextEntry
<1>2. entry \in Seq(EntryRec) /\ alloc \in Seq(AllocRec)
  BY InvTables
<1>3. freed = {i \in DOMAIN alloc : alloc[i] \in FreedKind(gone)}
  <2>1. \A i \in DOMAIN alloc : alloc[i] \in AllocRec
    BY <1>2
  <2> QED BY <2>1 DEF FreedKind
<1>4. /\ IF freed = {} THEN UNCHANGED <<entry, alloc>>
         ELSE /\ entry' = Append(entry, new)
              /\ alloc' = [i \in DOMAIN alloc |->
                             IF i \in freed THEN [alloc[i] EXCEPT !.by = NextEntry] ELSE alloc[i]]
      /\ Cancels(charge', charge, charge, gone)
      /\ enrollment' = [enrollment EXCEPT ![enr].status = "withdrawn"] /\ UNCHANGED <<today, closed>>
  BY DEF Withdraw, Cancels
<1>5. StillEnrolled
  <2>1. enrollment \in [Enrollment -> EnrollmentRec]
    BY CalendarFacts
  <2>2. enrollment' \in [Enrollment -> EnrollmentRec]
    BY <1>4, <2>1 DEF EnrollmentRec
  <2>3. \A x \in Enrollment : enrollment'[x].status = enrollment[x].status \/ enrollment'[x].status = "withdrawn"
    BY <1>4, <2>1 DEF EnrollmentRec
  <2> QED BY <2>2, <2>3 DEF StillEnrolled
<1>6. CASE freed = {}
  <2>1. entry' = entry /\ alloc' = alloc
    BY <1>4, <1>6
  <2>2. \A i \in 1 .. Len(alloc) : alloc[i] \notin FreedKind(gone)
    BY <1>1, <1>3, <1>6
  <2>3. FreedRows(alloc, alloc, gone, NextEntry)
    BY <1>2, <2>2 DEF FreedRows
  <2>4. Longer(entry, entry)
    BY <1>2 DEF Longer
  <2>5. \A e \in Len(entry) + 1 .. Len(entry) : FALSE
    BY <1>1
  <2> HIDE DEF gone, freed, new
  <2> QED BY <1>4, <1>5, <2>1, <2>2, <2>3, <2>4, <2>5 DEF FreeingStep, NoReversals, gone
<1>7. CASE freed # {}
  <2>1. S = Taken(alloc, FreedKind(gone))
    BY <1>3 DEF Taken
  <2>2. S \in Positive
    <3>1. PICK i \in 1 .. Len(alloc) : alloc[i] \in FreedKind(gone)
      BY <1>1, <1>3, <1>7
    <3>2. alloc[i].amount <= S
      <4> HIDE DEF S, freed
      <4> QED BY <2>1, <3>1, <1>2, RowTypes, TakenSome
    <3>3. alloc[i].amount \in Nat /\ alloc[i].amount > 0
      BY InvTables, RowRefers DEF LedgerInv
    <3>4. S \in Nat
      <4> HIDE DEF S, freed
      <4> QED BY <2>1, <1>2, RowTypes, TakenNat
    <3> HIDE DEF S
    <3> QED BY <3>2, <3>3, <3>4 DEF Positive
  <2> HIDE DEF S
  <2>3. IsEntry(new, "withdrawal", S, ThisMonth)
    <3>1. "withdrawal" \in EntryTypes /\ ThisMonth \in AccountingMonths
      BY CalendarFacts DEF EntryTypes
    <3> QED BY <2>2, <3>1, EntryType
  <2> HIDE DEF new
  <2>4. new \in EntryRec /\ new.type = "withdrawal" /\ new.reverses = 0
    BY <2>3 DEF IsEntry
  <2>5. entry' = entry \o <<new>>
    BY <1>2, <1>4, <1>7, <2>4, AppendOne
  <2> DEFINE more == <<new>>
  <2>6. more \in Seq(EntryRec) /\ Len(more) = 1 /\ more[1] = new
    BY <2>4
  <2> HIDE DEF more
  <2>7. /\ Longer(entry, entry') /\ Len(entry') = Len(entry) + 1
        /\ \A e \in Len(entry) + 1 .. Len(entry') : \E k \in 1 .. Len(more) : e = Len(entry) + k
             /\ entry'[e] = more[k]
    BY <1>2, <2>5, <2>6, LongerBy DEF more
  <2>8. \A e \in Len(entry) + 1 .. Len(entry') : entry'[e] = new
    BY <2>6, <2>7
  <2>9. FreedRows(alloc', alloc, gone, NextEntry)
    <3>1. Frees(alloc', alloc, gone, NextEntry)
      BY <1>4, <1>7 DEF Frees
    <3> HIDE DEF gone
    <3> QED BY <1>1, <1>2, <3>1, FreedType
  <2> HIDE DEF gone, freed
  <2> QED BY <1>1, <1>4, <1>5, <2>4, <2>7, <2>8, <2>9 DEF FreeingStep, NoReversals, gone
<1> QED BY <1>6, <1>7

\* What is still spent of an entry after a withdrawal.
LEMMA FreeingSpends ==
  ASSUME LedgerInv, NEW gone, FreeingStep(gone), NEW e \in 1 .. Len(entry)
  PROVE  Taken(alloc', SpentOf(entry', e)) = Taken(alloc, StillSpent(entry, e, gone))
<1>1. alloc \in Seq(AllocRec) /\ alloc' \in Seq(AllocRec) /\ Len(alloc') = Len(alloc) /\ Longer(entry, entry')
  BY InvTables DEF FreeingStep, FreedRows
<1>2. NextEntry = Len(entry) + 1 /\ NextEntry # 0 /\ Len(entry) \in Nat
  BY InvTables DEF NextEntry
<1>3. ASSUME NEW i \in 1 .. Len(alloc)
      PROVE  alloc[i] \in StillSpent(entry, e, gone) <=> alloc'[i] \in SpentOf(entry', e)
  <2>1. /\ alloc'[i].entry = alloc[i].entry /\ alloc'[i] \in AllocRec
        /\ alloc'[i].by = IF alloc[i] \in FreedKind(gone) THEN NextEntry ELSE alloc[i].by
    BY <1>1 DEF FreeingStep, FreedRows
  <2>2. alloc[i] \in AllocRec /\ alloc[i].entry \in 1 .. Len(entry) /\ alloc[i].by \in Nat
          /\ alloc[i].by <= Len(entry)
    BY InvTables, RowRefers DEF LedgerInv
  <2>3. CASE alloc[i] \in FreedKind(gone)
    <3>1. alloc[i].by = 0
      BY <2>3 DEF FreedKind
    <3>2. Len(entry') = NextEntry
      BY <2>3 DEF FreeingStep
    <3>3. entry'[NextEntry].type = "withdrawal"
      BY <1>2, <3>2 DEF FreeingStep
    <3>4. entry'[e] = entry[e]
      BY <1>1 DEF Longer
    <3>5. alloc'[i].entry = e => (ConsumesIn(entry', alloc'[i]) <=> entry[e].type = "adjustment")
      BY <1>2, <2>1, <2>3, <3>3, <3>4 DEF ConsumesIn
    <3> QED BY <2>1, <2>2, <2>3, <3>1, <3>5 DEF StillSpent, SpentOf, ConsumesIn
  <2>4. CASE alloc[i] \notin FreedKind(gone)
    <3>1. ConsumesIn(entry', alloc'[i]) <=> ConsumesIn(entry', alloc[i])
      BY <2>1, <2>4 DEF ConsumesIn
    <3>2. ConsumesIn(entry', alloc[i]) <=> ConsumesIn(entry, alloc[i])
      BY <1>1, <2>2, ConsumesStays
    <3> QED BY <2>1, <2>2, <2>4, <3>1, <3>2 DEF StillSpent, SpentOf
  <2> QED BY <2>3, <2>4
<1>4. \A j \in 1 .. Len(alloc) : alloc'[j].amount = alloc[j].amount
  BY DEF FreeingStep, FreedRows
<1> QED BY <1>1, <1>3, <1>4, RowTypes, TakenMoved

\* What a charge has after a withdrawal.
LEMMA FreeingLives ==
  ASSUME LedgerInv, NEW gone, FreeingStep(gone), NEW c
  PROVE  Taken(alloc', LiveOn(c)) = IF c \in gone THEN 0 ELSE Taken(alloc, LiveOn(c))
<1>1. alloc \in Seq(AllocRec) /\ alloc' \in Seq(AllocRec) /\ Len(alloc') = Len(alloc) /\ NextEntry # 0
  BY InvTables DEF FreeingStep, FreedRows
<1>2. \A i \in 1 .. Len(alloc) :
        /\ alloc'[i].amount = alloc[i].amount /\ alloc'[i].charge = alloc[i].charge
        /\ alloc[i] \in AllocRec /\ alloc'[i] \in AllocRec
        /\ alloc'[i].by = IF alloc[i] \in FreedKind(gone) THEN NextEntry ELSE alloc[i].by
  BY <1>1 DEF FreeingStep, FreedRows
<1>3. CASE c \in gone
  <2>1. \A i \in 1 .. Len(alloc') : alloc'[i] \notin LiveOn(c)
    BY <1>1, <1>2, <1>3 DEF LiveOn, FreedKind
  <2> QED BY <1>1, <1>3, <2>1, RowTypes, TakenNone
<1>4. CASE c \notin gone
  <2>1. \A i \in 1 .. Len(alloc) : alloc[i] \in LiveOn(c) <=> alloc'[i] \in LiveOn(c)
    BY <1>1, <1>2, <1>4 DEF LiveOn, FreedKind
  <2>2. Taken(alloc', LiveOn(c)) = Taken(alloc, LiveOn(c))
    BY <1>1, <1>2, <2>1, RowTypes, TakenMoved
  <2> QED BY <1>4, <2>2
<1> QED BY <1>3, <1>4

\* A withdrawal keeps the invariant, and every charge that it does not cancel.
LEMMA FreeingKeeps ==
  ASSUME LedgerInv, NEW gone, FreeingStep(gone)
  PROVE  /\ LedgerInv' /\ SameCharges(charge, charge')
         /\ \A c \in 1 .. Len(charge) : IF c \in gone THEN charge'[c].status = "cancelled" ELSE charge'[c] = charge[c]
<1> DEFINE n == Len(entry)
<1>1. /\ charge \in Seq(ChargeRec) /\ entry \in Seq(EntryRec) /\ alloc \in Seq(AllocRec) /\ n \in Nat
      /\ alloc' \in Seq(AllocRec) /\ Len(alloc') = Len(alloc) /\ Longer(entry, entry')
           /\ NoReversals(entry, entry')
      /\ NextEntry = n + 1 /\ NextEntry # 0
  BY InvTables DEF FreeingStep, FreedRows, NextEntry
<1>2. /\ entry' \in Seq(EntryRec) /\ Len(entry') \in Nat /\ n <= Len(entry')
      /\ \A e \in 1 .. n : entry'[e] = entry[e] /\ e \in 1 .. Len(entry')
  BY <1>1 DEF Longer
<1>3. \A e \in 1 .. Len(entry') : e \in 1 .. n \/ e \in n + 1 .. Len(entry')
  BY <1>1, <1>2
<1> HIDE DEF n
<1>4. /\ \A e : VoidedIn(entry', e) <=> VoidedIn(entry, e)
      /\ \A e : Taken(entry', CashOf(e)) = Taken(entry, CashOf(e))
           /\ Taken(entry', RefundOf(e)) = Taken(entry, RefundOf(e))
      /\ RefundsStand(entry')
  BY <1>1, NoReversalKeeps DEF LedgerInv
<1>5. \A c : Taken(alloc', LiveOn(c)) = IF c \in gone THEN 0 ELSE Taken(alloc, LiveOn(c))
  BY FreeingLives
<1>6. /\ SameCharges(charge, charge') /\ Settled(charge', alloc')
      /\ \A c \in 1 .. Len(charge) : IF c \in gone THEN charge'[c].status = "cancelled" ELSE charge'[c] = charge[c]
  <2> DEFINE re == [c \in 1 .. Len(charge) |-> IF c \in gone THEN [charge[c] EXCEPT !.status = "cancelled"] ELSE charge[c]]
  <2>1. SameCharges(charge, re)
    <3>1. \A c \in 1 .. Len(charge) : charge[c] \in ChargeRec
      BY <1>1
    <3>2. \A c \in 1 .. Len(charge) :
            /\ re[c] \in ChargeRec /\ re[c].enr = charge[c].enr /\ re[c].seq = charge[c].seq
            /\ re[c].amount = charge[c].amount /\ (charge[c].status = "cancelled" => re[c].status = "cancelled")
      BY <3>1 DEF ChargeRec
    <3>3. re \in [1 .. Len(charge) -> ChargeRec] /\ Len(charge) \in Nat
      BY <1>1, <3>2
    <3> HIDE DEF re
    <3>4. re \in Seq(ChargeRec) /\ Len(re) = Len(charge)
      BY <3>3, FunctionIsSeq
    <3> QED BY <3>2, <3>4 DEF SameCharges
  <2>2. Cancels(charge', charge, re, gone)
    <3>1. DOMAIN charge = 1 .. Len(charge)
      BY <1>1
    <3>2. charge' = [c \in DOMAIN charge |-> IF c \in gone THEN [charge[c] EXCEPT !.status = "cancelled"] ELSE charge[c]]
      BY DEF FreeingStep, Cancels
    <3> QED BY <3>1, <3>2 DEF Cancels
  <2>3. Settled(re, alloc')
    <3> SUFFICES ASSUME NEW c \in 1 .. Len(re)
          PROVE StatusSettled(re[c].status, Taken(alloc', LiveOn(c)), re[c].amount)
      BY DEF Settled
    <3>1. c \in 1 .. Len(charge) /\ re[c].amount = charge[c].amount
      BY <2>1 DEF SameCharges
    <3>2. charge[c] \in ChargeRec /\ charge[c].amount \in Nat
            /\ StatusSettled(charge[c].status, Taken(alloc, LiveOn(c)), charge[c].amount)
      BY <3>1, ChargeFacts
    <3>3. CASE c \in gone
      <4>1. re[c].status = "cancelled"
        BY <3>1, <3>2, <3>3 DEF ChargeRec
      <4>2. Taken(alloc', LiveOn(c)) = 0
        BY <1>5, <3>3
      <4> HIDE DEF re
      <4> QED BY <3>1, <3>2, <4>1, <4>2 DEF StatusSettled
    <3>4. CASE c \notin gone
      <4>1. re[c].status = charge[c].status
        BY <3>1, <3>4
      <4>2. Taken(alloc', LiveOn(c)) = Taken(alloc, LiveOn(c))
        BY <1>5, <3>4
      <4> HIDE DEF re
      <4> QED BY <3>1, <3>2, <4>1, <4>2
    <3> QED BY <3>3, <3>4
  <2>4. \A c \in gone : Taken(alloc', LiveOn(c)) = 0
    BY <1>5
  <2>5. \A c \in 1 .. Len(charge) : c \notin gone => re[c] = charge[c]
    OBVIOUS
  <2> HIDE DEF re
  <2> QED BY <1>1, <2>1, <2>2, <2>3, <2>4, <2>5, CancelledSettles
<1>7. ChargesEnrolled(charge', enrollment') /\ LiveOnce(charge')
  <2>1. \A x \in Enrollment : enrollment[x].status # "none" => enrollment'[x].status # "none"
    BY DEF FreeingStep, StillEnrolled
  <2>2. ChargesEnrolled(charge, enrollment) /\ LiveOnce(charge)
    BY DEF LedgerInv
  <2> QED BY <1>1, <1>6, <2>1, <2>2, SameChargesKeep
<1>8. References(charge', entry', alloc')
  <2>1. Len(charge') = Len(charge)
    BY <1>6 DEF SameCharges
  <2>2. \A e \in 1 .. Len(entry') : entry'[e].reverses <= Len(entry')
    <3> SUFFICES ASSUME NEW e \in 1 .. Len(entry') PROVE entry'[e].reverses <= Len(entry')
      OBVIOUS
    <3>1. CASE e \in 1 .. n
      <4>1. entry[e].reverses <= n /\ entry[e].reverses \in Nat
        BY <1>1, <3>1, EntryFacts DEF LedgerInv, References, n
      <4> QED BY <4>1, <1>1, <1>2, <3>1 DEF n
    <3>2. CASE e \in n + 1 .. Len(entry')
      BY <1>1, <1>2, <3>2 DEF NoReversals, n
    <3> QED BY <1>3, <3>1, <3>2
  <2>3. ASSUME NEW i \in 1 .. Len(alloc')
        PROVE  alloc'[i].entry \in 1 .. Len(entry') /\ alloc'[i].charge \in 1 .. Len(charge)
                 /\ alloc'[i].by <= Len(entry')
    <3>1. alloc[i].entry \in 1 .. n /\ alloc[i].charge \in 1 .. Len(charge) /\ alloc[i].by <= n
            /\ alloc[i].by \in Nat
      BY <1>1, InvTables, RowRefers DEF LedgerInv, n
    <3>2. /\ alloc'[i].entry = alloc[i].entry /\ alloc'[i].charge = alloc[i].charge
          /\ alloc'[i].by = IF alloc[i] \in FreedKind(gone) THEN NextEntry ELSE alloc[i].by
      BY <1>1 DEF FreeingStep, FreedRows
    <3>3. alloc[i] \in FreedKind(gone) => Len(entry') = NextEntry
      BY <1>1 DEF FreeingStep
    <3>4. alloc'[i].by <= Len(entry')
      BY <1>1, <1>2, <3>1, <3>2, <3>3 DEF n
    <3> QED BY <1>2, <3>1, <3>2, <3>4
  <2> QED BY <2>1, <2>2, <2>3 DEF References
<1>9. Funded(entry', alloc')
  <2> SUFFICES ASSUME NEW e \in 1 .. Len(entry'), entry'[e].type \in {"payment", "adjustment", "discount"}
               PROVE  /\ Taken(alloc', SpentOf(entry', e)) + Taken(entry', CashOf(e)) <= entry'[e].amount
                      /\ Taken(entry', RefundOf(e)) <= entry'[e].amount
    BY DEF Funded
  <2>1. e \in 1 .. n
    <3>1. e \in n + 1 .. Len(entry') => entry'[e].type = "withdrawal"
      BY DEF FreeingStep, n
    <3> QED BY <1>3, <3>1
  <2>2. entry'[e] = entry[e]
    BY <1>2, <2>1
  <2>3. /\ Taken(alloc, SpentOf(entry, e)) + Taken(entry, CashOf(e)) <= entry[e].amount
        /\ Taken(entry, RefundOf(e)) <= entry[e].amount
    BY <2>1, <2>2 DEF LedgerInv, Funded, n
  <2>4. Taken(alloc', SpentOf(entry', e)) <= Taken(alloc, SpentOf(entry, e))
    <3>1. Taken(alloc', SpentOf(entry', e)) = Taken(alloc, StillSpent(entry, e, gone))
      BY <2>1, FreeingSpends DEF n
    <3>2. \A j \in 1 .. Len(alloc) : alloc[j] \in StillSpent(entry, e, gone) => alloc[j] \in SpentOf(entry, e)
      BY DEF StillSpent, SpentOf
    <3>3. Taken(alloc, StillSpent(entry, e, gone)) <= Taken(alloc, SpentOf(entry, e))
      BY <1>1, <3>2, RowTypes, TakenPart
    <3> QED BY <3>1, <3>3
  <2>5. /\ Taken(alloc', SpentOf(entry', e)) \in Nat /\ Taken(alloc, SpentOf(entry, e)) \in Nat
        /\ Taken(entry, CashOf(e)) \in Nat /\ entry[e].amount \in Nat
    BY <1>1, <2>1, RowTypes, TakenNat, EntryFacts DEF n
  <2> DEFINE s == Taken(alloc, SpentOf(entry, e))  t == Taken(alloc', SpentOf(entry', e))
             c == Taken(entry, CashOf(e))
             a == entry[e].amount
  <2>6. t \in Nat /\ s \in Nat /\ c \in Nat /\ a \in Nat /\ t <= s /\ s + c <= a
    BY <2>3, <2>4, <2>5
  <2> HIDE DEF s, t, c, a
  <2>7. t + c <= a
    BY <2>6
  <2> QED BY <1>4, <2>2, <2>3, <2>7 DEF t, c, a
<1>10. VoidsHold(entry', alloc')
  <2> SUFFICES ASSUME NEW i \in 1 .. Len(alloc'), alloc'[i].by = 0 PROVE ~VoidedIn(entry, alloc'[i].entry)
    BY <1>4 DEF VoidsHold
  <2>1. alloc'[i].entry = alloc[i].entry
          /\ alloc'[i].by = IF alloc[i] \in FreedKind(gone) THEN NextEntry ELSE alloc[i].by
    BY <1>1 DEF FreeingStep, FreedRows
  <2>2. alloc[i].by = 0
    BY <1>1, <2>1
  <2> QED BY <1>1, <2>1, <2>2 DEF LedgerInv, VoidsHold
<1>11. Calendar' /\ Tables(charge', entry', alloc')
  BY <1>1, <1>2, <1>6, CalendarFacts DEF FreeingStep, StillEnrolled, Calendar, Tables, SameCharges, LedgerInv
<1> QED BY <1>4, <1>6, <1>7, <1>8, <1>9, <1>10, <1>11 DEF LedgerInv

-----------------------------------------------------------------------------
(* A void or a refund.                                                     *)

\* n of payment p, that stands and has been refunded by no more than the rest, is
\* taken back; a void takes back all of a payment of which nothing was refunded.
ReversalStep(type, p, n, cash) ==
  /\ p \in 1 .. Len(entry) /\ entry[p].type = "payment" /\ ~VoidedIn(entry, p)
  /\ \/ type = "void" /\ n = entry[p].amount /\ Taken(entry, RefundOf(p)) = 0 /\ ~cash
     \/ type = "refund" /\ n + Taken(entry, RefundOf(p)) <= entry[p].amount
  /\ n \in Positive /\ cash \in BOOLEAN
  /\ Len(entry') = NextEntry /\ Longer(entry, entry')
  /\ entry'[NextEntry].type = type /\ entry'[NextEntry].amount = n
  /\ entry'[NextEntry].reverses = p /\ entry'[NextEntry].cash = cash /\ entry'[NextEntry].at = ThisMonth
  /\ Unapplied(alloc', p, NextEntry)
  /\ Taken(alloc', LiveOf(p)) = Taken(alloc, LiveOf(p)) - Least(n, Taken(alloc, LiveOf(p)))
  /\ charge' = Recomputed(charge, alloc', {alloc'[i].charge : i \in {j \in 1 .. Len(alloc) : alloc'[j].by = NextEntry}})
  /\ UNCHANGED <<today, enrollment, closed>>

\* TakeBack, for a void or a refund that is within the payment, is such a reversal.
LEMMA TakeBackReverses ==
  ASSUME LedgerInv, NEW type \in {"void", "refund"}, NEW p \in 1 .. Len(entry), NEW n \in Positive,
         NEW cash \in BOOLEAN,
         entry[p].type = "payment", ~VoidedIn(entry, p),
         \/ type = "void" /\ n = entry[p].amount /\ Taken(entry, RefundOf(p)) = 0 /\ ~cash
         \/ type = "refund" /\ n + Taken(entry, RefundOf(p)) <= entry[p].amount,
         TakeBack(type, p, n, cash)
  PROVE  ReversalStep(type, p, n, cash)
<1> DEFINE new == [Entry(type, n, ThisMonth) EXCEPT !.reverses = p, !.cash = cash]
           rows == Unapply(p, n, NextEntry)
<1>1. entry \in Seq(EntryRec) /\ DOMAIN alloc = 1 .. Len(alloc) /\ Len(entry) \in Nat
        /\ NextEntry = Len(entry) + 1
      /\ NextEntry \in Nat /\ NextEntry # 0 /\ p \in Nat /\ n \in Nat /\ Tables(charge, entry, alloc)
  BY InvTables DEF NextEntry, Positive
<1>2. new \in EntryRec /\ new.type = type /\ new.amount = n /\ new.reverses = p /\ new.cash = cash
        /\ new.at = ThisMonth
  <2> DEFINE e == Entry(type, n, ThisMonth)
  <2>1. type \in EntryTypes /\ ThisMonth \in AccountingMonths /\ e = Entry(type, n, ThisMonth)
    BY CalendarFacts DEF EntryTypes
  <2> HIDE DEF e
  <2>2. IsEntry(e, type, n, ThisMonth)
    BY <2>1, EntryType
  <2>3. [e EXCEPT !.reverses = p, !.cash = cash] \in EntryRec
    BY <1>1, <2>2 DEF IsEntry, EntryRec
  <2>4. /\ [e EXCEPT !.reverses = p, !.cash = cash].reverses = p
             /\ [e EXCEPT !.reverses = p, !.cash = cash].cash = cash
        /\ [e EXCEPT !.reverses = p, !.cash = cash].type = e.type
             /\ [e EXCEPT !.reverses = p, !.cash = cash].amount = e.amount
        /\ [e EXCEPT !.reverses = p, !.cash = cash].at = e.at
    BY <2>2 DEF IsEntry, EntryRec
  <2> QED BY <2>2, <2>3, <2>4 DEF e, IsEntry
<1>3. /\ entry' = Append(entry, new) /\ alloc' = rows
      /\ charge' = Recomputed(charge, rows, {rows[i].charge : i \in {j \in DOMAIN alloc : rows[j].by = NextEntry}})
      /\ UNCHANGED <<today, enrollment, closed>>
  BY DEF TakeBack
<1>4. /\ Unapplied(rows, p, NextEntry)
      /\ Taken(rows, LiveOf(p)) = Taken(alloc, LiveOf(p)) - Least(n, Taken(alloc, LiveOf(p)))
  BY <1>1, UnapplyTakes
<1> HIDE DEF new, rows
<1>5. Longer(entry, entry') /\ Len(entry') = NextEntry /\ entry'[NextEntry] = new
  <2> DEFINE more == <<new>>
  <2>1. more \in Seq(EntryRec) /\ Len(more) = 1 /\ more[1] = new /\ entry' = entry \o more
    BY <1>1, <1>2, <1>3, AppendOne
  <2> HIDE DEF more
  <2>2. entry \in Seq(EntryRec) /\ more \in Seq(EntryRec)
    BY <1>1, <2>1
  <2>3. /\ Longer(entry, entry \o more) /\ Len(entry \o more) = Len(entry) + Len(more)
        /\ \A k \in 1 .. Len(more) : (entry \o more)[Len(entry) + k] = more[k]
    BY <2>2, LongerBy
  <2>4. Longer(entry, entry') /\ Len(entry') = Len(entry) + 1 /\ entry'[Len(entry) + 1] = more[1]
    BY <2>1, <2>3
  <2> QED BY <1>1, <2>1, <2>4
<1> QED BY <1>1, <1>2, <1>3, <1>4, <1>5 DEF ReversalStep

\* What a reversal changes of the entries.
LEMMA ReversalEnters ==
  ASSUME LedgerInv, NEW type, NEW p, NEW n, NEW cash, ReversalStep(type, p, n, cash)
  PROVE  /\ \A e : VoidedIn(entry', e) <=> VoidedIn(entry, e) \/ (type = "void" /\ e = p)
         /\ \A e : e # p => /\ Taken(entry', CashOf(e)) = Taken(entry, CashOf(e))
                            /\ Taken(entry', RefundOf(e)) = Taken(entry, RefundOf(e))
         /\ Taken(entry', CashOf(p)) = Taken(entry, CashOf(p)) + IF type = "refund" /\ cash THEN n ELSE 0
         /\ Taken(entry', AnyCash) = Taken(entry, AnyCash) + IF type = "refund" /\ cash THEN n ELSE 0
         /\ Taken(entry', RefundOf(p)) = Taken(entry, RefundOf(p)) + IF type = "refund" THEN n ELSE 0
<1> DEFINE new == entry'[NextEntry]
           N == Len(entry)
<1>1. /\ entry \in Seq(EntryRec) /\ entry' \in Seq(EntryRec) /\ Longer(entry, entry') /\ Len(entry') = N + 1
           /\ N \in Nat
      /\ NextEntry = N + 1 /\ N + 1 .. Len(entry') = {NextEntry} /\ NextEntry \in 1 .. Len(entry')
           /\ NextEntry \in 1 .. N + 1
  BY InvTables DEF ReversalStep, Longer, NextEntry
<1>2. /\ new \in EntryRec /\ new.type = type /\ new.amount = n /\ new.reverses = p /\ new.cash = cash
  BY <1>1, EntryFacts DEF ReversalStep
<1> HIDE DEF new
<1>3. entry' = Append(entry, new)
  <2>1. \A e \in 1 .. N : entry'[e] = entry[e]
    BY <1>1 DEF Longer
  <2>2. entry' = [e \in 1 .. N + 1 |-> entry'[e]]
    BY <1>1
  <2>3. Append(entry, new) = [e \in 1 .. N + 1 |-> Append(entry, new)[e]]
    <3> DEFINE longer == Append(entry, new)
    <3>1. longer \in Seq(EntryRec) /\ Len(longer) = N + 1
      BY <1>1, <1>2
    <3> HIDE DEF longer
    <3>2. longer = [e \in 1 .. N + 1 |-> longer[e]]
      BY <1>1, <3>1
    <3> QED BY <3>2 DEF longer
  <2>4. \A e \in 1 .. N + 1 : Append(entry, new)[e] = IF e = N + 1 THEN new ELSE entry[e]
    BY <1>1, <1>2
  <2>5. \A e \in 1 .. N + 1 : entry'[e] = Append(entry, new)[e]
    BY <1>1, <2>1, <2>4 DEF new
  <2> QED BY <2>2, <2>3, <2>5
<1>4. \A K : Taken(entry', K) = Taken(entry, K) + IF new \in K THEN n ELSE 0
  BY <1>1, <1>2, <1>3, RowTypes, TakenAppend
<1>5. \A e : Taken(entry, CashOf(e)) \in Nat /\ Taken(entry, RefundOf(e)) \in Nat
  BY <1>1, RowTypes, TakenNat
<1>6. /\ \A e : new \in CashOf(e) <=> type = "refund" /\ e = p /\ cash
      /\ \A e : new \in RefundOf(e) <=> type = "refund" /\ e = p
      /\ new \in AnyCash <=> type = "refund" /\ cash
  BY <1>2 DEF CashOf, RefundOf, AnyCash
<1>7. ASSUME NEW e PROVE VoidedIn(entry', e) <=> VoidedIn(entry, e) \/ (type = "void" /\ e = p)
  <2>1. /\ VoidedIn(entry, e) => VoidedIn(entry', e)
        /\ VoidedIn(entry', e) => \/ VoidedIn(entry, e)
                                  \/ \E v \in N + 1 .. Len(entry') : entry'[v].type = "void"
                                       /\ entry'[v].reverses = e
    BY <1>1, VoidedStays
  <2>2. \A v \in N + 1 .. Len(entry') : entry'[v] = new
    BY <1>1 DEF new
  <2>3. type = "void" /\ e = p => VoidedIn(entry', e)
    BY <1>1, <1>2 DEF VoidedIn, new
  <2> QED BY <1>2, <2>1, <2>2, <2>3
<1> QED BY <1>4, <1>5, <1>6, <1>7

\* The rows after a reversal: what still consumes an entry, and what a charge has.
LEMMA ReversalSpends ==
  ASSUME LedgerInv, NEW type, NEW p, NEW n, NEW cash, ReversalStep(type, p, n, cash), NEW e \in 1 .. Len(entry)
  PROVE  Taken(alloc', SpentOf(entry', e)) =
           Taken(alloc, SpentOf(entry, e)) - IF e = p THEN Least(n, Taken(alloc, LiveOf(p))) ELSE 0
<1>1. /\ alloc \in Seq(AllocRec) /\ alloc' \in Seq(AllocRec) /\ Len(alloc') >= Len(alloc)
           /\ Longer(entry, entry')
      /\ Len(alloc) \in Nat /\ Len(alloc') \in Nat /\ Len(entry) \in Nat /\ NextEntry = Len(entry) + 1
  BY InvTables DEF ReversalStep, Unapplied, NextEntry
<1>2. \A i \in 1 .. Len(alloc) :
        /\ alloc[i] \in AllocRec /\ alloc[i].entry \in 1 .. Len(entry) /\ alloc[i].by \in Nat
             /\ alloc[i].by <= Len(entry)
        /\ alloc'[i] \in AllocRec
  <2>1. \A i \in 1 .. Len(alloc) : i \in 1 .. Len(alloc')
    BY <1>1
  <2> QED BY <1>1, <2>1, InvTables, RowRefers DEF LedgerInv
<1>3. \A i \in 1 .. Len(alloc') : i \in 1 .. Len(alloc) \/ (i \in Len(alloc) + 1 .. Len(alloc') /\ alloc'[i].entry = p /\ alloc'[i].by = 0)
  BY <1>1 DEF ReversalStep, Unapplied
<1>4. \A i \in 1 .. Len(alloc) :
        \/ alloc'[i] = alloc[i]
        \/ alloc[i].entry = p /\ alloc[i].by = 0 /\ alloc'[i] = [alloc[i] EXCEPT !.by = NextEntry]
  BY DEF ReversalStep, Unapplied
<1>5. CASE e # p
  <2>1. ASSUME NEW i \in 1 .. Len(alloc)
        PROVE  alloc'[i].amount = alloc[i].amount
                 /\ (alloc[i] \in SpentOf(entry, e) <=> alloc'[i] \in SpentOf(entry', e))
    <3>1. CASE alloc'[i] = alloc[i]
      <4>1. ConsumesIn(entry', alloc[i]) <=> ConsumesIn(entry, alloc[i])
        BY <1>1, <1>2, ConsumesStays
      <4> QED BY <1>2, <3>1, <4>1 DEF SpentOf
    <3>2. CASE alloc[i].entry = p /\ alloc'[i] = [alloc[i] EXCEPT !.by = NextEntry]
      <4>1. alloc'[i].entry = p /\ alloc'[i].amount = alloc[i].amount
        BY <1>2, <3>2 DEF AllocRec
      <4> QED BY <1>5, <3>2, <4>1 DEF SpentOf
    <3> QED BY <1>4, <3>1, <3>2
  <2>2. \A i \in 1 .. Len(alloc') : alloc'[i] \in SpentOf(entry', e) => i \in 1 .. Len(alloc)
    BY <1>3, <1>5 DEF SpentOf
  <2>3. Taken(alloc', SpentOf(entry', e)) = Taken(alloc, SpentOf(entry, e))
    BY <1>1, <2>1, <2>2, RowTypes, TakenKept
  <2>4. Taken(alloc, SpentOf(entry, e)) \in Nat
    BY <1>1, RowTypes, TakenNat
  <2> QED BY <1>5, <2>3, <2>4
<1>6. CASE e = p
  <2>1. entry[p].type = "payment" /\ entry'[p] = entry[p]
    BY <1>1, <1>6 DEF ReversalStep, Longer
  <2>2. Taken(alloc, SpentOf(entry, p)) = Taken(alloc, LiveOf(p))
    <3>1. \A i \in 1 .. Len(alloc) : alloc[i] \in LiveOf(p) <=> alloc[i] \in SpentOf(entry, p)
      BY <2>1 DEF LiveOf, SpentOf, ConsumesIn
    <3> QED BY <1>1, <3>1, RowTypes, TakenSame
  <2>3. Taken(alloc', SpentOf(entry', p)) = Taken(alloc', LiveOf(p))
    <3>1. \A i \in 1 .. Len(alloc') : alloc'[i] \in LiveOf(p) <=> alloc'[i] \in SpentOf(entry', p)
      BY <2>1 DEF LiveOf, SpentOf, ConsumesIn
    <3> QED BY <1>1, <3>1, RowTypes, TakenSame
  <2> QED BY <1>6, <2>2, <2>3 DEF ReversalStep
<1> QED BY <1>5, <1>6

\* No charge has more than before, and those not stamped have the same.
LEMMA ReversalPayable ==
  ASSUME LedgerInv, NEW type, NEW p, NEW n, NEW cash, ReversalStep(type, p, n, cash),
         NEW touched, touched = {alloc'[i].charge : i \in {j \in 1 .. Len(alloc) : alloc'[j].by = NextEntry}}
  PROVE  Payable(charge, alloc, alloc', touched)
<1>1. /\ alloc \in Seq(AllocRec) /\ alloc' \in Seq(AllocRec) /\ Len(alloc') >= Len(alloc)
      /\ Len(alloc) \in Nat /\ Len(alloc') \in Nat /\ NextEntry # 0
  BY InvTables DEF ReversalStep, Unapplied
<1>2. \A i \in 1 .. Len(alloc) :
        \/ alloc'[i] = alloc[i]
        \/ alloc[i].by = 0 /\ alloc'[i] = [alloc[i] EXCEPT !.by = NextEntry]
  BY DEF ReversalStep, Unapplied
<1>3. \A i \in 1 .. Len(alloc) : alloc[i] \in AllocRec
  BY <1>1
<1>4. \A i \in 1 .. Len(alloc) :
        \/ alloc'[i] = alloc[i]
        \/ /\ alloc'[i].by = NextEntry /\ alloc'[i].charge = alloc[i].charge
             /\ alloc'[i].amount = alloc[i].amount
           /\ alloc[i].charge \in touched
  <2> SUFFICES ASSUME NEW i \in 1 .. Len(alloc), alloc'[i] # alloc[i]
               PROVE  /\ alloc'[i].by = NextEntry /\ alloc'[i].charge = alloc[i].charge
                           /\ alloc'[i].amount = alloc[i].amount
                      /\ alloc[i].charge \in touched
    OBVIOUS
  <2>1. alloc'[i].by = NextEntry /\ alloc'[i].charge = alloc[i].charge /\ alloc'[i].amount = alloc[i].amount
    BY <1>2, <1>3 DEF AllocRec
  <2> QED BY <2>1
<1>5. \A i \in 1 .. Len(alloc') :
        i \in 1 .. Len(alloc) \/ \E j \in 1 .. Len(alloc) : alloc'[j] # alloc[j]
          /\ alloc[j].charge = alloc'[i].charge
  <2>1. \A i \in 1 .. Len(alloc') : i \in 1 .. Len(alloc) \/ i \in Len(alloc) + 1 .. Len(alloc')
    BY <1>1
  <2> QED BY <2>1 DEF ReversalStep, Unapplied
<1>6. ASSUME NEW c \in 1 .. Len(charge), c \notin touched
      PROVE Taken(alloc', LiveOn(c)) = Taken(alloc, LiveOn(c))
  <2>1. \A i \in 1 .. Len(alloc) :
          alloc'[i].amount = alloc[i].amount /\ (alloc[i] \in LiveOn(c) <=> alloc'[i] \in LiveOn(c))
    BY <1>4, <1>6 DEF LiveOn
  <2>2. \A i \in 1 .. Len(alloc') : alloc'[i] \in LiveOn(c) => i \in 1 .. Len(alloc)
    BY <1>4, <1>5, <1>6, SMTT(30) DEF LiveOn
  <2> QED BY <1>1, <2>1, <2>2, RowTypes, TakenKept
<1>7. ASSUME NEW c \in 1 .. Len(charge)
      PROVE  /\ Taken(alloc', LiveOn(c)) <= charge[c].amount
             /\ charge[c].status = "cancelled" => Taken(alloc', LiveOn(c)) = 0
  <2> DEFINE t == Taken(alloc, LiveOn(c))  u == Taken(alloc', LiveOn(c))  a == charge[c].amount
  <2>1. t \in Nat /\ u \in Nat /\ a \in Nat
    BY <1>1, RowTypes, TakenNat, ChargeFacts
  <2>2. u <= t
    BY DEF ReversalStep, Unapplied
  <2>3. StatusSettled(charge[c].status, t, a)
    BY ChargeFacts
  <2> HIDE DEF t, u, a
  <2>4. u <= a /\ (charge[c].status = "cancelled" => u = 0)
    BY <2>1, <2>2, <2>3 DEF StatusSettled
  <2> QED BY <2>4 DEF u, a
<1> QED BY <1>6, <1>7 DEF Payable

\* Nothing live is left of a payment that is voided.
LEMMA VoidEmpties ==
  ASSUME LedgerInv, NEW p, NEW n, NEW cash, ReversalStep("void", p, n, cash)
  PROVE  Taken(alloc', LiveOf(p)) = 0 /\ \A i \in 1 .. Len(alloc') : alloc'[i].by = 0 => alloc'[i].entry # p
<1> DEFINE t == Taken(alloc, LiveOf(p))  s == Taken(alloc, SpentOf(entry, p))  c == Taken(entry, CashOf(p))
           a == entry[p].amount
<1>1. alloc \in Seq(AllocRec) /\ alloc' \in Seq(AllocRec) /\ p \in 1 .. Len(entry) /\ entry[p].type = "payment"
        /\ n = a
  BY InvTables DEF ReversalStep, Unapplied
<1>2. t \in Nat /\ s \in Nat /\ c \in Nat /\ a \in Nat
  BY <1>1, InvTables, RowTypes, TakenNat, EntryFacts
<1>3. t <= s
  <2>1. \A i \in 1 .. Len(alloc) : alloc[i] \in LiveOf(p) => alloc[i] \in SpentOf(entry, p)
    BY DEF LiveOf, SpentOf, ConsumesIn
  <2> QED BY <1>1, <2>1, RowTypes, TakenPart
<1>4. s + c <= a
  BY <1>1 DEF LedgerInv, Funded
<1>5. Taken(alloc', LiveOf(p)) = t - Least(n, t)
  BY DEF ReversalStep
<1> HIDE DEF t, s, c, a
<1>6. Taken(alloc', LiveOf(p)) = 0
  BY <1>1, <1>2, <1>3, <1>4, <1>5 DEF Least
<1>7. ASSUME NEW i \in 1 .. Len(alloc'), alloc'[i].by = 0, alloc'[i].entry = p PROVE FALSE
  <2>1. alloc'[i] \in LiveOf(p)
    BY <1>1, <1>7 DEF LiveOf
  <2>2. alloc'[i].amount <= 0
    BY <1>1, <1>6, <2>1, RowTypes, TakenSome
  <2>3. alloc'[i] \in AllocRec
    BY <1>1
  <2> QED BY <2>2, <2>3 DEF AllocRec, Positive
<1> QED BY <1>6, <1>7

\* A reversal keeps the invariant.
LEMMA ReversalKeeps ==
  ASSUME LedgerInv, NEW type, NEW p, NEW n, NEW cash, ReversalStep(type, p, n, cash)
  PROVE  LedgerInv' /\ SameCharges(charge, charge')
<1> DEFINE N == Len(entry)
<1>1. /\ charge \in Seq(ChargeRec) /\ entry \in Seq(EntryRec) /\ alloc \in Seq(AllocRec) /\ N \in Nat
      /\ entry' \in Seq(EntryRec) /\ alloc' \in Seq(AllocRec) /\ Len(alloc') >= Len(alloc) /\ Len(alloc) \in Nat
           /\ Len(alloc') \in Nat
      /\ Longer(entry, entry') /\ Len(entry') = N + 1 /\ NextEntry = N + 1 /\ Len(entry') \in Nat
      /\ \A e \in 1 .. N : entry'[e] = entry[e] /\ e \in 1 .. Len(entry')
  BY InvTables DEF ReversalStep, Unapplied, Longer, NextEntry
<1>2. \A e \in 1 .. Len(entry') : e \in 1 .. N \/ e = NextEntry
  BY <1>1
<1> HIDE DEF N
<1>3. /\ p \in 1 .. N /\ entry[p].type = "payment" /\ ~VoidedIn(entry, p) /\ n \in Nat /\ n > 0
           /\ type \in {"void", "refund"}
      /\ type = "void" => Taken(entry, RefundOf(p)) = 0
      /\ type = "refund" => n + Taken(entry, RefundOf(p)) <= entry[p].amount
      /\ entry'[NextEntry].type = type /\ entry'[NextEntry].reverses = p
  BY DEF ReversalStep, Positive, N
<1>4. \A e : VoidedIn(entry', e) <=> VoidedIn(entry, e) \/ (type = "void" /\ e = p)
  BY ReversalEnters
<1>5. /\ SameCharges(charge, charge') /\ Settled(charge', alloc')
  <2> DEFINE touched == {alloc'[i].charge : i \in {j \in 1 .. Len(alloc) : alloc'[j].by = NextEntry}}
  <2>1. touched = {alloc'[i].charge : i \in {j \in 1 .. Len(alloc) : alloc'[j].by = NextEntry}}
    OBVIOUS
  <2>2. charge' = Recomputed(charge, alloc', touched)
    BY DEF ReversalStep
  <2> HIDE DEF touched
  <2>3. Payable(charge, alloc, alloc', touched)
    BY <2>1, ReversalPayable
  <2>4. Settled(charge, alloc)
    BY DEF LedgerInv
  <2> QED BY <1>1, <2>2, <2>3, <2>4, RecomputedSettles
<1>6. ChargesEnrolled(charge', enrollment') /\ LiveOnce(charge')
  <2>1. enrollment' = enrollment /\ ChargesEnrolled(charge, enrollment) /\ LiveOnce(charge)
    BY DEF ReversalStep, LedgerInv
  <2> QED BY <1>1, <1>5, <2>1, SameChargesKeep
<1>7. References(charge', entry', alloc')
  <2>1. Len(charge') = Len(charge)
    BY <1>5 DEF SameCharges
  <2>2. \A e \in 1 .. Len(entry') : entry'[e].reverses <= Len(entry')
    <3> SUFFICES ASSUME NEW e \in 1 .. Len(entry') PROVE entry'[e].reverses <= Len(entry')
      OBVIOUS
    <3>1. CASE e \in 1 .. N
      <4>1. entry[e].reverses <= N /\ entry[e].reverses \in Nat
        BY <1>1, <3>1, EntryFacts DEF LedgerInv, References, N
      <4> QED BY <4>1, <1>1, <3>1
    <3>2. CASE e = NextEntry
      BY <1>1, <1>3, <3>2
    <3> QED BY <1>2, <3>1, <3>2
  <2>3. \A i \in 1 .. Len(alloc) :
          alloc[i] \in AllocRec /\ alloc[i].entry \in 1 .. N /\ alloc[i].charge \in 1 .. Len(charge)
            /\ alloc[i].by <= N /\ alloc[i].by \in Nat
    BY InvTables, RowRefers DEF LedgerInv, N
  <2>4. ASSUME NEW i \in 1 .. Len(alloc')
        PROVE  alloc'[i].entry \in 1 .. Len(entry') /\ alloc'[i].charge \in 1 .. Len(charge)
                 /\ alloc'[i].by <= Len(entry')
    <3>1. CASE i \in 1 .. Len(alloc)
      <4>1. \/ alloc'[i] = alloc[i]
            \/ alloc[i].entry = p /\ alloc[i].by = 0 /\ alloc'[i] = [alloc[i] EXCEPT !.by = NextEntry]
        BY <3>1 DEF ReversalStep, Unapplied
      <4>2. alloc'[i].entry = alloc[i].entry /\ alloc'[i].charge = alloc[i].charge
              /\ (alloc'[i].by = alloc[i].by \/ alloc'[i].by = NextEntry)
        BY <2>3, <3>1, <4>1 DEF AllocRec
      <4> QED BY <1>1, <2>3, <3>1, <4>2
    <3>2. CASE i \in Len(alloc) + 1 .. Len(alloc')
      <4>1. alloc'[i].by = 0 /\ alloc'[i].entry = p
              /\ \E j \in 1 .. Len(alloc) : alloc[j].charge = alloc'[i].charge
        BY <3>2 DEF ReversalStep, Unapplied
      <4> QED BY <1>1, <1>3, <2>3, <4>1
    <3> QED BY <1>1, <3>1, <3>2
  <2> QED BY <2>1, <2>2, <2>4 DEF References
<1>8. Funded(entry', alloc')
  <2> SUFFICES ASSUME NEW e \in 1 .. Len(entry'), entry'[e].type \in {"payment", "adjustment", "discount"}
               PROVE  /\ Taken(alloc', SpentOf(entry', e)) + Taken(entry', CashOf(e)) <= entry'[e].amount
                      /\ Taken(entry', RefundOf(e)) <= entry'[e].amount
    BY DEF Funded
  <2>1. e \in 1 .. N
    BY <1>2, <1>3
  <2>2. entry'[e] = entry[e]
    BY <1>1, <2>1
  <2> DEFINE s == Taken(alloc, SpentOf(entry, e))  c == Taken(entry, CashOf(e))  a == entry[e].amount
             f == Taken(entry, RefundOf(e))  t == Taken(alloc, LiveOf(p))
             s2 == Taken(alloc', SpentOf(entry', e))  c2 == Taken(entry', CashOf(e))  f2 == Taken(entry', RefundOf(e))
  <2>3. s + c <= a /\ f <= a
    BY <2>1, <2>2 DEF LedgerInv, Funded, N
  <2>4. s \in Nat /\ c \in Nat /\ a \in Nat /\ f \in Nat /\ t \in Nat
    BY <1>1, <2>1, RowTypes, TakenNat, EntryFacts DEF N
  <2>5. s2 = s - IF e = p THEN Least(n, t) ELSE 0
    BY <2>1, ReversalSpends DEF N
  <2>6. CASE e # p
    <3>1. c2 = c /\ f2 = f
      BY <2>6, ReversalEnters
    <3> HIDE DEF s, c, a, f, t, s2, c2, f2
    <3>2. s2 + c2 <= a /\ f2 <= a
      BY <2>3, <2>4, <2>5, <2>6, <3>1
    <3> QED BY <2>2, <3>2 DEF s2, c2, f2, a
  <2>7. CASE e = p
    <3>1. c2 = c + (IF type = "refund" /\ cash THEN n ELSE 0) /\ f2 = f + IF type = "refund" THEN n ELSE 0
      BY <2>7, ReversalEnters
    <3>2. c <= f
      <4>1. \A j \in 1 .. Len(entry) : entry[j] \in CashOf(e) => entry[j] \in RefundOf(e)
        BY DEF CashOf, RefundOf
      <4> QED BY <1>1, <4>1, RowTypes, TakenPart
    <3>3. t = s
      <4>1. \A i \in 1 .. Len(alloc) : alloc[i] \in LiveOf(p) <=> alloc[i] \in SpentOf(entry, e)
        BY <1>3, <2>7 DEF LiveOf, SpentOf, ConsumesIn
      <4>2. Taken(alloc, SpentOf(entry, e)) = Taken(alloc, LiveOf(p))
        BY <1>1, <4>1, RowTypes, TakenSame
      <4> QED BY <4>2
    <3>4. type = "refund" => n + f <= a
      BY <1>3, <2>7
    <3> HIDE DEF s, c, a, f, t, s2, c2, f2
    <3>5. s2 = s - Least(n, s)
      BY <2>5, <2>7, <3>3
    <3>6. CASE type = "refund"
      <4>1. f2 = f + n /\ c2 <= c + n /\ c2 \in Nat
        BY <1>3, <2>4, <3>1, <3>6
      <4>2. s2 + c2 <= a /\ f2 <= a
        <5>1. CASE n <= s
          <6>1. s2 = s - n
            BY <1>3, <2>4, <3>5, <5>1 DEF Least
          <6> QED BY <1>3, <2>3, <2>4, <3>4, <3>6, <4>1, <6>1
        <5>2. CASE ~(n <= s)
          <6>1. s2 = 0
            BY <1>3, <2>4, <3>5, <5>2 DEF Least
          <6> QED BY <1>3, <2>3, <2>4, <3>2, <3>4, <3>6, <4>1, <6>1
        <5> QED BY <5>1, <5>2
      <4> QED BY <2>2, <4>2 DEF s2, c2, f2, a
    <3>7. CASE type # "refund"
      <4>1. f2 = f /\ c2 = c
        BY <2>4, <3>1, <3>7
      <4>2. s2 <= s /\ s2 \in Int
        BY <1>3, <2>4, <3>5 DEF Least
      <4>3. s2 + c2 <= a /\ f2 <= a
        BY <2>3, <2>4, <4>1, <4>2
      <4> QED BY <2>2, <4>3 DEF s2, c2, f2, a
    <3> QED BY <3>6, <3>7
  <2> QED BY <2>6, <2>7
<1>9. RefundsStand(entry')
  <2> SUFFICES ASSUME NEW r \in 1 .. Len(entry'), entry'[r].type \in {"refund", "void"}
               PROVE  /\ entry'[r].reverses \in 1 .. Len(entry') /\ entry'[entry'[r].reverses].type = "payment"
                      /\ entry'[r].type = "refund" => ~VoidedIn(entry', entry'[r].reverses)
    BY DEF RefundsStand
  <2>1. CASE r \in 1 .. N
    <3>1. entry'[r] = entry[r]
      BY <1>1, <2>1
    <3>2. /\ entry[r].reverses \in 1 .. N /\ entry[entry[r].reverses].type = "payment"
          /\ entry[r].type = "refund" => ~VoidedIn(entry, entry[r].reverses)
      BY <2>1, <3>1 DEF LedgerInv, RefundsStand, N
    <3>3. ~(type = "void" /\ entry[r].type = "refund" /\ entry[r].reverses = p)
      <4> SUFFICES ASSUME type = "void", entry[r].type = "refund", entry[r].reverses = p PROVE FALSE
        OBVIOUS
      <4>1. entry[r] \in EntryRec /\ r \in 1 .. Len(entry)
        BY <1>1, <2>1 DEF N
      <4>2. entry[r] \in RefundOf(p)
        BY <4>1 DEF RefundOf
      <4>3. entry[r].amount <= Taken(entry, RefundOf(p))
        BY <1>1, <4>1, <4>2, RowTypes, TakenSome
      <4>4. entry[r].amount \in Nat /\ entry[r].amount > 0
        BY <1>1, <4>1, EntryFacts
      <4> QED BY <1>3, <4>3, <4>4
    <3> QED BY <1>1, <1>4, <3>1, <3>2, <3>3
  <2>2. CASE r = NextEntry
    BY <1>1, <1>3, <1>4, <2>2
  <2> QED BY <1>2, <2>1, <2>2
<1>10. VoidsHold(entry', alloc')
  <2> SUFFICES ASSUME NEW i \in 1 .. Len(alloc'), alloc'[i].by = 0 PROVE ~VoidedIn(entry', alloc'[i].entry)
    BY DEF VoidsHold
  <2>1. ~VoidedIn(entry, alloc'[i].entry)
    <3>1. CASE i \in 1 .. Len(alloc)
      <4>1. alloc[i] \in AllocRec
        BY <1>1, <3>1
      <4>2. alloc'[i] = alloc[i] \/ alloc'[i] = [alloc[i] EXCEPT !.by = NextEntry]
        BY <3>1 DEF ReversalStep, Unapplied
      <4>3. alloc'[i] = alloc[i]
        <5>1. NextEntry # 0
          BY <1>1
        <5> QED BY <4>1, <4>2, <5>1 DEF AllocRec
      <4> QED BY <3>1, <4>3 DEF LedgerInv, VoidsHold
    <3>2. CASE i \in Len(alloc) + 1 .. Len(alloc')
      <4>1. alloc'[i].entry = p
        BY <3>2 DEF ReversalStep, Unapplied
      <4> QED BY <1>3, <4>1
    <3> QED BY <1>1, <3>1, <3>2
  <2>2. type = "void" => alloc'[i].entry # p
    BY VoidEmpties
  <2> QED BY <1>4, <2>1, <2>2
<1>11. Calendar' /\ Tables(charge', entry', alloc')
  BY <1>1, <1>5, CalendarFacts DEF ReversalStep, Calendar, Tables, SameCharges, LedgerInv
<1> QED BY <1>5, <1>6, <1>7, <1>8, <1>9, <1>10, <1>11 DEF LedgerInv

-----------------------------------------------------------------------------
(* The conversion to a grant.                                              *)

PaidFuture(enr) == {c \in Future(enr) : AllocatedTo(alloc, c) > 0}
PartlyPaid(enr) == {c \in PaidFuture(enr) : Remaining(c) > 0}

\* Each partly paid month is discounted by what remains of it, the unpaid ones are cancelled.
GrantStep(enr, more, rows) ==
  /\ GivesCredit(more) /\ Applies(rows, more)
  /\ \A k \in 1 .. Len(more) : more[k].type = "discount" /\ more[k].at = ThisMonth
  /\ \A i \in 1 .. Len(rows) : /\ rows[i].charge \in PartlyPaid(enr) /\ charge[rows[i].charge].status = "open"
                               /\ rows[i].entry > Len(entry)
  /\ ChargesIn(rows) = PartlyPaid(enr)
  /\ \A c \in PartlyPaid(enr) : Taken(rows, OnCharge(c)) = Remaining(c)
  /\ entry' = entry \o more /\ alloc' = alloc \o rows
  /\ Cancels(charge', charge, Recomputed(charge, alloc \o rows, PartlyPaid(enr)), Future(enr) \ PaidFuture(enr))
  /\ StillEnrolled /\ UNCHANGED <<today, closed>>
  /\ more # <<>> => Open(ThisMonth)

\* The conversion to a grant discounts each partly paid month by what remains of it.
LEMMA GrantGives ==
  ASSUME LedgerInv, NEW enr \in Enrollment, ToGrant(enr)
  PROVE  \E more, rows : GrantStep(enr, more, rows)
<1> DEFINE P == PartlyPaid(enr)
           partly == Ascending(P)
           d(i) == Entry("discount", Remaining(partly[i]), ThisMonth)
           r(i) == Row(Len(entry) + i, partly[i], Remaining(partly[i]))
           more == [i \in DOMAIN partly |-> d(i)]
           rows == [i \in DOMAIN partly |-> r(i)]
           m == Len(partly)
<1>1. /\ partly # <<>> => Open(ThisMonth)
      /\ \A c \in Range(partly) : charge[c].status = "open"
      /\ entry' = entry \o more /\ alloc' = alloc \o rows
      /\ charge' = [c \in DOMAIN charge |->
                     IF c \in Future(enr) \ PaidFuture(enr) THEN [charge[c] EXCEPT !.status = "cancelled"]
                     ELSE Recomputed(charge, alloc \o rows, Range(partly))[c]]
      /\ enrollment' = [enrollment EXCEPT ![enr].mode = "grant"] /\ UNCHANGED <<today, closed>>
  BY DEF ToGrant, PaidFuture, PartlyPaid, Ascending
<1>2. P \in SUBSET (1 .. Len(charge)) /\ \A c \in P : Remaining(c) > 0
  BY InvTables DEF PartlyPaid, PaidFuture, Future, ChargesOf
<1>3. Lists(partly, P)
  <2>1. IsFiniteSet(1 .. Len(charge)) /\ 1 .. Len(charge) \subseteq Nat
    BY InvTables, FS_Interval, SMTT(30)
  <2> HIDE DEF P
  <2>2. P \in SUBSET Nat /\ IsFiniteSet(P)
    BY <1>2, <2>1, FS_Subset
  <2> QED BY <2>2, NumbersOrdered
<1>4. Len(entry) \in Nat /\ entry \in Seq(EntryRec)
  BY InvTables
<1> HIDE DEF P, partly, more, rows
<1>5. /\ DOMAIN partly = 1 .. m /\ m \in Nat /\ \A i \in 1 .. m : partly[i] \in P
      /\ \A i, j \in 1 .. m : partly[i] = partly[j] => i = j
      /\ \A c \in P : \E i \in 1 .. m : partly[i] = c
  BY <1>3 DEF Lists
<1> HIDE DEF m
<1>6. Range(partly) = P
  BY <1>5 DEF Range
<1>7. \A i \in 1 .. m : Remaining(partly[i]) \in Positive /\ partly[i] \in Nat /\ partly[i] \in 1 .. Len(charge)
  <2> SUFFICES ASSUME NEW i \in 1 .. m
        PROVE Remaining(partly[i]) \in Positive /\ partly[i] \in Nat /\ partly[i] \in 1 .. Len(charge)
    OBVIOUS
  <2>1. partly[i] \in 1 .. Len(charge) /\ Remaining(partly[i]) > 0
    BY <1>2, <1>5
  <2>2. Remaining(partly[i]) \in Nat
    BY <2>1, ChargeFacts
  <2> QED BY <2>1, <2>2 DEF Positive
<1>8. \A i \in 1 .. m : IsEntry(d(i), "discount", Remaining(partly[i]), ThisMonth)
  <2> SUFFICES ASSUME NEW i \in 1 .. m PROVE IsEntry(d(i), "discount", Remaining(partly[i]), ThisMonth)
    OBVIOUS
  <2> DEFINE n == Remaining(partly[i])  e == d(i)
  <2>1. "discount" \in EntryTypes /\ ThisMonth \in AccountingMonths /\ e = Entry("discount", n, ThisMonth)
          /\ n \in Positive
    BY <1>7, CalendarFacts DEF EntryTypes
  <2> HIDE DEF n, e
  <2>2. IsEntry(e, "discount", n, ThisMonth)
    BY <2>1, EntryType
  <2> QED BY <2>2 DEF e, n
<1>9. /\ more \in Seq(EntryRec) /\ Len(more) = m
      /\ \A k \in 1 .. m : /\ more[k].type = "discount" /\ more[k].reverses = 0 /\ more[k].at = ThisMonth
                           /\ more[k].amount = Remaining(partly[k])
  <2> HIDE DEF d
  <2>1. more = [i \in 1 .. m |-> d(i)]
    BY <1>5 DEF more
  <2>2. more \in [1 .. m -> EntryRec]
    BY <1>8, <2>1 DEF IsEntry
  <2>3. \A k \in 1 .. m : more[k] = d(k)
    BY <2>1
  <2>4. more \in Seq(EntryRec) /\ Len(more) = m
    BY <1>5, <2>2, FunctionIsSeq
  <2> QED BY <1>8, <2>3, <2>4 DEF IsEntry
<1>10. /\ rows \in Seq(AllocRec) /\ Len(rows) = m
       /\ \A k \in 1 .. m : /\ rows[k].entry = Len(entry) + k /\ rows[k].charge = partly[k] /\ rows[k].by = 0
                            /\ rows[k].amount = Remaining(partly[k])
  <2>1. \A i \in 1 .. m : /\ r(i) \in AllocRec /\ r(i).entry = Len(entry) + i /\ r(i).charge = partly[i]
                            /\ r(i).by = 0
                          /\ r(i).amount = Remaining(partly[i])
    BY <1>4, <1>5, <1>7 DEF Row, AllocRec
  <2> HIDE DEF r
  <2>2. rows = [i \in 1 .. m |-> r(i)]
    BY <1>5 DEF rows
  <2>3. rows \in [1 .. m -> AllocRec] /\ \A k \in 1 .. m : rows[k] = r(k)
    BY <2>1, <2>2
  <2>4. rows \in Seq(AllocRec) /\ Len(rows) = m
    BY <1>5, <2>3, FunctionIsSeq
  <2> QED BY <2>1, <2>3, <2>4
<1> HIDE DEF d, r
<1>11. GivesCredit(more)
  BY <1>9 DEF GivesCredit
<1>12. \A k \in 1 .. m : Taken(rows, OfEntry(Len(entry) + k)) = Remaining(partly[k])
  <2> SUFFICES ASSUME NEW k \in 1 .. m PROVE Taken(rows, OfEntry(Len(entry) + k)) = Remaining(partly[k])
    OBVIOUS
  <2>1. rows[k] \in OfEntry(Len(entry) + k)
    BY <1>10 DEF OfEntry
  <2>2. \A j \in 1 .. Len(rows) : rows[j] \in OfEntry(Len(entry) + k) => j = k
    BY <1>4, <1>5, <1>10 DEF OfEntry
  <2>3. Taken(rows, OfEntry(Len(entry) + k)) = rows[k].amount
    BY <1>10, <2>1, <2>2, RowTypes, TakenOne
  <2> QED BY <1>10, <2>3
<1>13. Applies(rows, more)
  <2>1. ASSUME NEW i \in 1 .. Len(rows)
        PROVE  /\ rows[i].by = 0 /\ rows[i].charge \in 1 .. Len(charge)
               /\ rows[i].entry \in CreditsIn(entry) \/ rows[i].entry \in Len(entry) + 1 .. Len(entry) + Len(more)
    BY <1>4, <1>5, <1>7, <1>9, <1>10
  <2>2. ASSUME NEW e \in CreditsIn(entry)
        PROVE  Taken(rows, OfEntry(e)) + Taken(alloc, SpentOf(entry, e)) + Taken(entry, CashOf(e)) <= entry[e].amount
    <3>1. Taken(rows, OfEntry(e)) = 0
      <4>1. e \in 1 .. Len(entry)
        BY CreditFacts
      <4>2. \A i \in 1 .. Len(rows) : rows[i] \notin OfEntry(e)
        BY <1>4, <1>5, <1>10, <4>1 DEF OfEntry
      <4> QED BY <1>10, <4>2, RowTypes, TakenNone
    <3>2. e \in 1 .. Len(entry) /\ entry[e].type \in {"payment", "adjustment"}
      BY InvTables DEF CreditsIn
    <3>3. Taken(alloc, SpentOf(entry, e)) + Taken(entry, CashOf(e)) <= entry[e].amount
      BY <3>2 DEF LedgerInv, Funded
    <3>4. Taken(alloc, SpentOf(entry, e)) \in Nat /\ Taken(entry, CashOf(e)) \in Nat
      BY CreditFacts
    <3> QED BY <3>1, <3>3, <3>4
  <2>3. \A k \in 1 .. Len(more) : Taken(rows, OfEntry(Len(entry) + k)) <= more[k].amount
    <3> SUFFICES ASSUME NEW k \in 1 .. m PROVE Taken(rows, OfEntry(Len(entry) + k)) <= more[k].amount
      BY <1>9
    <3>1. Remaining(partly[k]) \in Nat
      BY <1>7 DEF Positive
    <3> QED BY <1>9, <1>12, <3>1
  <2> QED BY <1>10, <2>1, <2>2, <2>3 DEF Applies
<1>14. \A c \in P : Taken(rows, OnCharge(c)) = Remaining(c)
  <2> SUFFICES ASSUME NEW c \in P PROVE Taken(rows, OnCharge(c)) = Remaining(c)
    OBVIOUS
  <2>1. PICK k \in 1 .. m : partly[k] = c
    BY <1>5
  <2>2. rows[k] \in OnCharge(c)
    BY <1>10, <2>1 DEF OnCharge
  <2>3. \A j \in 1 .. Len(rows) : rows[j] \in OnCharge(c) => j = k
    BY <1>5, <1>10, <2>1 DEF OnCharge
  <2>4. Taken(rows, OnCharge(c)) = rows[k].amount
    BY <1>10, <2>2, <2>3, RowTypes, TakenOne
  <2> QED BY <1>10, <2>1, <2>4
<1>15. ChargesIn(rows) = P
  BY <1>5, <1>10 DEF ChargesIn
<1>16. \A i \in 1 .. Len(rows) : rows[i].charge \in P /\ charge[rows[i].charge].status = "open"
         /\ rows[i].entry > Len(entry)
  BY <1>1, <1>4, <1>5, <1>6, <1>10
<1>17. StillEnrolled
  <2>1. enrollment \in [Enrollment -> EnrollmentRec]
    BY CalendarFacts
  <2>2. enrollment' \in [Enrollment -> EnrollmentRec]
    BY <1>1, <2>1 DEF EnrollmentRec
  <2>3. \A x \in Enrollment : enrollment'[x].status = enrollment[x].status
    BY <1>1, <2>1 DEF EnrollmentRec
  <2> QED BY <2>2, <2>3 DEF StillEnrolled
<1>18. Cancels(charge', charge, Recomputed(charge, alloc \o rows, P), Future(enr) \ PaidFuture(enr))
  BY <1>1, <1>6 DEF Cancels
<1>19. more # <<>> => Open(ThisMonth)
  <2>1. partly = <<>> => more = <<>>
    <3>1. partly = <<>> => Len(more) = 0
      BY <1>9 DEF m
    <3> QED BY <1>9, <3>1
  <2> QED BY <1>1, <2>1
<1>20. GrantStep(enr, more, rows)
  BY <1>1, <1>9, <1>11, <1>13, <1>14, <1>15, <1>16, <1>17, <1>18, <1>19 DEF GrantStep, P
<1> QED BY <1>20

\* A conversion to a grant keeps the invariant.
LEMMA GrantKeeps ==
  ASSUME LedgerInv, NEW enr \in Enrollment, NEW more, NEW rows, GrantStep(enr, more, rows)
  PROVE  /\ LedgerInv' /\ SameCharges(charge, charge')
         /\ \A c \in 1 .. Len(charge) :
              /\ Taken(alloc', LiveOn(c)) = Taken(alloc, LiveOn(c)) + Taken(rows, OnCharge(c))
              /\ c \in Future(enr) \ PaidFuture(enr) => charge'[c].status = "cancelled"
              /\ c \notin (Future(enr) \ PaidFuture(enr)) \cup PartlyPaid(enr) => charge'[c] = charge[c]
<1> DEFINE P == PartlyPaid(enr)
           gone == Future(enr) \ PaidFuture(enr)
           re == Recomputed(charge, alloc', P)
<1>1. /\ charge \in Seq(ChargeRec) /\ entry \in Seq(EntryRec) /\ alloc \in Seq(AllocRec)
           /\ rows \in Seq(AllocRec)
      /\ alloc' = alloc \o rows /\ Settled(charge, alloc)
  BY InvTables DEF GrantStep, Applies, LedgerInv
<1>2. /\ entry' \in Seq(EntryRec) /\ alloc' \in Seq(AllocRec)
      /\ References(charge, entry', alloc') /\ Funded(entry', alloc')
      /\ RefundsStand(entry') /\ VoidsHold(entry', alloc')
  BY InvTables, CreditGiven DEF LedgerInv, GrantStep
<1>3. P \subseteq 1 .. Len(charge) /\ gone \subseteq 1 .. Len(charge) /\ P \cap gone = {}
        /\ \A c \in gone : Taken(alloc, LiveOn(c)) = 0
  <2>1. P \subseteq 1 .. Len(charge) /\ gone \subseteq 1 .. Len(charge) /\ P \cap gone = {}
    BY InvTables DEF PartlyPaid, PaidFuture, Future, ChargesOf
  <2>2. \A c : AllocatedTo(alloc, c) = Taken(alloc, LiveOn(c)) /\ Taken(alloc, LiveOn(c)) \in Nat
    BY <1>1, AllocationSums, RowTypes, TakenNat
  <2>3. \A c \in gone : ~(AllocatedTo(alloc, c) > 0)
    BY DEF PaidFuture
  <2> QED BY <2>1, <2>2, <2>3
<1>4. /\ Payable(charge, alloc, alloc', P)
      /\ \A c : Taken(alloc', LiveOn(c)) = Taken(alloc, LiveOn(c)) + Taken(rows, OnCharge(c))
  <2>1. \A i \in 1 .. Len(rows) : rows[i].by = 0 /\ rows[i].charge \in 1 .. Len(charge)
          /\ charge[rows[i].charge].status # "cancelled"
    BY DEF GrantStep, Applies
  <2>2. ChargesIn(rows) = P /\ \A c \in P : Taken(rows, OnCharge(c)) = Remaining(c)
    BY DEF GrantStep
  <2>3. \A c \in P : Remaining(c) = charge[c].amount - Taken(alloc, LiveOn(c)) /\ Remaining(c) \in Nat
    BY <1>3, ChargeFacts
  <2>4. \A c \in ChargesIn(rows) : Taken(rows, OnCharge(c)) <= charge[c].amount - Taken(alloc, LiveOn(c))
    BY <2>2, <2>3
  <2> HIDE DEF P
  <2> QED BY <1>1, <2>1, <2>2, <2>4, NewRowsPayable
<1>5. /\ SameCharges(charge, re) /\ Settled(re, alloc')
      /\ \A c \in 1 .. Len(charge) : c \notin P => re[c] = charge[c]
  <2>1. Payable(charge, alloc, alloc', P)
    BY <1>4
  <2> HIDE DEF P, gone
  <2>2. charge \in Seq(ChargeRec) /\ alloc \in Seq(AllocRec) /\ alloc' \in Seq(AllocRec)
          /\ Settled(charge, alloc)
    BY <1>1, <1>2
  <2>3. /\ SameCharges(charge, Recomputed(charge, alloc', P)) /\ Settled(Recomputed(charge, alloc', P), alloc')
        /\ \A c \in 1 .. Len(charge) : c \notin P => Recomputed(charge, alloc', P)[c] = charge[c]
    BY <2>1, <2>2, RecomputedSettles
  <2> QED BY <2>3
<1>6. /\ SameCharges(charge, charge') /\ Settled(charge', alloc')
      /\ \A c \in 1 .. Len(charge) : IF c \in gone THEN charge'[c].status = "cancelled" ELSE charge'[c] = re[c]
  <2>1. Cancels(charge', charge, re, gone)
    BY <1>1 DEF GrantStep
  <2>2. \A c \in gone : Taken(alloc', LiveOn(c)) = 0
    <3>1. \A c \in gone : c \in 1 .. Len(charge) /\ c \notin P
      BY <1>3
    <3> QED BY <1>3, <1>4, <3>1 DEF Payable
  <2>3. charge \in Seq(ChargeRec) /\ alloc' \in Seq(AllocRec) /\ SameCharges(charge, re) /\ Settled(re, alloc')
    BY <1>1, <1>2, <1>5
  <2> HIDE DEF gone, re, P
  <2> QED BY <2>1, <2>2, <2>3, CancelledSettles
<1> HIDE DEF re
<1>7. ChargesEnrolled(charge', enrollment') /\ LiveOnce(charge')
  <2>1. \A x \in Enrollment : enrollment[x].status # "none" => enrollment'[x].status # "none"
    BY DEF GrantStep, StillEnrolled
  <2>2. ChargesEnrolled(charge, enrollment) /\ LiveOnce(charge)
    BY DEF LedgerInv
  <2> QED BY <1>1, <1>6, <2>1, <2>2, SameChargesKeep
<1>8. References(charge', entry', alloc')
  BY <1>2, <1>6 DEF References, SameCharges
<1>9. Calendar' /\ Tables(charge', entry', alloc')
  BY <1>2, <1>6, CalendarFacts DEF GrantStep, StillEnrolled, Calendar, Tables, SameCharges, LedgerInv
<1>10. LedgerInv'
  BY <1>2, <1>6, <1>7, <1>8, <1>9 DEF LedgerInv
<1> QED BY <1>4, <1>5, <1>6, <1>10

-----------------------------------------------------------------------------
(* The invariant is inductive.                                             *)

\* An empty ledger satisfies the invariant.
LEMMA LedgerInvInit == Init => LedgerInv
<1> SUFFICES ASSUME Init PROVE LedgerInv
  OBVIOUS
<1>1. /\ FirstDay \in Nat /\ LastDay \in Nat /\ FirstDay <= LastDay
  BY LedgerConstants
<1>2. /\ today = FirstDay /\ closed = {} /\ charge = <<>> /\ entry = <<>> /\ alloc = <<>>
      /\ enrollment = [e \in Enrollment |-> [status |-> "none", mode |-> "paid", since |-> 0]]
  BY DEF Init
<1>3. Calendar
  <2>1. [status |-> "none", mode |-> "paid", since |-> 0] \in EnrollmentRec
    BY <1>1 DEF EnrollmentRec
  <2>2. enrollment \in [Enrollment -> EnrollmentRec]
    BY <1>2, <2>1
  <2> QED BY <1>1, <1>2, <2>2 DEF Calendar
<1>4. /\ charge \in Seq(ChargeRec) /\ entry \in Seq(EntryRec) /\ alloc \in Seq(AllocRec)
      /\ Len(charge) = 0 /\ Len(entry) = 0 /\ Len(alloc) = 0 /\ DOMAIN entry = {}
  BY <1>2
<1>5. Tables(charge, entry, alloc) /\ References(charge, entry, alloc)
  BY <1>4 DEF Tables, References
<1>6. ChargesEnrolled(charge, enrollment) /\ LiveOnce(charge) /\ Settled(charge, alloc)
  BY <1>4 DEF ChargesEnrolled, LiveOnce, Settled
<1>7. Funded(entry, alloc) /\ RefundsStand(entry) /\ VoidsHold(entry, alloc)
  BY <1>4 DEF Funded, RefundsStand, VoidsHold
<1> QED BY <1>3, <1>5, <1>6, <1>7 DEF LedgerInv

\* The void and the refund of the program are reversals of a payment that stands.
LEMMA VoidReverses ==
  ASSUME LedgerInv, NEW p \in DOMAIN entry, Void(p)
  PROVE  ReversalStep("void", p, entry[p].amount, FALSE)
<1>1. p \in 1 .. Len(entry) /\ entry[p].type = "payment" /\ ~VoidedIn(entry, p) /\ Taken(entry, RefundOf(p)) = 0
  BY InvTables DEF Void, Voidable, IsVoided, VoidedIn, BalanceKinds
<1>2. entry[p].amount \in Positive
  BY <1>1, InvTables, EntryFacts DEF Positive
<1>3. TakeBack("void", p, entry[p].amount, FALSE)
  BY DEF Void
<1> QED BY <1>1, <1>2, <1>3, TakeBackReverses

\* A refund is a reversal of at most what was not refunded yet.
LEMMA RefundReverses ==
  ASSUME LedgerInv, NEW p \in DOMAIN entry, NEW n \in Sums, NEW cash \in BOOLEAN, Refund(p, n, cash)
  PROVE  ReversalStep("refund", p, n, cash)
<1>1. p \in 1 .. Len(entry) /\ entry[p].type = "payment" /\ ~VoidedIn(entry, p)
        /\ n <= entry[p].amount - Taken(entry, RefundOf(p))
  BY InvTables DEF Refund, Refundable, IsVoided, VoidedIn, BalanceKinds
<1>2. n \in Positive /\ n \in Nat
  BY SumsPositive
<1>3. n + Taken(entry, RefundOf(p)) <= entry[p].amount
  <2> DEFINE f == Taken(entry, RefundOf(p))  a == entry[p].amount
  <2>1. f \in Nat /\ a \in Nat /\ n <= a - f
    BY <1>1, InvTables, RowTypes, TakenNat, EntryFacts
  <2> HIDE DEF f, a
  <2>2. n + f <= a
    BY <1>2, <2>1
  <2> QED BY <2>2 DEF f, a
<1>4. TakeBack("refund", p, n, cash)
  BY DEF Refund
<1> QED BY <1>1, <1>2, <1>3, <1>4, TakeBackReverses

\* The operations of the ledger keep the invariant.
LEMMA LedgerInvNext ==
  ASSUME LedgerInv, [Next]_vars
  PROVE  LedgerInv'
<1>1. CASE UNCHANGED vars
  BY <1>1 DEF LedgerInv, vars, Calendar
<1>2. ASSUME NEW enr \in Enrollment, NEW mode \in {"paid", "grant"}, Enroll(enr, mode) PROVE LedgerInv'
  BY <1>2, EnrollKeeps
<1>3. ASSUME NEW enr \in Enrollment, Withdraw(enr) PROVE LedgerInv'
  BY <1>3, WithdrawFrees, FreeingKeeps
<1>4. ASSUME NEW enr \in Enrollment, ToGrant(enr) PROVE LedgerInv'
  BY <1>4, GrantGives, GrantKeeps
<1>5. ASSUME NEW enr \in Enrollment, ToPaid(enr) PROVE LedgerInv'
  BY <1>5, ToPaidKeeps
<1>6. ASSUME NEW enr \in Enrollment, NEW n \in Sums, AllocateToCourse(enr, n) PROVE LedgerInv'
  <2>1. n \in Nat
    BY SumsPositive
  <2> QED BY <1>6, <2>1, ToCourseGives, CreditStepKeeps
<1>7. ASSUME NEW targets \in Targets, NEW month \in AccountingMonths, Pay(targets, month) PROVE LedgerInv'
  <2>1. \E more, rows : CreditStep(more, rows)
    BY <1>7, PayGives
  <2> QED BY <2>1, CreditStepKeeps
<1>8. ASSUME NEW n \in Sums, NEW month \in AccountingMonths, Adjust(n, month) PROVE LedgerInv'
  <2>1. \E more, rows : CreditStep(more, rows)
    BY <1>8, AdjustGives
  <2> QED BY <2>1, CreditStepKeeps
<1>9. ASSUME NEW n \in Sums, NEW month \in AccountingMonths, NEW c \in DOMAIN charge, Discount(c, n, month)
      PROVE LedgerInv'
  <2>1. c \in 1 .. Len(charge)
    BY InvTables
  <2>2. \E more, rows : CreditStep(more, rows)
    BY <1>9, <2>1, DiscountGives
  <2> QED BY <2>2, CreditStepKeeps
<1>10. ASSUME NEW p \in DOMAIN entry, Void(p) PROVE LedgerInv'
  BY <1>10, VoidReverses, ReversalKeeps
<1>11. ASSUME NEW p \in DOMAIN entry, NEW n \in Sums, NEW cash \in BOOLEAN, Refund(p, n, cash) PROVE LedgerInv'
  BY <1>11, RefundReverses, ReversalKeeps
<1>12. ASSUME NEW c \in DOMAIN charge, NEW n \in Sums, AllocateToCharge(c, n) PROVE LedgerInv'
  <2>1. n \in Nat /\ c \in 1 .. Len(charge)
    BY SumsPositive, InvTables
  <2> QED BY <1>12, <2>1, ToChargeGives, CreditStepKeeps
<1>13. ASSUME NEW month \in Closable, ClosePeriod(month) \/ ReopenPeriod(month) PROVE LedgerInv'
  <2>1. closed' \subseteq Closable
    BY <1>13, CalendarFacts DEF ClosePeriod, ReopenPeriod
  <2>2. UNCHANGED <<today, enrollment, charge, entry, alloc>>
    BY <1>13 DEF ClosePeriod, ReopenPeriod
  <2> QED BY <2>1, <2>2 DEF LedgerInv, Calendar
<1>14. ASSUME Tick PROVE LedgerInv'
  <2>1. today' \in FirstDay .. LastDay
    <3>1. today \in FirstDay .. LastDay
      BY DEF LedgerInv, Calendar
    <3> QED BY <1>14, <3>1, LedgerConstants DEF Tick
  <2>2. UNCHANGED <<enrollment, charge, entry, alloc, closed>>
    BY <1>14 DEF Tick
  <2> QED BY <2>1, <2>2 DEF LedgerInv, Calendar
<1> QED BY <1>1, <1>2, <1>3, <1>4, <1>5, <1>6, <1>7, <1>8, <1>9, <1>10, <1>11, <1>12, <1>13, <1>14 DEF Next

\* The ledger's invariant holds after any sequence of enrollments, withdrawals, grants, payments,
\* discounts, adjustments, voids, refunds, allocations and closed months.
THEOREM LedgerIsSound == Spec => []LedgerInv
<1>1. Init => LedgerInv
  BY LedgerInvInit
<1>2. LedgerInv /\ [Next]_vars => LedgerInv'
  BY LedgerInvNext
<1> QED BY <1>1, <1>2, PTL DEF Spec

-----------------------------------------------------------------------------
(* What it says of the ledger.                                             *)

\* The tables are typed and no reference dangles.
LEMMA InvTypes == LedgerInv => TypeOK
<1> SUFFICES ASSUME LedgerInv PROVE TypeOK
  OBVIOUS
<1>1. today \in 0 .. LastDay
  <2>1. today \in FirstDay .. LastDay
    BY DEF LedgerInv, Calendar
  <2> QED BY <2>1, LedgerConstants
<1>2. enrollment \in [Enrollment -> [status : {"none", "active", "withdrawn"},
                                     mode : {"paid", "grant"}, since : 0 .. LastDay]]
  BY CalendarFacts DEF EnrollmentRec
<1>3. \A c \in DOMAIN charge : charge[c] \in [enr : Enrollment, seq : 1 .. Months, amount : {Price},
                                               status : {"open", "settled", "cancelled"}]
  <2>1. \A c \in DOMAIN charge : charge[c] \in ChargeRec
    BY InvTables
  <2> QED BY <2>1 DEF ChargeRec
<1>4. \A e \in DOMAIN entry :
       entry[e] \in [type : {"payment", "discount", "adjustment", "refund", "void", "withdrawal"},
                     amount : Positive, at : AccountingMonths, reverses : Ids(entry),
                     cash : BOOLEAN, targets : {NoTargets} \cup Targets]
  <2> SUFFICES ASSUME NEW e \in DOMAIN entry
               PROVE  entry[e] \in [type : EntryTypes, amount : Positive, at : AccountingMonths, reverses : Ids(entry),
                                    cash : BOOLEAN, targets : {NoTargets} \cup Targets]
    BY DEF EntryTypes
  <2>1. entry[e] \in EntryRec /\ entry[e].reverses \in Nat /\ entry[e].reverses <= Len(entry)
          /\ Len(entry) \in Nat
    BY InvTables, EntryFacts DEF LedgerInv, References
  <2>2. entry[e].reverses \in Ids(entry)
    BY <2>1 DEF Ids
  <2> QED BY <2>1, <2>2 DEF EntryRec
<1>5. \A i \in DOMAIN alloc :
       alloc[i] \in [entry : 1 .. Len(entry), charge : 1 .. Len(charge), amount : Positive, by : Ids(entry)]
  <2> SUFFICES ASSUME NEW i \in DOMAIN alloc
               PROVE  alloc[i] \in [entry : 1 .. Len(entry), charge : 1 .. Len(charge), amount : Positive, by : Ids(entry)]
    OBVIOUS
  <2>1. /\ alloc[i] \in AllocRec /\ alloc[i].entry \in 1 .. Len(entry) /\ alloc[i].charge \in 1 .. Len(charge)
        /\ alloc[i].by \in Nat /\ alloc[i].by <= Len(entry) /\ Len(entry) \in Nat
    BY InvTables, RowRefers DEF LedgerInv
  <2>2. alloc[i].by \in Ids(entry)
    BY <2>1 DEF Ids
  <2> QED BY <2>1, <2>2 DEF AllocRec
<1>6. closed \subseteq Closable
  BY CalendarFacts
<1> QED BY <1>1, <1>2, <1>3, <1>4, <1>5, <1>6 DEF TypeOK

\* No month of an enrollment is live twice.
LEMMA InvOneLive == LedgerInv => OneLiveInstallment
<1> SUFFICES ASSUME LedgerInv PROVE OneLiveInstallment
  OBVIOUS
<1>1. DOMAIN charge = 1 .. Len(charge) /\ LiveOnce(charge)
  BY InvTables DEF LedgerInv
<1> QED BY <1>1 DEF LiveOnce, OneLiveInstallment

\* The status of a charge is the one its allocations imply.
LEMMA InvStatus == LedgerInv => ChargeStatusAgrees
<1> SUFFICES ASSUME LedgerInv, NEW c \in DOMAIN charge
             PROVE  /\ Remaining(c) >= 0
                    /\ charge[c].status = "cancelled" => AllocatedTo(alloc, c) = 0
                    /\ charge[c].status # "cancelled" => (charge[c].status = "settled" <=> Remaining(c) = 0)
  BY DEF ChargeStatusAgrees
<1>1. c \in 1 .. Len(charge) /\ alloc \in Seq(AllocRec)
  BY InvTables
<1>2. AllocatedTo(alloc, c) = Taken(alloc, LiveOn(c))
  BY <1>1, AllocationSums
<1> DEFINE t == Taken(alloc, LiveOn(c))  a == charge[c].amount  r == Remaining(c)
<1>3. t \in Nat /\ a \in Nat /\ r \in Nat /\ r = a - t /\ StatusSettled(charge[c].status, t, a)
  BY <1>1, ChargeFacts
<1> HIDE DEF t, a, r
<1>4. r >= 0 /\ (charge[c].status = "cancelled" => t = 0)
        /\ (charge[c].status # "cancelled" => (charge[c].status = "settled" <=> r = 0))
  BY <1>3 DEF StatusSettled
<1> QED BY <1>2, <1>4 DEF t, r

\* No credit is spent or refunded beyond its amount.
LEMMA InvFunded == LedgerInv => NoEntryOverspent
<1> SUFFICES ASSUME LedgerInv, NEW e \in DOMAIN entry, entry[e].type \in {"payment", "adjustment", "discount"}
             PROVE  Available(e) >= 0 /\ Refunds(e) <= entry[e].amount
  BY DEF NoEntryOverspent
<1> DEFINE s == Taken(alloc, SpentOf(entry, e))  c == Taken(entry, CashOf(e))  f == Taken(entry, RefundOf(e))
           a == entry[e].amount
<1>1. e \in 1 .. Len(entry)
  BY InvTables
<1>2. s + c <= a /\ f <= a
  BY <1>1 DEF LedgerInv, Funded
<1>3. s \in Nat /\ c \in Nat /\ a \in Nat
  BY <1>1, InvTables, RowTypes, TakenNat, EntryFacts
<1>4. Available(e) = a - s - c /\ Refunds(e) = f
  BY InvTables DEF BalanceKinds
<1> HIDE DEF s, c, f, a
<1>5. a - s - c >= 0
  BY <1>2, <1>3
<1> QED BY <1>2, <1>4, <1>5 DEF a

\* The three sums of the wallet are the sum of what is available.
LEMMA InvWallet == LedgerInv => WalletIsExact
<1> SUFFICES ASSUME LedgerInv PROVE RawWallet = SumFunction([e \in Credits |-> Available(e)])
  BY DEF WalletIsExact
<1> DEFINE E == CreditsIn(entry)
           amounts == [e \in E |-> entry[e].amount]
           avail == [e \in E |-> Available(e)]
           cash == [e \in E |-> Taken(entry, CashOf(e))]
           spent == [e \in E |-> Taken(alloc, SpentOf(entry, e))]
           used == [e \in E |-> cash[e] + spent[e]]
<1>1. entry \in Seq(EntryRec) /\ alloc \in Seq(AllocRec) /\ Credits = E
      /\ RawWallet = SumFunction(amounts) - Taken(entry, AnyCash) - Taken(alloc, SpentBy(entry, E))
  BY InvTables DEF BalanceKinds
<1>2. IsFiniteSet(E)
  <2>1. E \in SUBSET (1 .. Len(entry))
    BY InvTables DEF CreditsIn
  <2>2. IsFiniteSet(1 .. Len(entry))
    BY InvTables, FS_Interval
  <2> HIDE DEF E
  <2> QED BY <2>1, <2>2, FS_Subset
<1>3. \A e \in E : /\ entry[e].amount \in Nat /\ Taken(alloc, SpentOf(entry, e)) \in Nat
                     /\ Taken(entry, CashOf(e)) \in Nat
                   /\ Available(e) \in Nat
                   /\ Available(e) = entry[e].amount - Taken(alloc, SpentOf(entry, e)) - Taken(entry, CashOf(e))
  BY CreditFacts
<1>4. SumFunction(amounts) = SumFunctionOnSet(amounts, E) /\ SumFunction(avail) = SumFunctionOnSet(avail, E)
  BY DEF SumFunction
<1>5. SumFunctionOnSet(cash, E) = Taken(entry, AnyCash)
  <2> DEFINE K == [e \in E |-> CashOf(e)]
  <2>1. ASSUME NEW j \in 1 .. Len(entry)
        PROVE  /\ entry[j] \in AnyCash <=> \E e \in E : entry[j] \in K[e]
               /\ \A d, e \in E : entry[j] \in K[d] /\ entry[j] \in K[e] => d = e
    <3>1. entry[j] \in AnyCash => entry[j].reverses \in E
      <4>1. RefundsStand(entry) /\ DOMAIN entry = 1 .. Len(entry)
        BY InvTables DEF LedgerInv
      <4> QED BY <4>1 DEF AnyCash, RefundsStand, CreditsIn
    <3>2. entry[j] \in EntryRec
      BY <1>1
    <3> HIDE DEF E
    <3>3. \A e \in E : entry[j] \in K[e] <=> entry[j] \in AnyCash /\ entry[j].reverses = e
      BY <3>2 DEF CashOf, AnyCash
    <3> HIDE DEF K
    <3> QED BY <3>1, <3>3
  <2>2. \A e \in E : cash[e] = Taken(entry, K[e])
    OBVIOUS
  <2>3. \A j \in 1 .. Len(entry) :
          /\ entry[j] \in AnyCash <=> \E e \in E : entry[j] \in K[e]
          /\ \A d, e \in E : entry[j] \in K[d] /\ entry[j] \in K[e] => d = e
    BY <2>1
  <2> DEFINE M == AnyCash
  <2> HIDE DEF E, K, cash
  <2>4. \A j \in 1 .. Len(entry) :
          /\ entry[j] \in M <=> \E e \in E : entry[j] \in K[e]
          /\ \A d, e \in E : entry[j] \in K[d] /\ entry[j] \in K[e] => d = e
    BY <2>3
  <2>5. HaveAmounts(EntryRec) /\ entry \in Seq(EntryRec)
    BY <1>1, RowTypes
  <2> HIDE DEF M
  <2>6. SumFunctionOnSet(cash, E) = Taken(entry, M)
    BY <1>2, <2>2, <2>4, <2>5, TakenClasses
  <2> QED BY <2>6 DEF M
<1>6. SumFunctionOnSet(spent, E) = Taken(alloc, SpentBy(entry, E))
  <2> DEFINE K == [e \in E |-> SpentOf(entry, e)]  M == SpentBy(entry, E)
  <2>1. ASSUME NEW j \in 1 .. Len(alloc)
        PROVE  /\ alloc[j] \in M <=> \E e \in E : alloc[j] \in K[e]
               /\ \A d, e \in E : alloc[j] \in K[d] /\ alloc[j] \in K[e] => d = e
    <3> HIDE DEF E
    <3>1. \A e \in E : alloc[j] \in K[e] <=> alloc[j] \in M /\ alloc[j].entry = e
      BY DEF SpentOf, SpentBy
    <3>2. alloc[j] \in M => alloc[j].entry \in E
      BY DEF SpentBy
    <3> HIDE DEF K, M
    <3> QED BY <3>1, <3>2
  <2>2. \A e \in E : spent[e] = Taken(alloc, K[e])
    OBVIOUS
  <2>3. \A j \in 1 .. Len(alloc) :
          /\ alloc[j] \in M <=> \E e \in E : alloc[j] \in K[e]
          /\ \A d, e \in E : alloc[j] \in K[d] /\ alloc[j] \in K[e] => d = e
    BY <2>1
  <2> HIDE DEF E, K, M, spent
  <2>4. SumFunctionOnSet(spent, E) = Taken(alloc, M)
    BY <1>1, <1>2, <2>2, <2>3, RowTypes, TakenClasses
  <2> QED BY <2>4 DEF M
<1>7. /\ \A e \in E : amounts[e] = avail[e] + used[e] /\ used[e] = cash[e] + spent[e]
      /\ IntOn(avail, E) /\ IntOn(used, E) /\ IntOn(cash, E) /\ IntOn(spent, E) /\ IntOn(amounts, E)
  <2> HIDE DEF E
  <2> QED BY <1>3 DEF IntOn
<1> HIDE DEF E, amounts, avail, cash, spent, used
<1>8. SumFunctionOnSet(amounts, E) = SumFunctionOnSet(avail, E) + SumFunctionOnSet(used, E)
  BY <1>2, <1>7, SumPlus
<1>9. SumFunctionOnSet(used, E) = SumFunctionOnSet(cash, E) + SumFunctionOnSet(spent, E)
  BY <1>2, <1>7, SumPlus
<1>10. /\ SumFunctionOnSet(avail, E) \in Int /\ SumFunctionOnSet(cash, E) \in Int
            /\ SumFunctionOnSet(spent, E) \in Int
  BY <1>2, <1>7, SumType
<1>11. RawWallet = SumFunction(avail)
  BY <1>1, <1>4, <1>5, <1>6, <1>8, <1>9, <1>10
<1> QED BY <1>1, <1>11 DEF avail

-----------------------------------------------------------------------------
(* Which operation a step was.                                             *)

\* Whoever changes an enrollment.
LEMMA EnrollmentChanges ==
  ASSUME LedgerInv, [Next]_vars, NEW enr \in Enrollment, enrollment'[enr] # enrollment[enr]
  PROVE  \/ \E mode \in {"paid", "grant"} : Enroll(enr, mode)
         \/ Withdraw(enr) \/ ToGrant(enr) \/ ToPaid(enr)
<1>1. enrollment \in [Enrollment -> EnrollmentRec]
  BY CalendarFacts
<1>2. ASSUME NEW x \in Enrollment, NEW r, enrollment' = [enrollment EXCEPT ![x] = r] PROVE x = enr
  BY <1>1, <1>2
<1>3. enrollment' # enrollment
  OBVIOUS
<1>4. ASSUME NEW x \in Enrollment, NEW mode \in {"paid", "grant"}, Enroll(x, mode) PROVE x = enr
  BY <1>2, <1>4 DEF Enroll
<1>5. ASSUME NEW x \in Enrollment, Withdraw(x) PROVE x = enr
  BY <1>1, <1>5 DEF Withdraw
<1>6. ASSUME NEW x \in Enrollment, ToGrant(x) PROVE x = enr
  BY <1>1, <1>6 DEF ToGrant
<1>7. ASSUME NEW x \in Enrollment, ToPaid(x) PROVE x = enr
  BY <1>1, <1>7 DEF ToPaid
<1>8. ASSUME NEW x \in Enrollment, NEW n \in Sums, AllocateToCourse(x, n) PROVE FALSE
  BY <1>3, <1>8 DEF AllocateToCourse, Allocate
<1>9. ASSUME NEW targets \in Targets, NEW month \in AccountingMonths, Pay(targets, month) PROVE FALSE
  BY <1>3, <1>9 DEF Pay, Record
<1>10. ASSUME NEW n \in Sums, NEW month \in AccountingMonths, Adjust(n, month) PROVE FALSE
  BY <1>3, <1>10 DEF Adjust, Record
<1>11. ASSUME NEW n \in Sums, NEW month \in AccountingMonths, NEW c \in DOMAIN charge, Discount(c, n, month)
       PROVE FALSE
  BY <1>3, <1>11 DEF Discount, Record
<1>12. ASSUME NEW p \in DOMAIN entry, Void(p) PROVE FALSE
  BY <1>3, <1>12 DEF Void, TakeBack
<1>13. ASSUME NEW p \in DOMAIN entry, NEW n \in Sums, NEW cash \in BOOLEAN, Refund(p, n, cash) PROVE FALSE
  BY <1>3, <1>13 DEF Refund, TakeBack
<1>14. ASSUME NEW c \in DOMAIN charge, NEW n \in Sums, AllocateToCharge(c, n) PROVE FALSE
  BY <1>3, <1>14 DEF AllocateToCharge, Allocate
<1>15. ASSUME NEW month \in Closable, ClosePeriod(month) \/ ReopenPeriod(month) PROVE FALSE
  BY <1>3, <1>15 DEF ClosePeriod, ReopenPeriod
<1>16. ~Tick
  BY <1>3 DEF Tick
<1>17. Next
  BY <1>3 DEF vars
<1> QED BY <1>4, <1>5, <1>6, <1>7, <1>8, <1>9, <1>10, <1>11, <1>12, <1>13, <1>14, <1>15, <1>16, <1>17 DEF Next

\* Whoever enters an entry, and of which type.
Enters(type) ==
  \/ type = "payment" /\ \E targets \in Targets, month \in AccountingMonths : Pay(targets, month)
  \/ type = "adjustment" /\ \E n \in Sums, month \in AccountingMonths : Adjust(n, month)
  \/ type = "discount" /\ \E n \in Sums, month \in AccountingMonths, c \in DOMAIN charge : Discount(c, n, month)
  \/ type = "discount" /\ \E enr \in Enrollment : ToGrant(enr)
  \/ type = "withdrawal" /\ \E enr \in Enrollment : Withdraw(enr)
  \/ type = "void" /\ \E p \in DOMAIN entry : Void(p)
  \/ type = "refund" /\ \E p \in DOMAIN entry, n \in Sums, cash \in BOOLEAN : Refund(p, n, cash)

\* One entry appended.
LEMMA OneEntered ==
  ASSUME LedgerInv, NEW new, GivesCredit(<<new>>), entry' = entry \o <<new>>
  PROVE  New = {NextEntry} /\ entry'[NextEntry] = new /\ Len(entry') = NextEntry
<1> DEFINE more == <<new>>
<1>1. more \in Seq(EntryRec) /\ Len(more) = 1 /\ more[1] = new /\ entry' = entry \o more
  BY DEF GivesCredit
<1> HIDE DEF more
<1>2. Len(entry') = Len(entry) + 1 /\ entry'[Len(entry) + 1] = new /\ Len(entry) \in Nat
  BY <1>1, InvTables, LongerBy
<1> QED BY <1>2 DEF New, NextEntry

\* The type of a new entry tells which operation wrote it.
LEMMA EntriesEntered ==
  ASSUME LedgerInv, [Next]_vars, NEW e \in New
  PROVE  Enters(entry'[e].type)
<1>1. entry' # entry
  BY InvTables DEF New
<1>2. ASSUME NEW x \in Enrollment, NEW mode \in {"paid", "grant"}, Enroll(x, mode) PROVE FALSE
  BY <1>1, <1>2 DEF Enroll
<1>3. ASSUME NEW x \in Enrollment, Withdraw(x) PROVE entry'[e].type = "withdrawal"
  BY <1>3, WithdrawFrees DEF FreeingStep, New
<1>4. ASSUME NEW x \in Enrollment, ToGrant(x) PROVE entry'[e].type = "discount"
  <2>1. PICK more, rows : GrantStep(x, more, rows)
    BY <1>4, GrantGives
  <2>2. more \in Seq(EntryRec) /\ entry' = entry \o more
    BY <2>1 DEF GrantStep, GivesCredit
  <2>3. \E k \in 1 .. Len(more) : entry'[e] = more[k]
    BY <2>2, InvTables, LongerBy DEF New
  <2> QED BY <2>1, <2>3 DEF GrantStep
<1>5. ASSUME NEW x \in Enrollment, ToPaid(x) PROVE FALSE
  BY <1>1, <1>5 DEF ToPaid
<1>6. ASSUME NEW x \in Enrollment, NEW n \in Sums, AllocateToCourse(x, n) PROVE FALSE
  BY <1>1, <1>6 DEF AllocateToCourse, Allocate
<1>7. ASSUME NEW targets \in Targets, NEW month \in AccountingMonths, Pay(targets, month)
      PROVE entry'[e].type = "payment"
  <2>1. PICK new : GivesCredit(<<new>>) /\ entry' = entry \o <<new>> /\ new.type = "payment"
    BY <1>7, PayGives DEF CreditStep
  <2> QED BY <2>1, OneEntered
<1>8. ASSUME NEW n \in Sums, NEW month \in AccountingMonths, Adjust(n, month)
      PROVE entry'[e].type = "adjustment"
  <2> DEFINE new == Entry("adjustment", n, month)
  <2>1. new.type = "adjustment"
    BY DEF Entry
  <2>2. GivesCredit(<<new>>) /\ entry' = entry \o <<new>>
    BY <1>8, AdjustGives DEF CreditStep
  <2> HIDE DEF new
  <2> QED BY <2>1, <2>2, OneEntered
<1>9. ASSUME NEW n \in Sums, NEW month \in AccountingMonths, NEW c \in DOMAIN charge, Discount(c, n, month)
      PROVE  entry'[e].type = "discount"
  <2> DEFINE new == Entry("discount", n, month)
  <2>1. new.type = "discount"
    BY DEF Entry
  <2>2. GivesCredit(<<new>>) /\ entry' = entry \o <<new>>
    BY <1>9, InvTables, DiscountGives DEF CreditStep
  <2> HIDE DEF new
  <2> QED BY <2>1, <2>2, OneEntered
<1>10. ASSUME NEW type, NEW p, NEW n, NEW cash, ReversalStep(type, p, n, cash) PROVE entry'[e].type = type
  <2>1. Len(entry') = NextEntry /\ entry'[NextEntry].type = type
    BY <1>10 DEF ReversalStep
  <2>2. e = NextEntry
    BY <2>1, InvTables DEF New, NextEntry
  <2> QED BY <2>1, <2>2
<1>11. ASSUME NEW p \in DOMAIN entry, Void(p) PROVE entry'[e].type = "void"
  BY <1>10, <1>11, VoidReverses
<1>12. ASSUME NEW p \in DOMAIN entry, NEW n \in Sums, NEW cash \in BOOLEAN, Refund(p, n, cash)
       PROVE entry'[e].type = "refund"
  BY <1>10, <1>12, RefundReverses
<1>13. ASSUME NEW c \in DOMAIN charge, NEW n \in Sums, AllocateToCharge(c, n) PROVE FALSE
  BY <1>1, <1>13 DEF AllocateToCharge, Allocate
<1>14. ASSUME NEW month \in Closable, ClosePeriod(month) \/ ReopenPeriod(month) PROVE FALSE
  BY <1>1, <1>14 DEF ClosePeriod, ReopenPeriod
<1>15. ~Tick
  BY <1>1 DEF Tick
<1>16. Next
  BY <1>1 DEF vars
<1> QED BY <1>2, <1>3, <1>4, <1>5, <1>6, <1>7, <1>8, <1>9, <1>11, <1>12, <1>13, <1>14, <1>15, <1>16 DEF Next,
           Enters

-----------------------------------------------------------------------------
(* Closed months.                                                          *)

\* Rows that are appended leave the rows there are alone.
LEMMA RowsAppended ==
  ASSUME LedgerInv, NEW rows \in Seq(AllocRec), alloc' = alloc \o rows, NEW i \in DOMAIN alloc
  PROVE  alloc'[i] = alloc[i]
BY InvTables

\* What a step un-applies of an entry of a closed month.
Sealed(i) ==
  alloc'[i].by # alloc[i].by /\ entry[alloc[i].entry].at \in closed => entry'[alloc'[i].by].type = "withdrawal"

\* No allocation of an entry of a closed month is un-applied but by a withdrawal.
LEMMA NothingUnsealed ==
  ASSUME LedgerInv, [Next]_vars, NEW i \in DOMAIN alloc
  PROVE  Sealed(i)
<1>1. CASE alloc' = alloc
  BY <1>1 DEF Sealed
<1>2. ASSUME NEW more, NEW rows, CreditStep(more, rows) PROVE Sealed(i)
  <2>1. rows \in Seq(AllocRec) /\ alloc' = alloc \o rows
    BY <1>2 DEF CreditStep, Applies
  <2> QED BY <2>1, RowsAppended DEF Sealed
<1>3. ASSUME NEW x \in Enrollment, Withdraw(x) PROVE Sealed(i)
  <2> DEFINE gone == Future(x)
  <2>1. FreeingStep(gone)
    BY <1>3, WithdrawFrees
  <2> HIDE DEF gone
  <2>2. i \in 1 .. Len(alloc) /\ NextEntry = Len(entry) + 1 /\ Len(entry) \in Nat
    BY InvTables DEF NextEntry
  <2>3. alloc'[i].by = IF alloc[i] \in FreedKind(gone) THEN NextEntry ELSE alloc[i].by
    BY <2>1, <2>2 DEF FreeingStep, FreedRows
  <2>4. alloc[i] \in FreedKind(gone) => Len(entry') = NextEntry
    BY <2>1, <2>2 DEF FreeingStep
  <2>5. alloc[i] \in FreedKind(gone) => entry'[NextEntry].type = "withdrawal"
    BY <2>1, <2>2, <2>4 DEF FreeingStep
  <2> QED BY <2>3, <2>5 DEF Sealed
<1>4. ASSUME NEW x \in Enrollment, ToGrant(x) PROVE Sealed(i)
  <2>1. PICK more, rows : GrantStep(x, more, rows)
    BY <1>4, GrantGives
  <2>2. rows \in Seq(AllocRec) /\ alloc' = alloc \o rows
    BY <2>1 DEF GrantStep, Applies
  <2> QED BY <2>2, RowsAppended DEF Sealed
<1>5. ASSUME NEW type, NEW p, NEW n, NEW cash, ReversalStep(type, p, n, cash), Open(entry[p].at) PROVE Sealed(i)
  <2>1. i \in 1 .. Len(alloc)
    BY InvTables
  <2>2. alloc'[i] = alloc[i] \/ alloc[i].entry = p
    BY <1>5, <2>1 DEF ReversalStep, Unapplied
  <2> QED BY <1>5, <2>2 DEF Sealed, Open
<1>6. ASSUME NEW x \in Enrollment, NEW n \in Sums, AllocateToCourse(x, n) PROVE Sealed(i)
  BY <1>2, <1>6, SumsPositive, ToCourseGives
<1>7. ASSUME NEW targets \in Targets, NEW month \in AccountingMonths, Pay(targets, month) PROVE Sealed(i)
  <2>1. \E more, rows : CreditStep(more, rows)
    BY <1>7, PayGives
  <2> QED BY <1>2, <2>1
<1>8. ASSUME NEW n \in Sums, NEW month \in AccountingMonths, Adjust(n, month) PROVE Sealed(i)
  <2>1. \E more, rows : CreditStep(more, rows)
    BY <1>8, AdjustGives
  <2> QED BY <1>2, <2>1
<1>9. ASSUME NEW n \in Sums, NEW month \in AccountingMonths, NEW c \in DOMAIN charge, Discount(c, n, month)
      PROVE Sealed(i)
  <2>1. \E more, rows : CreditStep(more, rows)
    BY <1>9, InvTables, DiscountGives
  <2> QED BY <1>2, <2>1
<1>10. ASSUME NEW p \in DOMAIN entry, Void(p) PROVE Sealed(i)
  <2>1. Open(entry[p].at)
    BY <1>10 DEF Void
  <2> QED BY <1>5, <1>10, <2>1, VoidReverses
<1>11. ASSUME NEW p \in DOMAIN entry, NEW n \in Sums, NEW cash \in BOOLEAN, Refund(p, n, cash) PROVE Sealed(i)
  <2>1. Open(entry[p].at)
    BY <1>11 DEF Refund
  <2> QED BY <1>5, <1>11, <2>1, RefundReverses
<1>12. ASSUME NEW c \in DOMAIN charge, NEW n \in Sums, AllocateToCharge(c, n) PROVE Sealed(i)
  BY <1>2, <1>12, SumsPositive, InvTables, ToChargeGives
<1>13. ASSUME NEW x \in Enrollment, NEW mode \in {"paid", "grant"}, Enroll(x, mode) PROVE alloc' = alloc
  BY <1>13 DEF Enroll
<1>14. ASSUME NEW x \in Enrollment, ToPaid(x) PROVE alloc' = alloc
  BY <1>14 DEF ToPaid
<1>15. ASSUME NEW month \in Closable, ClosePeriod(month) \/ ReopenPeriod(month) PROVE alloc' = alloc
  BY <1>15 DEF ClosePeriod, ReopenPeriod
<1>16. Tick \/ UNCHANGED vars => alloc' = alloc
  BY DEF Tick, vars
<1> QED BY <1>1, <1>3, <1>4, <1>6, <1>7, <1>8, <1>9, <1>10, <1>11, <1>12, <1>13, <1>14, <1>15, <1>16 DEF Next

\* What a step enters into a closed month is a withdrawal.
LEMMA OnlyOpenMonths ==
  ASSUME LedgerInv, [Next]_vars, NEW e \in New, entry'[e].at \in closed
  PROVE  entry'[e].type = "withdrawal"
<1>1. Enters(entry'[e].type)
  BY EntriesEntered
<1>2. ASSUME NEW targets \in Targets, NEW month \in AccountingMonths, Pay(targets, month) PROVE FALSE
  <2>1. PICK new : GivesCredit(<<new>>) /\ entry' = entry \o <<new>> /\ new.at = month
    BY <1>2, PayGives DEF CreditStep
  <2>2. entry'[e].at = month
    BY <2>1, OneEntered
  <2> QED BY <1>2, <2>2 DEF Pay, Open
<1>3. ASSUME NEW n \in Sums, NEW month \in AccountingMonths, Adjust(n, month) PROVE FALSE
  <2> DEFINE new == Entry("adjustment", n, month)
  <2>1. new.at = month
    BY DEF Entry
  <2>2. GivesCredit(<<new>>) /\ entry' = entry \o <<new>>
    BY <1>3, AdjustGives DEF CreditStep
  <2> HIDE DEF new
  <2>3. entry'[e].at = month
    BY <2>1, <2>2, OneEntered
  <2> QED BY <1>3, <2>3 DEF Adjust, Open
<1>4. ASSUME NEW n \in Sums, NEW month \in AccountingMonths, NEW c \in DOMAIN charge, Discount(c, n, month)
      PROVE FALSE
  <2> DEFINE new == Entry("discount", n, month)
  <2>1. new.at = month
    BY DEF Entry
  <2>2. GivesCredit(<<new>>) /\ entry' = entry \o <<new>>
    BY <1>4, InvTables, DiscountGives DEF CreditStep
  <2> HIDE DEF new
  <2>3. entry'[e].at = month
    BY <2>1, <2>2, OneEntered
  <2> QED BY <1>4, <2>3 DEF Discount, Open
<1>5. ASSUME NEW x \in Enrollment, ToGrant(x) PROVE FALSE
  <2>1. PICK more, rows : GrantStep(x, more, rows)
    BY <1>5, GrantGives
  <2>2. more \in Seq(EntryRec) /\ entry' = entry \o more
    BY <2>1 DEF GrantStep, GivesCredit
  <2>3. PICK k \in 1 .. Len(more) : entry'[e] = more[k]
    BY <2>2, InvTables, LongerBy DEF New
  <2>4. entry'[e].at = ThisMonth
    BY <2>1, <2>3 DEF GrantStep
  <2>5. Open(ThisMonth)
    <3>1. more # <<>>
      BY <2>3
    <3> QED BY <2>1, <3>1 DEF GrantStep
  <2> QED BY <2>4, <2>5 DEF Open
<1>6. ASSUME NEW type, NEW p, NEW n, NEW cash, ReversalStep(type, p, n, cash), Open(ThisMonth) PROVE FALSE
  <2>1. Len(entry') = NextEntry /\ entry'[NextEntry].at = ThisMonth
    BY <1>6 DEF ReversalStep
  <2>2. e = NextEntry
    BY <2>1, InvTables DEF New, NextEntry
  <2> QED BY <1>6, <2>1, <2>2 DEF Open
<1>7. ASSUME NEW p \in DOMAIN entry, Void(p) PROVE FALSE
  <2>1. Open(ThisMonth)
    BY <1>7 DEF Void
  <2> QED BY <1>6, <1>7, <2>1, VoidReverses
<1>8. ASSUME NEW p \in DOMAIN entry, NEW n \in Sums, NEW cash \in BOOLEAN, Refund(p, n, cash) PROVE FALSE
  <2>1. Open(ThisMonth)
    BY <1>8 DEF Refund
  <2> QED BY <1>6, <1>8, <2>1, RefundReverses
<1> QED BY <1>1, <1>2, <1>3, <1>4, <1>5, <1>7, <1>8 DEF Enters

\* _check_periods_open, for any history: no entry is written into a closed month and no allocation
\* of an entry of one is un-applied, but by a withdrawal (reverse_withdrawal_allocations).
THEOREM LedgerSealsMonths == Spec => ClosedMonthsAreSealed
<1> DEFINE A == /\ \A e \in New : entry'[e].at \in closed => entry'[e].type = "withdrawal"
                /\ \A i \in DOMAIN alloc :
                     alloc'[i].by # alloc[i].by /\ entry[alloc[i].entry].at \in closed =>
                       entry'[alloc'[i].by].type = "withdrawal"
<1>1. LedgerInv /\ [Next]_vars => [A]_vars
  <2> SUFFICES ASSUME LedgerInv, [Next]_vars PROVE A
    OBVIOUS
  <2>1. \A e \in New : entry'[e].at \in closed => entry'[e].type = "withdrawal"
    BY OnlyOpenMonths
  <2>2. \A i \in DOMAIN alloc : Sealed(i)
    BY NothingUnsealed
  <2> QED BY <2>1, <2>2 DEF Sealed
<1> HIDE DEF A
<1>2. Spec => [][A]_vars
  BY <1>1, LedgerIsSound, PTL DEF Spec
<1> QED BY <1>2 DEF ClosedMonthsAreSealed, A

-----------------------------------------------------------------------------
(* The wallet before and after a step.                                     *)

\* The wallet is what is available of the single credits, and never negative.
WalletSound ==
  /\ RawWallet \in Nat /\ Wallet = RawWallet
  /\ RawWallet = SumFunctionOnSet(Avail, CreditsIn(entry))
  /\ CreditsIn(entry) \subseteq 1 .. Len(entry) /\ IsFiniteSet(CreditsIn(entry)) /\ Credits = CreditsIn(entry)
  /\ \A e \in CreditsIn(entry) :
       /\ Avail[e] \in Nat
       /\ Avail[e] = entry[e].amount - Taken(alloc, SpentOf(entry, e)) - Taken(entry, CashOf(e))

\* So it is under the invariant.
LEMMA InvWalletSound == LedgerInv => WalletSound
<1> SUFFICES ASSUME LedgerInv PROVE WalletSound
  OBVIOUS
<1>1. Credits = CreditsIn(entry) /\ CreditsIn(entry) \subseteq 1 .. Len(entry)
  BY InvTables DEF BalanceKinds, CreditsIn
<1>2. IsFiniteSet(CreditsIn(entry))
  <2>1. IsFiniteSet(1 .. Len(entry))
    BY InvTables, FS_Interval
  <2> QED BY <1>1, <2>1, FS_Subset
<1>3. RawWallet = SumFunctionOnSet(Avail, CreditsIn(entry))
  <2>1. RawWallet = SumFunction(Avail)
    BY InvWallet DEF WalletIsExact, Avail
  <2>2. SumFunction(Avail) = SumFunctionOnSet(Avail, DOMAIN Avail) /\ DOMAIN Avail = Credits
    BY DEF SumFunction, Avail
  <2> QED BY <1>1, <2>1, <2>2
<1>4. \A e \in CreditsIn(entry) :
        /\ Avail[e] \in Nat
        /\ Avail[e] = entry[e].amount - Taken(alloc, SpentOf(entry, e)) - Taken(entry, CashOf(e))
  BY <1>1, CreditFacts DEF Avail
<1>5. RawWallet \in Nat
  <2>1. NatOn(Avail, CreditsIn(entry))
    BY <1>4 DEF NatOn
  <2> QED BY <1>2, <1>3, <2>1, SumNat
<1>6. Wallet = RawWallet
  BY <1>5 DEF Wallet
<1> QED BY <1>1, <1>2, <1>3, <1>4, <1>5, <1>6 DEF WalletSound

\* And after a step that keeps it.
LEMMA InvWalletSoundNext == LedgerInv' => WalletSound'
BY InvWalletSound, PTL

\* When the credits stay the same, the wallet moves by what the single ones lose and gain.
LEMMA WalletMoves ==
  ASSUME LedgerInv, LedgerInv', NEW E, E = CreditsIn(entry), CreditsIn(entry') = E,
         NEW lost, NatOn(lost, E), NEW gained, NatOn(gained, E), \A e \in E : Avail'[e] + lost[e] = Avail[e] + gained[e]
  PROVE  /\ RawWallet' + SumFunctionOnSet(lost, E) = RawWallet + SumFunctionOnSet(gained, E)
         /\ RawWallet \in Nat /\ RawWallet' \in Nat /\ Wallet = RawWallet /\ Wallet' = RawWallet'
<1>1. WalletSound /\ WalletSound'
  BY InvWalletSound, InvWalletSoundNext
<1> DEFINE f == Avail  g == Avail'  h == [e \in E |-> f[e] + gained[e]]
<1>2. /\ IsFiniteSet(E) /\ \A e \in E : f[e] \in Nat /\ g[e] \in Nat
      /\ RawWallet = SumFunctionOnSet(f, E) /\ RawWallet' = SumFunctionOnSet(g, E)
      /\ RawWallet \in Nat /\ RawWallet' \in Nat /\ Wallet = RawWallet /\ Wallet' = RawWallet'
  BY <1>1 DEF WalletSound
<1>3. \A e \in E : h[e] = f[e] + gained[e] /\ h[e] = g[e] + lost[e]
  OBVIOUS
<1> HIDE DEF f, g, h
<1>4. IntOn(f, E) /\ IntOn(g, E) /\ IntOn(lost, E) /\ IntOn(gained, E)
  BY <1>2 DEF IntOn, NatOn
<1>5. SumFunctionOnSet(h, E) = SumFunctionOnSet(f, E) + SumFunctionOnSet(gained, E)
  BY <1>2, <1>3, <1>4, SumPlus
<1>6. SumFunctionOnSet(h, E) = SumFunctionOnSet(g, E) + SumFunctionOnSet(lost, E)
  BY <1>2, <1>3, <1>4, SumPlus
<1> QED BY <1>2, <1>5, <1>6

\* Nothing for anybody.
Nothing(E) == [e \in E |-> 0]
\* Nothing sums to nothing.
LEMMA NothingSums ==
  ASSUME NEW E, IsFiniteSet(E)
  PROVE  SumFunctionOnSet(Nothing(E), E) = 0 /\ NatOn(Nothing(E), E)
<1>1. \A e \in E : Nothing(E)[e] = 0
  BY DEF Nothing
<1> QED BY <1>1, SumZero DEF NatOn

\* What credit that is entered and applied leaves of the credits there were.
LEMMA CreditSpends ==
  ASSUME LedgerInv, NEW more, GivesCredit(more), NEW rows, Applies(rows, more),
         entry' = entry \o more, alloc' = alloc \o rows
  PROVE  /\ Longer(entry, entry') /\ \A e : VoidedIn(entry', e) <=> VoidedIn(entry, e)
         /\ \A e \in 1 .. Len(entry) :
              /\ entry'[e] = entry[e] /\ Taken(entry', CashOf(e)) = Taken(entry, CashOf(e))
              /\ Taken(alloc', SpentOf(entry', e)) = Taken(alloc, SpentOf(entry, e)) + Taken(rows, OfEntry(e))
<1>1. entry \in Seq(EntryRec) /\ alloc \in Seq(AllocRec) /\ more \in Seq(EntryRec) /\ rows \in Seq(AllocRec)
  BY InvTables DEF GivesCredit, Applies
<1>2. /\ Longer(entry, entry')
      /\ \A e \in Len(entry) + 1 .. Len(entry') : \E k \in 1 .. Len(more) : entry'[e] = more[k]
  BY <1>1, LongerBy
<1>3. NoReversals(entry, entry')
  BY <1>2 DEF NoReversals, GivesCredit
<1>4. \A e : (VoidedIn(entry', e) <=> VoidedIn(entry, e)) /\ Taken(entry', CashOf(e)) = Taken(entry, CashOf(e))
  BY <1>2, <1>3, NoReversalKeeps
<1>5. ASSUME NEW e \in 1 .. Len(entry)
      PROVE  Taken(alloc', SpentOf(entry', e)) = Taken(alloc, SpentOf(entry, e)) + Taken(rows, OfEntry(e))
  <2>1. Taken(alloc', SpentOf(entry', e)) = Taken(alloc, SpentOf(entry', e)) + Taken(rows, SpentOf(entry', e))
    BY <1>1, RowTypes, TakenConcat
  <2>2. Taken(alloc, SpentOf(entry', e)) = Taken(alloc, SpentOf(entry, e))
    <3>1. Tables(charge, entry, alloc) /\ References(charge, entry, alloc)
      BY DEF LedgerInv
    <3>2. \A i \in 1 .. Len(alloc) : alloc[i] \in SpentOf(entry, e) <=> alloc[i] \in SpentOf(entry', e)
      BY <1>2, <3>1, RowRefers, ConsumesStays DEF SpentOf
    <3> QED BY <3>2, <1>1, RowTypes, TakenSame
  <2>3. Taken(rows, SpentOf(entry', e)) = Taken(rows, OfEntry(e))
    <3>1. \A i \in 1 .. Len(rows) : rows[i] \in OfEntry(e) <=> rows[i] \in SpentOf(entry', e)
      BY DEF SpentOf, OfEntry, ConsumesIn, Applies
    <3> QED BY <3>1, <1>1, RowTypes, TakenSame
  <2> QED BY <2>1, <2>2, <2>3
<1> QED BY <1>2, <1>4, <1>5 DEF Longer

-----------------------------------------------------------------------------
(* The debt before and after a step.                                       *)

LiveCharges(enr) == ChargesOf(enr, {"open", "settled"})
Rem == [c \in 1 .. Len(charge) |-> Remaining(c)]
DebtSound(enr) ==
  /\ DebtOf(enr) = SumFunctionOnSet(Rem, LiveCharges(enr))
  /\ LiveCharges(enr) \subseteq 1 .. Len(charge) /\ IsFiniteSet(LiveCharges(enr))
  /\ LiveCharges(enr) = {c \in 1 .. Len(charge) : charge[c].enr = enr /\ charge[c].status # "cancelled"}
  /\ \A c \in 1 .. Len(charge) : Rem[c] = charge[c].amount - Taken(alloc, LiveOn(c)) /\ Rem[c] \in Nat

\* A debt is what remains of the charges that are not cancelled.
LEMMA InvDebtSound ==
  ASSUME NEW enr
  PROVE  LedgerInv => DebtSound(enr)
<1> SUFFICES ASSUME LedgerInv PROVE DebtSound(enr)
  OBVIOUS
<1> DEFINE D == LiveCharges(enr)
<1>1. D \subseteq 1 .. Len(charge)
  BY InvTables DEF LiveCharges, ChargesOf
<1>2. IsFiniteSet(D)
  <2>1. IsFiniteSet(1 .. Len(charge))
    BY InvTables, FS_Interval
  <2> QED BY <1>1, <2>1, FS_Subset
<1>3. D = {c \in 1 .. Len(charge) : charge[c].enr = enr /\ charge[c].status # "cancelled"}
  <2>1. \A c \in 1 .. Len(charge) : charge[c].status \in {"open", "settled", "cancelled"}
    BY ChargeFacts DEF ChargeRec
  <2> QED BY <2>1, InvTables DEF LiveCharges, ChargesOf
<1>4. \A c \in 1 .. Len(charge) : Rem[c] = charge[c].amount - Taken(alloc, LiveOn(c)) /\ Rem[c] \in Nat
        /\ Rem[c] = Remaining(c)
  BY ChargeFacts DEF Rem
<1>5. DebtOf(enr) = SumFunctionOnSet(Rem, D)
  <2> DEFINE f == [c \in D |-> Remaining(c)]
  <2>1. DebtOf(enr) = SumFunctionOnSet(f, D)
    BY DEF DebtOf, SumFunction, LiveCharges
  <2>2. \A c \in D : f[c] = Rem[c] /\ f[c] \in Int
    BY <1>1, <1>4
  <2> HIDE DEF f, D
  <2>3. SumFunctionOnSet(f, D) = SumFunctionOnSet(Rem, D)
    BY <1>2, <2>2, SumSame DEF IntOn
  <2> QED BY <2>1, <2>3
<1> QED BY <1>1, <1>2, <1>3, <1>4, <1>5 DEF DebtSound

\* And after a step that keeps the invariant.
LEMMA InvDebtSoundNext ==
  ASSUME NEW enr
  PROVE  LedgerInv' => DebtSound(enr)'
BY InvDebtSound, PTL

\* Credit that is applied: what each charge has, and which are cancelled.
LEMMA CreditStepSettles ==
  ASSUME LedgerInv, NEW more, NEW rows, CreditStep(more, rows), NEW c \in 1 .. Len(charge)
  PROVE  /\ Taken(alloc', LiveOn(c)) = Taken(alloc, LiveOn(c)) + Taken(rows, OnCharge(c))
         /\ charge'[c].status = "cancelled" <=> charge[c].status = "cancelled"
<1>1. rows \in Seq(AllocRec) /\ \A i \in 1 .. Len(rows) :
        rows[i].by = 0 /\ rows[i].charge \in 1 .. Len(charge) /\ charge[rows[i].charge].status # "cancelled"
  BY DEF CreditStep, Applies, Settles
<1>2. \A d \in ChargesIn(rows) : Taken(rows, OnCharge(d)) <= charge[d].amount - Taken(alloc, LiveOn(d))
  <2>1. BalanceKinds
    BY InvTables
  <2> QED BY <2>1 DEF CreditStep, Settles, BalanceKinds
<1>3. Settled(charge, alloc) /\ charge \in Seq(ChargeRec) /\ alloc \in Seq(AllocRec)
  BY InvTables DEF LedgerInv
<1>4. /\ alloc \o rows \in Seq(AllocRec) /\ Payable(charge, alloc, alloc \o rows, ChargesIn(rows))
      /\ \A d : Taken(alloc \o rows, LiveOn(d)) = Taken(alloc, LiveOn(d)) + Taken(rows, OnCharge(d))
  BY <1>1, <1>2, <1>3, NewRowsPayable
<1> DEFINE al == alloc \o rows  touched == ChargesIn(rows)
<1>9. al \in Seq(AllocRec) /\ Payable(charge, alloc, al, touched)
  BY <1>4
<1> HIDE DEF al, touched
<1>10. /\ SameCharges(charge, Recomputed(charge, al, touched))
       /\ \A d \in 1 .. Len(charge) : Recomputed(charge, al, touched)[d].status = "cancelled"
            => charge[d].status = "cancelled"
  BY <1>3, <1>9, RecomputedSettles
<1>5. /\ SameCharges(charge, Recomputed(charge, alloc \o rows, ChargesIn(rows)))
      /\ \A d \in 1 .. Len(charge) :
           Recomputed(charge, alloc \o rows, ChargesIn(rows))[d].status = "cancelled"
             => charge[d].status = "cancelled"
  BY <1>10 DEF al, touched
<1>6. alloc' = alloc \o rows /\ charge' = Recomputed(charge, alloc \o rows, ChargesIn(rows))
  BY DEF CreditStep
<1>7. SameCharges(charge, charge') /\ (charge'[c].status = "cancelled" => charge[c].status = "cancelled")
  BY <1>5, <1>6
<1>8. Taken(alloc', LiveOn(c)) = Taken(alloc, LiveOn(c)) + Taken(rows, OnCharge(c))
  BY <1>4, <1>6
<1> QED BY <1>7, <1>8 DEF SameCharges

\* The debt of an enrollment falls by what the new rows give its charges.
LEMMA DebtFalls ==
  ASSUME LedgerInv, NEW more, NEW rows, CreditStep(more, rows), NEW enr
  PROVE  DebtOf(enr)' = DebtOf(enr) - Taken(rows, OnEnr(enr)) /\ DebtOf(enr) \in Nat
<1>1. LedgerInv' /\ SameCharges(charge, charge')
  BY CreditStepKeeps
<1>2. DebtSound(enr) /\ DebtSound(enr)'
  BY <1>1, InvDebtSound, InvDebtSoundNext
<1> DEFINE D == LiveCharges(enr)  f == Rem  g == Rem'  t == [c \in D |-> Taken(rows, OnCharge(c))]
           K == [c \in D |-> OnCharge(c)]  M == OnEnr(enr)
<1>3. rows \in Seq(AllocRec) /\ HaveAmounts(AllocRec)
  BY RowTypes DEF CreditStep, Applies
<1>4. D \subseteq 1 .. Len(charge) /\ IsFiniteSet(D) /\ LiveCharges(enr)' = D
  <2>1. \A c \in 1 .. Len(charge) : (charge'[c].status = "cancelled" <=> charge[c].status = "cancelled")
          /\ charge'[c].enr = charge[c].enr
    BY <1>1, CreditStepSettles DEF SameCharges
  <2>2. Len(charge') = Len(charge)
    BY <1>1 DEF SameCharges
  <2> QED BY <1>2, <2>1, <2>2 DEF DebtSound
<1>5. \A c \in D : f[c] \in Nat /\ g[c] \in Nat /\ t[c] \in Nat /\ f[c] = g[c] + t[c]
  <2> SUFFICES ASSUME NEW c \in D PROVE f[c] \in Nat /\ g[c] \in Nat /\ t[c] \in Nat /\ f[c] = g[c] + t[c]
    OBVIOUS
  <2>1. c \in 1 .. Len(charge) /\ c \in 1 .. Len(charge') /\ charge'[c].amount = charge[c].amount
    BY <1>1, <1>4 DEF SameCharges
  <2>2. Taken(alloc', LiveOn(c)) = Taken(alloc, LiveOn(c)) + Taken(rows, OnCharge(c))
    BY <2>1, CreditStepSettles
  <2>3. f[c] = charge[c].amount - Taken(alloc, LiveOn(c)) /\ g[c] = charge'[c].amount - Taken(alloc', LiveOn(c))
          /\ f[c] \in Nat /\ g[c] \in Nat
    BY <1>2, <2>1 DEF DebtSound
  <2>4. Taken(alloc, LiveOn(c)) \in Nat /\ Taken(rows, OnCharge(c)) \in Nat /\ charge[c].amount \in Nat
          /\ t[c] = Taken(rows, OnCharge(c))
    BY <1>3, <2>1, ChargeFacts, TakenNat
  <2> DEFINE a == charge[c].amount  x == Taken(alloc, LiveOn(c))  y == Taken(rows, OnCharge(c))  z == f[c]
             w == g[c]
  <2>5. a \in Nat /\ x \in Nat /\ y \in Nat /\ z = a - x /\ w = a - (x + y)
    BY <2>1, <2>2, <2>3, <2>4
  <2> HIDE DEF a, x, y, z, w
  <2>6. z = w + y
    BY <2>5
  <2> QED BY <2>3, <2>4, <2>6 DEF y, z, w
<1>6. \A j \in 1 .. Len(rows) :
        /\ rows[j] \in M <=> \E c \in D : rows[j] \in K[c]
        /\ \A c, d \in D : rows[j] \in K[c] /\ rows[j] \in K[d] => c = d
  <2> SUFFICES ASSUME NEW j \in 1 .. Len(rows)
               PROVE  /\ rows[j] \in M <=> \E c \in D : rows[j] \in K[c]
                      /\ \A c, d \in D : rows[j] \in K[c] /\ rows[j] \in K[d] => c = d
    OBVIOUS
  <2>1. rows[j] \in AllocRec /\ rows[j].charge \in 1 .. Len(charge)
          /\ charge[rows[j].charge].status # "cancelled"
    BY DEF CreditStep, Applies, Settles
  <2>2. rows[j] \in M <=> rows[j].charge \in D
    BY <1>2, <2>1 DEF OnEnr, DebtSound
  <2>3. \A c \in D : rows[j] \in K[c] <=> rows[j].charge = c
    BY <2>1 DEF OnCharge
  <2> HIDE DEF D, M, K
  <2> QED BY <2>2, <2>3
<1>7. \A c \in D : t[c] = Taken(rows, K[c])
  OBVIOUS
<1>8. DebtOf(enr) = SumFunctionOnSet(f, D) /\ DebtOf(enr)' = SumFunctionOnSet(g, D)
  BY <1>2, <1>4 DEF DebtSound
<1>9. M = OnEnr(enr)
  OBVIOUS
<1> HIDE DEF D, f, g, t, K, M
<1>14. IsFiniteSet(D) /\ rows \in Seq(AllocRec) /\ HaveAmounts(AllocRec)
  BY <1>3, <1>4
<1>10. SumFunctionOnSet(t, D) = Taken(rows, M)
  BY <1>6, <1>7, <1>14, TakenClasses
<1>15. IntOn(f, D) /\ IntOn(g, D) /\ IntOn(t, D) /\ \A c \in D : f[c] = g[c] + t[c]
  BY <1>5 DEF IntOn
<1>11. SumFunctionOnSet(f, D) = SumFunctionOnSet(g, D) + SumFunctionOnSet(t, D)
  BY <1>14, <1>15, SumPlus
<1>12. SumFunctionOnSet(g, D) \in Nat /\ SumFunctionOnSet(t, D) \in Nat
  BY <1>4, <1>5, SumNat DEF NatOn
<1>13. DebtOf(enr)' = DebtOf(enr) - Taken(rows, M) /\ DebtOf(enr) \in Nat
  BY <1>8, <1>10, <1>11, <1>12
<1> QED BY <1>9, <1>13

-----------------------------------------------------------------------------
(* Sums with one term.                                                     *)

\* v for x and nothing for the others.
Only(E, x, v) == [e \in E |-> IF e = x THEN v ELSE 0]

\* It sums to v.
LEMMA OnlySums ==
  ASSUME NEW E, IsFiniteSet(E), NEW x \in E, NEW v \in Nat
  PROVE  SumFunctionOnSet(Only(E, x, v), E) = v /\ NatOn(Only(E, x, v), E)
<1> DEFINE f == Only(E, x, v)
<1>1. f[x] = v /\ \A e \in E \ {x} : f[e] = 0
  BY DEF Only
<1>2. NatOn(f, E) /\ IntOn(f, E)
  BY DEF Only, NatOn, IntOn
<1>3. IsFiniteSet(E \ {x})
  BY FS_Subset
<1> HIDE DEF f
<1>4. SumFunctionOnSet(f, E \ {x}) = 0
  BY <1>1, <1>3, SumZero
<1>5. SumFunctionOnSet(f, E) = f[x] + SumFunctionOnSet(f, E \ {x})
  BY <1>2, SumRemove
<1> QED BY <1>1, <1>2, <1>4, <1>5 DEF f

\* Rows summed entry by entry.
LEMMA TakenByEntry ==
  ASSUME NEW E, IsFiniteSet(E), NEW rows \in Seq(AllocRec), \A i \in 1 .. Len(rows) : rows[i].entry \in E,
         NEW of, \A e \in E : of[e] = Taken(rows, OfEntry(e))
  PROVE  SumFunctionOnSet(of, E) = Taken(rows, AllocRec)
<1> DEFINE K == [e \in E |-> OfEntry(e)]  M == AllocRec
<1>1. \A e \in E : of[e] = Taken(rows, K[e])
  OBVIOUS
<1>2. \A j \in 1 .. Len(rows) :
        /\ rows[j] \in M <=> \E e \in E : rows[j] \in K[e]
        /\ \A d, e \in E : rows[j] \in K[d] /\ rows[j] \in K[e] => d = e
  BY DEF OfEntry
<1>3. HaveAmounts(AllocRec)
  BY RowTypes
<1> HIDE DEF K, M
<1>4. SumFunctionOnSet(of, E) = Taken(rows, M)
  BY <1>1, <1>2, <1>3, TakenClasses
<1> QED BY <1>4 DEF M

-----------------------------------------------------------------------------
(* Wallet credit lands in full.                                            *)

\* What an allocation of n to charges of one enrollment changes.
LEMMA AllocationLands ==
  ASSUME LedgerInv, NEW enr, NEW C \in SUBSET LiveCharges(enr), NEW n \in Sums, NEW rows,
         CreditStep(<<>>, rows),
         Allocated(rows, C, n), n <= Wallet, n <= SumFunctionOnSet(Rem, C), entry' = entry, alloc' = alloc \o rows
  PROVE  Wallet' = Wallet - n /\ DebtOf(enr)' = DebtOf(enr) - n
<1> DEFINE E == CreditsIn(entry)  lost == [e \in E |-> Taken(rows, OfEntry(e))]
<1>1. WalletSound /\ DebtSound(enr) /\ LedgerInv'
  BY InvWalletSound, InvDebtSound, CreditStepKeeps
<1>2. /\ E \subseteq 1 .. Len(entry) /\ IsFiniteSet(E) /\ Credits = E
      /\ n \in Nat /\ n <= SumFunctionOnSet(Avail, E)
  BY <1>1, SumsPositive DEF WalletSound
<1>3. C \subseteq 1 .. Len(charge) /\ IsFiniteSet(C) /\ \A c \in C : charge[c].enr = enr
        /\ Rem[c] = Remaining(c)
  <2>1. LiveCharges(enr) \subseteq 1 .. Len(charge) /\ IsFiniteSet(LiveCharges(enr))
        /\ \A c \in LiveCharges(enr) : charge[c].enr = enr
    BY <1>1 DEF DebtSound
  <2>2. IsFiniteSet(C)
    BY <2>1, FS_Subset
  <2> QED BY <2>1, <2>2 DEF Rem
<1>4. /\ rows \in Seq(AllocRec) /\ HaveAmounts(AllocRec)
      /\ \A i \in 1 .. Len(rows) : rows[i] \in AllocRec /\ rows[i].charge \in C /\ rows[i].entry \in E
  BY <1>2, RowTypes DEF Allocated, Drawn, SourcesOf
<1>5. Taken(rows, AllocRec) = n
  <2>1. Drawn(rows, SourcesOf(E, Avail), C, n)
    BY <1>2 DEF Allocated
  <2> HIDE DEF E
  <2> QED BY <2>1, <1>2, <1>3, SweepExact
<1>6. Taken(rows, OnEnr(enr)) = n
  <2>1. \A j \in 1 .. Len(rows) : rows[j] \in AllocRec <=> rows[j] \in OnEnr(enr)
    BY <1>3, <1>4 DEF OnEnr
  <2>2. Taken(rows, OnEnr(enr)) = Taken(rows, AllocRec)
    BY <2>1, <1>4, TakenSame
  <2> QED BY <2>2, <1>5
<1>7. DebtOf(enr)' = DebtOf(enr) - n
  BY <1>6, DebtFalls
<1>8. SumFunctionOnSet(lost, E) = n
  <2>1. \A e \in E : lost[e] = Taken(rows, OfEntry(e))
    OBVIOUS
  <2>2. IsFiniteSet(E) /\ \A i \in 1 .. Len(rows) : rows[i].entry \in E
    BY <1>2, <1>4
  <2> HIDE DEF E, lost
  <2> QED BY <2>1, <2>2, <1>4, <1>5, TakenByEntry
<1>9. \A e \in E : Avail'[e] + lost[e] = Avail[e] + Nothing(E)[e] /\ lost[e] \in Nat
  <2> SUFFICES ASSUME NEW e \in E PROVE Avail'[e] + lost[e] = Avail[e] + Nothing(E)[e] /\ lost[e] \in Nat
    OBVIOUS
  <2>1. GivesCredit(<<>>) /\ Applies(rows, <<>>) /\ entry' = entry \o <<>> /\ alloc' = alloc \o rows
    BY DEF CreditStep
  <2>2. /\ Taken(entry', CashOf(e)) = Taken(entry, CashOf(e)) /\ entry'[e] = entry[e]
        /\ Taken(alloc', SpentOf(entry', e)) = Taken(alloc, SpentOf(entry, e)) + Taken(rows, OfEntry(e))
    <3>1. e \in 1 .. Len(entry)
      BY <1>2
    <3> HIDE DEF E
    <3> QED BY <2>1, <3>1, CreditSpends
  <2>3. WalletSound'
    BY <1>1, InvWalletSoundNext
  <2>4. /\ Avail'[e] = entry'[e].amount - Taken(alloc', SpentOf(entry', e)) - Taken(entry', CashOf(e))
        /\ Avail[e] = entry[e].amount - Taken(alloc, SpentOf(entry, e)) - Taken(entry, CashOf(e))
        /\ Avail[e] \in Nat /\ Avail'[e] \in Nat
    BY <1>1, <2>3 DEF WalletSound
  <2>5. lost[e] = Taken(rows, OfEntry(e)) /\ lost[e] \in Nat /\ Nothing(E)[e] = 0
    BY <1>4, TakenNat DEF Nothing
  <2>6. entry[e].amount \in Nat /\ Taken(alloc, SpentOf(entry, e)) \in Nat /\ Taken(entry, CashOf(e)) \in Nat
    BY CreditFacts
  <2> DEFINE a == entry[e].amount  s == Taken(alloc, SpentOf(entry, e))  x == Taken(entry, CashOf(e))
             t == lost[e]  f == Avail[e]  g == Avail'[e]
  <2>7. a \in Nat /\ s \in Nat /\ x \in Nat /\ t \in Nat /\ f = a - s - x /\ g = a - (s + t) - x
    BY <2>2, <2>4, <2>5, <2>6
  <2> HIDE DEF a, s, x, t, f, g
  <2>8. g + t = f + 0
    BY <2>7
  <2> QED BY <2>5, <2>8 DEF f, g, t
<1>10. CreditsIn(entry') = E
  OBVIOUS
<1>11. NatOn(lost, E) /\ NatOn(Nothing(E), E) /\ SumFunctionOnSet(Nothing(E), E) = 0
  BY <1>2, <1>9, NothingSums DEF NatOn
<1>12. E = CreditsIn(entry)
  OBVIOUS
<1>13. \A e \in E : Avail'[e] + lost[e] = Avail[e] + Nothing(E)[e]
  BY <1>9
<1> HIDE DEF E, lost
<1>15. NatOn(lost, E) /\ NatOn(Nothing(E), E)
  BY <1>11
<1>16. /\ RawWallet' + SumFunctionOnSet(lost, E) = RawWallet + SumFunctionOnSet(Nothing(E), E)
       /\ RawWallet \in Nat /\ RawWallet' \in Nat /\ Wallet = RawWallet /\ Wallet' = RawWallet'
  BY <1>1, <1>10, <1>12, <1>13, <1>15, WalletMoves
<1>14. RawWallet' + n = RawWallet + 0 /\ RawWallet \in Nat /\ RawWallet' \in Nat /\ Wallet = RawWallet
         /\ Wallet' = RawWallet'
  BY <1>8, <1>11, <1>16
<1> DEFINE w == Wallet  v == Wallet'
<1>17. n \in Nat /\ w \in Nat /\ v \in Nat /\ v + n = w + 0
  BY <1>2, <1>14
<1> HIDE DEF w, v
<1>18. v = w - n
  BY <1>17
<1> QED BY <1>7, <1>18 DEF w, v

\* allocate_course_credit and allocate_credit check their amount against three account-wide sums and
\* then draw on single entries, oldest first (_apply_credit): they find all of it, so the amount they
\* answer is what the wallet and the enrollment's debt lose.
THEOREM LedgerCreditLands == Spec => CreditLandsInFull
<1> DEFINE A == entry' = entry /\ alloc' # alloc =>
                  \A n \in Sums : \A enr \in Enrollment :
                    (AllocateToCourse(enr, n) \/ \E c \in ChargesOf(enr, {"open"}) : AllocateToCharge(c, n)) =>
                      Wallet' = Wallet - n /\ DebtOf(enr)' = DebtOf(enr) - n
<1>1. LedgerInv /\ [Next]_vars => [A]_vars
  <2> SUFFICES ASSUME LedgerInv, NEW n \in Sums, NEW enr \in Enrollment
               PROVE  /\ AllocateToCourse(enr, n) => Wallet' = Wallet - n /\ DebtOf(enr)' = DebtOf(enr) - n
                      /\ \A c \in ChargesOf(enr, {"open"}) :
                           AllocateToCharge(c, n) => Wallet' = Wallet - n /\ DebtOf(enr)' = DebtOf(enr) - n
    OBVIOUS
  <2>1. n \in Nat /\ DebtSound(enr)
    BY SumsPositive, InvDebtSound
  <2>2. ASSUME AllocateToCourse(enr, n) PROVE Wallet' = Wallet - n /\ DebtOf(enr)' = DebtOf(enr) - n
    <3> DEFINE C == LiveCharges(enr)
    <3>1. PICK rows : CreditStep(<<>>, rows) /\ Allocated(rows, C, n) /\ entry' = entry
                        /\ alloc' = alloc \o rows
      BY <2>1, <2>2, ToCourseGives DEF LiveCharges
    <3>2. n <= Wallet /\ n <= SumFunctionOnSet(Rem, C)
      <4>1. n <= Wallet /\ n <= DebtOf(enr)
        BY <2>2 DEF AllocateToCourse, DebtOf
      <4> QED BY <2>1, <4>1 DEF DebtSound
    <3>3. C \in SUBSET LiveCharges(enr)
      OBVIOUS
    <3> HIDE DEF C
    <3> QED BY <3>1, <3>2, <3>3, AllocationLands
  <2>3. ASSUME NEW c \in ChargesOf(enr, {"open"}), AllocateToCharge(c, n)
        PROVE  Wallet' = Wallet - n /\ DebtOf(enr)' = DebtOf(enr) - n
    <3> DEFINE C == {c}
    <3>1. c \in 1 .. Len(charge) /\ C \in SUBSET LiveCharges(enr)
      BY InvTables DEF ChargesOf, LiveCharges
    <3>2. PICK rows : CreditStep(<<>>, rows) /\ Allocated(rows, C, n) /\ entry' = entry
                        /\ alloc' = alloc \o rows
      BY <2>1, <2>3, <3>1, ToChargeGives
    <3>3. n <= Wallet /\ n <= SumFunctionOnSet(Rem, C)
      <4>1. n <= Wallet /\ n <= Remaining(c)
        BY <2>3 DEF AllocateToCharge
      <4>2. Rem[c] = Remaining(c) /\ Rem[c] \in Int
        BY <2>1, <3>1 DEF DebtSound, Rem
      <4>3. SumFunctionOnSet(Rem, {c}) = Rem[c]
        BY <4>2, SumSingle
      <4> QED BY <4>1, <4>2, <4>3
    <3> HIDE DEF C
    <3> QED BY <3>1, <3>2, <3>3, AllocationLands
  <2> QED BY <2>2, <2>3
<1> HIDE DEF A
<1>2. Spec => [][A]_vars
  BY <1>1, LedgerIsSound, PTL DEF Spec
<1> QED BY <1>2 DEF CreditLandsInFull, A

-----------------------------------------------------------------------------
(* A payment lands on its targets.                                         *)

\* What of a payment goes to an enrollment.
TargetOf(targets, enr) == IF enr \in DOMAIN targets THEN targets[enr] ELSE 0

\* The rows of a payment give every target what it was to have, and use the payment up.
LEMMA PaymentTaken ==
  ASSUME LedgerInv, NEW targets \in Targets, TargetsFit(targets), NEW rows, PaidOut(rows, NextEntry, targets),
         \A x \in DOMAIN targets : targets[x] <= OpenBalance(x)
  PROVE  /\ \A x : Taken(rows, OnEnr(x)) = TargetOf(targets, x)
         /\ Taken(rows, AllocRec) = SumFunction(targets)
<1> DEFINE T == DOMAIN targets  K == [x \in T |-> OnEnr(x)]  M == AllocRec
<1>1. IsFiniteSet(T) /\ SumFunction(targets) = SumFunctionOnSet(targets, T)
  BY TargetsSum
<1>2. /\ rows \in Seq(AllocRec) /\ HaveAmounts(AllocRec)
      /\ \A i \in 1 .. Len(rows) : rows[i] \in AllocRec /\ charge[rows[i].charge].enr \in T
  <2>1. rows \in Seq(AllocRec) /\ \A i \in 1 .. Len(rows) : rows[i].charge \in TargetCharges(targets)
    BY DEF PaidOut
  <2>2. \A c \in TargetCharges(targets) : charge[c].enr \in T
    BY InvTables, TargetChargesOpen
  <2> QED BY <2>1, <2>2, RowTypes
<1>3. \A x \in T : targets[x] = Taken(rows, K[x])
  <2>1. Tables(charge, entry, alloc)
    BY InvTables
  <2>2. \A x \in DOMAIN targets : Taken(rows, OnEnr(x)) = targets[x]
    BY <2>1, PaymentExact
  <2> QED BY <2>2
<1>4. \A j \in 1 .. Len(rows) :
        /\ rows[j] \in M <=> \E x \in T : rows[j] \in K[x]
        /\ \A x, y \in T : rows[j] \in K[x] /\ rows[j] \in K[y] => x = y
  <2>1. \A j \in 1 .. Len(rows), x \in T : rows[j] \in K[x] <=> charge[rows[j].charge].enr = x
    BY <1>2 DEF OnEnr
  <2> HIDE DEF T, K
  <2> QED BY <2>1, <1>2
<1>5. ASSUME NEW x PROVE Taken(rows, OnEnr(x)) = TargetOf(targets, x)
  <2>1. CASE x \in T
    BY <1>3, <2>1 DEF TargetOf
  <2>2. CASE x \notin T
    <3>1. \A j \in 1 .. Len(rows) : rows[j] \notin OnEnr(x)
      BY <1>2, <2>2 DEF OnEnr
    <3>2. Taken(rows, OnEnr(x)) = 0
      BY <1>2, <3>1, TakenNone
    <3> QED BY <2>2, <3>2 DEF TargetOf
  <2> QED BY <2>1, <2>2
<1>6. rows \in Seq(AllocRec) /\ HaveAmounts(AllocRec)
  BY <1>2
<1> HIDE DEF T, K, M
<1>7. SumFunctionOnSet(targets, T) = Taken(rows, M)
  BY <1>1, <1>3, <1>4, <1>6, TakenClasses
<1> QED BY <1>1, <1>5, <1>7 DEF M

\* Nothing of an entry that is written now has been spent, refunded or voided.
LEMMA NewIsUnused ==
  ASSUME LedgerInv
  PROVE  ~VoidedIn(entry, NextEntry)
<1>1. References(charge, entry, alloc) /\ entry \in Seq(EntryRec) /\ Len(entry) \in Nat
        /\ DOMAIN entry = 1 .. Len(entry)
  BY InvTables DEF LedgerInv
<1>2. \A v \in 1 .. Len(entry) : entry[v].reverses <= Len(entry) /\ entry[v].reverses \in Nat
  BY <1>1, EntryFacts DEF References
<1> QED BY <1>1, <1>2 DEF VoidedIn, NextEntry

\* A payment enters one entry, leaves the wallet and takes the debts of its targets down.
LEMMA PaymentLands ==
  ASSUME LedgerInv, NEW targets \in Targets, NEW month \in AccountingMonths, Pay(targets, month)
  PROVE  /\ New = {NextEntry} /\ entry'[NextEntry].targets = targets
         /\ Wallet' = Wallet
         /\ \A x : DebtOf(x)' = DebtOf(x) - TargetOf(targets, x)
<1>1. PICK new, rows :
        /\ CreditStep(<<new>>, rows) /\ PaidOut(rows, NextEntry, targets) /\ TargetsFit(targets)
        /\ new.type = "payment" /\ new.amount = SumFunction(targets) /\ new.targets = targets
  BY PayGives
<1>2. GivesCredit(<<new>>) /\ Applies(rows, <<new>>) /\ entry' = entry \o <<new>> /\ alloc' = alloc \o rows
  BY <1>1 DEF CreditStep
<1>3. New = {NextEntry} /\ entry'[NextEntry] = new /\ Len(entry') = NextEntry
  BY <1>2, OneEntered
<1>4. /\ \A x : Taken(rows, OnEnr(x)) = TargetOf(targets, x)
      /\ Taken(rows, AllocRec) = new.amount
  <2>1. \A x \in DOMAIN targets : targets[x] <= OpenBalance(x)
    BY DEF Pay
  <2> QED BY <1>1, <2>1, PaymentTaken
<1>5. \A x : DebtOf(x)' = DebtOf(x) - TargetOf(targets, x)
  BY <1>1, <1>4, DebtFalls
<1>6. LedgerInv' /\ WalletSound /\ WalletSound'
  <2>1. LedgerInv'
    BY <1>1, CreditStepKeeps
  <2> QED BY <2>1, InvWalletSound, InvWalletSoundNext
<1> DEFINE E == CreditsIn(entry)
<1>7. /\ \A e : VoidedIn(entry', e) <=> VoidedIn(entry, e)
      /\ \A e \in 1 .. Len(entry) :
           /\ entry'[e] = entry[e] /\ Taken(entry', CashOf(e)) = Taken(entry, CashOf(e))
           /\ Taken(alloc', SpentOf(entry', e)) = Taken(alloc, SpentOf(entry, e)) + Taken(rows, OfEntry(e))
  BY <1>2, CreditSpends
<1>8. E \subseteq 1 .. Len(entry) /\ IsFiniteSet(E) /\ NextEntry \notin E
  <2>1. E \subseteq 1 .. Len(entry) /\ IsFiniteSet(E)
    BY <1>6 DEF WalletSound
  <2> HIDE DEF E
  <2> QED BY <2>1, InvTables DEF NextEntry
<1>9. CreditsIn(entry') = E \cup {NextEntry}
  <2>1. DOMAIN entry = 1 .. Len(entry) /\ Len(entry) \in Nat /\ NextEntry = Len(entry) + 1
    BY InvTables DEF NextEntry
  <2>2. DOMAIN entry' = (1 .. Len(entry)) \cup {NextEntry}
    <3>1. DOMAIN entry' = 1 .. Len(entry')
      BY <1>6 DEF LedgerInv, Tables
    <3> QED BY <1>3, <2>1, <3>1
  <2>3. ~VoidedIn(entry', NextEntry)
    BY <1>7, NewIsUnused
  <2> QED BY <1>1, <1>3, <1>7, <2>1, <2>2, <2>3 DEF CreditsIn
<1>10. \A e \in E : Avail'[e] = Avail[e] /\ Avail'[e] \in Int
  <2> SUFFICES ASSUME NEW e \in E PROVE Avail'[e] = Avail[e] /\ Avail'[e] \in Int
    OBVIOUS
  <2>1. Taken(rows, OfEntry(e)) = 0
    <3>1. \A j \in 1 .. Len(rows) : rows[j] \notin OfEntry(e)
      BY <1>1, <1>8 DEF PaidOut, OfEntry
    <3>2. rows \in Seq(AllocRec)
      BY <1>1 DEF PaidOut
    <3> QED BY <3>1, <3>2, RowTypes, TakenNone
  <2>2. e \in 1 .. Len(entry) /\ e \in CreditsIn(entry') /\ Taken(alloc, SpentOf(entry, e)) \in Nat
    BY <1>8, <1>9, CreditFacts
  <2>3. Taken(alloc', SpentOf(entry', e)) = Taken(alloc, SpentOf(entry, e)) /\ entry'[e] = entry[e]
        /\ Taken(entry', CashOf(e)) = Taken(entry, CashOf(e))
    BY <1>7, <2>1, <2>2
  <2>4. /\ Avail'[e] = entry'[e].amount - Taken(alloc', SpentOf(entry', e)) - Taken(entry', CashOf(e))
        /\ Avail[e] = entry[e].amount - Taken(alloc, SpentOf(entry, e)) - Taken(entry, CashOf(e))
        /\ Avail'[e] \in Nat
    BY <1>6, <2>2 DEF WalletSound
  <2> QED BY <2>3, <2>4
<1>11. Avail'[NextEntry] = 0
  <2> DEFINE a == new.amount  s == Taken(alloc', SpentOf(entry', NextEntry))
             x == Taken(entry', CashOf(NextEntry))
             f == Avail'[NextEntry]
  <2>1. f = a - s - x /\ f \in Nat
    BY <1>3, <1>6, <1>9 DEF WalletSound
  <2>2. rows \in Seq(AllocRec) /\ alloc \in Seq(AllocRec) /\ alloc' \in Seq(AllocRec)
          /\ entry' \in Seq(EntryRec)
    BY <1>1, <1>6, InvTables DEF PaidOut, LedgerInv, Tables
  <2>3. s \in Nat /\ x \in Nat
    BY <2>2, RowTypes, TakenNat
  <2>4. s >= a /\ a \in Nat
    <3>1. Taken(alloc', SpentOf(entry', NextEntry)) = Taken(alloc, SpentOf(entry', NextEntry)) + Taken(rows, SpentOf(entry', NextEntry))
      BY <1>2, <2>2, RowTypes, TakenConcat
    <3>2. \A j \in 1 .. Len(rows) : rows[j] \in AllocRec <=> rows[j] \in SpentOf(entry', NextEntry)
      BY <1>1 DEF PaidOut, SpentOf, ConsumesIn
    <3>3. Taken(rows, SpentOf(entry', NextEntry)) = Taken(rows, AllocRec)
      BY <2>2, <3>2, RowTypes, TakenSame
    <3>4. Taken(alloc, SpentOf(entry', NextEntry)) \in Nat /\ Taken(rows, AllocRec) \in Nat
      BY <2>2, RowTypes, TakenNat
    <3> QED BY <1>4, <3>1, <3>3, <3>4
  <2> HIDE DEF a, s, x, f
  <2>5. f = 0
    BY <2>1, <2>3, <2>4
  <2> QED BY <2>5 DEF f
<1>12. RawWallet' = RawWallet
  <2> DEFINE f == Avail  g == Avail'
  <2>1. RawWallet = SumFunctionOnSet(f, E) /\ RawWallet' = SumFunctionOnSet(g, E \cup {NextEntry})
    BY <1>6, <1>9 DEF WalletSound
  <2>2. IntOn(g, E \cup {NextEntry}) /\ IntOn(g, E) /\ \A e \in E : g[e] = f[e]
    BY <1>10, <1>11 DEF IntOn
  <2>3. g[NextEntry] = 0
    BY <1>11
  <2> HIDE DEF E, f, g
  <2>4. SumFunctionOnSet(g, E \cup {NextEntry}) = g[NextEntry] + SumFunctionOnSet(g, E)
    BY <1>8, <2>2, SumAdd
  <2>5. SumFunctionOnSet(g, E) = SumFunctionOnSet(f, E) /\ SumFunctionOnSet(g, E) \in Int
    BY <1>8, <2>2, SumSame, SumType
  <2> QED BY <2>1, <2>3, <2>4, <2>5
<1>13. Wallet' = Wallet
  BY <1>6, <1>12 DEF WalletSound
<1> QED BY <1>1, <1>3, <1>5, <1>13

\* create_payment: however the open charges of several targets interleave in due order, each target's
\* debt falls by its own amount to the unit, no other debt changes and nothing is left for the wallet.
THEOREM LedgerPaymentLands == Spec => PaymentLandsOnTargets
<1> DEFINE A == \A p \in New : entry'[p].type = "payment" =>
                  /\ Wallet' = Wallet
                  /\ \A enr \in Enrollment :
                       LET targets == entry'[p].targets
                       IN DebtOf(enr)' = DebtOf(enr) - (IF enr \in DOMAIN targets THEN targets[enr] ELSE 0)
<1>1. LedgerInv /\ [Next]_vars => [A]_vars
  <2> SUFFICES ASSUME LedgerInv, [Next]_vars, NEW p \in New, entry'[p].type = "payment"
               PROVE  Wallet' = Wallet /\ \A enr : DebtOf(enr)' = DebtOf(enr) - TargetOf(entry'[p].targets, enr)
    BY DEF TargetOf
  <2>1. Enters("payment")
    BY EntriesEntered
  <2>2. PICK targets \in Targets, month \in AccountingMonths : Pay(targets, month)
    BY <2>1 DEF Enters
  <2> QED BY <2>2, PaymentLands
<1> HIDE DEF A
<1>2. Spec => [][A]_vars
  BY <1>1, LedgerIsSound, PTL DEF Spec
<1> QED BY <1>2 DEF PaymentLandsOnTargets, A

-----------------------------------------------------------------------------
(* Reversals are exact.                                                    *)

\* What a reversal does to the single credits.
LEMMA ReversalAvail ==
  ASSUME LedgerInv, NEW type, NEW p, NEW n, NEW cash, ReversalStep(type, p, n, cash)
  PROVE  /\ LedgerInv' /\ WalletSound /\ WalletSound' /\ p \in CreditsIn(entry) /\ n \in Nat
         /\ CreditsIn(entry') = IF type = "void" THEN CreditsIn(entry) \ {p} ELSE CreditsIn(entry)
         /\ \A e \in CreditsIn(entry') :
              Avail'[e] + (IF e = p /\ type = "refund" /\ cash THEN n ELSE 0)
                = Avail[e] + (IF e = p THEN Least(n, Taken(alloc, LiveOf(p))) ELSE 0)
<1>1. LedgerInv' /\ WalletSound /\ WalletSound'
  <2>1. LedgerInv'
    BY ReversalKeeps
  <2> QED BY <2>1, InvWalletSound, InvWalletSoundNext
<1>2. /\ p \in 1 .. Len(entry) /\ entry[p].type = "payment" /\ ~VoidedIn(entry, p) /\ n \in Nat
      /\ type \in {"void", "refund"} /\ Len(entry') = NextEntry /\ Longer(entry, entry')
      /\ entry'[NextEntry].type = type
  BY DEF ReversalStep, Positive
<1>3. p \in CreditsIn(entry)
  BY <1>2, InvTables DEF CreditsIn
<1>4. /\ \A e : VoidedIn(entry', e) <=> VoidedIn(entry, e) \/ (type = "void" /\ e = p)
      /\ \A e : e # p => Taken(entry', CashOf(e)) = Taken(entry, CashOf(e))
      /\ Taken(entry', CashOf(p)) = Taken(entry, CashOf(p)) + IF type = "refund" /\ cash THEN n ELSE 0
  BY ReversalEnters
<1>5. CreditsIn(entry') = IF type = "void" THEN CreditsIn(entry) \ {p} ELSE CreditsIn(entry)
  <2>1. DOMAIN entry = 1 .. Len(entry) /\ Len(entry) \in Nat /\ NextEntry = Len(entry) + 1
    BY InvTables DEF NextEntry
  <2>2. DOMAIN entry' = (1 .. Len(entry)) \cup {NextEntry}
    <3>1. DOMAIN entry' = 1 .. Len(entry')
      BY <1>1 DEF LedgerInv, Tables
    <3> QED BY <1>2, <2>1, <3>1
  <2>3. \A e \in 1 .. Len(entry) : entry'[e] = entry[e]
    BY <1>2 DEF Longer
  <2>4. entry'[NextEntry].type \notin {"payment", "adjustment"}
    BY <1>2
  <2> QED BY <1>4, <2>1, <2>2, <2>3, <2>4 DEF CreditsIn
<1>6. ASSUME NEW e \in CreditsIn(entry')
      PROVE  Avail'[e] + (IF e = p /\ type = "refund" /\ cash THEN n ELSE 0)
               = Avail[e] + (IF e = p THEN Least(n, Taken(alloc, LiveOf(p))) ELSE 0)
  <2> DEFINE a == entry[e].amount  s == Taken(alloc, SpentOf(entry, e))  x == Taken(entry, CashOf(e))
             f == Avail[e]  g == Avail'[e]  back == IF e = p THEN Least(n, Taken(alloc, LiveOf(p))) ELSE 0
             out == IF e = p /\ type = "refund" /\ cash THEN n ELSE 0
             s2 == Taken(alloc', SpentOf(entry', e))  x2 == Taken(entry', CashOf(e))
  <2>1. e \in CreditsIn(entry) /\ e \in 1 .. Len(entry)
    BY <1>1, <1>5 DEF WalletSound
  <2>2. s2 = s - back
    BY <2>1, ReversalSpends
  <2>3. x2 = x + out
    <3>1. CASE e = p
      BY <1>4, <3>1
    <3>2. CASE e # p
      <4>1. x2 = x /\ out = 0
        BY <1>4, <3>2
      <4>2. x \in Nat
        BY InvTables, RowTypes, TakenNat
      <4> HIDE DEF x, x2, out
      <4> QED BY <4>1, <4>2
    <3> QED BY <3>1, <3>2
  <2>4. f = a - s - x /\ f \in Nat
    BY <1>1, <2>1 DEF WalletSound
  <2>5. g = a - s2 - x2 /\ g \in Nat
    <3>1. entry'[e] = entry[e]
      BY <1>2, <2>1 DEF Longer
    <3> QED BY <1>1, <3>1 DEF WalletSound
  <2>6. a \in Nat /\ s \in Nat /\ x \in Nat /\ back \in Nat /\ out \in Nat
    <3>1. a \in Nat /\ s \in Nat /\ x \in Nat
      BY <2>1, CreditFacts
    <3>2. Taken(alloc, LiveOf(p)) \in Nat
      BY InvTables, RowTypes, TakenNat
    <3> QED BY <1>2, <3>1, <3>2 DEF Least
  <2> HIDE DEF a, s, x, f, g, back, out, s2, x2
  <2>7. g + out = f + back
    BY <2>2, <2>3, <2>4, <2>5, <2>6
  <2> QED BY <2>7 DEF g, out, f, back
<1> QED BY <1>1, <1>2, <1>3, <1>5, <1>6

\* A void takes the payment's credit away.
LEMMA VoidTakes ==
  ASSUME LedgerInv, NEW p, NEW n, NEW cash, ReversalStep("void", p, n, cash)
  PROVE  Applied(p)' = 0 /\ RawWallet' = RawWallet - Available(p)
<1> DEFINE E == CreditsIn(entry)  f == Avail  g == Avail'
<1>1. LedgerInv' /\ WalletSound /\ WalletSound' /\ p \in E /\ CreditsIn(entry') = E \ {p} /\ n \in Nat
  BY ReversalAvail
<1>2. Applied(p)' = 0
  <2>1. Tables(charge, entry, alloc)'
    BY <1>1 DEF LedgerInv
  <2>2. BalanceKinds'
    BY <2>1, BalancesNext
  <2>3. Applied(p)' = Taken(alloc', LiveOf(p))
    BY <2>2 DEF BalanceKinds
  <2> QED BY <2>3, VoidEmpties
<1>3. \A e \in E \ {p} : g[e] = f[e] /\ f[e] \in Int
  <2> SUFFICES ASSUME NEW e \in E \ {p} PROVE g[e] = f[e] /\ f[e] \in Int
    OBVIOUS
  <2>1. e \in CreditsIn(entry') /\ e # p
    BY <1>1
  <2>2. Avail'[e] + 0 = Avail[e] + 0
    BY <2>1, ReversalAvail
  <2>3. Avail'[e] \in Nat /\ Avail[e] \in Nat
    BY <1>1, <2>1 DEF WalletSound
  <2> QED BY <2>2, <2>3
<1>4. /\ RawWallet = SumFunctionOnSet(f, E) /\ RawWallet' = SumFunctionOnSet(g, E \ {p})
      /\ IsFiniteSet(E) /\ IntOn(f, E) /\ f[p] = Available(p) /\ f[p] \in Int
  BY <1>1 DEF WalletSound, IntOn, Avail
<1>5. IntOn(f, E \ {p}) /\ IsFiniteSet(E \ {p})
  BY <1>4, FS_Subset DEF IntOn
<1> HIDE DEF E, f, g
<1>6. SumFunctionOnSet(f, E) = f[p] + SumFunctionOnSet(f, E \ {p})
  BY <1>1, <1>4, SumRemove
<1>7. SumFunctionOnSet(f, E \ {p}) = SumFunctionOnSet(g, E \ {p}) /\ SumFunctionOnSet(f, E \ {p}) \in Int
  BY <1>3, <1>5, SumSame, SumType
<1> DEFINE w == RawWallet  v == RawWallet'  a == f[p]  r == SumFunctionOnSet(f, E \ {p})
<1>8. w = a + r /\ v = r /\ a \in Int /\ r \in Int
  BY <1>4, <1>6, <1>7
<1> HIDE DEF w, v, a, r
<1>9. v = w - a
  BY <1>8
<1> QED BY <1>2, <1>4, <1>9 DEF w, v, a

\* A refund returns what it un-applies to the wallet and takes the cash it pays out of it.
LEMMA RefundTakes ==
  ASSUME LedgerInv, NEW p, NEW n, NEW cash, ReversalStep("refund", p, n, cash)
  PROVE  /\ Applied(p)' = Applied(p) - Least(n, Applied(p))
         /\ RawWallet' = RawWallet + Least(n, Applied(p)) - (IF cash THEN n ELSE 0)
<1> DEFINE E == CreditsIn(entry)  back == Least(n, Taken(alloc, LiveOf(p)))  out == IF cash THEN n ELSE 0
           lost == Only(E, p, out)  gained == Only(E, p, back)
<1>1. LedgerInv' /\ WalletSound /\ p \in E /\ CreditsIn(entry') = E /\ n \in Nat
  BY ReversalAvail
<1>2. Applied(p) = Taken(alloc, LiveOf(p)) /\ Applied(p)' = Taken(alloc', LiveOf(p))
  <2>1. Tables(charge, entry, alloc)' /\ BalanceKinds
    BY <1>1, InvTables DEF LedgerInv
  <2>2. BalanceKinds'
    BY <2>1, BalancesNext
  <2> QED BY <2>1, <2>2 DEF BalanceKinds
<1>3. Applied(p)' = Applied(p) - Least(n, Applied(p))
  <2>1. Taken(alloc', LiveOf(p)) = Taken(alloc, LiveOf(p)) - Least(n, Taken(alloc, LiveOf(p)))
    BY DEF ReversalStep
  <2> QED BY <1>2, <2>1
<1>4. back \in Nat /\ out \in Nat
  <2>1. Taken(alloc, LiveOf(p)) \in Nat
    BY InvTables, RowTypes, TakenNat
  <2> QED BY <1>1, <2>1 DEF Least
<1>5. \A e \in E : Avail'[e] + lost[e] = Avail[e] + gained[e]
  <2> SUFFICES ASSUME NEW e \in E PROVE Avail'[e] + lost[e] = Avail[e] + gained[e]
    OBVIOUS
  <2>1. e \in CreditsIn(entry')
    BY <1>1
  <2>2. Avail'[e] + (IF e = p /\ cash THEN n ELSE 0) = Avail[e] + (IF e = p THEN back ELSE 0)
    BY <2>1, ReversalAvail
  <2>3. lost[e] = (IF e = p /\ cash THEN n ELSE 0) /\ gained[e] = IF e = p THEN back ELSE 0
    BY DEF Only
  <2> HIDE DEF lost, gained, back
  <2> QED BY <2>2, <2>3
<1>6. IsFiniteSet(E) /\ E = CreditsIn(entry)
  BY <1>1 DEF WalletSound
<1>7. /\ SumFunctionOnSet(lost, E) = out /\ NatOn(lost, E)
      /\ SumFunctionOnSet(gained, E) = back /\ NatOn(gained, E)
  <2> HIDE DEF E, back, out
  <2> QED BY <1>1, <1>4, <1>6, OnlySums
<1>8. /\ RawWallet' + SumFunctionOnSet(lost, E) = RawWallet + SumFunctionOnSet(gained, E)
      /\ RawWallet \in Nat /\ RawWallet' \in Nat
  <2> HIDE DEF E, lost, gained
  <2> QED BY <1>1, <1>5, <1>6, <1>7, WalletMoves
<1> DEFINE w == RawWallet  v == RawWallet'
<1>9. v + out = w + back /\ w \in Nat /\ v \in Nat
  BY <1>7, <1>8
<1> HIDE DEF w, v, out, back, lost, gained
<1>10. v = w + back - out
  BY <1>4, <1>9
<1> QED BY <1>2, <1>3, <1>10 DEF w, v, out, back

\* void_payment and refund_payment, through _reverse_allocations with its stamped rows and survivors:
\* what is un-applied is what is reversed or all that is applied, whichever is less, after any
\* earlier refunds and re-allocations.
THEOREM LedgerReversesExactly == Spec => ReversalsAreExact
<1> DEFINE A == \A r \in New, p \in DOMAIN entry : entry'[r].reverses = p =>
                  LET n == Least(entry'[r].amount, Applied(p)) IN
                  /\ entry'[r].type = "void" => Applied(p)' = 0 /\ RawWallet' = RawWallet - Available(p)
                  /\ entry'[r].type = "refund" =>
                       /\ Applied(p)' = Applied(p) - n
                       /\ RawWallet' = RawWallet + n - (IF entry'[r].cash THEN entry'[r].amount ELSE 0)
<1>1. LedgerInv /\ [Next]_vars => [A]_vars
  <2> SUFFICES ASSUME LedgerInv, [Next]_vars, NEW r \in New, NEW p \in DOMAIN entry, entry'[r].reverses = p
               PROVE  /\ entry'[r].type = "void" => Applied(p)' = 0 /\ RawWallet' = RawWallet - Available(p)
                      /\ entry'[r].type = "refund" =>
                           /\ Applied(p)' = Applied(p) - Least(entry'[r].amount, Applied(p))
                           /\ RawWallet' = RawWallet + Least(entry'[r].amount, Applied(p))
                                             - (IF entry'[r].cash THEN entry'[r].amount ELSE 0)
    OBVIOUS
  <2>1. Enters(entry'[r].type)
    BY EntriesEntered
  <2>2. ASSUME NEW type, NEW q, NEW n, NEW cash, ReversalStep(type, q, n, cash)
        PROVE  r = NextEntry /\ q = p /\ n = entry'[r].amount /\ cash = entry'[r].cash
    <3>1. /\ Len(entry') = NextEntry /\ entry'[NextEntry].amount = n /\ entry'[NextEntry].reverses = q
          /\ entry'[NextEntry].cash = cash
      BY <2>2 DEF ReversalStep
    <3>2. r = NextEntry
      BY <3>1, InvTables DEF New, NextEntry
    <3> QED BY <3>1, <3>2
  <2>3. ASSUME entry'[r].type = "void" PROVE Applied(p)' = 0 /\ RawWallet' = RawWallet - Available(p)
    <3>1. PICK q \in DOMAIN entry : Void(q)
      BY <2>1, <2>3 DEF Enters
    <3>2. ReversalStep("void", q, entry[q].amount, FALSE)
      BY <3>1, VoidReverses
    <3>3. q = p
      BY <2>2, <3>2
    <3> QED BY <3>2, <3>3, VoidTakes
  <2>4. ASSUME entry'[r].type = "refund"
        PROVE  /\ Applied(p)' = Applied(p) - Least(entry'[r].amount, Applied(p))
               /\ RawWallet' = RawWallet + Least(entry'[r].amount, Applied(p))
                                 - (IF entry'[r].cash THEN entry'[r].amount ELSE 0)
    <3>1. PICK q \in DOMAIN entry, n \in Sums, cash \in BOOLEAN : Refund(q, n, cash)
      BY <2>1, <2>4 DEF Enters
    <3>2. ReversalStep("refund", q, n, cash)
      BY <3>1, RefundReverses
    <3>3. q = p /\ n = entry'[r].amount /\ cash = entry'[r].cash
      BY <2>2, <3>2
    <3> QED BY <3>2, <3>3, RefundTakes
  <2> QED BY <2>3, <2>4
<1> HIDE DEF A
<1>2. Spec => [][A]_vars
  BY <1>1, LedgerIsSound, PTL DEF Spec
<1> QED BY <1>2 DEF ReversalsAreExact, A

-----------------------------------------------------------------------------
(* A withdrawal returns what payments had settled of the months not begun. *)

\* What payments had settled of the charges of gone.
PaidOn(gone) == {r \in AllocRec : r.by = 0 /\ entry[r.entry].type = "payment" /\ r.charge \in gone}

\* What an allocation of gone does not take back and what it does.
LEMMA FreedSplit ==
  ASSUME LedgerInv, NEW gone, NEW e \in CreditsIn(entry)
  PROVE  Taken(alloc, SpentOf(entry, e))
           = Taken(alloc, StillSpent(entry, e, gone)) + Taken(alloc, PaidOn(gone) \cap OfEntry(e))
<1>1. entry[e].type \in {"payment", "adjustment"} /\ alloc \in Seq(AllocRec)
  BY InvTables DEF CreditsIn
<1>2. \A j \in 1 .. Len(alloc) :
        /\ alloc[j] \in SpentOf(entry, e)
             <=> alloc[j] \in StillSpent(entry, e, gone) \/ alloc[j] \in PaidOn(gone) \cap OfEntry(e)
        /\ ~(alloc[j] \in StillSpent(entry, e, gone) /\ alloc[j] \in PaidOn(gone) \cap OfEntry(e))
  BY <1>1 DEF SpentOf, StillSpent, PaidOn, OfEntry, FreedKind, ConsumesIn
<1> DEFINE K == StillSpent(entry, e, gone)  L == PaidOn(gone) \cap OfEntry(e)  M == SpentOf(entry, e)
<1>3. \A j \in 1 .. Len(alloc) : /\ alloc[j] \in M <=> alloc[j] \in K \/ alloc[j] \in L
                                 /\ ~(alloc[j] \in K /\ alloc[j] \in L)
  BY <1>2
<1> HIDE DEF K, L, M
<1>4. Taken(alloc, M) = Taken(alloc, K) + Taken(alloc, L)
  BY <1>1, <1>3, RowTypes, TakenSplit
<1> QED BY <1>4 DEF K, L, M

\* All that is taken back, entry by entry.
LEMMA FreedByEntry ==
  ASSUME LedgerInv, NEW gone, NEW E, E = CreditsIn(entry), IsFiniteSet(E),
         NEW back, \A e \in E : back[e] = Taken(alloc, PaidOn(gone) \cap OfEntry(e))
  PROVE  SumFunctionOnSet(back, E) = Taken(alloc, PaidOn(gone))
<1> DEFINE K == [e \in E |-> PaidOn(gone) \cap OfEntry(e)]  M == PaidOn(gone)
<1>1. \A e \in E : back[e] = Taken(alloc, K[e])
  OBVIOUS
<1>2. \A j \in 1 .. Len(alloc) : alloc[j] \in M => alloc[j].entry \in E
  <2> SUFFICES ASSUME NEW j \in 1 .. Len(alloc), alloc[j] \in M PROVE alloc[j].entry \in E
    OBVIOUS
  <2>1. alloc[j].by = 0 /\ entry[alloc[j].entry].type = "payment"
    BY DEF PaidOn
  <2>2. alloc[j].entry \in 1 .. Len(entry) /\ ~VoidedIn(entry, alloc[j].entry)
    BY <2>1, RowRefers DEF LedgerInv, VoidsHold
  <2> QED BY <2>1, <2>2, InvTables DEF CreditsIn
<1>3. \A j \in 1 .. Len(alloc) :
        /\ alloc[j] \in M <=> \E e \in E : alloc[j] \in K[e]
        /\ \A d, e \in E : alloc[j] \in K[d] /\ alloc[j] \in K[e] => d = e
  <2>1. \A j \in 1 .. Len(alloc), e \in E : alloc[j] \in K[e] <=> alloc[j] \in M /\ alloc[j].entry = e
    BY DEF OfEntry, PaidOn
  <2> HIDE DEF K, M
  <2> QED BY <2>1, <1>2
<1>4. alloc \in Seq(AllocRec) /\ HaveAmounts(AllocRec)
  BY InvTables, RowTypes
<1> HIDE DEF K, M
<1>5. SumFunctionOnSet(back, E) = Taken(alloc, M)
  BY <1>1, <1>3, <1>4, TakenClasses
<1> QED BY <1>5 DEF M

\* The wallet after a withdrawal.
LEMMA FreeingReturns ==
  ASSUME LedgerInv, NEW gone, FreeingStep(gone)
  PROVE  Wallet' = Wallet + Taken(alloc, PaidOn(gone))
<1> DEFINE E == CreditsIn(entry)  gained == [e \in E |-> Taken(alloc, PaidOn(gone) \cap OfEntry(e))]
<1>1. LedgerInv' /\ WalletSound /\ WalletSound'
  <2>1. LedgerInv'
    BY FreeingKeeps
  <2> QED BY <2>1, InvWalletSound, InvWalletSoundNext
<1>2. /\ Longer(entry, entry') /\ NoReversals(entry, entry')
      /\ \A e \in Len(entry) + 1 .. Len(entry') : entry'[e].type = "withdrawal"
  BY DEF FreeingStep
<1>3. \A e : (VoidedIn(entry', e) <=> VoidedIn(entry, e)) /\ Taken(entry', CashOf(e)) = Taken(entry, CashOf(e))
  BY <1>2, NoReversalKeeps
<1>4. CreditsIn(entry') = E
  <2>1. DOMAIN entry = 1 .. Len(entry) /\ Len(entry) \in Nat
    BY InvTables
  <2>2. DOMAIN entry' = 1 .. Len(entry') /\ Len(entry') \in Nat
    BY <1>1 DEF LedgerInv, Tables
  <2>3. Len(entry') >= Len(entry) /\ \A e \in 1 .. Len(entry) : entry'[e] = entry[e]
    BY <1>2 DEF Longer
  <2>4. \A e \in 1 .. Len(entry') : e \in 1 .. Len(entry) \/ e \in Len(entry) + 1 .. Len(entry')
    BY <2>1, <2>2
  <2>5. \A e \in 1 .. Len(entry) : e \in 1 .. Len(entry')
    BY <2>1, <2>2, <2>3
  <2> QED BY <1>2, <1>3, <2>1, <2>2, <2>3, <2>4, <2>5 DEF CreditsIn
<1>5. E \subseteq 1 .. Len(entry) /\ IsFiniteSet(E)
  BY <1>1 DEF WalletSound
<1>6. \A e \in E : gained[e] \in Nat /\ Avail'[e] + Nothing(E)[e] = Avail[e] + gained[e]
  <2> SUFFICES ASSUME NEW e \in E PROVE gained[e] \in Nat /\ Avail'[e] + Nothing(E)[e] = Avail[e] + gained[e]
    OBVIOUS
  <2> DEFINE a == entry[e].amount  s == Taken(alloc, SpentOf(entry, e))  x == Taken(entry, CashOf(e))
             f == Avail[e]  g == Avail'[e]  t == gained[e]
             s2 == Taken(alloc', SpentOf(entry', e))  x2 == Taken(entry', CashOf(e))
  <2>1. e \in 1 .. Len(entry) /\ entry'[e] = entry[e]
    BY <1>2, <1>5 DEF Longer
  <2>2. s = s2 + t
    <3>1. s2 = Taken(alloc, StillSpent(entry, e, gone))
      BY <2>1, FreeingSpends
    <3>2. Taken(alloc, SpentOf(entry, e)) = Taken(alloc, StillSpent(entry, e, gone)) + Taken(alloc, PaidOn(gone) \cap OfEntry(e))
      BY FreedSplit
    <3> QED BY <3>1, <3>2
  <2>3. x2 = x
    BY <1>3
  <2>4. f = a - s - x /\ g = a - s2 - x2 /\ f \in Nat /\ g \in Nat
    BY <1>1, <1>4, <2>1 DEF WalletSound
  <2>5. a \in Nat /\ s \in Nat /\ x \in Nat
    BY CreditFacts
  <2>6. t \in Nat /\ s2 \in Nat
    <3>1. alloc \in Seq(AllocRec) /\ alloc' \in Seq(AllocRec)
      BY <1>1, InvTables DEF LedgerInv, Tables
    <3> QED BY <3>1, RowTypes, TakenNat
  <2>7. Nothing(E)[e] = 0
    BY DEF Nothing
  <2> HIDE DEF a, s, x, f, g, t, s2, x2
  <2>8. g + 0 = f + t
    BY <2>2, <2>3, <2>4, <2>5, <2>6
  <2> QED BY <2>6, <2>7, <2>8 DEF g, f, t
<1>7. NatOn(gained, E) /\ NatOn(Nothing(E), E) /\ SumFunctionOnSet(Nothing(E), E) = 0
  BY <1>5, <1>6, NothingSums DEF NatOn
<1>8. SumFunctionOnSet(gained, E) = Taken(alloc, PaidOn(gone))
  <2>1. \A e \in E : gained[e] = Taken(alloc, PaidOn(gone) \cap OfEntry(e))
    OBVIOUS
  <2>2. E = CreditsIn(entry)
    OBVIOUS
  <2> HIDE DEF E, gained
  <2> QED BY <1>5, <2>1, <2>2, FreedByEntry
<1>9. /\ RawWallet' + SumFunctionOnSet(Nothing(E), E) = RawWallet + SumFunctionOnSet(gained, E)
      /\ RawWallet \in Nat /\ RawWallet' \in Nat /\ Wallet = RawWallet /\ Wallet' = RawWallet'
  <2>1. E = CreditsIn(entry) /\ \A e \in E : Avail'[e] + Nothing(E)[e] = Avail[e] + gained[e]
    BY <1>6
  <2>2. NatOn(gained, E) /\ NatOn(Nothing(E), E)
    BY <1>7
  <2> HIDE DEF E, gained
  <2> QED BY <1>1, <1>4, <2>1, <2>2, WalletMoves
<1> DEFINE w == Wallet  v == Wallet'  t == Taken(alloc, PaidOn(gone))
<1>10. v + 0 = w + t /\ v \in Nat /\ w \in Nat
  BY <1>7, <1>8, <1>9
<1>11. t \in Nat
  BY InvTables, RowTypes, TakenNat
<1> HIDE DEF w, v, t
<1>12. v = w + t
  BY <1>10, <1>11
<1> QED BY <1>12 DEF w, v, t

\* Charges of months begun are not among those taken back.
LEMMA BegunStays ==
  ASSUME LedgerInv, NEW enr, NEW c \in Begun(enr)
  PROVE  c \in 1 .. Len(charge) /\ c \notin Future(enr)
<1>1. c \in 1 .. Len(charge) /\ ChargeStart(c) < today
  BY InvTables DEF Begun, ChargesOf
<1>2. ChargeStart(c) \in Int /\ today \in Int
  BY <1>1, InvTables, StartsAreDays, CalendarFacts DEF LedgerInv
<1> QED BY <1>1, <1>2 DEF Future

\* A withdrawal keeps the months begun and returns what payments had settled of the others.
LEMMA WithdrawReturns ==
  ASSUME LedgerInv, NEW enr \in Enrollment, Withdraw(enr)
  PROVE  /\ KeepsBegun(enr)
         /\ Wallet' = Wallet + Amount(alloc, LAMBDA r :
              /\ r.by = 0 /\ entry[r.entry].type = "payment"
              /\ charge[r.charge].enr = enr /\ ChargeStart(r.charge) >= today)
<1> DEFINE gone == Future(enr)
           M == {r \in AllocRec : /\ r.by = 0 /\ entry[r.entry].type = "payment"
                                  /\ charge[r.charge].enr = enr /\ ChargeStart(r.charge) >= today}
<1>1. FreeingStep(gone)
  BY WithdrawFrees
<1>2. alloc \in Seq(AllocRec) /\ DOMAIN alloc = 1 .. Len(alloc) /\ alloc' \in Seq(AllocRec)
  BY <1>1, InvTables DEF FreeingStep, FreedRows
<1>3. KeepsBegun(enr)
  <2> SUFFICES ASSUME NEW c \in Begun(enr)
               PROVE  charge'[c] = charge[c] /\ AllocatedTo(alloc', c) = AllocatedTo(alloc, c)
    BY DEF KeepsBegun
  <2>1. c \in 1 .. Len(charge) /\ c \notin gone
    BY BegunStays
  <2> HIDE DEF gone
  <2>2. charge'[c] = charge[c]
    BY <1>1, <2>1, FreeingKeeps
  <2>3. Taken(alloc', LiveOn(c)) = Taken(alloc, LiveOn(c))
    BY <1>1, <2>1, FreeingLives
  <2> QED BY <1>2, <2>2, <2>3, AllocationSums
<1>4. ASSUME NEW j \in 1 .. Len(alloc) PROVE alloc[j] \in PaidOn(gone) <=> alloc[j] \in M
  <2>1. alloc[j] \in AllocRec /\ alloc[j].charge \in 1 .. Len(charge)
    BY RowRefers DEF LedgerInv
  <2>2. alloc[j].by = 0 => charge[alloc[j].charge].status # "cancelled"
    <3> SUFFICES ASSUME alloc[j].by = 0, charge[alloc[j].charge].status = "cancelled" PROVE FALSE
      OBVIOUS
    <3>1. Taken(alloc, LiveOn(alloc[j].charge)) = 0
      BY <2>1, ChargeFacts DEF StatusSettled
    <3>2. alloc[j] \in LiveOn(alloc[j].charge) /\ alloc[j].amount > 0 /\ alloc[j].amount \in Nat
      BY <2>1, RowRefers DEF LedgerInv, LiveOn
    <3>3. alloc[j].amount <= Taken(alloc, LiveOn(alloc[j].charge))
      BY <1>2, <3>2, RowTypes, TakenSome
    <3> QED BY <3>1, <3>2, <3>3
  <2>3. charge[alloc[j].charge].status \in {"open", "settled", "cancelled"}
    BY <2>1, ChargeFacts DEF ChargeRec
  <2> QED BY <2>1, <2>2, <2>3, InvTables DEF PaidOn, Future, ChargesOf
<1>5. Taken(alloc, PaidOn(gone)) = Taken(alloc, M)
  <2> HIDE DEF M, gone
  <2> QED BY <1>2, <1>4, RowTypes, TakenSame
<1>6. Amount(alloc, LAMBDA r : /\ r.by = 0 /\ entry[r.entry].type = "payment"
                               /\ charge[r.charge].enr = enr
                                    /\ ChargeStart(r.charge) >= today) = Taken(alloc, M)
  <2>1. \A j \in DOMAIN alloc : alloc[j] \in AllocRec
    BY <1>2
  <2>2. {j \in DOMAIN alloc : /\ alloc[j].by = 0 /\ entry[alloc[j].entry].type = "payment"
                              /\ charge[alloc[j].charge].enr = enr /\ ChargeStart(alloc[j].charge) >= today}
          = {j \in DOMAIN alloc : alloc[j] \in M}
    BY <2>1
  <2> HIDE DEF M
  <2> QED BY <2>2 DEF Amount, Taken
<1>7. Wallet' = Wallet + Taken(alloc, PaidOn(gone))
  BY <1>1, FreeingReturns
<1> HIDE DEF gone, M
<1> QED BY <1>3, <1>5, <1>6, <1>7

\* withdraw_student: the wallet gains what payments had settled of the months not begun, an
\* adjustment's part stays spent, and the months begun keep their status and their allocations.
THEOREM LedgerReturnsPayments == Spec => WithdrawalReturnsPayments
<1> DEFINE A == \A enr \in Enrollment : enrollment[enr].status # "withdrawn" /\ enrollment'[enr].status = "withdrawn" =>
                  /\ KeepsBegun(enr)
                  /\ Wallet' = Wallet + Amount(alloc, LAMBDA r :
                       /\ r.by = 0 /\ entry[r.entry].type = "payment"
                       /\ charge[r.charge].enr = enr /\ ChargeStart(r.charge) >= today)
<1>1. LedgerInv /\ [Next]_vars => [A]_vars
  <2> SUFFICES ASSUME LedgerInv, [Next]_vars, NEW enr \in Enrollment,
                      enrollment[enr].status # "withdrawn", enrollment'[enr].status = "withdrawn"
               PROVE  Withdraw(enr)
    BY WithdrawReturns
  <2>1. enrollment \in [Enrollment -> EnrollmentRec]
    BY CalendarFacts
  <2>2. ~\E mode \in {"paid", "grant"} : Enroll(enr, mode)
    BY <2>1 DEF Enroll
  <2>3. ~ToGrant(enr) /\ ~ToPaid(enr)
    BY <2>1 DEF ToGrant, ToPaid, EnrollmentRec
  <2> QED BY <2>2, <2>3, EnrollmentChanges
<1> HIDE DEF A
<1>2. Spec => [][A]_vars
  BY <1>1, LedgerIsSound, PTL DEF Spec
<1> QED BY <1>2 DEF WithdrawalReturnsPayments, A

-----------------------------------------------------------------------------
(* The conversion to a grant clears the months not begun.                  *)

\* No credit moves.
LEMMA GrantMovesNothing ==
  ASSUME LedgerInv, NEW enr \in Enrollment, NEW more, NEW rows, GrantStep(enr, more, rows)
  PROVE  Wallet' = Wallet
<1> DEFINE E == CreditsIn(entry)
<1>1. LedgerInv' /\ WalletSound /\ WalletSound'
  <2>1. LedgerInv'
    BY GrantKeeps
  <2> QED BY <2>1, InvWalletSound, InvWalletSoundNext
<1>2. /\ GivesCredit(more) /\ Applies(rows, more) /\ entry' = entry \o more /\ alloc' = alloc \o rows
      /\ rows \in Seq(AllocRec) /\ \A i \in 1 .. Len(rows) : rows[i].entry > Len(entry)
      /\ more \in Seq(EntryRec) /\ \A k \in 1 .. Len(more) : more[k].type = "discount"
  BY DEF GrantStep, GivesCredit, Applies
<1>3. /\ Longer(entry, entry') /\ \A e : VoidedIn(entry', e) <=> VoidedIn(entry, e)
      /\ \A e \in 1 .. Len(entry) :
           /\ entry'[e] = entry[e] /\ Taken(entry', CashOf(e)) = Taken(entry, CashOf(e))
           /\ Taken(alloc', SpentOf(entry', e)) = Taken(alloc, SpentOf(entry, e)) + Taken(rows, OfEntry(e))
  BY <1>2, CreditSpends
<1>4. CreditsIn(entry') = E
  <2>1. DOMAIN entry = 1 .. Len(entry) /\ Len(entry) \in Nat /\ entry \in Seq(EntryRec)
    BY InvTables
  <2>2. DOMAIN entry' = 1 .. Len(entry') /\ Len(entry') \in Nat
    BY <1>1 DEF LedgerInv, Tables
  <2>3. \A e \in 1 .. Len(entry') : e \in 1 .. Len(entry) \/ e \in Len(entry) + 1 .. Len(entry')
    BY <2>1, <2>2
  <2>4. \A e \in 1 .. Len(entry) : e \in 1 .. Len(entry')
    BY <1>3, <2>1, <2>2 DEF Longer
  <2>5. \A e \in Len(entry) + 1 .. Len(entry') : entry'[e].type = "discount"
    BY <1>2, <2>1, LongerBy, SMTT(30)
  <2> QED BY <1>3, <2>1, <2>2, <2>3, <2>4, <2>5 DEF CreditsIn
<1>5. E \subseteq 1 .. Len(entry) /\ IsFiniteSet(E)
  BY <1>1 DEF WalletSound
<1>6. \A e \in E : Avail'[e] = Avail[e] /\ Avail'[e] \in Int
  <2> SUFFICES ASSUME NEW e \in E PROVE Avail'[e] = Avail[e] /\ Avail'[e] \in Int
    OBVIOUS
  <2>1. e \in 1 .. Len(entry) /\ Len(entry) \in Nat
    BY <1>5, InvTables
  <2>2. Taken(rows, OfEntry(e)) = 0
    <3>1. \A j \in 1 .. Len(rows) : rows[j] \notin OfEntry(e)
      BY <1>2, <2>1 DEF OfEntry
    <3> QED BY <1>2, <3>1, RowTypes, TakenNone
  <2>3. Taken(alloc, SpentOf(entry, e)) \in Nat
    BY CreditFacts
  <2>4. Taken(alloc', SpentOf(entry', e)) = Taken(alloc, SpentOf(entry, e))
    BY <1>3, <2>1, <2>2, <2>3
  <2>5. entry'[e] = entry[e] /\ Taken(entry', CashOf(e)) = Taken(entry, CashOf(e))
    BY <1>3, <2>1
  <2>6. /\ Avail'[e] = entry'[e].amount - Taken(alloc', SpentOf(entry', e)) - Taken(entry', CashOf(e))
        /\ Avail[e] = entry[e].amount - Taken(alloc, SpentOf(entry, e)) - Taken(entry, CashOf(e))
        /\ Avail'[e] \in Nat
    BY <1>1, <1>4 DEF WalletSound
  <2> QED BY <2>4, <2>5, <2>6
<1>7. RawWallet' = RawWallet
  <2> DEFINE f == Avail  g == Avail'
  <2>1. RawWallet = SumFunctionOnSet(f, E) /\ RawWallet' = SumFunctionOnSet(g, E)
    BY <1>1, <1>4 DEF WalletSound
  <2>2. IntOn(g, E) /\ \A e \in E : g[e] = f[e]
    BY <1>6 DEF IntOn
  <2> HIDE DEF E, f, g
  <2> QED BY <1>5, <2>1, <2>2, SumSame
<1> QED BY <1>1, <1>7 DEF WalletSound

\* The months begun are kept, the others cancelled or settled.
LEMMA GrantClears ==
  ASSUME LedgerInv, NEW enr \in Enrollment, ToGrant(enr)
  PROVE  /\ KeepsBegun(enr) /\ Wallet' = Wallet
         /\ \A c \in ChargesOf(enr, {"open", "settled"}) \ Begun(enr) :
              charge'[c].status = "cancelled" \/ Remaining(c)' = 0
<1>1. PICK more, rows : GrantStep(enr, more, rows)
  BY GrantGives
<1>2. /\ LedgerInv' /\ SameCharges(charge, charge')
      /\ \A c \in 1 .. Len(charge) :
           /\ Taken(alloc', LiveOn(c)) = Taken(alloc, LiveOn(c)) + Taken(rows, OnCharge(c))
           /\ c \in Future(enr) \ PaidFuture(enr) => charge'[c].status = "cancelled"
           /\ c \notin (Future(enr) \ PaidFuture(enr)) \cup PartlyPaid(enr) => charge'[c] = charge[c]
  BY <1>1, GrantKeeps
<1>3. rows \in Seq(AllocRec) /\ alloc \in Seq(AllocRec) /\ alloc' \in Seq(AllocRec)
  BY <1>1, <1>2, InvTables DEF GrantStep, Applies, LedgerInv, Tables
<1>4. \A c : c \notin PartlyPaid(enr) => Taken(rows, OnCharge(c)) = 0
  <2> SUFFICES ASSUME NEW c, c \notin PartlyPaid(enr) PROVE Taken(rows, OnCharge(c)) = 0
    OBVIOUS
  <2>1. \A j \in 1 .. Len(rows) : rows[j] \notin OnCharge(c)
    BY <1>1 DEF GrantStep, OnCharge
  <2> QED BY <1>3, <2>1, RowTypes, TakenNone
<1>5. KeepsBegun(enr)
  <2> SUFFICES ASSUME NEW c \in Begun(enr)
               PROVE  charge'[c] = charge[c] /\ AllocatedTo(alloc', c) = AllocatedTo(alloc, c)
    BY DEF KeepsBegun
  <2>1. c \in 1 .. Len(charge) /\ c \notin Future(enr)
    BY BegunStays
  <2>2. c \notin PartlyPaid(enr)
    BY <2>1 DEF PartlyPaid, PaidFuture
  <2>3. charge'[c] = charge[c]
    BY <1>2, <2>1, <2>2
  <2>4. Taken(alloc, LiveOn(c)) \in Nat
    BY <2>1, ChargeFacts
  <2>5. Taken(alloc', LiveOn(c)) = Taken(alloc, LiveOn(c))
    BY <1>2, <1>4, <2>1, <2>2, <2>4
  <2> QED BY <1>3, <2>3, <2>5, AllocationSums
<1>6. ASSUME NEW c \in ChargesOf(enr, {"open", "settled"}) \ Begun(enr)
      PROVE  charge'[c].status = "cancelled" \/ Remaining(c)' = 0
  <2>1. c \in 1 .. Len(charge) /\ c \in Future(enr)
    <3>1. c \in 1 .. Len(charge) /\ ~(ChargeStart(c) < today)
      BY InvTables DEF Begun, ChargesOf
    <3>2. ChargeStart(c) \in Int /\ today \in Int
      BY <3>1, InvTables, StartsAreDays, CalendarFacts DEF LedgerInv
    <3> QED BY <3>1, <3>2 DEF Future
  <2>2. CASE c \notin PaidFuture(enr)
    BY <1>2, <2>1, <2>2
  <2>3. CASE c \in PaidFuture(enr)
    <3> DEFINE a == charge[c].amount  x == Taken(alloc, LiveOn(c))  y == Taken(rows, OnCharge(c))
               r == Remaining(c)  z == Remaining(c)'
    <3>1. a \in Nat /\ x \in Nat /\ r \in Nat /\ r = a - x
      BY <2>1, ChargeFacts
    <3>2. y = r
      <4>1. CASE c \in PartlyPaid(enr)
        BY <1>1, <4>1 DEF GrantStep
      <4>2. CASE c \notin PartlyPaid(enr)
        <5>1. ~(r > 0)
          BY <2>3, <4>2 DEF PartlyPaid
        <5>2. y = 0
          BY <1>4, <4>2
        <5> HIDE DEF a, x, r, y
        <5> QED BY <3>1, <5>1, <5>2
      <4> QED BY <4>1, <4>2
    <3>3. z = a - (x + y)
      <4>1. Tables(charge, entry, alloc)'
        BY <1>2 DEF LedgerInv
      <4>2. BalanceKinds'
        BY <4>1, BalancesNext
      <4>3. Remaining(c)' = charge'[c].amount - Taken(alloc', LiveOn(c))
        BY <4>2 DEF BalanceKinds
      <4>4. charge'[c].amount = a /\ Taken(alloc', LiveOn(c)) = x + y
        BY <1>2, <2>1 DEF SameCharges
      <4> QED BY <4>3, <4>4
    <3> HIDE DEF a, x, y, r, z
    <3>4. z = 0
      BY <3>1, <3>2, <3>3
    <3> QED BY <3>4 DEF z
  <2> QED BY <2>2, <2>3
<1>7. Wallet' = Wallet
  BY <1>1, GrantMovesNothing
<1> QED BY <1>5, <1>6, <1>7

\* convert_future_charges_to_grant: every month not begun is cancelled or fully settled afterwards,
\* the discounts that write off the rest of partly paid ones consume no credit, and the months
\* begun are left alone.
THEOREM LedgerGrantClears == Spec => GrantClearsTheFuture
<1> DEFINE A == \A enr \in Enrollment : BecomesGrant(enr) =>
                  /\ KeepsBegun(enr)
                  /\ Wallet' = Wallet
                  /\ \A c \in ChargesOf(enr, {"open", "settled"}) \ Begun(enr) :
                       charge'[c].status = "cancelled" \/ Remaining(c)' = 0
<1>1. LedgerInv /\ [Next]_vars => [A]_vars
  <2> SUFFICES ASSUME LedgerInv, [Next]_vars, NEW enr \in Enrollment, BecomesGrant(enr) PROVE ToGrant(enr)
    BY GrantClears
  <2>1. enrollment \in [Enrollment -> EnrollmentRec]
    BY CalendarFacts
  <2>2. enrollment'[enr] # enrollment[enr] /\ enrollment'[enr] = [enrollment[enr] EXCEPT !.mode = "grant"]
    BY DEF BecomesGrant
  <2>3. enrollment'[enr].status = enrollment[enr].status /\ enrollment'[enr].mode = "grant"
    BY <2>1, <2>2 DEF EnrollmentRec
  <2>4. ~\E mode \in {"paid", "grant"} : Enroll(enr, mode)
    BY <2>1, <2>3 DEF Enroll
  <2>5. ~Withdraw(enr)
    BY <2>1, <2>3 DEF Withdraw, EnrollmentRec
  <2>6. ~ToPaid(enr)
    BY <2>1, <2>3 DEF ToPaid, EnrollmentRec
  <2> QED BY <2>2, <2>4, <2>5, <2>6, EnrollmentChanges
<1> HIDE DEF A
<1>2. Spec => [][A]_vars
  BY <1>1, LedgerIsSound, PTL DEF Spec
<1> QED BY <1>2 DEF GrantClearsTheFuture, A

-----------------------------------------------------------------------------
(* The invariants.                                                         *)

\* Types and foreign keys: amounts stay positive, so no operation writes an empty row, and every
\* allocation, reversal and survivor refers to rows that exist.
THEOREM LedgerTypes == Spec => []TypeOK
BY LedgerIsSound, InvTypes, PTL

\* uq_charges_active_tuition_installment is never hit: resume_billing_after_grant regenerates
\* no month that is still billed, after any grants, resumptions and withdrawals.
THEOREM LedgerBillsOnce == Spec => []OneLiveInstallment
BY LedgerIsSound, InvOneLive, PTL

\* The status _recompute_charge_status stores is, for every charge and not only those the last
\* operation named, the one its live allocations imply; none is over-allocated.
THEOREM LedgerStatusAgrees == Spec => []ChargeStatusAgrees
BY LedgerIsSound, InvStatus, PTL

\* No payment, adjustment or discount settles and pays back more than its amount, however often it
\* was refunded in part, re-allocated, voided or reversed by a withdrawal.
THEOREM LedgerSpendsOnce == Spec => []NoEntryOverspent
BY LedgerIsSound, InvFunded, PTL

\* get_unallocated_credit sums the account as a whole, _apply_credit takes what is left of each
\* entry: the two agree, although voided and refunded entries leave the one sum in another way
\* than the others.
THEOREM LedgerWalletExact == Spec => []WalletIsExact
BY LedgerIsSound, InvWallet, PTL

=============================================================================
