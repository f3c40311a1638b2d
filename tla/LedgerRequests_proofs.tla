------------------------ MODULE LedgerRequests_proofs ------------------------
(***************************************************************************)
(* For any clerks, payloads, months, transactions and reports: the types   *)
(* and the locks of LedgerRequests, that a closed month stays as it is,    *)
(* and that reports are current.                                           *)
(***************************************************************************)
EXTENDS LedgerRequests, FiniteSetTheorems, TLAPS

LEMMA Constants ==
  /\ StudentOf \in [Payload -> Student] /\ MonthOf \in [Payload -> Month]
  /\ None \notin Payload /\ None \notin Tx /\ None \notin Month
  /\ MaxSubmits \in Nat /\ MaxClosings \in Nat /\ MaxFaults \in Nat
  BY RequestConstants

USE Constants

-----------------------------------------------------------------------------
(* Types and locks.                                                        *)

LEMMA InitTypeOK == Init => TypeOK
<1> SUFFICES ASSUME Init PROVE TypeOK
  OBVIOUS
<1>1. FormsTyped
  BY DEF Init, FormsTyped, Empty
<1>2. PaymentsTyped
  BY DEF Init, PaymentsTyped, Idle, Stages
<1>3. LedgerTyped
  BY DEF Init, LedgerTyped, NoClosing
<1>4. ReportsTyped
  BY DEF Init, ReportsTyped, NoReport
<1>5. LocksExclude
  BY DEF Init, LocksExclude, HoldsGeneration, HoldsAccount, Idle
<1> QED
  BY <1>1, <1>2, <1>3, <1>4, <1>5 DEF TypeOK

\* The end of a transaction frees its slot and all it held.
LEMMA EndedPayment ==
  ASSUME PaymentsTyped, LocksExclude, NEW t \in Tx, tx' = [tx EXCEPT ![t] = Idle]
  PROVE  PaymentsTyped' /\ LocksExclude'
<1>1. \A u \in Tx : tx'[u] = IF u = t THEN Idle ELSE tx[u]
  BY DEF PaymentsTyped
<1>2. PaymentsTyped'
  BY DEF PaymentsTyped, Idle, Stages
<1>3. LocksExclude'
  BY <1>1 DEF LocksExclude, HoldsGeneration, HoldsAccount, Idle
<1> QED
  BY <1>2, <1>3

LEMMA LearnsTypes ==
  ASSUME FormsTyped, PaymentsTyped, NEW t \in Tx, tx[t] # Idle, NEW success,
         Learns(t, success), told' \subseteq Tx, undone' \in [Clerk -> [Payload -> Nat]]
  PROVE  FormsTyped'
<1>1. tx[t].clerk \in Clerk /\ tx[t].payload \in Payload
  BY DEF PaymentsTyped
<1> DEFINE k == tx[t].clerk
           Form == [signature : Payload \cup {None}, key : Nat, waits : Tx \cup {None}]
<1>2. form' \in [Clerk -> Form]
  <2>0. form \in [Clerk -> Form] /\ form[k] \in Form
    BY <1>1 DEF FormsTyped
  <2>1. Empty \in Form /\ [form[k] EXCEPT !.waits = None] \in Form
    BY <2>0 DEF Empty
  <2>2. \/ form' = form \/ form' = [form EXCEPT ![k] = Empty]
        \/ form' = [form EXCEPT ![k] = [form[k] EXCEPT !.waits = None]]
    BY <1>1, <2>0 DEF Learns
  <2> HIDE DEF Form
  <2> QED
    BY <1>1, <2>0, <2>1, <2>2
<1>3. wanted' = wanted /\ acked' \in [Clerk -> [Payload -> Nat]]
  <2>1. \/ acked' = acked
        \/ acked' = [acked EXCEPT ![k] = [acked[k] EXCEPT ![tx[t].payload] = @ + 1]]
    BY <1>1 DEF Learns, FormsTyped
  <2>2. acked[k] \in [Payload -> Nat] /\ acked[k][tx[t].payload] + 1 \in Nat
    BY <1>1 DEF FormsTyped
  <2>3. [acked[k] EXCEPT ![tx[t].payload] = @ + 1] \in [Payload -> Nat]
    BY <1>1, <2>2
  <2>4. acked' \in [Clerk -> [Payload -> Nat]]
    BY <1>1, <2>1, <2>3 DEF FormsTyped
  <2> QED
    BY <2>4 DEF Learns
<1>4. unsure' \in [Clerk -> Payload \cup {None}]
  BY <1>1 DEF Learns, FormsTyped
<1> QED
  BY <1>2, <1>3, <1>4 DEF FormsTyped

LEMMA AnsweredTypes ==
  ASSUME FormsTyped, PaymentsTyped, LocksExclude, NEW t \in Tx, tx[t] # Idle,
         NEW success, Answered(t, success)
  PROVE  FormsTyped' /\ PaymentsTyped' /\ LocksExclude'
<1>1. PaymentsTyped' /\ LocksExclude'
  BY EndedPayment DEF Answered
<1>2. told' \subseteq Tx /\ undone' \in [Clerk -> [Payload -> Nat]]
  BY DEF Answered, FormsTyped
<1> QED
  BY <1>1, <1>2, LearnsTypes DEF Answered

\* A step of a transaction to a stage that holds what the one before held, or
\* for which what it takes was free.
LEMMA StageTypes ==
  ASSUME PaymentsTyped, LocksExclude, NEW t \in Tx, NEW to \in Stages \ {"idle"},
         tx[t].stage # "idle", tx' = [tx EXCEPT ![t].stage = to],
         to = "find" => AccountIsFree(t),
         to \in {"period", "advance", "flush", "answer", "commit"} => HoldsAccount(t),
         to = "flush" => \A u \in Tx : ~HoldsGeneration(u),
         to \in {"answer", "commit"} => HoldsGeneration(t)
  PROVE  PaymentsTyped' /\ LocksExclude'
<1>1. \A u \in Tx : tx'[u] = IF u = t THEN [tx[t] EXCEPT !.stage = to] ELSE tx[u]
  BY DEF PaymentsTyped
<1>2. PaymentsTyped'
  <2>1. tx[t] # Idle
    BY DEF Idle
  <2>2. [tx[t] EXCEPT !.stage = to] \in
          [stage : Stages, clerk : Clerk \cup {None}, key : Nat, payload : Payload \cup {None}]
    BY DEF PaymentsTyped
  <2>3. tx' \in [Tx -> [stage : Stages, clerk : Clerk \cup {None}, key : Nat,
                        payload : Payload \cup {None}]]
    BY <2>2 DEF PaymentsTyped
  <2>4. tx'[t].stage # "idle" /\ tx'[t].clerk \in Clerk /\ tx'[t].payload \in Payload
    BY <1>1, <2>1 DEF PaymentsTyped
  <2> QED
    BY <1>1, <2>3, <2>4 DEF PaymentsTyped
<1>3. tx'[t].payload = tx[t].payload /\ tx'[t].stage = to
  BY <1>1 DEF PaymentsTyped
<1>4. LocksExclude'
  <2> SUFFICES ASSUME NEW a \in Tx, NEW b \in Tx, a # b
               PROVE  /\ ~(HoldsGeneration(a)' /\ HoldsGeneration(b)')
                      /\ HoldsAccount(a)' /\ HoldsAccount(b)' =>
                           StudentOf[tx'[a].payload] # StudentOf[tx'[b].payload]
    BY DEF LocksExclude
  <2>1. \A u \in Tx : u # t => /\ HoldsGeneration(u)' <=> HoldsGeneration(u)
                               /\ HoldsAccount(u)' <=> HoldsAccount(u)
                               /\ tx'[u].payload = tx[u].payload
    BY <1>1 DEF HoldsGeneration, HoldsAccount
  <2>2. \A u \in Tx : u # t /\ HoldsGeneration(u) => ~HoldsGeneration(t)'
    BY <1>3 DEF HoldsGeneration, LocksExclude, Stages
  <2>3. \A u \in Tx : u # t /\ HoldsAccount(u) /\ HoldsAccount(t)'
          => StudentOf[tx[u].payload] # StudentOf[tx[t].payload]
    BY <1>3 DEF HoldsAccount, LocksExclude, Stages, AccountIsFree
  <2> QED
    BY <2>1, <2>2, <2>3, <1>3 DEF LocksExclude
<1> QED
  BY <1>2, <1>4

LEMMA GoesTypes ==
  ASSUME TypeOK, NEW t \in Tx, NEW from \in Stages \ {"idle"}, NEW to \in Stages \ {"idle"},
         Goes(t, from, to),
         to = "find" => AccountIsFree(t),
         to \in {"period", "advance", "flush", "answer", "commit"} => HoldsAccount(t),
         to = "flush" => \A u \in Tx : ~HoldsGeneration(u),
         to \in {"answer", "commit"} => HoldsGeneration(t)
  PROVE  TypeOK'
<1>1. PaymentsTyped' /\ LocksExclude'
  BY StageTypes DEF Goes, TypeOK
<1> QED
  BY <1>1 DEF Goes, TypeOK, FormsTyped, LedgerTyped, ReportsTyped, months, analytics,
              ghosts, counts

\* Steps that leave the payments and the forms alone.
LEMMA ElsewhereTypes ==
  ASSUME TypeOK, UNCHANGED <<form, tx, ghosts>>, LedgerTyped', ReportsTyped'
  PROVE  TypeOK'
  BY DEF ghosts, TypeOK, FormsTyped, PaymentsTyped, LocksExclude, HoldsGeneration, HoldsAccount

LEMMA FaultType == ASSUME LedgerTyped, Fault PROVE faults' \in 0 .. MaxFaults
  BY DEF LedgerTyped, Fault

\* Steps that end a transaction and change the ledger at most by their commit.
LEMMA EndTypes ==
  ASSUME TypeOK, FormsTyped', PaymentsTyped', LocksExclude',
         UNCHANGED <<period, closing, submits, closings, analytics>>,
         faults' \in 0 .. MaxFaults, entries' \subseteq Entry, generation' \in Nat
  PROVE  TypeOK'
<1>1. LedgerTyped'
  BY DEF TypeOK, LedgerTyped
<1>2. ReportsTyped'
  BY DEF TypeOK, ReportsTyped, analytics
<1> QED
  BY <1>1, <1>2 DEF TypeOK

\* A slot that was free gets a request that holds nothing yet.
LEMMA SubmittedTypes ==
  ASSUME TypeOK, NEW k \in Clerk, NEW p \in Payload, NEW key \in Nat, NEW t \in Tx,
         submits < MaxSubmits, submits' = submits + 1,
         tx' = [tx EXCEPT ![t] = [stage |-> "lock", clerk |-> k, key |-> key, payload |-> p]],
         FormsTyped',
         UNCHANGED <<entries, generation, months, analytics, closings, faults>>
  PROVE  TypeOK'
<1>1. \A u \in Tx : tx'[u] = IF u = t THEN [stage |-> "lock", clerk |-> k, key |-> key,
                                           payload |-> p]
                           ELSE tx[u]
  BY DEF TypeOK, PaymentsTyped
<1>2. PaymentsTyped'
  BY <1>1 DEF TypeOK, PaymentsTyped, Stages
<1>3. LocksExclude'
  BY <1>1 DEF TypeOK, LocksExclude, HoldsGeneration, HoldsAccount
<1>4. LedgerTyped'
  BY DEF TypeOK, LedgerTyped, months
<1>5. ReportsTyped'
  BY DEF TypeOK, ReportsTyped, analytics
<1> QED
  BY <1>2, <1>3, <1>4, <1>5 DEF TypeOK

-----------------------------------------------------------------------------
(* Every step keeps the types.                                             *)

LEMMA FormSteps ==
  ASSUME TypeOK, Forms PROVE TypeOK'
<1>1. ASSUME NEW k \in Clerk, NEW p \in Payload, NEW t \in Tx, Submit(k, p, t) PROVE TypeOK'
  <2>1. KeyFor(form[k], p) \in Nat
    BY DEF KeyFor, TypeOK, FormsTyped, LedgerTyped
  <2>2. FormsTyped'
    <3>1. form' \in [Clerk -> [signature : Payload \cup {None}, key : Nat, waits : Tx \cup {None}]]
      BY <1>1, <2>1 DEF Submit, TypeOK, FormsTyped
    <3>2. wanted[k][p] + 1 \in Nat /\ wanted[k] \in [Payload -> Nat]
      BY DEF TypeOK, FormsTyped
    <3>3. [wanted[k] EXCEPT ![p] = @ + 1] \in [Payload -> Nat]
      BY <3>2
    <3>4. wanted' = wanted \/ wanted' = [wanted EXCEPT ![k] = [wanted[k] EXCEPT ![p] = @ + 1]]
      BY <1>1 DEF Submit, TypeOK, FormsTyped
    <3>5. wanted' \in [Clerk -> [Payload -> Nat]]
      BY <3>3, <3>4 DEF TypeOK, FormsTyped
    <3>6. unsure' \in [Clerk -> Payload \cup {None}]
      BY <1>1 DEF Submit, TypeOK, FormsTyped
    <3>7. acked' = acked /\ told' = told /\ undone' = undone
      BY <1>1 DEF Submit
    <3> QED
      BY <3>1, <3>5, <3>6, <3>7 DEF TypeOK, FormsTyped
  <2> QED
    BY <1>1, <2>1, <2>2, SubmittedTypes DEF Submit
<1>2. ASSUME NEW k \in Clerk, NEW p \in Payload, NEW t \in Tx, NEW key \in 1 .. submits,
             SubmitByHand(k, p, key, t)
      PROVE  TypeOK'
  <2>1. FormsTyped'
    <3>1. wanted[k][p] + 1 \in Nat /\ wanted[k] \in [Payload -> Nat]
      BY DEF TypeOK, FormsTyped
    <3>2. [wanted[k] EXCEPT ![p] = @ + 1] \in [Payload -> Nat]
      BY <3>1
    <3>3. wanted' = [wanted EXCEPT ![k] = [wanted[k] EXCEPT ![p] = @ + 1]]
      BY <1>2 DEF SubmitByHand, TypeOK, FormsTyped
    <3>4. wanted' \in [Clerk -> [Payload -> Nat]]
      BY <3>2, <3>3 DEF TypeOK, FormsTyped
    <3> QED
      BY <1>2, <3>4 DEF SubmitByHand, TypeOK, FormsTyped
  <2>2. key \in Nat
    BY DEF TypeOK, LedgerTyped
  <2> QED
    BY <1>2, <2>1, <2>2, SubmittedTypes DEF SubmitByHand
<1>3. ASSUME NEW k \in Clerk, LoseAnswer(k) PROVE TypeOK'
  <2> DEFINE Form == [signature : Payload \cup {None}, key : Nat, waits : Tx \cup {None}]
  <2>0. form[k] \in Form
    BY DEF TypeOK, FormsTyped
  <2>1. [form[k] EXCEPT !.waits = None] \in Form
    BY <2>0
  <2>2. form' = [form EXCEPT ![k] = [form[k] EXCEPT !.waits = None]]
    BY <1>3 DEF LoseAnswer, TypeOK, FormsTyped
  <2>3. FormsTyped'
    BY <1>3, <2>1, <2>2 DEF LoseAnswer, ghosts, TypeOK, FormsTyped
  <2>4. LedgerTyped'
    BY <1>3, FaultType DEF LoseAnswer, months, TypeOK, LedgerTyped
  <2> QED
    BY <1>3, <2>3, <2>4 DEF LoseAnswer, analytics, TypeOK, PaymentsTyped, ReportsTyped,
                            LocksExclude, HoldsGeneration, HoldsAccount
<1>4. ASSUME NEW k \in Clerk, CloseForm(k) PROVE TypeOK'
  <2>1. FormsTyped'
    BY <1>4 DEF CloseForm, TypeOK, FormsTyped, Empty
  <2> QED
    BY <1>4, <2>1 DEF CloseForm, months, analytics, counts, TypeOK, PaymentsTyped, LedgerTyped,
                      ReportsTyped, LocksExclude, HoldsGeneration, HoldsAccount
<1> QED
  BY <1>1, <1>2, <1>3, <1>4 DEF Forms

\* One success more of one clerk for one payload.
LEMMA UndoneTyped ==
  ASSUME NEW f \in [Clerk -> [Payload -> Nat]], NEW k \in Clerk, NEW p \in Payload
  PROVE  [f EXCEPT ![k][p] = @ + 1] \in [Clerk -> [Payload -> Nat]]
<1>1. [f[k] EXCEPT ![p] = @ + 1] \in [Payload -> Nat]
  OBVIOUS
<1>2. [f EXCEPT ![k][p] = @ + 1] = [f EXCEPT ![k] = [f[k] EXCEPT ![p] = @ + 1]]
  OBVIOUS
<1> QED
  BY <1>1, <1>2

LEMMA PaymentSteps ==
  ASSUME TypeOK, Payments PROVE TypeOK'
<1> PICK t \in Tx : \/ LockAccount(t) \/ FindOriginal(t) \/ CheckPeriod(t)
                    \/ Advance(t) \/ FlushKey(t) \/ Answer(t) \/ Commit(t)
                    \/ CommitFails(t) \/ Abort(t)
  BY DEF Payments
<1>1. ASSUME NEW original \in entries, tx[t].stage # "idle", Replay(t, original) PROVE TypeOK'
  <2>1. FormsTyped' /\ PaymentsTyped' /\ LocksExclude'
    BY <1>1, AnsweredTypes DEF Replay, Idle, TypeOK
  <2> QED
    BY <1>1, <2>1, EndTypes DEF Replay, months, counts, TypeOK, LedgerTyped
<1>2. ASSUME tx[t].stage # "idle", Refuse(t) PROVE TypeOK'
  <2>1. FormsTyped' /\ PaymentsTyped' /\ LocksExclude'
    <3>1. tx[t] # Idle
      BY <1>2 DEF Refuse, Idle
    <3>2. Answered(t, FALSE)
      BY <1>2 DEF Refuse
    <3> QED
      BY <3>1, <3>2, AnsweredTypes DEF TypeOK
  <2>2. /\ UNCHANGED <<period, closing, submits, closings, analytics>>
        /\ faults' \in 0 .. MaxFaults /\ entries' \subseteq Entry /\ generation' \in Nat
    BY <1>2 DEF Refuse, months, counts, TypeOK, LedgerTyped
  <2> QED
    BY <2>1, <2>2, EndTypes
<1>3. CASE LockAccount(t)
  BY <1>3, GoesTypes DEF LockAccount, Stages
<1>4. CASE FindOriginal(t)
  <2>1. CASE Goes(t, "find", "period")
    <3>1. HoldsAccount(t)
      BY <2>1 DEF Goes, HoldsAccount
    <3> QED
      BY <2>1, <3>1, GoesTypes DEF Stages
  <2> QED
    BY <1>1, <1>4, <2>1 DEF FindOriginal, Recorded
<1>5. CASE CheckPeriod(t)
  <2>1. CASE Goes(t, "period", "advance")
    <3>1. HoldsAccount(t)
      BY <2>1 DEF Goes, HoldsAccount
    <3> QED
      BY <2>1, <3>1, GoesTypes DEF Stages
  <2> QED
    BY <1>2, <1>5, <2>1 DEF CheckPeriod
<1>6. CASE Advance(t)
  <2>1. HoldsAccount(t)
    BY <1>6 DEF Advance, Goes, HoldsAccount
  <2> QED
    BY <1>6, <2>1, GoesTypes DEF Advance, Stages
<1>7. CASE FlushKey(t)
  <2>1. CASE Goes(t, "flush", "answer")
    <3>1. HoldsAccount(t) /\ HoldsGeneration(t)
      BY <2>1 DEF Goes, HoldsAccount, HoldsGeneration
    <3> QED
      BY <2>1, <3>1, GoesTypes DEF Stages
  <2> QED
    BY <1>1, <1>7, <2>1 DEF FlushKey, Recorded
<1>8. CASE Answer(t)
  <2>1. HoldsAccount(t) /\ HoldsGeneration(t) /\ tx[t] # Idle
    BY <1>8 DEF Answer, HoldsAccount, HoldsGeneration, Idle
  <2>2. PaymentsTyped' /\ LocksExclude'
    <3>1. tx[t].stage # "idle" /\ tx' = [tx EXCEPT ![t].stage = "commit"]
      BY <1>8 DEF Answer
    <3>2. "commit" \in Stages \ {"idle"}
      BY DEF Stages
    <3> QED
      BY <2>1, <3>1, <3>2, StageTypes DEF TypeOK
  <2>3. told' \subseteq Tx /\ undone' \in [Clerk -> [Payload -> Nat]]
    BY <1>8 DEF Answer, TypeOK, FormsTyped
  <2>4. FormsTyped'
    BY <1>8, <2>1, <2>3, LearnsTypes DEF Answer, TypeOK
  <2> QED
    BY <1>8, <2>2, <2>4, EndTypes DEF Answer, months, counts, TypeOK, LedgerTyped
<1>9. CASE Commit(t)
  <2>1. tx[t] # Idle /\ tx[t].clerk \in Clerk /\ tx[t].payload \in Payload /\ tx[t].key \in Nat
    BY <1>9 DEF Commit, Idle, TypeOK, PaymentsTyped
  <2>2. entries' \subseteq Entry /\ generation' \in Nat
    BY <1>9, <2>1 DEF Commit, Entry, TypeOK, LedgerTyped
  <2>3. PaymentsTyped' /\ LocksExclude'
    BY <1>9, EndedPayment DEF Commit, TypeOK
  <2>4. FormsTyped'
    BY <1>9 DEF Commit, TypeOK, FormsTyped
  <2> QED
    BY <1>9, <2>2, <2>3, <2>4, EndTypes DEF Commit, months, counts, TypeOK, LedgerTyped
<1>10. CASE CommitFails(t)
  <2>1. tx[t].clerk \in Clerk /\ tx[t].payload \in Payload
    BY <1>10 DEF CommitFails, Idle, TypeOK, PaymentsTyped
  <2>2. PaymentsTyped' /\ LocksExclude'
    BY <1>10, EndedPayment DEF CommitFails, TypeOK
  <2>3. undone' \in [Clerk -> [Payload -> Nat]]
    BY <1>10, <2>1, UndoneTyped DEF CommitFails, TypeOK, FormsTyped
  <2>4. FormsTyped'
    BY <1>10, <2>3 DEF CommitFails, TypeOK, FormsTyped
  <2>5. faults' \in 0 .. MaxFaults
    BY <1>10, FaultType DEF CommitFails, TypeOK
  <2> QED
    BY <1>10, <2>2, <2>4, <2>5, EndTypes DEF CommitFails, months, TypeOK, LedgerTyped
<1>11. CASE Abort(t)
  <2>1. FormsTyped' /\ PaymentsTyped' /\ LocksExclude'
    <3>1. tx[t] # Idle
      BY <1>11 DEF Abort, Idle
    <3>2. Answered(t, FALSE)
      BY <1>11 DEF Abort
    <3> QED
      BY <3>1, <3>2, AnsweredTypes DEF TypeOK
  <2>2. faults' \in 0 .. MaxFaults
    BY <1>11, FaultType DEF Abort, TypeOK
  <2> QED
    BY <1>11, <2>1, <2>2, EndTypes DEF Abort, months, TypeOK, LedgerTyped
<1> QED
  BY <1>3, <1>4, <1>5, <1>6, <1>7, <1>8, <1>9, <1>10, <1>11

LEMMA ClosingSteps ==
  ASSUME TypeOK, Closings PROVE TypeOK'
<1>1. ASSUME NEW m \in Month, NEW to \in {"open", "closed"}, RequestClosing(m, to)
      PROVE  LedgerTyped' /\ UNCHANGED <<payments, analytics, ghosts>>
  BY <1>1 DEF RequestClosing, payments, TypeOK, LedgerTyped
<1>2. ASSUME LockMonth PROVE LedgerTyped' /\ UNCHANGED <<payments, analytics, ghosts>>
  BY <1>2 DEF LockMonth, payments, counts, TypeOK, LedgerTyped
<1>3. ASSUME SetStatus PROVE LedgerTyped' /\ UNCHANGED <<payments, analytics, ghosts>>
  <2>1. closing.month \in Month /\ closing.to \in {"open", "closed"}
    BY <1>3 DEF SetStatus, TypeOK, LedgerTyped
  <2>2. period' \in [Month -> {"absent", "open", "closed"}]
    BY <1>3, <2>1 DEF SetStatus, TypeOK, LedgerTyped
  <2> QED
    BY <1>3, <2>2 DEF SetStatus, payments, counts, NoClosing, TypeOK, LedgerTyped
<1>4. LedgerTyped' /\ UNCHANGED <<payments, analytics, ghosts>>
  BY <1>1, <1>2, <1>3 DEF Closings
<1>5. ReportsTyped'
  BY <1>4 DEF analytics, TypeOK, ReportsTyped
<1> QED
  BY <1>4, <1>5, ElsewhereTypes DEF payments

ReportRecord == [stage : {"idle", "get", "lease", "again", "first", "second", "publish",
                          "release", "done"},
                 mode : {"alone", "quiet", "owner"}, gen : Nat, floor : Nat, first : Nat,
                 second : Nat]

LEMMA ReportStepType ==
  ASSUME ReportsTyped, NEW r \in Report,
         NEW from, NEW to \in {"get", "lease", "first", "release"},
         NEW mode \in {"alone", "quiet", "owner"}, ReportStep(r, from, to, mode)
  PROVE  ReportsTyped'
<1>1. report[r] \in ReportRecord
  BY DEF ReportsTyped, ReportRecord
<1>2. [[report[r] EXCEPT !.stage = to] EXCEPT !.mode = mode] \in ReportRecord
  BY <1>1 DEF ReportRecord
<1>3. report' = [report EXCEPT ![r] = [[report[r] EXCEPT !.stage = to] EXCEPT !.mode = mode]]
  BY DEF ReportStep, ReportsTyped
<1> QED
  BY <1>2, <1>3 DEF ReportStep, ReportsTyped, ReportRecord

LEMMA ReportSteps ==
  ASSUME TypeOK, IsFiniteSet(entries), Reports PROVE TypeOK'
<1> PICK r \in Report : \/ Ask(r) \/ Hit(r) \/ Look(r) \/ TakeLease(r) \/ WithoutLease(r)
                        \/ Compute(r) \/ Publish(r) \/ Release(r)
  BY DEF Reports
<1>1. report[r] \in ReportRecord /\ report \in [Report -> ReportRecord]
  BY DEF TypeOK, ReportsTyped, ReportRecord
<1>2. Seen \in Nat
  BY FS_CardinalityType DEF Seen
<1>3. /\ UNCHANGED <<form, tx, ghosts>> /\ UNCHANGED <<entries, generation>>
      /\ UNCHANGED <<months, submits, closings>> /\ (UNCHANGED faults \/ Fault)
  BY DEF Ask, Hit, Look, TakeLease, WithoutLease, Compute, Publish, Release, ReportStep,
         payments, ghosts, counts
<1>4. LedgerTyped'
  BY <1>3, FaultType DEF months, TypeOK, LedgerTyped
<1>5. ASSUME report' \in [Report -> ReportRecord], leases' \subseteq [gen : Nat, owner : Report],
             cached' \subseteq [gen : Nat, first : Nat, second : Nat]
      PROVE  TypeOK'
  BY <1>3, <1>4, <1>5, ElsewhereTypes DEF ReportsTyped, ReportRecord
<1>6. /\ leases \subseteq [gen : Nat, owner : Report]
      /\ cached \subseteq [gen : Nat, first : Nat, second : Nat]
  BY DEF TypeOK, ReportsTyped
<1>7. ASSUME NEW from, NEW to \in {"get", "lease", "first", "release"},
             NEW mode \in {"alone", "quiet", "owner"}, ReportStep(r, from, to, mode)
      PROVE  TypeOK'
  BY <1>3, <1>4, <1>7, ReportStepType, ElsewhereTypes DEF TypeOK
<1>8. \A stage \in {"get", "again", "first", "second", "publish", "release", "done"} :
         [report[r] EXCEPT !.stage = stage] \in ReportRecord
  BY <1>1 DEF ReportRecord
<1>9. CASE Ask(r)
  <2> DEFINE a == [[NoReport EXCEPT !.stage = "get"] EXCEPT !.gen = generation]
  <2>1. a \in ReportRecord
    BY DEF NoReport, ReportRecord, TypeOK, LedgerTyped
  <2>2. [a EXCEPT !.floor = Seen] \in ReportRecord
    BY <1>2, <2>1 DEF ReportRecord
  <2>3. report' = [report EXCEPT ![r] = [a EXCEPT !.floor = Seen]]
    BY <1>9 DEF Ask
  <2>4. report' \in [Report -> ReportRecord]
    BY <1>1, <2>2, <2>3
  <2> QED
    BY <1>5, <1>6, <1>9, <2>4 DEF Ask
<1>10. CASE Hit(r)
  <2> PICK x \in InCache(r) :
        report' = [report EXCEPT ![r].stage = IF @ = "again" THEN "release" ELSE "done",
                                 ![r].first = x.first, ![r].second = x.second]
    BY <1>10 DEF Hit
  <2> DEFINE to == IF report[r].stage = "again" THEN "release" ELSE "done"
             a == [report[r] EXCEPT !.stage = to]
             b == [a EXCEPT !.first = x.first]
  <2>1. x.first \in Nat /\ x.second \in Nat
    BY <1>6 DEF InCache
  <2>2. a \in ReportRecord
    BY <1>8
  <2>3. b \in ReportRecord
    BY <2>1, <2>2 DEF ReportRecord
  <2>4. [b EXCEPT !.second = x.second] \in ReportRecord
    BY <2>1, <2>3 DEF ReportRecord
  <2>5. report' = [report EXCEPT ![r] = [b EXCEPT !.second = x.second]]
    BY <1>1
  <2>6. report' \in [Report -> ReportRecord]
    BY <1>1, <2>4, <2>5
  <2> QED
    BY <1>5, <1>6, <1>10, <2>6 DEF Hit
<1>11. CASE Look(r)
  BY <1>7, <1>11 DEF Look
<1>12. CASE TakeLease(r)
  <2>1. LeaseOf(r) \in [gen : Nat, owner : Report]
    BY <1>1 DEF LeaseOf, ReportRecord
  <2>2. report' \in [Report -> ReportRecord]
    BY <1>1, <1>8, <1>12 DEF TakeLease
  <2> QED
    BY <1>5, <1>6, <1>12, <2>1, <2>2 DEF TakeLease
<1>13. CASE WithoutLease(r)
  BY <1>7, <1>13 DEF WithoutLease
<1>14. CASE Compute(r)
  <2>1. AfterCompute(r) \in {"done", "release", "publish"}
    BY <1>1 DEF AfterCompute, ReportRecord
  <2>2. [[report[r] EXCEPT !.stage = "second"] EXCEPT !.first = Seen] \in ReportRecord
    BY <1>2, <1>8 DEF ReportRecord
  <2>3. [[report[r] EXCEPT !.stage = AfterCompute(r)] EXCEPT !.second = Seen] \in ReportRecord
    BY <1>2, <1>8, <2>1 DEF ReportRecord
  <2>4. \/ report' = [report EXCEPT ![r] = [[report[r] EXCEPT !.stage = "second"] EXCEPT !.first = Seen]]
        \/ report' = [report EXCEPT ![r] = [[report[r] EXCEPT !.stage = AfterCompute(r)]
                                                         EXCEPT !.second = Seen]]
    BY <1>1, <1>14 DEF Compute
  <2>5. report' \in [Report -> ReportRecord]
    BY <1>1, <2>2, <2>3, <2>4
  <2> QED
    BY <1>5, <1>6, <1>14, <2>5 DEF Compute
<1>15. CASE Publish(r)
  <2>1. CASE ReportStep(r, "publish", "release", "owner")
    BY <1>7, <2>1
  <2>2. ASSUME ~ReportStep(r, "publish", "release", "owner") PROVE TypeOK'
    <3>1. [gen |-> CacheKey(r), first |-> report[r].first, second |-> report[r].second]
            \in [gen : Nat, first : Nat, second : Nat]
      BY <1>1 DEF CacheKey, ReportRecord
    <3>2. cached' \subseteq [gen : Nat, first : Nat, second : Nat]
      BY <1>6, <1>15, <2>2, <3>1 DEF Publish
    <3>3. report' \in [Report -> ReportRecord] /\ leases' = leases
      BY <1>1, <1>8, <1>15, <2>2 DEF Publish
    <3> QED
      BY <1>5, <1>6, <3>2, <3>3
  <2> QED
    BY <2>1, <2>2
<1>16. CASE Release(r)
  <2>1. report' \in [Report -> ReportRecord]
    BY <1>1, <1>8, <1>16 DEF Release
  <2> QED
    BY <1>5, <1>6, <1>16, <2>1 DEF Release
<1> QED
  BY <1>9, <1>10, <1>11, <1>12, <1>13, <1>14, <1>15, <1>16

LEMMA ForgetsStep ==
  ASSUME TypeOK, RedisForgets PROVE TypeOK'
<1>1. LedgerTyped'
  BY FaultType DEF RedisForgets, payments, months, TypeOK, LedgerTyped
<1>2. ReportsTyped'
  BY DEF RedisForgets, TypeOK, ReportsTyped
<1> QED
  BY <1>1, <1>2, ElsewhereTypes DEF RedisForgets, payments, ghosts

\* The generation counts the payments.
Counted ==
  /\ IsFiniteSet(entries) /\ generation = Cardinality(entries)
  /\ \A e \in entries : e.id <= generation

LEMMA CountedSteps ==
  ASSUME TypeOK, Counted, [Next]_vars
  PROVE  /\ Counted' /\ generation <= generation' /\ entries \subseteq entries'
         /\ \/ UNCHANGED <<entries, generation>>
            \/ \E t \in Tx : Commit(t)
<1>1. ASSUME NEW t \in Tx, Commit(t)
      PROVE  Counted' /\ generation <= generation' /\ entries \subseteq entries'
  <2> DEFINE e == [id |-> generation + 1, clerk |-> tx[t].clerk, key |-> tx[t].key,
                   payload |-> tx[t].payload]
  <2>1. generation \in Nat /\ entries' = entries \cup {e} /\ generation' = generation + 1
    BY <1>1 DEF Commit, TypeOK, LedgerTyped
  <2>2. e \notin entries
    <3> SUFFICES ASSUME e \in entries PROVE FALSE
      OBVIOUS
    <3>1. e.id = generation + 1
      OBVIOUS
    <3> QED
      BY <2>1, <3>1 DEF Counted
  <2>3. IsFiniteSet(entries') /\ Cardinality(entries') = Cardinality(entries) + 1
    <3>1. ASSUME NEW x, x \notin entries
          PROVE  /\ IsFiniteSet(entries \cup {x})
                 /\ Cardinality(entries \cup {x}) = Cardinality(entries) + 1
      BY <3>1, FS_AddElement DEF Counted
    <3> HIDE DEF e
    <3> QED
      BY <2>1, <2>2, <3>1
  <2>4. \A x \in entries' : x.id <= generation'
    <3>1. e.id = generation + 1
      OBVIOUS
    <3>2. \A x \in entries : x.id \in Nat /\ x.id <= generation
      BY DEF Counted, TypeOK, LedgerTyped, Entry
    <3> QED
      BY <2>1, <3>1, <3>2
  <2> QED
    BY <2>1, <2>3, <2>4 DEF Counted
<1>2. CASE UNCHANGED <<entries, generation>>
  BY <1>2 DEF Counted, TypeOK, LedgerTyped
<1>3. UNCHANGED <<entries, generation>> \/ \E t \in Tx : Commit(t)
  <2>1. CASE Forms
    BY <2>1 DEF Forms, Submit, SubmitByHand, LoseAnswer, CloseForm
  <2>2. CASE Payments
    BY <2>2 DEF Payments, LockAccount, FindOriginal, CheckPeriod, Advance, FlushKey, Answer,
                CommitFails, Abort, Goes, Replay, Refuse
  <2>3. CASE Closings
    BY <2>3 DEF Closings, RequestClosing, LockMonth, SetStatus, payments
  <2>4. CASE Reports
    BY <2>4 DEF Reports, Ask, Hit, Look, TakeLease, WithoutLease, Compute, Publish, Release,
                ReportStep, payments
  <2>5. CASE RedisForgets \/ UNCHANGED vars
    BY <2>5 DEF RedisForgets, vars, payments
  <2> QED
    BY <2>1, <2>2, <2>3, <2>4, <2>5 DEF Next
<1> QED
  BY <1>1, <1>2, <1>3

LEMMA InitCounted == Init => Counted
  BY FS_EmptySet DEF Init, Counted

LEMMA NextTypeOK == TypeOK /\ Counted /\ [Next]_vars => TypeOK'
<1> SUFFICES ASSUME TypeOK, Counted, [Next]_vars PROVE TypeOK'
  OBVIOUS
<1>1. CASE UNCHANGED vars
  BY <1>1 DEF vars, payments, months, analytics, ghosts, counts, TypeOK, FormsTyped,
              PaymentsTyped, LedgerTyped, ReportsTyped, LocksExclude, HoldsGeneration,
              HoldsAccount
<1> QED
  BY <1>1, FormSteps, PaymentSteps, ClosingSteps, ReportSteps, ForgetsStep DEF Next, Counted

\* The variables have their types, and the locks of the student's account and
\* of the generation exclude (lock_student_accounts, advance).
THEOREM TypeCorrect == Spec => [](TypeOK /\ Counted)
<1>1. Init => TypeOK /\ Counted
  BY InitTypeOK, InitCounted
<1>2. TypeOK /\ Counted /\ [Next]_vars => (TypeOK /\ Counted)'
  BY NextTypeOK, CountedSteps
<1> QED
  BY <1>1, <1>2, PTL DEF Spec

-----------------------------------------------------------------------------
(* Closed months.                                                          *)

\* Whoever holds the lock of a month has found it open, and nobody closes it.
HeldMonthsStayOpen ==
  \A t \in Tx : HoldsMonth(t) =>
    /\ period[MonthOf[tx[t].payload]] # "closed"
    /\ ~(closing.stage = "held" /\ closing.month = MonthOf[tx[t].payload])

LEMMA InitHeldMonths == Init => HeldMonthsStayOpen
  BY DEF Init, HeldMonthsStayOpen, HoldsMonth, Idle

\* What keeps the months and brings no payment to a new lock keeps it.
LEMMA SameMonths ==
  ASSUME TypeOK, HeldMonthsStayOpen, UNCHANGED months,
         \A u \in Tx : HoldsMonth(u)' => HoldsMonth(u) /\ tx'[u].payload = tx[u].payload
  PROVE  HeldMonthsStayOpen'
  BY DEF HeldMonthsStayOpen, months, HoldsMonth

LEMMA FreedMonth ==
  ASSUME TypeOK, NEW t \in Tx, tx' = [tx EXCEPT ![t] = Idle]
  PROVE  \A u \in Tx : HoldsMonth(u)' => HoldsMonth(u) /\ tx'[u].payload = tx[u].payload
  BY DEF HoldsMonth, Idle, TypeOK, PaymentsTyped

LEMMA GoneOn ==
  ASSUME TypeOK, NEW t \in Tx, NEW to \in Stages, tx' = [tx EXCEPT ![t].stage = to],
         to \in {"find", "period"} \/ HoldsMonth(t)
  PROVE  \A u \in Tx : HoldsMonth(u)' => HoldsMonth(u) /\ tx'[u].payload = tx[u].payload
<1>1. \A u \in Tx : tx'[u] = IF u = t THEN [tx[t] EXCEPT !.stage = to] ELSE tx[u]
  BY DEF TypeOK, PaymentsTyped
<1>2. tx'[t].payload = tx[t].payload /\ tx'[t].stage = to
  BY <1>1 DEF TypeOK, PaymentsTyped
<1> QED
  BY <1>1, <1>2 DEF HoldsMonth

LEMMA NextHeldMonths ==
  ASSUME TypeOK, HeldMonthsStayOpen, [Next]_vars PROVE HeldMonthsStayOpen'
<1>1. CASE Forms
  <2>1. \A u \in Tx : HoldsMonth(u)' => HoldsMonth(u) /\ tx'[u].payload = tx[u].payload
    BY <1>1 DEF Forms, Submit, SubmitByHand, LoseAnswer, CloseForm, HoldsMonth, TypeOK,
                PaymentsTyped
  <2>2. UNCHANGED months
    BY <1>1 DEF Forms, Submit, SubmitByHand, LoseAnswer, CloseForm
  <2> QED
    BY <2>1, <2>2, SameMonths
<1>2. CASE Payments
  <2> PICK t \in Tx : \/ LockAccount(t) \/ FindOriginal(t) \/ CheckPeriod(t)
                      \/ Advance(t) \/ FlushKey(t) \/ Answer(t) \/ Commit(t)
                      \/ CommitFails(t) \/ Abort(t)
    BY <1>2 DEF Payments
  <2>1. UNCHANGED months
    BY DEF LockAccount, FindOriginal, CheckPeriod, Advance, FlushKey, Answer, Commit,
           CommitFails, Abort, Goes, Replay, Refuse
  <2>2. ASSUME tx' = [tx EXCEPT ![t] = Idle] PROVE HeldMonthsStayOpen'
    BY <2>1, <2>2, FreedMonth, SameMonths
  <2>3. CASE LockAccount(t)
    BY <2>1, <2>3, GoneOn, SameMonths DEF LockAccount, Goes, Stages
  <2>4. CASE FindOriginal(t)
    BY <2>1, <2>2, <2>4, GoneOn, SameMonths DEF FindOriginal, Replay, Answered, Goes, Stages
  <2>5. CASE CheckPeriod(t)
    <3>1. ASSUME period[MonthOf[tx[t].payload]] # "closed", Goes(t, "period", "advance")
          PROVE  HeldMonthsStayOpen'
      <4>1. \A u \in Tx : u # t => tx'[u] = tx[u]
        BY <3>1 DEF Goes, TypeOK, PaymentsTyped
      <4>2. tx'[t].payload = tx[t].payload
        BY <3>1 DEF Goes, TypeOK, PaymentsTyped
      <4>3. period' = period /\ closing' = closing
        BY <2>1 DEF months
      <4> QED
        BY <2>5, <3>1, <4>1, <4>2, <4>3 DEF CheckPeriod, HeldMonthsStayOpen, HoldsMonth
    <3>2. ASSUME Refuse(t) PROVE HeldMonthsStayOpen'
      BY <2>2, <3>2 DEF Refuse, Answered
    <3> QED
      BY <2>5, <3>1, <3>2 DEF CheckPeriod
  <2>6. CASE Advance(t)
    <3>1. HoldsMonth(t) /\ Goes(t, "advance", "flush")
      BY <2>6 DEF Advance, Goes, HoldsMonth
    <3> QED
      BY <2>1, <3>1, GoneOn, SameMonths DEF Goes, Stages
  <2>7. CASE FlushKey(t)
    <3>1. HoldsMonth(t)
      BY <2>7 DEF FlushKey, HoldsMonth
    <3> QED
      BY <2>1, <2>2, <2>7, <3>1, GoneOn, SameMonths DEF FlushKey, Replay, Answered, Goes, Stages
  <2>8. CASE Answer(t)
    <3>1. HoldsMonth(t)
      BY <2>8 DEF Answer, HoldsMonth
    <3> QED
      BY <2>1, <2>8, <3>1, GoneOn, SameMonths DEF Answer, Stages
  <2>9. CASE Commit(t) \/ CommitFails(t) \/ Abort(t)
    BY <2>2, <2>9 DEF Commit, CommitFails, Abort, Answered
  <2> QED
    BY <2>3, <2>4, <2>5, <2>6, <2>7, <2>8, <2>9
<1>3. CASE Closings
  <2>1. tx' = tx
    BY <1>3 DEF Closings, RequestClosing, LockMonth, SetStatus, payments
  <2>2. ASSUME NEW m \in Month, NEW to \in {"open", "closed"}, RequestClosing(m, to)
        PROVE  HeldMonthsStayOpen'
    BY <2>1, <2>2 DEF RequestClosing, HeldMonthsStayOpen, HoldsMonth
  <2>3. CASE LockMonth
    BY <2>1, <2>3 DEF LockMonth, NobodyHolds, HeldMonthsStayOpen, HoldsMonth, TypeOK, LedgerTyped
  <2>4. CASE SetStatus
    <3>1. \A t \in Tx : HoldsMonth(t)' => HoldsMonth(t)
      BY <2>1 DEF HoldsMonth
    <3>2. \A m \in Month : m # closing.month => period'[m] = period[m]
      BY <2>4 DEF SetStatus, TypeOK, LedgerTyped
    <3>3. \A t \in Tx : HoldsMonth(t) => MonthOf[tx[t].payload] \in Month
      BY DEF HoldsMonth, TypeOK, PaymentsTyped, Idle
    <3> QED
      BY <2>1, <2>4, <3>1, <3>2, <3>3 DEF SetStatus, HeldMonthsStayOpen, NoClosing
  <2> QED
    BY <1>3, <2>2, <2>3, <2>4 DEF Closings
<1>4. CASE Reports \/ RedisForgets \/ UNCHANGED vars
  <2>1. UNCHANGED <<payments, months>>
    BY <1>4 DEF Reports, RedisForgets, vars, Ask, Hit, Look, TakeLease, WithoutLease, Compute,
                Publish, Release, ReportStep
  <2> QED
    BY <2>1, SameMonths DEF payments, HoldsMonth
<1> QED
  BY <1>1, <1>2, <1>3, <1>4 DEF Next

\* A payment is committed only into a month that is not closed at that moment,
\* for any number of clerks, transactions and months: the shared and exclusive
\* locks of _acquire_period_locks keep the status that was read.
THEOREM ClosedMonthsStayClosed == Spec => NothingEntersAClosedMonth
<1>1. Init => HeldMonthsStayOpen
  BY InitHeldMonths
<1>2. TypeOK /\ HeldMonthsStayOpen /\ [Next]_vars => HeldMonthsStayOpen'
  BY NextHeldMonths
<1>3. TypeOK /\ Counted /\ HeldMonthsStayOpen /\ [Next]_vars =>
        [\A e \in entries' \ entries : period[MonthOf[e.payload]] # "closed"]_vars
  <2> SUFFICES ASSUME TypeOK, Counted, HeldMonthsStayOpen, [Next]_vars,
                      NEW e \in entries' \ entries
               PROVE  period[MonthOf[e.payload]] # "closed"
    OBVIOUS
  <2>1. PICK t \in Tx : Commit(t)
    BY CountedSteps
  <2>2. HoldsMonth(t) /\ e.payload = tx[t].payload
    BY <2>1 DEF Commit, HoldsMonth
  <2> QED
    BY <2>2 DEF HeldMonthsStayOpen
<1> QED
  BY <1>1, <1>2, <1>3, TypeCorrect, PTL DEF Spec, NothingEntersAClosedMonth

-----------------------------------------------------------------------------
(* Reports.                                                                *)

\* Figures under the key of a generation have seen at least its payments, and
\* a report's generation is not older than the report.
Fresh(g, x) == x.first >= g /\ x.second >= g

ReportIsFresh(r) ==
  /\ report[r].gen = report[r].floor /\ report[r].gen <= generation
  /\ report[r].stage \in {"second", "publish", "release", "done"} => report[r].first >= report[r].gen
  /\ report[r].stage \in {"publish", "release", "done"} => report[r].second >= report[r].gen

FiguresAreFresh ==
  /\ \A x \in cached : Fresh(x.gen, x)
  /\ \A r \in Report : ReportIsFresh(r)

LEMMA InitFresh == Init => FiguresAreFresh
  BY DEF Init, FiguresAreFresh, ReportIsFresh, NoReport

\* One report has moved, and is as fresh as before; the cache has lost figures at most.
LEMMA OneReportMoved ==
  ASSUME TypeOK, FiguresAreFresh, NEW r \in Report, NEW x, report' = [report EXCEPT ![r] = x],
         generation' = generation, cached' \subseteq cached,
         x.gen = x.floor, x.gen <= generation,
         x.stage \in {"second", "publish", "release", "done"} => x.first >= x.gen,
         x.stage \in {"publish", "release", "done"} => x.second >= x.gen
  PROVE  FiguresAreFresh'
<1>1. \A q \in Report : report'[q] = IF q = r THEN x ELSE report[q]
  BY DEF TypeOK, ReportsTyped
<1> QED
  BY <1>1 DEF FiguresAreFresh, ReportIsFresh, Fresh

LEMMA NextFresh ==
  ASSUME TypeOK, Counted, FiguresAreFresh, [Next]_vars PROVE FiguresAreFresh'
<1>1. CASE UNCHANGED <<report, cached>>
  <2>1. generation \in Nat /\ generation' \in Nat /\ generation <= generation'
    BY CountedSteps, NextTypeOK DEF TypeOK, LedgerTyped
  <2>2. \A r \in Report : report[r].gen \in Nat
    BY DEF TypeOK, ReportsTyped
  <2> QED
    BY <1>1, <2>1, <2>2 DEF FiguresAreFresh, ReportIsFresh, Fresh
<1>2. CASE RedisForgets
  BY <1>2 DEF RedisForgets, payments, FiguresAreFresh, ReportIsFresh
<1>3. ASSUME NEW r \in Report,
             \/ Ask(r) \/ Hit(r) \/ Look(r) \/ TakeLease(r) \/ WithoutLease(r)
             \/ Compute(r) \/ Publish(r) \/ Release(r)
      PROVE  FiguresAreFresh'
  <2>1. report \in [Report -> ReportRecord] /\ report[r] \in ReportRecord /\ ReportIsFresh(r)
    BY <1>3 DEF FiguresAreFresh, TypeOK, ReportsTyped, ReportRecord
  <2>2. generation' = generation /\ generation = Seen /\ Seen \in Nat
    BY <1>3 DEF Ask, Hit, Look, TakeLease, WithoutLease, Compute, Publish, Release, ReportStep,
                payments, Counted, Seen, TypeOK, LedgerTyped
  <2>3. report[r].gen \in Nat /\ report[r].first \in Nat /\ report[r].second \in Nat
    BY <2>1 DEF ReportRecord
  <2>4. ASSUME NEW from, NEW to \in {"get", "lease", "first"}, NEW mode,
               ReportStep(r, from, to, mode)
        PROVE  FiguresAreFresh'
    <3> DEFINE x == [[report[r] EXCEPT !.stage = to] EXCEPT !.mode = mode]
    <3>1. x.stage = to /\ x.gen = report[r].gen /\ x.floor = report[r].floor
      BY <2>1 DEF ReportRecord
    <3>2. report' = [report EXCEPT ![r] = x] /\ cached' = cached
      BY <2>1, <2>4 DEF ReportStep
    <3> HIDE DEF x
    <3> QED
      BY <1>3, <2>1, <2>2, <3>1, <3>2, OneReportMoved DEF ReportIsFresh
  <2>5. ASSUME NEW to \in {"again", "first", "release", "done"},
               report' = [report EXCEPT ![r].stage = to], cached' \subseteq cached,
               to \in {"release", "done"} => report[r].stage \in {"publish", "release"}
        PROVE  FiguresAreFresh'
    <3> DEFINE x == [report[r] EXCEPT !.stage = to]
    <3>1. /\ x.stage = to /\ x.gen = report[r].gen /\ x.floor = report[r].floor
          /\ x.first = report[r].first /\ x.second = report[r].second
      BY <2>1 DEF ReportRecord
    <3>2. report' = [report EXCEPT ![r] = x]
      BY <2>1, <2>5
    <3> HIDE DEF x
    <3>3. x.gen = x.floor /\ x.gen <= generation
      BY <2>1, <3>1 DEF ReportIsFresh
    <3>4. x.stage \in {"second", "publish", "release", "done"}
            => x.first >= x.gen /\ x.second >= x.gen
      BY <2>1, <2>5, <3>1 DEF ReportIsFresh
    <3> QED
      BY <1>3, <2>2, <2>5, <3>2, <3>3, <3>4, OneReportMoved
  <2>6. CASE Ask(r)
    <3> DEFINE a == [[NoReport EXCEPT !.stage = "get"] EXCEPT !.gen = generation]
               x == [a EXCEPT !.floor = Seen]
    <3>1. x.stage = "get" /\ x.gen = generation /\ x.floor = Seen
      BY DEF NoReport
    <3>2. report' = [report EXCEPT ![r] = x] /\ cached' = cached
      BY <2>6 DEF Ask
    <3> HIDE DEF x
    <3>3. x.gen = x.floor /\ x.gen <= generation
      BY <2>2, <3>1
    <3>4. x.stage \notin {"second", "publish", "release", "done"}
      BY <3>1
    <3> QED
      BY <1>3, <2>2, <3>2, <3>3, <3>4, OneReportMoved
  <2>7. CASE Hit(r)
    <3> PICK c \in InCache(r) :
          report' = [report EXCEPT ![r].stage = IF @ = "again" THEN "release" ELSE "done",
                                   ![r].first = c.first, ![r].second = c.second]
      BY <2>7 DEF Hit
    <3> DEFINE to == IF report[r].stage = "again" THEN "release" ELSE "done"
               a == [report[r] EXCEPT !.stage = to]
               b == [a EXCEPT !.first = c.first]
               x == [b EXCEPT !.second = c.second]
    <3>1. c.first >= report[r].gen /\ c.second >= report[r].gen
      BY DEF InCache, CacheKey, FiguresAreFresh, Fresh
    <3>2. /\ x.gen = report[r].gen /\ x.floor = report[r].floor
          /\ x.first = c.first /\ x.second = c.second
      BY <2>1 DEF ReportRecord
    <3>3. report' = [report EXCEPT ![r] = x] /\ cached' = cached
      BY <2>1, <2>7 DEF Hit
    <3> HIDE DEF x
    <3>4. x.gen = x.floor /\ x.gen <= generation
      BY <2>1, <3>2 DEF ReportIsFresh
    <3>5. x.first >= x.gen /\ x.second >= x.gen
      BY <3>1, <3>2
    <3> QED
      BY <1>3, <2>2, <3>3, <3>4, <3>5, OneReportMoved
  <2>8. CASE Look(r)
    <3>1. ASSUME ReportStep(r, "get", "lease", "alone") \/ ReportStep(r, "again", "first", "owner")
                 \/ ReportStep(r, "get", "first", "alone") \/ ReportStep(r, "again", "first", "quiet")
          PROVE  FiguresAreFresh'
      BY <2>4, <3>1
    <3> QED
      BY <2>8, <3>1 DEF Look
  <2>9. CASE TakeLease(r)
    BY <2>5, <2>9 DEF TakeLease
  <2>10. CASE WithoutLease(r)
    <3>1. ASSUME ReportStep(r, "lease", "get", "alone") \/ ReportStep(r, "lease", "first", "alone")
          PROVE  FiguresAreFresh'
      BY <2>4, <3>1
    <3> QED
      BY <2>10, <3>1 DEF WithoutLease
  <2>11. CASE Compute(r)
    <3>1. ASSUME report[r].stage = "first",
                 report' = [report EXCEPT ![r].stage = "second", ![r].first = Seen]
          PROVE  FiguresAreFresh'
      <4> DEFINE x == [[report[r] EXCEPT !.stage = "second"] EXCEPT !.first = Seen]
      <4>1. /\ x.stage = "second" /\ x.gen = report[r].gen /\ x.floor = report[r].floor
            /\ x.first = Seen
        BY <2>1 DEF ReportRecord
      <4>2. report' = [report EXCEPT ![r] = x] /\ cached' = cached
        BY <2>1, <2>11, <3>1 DEF Compute
      <4> HIDE DEF x
      <4> QED
        BY <1>3, <2>1, <2>2, <2>3, <4>1, <4>2, OneReportMoved DEF ReportIsFresh
    <3>2. ASSUME report[r].stage = "second",
                 report' = [report EXCEPT ![r].stage = AfterCompute(r), ![r].second = Seen]
          PROVE  FiguresAreFresh'
      <4> DEFINE x == [[report[r] EXCEPT !.stage = AfterCompute(r)] EXCEPT !.second = Seen]
      <4>1. /\ x.gen = report[r].gen /\ x.floor = report[r].floor
            /\ x.first = report[r].first /\ x.second = Seen
        BY <2>1 DEF ReportRecord
      <4>2. report' = [report EXCEPT ![r] = x] /\ cached' = cached
        BY <2>1, <2>11, <3>2 DEF Compute
      <4> HIDE DEF x
      <4>3. x.gen = x.floor /\ x.gen <= generation
        BY <2>1, <4>1 DEF ReportIsFresh
      <4>4. x.first >= x.gen /\ x.second >= x.gen
        BY <2>1, <2>2, <2>3, <3>2, <4>1 DEF ReportIsFresh
      <4> QED
        BY <1>3, <2>2, <4>2, <4>3, <4>4, OneReportMoved
    <3> QED
      BY <2>11, <3>1, <3>2 DEF Compute
  <2>12. CASE Publish(r)
    <3>1. CASE ReportStep(r, "publish", "release", "owner")
      <4> DEFINE x == [[report[r] EXCEPT !.stage = "release"] EXCEPT !.mode = "owner"]
      <4>1. /\ x.stage = "release" /\ x.gen = report[r].gen /\ x.floor = report[r].floor
            /\ x.first = report[r].first /\ x.second = report[r].second
        BY <2>1 DEF ReportRecord
      <4>2. /\ report' = [report EXCEPT ![r] = x] /\ cached' = cached
            /\ report[r].stage = "publish"
        BY <2>1, <3>1 DEF ReportStep
      <4> HIDE DEF x
      <4> QED
        BY <1>3, <2>1, <2>2, <4>1, <4>2, OneReportMoved DEF ReportIsFresh
    <3>2. ASSUME ~ReportStep(r, "publish", "release", "owner") PROVE FiguresAreFresh'
      <4> DEFINE x == [report[r] EXCEPT !.stage = "release"]
                 c == [gen |-> CacheKey(r), first |-> report[r].first, second |-> report[r].second]
      <4>1. /\ report[r].stage = "publish" /\ report' = [report EXCEPT ![r] = x]
            /\ cached' \subseteq cached \cup {c}
        BY <2>1, <2>12, <3>2 DEF Publish
      <4>2. Fresh(c.gen, c)
        BY <2>1, <4>1 DEF Fresh, CacheKey, ReportIsFresh
      <4>3. /\ x.stage = "release" /\ x.gen = report[r].gen /\ x.floor = report[r].floor
            /\ x.first = report[r].first /\ x.second = report[r].second
        BY <2>1 DEF ReportRecord
      <4>4. \A y \in cached' : Fresh(y.gen, y)
        <5> HIDE DEF c
        <5> QED
          BY <4>1, <4>2 DEF FiguresAreFresh
      <4> HIDE DEF x
      <4>5. \A q \in Report : report'[q] = IF q = r THEN x ELSE report[q]
        BY <2>1, <4>1
      <4>6. \A q \in Report : ReportIsFresh(q)'
        BY <2>1, <2>2, <4>1, <4>3, <4>5 DEF ReportIsFresh, FiguresAreFresh
      <4> QED
        BY <4>4, <4>6 DEF FiguresAreFresh, Fresh
    <3> QED
      BY <3>1, <3>2
  <2>13. CASE Release(r)
    BY <2>5, <2>13 DEF Release
  <2> QED
    BY <1>3, <2>6, <2>7, <2>8, <2>9, <2>10, <2>11, <2>12, <2>13
<1>4. CASE Forms \/ Payments \/ Closings \/ UNCHANGED vars
  <2>1. UNCHANGED <<report, cached>>
    BY <1>4 DEF Forms, Submit, SubmitByHand, LoseAnswer, CloseForm, Payments, LockAccount,
                FindOriginal, CheckPeriod, Advance, FlushKey, Answer, Commit, CommitFails, Abort,
                Goes, Replay, Refuse,
                Closings, RequestClosing, LockMonth, SetStatus, vars, analytics
  <2> QED
    BY <1>1, <2>1
<1> QED
  BY <1>2, <1>3, <1>4 DEF Next, Reports

\* A report is never older than the moment it was asked for, whoever computed
\* its figures and however late they were published: the generation in the key
\* keeps figures from before a commit away from those who ask after it.
THEOREM ReportsCurrent == Spec => []ReportsAreCurrent
<1>1. Init => FiguresAreFresh
  BY InitFresh
<1>2. TypeOK /\ Counted /\ FiguresAreFresh /\ [Next]_vars => FiguresAreFresh'
  BY NextFresh
<1>3. FiguresAreFresh => ReportsAreCurrent
  BY DEF FiguresAreFresh, ReportIsFresh, ReportsAreCurrent
<1> QED
  BY <1>1, <1>2, <1>3, TypeCorrect, PTL DEF Spec

-----------------------------------------------------------------------------
(* Payments are recorded once.                                             *)

Asks(t, k, p) == tx[t] # Idle /\ tx[t].clerk = k /\ tx[t].payload = p

\* A key stands for a payment k meant to record: one is recorded, asked for, or
\* will be asked for again by the form.
Meant(k, p, key) ==
  \/ \E e \in PaymentsOf(k, p) : e.key = key
  \/ \E t \in Tx : Asks(t, k, p) /\ tx[t].key = key
  \/ unsure[k] = p /\ form[k].key = key

KeysOf(k, p) == {key \in 1 .. submits : Meant(k, p, key)}

\* The payments the form has no open question about.
Settled(k, p) == {e \in PaymentsOf(k, p) : e.key # form[k].key}

KeysAreUnique == \A e, f \in entries : e.clerk = f.clerk /\ e.key = f.key => e = f

KeysAreIssued ==
  /\ \A e \in entries : e.key \in 1 .. submits
  /\ \A t \in Tx : tx[t] # Idle => tx[t].key \in 1 .. submits
  /\ \A k \in Clerk : form[k].key \in 0 .. submits

CommitsAreNew ==
  \A t \in Tx : tx[t].stage \in {"answer", "commit"} => Recorded(tx[t].clerk, tx[t].key) = {}

\* Between its answer and its commit no form waits for a transaction, nor has
\* the form that was told of it the key any more.
AnsweredIsLetGo ==
  /\ \A k \in Clerk : form[k].waits # None => tx[form[k].waits].stage # "commit"
  /\ \A t \in told : tx[t].stage = "commit" /\ form[tx[t].clerk].key # tx[t].key

FormsWaitForTheirOwn ==
  \A k \in Clerk :
    /\ form[k].waits # None => /\ Asks(form[k].waits, k, form[k].signature)
                               /\ tx[form[k].waits].key = form[k].key
    /\ unsure[k] = form[k].signature
    /\ form[k] # Empty => form[k].signature \in Payload /\ form[k].key # 0

MeantCovers == \A k \in Clerk, p \in Payload : Cardinality(KeysOf(k, p)) <= wanted[k][p]

AcksAreSettled ==
  \A k \in Clerk, p \in Payload :
    acked[k][p] <= Cardinality(Settled(k, p)) + Cardinality(Told(k, p)) + undone[k][p]

PaidInv ==
  /\ KeysAreUnique /\ KeysAreIssued /\ CommitsAreNew /\ FormsWaitForTheirOwn
  /\ AnsweredIsLetGo /\ MeantCovers /\ AcksAreSettled

LEMMA KeysFinite ==
  ASSUME TypeOK, NEW k, NEW p
  PROVE  IsFiniteSet(KeysOf(k, p)) /\ Cardinality(KeysOf(k, p)) \in Nat
<1>1. submits \in Int /\ IsFiniteSet(1 .. submits)
  BY FS_Interval DEF TypeOK, LedgerTyped
<1>2. KeysOf(k, p) \in SUBSET (1 .. submits)
  BY DEF KeysOf
<1> QED
  BY <1>1, <1>2, FS_Subset, FS_CardinalityType

LEMMA SettledFinite ==
  ASSUME IsFiniteSet(entries), NEW k, NEW p
  PROVE  /\ IsFiniteSet(PaymentsOf(k, p)) /\ Cardinality(PaymentsOf(k, p)) \in Nat
         /\ IsFiniteSet(Settled(k, p)) /\ Cardinality(Settled(k, p)) \in Nat
         /\ Cardinality(Settled(k, p)) <= Cardinality(PaymentsOf(k, p))
<1>1. PaymentsOf(k, p) \in SUBSET entries /\ Settled(k, p) \in SUBSET PaymentsOf(k, p)
  BY DEF PaymentsOf, Settled
<1>2. IsFiniteSet(PaymentsOf(k, p))
  BY <1>1, FS_Subset
<1> QED
  BY <1>1, <1>2, FS_Subset, FS_CardinalityType

\* Only one transaction has moved the generation, and only such a one has been
\* answered before its commit.
LEMMA ToldAlone ==
  ASSUME TypeOK, AnsweredIsLetGo, NEW k, NEW p
  PROVE  /\ \A t \in Told(k, p) : Told(k, p) = {t}
         /\ \A t \in Tx : tx[t].stage = "answer" => Told(k, p) = {}
         /\ Cardinality(Told(k, p)) \in Nat
<1>1. \A t, u \in told : t = u
  BY DEF AnsweredIsLetGo, TypeOK, FormsTyped, LocksExclude, HoldsGeneration
<1>2. \A t \in Told(k, p) : Told(k, p) = {t}
  BY <1>1 DEF Told
<1>3. \A t \in Tx : tx[t].stage = "answer" => Told(k, p) = {}
  <2> SUFFICES ASSUME NEW t \in Tx, tx[t].stage = "answer", NEW u \in Told(k, p)
               PROVE  FALSE
    OBVIOUS
  <2>1. u \in Tx /\ tx[u].stage = "commit" /\ t # u
    BY DEF Told, AnsweredIsLetGo, TypeOK, FormsTyped
  <2> QED
    BY <2>1 DEF TypeOK, LocksExclude, HoldsGeneration
<1>4. Cardinality(Told(k, p)) \in Nat
  <2>1. CASE Told(k, p) = {}
    BY <2>1, FS_EmptySet
  <2>2. CASE Told(k, p) # {}
    <3>1. PICK t \in Told(k, p) : Told(k, p) = {t}
      BY <1>2, <2>2
    <3>2. Cardinality({t}) = 1
      BY FS_Singleton
    <3> QED
      BY <3>1, <3>2
  <2> QED
    BY <2>1, <2>2
<1> QED
  BY <1>2, <1>3, <1>4

\* Different payments of a clerk have different keys.
LEMMA PaidFromInv == TypeOK /\ Counted /\ PaidInv => PaidOnce
<1> SUFFICES ASSUME TypeOK, Counted, PaidInv, NEW k \in Clerk, NEW p \in Payload
             PROVE  /\ acked[k][p] <= Cardinality(PaymentsOf(k, p)) + Cardinality(Told(k, p))
                                        + undone[k][p]
                    /\ Cardinality(PaymentsOf(k, p)) <= wanted[k][p]
  BY DEF PaidOnce
<1>1. acked[k][p] <= Cardinality(PaymentsOf(k, p)) + Cardinality(Told(k, p)) + undone[k][p]
  <2>1. acked[k][p] \in Nat /\ undone[k][p] \in Nat
    BY DEF TypeOK, FormsTyped
  <2>2. acked[k][p] <= Cardinality(Settled(k, p)) + Cardinality(Told(k, p)) + undone[k][p]
    BY DEF PaidInv, AcksAreSettled
  <2>3. Cardinality(Told(k, p)) \in Nat
    BY ToldAlone DEF PaidInv
  <2>4. /\ Cardinality(PaymentsOf(k, p)) \in Nat /\ Cardinality(Settled(k, p)) \in Nat
        /\ Cardinality(Settled(k, p)) <= Cardinality(PaymentsOf(k, p))
    BY SettledFinite DEF Counted
  <2> QED
    BY <2>1, <2>2, <2>3, <2>4
<1>2. Cardinality(PaymentsOf(k, p)) <= wanted[k][p]
  <2> DEFINE f == [e \in PaymentsOf(k, p) |-> e.key]
  <2>1. \A e \in PaymentsOf(k, p) : e.key \in KeysOf(k, p)
    BY DEF PaymentsOf, KeysOf, Meant, PaidInv, KeysAreIssued
  <2>2. f \in [PaymentsOf(k, p) -> KeysOf(k, p)]
    BY <2>1
  <2>3. \A a, b \in PaymentsOf(k, p) : f[a] = f[b] => a = b
    BY DEF PaidInv, KeysAreUnique, PaymentsOf
  <2>4. f \in Injection(PaymentsOf(k, p), KeysOf(k, p))
    BY <2>2, <2>3 DEF Injection, IsInjective
  <2>5. Cardinality(PaymentsOf(k, p)) <= Cardinality(KeysOf(k, p))
    BY <2>4, KeysFinite, FS_Injection
  <2>6. Cardinality(KeysOf(k, p)) <= wanted[k][p] /\ wanted[k][p] \in Nat
    BY DEF PaidInv, MeantCovers, TypeOK, FormsTyped
  <2> QED
    BY <2>5, <2>6, KeysFinite, SettledFinite DEF Counted
<1> QED
  BY <1>1, <1>2

LEMMA InitPaid == Init => PaidInv
<1> SUFFICES ASSUME Init PROVE PaidInv
  OBVIOUS
<1>1. KeysAreUnique /\ KeysAreIssued /\ CommitsAreNew /\ FormsWaitForTheirOwn /\ AnsweredIsLetGo
  BY DEF Init, KeysAreUnique, KeysAreIssued, CommitsAreNew, FormsWaitForTheirOwn,
         AnsweredIsLetGo, Empty, Idle
<1>2. ASSUME NEW k \in Clerk, NEW p \in Payload
      PROVE  /\ Cardinality(KeysOf(k, p)) <= wanted[k][p]
             /\ acked[k][p] <= Cardinality(Settled(k, p)) + Cardinality(Told(k, p)) + undone[k][p]
  <2>1. KeysOf(k, p) = {} /\ Settled(k, p) = {} /\ Told(k, p) = {}
    BY DEF Init, KeysOf, Settled, PaymentsOf, Told
  <2> QED
    BY <2>1, FS_EmptySet DEF Init
<1> QED
  BY <1>1, <1>2 DEF PaidInv, MeantCovers, AcksAreSettled

\* The two counts stay right for one clerk and payload when the sets move so.
LEMMA MeantStays ==
  ASSUME TypeOK, TypeOK', NEW k, NEW p, NEW n \in Nat,
         Cardinality(KeysOf(k, p)) <= n, KeysOf(k, p)' \subseteq KeysOf(k, p)
  PROVE  Cardinality(KeysOf(k, p)') <= n
<1>1. KeysOf(k, p)' \in SUBSET KeysOf(k, p)
  OBVIOUS
<1>2. /\ IsFiniteSet(KeysOf(k, p)') /\ Cardinality(KeysOf(k, p)') \in Nat
      /\ Cardinality(KeysOf(k, p)') <= Cardinality(KeysOf(k, p))
  BY <1>1, KeysFinite, FS_Subset, FS_CardinalityType
<1> QED
  BY <1>2, KeysFinite

LEMMA MeantOneMore ==
  ASSUME TypeOK, NEW k, NEW p, NEW key, NEW n \in Nat,
         Cardinality(KeysOf(k, p)) <= n, KeysOf(k, p)' \subseteq KeysOf(k, p) \cup {key}
  PROVE  Cardinality(KeysOf(k, p)') <= n + 1
<1>1. KeysOf(k, p)' \in SUBSET (KeysOf(k, p) \cup {key})
  OBVIOUS
<1>2. /\ IsFiniteSet(KeysOf(k, p) \cup {key})
      /\ Cardinality(KeysOf(k, p) \cup {key}) <= Cardinality(KeysOf(k, p)) + 1
      /\ Cardinality(KeysOf(k, p) \cup {key}) \in Nat
  <2>1. IsFiniteSet(KeysOf(k, p)) /\ Cardinality(KeysOf(k, p)) \in Nat
    BY KeysFinite
  <2>2. IsFiniteSet(KeysOf(k, p) \cup {key})
    BY <2>1, FS_AddElement
  <2>3. \/ Cardinality(KeysOf(k, p) \cup {key}) = Cardinality(KeysOf(k, p))
        \/ Cardinality(KeysOf(k, p) \cup {key}) = Cardinality(KeysOf(k, p)) + 1
    BY <2>1, FS_AddElement
  <2> QED
    BY <2>1, <2>2, <2>3
<1>3. /\ Cardinality(KeysOf(k, p)') \in Nat
      /\ Cardinality(KeysOf(k, p)') <= Cardinality(KeysOf(k, p) \cup {key})
  BY <1>1, <1>2, FS_Subset, FS_CardinalityType
<1> QED
  BY <1>2, <1>3, KeysFinite

LEMMA NewSettledFinite ==
  ASSUME IsFiniteSet(entries'), NEW k, NEW p
  PROVE  IsFiniteSet(Settled(k, p)') /\ Cardinality(Settled(k, p)') \in Nat
<1>1. Settled(k, p)' \in SUBSET entries'
  BY DEF PaymentsOf, Settled
<1> QED
  BY <1>1, FS_Subset, FS_CardinalityType

LEMMA SettledStays ==
  ASSUME IsFiniteSet(entries), IsFiniteSet(entries'), NEW k, NEW p, NEW n \in Nat,
         n <= Cardinality(Settled(k, p)), Settled(k, p) \subseteq Settled(k, p)'
  PROVE  n <= Cardinality(Settled(k, p)')
<1>1. PaymentsOf(k, p)' \in SUBSET entries' /\ Settled(k, p)' \in SUBSET PaymentsOf(k, p)'
  BY DEF PaymentsOf, Settled
<1>2. IsFiniteSet(Settled(k, p)') /\ Cardinality(Settled(k, p)') \in Nat
  BY <1>1, FS_Subset, FS_CardinalityType
<1>3. Settled(k, p) \in SUBSET Settled(k, p)'
  OBVIOUS
<1>4. Cardinality(Settled(k, p)) <= Cardinality(Settled(k, p)')
  BY <1>2, <1>3, FS_Subset
<1> QED
  BY <1>2, <1>4, SettledFinite

LEMMA SettledOneMore ==
  ASSUME IsFiniteSet(entries), IsFiniteSet(entries'), NEW k, NEW p, NEW n \in Nat, NEW e,
         n <= Cardinality(Settled(k, p)), e \notin Settled(k, p),
         Settled(k, p) \cup {e} \subseteq Settled(k, p)'
  PROVE  n + 1 <= Cardinality(Settled(k, p)')
<1>1. PaymentsOf(k, p)' \in SUBSET entries' /\ Settled(k, p)' \in SUBSET PaymentsOf(k, p)'
  BY DEF PaymentsOf, Settled
<1>2. IsFiniteSet(Settled(k, p)') /\ Cardinality(Settled(k, p)') \in Nat
  BY <1>1, FS_Subset, FS_CardinalityType
<1>3. Settled(k, p) \cup {e} \in SUBSET Settled(k, p)'
  OBVIOUS
<1>4. Cardinality(Settled(k, p) \cup {e}) <= Cardinality(Settled(k, p)')
  BY <1>2, <1>3, FS_Subset
<1>5. Cardinality(Settled(k, p) \cup {e}) = Cardinality(Settled(k, p)) + 1
  BY SettledFinite, FS_AddElement
<1> QED
  BY <1>2, <1>4, <1>5, SettledFinite

\* The form of t learns how it ended, or that it has succeeded and its commit
\* follows.
LEMMA PaidLearns ==
  ASSUME TypeOK, TypeOK', Counted, Counted', PaidInv, NEW t \in Tx, tx[t] # Idle, NEW success,
         tx[t].stage # "commit", Learns(t, success), UNCHANGED <<entries, submits>>,
         \A u \in Tx : u # t => tx'[u] = tx[u],
         \/ tx'[t] = Idle
         \/ /\ success /\ tx[t].stage = "answer" /\ tx'[t].clerk = tx[t].clerk
            /\ tx'[t].key = tx[t].key /\ tx'[t].payload = tx[t].payload
  PROVE  /\ KeysAreUnique' /\ KeysAreIssued' /\ CommitsAreNew' /\ FormsWaitForTheirOwn'
         /\ MeantCovers'
         /\ \A k \in Clerk : form'[k].key \in {form[k].key, 0}
         /\ \A k \in Clerk : form'[k].waits # None => form'[k] = form[k] /\ form[k].waits # t
         /\ form[tx[t].clerk].waits = t => form[tx[t].clerk].key = tx[t].key
         /\ \/ acked' = acked
            \/ /\ form[tx[t].clerk].waits = t /\ success /\ form'[tx[t].clerk] = Empty
               /\ acked' = [acked EXCEPT ![tx[t].clerk][tx[t].payload] = @ + 1]
<1>1. tx[t].stage # "idle" /\ tx[t].stage \in Stages
  BY DEF TypeOK, PaymentsTyped
<1>2. /\ tx[t].clerk \in Clerk /\ tx[t].payload \in Payload /\ tx[t].key \in 1 .. submits
      /\ submits \in Nat
  BY DEF TypeOK, PaymentsTyped, LedgerTyped, PaidInv, KeysAreIssued
<1> DEFINE c == tx[t].clerk
<1>3. /\ \A k \in Clerk :
           \/ /\ form'[k] = form[k] /\ unsure'[k] = unsure[k]
              /\ form[k].waits = t => k # c
           \/ /\ k = c /\ form[k].waits = t /\ form'[k] = [form[k] EXCEPT !.waits = None]
              /\ unsure'[k] = unsure[k]
           \/ k = c /\ form[k].waits = t /\ success /\ form'[k] = Empty /\ unsure'[k] = None
      /\ \/ acked' = acked
         \/ /\ form[c].waits = t /\ success /\ form'[c] = Empty
            /\ acked' = [acked EXCEPT ![c][tx[t].payload] = @ + 1]
  BY <1>2 DEF Learns, TypeOK, FormsTyped
<1>4. \A k \in Clerk : form[k].waits = t => /\ k = c /\ form[k].key = tx[t].key
                                           /\ form[k].signature = tx[t].payload
  BY DEF PaidInv, FormsWaitForTheirOwn, Asks, TypeOK, FormsTyped, PaymentsTyped
<1>5. \A k \in Clerk : form'[k].key \in {form[k].key, 0}
  <2> SUFFICES ASSUME NEW k \in Clerk PROVE form'[k].key \in {form[k].key, 0}
    OBVIOUS
  <2>1. ASSUME form'[k] = [form[k] EXCEPT !.waits = None] PROVE form'[k].key = form[k].key
    BY <2>1 DEF TypeOK, FormsTyped
  <2>2. Empty.key = 0
    BY DEF Empty
  <2> QED
    BY <1>3, <2>1, <2>2
<1>6. KeysAreUnique' /\ KeysAreIssued'
  BY <1>2, <1>5 DEF PaidInv, KeysAreUnique, KeysAreIssued
<1>7. CommitsAreNew'
  BY DEF PaidInv, CommitsAreNew, Recorded, Idle
<1>8. \A k \in Clerk : form'[k].waits # None => form'[k] = form[k] /\ form[k].waits # t
  <2> SUFFICES ASSUME NEW k \in Clerk, form'[k].waits # None
               PROVE  form'[k] = form[k] /\ form[k].waits # t
    OBVIOUS
  <2>1. [form[k] EXCEPT !.waits = None].waits = None /\ Empty.waits = None
    BY DEF TypeOK, FormsTyped, Empty
  <2> QED
    BY <1>3, <1>4, <2>1
<1>9. FormsWaitForTheirOwn'
  <2> SUFFICES ASSUME NEW k \in Clerk
               PROVE  /\ form'[k].waits # None =>
                           /\ Asks(form[k].waits, k, form[k].signature)'
                           /\ tx'[form'[k].waits].key = form'[k].key
                      /\ unsure'[k] = form'[k].signature
                      /\ form'[k] # Empty => form'[k].signature \in Payload /\ form'[k].key # 0
    BY DEF FormsWaitForTheirOwn
  <2>1. CASE form'[k] = form[k] /\ unsure'[k] = unsure[k] /\ form[k].waits # t
    <3>1. form[k].waits # None => form[k].waits \in Tx /\ tx'[form[k].waits] = tx[form[k].waits]
      BY <2>1 DEF TypeOK, FormsTyped
    <3> QED
      BY <2>1, <3>1 DEF PaidInv, FormsWaitForTheirOwn, Asks
  <2>2. CASE form'[k] = [form[k] EXCEPT !.waits = None] /\ unsure'[k] = unsure[k]
             /\ form[k].waits = t
    <3>1. /\ form'[k].waits = None /\ form'[k].key = form[k].key
          /\ form'[k].signature = form[k].signature
      BY <2>2 DEF TypeOK, FormsTyped
    <3>2. form[k] # Empty
      BY <2>2 DEF Empty
    <3> QED
      BY <2>2, <3>1, <3>2 DEF PaidInv, FormsWaitForTheirOwn
  <2>3. CASE form'[k] = Empty /\ unsure'[k] = None
    BY <2>3 DEF Empty
  <2> QED
    BY <1>3, <1>4, <2>1, <2>2, <2>3
<1>10. MeantCovers'
  <2> SUFFICES ASSUME NEW k \in Clerk, NEW p \in Payload
               PROVE  Cardinality(KeysOf(k, p)') <= wanted'[k][p]
    BY DEF MeantCovers
  <2>1. ASSUME NEW key \in 1 .. submits, Meant(k, p, key)' PROVE Meant(k, p, key)
    <3>1. CASE \E e \in PaymentsOf(k, p)' : e.key = key
      BY <3>1 DEF PaymentsOf, Meant
    <3>2. CASE \E u \in Tx : Asks(u, k, p)' /\ tx'[u].key = key
      BY <3>2 DEF Asks, Meant
    <3>3. CASE unsure'[k] = p /\ form'[k].key = key
      <4>1. form'[k].key # 0 /\ unsure'[k] # None
        BY <2>1, <3>3, RequestConstants
      <4>2. unsure'[k] = unsure[k]
        BY <1>3, <4>1
      <4>3. form'[k].key = form[k].key
        BY <1>5, <4>1
      <4> QED
        BY <3>3, <4>2, <4>3 DEF Meant
    <3> QED
      BY <2>1, <3>1, <3>2, <3>3 DEF Meant
  <2>2. KeysOf(k, p)' \subseteq KeysOf(k, p)
    BY <2>1 DEF KeysOf
  <2>3. wanted' = wanted /\ wanted[k][p] \in Nat
    BY DEF Learns, TypeOK, FormsTyped
  <2> QED
    BY <2>2, <2>3, MeantStays DEF PaidInv, MeantCovers
<1> QED
  BY <1>2, <1>3, <1>4, <1>5, <1>6, <1>7, <1>8, <1>9, <1>10

\* The counts after a step that tells nobody of a success and commits nothing.
LEMMA AcksStay ==
  ASSUME TypeOK, TypeOK', Counted, Counted', PaidInv, NEW k \in Clerk, NEW p \in Payload,
         acked'[k][p] = acked[k][p], undone'[k][p] = undone[k][p],
         Told(k, p)' = Told(k, p), Settled(k, p) \subseteq Settled(k, p)'
  PROVE  acked'[k][p] <= Cardinality(Settled(k, p)') + Cardinality(Told(k, p)') + undone'[k][p]
<1>1. acked[k][p] <= Cardinality(Settled(k, p)) + Cardinality(Told(k, p)) + undone[k][p]
  BY DEF PaidInv, AcksAreSettled
<1>2. /\ Cardinality(Settled(k, p)) \in Nat /\ Cardinality(Settled(k, p)') \in Nat
      /\ Cardinality(Settled(k, p)) <= Cardinality(Settled(k, p)')
  <2>1. IsFiniteSet(entries) /\ IsFiniteSet(entries')
    BY DEF Counted
  <2>2. Cardinality(Settled(k, p)) \in Nat /\ Cardinality(Settled(k, p)') \in Nat
    BY <2>1, SettledFinite, NewSettledFinite
  <2> QED
    BY <2>1, <2>2, SettledStays
<1>3. Cardinality(Told(k, p)) \in Nat
  BY ToldAlone DEF PaidInv
<1>4. acked[k][p] \in Nat /\ undone[k][p] \in Nat
  BY DEF TypeOK, FormsTyped
<1> QED
  BY <1>1, <1>2, <1>3, <1>4

\* One payment more that the form has no question about, for one success more
\* or for one that was told before.
LEMMA OneMoreSettled ==
  ASSUME TypeOK, TypeOK', Counted, Counted', PaidInv, NEW k \in Clerk, NEW p \in Payload, NEW e,
         e \notin Settled(k, p), e \in Settled(k, p)', undone'[k][p] = undone[k][p],
         Settled(k, p) \subseteq Settled(k, p)',
         \/ acked'[k][p] = acked[k][p] + 1 /\ Told(k, p)' = Told(k, p)
         \/ /\ acked'[k][p] = acked[k][p]
            /\ Cardinality(Told(k, p)) = 1 /\ Cardinality(Told(k, p)') = 0
  PROVE  acked'[k][p] <= Cardinality(Settled(k, p)') + Cardinality(Told(k, p)') + undone'[k][p]
<1>1. acked[k][p] <= Cardinality(Settled(k, p)) + Cardinality(Told(k, p)) + undone[k][p]
  BY DEF PaidInv, AcksAreSettled
<1>2. /\ Cardinality(Settled(k, p)) \in Nat /\ Cardinality(Settled(k, p)') \in Nat
      /\ Cardinality(Settled(k, p)) + 1 <= Cardinality(Settled(k, p)')
  <2>1. IsFiniteSet(entries) /\ IsFiniteSet(entries')
    BY DEF Counted
  <2>2. Cardinality(Settled(k, p)) \in Nat /\ Cardinality(Settled(k, p)') \in Nat
    BY <2>1, SettledFinite, NewSettledFinite
  <2>3. Settled(k, p) \cup {e} \subseteq Settled(k, p)'
    OBVIOUS
  <2> QED
    BY <2>1, <2>2, <2>3, SettledOneMore
<1>3. Cardinality(Told(k, p)) \in Nat
  BY ToldAlone DEF PaidInv
<1>4. acked[k][p] \in Nat /\ undone[k][p] \in Nat
  BY DEF TypeOK, FormsTyped
<1> QED
  BY <1>1, <1>2, <1>3, <1>4

\* The counts after a step that ends no transaction.
LEMMA CountsMove ==
  ASSUME TypeOK, TypeOK', Counted, Counted', PaidInv, UNCHANGED <<acked, undone>>,
         \A k \in Clerk, p \in Payload : Told(k, p)' = Told(k, p),
         \A k \in Clerk, p \in Payload : Settled(k, p) \subseteq Settled(k, p)',
         \A k \in Clerk, p \in Payload :
           \/ /\ wanted'[k][p] = wanted[k][p]
              /\ KeysOf(k, p)' \subseteq KeysOf(k, p)
           \/ /\ wanted'[k][p] = wanted[k][p] + 1
              /\ \E key : KeysOf(k, p)' \subseteq KeysOf(k, p) \cup {key}
  PROVE  MeantCovers' /\ AcksAreSettled'
<1> SUFFICES ASSUME NEW k \in Clerk, NEW p \in Payload
             PROVE  /\ Cardinality(KeysOf(k, p)') <= wanted'[k][p]
                    /\ acked'[k][p] <= Cardinality(Settled(k, p)') + Cardinality(Told(k, p)')
                                        + undone'[k][p]
  BY DEF MeantCovers, AcksAreSettled
<1>1. wanted[k][p] \in Nat /\ Cardinality(KeysOf(k, p)) <= wanted[k][p]
  BY DEF PaidInv, MeantCovers, TypeOK, FormsTyped
<1>2. ASSUME KeysOf(k, p)' \subseteq KeysOf(k, p)
      PROVE  Cardinality(KeysOf(k, p)') <= wanted[k][p]
  BY <1>1, <1>2, MeantStays
<1>3. ASSUME NEW key, KeysOf(k, p)' \subseteq KeysOf(k, p) \cup {key}
      PROVE  Cardinality(KeysOf(k, p)') <= wanted[k][p] + 1
  BY <1>1, <1>3, MeantOneMore
<1>4. acked'[k][p] <= Cardinality(Settled(k, p)') + Cardinality(Told(k, p)') + undone'[k][p]
  BY AcksStay
<1> QED
  BY <1>2, <1>3, <1>4

\* A key that stands for something has been issued.
LEMMA MeantIssued ==
  ASSUME TypeOK, PaidInv, NEW k \in Clerk, NEW p \in Payload, NEW key, Meant(k, p, key)
  PROVE  key \in 0 .. submits /\ (key # 0 => key \in KeysOf(k, p))
<1>1. submits \in Nat
  BY DEF TypeOK, LedgerTyped
<1>2. key \in 0 .. submits
  BY <1>1 DEF Meant, Asks, PaymentsOf, PaidInv, KeysAreIssued
<1> QED
  BY <1>1, <1>2 DEF KeysOf

\* Transactions that go on, and steps of the other actors.
LEMMA PaidGoesOn ==
  ASSUME TypeOK, TypeOK', Counted, Counted', PaidInv,
         UNCHANGED <<form, entries, ghosts, submits>>,
         \A u \in Tx :
           \/ tx'[u] = tx[u]
           \/ /\ tx[u] # Idle /\ tx'[u] # Idle
              /\ tx'[u].clerk = tx[u].clerk /\ tx'[u].payload = tx[u].payload
              /\ tx'[u].key = tx[u].key
              /\ tx[u].stage # "commit" /\ tx'[u].stage # "commit"
              /\ tx'[u].stage = "answer" => Recorded(tx[u].clerk, tx[u].key) = {}
  PROVE  PaidInv'
<1>1. KeysAreUnique' /\ KeysAreIssued' /\ CommitsAreNew'
  BY DEF PaidInv, KeysAreUnique, KeysAreIssued, CommitsAreNew, Recorded, ghosts
<1>2. \A u \in Tx, k \in Clerk, p \in Payload : Asks(u, k, p)' <=> Asks(u, k, p)
  BY DEF Asks
<1>3. FormsWaitForTheirOwn'
  <2> SUFFICES ASSUME NEW k \in Clerk
               PROVE  /\ form[k].waits # None =>
                           /\ Asks(form[k].waits, k, form[k].signature)'
                           /\ tx'[form[k].waits].key = form[k].key
                      /\ unsure[k] = form[k].signature
                      /\ form[k] # Empty => form[k].signature \in Payload /\ form[k].key # 0
    BY DEF FormsWaitForTheirOwn, ghosts
  <2>1. form[k].waits # None => form[k].waits \in Tx
    BY DEF TypeOK, FormsTyped
  <2> QED
    BY <2>1 DEF PaidInv, FormsWaitForTheirOwn, Asks
<1>4. \A k \in Clerk, p \in Payload : Settled(k, p) \subseteq Settled(k, p)'
  BY DEF Settled, PaymentsOf
<1>5. \A k \in Clerk, p \in Payload : KeysOf(k, p)' \subseteq KeysOf(k, p)
  BY <1>2 DEF KeysOf, Meant, PaymentsOf, ghosts
<1>6. told' = told /\ \A u \in told : tx'[u] = tx[u]
  BY DEF PaidInv, AnsweredIsLetGo, TypeOK, FormsTyped, ghosts
<1>7. AnsweredIsLetGo'
  <2>1. ASSUME NEW k \in Clerk, form[k].waits # None PROVE tx'[form[k].waits].stage # "commit"
    <3>1. form[k].waits \in Tx /\ tx[form[k].waits].stage # "commit"
      BY <2>1 DEF TypeOK, FormsTyped, PaidInv, AnsweredIsLetGo
    <3> QED
      BY <3>1
  <2> QED
    BY <1>6, <2>1 DEF PaidInv, AnsweredIsLetGo
<1>8. MeantCovers' /\ AcksAreSettled'
  <2>1. \A k \in Clerk, p \in Payload : Told(k, p)' = Told(k, p)
    BY <1>6 DEF Told
  <2>2. UNCHANGED <<wanted, acked, undone>>
    BY DEF ghosts
  <2> QED
    BY <1>4, <1>5, <2>1, <2>2, CountsMove
<1> QED
  BY <1>1, <1>3, <1>7, <1>8 DEF PaidInv

\* The form loses its answer or is closed.
LEMMA PaidFormLeft ==
  ASSUME TypeOK, TypeOK', Counted, Counted', PaidInv,
         UNCHANGED <<tx, entries, wanted, acked, told, undone, submits>>,
         \A k \in Clerk :
           \/ form'[k] = form[k] /\ unsure'[k] = unsure[k]
           \/ /\ form[k].waits # None /\ form'[k] = [form[k] EXCEPT !.waits = None]
              /\ unsure'[k] = unsure[k]
           \/ form'[k] = Empty /\ unsure'[k] = None
  PROVE  PaidInv'
<1>1. \A k \in Clerk :
        \/ form'[k] = form[k] /\ unsure'[k] = unsure[k]
        \/ /\ form[k] # Empty /\ form'[k].waits = None /\ form'[k].key = form[k].key
           /\ form'[k].signature = form[k].signature /\ unsure'[k] = unsure[k]
        \/ form'[k] = Empty /\ unsure'[k] = None
  <2> SUFFICES ASSUME NEW k \in Clerk, form[k].waits # None,
                      form'[k] = [form[k] EXCEPT !.waits = None]
               PROVE  /\ form[k] # Empty /\ form'[k].waits = None /\ form'[k].key = form[k].key
                      /\ form'[k].signature = form[k].signature
    OBVIOUS
  <2> QED
    BY DEF TypeOK, FormsTyped, Empty
<1>2. submits \in Nat
  BY DEF TypeOK, LedgerTyped
<1>3. Empty.key = 0 /\ Empty.waits = None /\ Empty.signature = None
  BY DEF Empty
<1>4. KeysAreUnique' /\ CommitsAreNew' /\ KeysAreIssued'
  BY <1>1, <1>2, <1>3
     DEF PaidInv, KeysAreUnique, KeysAreIssued, CommitsAreNew, Recorded
<1>5. FormsWaitForTheirOwn'
  BY <1>1, <1>3 DEF PaidInv, FormsWaitForTheirOwn, Asks
<1>6. \A k \in Clerk, p \in Payload : Settled(k, p) \subseteq Settled(k, p)'
  BY <1>1, <1>3 DEF Settled, PaymentsOf, PaidInv, KeysAreIssued
<1>7. \A k \in Clerk, p \in Payload : KeysOf(k, p)' \subseteq KeysOf(k, p)
  <2> SUFFICES ASSUME NEW k \in Clerk, NEW p \in Payload, NEW key \in 1 .. submits,
                      Meant(k, p, key)'
               PROVE  Meant(k, p, key)
    BY DEF KeysOf
  <2>1. CASE unsure'[k] = p /\ form'[k].key = key
    <3>1. form'[k] # Empty
      BY <1>2, <1>3, <2>1
    <3> QED
      BY <1>1, <2>1, <3>1 DEF Meant
  <2> QED
    BY <2>1 DEF Meant, Asks, PaymentsOf
<1>8. AnsweredIsLetGo'
  <2>1. \A k \in Clerk : form'[k].waits # None => form'[k] = form[k]
    BY <1>1, <1>3
  <2>2. \A t \in told : tx[t] # Idle /\ t \in Tx /\ tx[t].clerk \in Clerk
    BY DEF PaidInv, AnsweredIsLetGo, Idle, TypeOK, FormsTyped, PaymentsTyped
  <2>3. \A t \in told : tx[t].key # 0
    BY <1>2, <2>2 DEF PaidInv, KeysAreIssued
  <2>4. \A k \in Clerk : form'[k].key \in {form[k].key, 0}
    BY <1>1, <1>3
  <2> QED
    BY <2>1, <2>2, <2>3, <2>4 DEF PaidInv, AnsweredIsLetGo
<1>9. MeantCovers' /\ AcksAreSettled'
  <2>1. \A k \in Clerk, p \in Payload : Told(k, p)' = Told(k, p)
    BY DEF Told
  <2> QED
    BY <1>6, <1>7, <2>1, CountsMove
<1> QED
  BY <1>4, <1>5, <1>8, <1>9 DEF PaidInv

\* A payment is asked for: what holds whoever asks.
AskedBy(k, p, key, t) ==
  /\ tx[t] = Idle /\ submits' = submits + 1 /\ UNCHANGED <<entries, told, undone>>
  /\ key \in 1 .. submits + 1
  /\ tx' = [tx EXCEPT ![t] = [stage |-> "lock", clerk |-> k, key |-> key, payload |-> p]]

LEMMA PaidAsked ==
  ASSUME TypeOK, PaidInv, NEW k \in Clerk, NEW p \in Payload, NEW key, NEW t \in Tx,
         AskedBy(k, p, key, t)
  PROVE  /\ KeysAreUnique' /\ CommitsAreNew'
         /\ \A e \in entries' : e.key \in 1 .. submits'
         /\ \A u \in Tx : tx'[u] # Idle => tx'[u].key \in 1 .. submits'
         /\ tx'[t] # Idle /\ tx'[t].clerk = k /\ tx'[t].payload = p /\ tx'[t].key = key
         /\ \A u \in Tx : u # t => tx'[u] = tx[u]
         /\ t \notin told /\ \A c, q : Told(c, q)' = Told(c, q)
         /\ (\A c \in Clerk : /\ form'[c].key \in {form[c].key, submits + 1}
                              /\ form'[c].waits \in {form[c].waits, t}) => AnsweredIsLetGo'
<1>1. \A u \in Tx : tx'[u] = IF u = t THEN [stage |-> "lock", clerk |-> k, key |-> key,
                                           payload |-> p] ELSE tx[u]
  BY DEF AskedBy, TypeOK, PaymentsTyped
<1>2. submits \in Nat /\ submits' \in Nat
  BY DEF AskedBy, TypeOK, LedgerTyped
<1>3. KeysAreUnique' /\ CommitsAreNew'
  BY <1>1 DEF AskedBy, PaidInv, KeysAreUnique, CommitsAreNew, Recorded
<1>4. /\ \A e \in entries' : e.key \in 1 .. submits'
      /\ \A u \in Tx : tx'[u] # Idle => tx'[u].key \in 1 .. submits'
  BY <1>1, <1>2 DEF AskedBy, PaidInv, KeysAreIssued
<1>5. [stage |-> "lock", clerk |-> k, key |-> key, payload |-> p] # Idle
  BY DEF Idle
<1>6. t \notin told
  BY DEF AskedBy, PaidInv, AnsweredIsLetGo, Idle
<1>7. told' = told /\ \A u \in told : u \in Tx /\ tx'[u] = tx[u]
  BY <1>1, <1>6 DEF AskedBy, TypeOK, FormsTyped
<1>8. \A c, q : Told(c, q)' = Told(c, q)
  BY <1>7 DEF Told
<1>9. ASSUME \A c \in Clerk : /\ form'[c].key \in {form[c].key, submits + 1}
                              /\ form'[c].waits \in {form[c].waits, t}
      PROVE  AnsweredIsLetGo'
  <2>1. ASSUME NEW c \in Clerk, form'[c].waits # None
        PROVE  tx'[form'[c].waits].stage # "commit"
    <3>1. tx'[t].stage = "lock"
      BY <1>1
    <3>2. form[c].waits # None => form[c].waits \in Tx /\ tx[form[c].waits].stage # "commit"
      BY DEF TypeOK, FormsTyped, PaidInv, AnsweredIsLetGo
    <3> QED
      BY <1>1, <1>9, <2>1, <3>1, <3>2
  <2>2. ASSUME NEW u \in told
        PROVE  tx'[u].stage = "commit" /\ form'[tx'[u].clerk].key # tx'[u].key
    <3>1. tx[u].stage = "commit" /\ form[tx[u].clerk].key # tx[u].key /\ tx[u] # Idle
      BY DEF PaidInv, AnsweredIsLetGo, Idle
    <3>2. tx[u].clerk \in Clerk /\ tx[u].key \in 1 .. submits
      BY <1>7, <3>1 DEF TypeOK, PaymentsTyped, PaidInv, KeysAreIssued
    <3>3. tx[u].key # submits + 1
      BY <1>2, <3>2
    <3> QED
      BY <1>7, <1>9, <3>1, <3>2, <3>3
  <2> QED
    BY <1>7, <2>1, <2>2 DEF AnsweredIsLetGo
<1> QED
  BY <1>1, <1>3, <1>4, <1>5, <1>6, <1>8, <1>9

LEMMA PaidByHand ==
  ASSUME TypeOK, TypeOK', Counted, Counted', PaidInv, NEW k \in Clerk, NEW p \in Payload,
         NEW key \in 1 .. submits, NEW t \in Tx, SubmitByHand(k, p, key, t)
  PROVE  PaidInv'
<1>1. submits \in Nat
  BY DEF TypeOK, LedgerTyped
<1>2. /\ UNCHANGED <<form, entries, acked, unsure, told, undone>> /\ submits' = submits + 1 /\ tx[t] = Idle
      /\ tx' = [tx EXCEPT ![t] = [stage |-> "lock", clerk |-> k, key |-> key, payload |-> p]]
      /\ wanted' = [wanted EXCEPT ![k][p] = @ + 1]
  BY DEF SubmitByHand
<1>3. /\ KeysAreUnique' /\ CommitsAreNew'
      /\ \A e \in entries' : e.key \in 1 .. submits'
      /\ \A u \in Tx : tx'[u] # Idle => tx'[u].key \in 1 .. submits'
      /\ tx'[t] # Idle /\ tx'[t].clerk = k /\ tx'[t].payload = p /\ tx'[t].key = key
      /\ \A u \in Tx : u # t => tx'[u] = tx[u]
      /\ AnsweredIsLetGo' /\ \A c, q : Told(c, q)' = Told(c, q)
  <2>1. AskedBy(k, p, key, t)
    BY <1>1, <1>2 DEF AskedBy
  <2>2. \A c \in Clerk : form'[c].key = form[c].key /\ form'[c].waits = form[c].waits
    BY <1>2
  <2> QED
    BY <2>1, <2>2, PaidAsked
<1>4. KeysAreIssued'
  BY <1>1, <1>2, <1>3 DEF KeysAreIssued, PaidInv
<1>5. FormsWaitForTheirOwn'
  <2> SUFFICES ASSUME NEW c \in Clerk
               PROVE  /\ form[c].waits # None =>
                           /\ Asks(form[c].waits, c, form[c].signature)'
                           /\ tx'[form[c].waits].key = form[c].key
                      /\ unsure[c] = form[c].signature
                      /\ form[c] # Empty => form[c].signature \in Payload /\ form[c].key # 0
    BY <1>2 DEF FormsWaitForTheirOwn
  <2>1. form[c].waits # None => form[c].waits \in Tx \ {t}
    BY <1>2 DEF TypeOK, FormsTyped, PaidInv, FormsWaitForTheirOwn, Asks
  <2> QED
    BY <1>2, <1>3, <2>1 DEF PaidInv, FormsWaitForTheirOwn, Asks
<1>6. \A c \in Clerk, q \in Payload : Settled(c, q) \subseteq Settled(c, q)'
  BY <1>2 DEF Settled, PaymentsOf
<1>7. \A c \in Clerk, q \in Payload :
        \/ wanted'[c][q] = wanted[c][q] /\ KeysOf(c, q)' \subseteq KeysOf(c, q)
        \/ /\ wanted'[c][q] = wanted[c][q] + 1
           /\ \E x : KeysOf(c, q)' \subseteq KeysOf(c, q) \cup {x}
  <2> SUFFICES ASSUME NEW c \in Clerk, NEW q \in Payload
               PROVE  \/ /\ wanted'[c][q] = wanted[c][q]
                         /\ KeysOf(c, q)' \subseteq KeysOf(c, q)
                      \/ /\ wanted'[c][q] = wanted[c][q] + 1
                         /\ \E x : KeysOf(c, q)' \subseteq KeysOf(c, q) \cup {x}
    OBVIOUS
  <2>1. ASSUME NEW x, Meant(c, q, x)' PROVE Meant(c, q, x) \/ (x = key /\ c = k /\ q = p)
    <3>1. CASE \E u \in Tx : Asks(u, c, q)' /\ tx'[u].key = x
      <4> PICK u \in Tx : Asks(u, c, q)' /\ tx'[u].key = x
        BY <3>1
      <4>1. CASE u = t
        <5>1. tx'[t].key = key /\ c = k /\ q = p
          BY <1>2, <1>3, <4>1 DEF Asks
        <5> QED
          BY <4>1, <5>1
      <4>2. CASE u # t
        <5>1. Asks(u, c, q) /\ tx[u].key = x
          BY <1>3, <4>2 DEF Asks
        <5> QED
          BY <5>1 DEF Meant
      <4> QED
        BY <4>1, <4>2
    <3>2. CASE \E e \in PaymentsOf(c, q)' : e.key = x
      BY <1>2, <3>2 DEF Meant, PaymentsOf
    <3>3. CASE unsure'[c] = q /\ form'[c].key = x
      BY <1>2, <3>3 DEF Meant
    <3> QED
      BY <2>1, <3>1, <3>2, <3>3 DEF Meant
  <2>2. KeysOf(c, q)' \subseteq KeysOf(c, q) \cup IF c = k /\ q = p THEN {key} ELSE {}
    <3> SUFFICES ASSUME NEW x \in KeysOf(c, q)', ~(x = key /\ c = k /\ q = p)
                 PROVE  x \in KeysOf(c, q)
      OBVIOUS
    <3>1. x \in 1 .. submits + 1 /\ Meant(c, q, x)'
      BY <1>2 DEF KeysOf
    <3>2. Meant(c, q, x) /\ x # 0
      BY <2>1, <3>1
    <3> QED
      BY <3>2, MeantIssued
  <2>3. wanted'[c][q] = IF c = k /\ q = p THEN wanted[c][q] + 1 ELSE wanted[c][q]
    BY <1>2 DEF TypeOK, FormsTyped
  <2> QED
    BY <2>2, <2>3
<1>8. MeantCovers' /\ AcksAreSettled'
  BY <1>2, <1>3, <1>6, <1>7, CountsMove
<1> QED
  BY <1>3, <1>4, <1>5, <1>8 DEF PaidInv

LEMMA PaidSubmit ==
  ASSUME TypeOK, TypeOK', Counted, Counted', PaidInv, NEW k \in Clerk, NEW p \in Payload,
         NEW t \in Tx, Submit(k, p, t)
  PROVE  PaidInv'
<1> DEFINE key == KeyFor(form[k], p)
<1>1. /\ submits \in Nat /\ form[k].key \in 0 .. submits /\ p # None
      /\ unsure[k] = form[k].signature
      /\ form[k] # Empty => form[k].signature \in Payload /\ form[k].key # 0
  BY RequestConstants DEF TypeOK, LedgerTyped, PaidInv, KeysAreIssued, FormsWaitForTheirOwn
<1>2. \/ key = form[k].key /\ key # 0 /\ unsure[k] = p
      \/ key = submits + 1 /\ unsure[k] # p
  BY <1>1 DEF KeyFor, Empty
<1>3. key \in 1 .. submits + 1
  BY <1>1, <1>2
<1>4. /\ UNCHANGED <<entries, acked, told, undone>> /\ submits' = submits + 1 /\ tx[t] = Idle
      /\ form' = [form EXCEPT ![k] = [signature |-> p, key |-> key, waits |-> t]]
      /\ tx' = [tx EXCEPT ![t] = [stage |-> "lock", clerk |-> k, key |-> key, payload |-> p]]
      /\ wanted' = IF unsure[k] = p THEN wanted ELSE [wanted EXCEPT ![k][p] = @ + 1]
      /\ unsure' = [unsure EXCEPT ![k] = p]
  BY DEF Submit
<1> HIDE DEF key
<1>5. /\ KeysAreUnique' /\ CommitsAreNew'
      /\ \A e \in entries' : e.key \in 1 .. submits'
      /\ \A u \in Tx : tx'[u] # Idle => tx'[u].key \in 1 .. submits'
      /\ tx'[t] # Idle /\ tx'[t].clerk = k /\ tx'[t].payload = p /\ tx'[t].key = key
      /\ \A u \in Tx : u # t => tx'[u] = tx[u]
      /\ AnsweredIsLetGo' /\ \A c, q : Told(c, q)' = Told(c, q)
  <2>1. AskedBy(k, p, key, t)
    BY <1>3, <1>4 DEF AskedBy
  <2>2. \A c \in Clerk : /\ form'[c].key \in {form[c].key, submits + 1}
                          /\ form'[c].waits \in {form[c].waits, t}
    BY <1>2, <1>4 DEF TypeOK, FormsTyped
  <2> QED
    BY <2>1, <2>2, PaidAsked
<1>6. /\ form'[k].waits = t /\ form'[k].key = key /\ form'[k].signature = p /\ unsure'[k] = p
      /\ \A c \in Clerk : c # k => form'[c] = form[c] /\ unsure'[c] = unsure[c]
  BY <1>4 DEF TypeOK, FormsTyped
<1>7. KeysAreIssued'
  BY <1>1, <1>3, <1>4, <1>5, <1>6 DEF KeysAreIssued, PaidInv
<1>8. FormsWaitForTheirOwn'
  <2> SUFFICES ASSUME NEW c \in Clerk
               PROVE  /\ form'[c].waits # None =>
                           /\ Asks(form[c].waits, c, form[c].signature)'
                           /\ tx'[form'[c].waits].key = form'[c].key
                      /\ unsure'[c] = form'[c].signature
                      /\ form'[c] # Empty => form'[c].signature \in Payload /\ form'[c].key # 0
    BY DEF FormsWaitForTheirOwn
  <2>1. CASE c = k
    BY <1>3, <1>5, <1>6, <2>1 DEF Asks
  <2>2. CASE c # k
    <3>1. form[c].waits # None => form[c].waits \in Tx \ {t}
      BY <1>4 DEF TypeOK, FormsTyped, PaidInv, FormsWaitForTheirOwn, Asks
    <3> QED
      BY <1>5, <1>6, <2>2, <3>1 DEF PaidInv, FormsWaitForTheirOwn, Asks
  <2> QED
    BY <2>1, <2>2
<1>9. \A c \in Clerk, q \in Payload : Settled(c, q) \subseteq Settled(c, q)'
  <2>1. \A e \in entries : e.key \in 1 .. submits
    BY DEF PaidInv, KeysAreIssued
  <2>2. \A c \in Clerk : form'[c].key = form[c].key \/ form'[c].key = submits + 1
    BY <1>2, <1>6
  <2> QED
    BY <1>1, <1>4, <2>1, <2>2 DEF Settled, PaymentsOf
<1>10. \A c \in Clerk, q \in Payload :
         \/ wanted'[c][q] = wanted[c][q] /\ KeysOf(c, q)' \subseteq KeysOf(c, q)
         \/ /\ wanted'[c][q] = wanted[c][q] + 1
            /\ \E x : KeysOf(c, q)' \subseteq KeysOf(c, q) \cup {x}
  <2> SUFFICES ASSUME NEW c \in Clerk, NEW q \in Payload
               PROVE  \/ /\ wanted'[c][q] = wanted[c][q]
                         /\ KeysOf(c, q)' \subseteq KeysOf(c, q)
                      \/ /\ wanted'[c][q] = wanted[c][q] + 1
                         /\ \E x : KeysOf(c, q)' \subseteq KeysOf(c, q) \cup {x}
    OBVIOUS
  <2>1. ASSUME NEW x, Meant(c, q, x)' PROVE Meant(c, q, x) \/ (x = key /\ c = k /\ q = p)
    <3>1. CASE \E u \in Tx : Asks(u, c, q)' /\ tx'[u].key = x
      <4> PICK u \in Tx : Asks(u, c, q)' /\ tx'[u].key = x
        BY <3>1
      <4>1. CASE u = t
        <5>1. tx'[t].key = key /\ c = k /\ q = p
          BY <1>5, <4>1 DEF Asks
        <5> QED
          BY <4>1, <5>1
      <4>2. CASE u # t
        <5>1. Asks(u, c, q) /\ tx[u].key = x
          BY <1>5, <4>2 DEF Asks
        <5> QED
          BY <5>1 DEF Meant
      <4> QED
        BY <4>1, <4>2
    <3>2. CASE \E e \in PaymentsOf(c, q)' : e.key = x
      BY <1>4, <3>2 DEF Meant, PaymentsOf
    <3>3. CASE unsure'[c] = q /\ form'[c].key = x
      BY <1>6, <3>3 DEF Meant
    <3> QED
      BY <2>1, <3>1, <3>2, <3>3 DEF Meant
  <2>2. KeysOf(c, q)' \subseteq KeysOf(c, q) \cup IF c = k /\ q = p THEN {key} ELSE {}
    <3> SUFFICES ASSUME NEW x \in KeysOf(c, q)', ~(x = key /\ c = k /\ q = p)
                 PROVE  x \in KeysOf(c, q)
      OBVIOUS
    <3>1. x \in 1 .. submits + 1 /\ Meant(c, q, x)'
      BY <1>4 DEF KeysOf
    <3>2. Meant(c, q, x) /\ x # 0
      BY <2>1, <3>1
    <3> QED
      BY <3>2, MeantIssued
  <2>3. wanted'[c][q] = IF c = k /\ q = p /\ unsure[k] # p THEN wanted[c][q] + 1
                        ELSE wanted[c][q]
    BY <1>4 DEF TypeOK, FormsTyped
  <2>4. unsure[k] = p => key \in KeysOf(k, p)
    <3> SUFFICES ASSUME unsure[k] = p PROVE key \in KeysOf(k, p)
      OBVIOUS
    <3>1. Meant(k, p, key) /\ key # 0
      BY <1>2 DEF Meant
    <3> QED
      BY <3>1, MeantIssued
  <2> QED
    BY <2>2, <2>3, <2>4
<1>11. MeantCovers' /\ AcksAreSettled'
  BY <1>4, <1>5, <1>9, <1>10, CountsMove
<1> QED
  BY <1>5, <1>7, <1>8, <1>11 DEF PaidInv

LEMMA PaidGoes ==
  ASSUME TypeOK, TypeOK', Counted, Counted', PaidInv, NEW t \in Tx, NEW from, NEW to,
         Goes(t, from, to), from \notin {"idle", "commit"}, to \notin {"idle", "commit"},
         to = "answer" => Recorded(tx[t].clerk, tx[t].key) = {}
  PROVE  PaidInv'
<1>1. UNCHANGED <<form, entries, ghosts, submits>>
  BY DEF Goes, counts
<1>2. ASSUME NEW u \in Tx
      PROVE  \/ tx'[u] = tx[u]
             \/ /\ tx[u] # Idle /\ tx'[u] # Idle
                /\ tx'[u].clerk = tx[u].clerk /\ tx'[u].payload = tx[u].payload
                /\ tx'[u].key = tx[u].key
                /\ tx[u].stage # "commit" /\ tx'[u].stage # "commit"
                /\ tx'[u].stage = "answer" => Recorded(tx[u].clerk, tx[u].key) = {}
  <2>1. CASE u # t
    BY <2>1 DEF Goes, TypeOK, PaymentsTyped
  <2>2. CASE u = t
    <3>1. tx'[t] = [tx[t] EXCEPT !.stage = to] /\ tx[t].stage = from
      BY DEF Goes, TypeOK, PaymentsTyped
    <3>2. /\ tx'[t].stage = to /\ tx'[t].clerk = tx[t].clerk
          /\ tx'[t].payload = tx[t].payload /\ tx'[t].key = tx[t].key
      BY <3>1 DEF TypeOK, PaymentsTyped
    <3>3. tx[t] # Idle /\ tx'[t] # Idle
      BY <3>1, <3>2 DEF Idle
    <3> QED
      BY <2>2, <3>1, <3>2, <3>3
  <2> QED
    BY <2>1, <2>2
<1> QED
  BY <1>1, <1>2, PaidGoesOn

\* A transaction ends before it is answered, or without anything to commit.
LEMMA PaidEnded ==
  ASSUME TypeOK, TypeOK', Counted, Counted', PaidInv, NEW t \in Tx, tx[t] # Idle, NEW success,
         tx[t].stage # "commit", Answered(t, success), UNCHANGED <<entries, submits>>,
         success => \E e \in Recorded(tx[t].clerk, tx[t].key) : e.payload = tx[t].payload
  PROVE  PaidInv'
<1> DEFINE c == tx[t].clerk
<1>1. /\ \A u \in Tx : tx'[u] = IF u = t THEN Idle ELSE tx[u]
      /\ told' = told /\ undone' = undone /\ Learns(t, success)
  BY DEF Answered, TypeOK, PaymentsTyped
<1>2. /\ KeysAreUnique' /\ KeysAreIssued' /\ CommitsAreNew' /\ FormsWaitForTheirOwn'
      /\ MeantCovers'
      /\ \A k \in Clerk : form'[k].key \in {form[k].key, 0}
      /\ \A k \in Clerk : form'[k].waits # None => form'[k] = form[k] /\ form[k].waits # t
      /\ form[c].waits = t => form[c].key = tx[t].key
      /\ \/ acked' = acked
         \/ /\ form[c].waits = t /\ success /\ form'[c] = Empty
            /\ acked' = [acked EXCEPT ![c][tx[t].payload] = @ + 1]
  BY <1>1, PaidLearns
<1>3. c \in Clerk /\ tx[t].payload \in Payload
  BY DEF TypeOK, PaymentsTyped
<1>4. /\ \A e \in entries : e.key # 0
      /\ \A u \in told : u \in Tx /\ u # t /\ tx'[u] = tx[u] /\ tx[u].clerk \in Clerk /\ tx[u].key # 0
  <2>1. submits \in Nat
    BY DEF TypeOK, LedgerTyped
  <2>2. \A u \in told : u \in Tx /\ u # t /\ tx[u].stage # "idle" /\ tx[u] # Idle
    BY DEF PaidInv, AnsweredIsLetGo, TypeOK, FormsTyped, Idle
  <2> QED
    BY <1>1, <2>1, <2>2 DEF PaidInv, KeysAreIssued, TypeOK, PaymentsTyped
<1>5. AnsweredIsLetGo'
  <2>1. ASSUME NEW k \in Clerk, form'[k].waits # None
        PROVE  tx'[form'[k].waits].stage # "commit"
    <3>1. form[k].waits \in Tx /\ form[k].waits # t /\ form'[k] = form[k]
      BY <1>2, <2>1 DEF TypeOK, FormsTyped
    <3> QED
      BY <1>1, <2>1, <3>1 DEF PaidInv, AnsweredIsLetGo
  <2> QED
    BY <1>1, <1>2, <1>4, <2>1 DEF PaidInv, AnsweredIsLetGo
<1>6. AcksAreSettled'
  <2> SUFFICES ASSUME NEW k \in Clerk, NEW p \in Payload
               PROVE  acked'[k][p] <= Cardinality(Settled(k, p)') + Cardinality(Told(k, p)')
                                      + undone'[k][p]
    BY DEF AcksAreSettled
  <2>1. Told(k, p)' = Told(k, p)
    BY <1>1, <1>4 DEF Told
  <2>2. Settled(k, p) \subseteq Settled(k, p)'
    BY <1>2, <1>4 DEF Settled, PaymentsOf
  <2>3. CASE acked'[k][p] = acked[k][p]
    BY <1>1, <2>1, <2>2, <2>3, AcksStay
  <2>4. ASSUME acked'[k][p] # acked[k][p]
        PROVE  acked'[k][p] <= Cardinality(Settled(k, p)') + Cardinality(Told(k, p)')
                               + undone'[k][p]
    <3>1. /\ k = c /\ form[k].waits = t /\ success /\ form'[k] = Empty /\ p = tx[t].payload
          /\ acked'[k][p] = acked[k][p] + 1
      BY <1>2, <2>4 DEF TypeOK, FormsTyped
    <3>2. PICK e \in entries : e.clerk = c /\ e.key = tx[t].key /\ e.payload = tx[t].payload
      BY <3>1 DEF Recorded
    <3>3. e \notin Settled(k, p)
      BY <1>2, <3>1, <3>2 DEF Settled
    <3>4. e \in Settled(k, p)'
      BY <1>4, <3>1, <3>2 DEF Settled, PaymentsOf, Empty
    <3> QED
      BY <1>1, <2>1, <2>2, <3>1, <3>3, <3>4, OneMoreSettled
  <2> QED
    BY <2>3, <2>4
<1> QED
  BY <1>2, <1>5, <1>6 DEF PaidInv

LEMMA PaidReplay ==
  ASSUME TypeOK, TypeOK', Counted, Counted', PaidInv, NEW t \in Tx, tx[t] # Idle,
         tx[t].stage # "commit", NEW e \in Recorded(tx[t].clerk, tx[t].key), Replay(t, e)
  PROVE  PaidInv'
<1> DEFINE success == e.payload = tx[t].payload
<1>1. Answered(t, success) /\ UNCHANGED <<entries, submits>>
  BY DEF Replay, counts
<1>2. success => \E f \in Recorded(tx[t].clerk, tx[t].key) : f.payload = tx[t].payload
  OBVIOUS
<1> HIDE DEF success
<1> QED
  BY <1>1, <1>2, PaidEnded

LEMMA PaidAnswer ==
  ASSUME TypeOK, TypeOK', Counted, Counted', PaidInv, NEW t \in Tx, Answer(t)
  PROVE  PaidInv'
<1> DEFINE c == tx[t].clerk
<1>1. /\ tx[t].stage = "answer" /\ Learns(t, TRUE) /\ UNCHANGED <<entries, submits, undone>>
      /\ tx' = [tx EXCEPT ![t].stage = "commit"]
      /\ told' = IF form[c].waits = t THEN told \cup {t} ELSE told
  BY DEF Answer, counts
<1>2. /\ \A u \in Tx : u # t => tx'[u] = tx[u]
      /\ tx'[t].stage = "commit" /\ tx'[t].clerk = c
      /\ tx'[t].key = tx[t].key /\ tx'[t].payload = tx[t].payload
  BY <1>1 DEF TypeOK, PaymentsTyped
<1>3. tx[t] # Idle /\ c \in Clerk /\ tx[t].payload \in Payload
  BY <1>1 DEF Idle, TypeOK, PaymentsTyped
<1>4. /\ KeysAreUnique' /\ KeysAreIssued' /\ CommitsAreNew' /\ FormsWaitForTheirOwn'
      /\ MeantCovers'
      /\ \A k \in Clerk : form'[k].key \in {form[k].key, 0}
      /\ \A k \in Clerk : form'[k].waits # None => form'[k] = form[k] /\ form[k].waits # t
  BY <1>1, <1>2, <1>3, PaidLearns
<1>5. IF form[c].waits = t
      THEN form'[c] = Empty /\ acked' = [acked EXCEPT ![c][tx[t].payload] = @ + 1]
      ELSE acked' = acked
  BY <1>1, <1>3 DEF Learns, TypeOK, FormsTyped
<1>6. /\ \A e \in entries : e.key # 0
      /\ tx[t].key # 0
      /\ \A u \in told : u \in Tx /\ u # t /\ tx'[u] = tx[u] /\ tx[u].clerk \in Clerk /\ tx[u].key # 0
  <2>1. submits \in Nat
    BY DEF TypeOK, LedgerTyped
  <2>2. \A u \in told : u \in Tx /\ u # t /\ tx[u].stage # "idle" /\ tx[u] # Idle
    BY <1>1 DEF PaidInv, AnsweredIsLetGo, TypeOK, FormsTyped, Idle
  <2> QED
    BY <1>2, <1>3, <2>1, <2>2 DEF PaidInv, KeysAreIssued, TypeOK, PaymentsTyped
<1>7. AnsweredIsLetGo'
  <2>1. ASSUME NEW k \in Clerk, form'[k].waits # None
        PROVE  tx'[form'[k].waits].stage # "commit"
    <3>1. form[k].waits \in Tx /\ form[k].waits # t /\ form'[k] = form[k]
      BY <1>4, <2>1 DEF TypeOK, FormsTyped
    <3> QED
      BY <1>2, <2>1, <3>1 DEF PaidInv, AnsweredIsLetGo
  <2>2. ASSUME NEW u \in told'
        PROVE  tx'[u].stage = "commit" /\ form'[tx'[u].clerk].key # tx'[u].key
    <3>1. CASE u \in told
      BY <1>4, <1>6, <3>1 DEF PaidInv, AnsweredIsLetGo
    <3>2. CASE u \notin told
      <4>1. u = t /\ form'[c] = Empty /\ Empty.key = 0
        BY <1>1, <1>5, <2>2, <3>2 DEF Empty
      <4> QED
        BY <1>2, <1>6, <4>1
    <3> QED
      BY <3>1, <3>2
  <2> QED
    BY <2>1, <2>2 DEF AnsweredIsLetGo
<1>8. AcksAreSettled'
  <2> SUFFICES ASSUME NEW k \in Clerk, NEW p \in Payload
               PROVE  acked'[k][p] <= Cardinality(Settled(k, p)') + Cardinality(Told(k, p)')
                                      + undone'[k][p]
    BY DEF AcksAreSettled
  <2>1. Settled(k, p) \subseteq Settled(k, p)'
    BY <1>1, <1>4, <1>6 DEF Settled, PaymentsOf
  <2>2. CASE form[c].waits = t /\ k = c /\ p = tx[t].payload
    <3>1. Told(k, p) = {} /\ Told(k, p)' = {t}
      <4>1. Told(k, p) = {}
        BY <1>1, ToldAlone DEF PaidInv
      <4>2. \A u \in told : u \in Told(k, p)' => u \in Told(k, p)
        BY <1>6 DEF Told
      <4> QED
        BY <1>1, <1>2, <2>2, <4>1, <4>2 DEF Told
    <3>2. acked'[k][p] = acked[k][p] + 1 /\ acked[k][p] \in Nat /\ undone[k][p] \in Nat
      BY <1>5, <2>2 DEF TypeOK, FormsTyped
    <3>3. Cardinality(Told(k, p)) = 0 /\ Cardinality(Told(k, p)') = 1
      BY <3>1, FS_EmptySet, FS_Singleton
    <3>4. IsFiniteSet(entries) /\ IsFiniteSet(entries')
      BY DEF Counted
    <3>5. Cardinality(Settled(k, p)) \in Nat /\ Cardinality(Settled(k, p)') \in Nat
      BY <3>4, SettledFinite, NewSettledFinite
    <3>6. Cardinality(Settled(k, p)) <= Cardinality(Settled(k, p)')
      BY <2>1, <3>4, <3>5, SettledStays
    <3>7. acked[k][p] <= Cardinality(Settled(k, p)) + Cardinality(Told(k, p)) + undone[k][p]
      BY DEF PaidInv, AcksAreSettled
    <3> QED
      BY <1>1, <3>2, <3>3, <3>5, <3>6, <3>7
  <2>3. CASE ~(form[c].waits = t /\ k = c /\ p = tx[t].payload)
    <3>1. Told(k, p)' = Told(k, p)
      <4>1. \A u \in told : u \in Told(k, p)' <=> u \in Told(k, p)
        BY <1>1, <1>6 DEF Told
      <4>2. t \notin told /\ t \notin Told(k, p)'
        BY <1>1, <1>2, <1>6, <2>3 DEF Told
      <4> QED
        BY <1>1, <4>1, <4>2 DEF Told
    <3>2. acked'[k][p] = acked[k][p]
      BY <1>3, <1>5, <2>3 DEF TypeOK, FormsTyped
    <3> QED
      BY <1>1, <2>1, <3>1, <3>2, AcksStay
  <2> QED
    BY <2>2, <2>3
<1> QED
  BY <1>4, <1>7, <1>8 DEF PaidInv

\* A transaction ends after its answer; it may have recorded its payment.
LEMMA PaidOver ==
  ASSUME TypeOK, TypeOK', Counted, Counted', PaidInv, NEW t \in Tx, tx[t].stage = "commit",
         tx' = [tx EXCEPT ![t] = Idle], told' = told \ {t},
         UNCHANGED <<form, wanted, acked, unsure, submits>>,
         entries \subseteq entries', KeysAreUnique',
         \A e \in entries' \ entries : /\ e.clerk = tx[t].clerk /\ e.key = tx[t].key
                                        /\ e.payload = tx[t].payload
  PROVE  /\ KeysAreIssued' /\ CommitsAreNew' /\ FormsWaitForTheirOwn' /\ AnsweredIsLetGo'
         /\ MeantCovers'
         /\ tx[t].clerk \in Clerk /\ tx[t].payload \in Payload
         /\ \A k \in Clerk, p \in Payload :
              /\ Settled(k, p) \subseteq Settled(k, p)'
              /\ IF t \in Told(k, p)
                 THEN Cardinality(Told(k, p)) = 1 /\ Cardinality(Told(k, p)') = 0
                 ELSE Told(k, p)' = Told(k, p)
<1>1. \A u \in Tx : tx'[u] = IF u = t THEN Idle ELSE tx[u]
  BY DEF TypeOK, PaymentsTyped
<1>2. /\ tx[t].clerk \in Clerk /\ tx[t].payload \in Payload /\ tx[t].key \in 1 .. submits
      /\ tx[t] # Idle
  BY DEF TypeOK, PaymentsTyped, PaidInv, KeysAreIssued, Idle
<1>3. KeysAreIssued'
  BY <1>1, <1>2 DEF PaidInv, KeysAreIssued
<1>4. CommitsAreNew'
  <2> SUFFICES ASSUME NEW u \in Tx, tx'[u].stage \in {"answer", "commit"}, NEW e \in entries',
                      e.clerk = tx'[u].clerk, e.key = tx'[u].key
               PROVE  FALSE
    BY DEF CommitsAreNew, Recorded
  <2>1. u # t /\ tx'[u] = tx[u]
    BY <1>1 DEF Idle
  <2> QED
    BY <2>1 DEF TypeOK, LocksExclude, HoldsGeneration
<1>5. \A k \in Clerk : form[k].waits # None =>
        form[k].waits \in Tx /\ form[k].waits # t /\ tx'[form[k].waits] = tx[form[k].waits]
  BY <1>1 DEF TypeOK, FormsTyped, PaidInv, AnsweredIsLetGo
<1>6. FormsWaitForTheirOwn'
  BY <1>5 DEF PaidInv, FormsWaitForTheirOwn, Asks
<1>7. \A u \in told' : u \in told /\ u \in Tx /\ tx'[u] = tx[u]
  BY <1>1 DEF TypeOK, FormsTyped
<1>8. AnsweredIsLetGo'
  BY <1>5, <1>7 DEF PaidInv, AnsweredIsLetGo
<1>9. MeantCovers'
  <2> SUFFICES ASSUME NEW k \in Clerk, NEW p \in Payload
               PROVE  Cardinality(KeysOf(k, p)') <= wanted'[k][p]
    BY DEF MeantCovers
  <2>1. ASSUME NEW key \in 1 .. submits, Meant(k, p, key)' PROVE Meant(k, p, key)
    <3>1. CASE \E e \in PaymentsOf(k, p)' : e.key = key
      <4> PICK e \in PaymentsOf(k, p)' : e.key = key
        BY <3>1
      <4>1. e \in entries' /\ e.clerk = k /\ e.payload = p
        BY DEF PaymentsOf
      <4>2. CASE e \in entries
        BY <4>1, <4>2 DEF PaymentsOf, Meant
      <4>3. CASE e \notin entries
        BY <1>2, <4>1, <4>3 DEF Asks, Meant
      <4> QED
        BY <4>2, <4>3
    <3>2. CASE \E u \in Tx : Asks(u, k, p)' /\ tx'[u].key = key
      BY <1>1, <3>2 DEF Asks, Meant
    <3>3. CASE unsure'[k] = p /\ form'[k].key = key
      BY <3>3 DEF Meant
    <3> QED
      BY <2>1, <3>1, <3>2, <3>3 DEF Meant
  <2>2. KeysOf(k, p)' \subseteq KeysOf(k, p)
    BY <2>1 DEF KeysOf
  <2>3. wanted[k][p] \in Nat
    BY DEF TypeOK, FormsTyped
  <2> QED
    BY <2>2, <2>3, MeantStays DEF PaidInv, MeantCovers
<1>10. ASSUME NEW k \in Clerk, NEW p \in Payload
       PROVE  /\ Settled(k, p) \subseteq Settled(k, p)'
              /\ IF t \in Told(k, p)
                 THEN Cardinality(Told(k, p)) = 1 /\ Cardinality(Told(k, p)') = 0
                 ELSE Told(k, p)' = Told(k, p)
  <2>1. Settled(k, p) \subseteq Settled(k, p)'
    BY DEF Settled, PaymentsOf
  <2>2. Told(k, p)' = Told(k, p) \ {t}
    BY <1>7 DEF Told
  <2>3. ASSUME t \in Told(k, p)
        PROVE  Cardinality(Told(k, p)) = 1 /\ Cardinality(Told(k, p)') = 0
    <3>1. Told(k, p) = {t} /\ Told(k, p)' = {}
      BY <2>2, <2>3, ToldAlone DEF PaidInv
    <3> QED
      BY <3>1, FS_EmptySet, FS_Singleton
  <2> QED
    BY <2>1, <2>2, <2>3
<1> QED
  BY <1>2, <1>3, <1>4, <1>6, <1>8, <1>9, <1>10

LEMMA PaidCommit ==
  ASSUME TypeOK, TypeOK', Counted, Counted', PaidInv, NEW t \in Tx, Commit(t)
  PROVE  PaidInv'
<1> PICK e : e = [id |-> generation + 1, clerk |-> tx[t].clerk, key |-> tx[t].key,
                  payload |-> tx[t].payload]
  OBVIOUS
<1>1. /\ tx[t].stage = "commit" /\ entries' = entries \cup {e} /\ told' = told \ {t}
      /\ tx' = [tx EXCEPT ![t] = Idle]
      /\ UNCHANGED <<form, wanted, acked, unsure, undone, submits>>
  BY DEF Commit, counts
<1>2. e.clerk = tx[t].clerk /\ e.key = tx[t].key /\ e.payload = tx[t].payload
  OBVIOUS
<1>3. Recorded(tx[t].clerk, tx[t].key) = {}
  BY <1>1 DEF PaidInv, CommitsAreNew
<1>4. KeysAreUnique' /\ e \notin entries
  BY <1>1, <1>2, <1>3 DEF PaidInv, KeysAreUnique, Recorded
<1>5. entries \subseteq entries' /\ \A f \in entries' \ entries : f = e
  BY <1>1
<1>6. \A f \in entries' \ entries :
        f.clerk = tx[t].clerk /\ f.key = tx[t].key /\ f.payload = tx[t].payload
  BY <1>2, <1>5
<1>7. /\ KeysAreIssued' /\ CommitsAreNew' /\ FormsWaitForTheirOwn' /\ AnsweredIsLetGo'
      /\ MeantCovers'
      /\ \A k \in Clerk, p \in Payload :
           /\ Settled(k, p) \subseteq Settled(k, p)'
           /\ IF t \in Told(k, p)
              THEN Cardinality(Told(k, p)) = 1 /\ Cardinality(Told(k, p)') = 0
              ELSE Told(k, p)' = Told(k, p)
  BY <1>1, <1>4, <1>5, <1>6, PaidOver
<1>8. AcksAreSettled'
  <2> SUFFICES ASSUME NEW k \in Clerk, NEW p \in Payload
               PROVE  acked'[k][p] <= Cardinality(Settled(k, p)') + Cardinality(Told(k, p)')
                                      + undone'[k][p]
    BY DEF AcksAreSettled
  <2>1. CASE t \in Told(k, p)
    <3>1. t \in told /\ tx[t].clerk = k /\ tx[t].payload = p
      BY <2>1 DEF Told
    <3>2. e \in Settled(k, p)' /\ e \notin Settled(k, p)
      BY <1>1, <1>2, <1>4, <3>1 DEF Settled, PaymentsOf, PaidInv, AnsweredIsLetGo
    <3> QED
      BY <1>1, <1>7, <2>1, <3>2, OneMoreSettled
  <2>2. CASE t \notin Told(k, p)
    BY <1>1, <1>7, <2>2, AcksStay
  <2> QED
    BY <2>1, <2>2
<1> QED
  BY <1>4, <1>7, <1>8 DEF PaidInv

\* The success stays with the clerk, and no payment with the ledger.
LEMMA PaidUndone ==
  ASSUME TypeOK, TypeOK', Counted, Counted', PaidInv, NEW t \in Tx, CommitFails(t)
  PROVE  PaidInv'
<1>1. /\ tx[t].stage = "commit" /\ entries' = entries /\ told' = told \ {t}
      /\ tx' = [tx EXCEPT ![t] = Idle]
      /\ UNCHANGED <<form, wanted, acked, unsure, submits>>
      /\ undone' = IF t \in told THEN [undone EXCEPT ![tx[t].clerk][tx[t].payload] = @ + 1]
                   ELSE undone
  BY DEF CommitFails
<1>2. KeysAreUnique' /\ entries \subseteq entries' /\ entries' \ entries = {}
  BY <1>1 DEF PaidInv, KeysAreUnique
<1>3. /\ KeysAreIssued' /\ CommitsAreNew' /\ FormsWaitForTheirOwn' /\ AnsweredIsLetGo'
      /\ MeantCovers'
      /\ tx[t].clerk \in Clerk /\ tx[t].payload \in Payload
      /\ \A k \in Clerk, p \in Payload :
           /\ Settled(k, p) \subseteq Settled(k, p)'
           /\ IF t \in Told(k, p)
              THEN Cardinality(Told(k, p)) = 1 /\ Cardinality(Told(k, p)') = 0
              ELSE Told(k, p)' = Told(k, p)
  BY <1>1, <1>2, PaidOver
<1>4. AcksAreSettled'
  <2> SUFFICES ASSUME NEW k \in Clerk, NEW p \in Payload
               PROVE  acked'[k][p] <= Cardinality(Settled(k, p)') + Cardinality(Told(k, p)')
                                      + undone'[k][p]
    BY DEF AcksAreSettled
  <2>1. CASE t \in Told(k, p)
    <3>1. undone'[k][p] = undone[k][p] + 1 /\ undone[k][p] \in Nat /\ acked[k][p] \in Nat
      BY <1>1, <2>1 DEF Told, TypeOK, FormsTyped
    <3>2. Settled(k, p)' = Settled(k, p)
      BY <1>1 DEF Settled, PaymentsOf
    <3>3. Cardinality(Settled(k, p)) \in Nat
      BY SettledFinite DEF Counted
    <3>4. acked[k][p] <= Cardinality(Settled(k, p)) + Cardinality(Told(k, p)) + undone[k][p]
      BY DEF PaidInv, AcksAreSettled
    <3> QED
      BY <1>1, <1>3, <2>1, <3>1, <3>2, <3>3, <3>4
  <2>2. CASE t \notin Told(k, p)
    <3>1. undone'[k][p] = undone[k][p]
      BY <1>1, <1>3, <2>2 DEF Told, TypeOK, FormsTyped
    <3> QED
      BY <1>1, <1>3, <2>2, <3>1, AcksStay
  <2> QED
    BY <2>1, <2>2
<1> QED
  BY <1>2, <1>3, <1>4 DEF PaidInv

LEMMA PaidPayments ==
  ASSUME TypeOK, TypeOK', Counted, Counted', PaidInv, Payments
  PROVE  PaidInv'
<1> PICK t \in Tx : \/ LockAccount(t) \/ FindOriginal(t) \/ CheckPeriod(t)
                    \/ Advance(t) \/ FlushKey(t) \/ Answer(t) \/ Commit(t)
                    \/ CommitFails(t) \/ Abort(t)
  BY DEF Payments
<1>1. CASE LockAccount(t)
  <2>1. Goes(t, "lock", "find")
    BY <1>1 DEF LockAccount
  <2> QED
    BY <2>1, PaidGoes
<1>2. CASE FindOriginal(t)
  <2>1. tx[t] # Idle /\ tx[t].stage # "commit"
    BY <1>2 DEF FindOriginal, Goes, Idle
  <2>2. ASSUME NEW e \in Recorded(tx[t].clerk, tx[t].key), Replay(t, e) PROVE PaidInv'
    BY <2>1, <2>2, PaidReplay
  <2>3. ASSUME Goes(t, "find", "period") PROVE PaidInv'
    BY <2>3, PaidGoes
  <2> QED
    BY <1>2, <2>2, <2>3 DEF FindOriginal
<1>3. CASE CheckPeriod(t)
  <2>1. ASSUME Goes(t, "period", "advance") PROVE PaidInv'
    BY <2>1, PaidGoes
  <2>2. ASSUME Refuse(t) PROVE PaidInv'
    <3>1. tx[t] # Idle /\ tx[t].stage # "commit"
      BY <1>3 DEF CheckPeriod, Goes, Idle
    <3>2. Answered(t, FALSE) /\ UNCHANGED <<entries, submits>>
      BY <2>2 DEF Refuse, counts
    <3> QED
      BY <3>1, <3>2, PaidEnded
  <2> QED
    BY <1>3, <2>1, <2>2 DEF CheckPeriod
<1>4. CASE Advance(t)
  <2>1. Goes(t, "advance", "flush")
    BY <1>4 DEF Advance
  <2> QED
    BY <2>1, PaidGoes
<1>5. CASE FlushKey(t)
  <2>1. tx[t] # Idle /\ tx[t].stage # "commit"
    BY <1>5 DEF FlushKey, Idle
  <2>2. ASSUME NEW e \in Recorded(tx[t].clerk, tx[t].key), Replay(t, e) PROVE PaidInv'
    BY <2>1, <2>2, PaidReplay
  <2>3. ASSUME Recorded(tx[t].clerk, tx[t].key) = {}, Goes(t, "flush", "answer") PROVE PaidInv'
    BY <2>3, PaidGoes
  <2> QED
    BY <1>5, <2>2, <2>3 DEF FlushKey
<1>6. CASE Answer(t)
  BY <1>6, PaidAnswer
<1>7. CASE Commit(t)
  BY <1>7, PaidCommit
<1>8. CASE CommitFails(t)
  BY <1>8, PaidUndone
<1>9. CASE Abort(t)
  <2>1. tx[t] # Idle /\ tx[t].stage # "commit" /\ UNCHANGED <<entries, submits>>
    BY <1>9 DEF Abort, Idle
  <2>2. Answered(t, FALSE)
    BY <1>9 DEF Abort
  <2> QED
    BY <2>1, <2>2, PaidEnded
<1> QED
  BY <1>1, <1>2, <1>3, <1>4, <1>5, <1>6, <1>7, <1>8, <1>9

LEMMA NextPaid ==
  ASSUME TypeOK, TypeOK', Counted, Counted', PaidInv, [Next]_vars PROVE PaidInv'
<1>1. CASE Forms
  <2>1. ASSUME NEW k \in Clerk, NEW p \in Payload, NEW t \in Tx, Submit(k, p, t)
        PROVE  PaidInv'
    BY <2>1, PaidSubmit
  <2>2. ASSUME NEW k \in Clerk, NEW p \in Payload, NEW t \in Tx, NEW key \in 1 .. submits,
               SubmitByHand(k, p, key, t)
        PROVE  PaidInv'
    BY <2>2, PaidByHand
  <2>3. ASSUME NEW k \in Clerk, LoseAnswer(k) PROVE PaidInv'
    <3>1. UNCHANGED <<tx, entries, wanted, acked, told, undone, submits>>
      BY <2>3 DEF LoseAnswer, ghosts
    <3>2. \A c \in Clerk :
            \/ form'[c] = form[c] /\ unsure'[c] = unsure[c]
            \/ /\ form[c].waits # None /\ form'[c] = [form[c] EXCEPT !.waits = None]
               /\ unsure'[c] = unsure[c]
      BY <2>3 DEF LoseAnswer, ghosts, TypeOK, FormsTyped
    <3> QED
      BY <3>1, <3>2, PaidFormLeft
  <2>4. ASSUME NEW k \in Clerk, CloseForm(k) PROVE PaidInv'
    <3>1. UNCHANGED <<tx, entries, wanted, acked, told, undone, submits>>
      BY <2>4 DEF CloseForm, counts
    <3>2. \A c \in Clerk :
            \/ form'[c] = form[c] /\ unsure'[c] = unsure[c]
            \/ form'[c] = Empty /\ unsure'[c] = None
      BY <2>4 DEF CloseForm, TypeOK, FormsTyped
    <3> QED
      BY <3>1, <3>2, PaidFormLeft
  <2> QED
    BY <1>1, <2>1, <2>2, <2>3, <2>4 DEF Forms
<1>2. CASE Payments
  BY <1>2, PaidPayments
<1>3. CASE Closings \/ Reports \/ RedisForgets \/ UNCHANGED vars
  <2>1. UNCHANGED <<form, tx, entries, ghosts, submits>>
    BY <1>3 DEF Closings, RequestClosing, LockMonth, SetStatus, Reports, Ask, Hit, Look,
                ReportStep, TakeLease, WithoutLease, Compute, Publish, Release, RedisForgets,
                vars, payments, counts
  <2> QED
    BY <2>1, PaidGoesOn
<1> QED
  BY <1>1, <1>2, <1>3 DEF Next

\* However often the form sends a payment again, and whatever became of the
\* requests before, it is recorded once; and the successes a clerk was told are
\* all recorded but for those answered before a commit that has not come yet or
\* has failed, each of which is missing once.  PaidInv counts the keys that stand
\* for a payment the clerk meant; every recorded payment has one of its own.
THEOREM PaymentsOnce == Spec => []PaidOnce
<1>1. Init => PaidInv
  BY InitPaid
<1>2. (TypeOK /\ Counted) /\ (TypeOK /\ Counted)' /\ PaidInv /\ [Next]_vars => PaidInv'
  BY NextPaid
<1>3. (TypeOK /\ Counted) /\ PaidInv => PaidOnce
  BY PaidFromInv
<1> QED
  BY <1>1, <1>2, <1>3, TypeCorrect, PTL DEF Spec

=============================================================================
