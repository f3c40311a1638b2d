---------------------- MODULE ExamResultDelivery_proofs ----------------------
(***************************************************************************)
(* For any results, runs, scores, leases and edits: the two inductive      *)
(* invariants of ExamResultDelivery and what follows from them.            *)
(***************************************************************************)
EXTENDS ExamResultDelivery, TLAPS

LEMMA NatConstants ==
  /\ MaxScore \in Nat \ {0} /\ MaxAttempts \in Nat \ {0} /\ LeaseDuration \in Nat \ {0}
  /\ Delay \in Nat /\ TransportDeadline \in Nat /\ BatchSize \in Nat \ {0} /\ ClaimWindow \in Nat
  /\ MaxEdits \in Nat \ {0} /\ MaxFaults \in Nat
  BY ExamConstants

LEMMA Nobody == NoWorker \notin Worker /\ NoResult \notin Result
  BY ExamConstants

LEMMA BackoffType == Backoff \in [0 .. MaxAttempts -> Nat]
  BY ExamConstants

USE NatConstants, Nobody

Statuses == {"absent"} \cup Open \cup Closed

LEMMA AbsentType == Absent \in RowType /\ Idle \in WorkerType
  BY DEF Absent, RowType, Idle, WorkerType

LEMMA InitIInv == Init => IInv
<1> SUFFICES ASSUME Init PROVE IInv
  OBVIOUS
<1>1. TypeOK
  BY AbsentType DEF Init, TypeOK, UniquePending, Absent, Unset
<1>2. QED
  BY <1>1 DEF Init, IInv, RunsAreSound, RunIsSound, Mine, InTransport, Idle, Absent,
              TransportsAreApart, HandedRowsAreDone, EditsBoundRows, Row, Holds

-----------------------------------------------------------------------------
(* Records after one UPDATE.                                               *)

LEMMA CloseType ==
  ASSUME NEW r \in RowType, NEW status \in Closed
  PROVE  /\ Close(r, status) \in RowType
         /\ Close(r, status).status = status /\ Close(r, status).of = r.of
         /\ Close(r, status).owner = NoWorker /\ ~Close(r, status).started
  BY AbsentType DEF Close, Absent, RowType

LEMMA ReleasedType ==
  ASSUME NEW r \in RowType, NEW due \in Int
  PROVE  /\ Released(r, due) \in RowType
         /\ Released(r, due).status = "pending" /\ Released(r, due).of = r.of
         /\ Released(r, due).owner = NoWorker /\ ~Released(r, due).started
         /\ Released(r, due).due = due
<1>1. 0 \in 0 .. LeaseDuration
  OBVIOUS
<1>2. [r EXCEPT !.status = "pending", !.owner = NoWorker] \in RowType
  BY DEF RowType, Open
<1>3. /\ [[r EXCEPT !.status = "pending", !.owner = NoWorker] EXCEPT !.lease = 0] \in RowType
      /\ [[[r EXCEPT !.status = "pending", !.owner = NoWorker] EXCEPT !.lease = 0]
           EXCEPT !.started = FALSE] \in RowType
  BY <1>1, <1>2 DEF RowType
<1>4. Released(r, due) = [[[[r EXCEPT !.status = "pending", !.owner = NoWorker] EXCEPT !.lease = 0]
                          EXCEPT !.started = FALSE] EXCEPT !.due = due]
  BY DEF Released
<1>5. Released(r, due) \in RowType
  BY <1>3, <1>4 DEF RowType
<1>6. QED
  BY <1>5 DEF Released, RowType

LEMMA ScheduledType ==
  ASSUME NEW r \in RowType
  PROVE  /\ Scheduled(r) \in RowType
         /\ Scheduled(r).status = r.status /\ Scheduled(r).of = r.of /\ Scheduled(r).due = Delay
         /\ Scheduled(r).owner = r.owner /\ Scheduled(r).started = r.started
<1>1. 0 \in 0 .. MaxAttempts /\ Delay \in Int
  OBVIOUS
<1>2. [r EXCEPT !.due = Delay] \in RowType
  BY <1>1 DEF RowType
<1>3. Scheduled(r) = [[r EXCEPT !.due = Delay] EXCEPT !.attempts = 0]
  BY DEF Scheduled
<1>4. Scheduled(r) \in RowType
  BY <1>1, <1>2, <1>3 DEF RowType
<1>5. QED
  BY <1>4 DEF Scheduled, RowType

-----------------------------------------------------------------------------
(* What each statement does to the rows.                                   *)

\* A claimed row that leaves the lease of its run: closed, or pending again
\* when nothing newer is.
Leaves(i) ==
  /\ row[i].status = "claimed" /\ row'[i].of = row[i].of
  /\ row'[i].owner = NoWorker /\ ~row'[i].started
  /\ \/ row'[i].status \in Closed \ {"sent", "cleared", "superseded"}
     \/ row'[i].status = "superseded" /\ PendingOf(row[i].of) # {}
     \/ row'[i].status = "pending" /\ PendingOf(row[i].of) = {}

LEMMA ReturnedFacts ==
  ASSUME TypeOK, NEW i \in Row, NEW due \in Int, row[i].status = "claimed",
         row'[i] = ReturnedToPending(i, due)
  PROVE  row'[i] \in RowType /\ Leaves(i)
<1>1. row[i] \in RowType
  BY DEF TypeOK
<1>2. CASE HasNewerPending(i)
  BY <1>1, <1>2, CloseType DEF ReturnedToPending, Leaves, HasNewerPending, Closed
<1>3. CASE ~HasNewerPending(i)
  BY <1>1, <1>3, ReleasedType DEF ReturnedToPending, Leaves, HasNewerPending
<1>4. QED
  BY <1>2, <1>3

LEMMA FailedFacts ==
  ASSUME TypeOK, NEW i \in Row, row[i].status = "claimed", row'[i] = Close(row[i], "failed")
  PROVE  row'[i] \in RowType /\ Leaves(i)
<1>1. row[i] \in RowType
  BY DEF TypeOK
<1>2. QED
  BY <1>1, CloseType DEF Leaves, Closed

\* The release touches stale claims only, and gives back none that began to send.
LEMMA ReleaseFacts ==
  ASSUME TypeOK, NEW w \in Worker, ReleaseStaleClaims(w)
  PROVE  /\ row' \in [Row -> RowType]
         /\ \A i \in Row : ~(row[i].status = "claimed" /\ row[i].lease = 0) => row'[i] = row[i]
         /\ \A i \in Row : row[i].status = "claimed" /\ row[i].lease = 0 =>
              Leaves(i) /\ (row[i].started => row'[i].status \in Closed)
         /\ UniquePending(row')
<1>1. row' = [i \in Row |-> StaleReleased(i)]
  BY DEF ReleaseStaleClaims
<1>2. ASSUME NEW i \in Row, row[i].status = "claimed", row[i].lease = 0
      PROVE  row'[i] \in RowType /\ Leaves(i) /\ (row[i].started => row'[i].status \in Closed)
  <2>1. CASE Uncertain(row[i])
    <3>1. row'[i] = Close(row[i], "failed")
      BY <1>1, <1>2, <2>1 DEF StaleReleased
    <3>2. row[i] \in RowType
      BY DEF TypeOK
    <3>3. QED
      BY <1>2, <3>1, <3>2, FailedFacts, CloseType DEF Closed
  <2>2. CASE ~Uncertain(row[i])
    <3>1. row'[i] = ReturnedToPending(i, 0)
      BY <1>1, <1>2, <2>2 DEF StaleReleased
    <3>2. QED
      BY <1>2, <2>2, <3>1, ReturnedFacts DEF Uncertain
  <2>3. QED
    BY <2>1, <2>2
<1>3. ASSUME NEW i \in Row, ~(row[i].status = "claimed" /\ row[i].lease = 0)
      PROVE  row'[i] = row[i] /\ row'[i] \in RowType
  BY <1>1, <1>3 DEF StaleReleased, TypeOK
<1>4. UniquePending(row')
  BY <1>1 DEF ReleaseStaleClaims
<1>5. QED
  BY <1>1, <1>2, <1>3, <1>4

LEMMA ErrorFacts ==
  ASSUME TypeOK, NEW i \in Row, row[i].status = "claimed", row'[i] = AfterError(i)
  PROVE  row'[i] \in RowType /\ Leaves(i)
<1>1. row[i].attempts \in 0 .. MaxAttempts
  BY DEF TypeOK, RowType
<1>2. CASE row[i].attempts >= MaxAttempts
  BY <1>2, FailedFacts DEF AfterError
<1>3. CASE row[i].attempts < MaxAttempts
  <2>1. Backoff[row[i].attempts] \in Int
    BY <1>1, BackoffType
  <2>2. row'[i] = ReturnedToPending(i, Backoff[row[i].attempts])
    BY <1>1, <1>3 DEF AfterError
  <2>3. QED
    BY <2>1, <2>2, ReturnedFacts
<1>4. QED
  BY <1>1, <1>2, <1>3


\* What an edit does to row i of result x.
Edited(i, x, s) ==
  \/ row'[i] = row[i]
  \/ /\ row[i].status = "pending" /\ row'[i].status = "cleared"
     /\ row'[i].of = row[i].of /\ row[i].of = x /\ s = Unset /\ ~row'[i].started
  \/ /\ row[i].status \in {"absent", "pending"} /\ row'[i].status = "pending"
     /\ row'[i].of = x /\ row'[i].due = Delay
     /\ row[i].status = "pending" => row[i].of = x
     /\ s # Unset /\ i = basis'[x]

LEMMA EditFacts ==
  ASSUME TypeOK, EditsBoundRows, NEW x \in Result, NEW s \in 0 .. MaxScore, Edit(x, s)
  PROVE  /\ row' \in [Row -> RowType] /\ basis' \in [Result -> Row \cup {0}]
         /\ \A i \in Row : Edited(i, x, s)
         /\ \A i \in Row : i > edits' => row'[i].status = "absent"
         /\ \A i \in Row : row'[i].status = "absent" \/ row'[i].of \in Result
         /\ \A y \in Result \ {x} : basis'[y] = basis[y]
         /\ s # Unset => /\ basis'[x] \in Row
                         /\ row'[basis'[x]].status = "pending" /\ row'[basis'[x]].of = x
         /\ s # Unset => \A j \in Row : row'[j].status = "pending" /\ row'[j].of = x => j = basis'[x]
         /\ UniquePending(row')
<1> USE DEF Row
<1>0. edits \in Nat /\ edits' = edits + 1 /\ edits < MaxEdits
  BY DEF TypeOK, Edit
<1>t. \A i \in Row : row[i] \in RowType
  BY DEF TypeOK
<1>1. CASE s = Unset
  <2>1. /\ row' = [i \in Row |-> IF i \in PendingOf(x) THEN Close(row[i], "cleared") ELSE row[i]]
        /\ basis' = basis
    BY <1>1 DEF Edit, CancelPending
  <2>2. ASSUME NEW i \in Row
        PROVE  /\ row'[i] \in RowType /\ Edited(i, x, s) /\ row'[i].of = row[i].of
               /\ row'[i].status = "pending" => row[i].status = "pending"
               /\ row[i].status = "absent" <=> row'[i].status = "absent"
    <3>1. CASE i \in PendingOf(x)
      <4>1. row'[i] = Close(row[i], "cleared") /\ row[i].status = "pending" /\ row[i].of = x
        BY <2>1, <3>1 DEF PendingOf
      <4>2. QED
        BY <1>1, <1>t, <4>1, CloseType DEF Edited, Closed
    <3>2. CASE i \notin PendingOf(x)
      BY <2>1, <3>2, <1>t DEF Edited
    <3>3. QED
      BY <3>1, <3>2
  <2>3. row' \in [Row -> RowType]
    BY <2>1, <2>2
  <2>4. UniquePending(row')
    BY <2>2 DEF UniquePending, TypeOK
  <2>5. \A i \in Row : i > edits' => row'[i].status = "absent"
    BY <1>0, <2>2 DEF EditsBoundRows
  <2>6. \A i \in Row : row'[i].status = "absent" \/ row'[i].of \in Result
    BY <2>2 DEF TypeOK
  <2>7. QED
    BY <1>1, <2>1, <2>2, <2>3, <2>4, <2>5, <2>6 DEF TypeOK
<1>2. CASE s # Unset /\ PendingOf(x) # {}
  <2> DEFINE b == CHOOSE i \in PendingOf(x) : TRUE
  <2>1. b \in PendingOf(x)
    BY <1>2
  <2>2. b \in Row /\ row[b].status = "pending" /\ row[b].of = x
    BY <2>1 DEF PendingOf
  <2>3. PendingOf(x) = {b}
    BY <2>1 DEF PendingOf, TypeOK, UniquePending
  <2>4. basis' = [basis EXCEPT ![x] = b]
    BY <1>2 DEF Edit, Schedule, Conflicting
  <2>5. row' = [i \in Row |-> IF i = b THEN Scheduled(row[i]) ELSE row[i]]
    BY <1>2, <2>3 DEF Edit, Schedule, Conflicting
  <2> HIDE DEF b
  <2>6. basis'[x] = b /\ basis' \in [Result -> Row \cup {0}]
    BY <2>2, <2>4 DEF TypeOK
  <2>7. /\ row'[b] \in RowType /\ row'[b].status = "pending" /\ row'[b].of = x /\ row'[b].due = Delay
    BY <1>t, <2>2, <2>5, ScheduledType
  <2>8. \A i \in Row \ {b} : row'[i] = row[i]
    BY <2>5
  <2>9. row' \in [Row -> RowType]
    BY <1>t, <2>5, <2>7, <2>8
  <2>10. \A i \in Row : Edited(i, x, s)
    BY <1>2, <2>2, <2>6, <2>7, <2>8 DEF Edited
  <2>11. \A i \in Row : row'[i].status = row[i].status /\ row'[i].of = row[i].of
    BY <2>2, <2>7, <2>8
  <2>12. UniquePending(row')
    BY <2>11 DEF UniquePending, TypeOK
  <2>13. \A i \in Row : i > edits' => row'[i].status = "absent"
    BY <1>0, <2>11 DEF EditsBoundRows
  <2>14. \A i \in Row : row'[i].status = "absent" \/ row'[i].of \in Result
    BY <2>11 DEF TypeOK
  <2>15. \A y \in Result \ {x} : basis'[y] = basis[y]
    BY <2>4 DEF TypeOK
  <2>16. \A j \in Row : row'[j].status = "pending" /\ row'[j].of = x => j = b
    BY <2>2, <2>11 DEF TypeOK, UniquePending
  <2>17. QED
    BY <2>2, <2>6, <2>7, <2>9, <2>10, <2>12, <2>13, <2>14, <2>15, <2>16
<1>3. CASE s # Unset /\ PendingOf(x) = {}
  <2> DEFINE b == edits + 1
             r == [Absent EXCEPT !.status = "pending", !.of = x]
  <2>1. b \in Row /\ row[b].status = "absent"
    BY <1>0 DEF EditsBoundRows
  <2>2. basis' = [basis EXCEPT ![x] = b] /\ row' = [row EXCEPT ![b] = Scheduled(r)]
    BY <1>3 DEF Edit, Schedule, Conflicting, NextRow
  <2>3. r \in RowType /\ r.status = "pending" /\ r.of = x
    BY AbsentType DEF Absent, RowType, Open
  <2> HIDE DEF r
  <2>4. Scheduled(r) \in RowType /\ Scheduled(r).status = "pending" /\ Scheduled(r).of = x
        /\ Scheduled(r).due = Delay
    BY <2>3, ScheduledType
  <2>5. row'[b] = Scheduled(r) /\ row' \in [Row -> RowType] /\ \A i \in Row \ {b} : row'[i] = row[i]
    BY <2>1, <2>2, <2>4 DEF TypeOK
  <2>6. basis'[x] = b /\ basis' \in [Result -> Row \cup {0}] /\ \A y \in Result \ {x} : basis'[y] = basis[y]
    BY <2>1, <2>2 DEF TypeOK
  <2>7. \A i \in Row : Edited(i, x, s)
    BY <1>3, <2>1, <2>4, <2>5, <2>6 DEF Edited
  <2>8. \A j \in Row : row'[j].status = "pending" /\ row'[j].of = x => j = b
    BY <1>3, <2>5 DEF PendingOf
  <2>9. UniquePending(row')
    BY <2>1, <2>4, <2>5, <2>8 DEF UniquePending, TypeOK
  <2>10. \A i \in Row : i > edits' => row'[i].status = "absent"
    BY <1>0, <2>5 DEF EditsBoundRows
  <2>11. \A i \in Row : row'[i].status = "absent" \/ row'[i].of \in Result
    BY <2>4, <2>5 DEF TypeOK
  <2>12. QED
    BY <2>1, <2>4, <2>5, <2>6, <2>7, <2>8, <2>9, <2>10, <2>11
<1>4. QED
  BY <1>1, <1>2, <1>3

\* A claim takes due rows only, and each as if it had never begun to send.
Claimed(w, i) ==
  /\ row[i].status = "pending" /\ row[i].due <= -worker[w].age
  /\ row'[i].status = "claimed" /\ row'[i].of = row[i].of
  /\ row'[i].owner = w /\ ~row'[i].started

LEMMA ClaimFacts ==
  ASSUME TypeOK, NEW w \in Worker, ClaimDueBatch(w)
  PROVE  /\ row' \in [Row -> RowType]
         /\ \A i \in Row : row'[i] = row[i] \/ Claimed(w, i)
         /\ UniquePending(row')
         /\ worker' \in [Worker -> WorkerType]
         /\ \A v \in Worker \ {w} : worker'[v] = worker[v]
         /\ worker'[w].pc \in {"idle", "next"}
         /\ \A i \in worker'[w].batch : i \in Row /\ Claimed(w, i)
<1>1. PICK batch \in SUBSET DueRows(w) :
        /\ row' = [i \in Row |->
             IF i \in batch
             THEN [row[i] EXCEPT !.status = "claimed", !.owner = w, !.started = FALSE,
                                 !.attempts = @ + 1, !.due = 0,
                                 !.lease = IF worker[w].age < LeaseDuration
                                           THEN LeaseDuration - worker[w].age ELSE 0]
             ELSE row[i]]
        /\ worker' = [worker EXCEPT ![w] =
             IF batch = {} THEN Idle ELSE [Idle EXCEPT !.pc = "next", !.batch = batch]]
  BY DEF ClaimDueBatch
<1> DEFINE lease == IF worker[w].age < LeaseDuration THEN LeaseDuration - worker[w].age ELSE 0
<1>2. worker[w].age \in Nat /\ lease \in 0 .. LeaseDuration
  BY DEF TypeOK, WorkerType
<1> HIDE DEF lease
<1>3. ASSUME NEW i \in batch
      PROVE  i \in Row /\ row'[i] \in RowType /\ Claimed(w, i)
  <2>1. i \in Row /\ row[i].status = "pending" /\ row[i].due <= -worker[w].age /\ row[i].attempts < MaxAttempts
    BY <1>3 DEF DueRows
  <2> DEFINE r == row[i]
             r1 == [r EXCEPT !.status = "claimed", !.owner = w]
             r2 == [r1 EXCEPT !.started = FALSE, !.attempts = r.attempts + 1]
             r3 == [r2 EXCEPT !.due = 0]
             r4 == [r3 EXCEPT !.lease = lease]
  <2>2. r \in RowType
    BY <2>1 DEF TypeOK
  <2>3. r1 \in RowType /\ r1.status = "claimed" /\ r1.owner = w /\ r1.of = r.of
    BY <2>2 DEF RowType, Open
  <2>4. r.attempts + 1 \in 0 .. MaxAttempts
    BY <2>1, <2>2 DEF RowType
  <2>5. row'[i] = r4
    BY <1>1, <1>3, <2>1, <2>2 DEF lease, RowType
  <2>6. r2 \in RowType /\ r2.status = "claimed" /\ r2.owner = w /\ r2.of = r.of /\ ~r2.started
    <3> HIDE DEF r1
    <3>1. QED
      BY <2>3, <2>4 DEF RowType
  <2>7. r3 \in RowType /\ r3.status = "claimed" /\ r3.owner = w /\ r3.of = r.of /\ ~r3.started
    <3> HIDE DEF r2
    <3>1. QED
      BY <2>6 DEF RowType
  <2>8. r4 \in RowType /\ r4.status = "claimed" /\ r4.owner = w /\ r4.of = r.of /\ ~r4.started
    <3> HIDE DEF r3
    <3>1. QED
      BY <1>2, <2>7 DEF RowType
  <2>9. QED
    BY <2>1, <2>5, <2>8 DEF Claimed
<1>4. \A i \in Row \ batch : row'[i] = row[i]
  BY <1>1
<1>5. row' \in [Row -> RowType] /\ \A i \in Row : row'[i] = row[i] \/ Claimed(w, i)
  BY <1>1, <1>3, <1>4 DEF TypeOK
<1>6. UniquePending(row')
  BY <1>3, <1>4 DEF UniquePending, TypeOK, Claimed
<1>7. batch \in SUBSET Row
  BY <1>3
<1>8. [Idle EXCEPT !.pc = "next", !.batch = batch] \in WorkerType
  BY <1>7, AbsentType DEF Idle, WorkerType
<1>9. /\ worker' \in [Worker -> WorkerType] /\ \A v \in Worker \ {w} : worker'[v] = worker[v]
      /\ worker'[w].pc \in {"idle", "next"} /\ worker'[w].batch = batch
  BY <1>1, <1>8, AbsentType DEF TypeOK, Idle
<1>10. QED
  BY <1>3, <1>5, <1>6, <1>9

\* A tick changes the clocks of rows and runs, and nothing else.
SameButClock(i) ==
  /\ row'[i].status = row[i].status /\ row'[i].of = row[i].of /\ row'[i].owner = row[i].owner
  /\ row'[i].started = row[i].started

LEMMA TickFacts ==
  ASSUME TypeOK, Tick
  PROVE  /\ row' \in [Row -> RowType] /\ worker' \in [Worker -> WorkerType]
         /\ \A i \in Row :
              /\ SameButClock(i)
              /\ row'[i].lease = IF row[i].lease > 0 THEN row[i].lease - 1 ELSE 0
              /\ row'[i].due = IF row[i].status = "pending" /\ row[i].due > -ClaimWindow
                               THEN row[i].due - 1 ELSE row[i].due
         /\ \A w \in Worker :
              /\ worker'[w].pc = worker[w].pc /\ worker'[w].batch = worker[w].batch
              /\ worker'[w].at = worker[w].at /\ worker'[w].result = worker[w].result
              /\ worker'[w].seen = worker[w].seen
              /\ worker[w].pc = "claim" =>
                   worker[w].age < ClaimWindow /\ worker'[w].age = worker[w].age + 1
              /\ worker[w].pc = "send" =>
                   worker[w].flight > 0 /\ worker'[w].flight = worker[w].flight - 1
<1>1. ASSUME NEW i \in Row
      PROVE  /\ row'[i] \in RowType /\ SameButClock(i)
             /\ row'[i].lease = IF row[i].lease > 0 THEN row[i].lease - 1 ELSE 0
             /\ row'[i].due = IF row[i].status = "pending" /\ row[i].due > -ClaimWindow
                              THEN row[i].due - 1 ELSE row[i].due
  <2> DEFINE l == IF row[i].lease > 0 THEN row[i].lease - 1 ELSE 0
             d == IF row[i].status = "pending" /\ row[i].due > -ClaimWindow
                  THEN row[i].due - 1 ELSE row[i].due
  <2>1. row[i] \in RowType
    BY DEF TypeOK
  <2>2. row'[i] = [row[i] EXCEPT !.lease = l, !.due = d]
    BY DEF Tick
  <2>3. l \in 0 .. LeaseDuration /\ d \in Int
    BY <2>1 DEF RowType
  <2> HIDE DEF l, d
  <2>4. row'[i] \in RowType /\ SameButClock(i) /\ row'[i].lease = l /\ row'[i].due = d
    BY <2>1, <2>2, <2>3 DEF RowType, SameButClock
  <2>5. QED
    BY <2>4 DEF l, d
<1>2. ASSUME NEW w \in Worker
      PROVE  /\ worker'[w] \in WorkerType
             /\ worker'[w].pc = worker[w].pc /\ worker'[w].batch = worker[w].batch
             /\ worker'[w].at = worker[w].at /\ worker'[w].result = worker[w].result
             /\ worker'[w].seen = worker[w].seen
             /\ worker[w].pc = "claim" =>
                  worker[w].age < ClaimWindow /\ worker'[w].age = worker[w].age + 1
             /\ worker[w].pc = "send" =>
                  worker[w].flight > 0 /\ worker'[w].flight = worker[w].flight - 1
  <2> DEFINE a == IF worker[w].pc = "claim" THEN worker[w].age + 1 ELSE worker[w].age
             f == IF worker[w].pc = "send" THEN worker[w].flight - 1 ELSE worker[w].flight
  <2>1. worker[w] \in WorkerType
    BY DEF TypeOK
  <2>2. worker'[w] = [worker[w] EXCEPT !.age = a, !.flight = f]
    BY DEF Tick
  <2>3. /\ worker[w].pc = "claim" => worker[w].age < ClaimWindow
        /\ worker[w].pc = "send" => worker[w].flight > 0
    BY DEF Tick
  <2>4. a \in 0 .. ClaimWindow /\ f \in 0 .. TransportDeadline
    BY <2>1, <2>3 DEF WorkerType
  <2> HIDE DEF a, f
  <2>5. /\ worker'[w] \in WorkerType /\ worker'[w].age = a /\ worker'[w].flight = f
        /\ worker'[w].pc = worker[w].pc /\ worker'[w].batch = worker[w].batch
        /\ worker'[w].at = worker[w].at /\ worker'[w].result = worker[w].result
        /\ worker'[w].seen = worker[w].seen
    BY <2>1, <2>2, <2>4 DEF WorkerType
  <2>6. QED
    BY <2>3, <2>5 DEF a, f
<1>3. DOMAIN row' = Row /\ DOMAIN worker' = Worker
  BY DEF Tick
<1>4. row' = [i \in Row |-> row'[i]] /\ worker' = [w \in Worker |-> worker'[w]]
  BY DEF Tick
<1>5. QED
  BY <1>1, <1>2, <1>4


\* A run settles a row it holds, and no other.
SettledRow(w, i) ==
  /\ Holds(w, i) /\ row'[i].of = row[i].of /\ row'[i].owner = NoWorker /\ ~row'[i].started
  /\ \/ row'[i].status = "sent" /\ worker[w].pc = "settle" /\ worker[w].result = "sent"
     \/ row'[i].status = "cleared" /\ worker[w].pc = "skip" /\ worker[w].result = "cleared"
     \/ Leaves(i) /\ (row'[i].status = "pending" => worker[w].pc = "settle" /\ worker[w].result # "sent")

LEMMA OneRowSettled ==
  ASSUME TypeOK, NEW w \in Worker, NEW i \in Row, NEW r, row' = [row EXCEPT ![i] = r],
         r \in RowType, SettledRow(w, i)
  PROVE  row' \in [Row -> RowType] /\ UniquePending(row')
<1>1. row' \in [Row -> RowType] /\ \A j \in Row \ {i} : row'[j] = row[j]
  BY DEF TypeOK
<1>2. row[i].status = "claimed"
  BY DEF SettledRow, Holds
<1>3. row'[i].status = "pending" => row'[i].of = row[i].of /\ PendingOf(row[i].of) = {}
  BY DEF SettledRow, Leaves, Closed
<1>4. UniquePending(row')
  BY <1>1, <1>2, <1>3 DEF UniquePending, PendingOf, TypeOK
<1>5. QED
  BY <1>1, <1>4

LEMMA SettleFacts ==
  ASSUME IInv, NEW w \in Worker, SettleSkipped(w) \/ Settle(w)
  PROVE  /\ worker[w].at \in Row /\ row' \in [Row -> RowType] /\ UniquePending(row')
         /\ \A j \in Row \ {worker[w].at} : row'[j] = row[j]
         /\ \/ row'[worker[w].at] = row[worker[w].at]
            \/ SettledRow(w, worker[w].at)
<1> DEFINE i == worker[w].at
<1>1. TypeOK /\ RunIsSound(w) /\ i \in Row /\ worker[w] \in WorkerType /\ row[i] \in RowType
  BY DEF IInv, RunsAreSound, RunIsSound, TypeOK, SettleSkipped, Settle
<1>2. CASE ~Holds(w, i)
  <2>1. row' = row
    BY <1>2 DEF SettleSkipped, Settle
  <2>2. QED
    BY <1>1, <2>1 DEF TypeOK
<1>3. CASE SettleSkipped(w) /\ Holds(w, i)
  <2>1. row' = [row EXCEPT ![i] = Close(row[i], worker[w].result)]
    BY <1>3 DEF SettleSkipped
  <2>2. worker[w].result \in {"cleared", "unreachable"} /\ worker[w].pc = "skip"
    BY <1>1, <1>3 DEF RunIsSound, SettleSkipped
  <2>3. Close(row[i], worker[w].result) \in RowType /\ row'[i] = Close(row[i], worker[w].result)
    BY <1>1, <2>1, <2>2, CloseType DEF Closed, TypeOK
  <2>4. SettledRow(w, i)
    <3>1. /\ row'[i].of = row[i].of /\ row'[i].owner = NoWorker /\ ~row'[i].started
          /\ row'[i].status = worker[w].result
      BY <1>1, <2>2, <2>3, CloseType DEF Closed
    <3>2. QED
      BY <1>3, <2>2, <3>1 DEF SettledRow, Leaves, Holds, Closed
  <2>5. QED
    BY <1>1, <2>1, <2>3, <2>4, OneRowSettled
<1>4. CASE Settle(w) /\ Holds(w, i) /\ worker[w].result = "sent"
  <2>1. row' = [row EXCEPT ![i] = Close(row[i], "sent")] /\ worker[w].pc = "settle"
    BY <1>4 DEF Settle
  <2>2. Close(row[i], "sent") \in RowType /\ row'[i] = Close(row[i], "sent")
    BY <1>1, <2>1, CloseType DEF Closed, TypeOK
  <2>3. SettledRow(w, i)
    BY <1>1, <1>4, <2>1, <2>2, CloseType DEF Closed, SettledRow
  <2>4. QED
    BY <1>1, <2>1, <2>2, <2>3, OneRowSettled
<1>5. CASE Settle(w) /\ Holds(w, i) /\ worker[w].result # "sent"
  <2>1. row' = [row EXCEPT ![i] = AfterError(i)] /\ worker[w].pc = "settle" /\ row[i].status = "claimed"
    BY <1>5 DEF Settle, Holds
  <2>2. row'[i] = AfterError(i)
    BY <1>1, <2>1 DEF TypeOK
  <2>3. AfterError(i) \in RowType /\ Leaves(i)
    BY <1>1, <2>1, <2>2, ErrorFacts
  <2>4. SettledRow(w, i)
    BY <1>5, <2>1, <2>3 DEF SettledRow, Leaves
  <2>5. QED
    BY <1>1, <2>1, <2>3, <2>4, OneRowSettled
<1>6. QED
  BY <1>2, <1>3, <1>4, <1>5

-----------------------------------------------------------------------------
(* What a step leaves to a run that does not take it.                      *)

Kept(v, i) ==
  /\ row[i].status # "absent" => row'[i].status # "absent"
  /\ Holds(v, i)' => Holds(v, i) /\ row'[i].started = row[i].started
  /\ row[i].status \in Closed => row'[i].status \in Closed
  /\ Holds(v, i) /\ row[i].started => \/ row'[i].status \in Closed
                                      \/ Holds(v, i)' /\ row'[i].started

SameRun(v) ==
  /\ worker'[v].pc = worker[v].pc /\ worker'[v].batch = worker[v].batch
  /\ worker'[v].at = worker[v].at /\ worker'[v].result = worker[v].result

LEMMA Bystander ==
  ASSUME TypeOK, NEW v \in Worker, RunIsSound(v), SameRun(v), \A i \in Row : Kept(v, i),
         InTransport(v) => handed'[worker[v].at] = handed[worker[v].at]
  PROVE  RunIsSound(v)'
<1>1. worker[v].batch \in SUBSET Row
  BY DEF TypeOK, WorkerType
<1>2. Mine(v)' = Mine(v) /\ Mine(v) \in SUBSET Row
  BY <1>1 DEF Mine, SameRun, RunIsSound
<1>3. InTransport(v)' <=> InTransport(v)
  BY DEF InTransport, SameRun
<1>4. \A i \in Mine(v)' : row'[i].status # "absent"
  BY <1>2 DEF Kept, RunIsSound
<1>5. \A i \in worker'[v].batch : Holds(v, i)' => ~row'[i].started
  BY <1>1 DEF Kept, RunIsSound, SameRun
<1>6. worker'[v].pc = "start" /\ Holds(v, worker[v].at)' => ~row'[worker[v].at].started
  BY DEF Kept, RunIsSound, SameRun
<1>7. InTransport(v) => \/ row'[worker[v].at].status \in Closed
                        \/ Holds(v, worker[v].at)' /\ row'[worker[v].at].started
  <2>1. InTransport(v) => worker[v].at \in Row
    BY DEF RunIsSound, InTransport
  <2>2. InTransport(v) => Kept(v, worker[v].at)
    BY <2>1
  <2>3. InTransport(v) => \/ row[worker[v].at].status \in Closed
                          \/ Holds(v, worker[v].at) /\ row[worker[v].at].started
    BY DEF RunIsSound
  <2>4. QED
    BY <2>2, <2>3 DEF Kept
<1>8. QED
  BY <1>3, <1>4, <1>5, <1>6, <1>7 DEF RunIsSound, SameRun, Holds

LEMMA KeptSame ==
  ASSUME NEW v \in Worker, NEW i \in Row, row'[i] = row[i] \/ SameButClock(i)
  PROVE  Kept(v, i)
  BY DEF Kept, SameButClock, Holds

LEMMA KeptOther ==
  ASSUME NEW v \in Worker, NEW w \in Worker \ {v}, NEW i \in Row, Claimed(w, i) \/ SettledRow(w, i)
  PROVE  Kept(v, i)
  BY DEF Kept, Claimed, SettledRow, Leaves, Holds, Closed

LEMMA KeptEdited ==
  ASSUME NEW v \in Worker, NEW i \in Row, NEW x, NEW s, Edited(i, x, s)
  PROVE  Kept(v, i)
  BY DEF Kept, Edited, Holds, Closed

LEMMA KeptReleased ==
  ASSUME NEW v \in Worker, NEW i \in Row, Leaves(i), row[i].started => row'[i].status \in Closed
  PROVE  Kept(v, i)
  BY DEF Kept, Leaves, Holds, Closed

\* A run that begins or returns from deliver has its batch before it.
LEMMA FreshRun ==
  ASSUME NEW w \in Worker, worker'[w].pc \in {"idle", "claim", "next"},
         \A i \in worker'[w].batch : row'[i].status # "absent" /\ (Holds(w, i)' => ~row'[i].started)
  PROVE  RunIsSound(w)' /\ ~InTransport(w)'
  BY DEF RunIsSound, Mine, InTransport

LEMMA ReturnedRun ==
  ASSUME NEW w \in Worker, worker[w] \in WorkerType
  PROVE  /\ Returned(w) \in WorkerType /\ Returned(w).pc \in {"idle", "next"}
         /\ Returned(w).batch = worker[w].batch
<1>1. worker[w].batch \in SUBSET Row
  BY DEF WorkerType
<1> DEFINE r == [Idle EXCEPT !.pc = "next", !.batch = worker[w].batch]
<1>2. r \in WorkerType /\ r.pc = "next" /\ r.batch = worker[w].batch
  BY <1>1, AbsentType DEF Idle, WorkerType
<1>3. Idle.pc = "idle" /\ Idle.batch = {}
  BY DEF Idle
<1> HIDE DEF r
<1>4. Returned(w) = IF worker[w].batch = {} THEN Idle ELSE r
  BY DEF Returned, r
<1>5. QED
  BY <1>2, <1>3, <1>4, AbsentType


-----------------------------------------------------------------------------
(* Every step preserves IInv.                                              *)

LEMMA EditKeepsIInv ==
  ASSUME IInv, NEW x \in Result, NEW s \in 0 .. MaxScore, Edit(x, s)
  PROVE  IInv'
<1>1. TypeOK /\ EditsBoundRows
  BY DEF IInv
<1>2. /\ edits' = edits + 1 /\ edits < MaxEdits /\ score' = [score EXCEPT ![x] = s]
      /\ UNCHANGED <<worker, handed, shown, faults>>
  BY DEF Edit
<1>3. TypeOK'
  <2>1. edits' \in 0 .. MaxEdits /\ score' \in [Result -> 0 .. MaxScore]
    BY <1>1, <1>2 DEF TypeOK
  <2>2. QED
    BY <1>1, <1>2, <2>1, EditFacts DEF TypeOK
<1>4. \A i \in Row : Edited(i, x, s)
  BY <1>1, EditFacts
<1>5. RunsAreSound'
  <2> SUFFICES ASSUME NEW v \in Worker PROVE RunIsSound(v)'
    BY DEF RunsAreSound
  <2>1. RunIsSound(v) /\ SameRun(v) /\ handed' = handed
    BY <1>2 DEF IInv, RunsAreSound, SameRun
  <2>2. \A i \in Row : Kept(v, i)
    BY <1>4, KeptEdited
  <2>3. QED
    BY <1>1, <2>1, <2>2, Bystander
<1>6. TransportsAreApart'
  BY <1>2 DEF IInv, TransportsAreApart, InTransport
<1>7. HandedRowsAreDone'
  BY <1>2, <1>4 DEF IInv, HandedRowsAreDone, Edited, Closed
<1>8. EditsBoundRows'
  BY <1>1, EditFacts DEF EditsBoundRows
<1>9. QED
  BY <1>3, <1>5, <1>6, <1>7, <1>8 DEF IInv

LEMMA TickKeepsIInv == IInv /\ Tick => IInv'
<1> SUFFICES ASSUME IInv, Tick PROVE IInv'
  OBVIOUS
<1>1. TypeOK /\ UNCHANGED <<score, basis, handed, shown, edits, faults>>
  BY DEF IInv, Tick
<1>2. \A i \in Row : SameButClock(i)
  BY <1>1, TickFacts
<1>3. \A w \in Worker : SameRun(w)
  BY <1>1, TickFacts DEF SameRun
<1>4. TypeOK'
  BY <1>1, <1>2, TickFacts DEF TypeOK, UniquePending, SameButClock
<1>5. RunsAreSound'
  BY <1>1, <1>2, <1>3, KeptSame, Bystander DEF IInv, RunsAreSound
<1>6. TransportsAreApart'
  BY <1>3 DEF IInv, TransportsAreApart, InTransport, SameRun
<1>7. HandedRowsAreDone' /\ EditsBoundRows'
  BY <1>1, <1>2 DEF IInv, HandedRowsAreDone, EditsBoundRows, SameButClock
<1>8. QED
  BY <1>4, <1>5, <1>6, <1>7 DEF IInv

\* A step of run w on its rows: it enters no transport.
LEMMA StepKeepsIInv ==
  ASSUME IInv, NEW w \in Worker, TypeOK', UNCHANGED <<handed, edits>>,
         \A v \in Worker \ {w} : worker'[v] = worker[v],
         \A v \in Worker \ {w}, i \in Row : Kept(v, i),
         \A i \in Row : /\ row[i].status = "absent" => row'[i].status = "absent"
                        /\ handed[i] # 0 => \/ row'[i] = row[i]
                                            \/ row'[i].status \in Closed,
         RunIsSound(w)', InTransport(w)' => InTransport(w) /\ worker'[w].at = worker[w].at
  PROVE  IInv'
<1>1. TypeOK /\ RunsAreSound /\ TransportsAreApart /\ HandedRowsAreDone /\ EditsBoundRows
  BY DEF IInv
<1>2. ASSUME NEW v \in Worker PROVE RunIsSound(v)'
  <2>1. CASE v = w
    BY <2>1
  <2>2. CASE v # w
    <3>1. SameRun(v) /\ RunIsSound(v)
      BY <1>1, <2>2 DEF SameRun, RunsAreSound
    <3>2. QED
      BY <1>1, <2>2, <3>1, Bystander
  <2>3. QED
    BY <2>1, <2>2
<1>3. TransportsAreApart'
  BY <1>1 DEF TransportsAreApart, InTransport
<1>0. handed' = handed /\ edits' = edits
  OBVIOUS
<1>4. HandedRowsAreDone'
  <2> SUFFICES ASSUME NEW i \in Row
      PROVE  /\ handed[i] <= 1
             /\ handed[i] # 0 => \/ row'[i].status \in Closed
                                 \/ row'[i].status = "claimed" /\ row'[i].started
    BY <1>0 DEF HandedRowsAreDone
  <2>1. QED
    BY <1>1 DEF HandedRowsAreDone
<1>5. EditsBoundRows'
  BY <1>0, <1>1 DEF EditsBoundRows
<1>6. QED
  BY <1>2, <1>3, <1>4, <1>5 DEF IInv, RunsAreSound

LEMMA ReleaseKeepsIInv ==
  ASSUME IInv, NEW w \in Worker, ReleaseStaleClaims(w)
  PROVE  IInv'
<1>1. TypeOK /\ HandedRowsAreDone
  BY DEF IInv
<1>2. /\ worker' = [worker EXCEPT ![w] = [Idle EXCEPT !.pc = "claim"]]
      /\ UNCHANGED <<score, basis, handed, shown, edits, faults>>
  BY DEF ReleaseStaleClaims
<1>3. [Idle EXCEPT !.pc = "claim"] \in WorkerType
  BY AbsentType DEF Idle, WorkerType
<1>4. /\ \A v \in Worker \ {w} : worker'[v] = worker[v]
      /\ worker'[w].pc = "claim" /\ worker'[w].batch = {} /\ worker' \in [Worker -> WorkerType]
  BY <1>1, <1>2, <1>3 DEF TypeOK, Idle
<1>5. \A i \in Row : \/ row'[i] = row[i]
                     \/ Leaves(i) /\ (row[i].started => row'[i].status \in Closed)
  <2> TAKE i \in Row
  <2>1. CASE row[i].status = "claimed" /\ row[i].lease = 0
    BY <1>1, <2>1, ReleaseFacts
  <2>2. CASE ~(row[i].status = "claimed" /\ row[i].lease = 0)
    BY <1>1, <2>2, ReleaseFacts
  <2>3. QED
    BY <2>1, <2>2
<1>6. TypeOK'
  <2>1. \A i \in Row : row'[i].status = "absent" \/ row'[i].of \in Result
    BY <1>1, <1>5 DEF TypeOK, Leaves
  <2>2. QED
    BY <1>1, <1>2, <1>4, <2>1, ReleaseFacts DEF TypeOK
<1>7. \A v \in Worker, i \in Row : Kept(v, i)
  BY <1>5, KeptSame, KeptReleased
<1>8. RunIsSound(w)' /\ ~InTransport(w)'
  BY <1>4, FreshRun
<1>9. \A i \in Row : /\ row[i].status = "absent" => row'[i].status = "absent"
                     /\ handed[i] # 0 => row'[i] = row[i] \/ row'[i].status \in Closed
  <2> TAKE i \in Row
  <2>1. CASE row'[i] = row[i]
    BY <2>1
  <2>2. CASE Leaves(i) /\ (row[i].started => row'[i].status \in Closed)
    <3>1. row[i].status = "claimed" /\ row[i].status \notin Closed
      BY <2>2 DEF Leaves, Closed
    <3>2. handed[i] # 0 => row[i].started
      BY <1>1, <3>1 DEF HandedRowsAreDone
    <3>3. QED
      BY <2>2, <3>1, <3>2
  <2>3. QED
    BY <1>5, <2>1, <2>2
<1>10. QED
  BY <1>2, <1>4, <1>6, <1>7, <1>8, <1>9, StepKeepsIInv

LEMMA ClaimKeepsIInv ==
  ASSUME IInv, NEW w \in Worker, ClaimDueBatch(w)
  PROVE  IInv'
<1>1. TypeOK /\ HandedRowsAreDone
  BY DEF IInv
<1>2. UNCHANGED <<score, basis, handed, shown, edits, faults>>
  BY DEF ClaimDueBatch
<1>3. \A i \in Row : row'[i] = row[i] \/ Claimed(w, i)
  BY <1>1, ClaimFacts
<1>4. TypeOK'
  <2>1. \A i \in Row : row'[i].status = "absent" \/ row'[i].of \in Result
    BY <1>1, <1>3 DEF TypeOK, Claimed
  <2>2. QED
    BY <1>1, <1>2, <2>1, ClaimFacts DEF TypeOK
<1>5. \A v \in Worker \ {w}, i \in Row : Kept(v, i)
  BY <1>3, KeptSame, KeptOther
<1>6. RunIsSound(w)' /\ ~InTransport(w)'
  <2>1. worker'[w].pc \in {"idle", "next"} /\ \A i \in worker'[w].batch : i \in Row /\ Claimed(w, i)
    BY <1>1, ClaimFacts
  <2>2. \A i \in worker'[w].batch : row'[i].status # "absent" /\ ~row'[i].started
    BY <2>1 DEF Claimed
  <2>3. QED
    BY <2>1, <2>2, FreshRun
<1>7. \A i \in Row : /\ row[i].status = "absent" => row'[i].status = "absent"
                     /\ handed[i] # 0 => row'[i] = row[i] \/ row'[i].status \in Closed
  <2> TAKE i \in Row
  <2>1. CASE row'[i] = row[i]
    BY <2>1
  <2>2. CASE Claimed(w, i)
    <3>1. row[i].status = "pending" /\ row[i].status \notin Closed
      BY <2>2 DEF Claimed, Closed
    <3>2. QED
      BY <1>1, <3>1 DEF HandedRowsAreDone
  <2>3. QED
    BY <1>3, <2>1, <2>2
<1>8. \A v \in Worker \ {w} : worker'[v] = worker[v]
  BY <1>1, ClaimFacts
<1>9. QED
  BY <1>2, <1>4, <1>5, <1>6, <1>7, <1>8, StepKeepsIInv

LEMMA SettleKeepsIInv ==
  ASSUME IInv, NEW w \in Worker, SettleSkipped(w) \/ Settle(w)
  PROVE  IInv'
<1> DEFINE i == worker[w].at
<1>1. TypeOK /\ HandedRowsAreDone /\ RunIsSound(w) /\ worker[w] \in WorkerType
  BY DEF IInv, TypeOK, RunsAreSound
<1>2. /\ worker' = [worker EXCEPT ![w] = Returned(w)]
      /\ UNCHANGED <<score, basis, handed, shown, edits, faults>>
  BY DEF SettleSkipped, Settle
<1>3. /\ \A v \in Worker \ {w} : worker'[v] = worker[v]
      /\ worker'[w].pc \in {"idle", "next"} /\ worker'[w].batch = worker[w].batch
      /\ worker' \in [Worker -> WorkerType]
  BY <1>1, <1>2, ReturnedRun DEF TypeOK
<1>4. /\ i \in Row /\ row' \in [Row -> RowType] /\ UniquePending(row')
      /\ \A j \in Row \ {i} : row'[j] = row[j]
      /\ row'[i] = row[i] \/ SettledRow(w, i)
  BY SettleFacts
<1>5. TypeOK'
  <2>1. \A j \in Row : row'[j].status = "absent" \/ row'[j].of \in Result
    BY <1>1, <1>4 DEF TypeOK, SettledRow, Holds
  <2>2. QED
    BY <1>1, <1>2, <1>3, <1>4, <2>1 DEF TypeOK
<1>6. \A v \in Worker \ {w}, j \in Row : Kept(v, j)
  BY <1>4, KeptSame, KeptOther
<1>7. RunIsSound(w)' /\ ~InTransport(w)'
  <2>1. worker[w].batch \in SUBSET (Row \ {i})
    BY <1>1 DEF WorkerType, RunIsSound, SettleSkipped, Settle
  <2>2. \A j \in worker[w].batch : row[j].status # "absent" /\ (Holds(w, j) => ~row[j].started)
    BY <1>1 DEF RunIsSound, Mine
  <2>3. \A j \in worker'[w].batch : row'[j].status # "absent" /\ (Holds(w, j)' => ~row'[j].started)
    BY <1>3, <1>4, <2>1, <2>2 DEF Holds
  <2>4. QED
    BY <1>3, <2>3, FreshRun
<1>8. \A j \in Row : /\ row[j].status = "absent" => row'[j].status = "absent"
                     /\ handed[j] # 0 => row'[j] = row[j] \/ row'[j].status \in Closed
  <2>1. handed[i] # 0 /\ worker[w].pc = "settle" => worker[w].result = "sent"
    BY <1>1 DEF RunIsSound, InTransport
  <2>2. SettledRow(w, i) => row[i].status # "absent" /\ (handed[i] # 0 => row'[i].status \in Closed)
    BY <2>1 DEF SettledRow, Leaves, Holds, Closed
  <2>3. QED
    BY <1>4, <2>2
<1>9. QED
  BY <1>2, <1>3, <1>5, <1>6, <1>7, <1>8, StepKeepsIInv


\* deliver begins with row i, out of the batch.
LEMMA LoadFacts ==
  ASSUME IInv, NEW w \in Worker, NEW i \in Row, LoadSource(w, i)
  PROVE  /\ worker' \in [Worker -> WorkerType] /\ i \in worker[w].batch
         /\ \A v \in Worker \ {w} : worker'[v] = worker[v]
         /\ worker'[w].batch = worker[w].batch \ {i} /\ worker'[w].at = i
         /\ \/ worker'[w].pc = "skip" /\ worker'[w].result = "unreachable"
            \/ /\ worker'[w].pc = "skip" /\ worker'[w].result = "cleared"
               /\ score[row[i].of] = Unset
            \/ worker'[w].pc = "start" /\ worker'[w].seen = score[row[i].of]
<1>1. TypeOK /\ worker[w] \in WorkerType /\ i \in worker[w].batch
  BY DEF IInv, TypeOK, LoadSource
<1>2. row[i].of \in Result /\ score[row[i].of] \in 0 .. MaxScore
  <2>1. row[i].status # "absent"
    BY <1>1 DEF IInv, RunsAreSound, RunIsSound, Mine
  <2>2. QED
    BY <1>1, <2>1 DEF TypeOK
<1> DEFINE r1 == [worker[w] EXCEPT !.pc = "skip", !.batch = @ \ {i}, !.at = i, !.result = "unreachable"]
           r2 == [worker[w] EXCEPT !.pc = "skip", !.batch = @ \ {i}, !.at = i, !.result = "cleared"]
           r3 == [worker[w] EXCEPT !.pc = "start", !.batch = @ \ {i}, !.at = i, !.seen = score[row[i].of]]
<1> DEFINE batch == worker[w].batch \ {i}
<1>3. batch \in SUBSET Row
  BY <1>1 DEF WorkerType
<1>4. /\ r1 \in WorkerType /\ r1.pc = "skip" /\ r1.batch = batch /\ r1.at = i /\ r1.result = "unreachable"
      /\ r2 \in WorkerType /\ r2.pc = "skip" /\ r2.batch = batch /\ r2.at = i /\ r2.result = "cleared"
  BY <1>1, <1>3 DEF WorkerType
<1>5. r3 \in WorkerType /\ r3.pc = "start" /\ r3.batch = batch /\ r3.at = i /\ r3.seen = score[row[i].of]
  BY <1>1, <1>2, <1>3 DEF WorkerType
<1>6. \/ worker' = [worker EXCEPT ![w] = r1]
      \/ worker' = [worker EXCEPT ![w] = r2] /\ score[row[i].of] = Unset
      \/ worker' = [worker EXCEPT ![w] = r3]
  BY <1>1 DEF LoadSource, TypeOK
<1> HIDE DEF r1, r2, r3
<1>7. QED
  BY <1>1, <1>4, <1>5, <1>6 DEF TypeOK

LEMMA LoadKeepsIInv ==
  ASSUME IInv, NEW w \in Worker, NEW i \in Row, LoadSource(w, i)
  PROVE  IInv'
<1>1. TypeOK /\ RunIsSound(w) /\ UNCHANGED <<row, score, basis, handed, shown, edits, faults>>
  BY DEF IInv, RunsAreSound, LoadSource
<1>2. TypeOK'
  BY <1>1, LoadFacts DEF TypeOK, UniquePending
<1>3. \A v \in Worker, j \in Row : Kept(v, j)
  BY <1>1, KeptSame
<1>4. /\ i \in worker[w].batch /\ worker'[w].batch = worker[w].batch \ {i} /\ worker'[w].at = i
      /\ \/ worker'[w].pc = "skip" /\ worker'[w].result \in {"cleared", "unreachable"}
         \/ worker'[w].pc = "start"
  BY LoadFacts
<1>5. \A j \in worker[w].batch : row[j].status # "absent" /\ (Holds(w, j) => ~row[j].started)
  BY <1>1 DEF RunIsSound, Mine
<1>6. RunIsSound(w)' /\ ~InTransport(w)'
  BY <1>1, <1>4, <1>5 DEF RunIsSound, Mine, InTransport, Holds
<1>7. QED
  BY <1>1, <1>2, <1>3, <1>6, LoadFacts, StepKeepsIInv

LEMMA StartFacts ==
  ASSUME IInv, NEW w \in Worker, MarkSendStarted(w), HoldsLease(w, worker[w].at)
  PROVE  /\ worker[w].at \in Row
         /\ row' \in [Row -> RowType] /\ worker' \in [Worker -> WorkerType]
         /\ \A j \in Row : /\ row'[j].status = row[j].status /\ row'[j].of = row[j].of
                           /\ row'[j].owner = row[j].owner /\ row'[j].lease = row[j].lease
                           /\ row'[j].due = row[j].due
         /\ \A j \in Row \ {worker[w].at} : row'[j] = row[j]
         /\ row'[worker[w].at].started /\ ~row[worker[w].at].started
         /\ \A v \in Worker \ {w} : worker'[v] = worker[v]
         /\ worker'[w].pc = "send" /\ worker'[w].flight = TransportDeadline
         /\ worker'[w].at = worker[w].at /\ worker'[w].batch = worker[w].batch
         /\ worker'[w].seen = worker[w].seen /\ worker'[w].result = worker[w].result
<1> DEFINE i == worker[w].at
<1>1. TypeOK /\ i \in Row /\ row[i] \in RowType /\ worker[w] \in WorkerType
  BY DEF IInv, TypeOK, RunsAreSound, RunIsSound, MarkSendStarted
<1>2. /\ row' = [row EXCEPT ![i].started = TRUE]
      /\ worker' = [worker EXCEPT ![w].pc = "send", ![w].flight = TransportDeadline]
  BY DEF MarkSendStarted
<1>3. [row[i] EXCEPT !.started = TRUE] \in RowType
  BY <1>1 DEF RowType
<1>4. [worker[w] EXCEPT !.pc = "send", !.flight = TransportDeadline] \in WorkerType
  <2>1. TransportDeadline \in 0 .. TransportDeadline
    OBVIOUS
  <2>2. [worker[w] EXCEPT !.flight = TransportDeadline] \in WorkerType
    BY <1>1, <2>1 DEF WorkerType
  <2>3. [[worker[w] EXCEPT !.flight = TransportDeadline] EXCEPT !.pc = "send"] \in WorkerType
    BY <2>2 DEF WorkerType
  <2>4. QED
    BY <2>3
<1>5. row'[i] = [row[i] EXCEPT !.started = TRUE] /\ worker'[w] = [worker[w] EXCEPT !.pc = "send", !.flight = TransportDeadline]
  BY <1>1, <1>2 DEF TypeOK
<1>6. /\ \A j \in Row \ {i} : row'[j] = row[j]
      /\ \A v \in Worker \ {w} : worker'[v] = worker[v]
      /\ row' \in [Row -> RowType] /\ worker' \in [Worker -> WorkerType]
  BY <1>1, <1>2, <1>3, <1>4 DEF TypeOK
<1>7. /\ row'[i].status = row[i].status /\ row'[i].of = row[i].of
      /\ row'[i].owner = row[i].owner /\ row'[i].lease = row[i].lease
      /\ row'[i].due = row[i].due /\ row'[i].started
  BY <1>1, <1>5 DEF RowType
<1>8. /\ worker'[w].pc = "send" /\ worker'[w].flight = TransportDeadline
      /\ worker'[w].at = worker[w].at /\ worker'[w].batch = worker[w].batch
      /\ worker'[w].seen = worker[w].seen /\ worker'[w].result = worker[w].result
  BY <1>1, <1>5 DEF WorkerType
<1>9. ~row[i].started
  BY DEF IInv, RunsAreSound, RunIsSound, MarkSendStarted, HoldsLease
<1>10. QED
  BY <1>1, <1>6, <1>7, <1>8, <1>9

\* Without the lease the run passes the row by.
LEMMA PassedFacts ==
  ASSUME IInv, NEW w \in Worker, MarkSendStarted(w), ~HoldsLease(w, worker[w].at)
  PROVE  /\ UNCHANGED <<row, score, basis, handed, shown, edits, faults>>
         /\ worker' \in [Worker -> WorkerType] /\ \A v \in Worker \ {w} : worker'[v] = worker[v]
         /\ worker'[w].pc \in {"idle", "next"} /\ worker'[w].batch = worker[w].batch
<1>1. worker' = [worker EXCEPT ![w] = Returned(w)] /\ UNCHANGED <<row, score, basis, handed, shown, edits, faults>>
  BY DEF MarkSendStarted
<1>2. worker \in [Worker -> WorkerType]
  BY DEF IInv, TypeOK
<1>3. QED
  BY <1>1, <1>2, ReturnedRun

LEMMA StartKeepsIInv ==
  ASSUME IInv, NEW w \in Worker, MarkSendStarted(w)
  PROVE  IInv'
<1> DEFINE i == worker[w].at
<1>1. TypeOK /\ RunIsSound(w) /\ UNCHANGED <<score, basis, handed, shown, edits, faults>>
  BY DEF IInv, RunsAreSound, MarkSendStarted
<1>2. CASE ~HoldsLease(w, i)
  <2>1. TypeOK'
    BY <1>1, <1>2, PassedFacts DEF TypeOK, UniquePending
  <2>2. \A v \in Worker, j \in Row : Kept(v, j)
    BY <1>2, PassedFacts, KeptSame
  <2>3. \A j \in worker[w].batch : row[j].status # "absent" /\ (Holds(w, j) => ~row[j].started)
    BY <1>1 DEF RunIsSound, Mine
  <2>4. \A j \in worker'[w].batch : row'[j].status # "absent" /\ (Holds(w, j)' => ~row'[j].started)
    BY <1>2, <2>3, PassedFacts DEF Holds
  <2>5. RunIsSound(w)' /\ ~InTransport(w)'
    BY <1>2, <2>4, PassedFacts, FreshRun
  <2>6. QED
    BY <1>1, <1>2, <2>1, <2>2, <2>5, PassedFacts, StepKeepsIInv
<1>3. CASE HoldsLease(w, i)
  <2> USE <1>3
  <2>1. i \in Row /\ Holds(w, i) /\ i \notin worker[w].batch /\ worker[w].batch \in SUBSET Row
    BY <1>1 DEF HoldsLease, RunIsSound, MarkSendStarted, TypeOK, WorkerType
  <2>2. handed[i] = 0
    BY <2>1, StartFacts DEF IInv, HandedRowsAreDone, TypeOK, Holds, Closed
  <2>3. TypeOK'
    <3>1. UniquePending(row')
      BY <1>1, StartFacts DEF TypeOK, UniquePending
    <3>2. QED
      BY <1>1, <3>1, StartFacts DEF TypeOK
  <2>4. ASSUME NEW v \in Worker PROVE RunIsSound(v)'
    <3>1. CASE v # w
      <4>1. RunIsSound(v) /\ SameRun(v)
        BY <3>1, StartFacts DEF IInv, RunsAreSound, SameRun
      <4>2. ~Holds(v, i) /\ row[i].status \notin Closed
        BY <2>1, <3>1 DEF Holds, Closed
      <4>3. Kept(v, i)
        BY <4>2, StartFacts DEF Kept, Holds
      <4>4. \A j \in Row : Kept(v, j)
        BY <4>3, StartFacts, KeptSame
      <4>5. QED
        BY <1>1, <4>1, <4>4, Bystander
    <3>2. CASE v = w
      <4>1. Mine(w)' = worker[w].batch \cup {i}
        BY StartFacts DEF Mine
      <4>2. \A j \in worker[w].batch \cup {i} : row[j].status # "absent"
        BY <1>1 DEF RunIsSound, Mine, MarkSendStarted
      <4>3. \A j \in Mine(w)' : row'[j].status # "absent"
        BY <2>1, <4>1, <4>2, StartFacts
      <4>4. \A j \in worker'[w].batch : Holds(w, j)' => ~row'[j].started
        BY <1>1, <2>1, StartFacts DEF RunIsSound, Holds
      <4>5. InTransport(w)' /\ Holds(w, i)' /\ row'[i].started
        BY <2>1, StartFacts DEF InTransport, Holds
      <4>6. QED
        BY <1>1, <2>1, <2>2, <3>2, <4>3, <4>4, <4>5, StartFacts DEF RunIsSound
    <3>3. QED
      BY <3>1, <3>2
  <2>5. TransportsAreApart'
    <3>1. ASSUME NEW v \in Worker \ {w}, InTransport(v) PROVE worker[v].at # i
      <4>1. \/ row[worker[v].at].status \in Closed
            \/ Holds(v, worker[v].at) /\ row[worker[v].at].started
        BY <3>1 DEF IInv, RunsAreSound, RunIsSound
      <4>2. QED
        BY <2>1, <4>1, StartFacts DEF Holds, Closed
    <3>2. ASSUME NEW u \in Worker, NEW v \in Worker, u # v, InTransport(u)', InTransport(v)'
          PROVE  worker'[u].at # worker'[v].at
      <4>1. CASE u = w
        BY <3>1, <3>2, <4>1, StartFacts DEF InTransport
      <4>2. CASE v = w
        BY <3>1, <3>2, <4>2, StartFacts DEF InTransport
      <4>3. CASE u # w /\ v # w
        BY <3>2, <4>3, StartFacts DEF InTransport, IInv, TransportsAreApart
      <4>4. QED
        BY <4>1, <4>2, <4>3
    <3>3. QED
      BY <3>2 DEF TransportsAreApart
  <2>6. HandedRowsAreDone'
    <3>1. handed' = handed /\ \A j \in Row : (row[j].started => row'[j].started)
      BY <1>1, <2>1, StartFacts
    <3>2. QED
      BY <3>1, StartFacts DEF IInv, HandedRowsAreDone
  <2>7. EditsBoundRows'
    BY <1>1, StartFacts DEF IInv, EditsBoundRows
  <2>8. QED
    BY <2>3, <2>4, <2>5, <2>6, <2>7 DEF IInv, RunsAreSound
<1>4. QED
  BY <1>2, <1>3


\* The score the parent sees changes only to the card in transport.
Shows(w) ==
  \/ shown' = shown
  \/ /\ worker[w].pc = "send"
     /\ shown' = [shown EXCEPT ![row[worker[w].at].of] = worker[w].seen]

LEMMA SendFacts ==
  ASSUME IInv, NEW w \in Worker, SendPhoto(w)
  PROVE  /\ UNCHANGED <<row, score, basis, edits, faults>>
         /\ worker' \in [Worker -> WorkerType] /\ \A v \in Worker \ {w} : worker'[v] = worker[v]
         /\ worker'[w].at = worker[w].at /\ worker'[w].batch = worker[w].batch
         /\ Shows(w)
         /\ \/ /\ worker'[w].pc = "settle" /\ worker'[w].result = "sent"
               /\ handed' = [handed EXCEPT ![worker[w].at] = @ + 1]
               /\ shown' = [shown EXCEPT ![row[worker[w].at].of] = worker[w].seen]
            \/ worker'[w].pc = "skip" /\ worker'[w].result = "unreachable" /\ handed' = handed
            \/ worker'[w].pc = "settle" /\ worker'[w].result = "error" /\ handed' = handed
<1> DEFINE r1 == [worker[w] EXCEPT !.pc = "settle", !.result = "sent", !.flight = 0]
           r2 == [worker[w] EXCEPT !.pc = "skip", !.result = "unreachable", !.flight = 0]
           r3 == [worker[w] EXCEPT !.pc = "settle", !.result = "error", !.flight = 0]
<1>1. TypeOK /\ worker[w] \in WorkerType /\ 0 \in 0 .. TransportDeadline
  BY DEF IInv, TypeOK
<1>2. /\ r1 \in WorkerType /\ r1.pc = "settle" /\ r1.result = "sent"
      /\ r1.at = worker[w].at /\ r1.batch = worker[w].batch
  BY <1>1 DEF WorkerType
<1>3. /\ r2 \in WorkerType /\ r2.pc = "skip" /\ r2.result = "unreachable"
      /\ r2.at = worker[w].at /\ r2.batch = worker[w].batch
  BY <1>1 DEF WorkerType
<1>4. /\ r3 \in WorkerType /\ r3.pc = "settle" /\ r3.result = "error"
      /\ r3.at = worker[w].at /\ r3.batch = worker[w].batch
  BY <1>1 DEF WorkerType
<1>5. UNCHANGED <<row, score, basis, edits, faults>> /\ worker[w].pc = "send"
  BY DEF SendPhoto
<1>6. \/ /\ worker' = [worker EXCEPT ![w] = r1]
         /\ handed' = [handed EXCEPT ![worker[w].at] = @ + 1]
         /\ shown' = [shown EXCEPT ![row[worker[w].at].of] = worker[w].seen]
      \/ worker' = [worker EXCEPT ![w] = r2] /\ handed' = handed /\ shown' = shown
      \/ worker' = [worker EXCEPT ![w] = r3] /\ handed' = handed /\ Shows(w)
  <2>1. \/ /\ worker' = [worker EXCEPT ![w].pc = "settle", ![w].result = "sent", ![w].flight = 0]
           /\ Delivers(w, TRUE) /\ HandsOver(w, TRUE)
        \/ /\ worker' = [worker EXCEPT ![w].pc = "skip", ![w].result = "unreachable", ![w].flight = 0]
           /\ UNCHANGED <<handed, shown>>
        \/ /\ worker' = [worker EXCEPT ![w].pc = "settle", ![w].result = "error", ![w].flight = 0]
           /\ \E took \in BOOLEAN : Delivers(w, took)
           /\ handed' = handed
    BY DEF SendPhoto
  <2>2. \A took \in BOOLEAN : Delivers(w, took) => Shows(w)
    BY <1>5 DEF Delivers, Shows
  <2>3. QED
    BY <1>1, <2>1, <2>2 DEF TypeOK, Delivers, HandsOver
<1> HIDE DEF r1, r2, r3
<1>7. Shows(w)
  BY <1>5, <1>6 DEF Shows
<1>8. QED
  BY <1>1, <1>2, <1>3, <1>4, <1>5, <1>6, <1>7 DEF TypeOK

LEMMA CrashFacts ==
  ASSUME IInv, NEW w \in Worker, Crash(w)
  PROVE  /\ UNCHANGED <<row, score, basis, edits>> /\ faults' \in 0 .. MaxFaults
         /\ worker' \in [Worker -> WorkerType] /\ \A v \in Worker \ {w} : worker'[v] = worker[v]
         /\ worker'[w].pc = "idle" /\ worker'[w].batch = {}
         /\ Shows(w)
         /\ \/ handed' = handed
            \/ worker[w].pc = "send" /\ handed' = [handed EXCEPT ![worker[w].at] = @ + 1]
<1>1. TypeOK
  BY DEF IInv
<1>2. worker' = [worker EXCEPT ![w] = Idle] /\ UNCHANGED <<row, score, basis, edits>>
      /\ faults' \in 0 .. MaxFaults
  BY <1>1 DEF Crash, TypeOK
<1>3. Idle.pc = "idle" /\ Idle.batch = {}
  BY DEF Idle
<1>4. PICK took \in BOOLEAN : (took => worker[w].pc = "send") /\ Delivers(w, took) /\ HandsOver(w, took)
  BY DEF Crash
<1>5. /\ Shows(w)
      /\ \/ handed' = handed
         \/ worker[w].pc = "send" /\ handed' = [handed EXCEPT ![worker[w].at] = @ + 1]
  BY <1>4 DEF Delivers, HandsOver, Shows
<1>6. QED
  BY <1>1, <1>2, <1>3, <1>5, AbsentType DEF TypeOK

LEMMA ShownType ==
  ASSUME IInv, NEW w \in Worker, Shows(w)
  PROVE  shown' \in [Result -> 0 .. MaxScore]
<1>1. TypeOK /\ worker[w] \in WorkerType /\ RunIsSound(w)
  BY DEF IInv, TypeOK, RunsAreSound
<1>2. QED
  BY <1>1 DEF Shows, TypeOK, WorkerType

\* The transport of w ends, or w dies over it: the count of its row alone may grow.
LEMMA TransportEndKeepsIInv ==
  ASSUME IInv, NEW w \in Worker, UNCHANGED <<row, score, basis, edits>>, faults' \in 0 .. MaxFaults,
         worker' \in [Worker -> WorkerType], \A v \in Worker \ {w} : worker'[v] = worker[v],
         Shows(w),
         \/ handed' = handed
         \/ worker[w].pc = "send" /\ handed' = [handed EXCEPT ![worker[w].at] = @ + 1],
         RunIsSound(w)', InTransport(w)' => InTransport(w) /\ worker'[w].at = worker[w].at
  PROVE  IInv'
<1> DEFINE i == worker[w].at
<1>1. TypeOK /\ RunIsSound(w) /\ HandedRowsAreDone /\ TransportsAreApart /\ handed \in [Row -> Nat]
  BY DEF IInv, RunsAreSound, TypeOK
<1>2. worker[w].pc = "send" => /\ i \in Row /\ handed[i] = 0 /\ InTransport(w)
                               /\ \/ row[i].status \in Closed
                                  \/ row[i].status = "claimed" /\ row[i].started
  <2>1. worker[w].pc = "send" => i \in Row /\ InTransport(w)
    BY <1>1 DEF RunIsSound, InTransport
  <2>2. worker[w].pc = "send" => ~(handed[i] # 0)
    BY <1>1, <2>1 DEF RunIsSound
  <2>3. worker[w].pc = "send" => \/ row[i].status \in Closed
                                 \/ row[i].status = "claimed" /\ row[i].started
    BY <1>1, <2>1 DEF RunIsSound, Holds
  <2>4. QED
    BY <2>1, <2>2, <2>3
<1>3. /\ handed' \in [Row -> Nat]
      /\ \A j \in Row : handed'[j] = handed[j] \/ (j = i /\ worker[w].pc = "send" /\ handed'[j] = 1)
  BY <1>1, <1>2
<1>4. TypeOK'
  BY <1>1, <1>3, ShownType DEF TypeOK, UniquePending
<1>5. ASSUME NEW v \in Worker PROVE RunIsSound(v)'
  <2>1. CASE v # w
    <3>1. RunIsSound(v) /\ SameRun(v) /\ \A j \in Row : Kept(v, j)
      BY <2>1, KeptSame DEF IInv, RunsAreSound, SameRun
    <3>2. InTransport(v) => worker[v].at \in Row
      BY <3>1 DEF RunIsSound, InTransport
    <3>3. InTransport(v) => handed'[worker[v].at] = handed[worker[v].at]
      BY <1>1, <1>2, <1>3, <2>1, <3>2 DEF TransportsAreApart
    <3>4. QED
      BY <1>1, <3>1, <3>3, Bystander
  <2>2. QED
    BY <2>1
<1>6. TransportsAreApart'
  BY <1>1 DEF TransportsAreApart, InTransport
<1>7. HandedRowsAreDone'
  <2> SUFFICES ASSUME NEW j \in Row
      PROVE  /\ handed'[j] <= 1
             /\ handed'[j] # 0 => \/ row[j].status \in Closed
                                  \/ row[j].status = "claimed" /\ row[j].started
    BY DEF HandedRowsAreDone
  <2>1. QED
    BY <1>1, <1>2, <1>3 DEF HandedRowsAreDone
<1>8. EditsBoundRows'
  BY DEF IInv, EditsBoundRows
<1>9. QED
  BY <1>4, <1>5, <1>6, <1>7, <1>8 DEF IInv, RunsAreSound

LEMMA SendKeepsIInv ==
  ASSUME IInv, NEW w \in Worker, SendPhoto(w)
  PROVE  IInv'
<1> DEFINE i == worker[w].at
<1>1. TypeOK /\ RunIsSound(w) /\ worker[w].pc = "send" /\ faults' \in 0 .. MaxFaults
  BY SendFacts DEF IInv, RunsAreSound, SendPhoto, TypeOK
<1>2. InTransport(w) /\ handed[i] = 0 /\ i \in Row \ worker[w].batch
  BY <1>1 DEF InTransport, RunIsSound
<1>3. RunIsSound(w)'
  <2>1. Mine(w)' = Mine(w)
    BY <1>1, SendFacts DEF Mine
  <2>2. \A j \in Mine(w)' : row'[j].status # "absent"
    BY <1>1, <2>1, SendFacts DEF RunIsSound
  <2>3. \A j \in worker'[w].batch : Holds(w, j)' => ~row'[j].started
    BY <1>1, SendFacts DEF RunIsSound, Holds
  <2>4. \/ row'[i].status \in Closed
        \/ Holds(w, i)' /\ row'[i].started
    BY <1>1, <1>2, SendFacts DEF RunIsSound, Holds
  <2>5. InTransport(w)' /\ handed'[i] # 0 => worker'[w].result = "sent" /\ worker'[w].pc = "settle"
    BY <1>2, SendFacts DEF InTransport
  <2>6. QED
    BY <1>2, <2>2, <2>3, <2>4, <2>5, SendFacts DEF RunIsSound
<1>4. handed' = handed \/ handed' = [handed EXCEPT ![i] = @ + 1]
  BY SendFacts
<1>5. QED
  BY <1>1, <1>2, <1>3, <1>4, SendFacts, TransportEndKeepsIInv

LEMMA CrashKeepsIInv ==
  ASSUME IInv, NEW w \in Worker, Crash(w)
  PROVE  IInv'
<1>1. RunIsSound(w)' /\ ~InTransport(w)'
  BY CrashFacts, FreshRun
<1>2. QED
  BY <1>1, CrashFacts, TransportEndKeepsIInv

LEMMA NextKeepsIInv == IInv /\ [Next]_vars => IInv'
<1> SUFFICES ASSUME IInv, [Next]_vars PROVE IInv'
  OBVIOUS
<1>1. CASE UNCHANGED vars
  BY <1>1 DEF vars, IInv, TypeOK, UniquePending, RunsAreSound, RunIsSound, Mine, InTransport, Holds,
              TransportsAreApart, HandedRowsAreDone, EditsBoundRows
<1>2. CASE \E x \in Result, s \in 0 .. MaxScore : Edit(x, s)
  BY <1>2, EditKeepsIInv
<1>3. ASSUME NEW w \in Worker, Step(w) PROVE IInv'
  BY <1>3, ReleaseKeepsIInv, ClaimKeepsIInv, LoadKeepsIInv, SettleKeepsIInv, StartKeepsIInv, SendKeepsIInv
     DEF Step
<1>4. ASSUME NEW w \in Worker, Crash(w) PROVE IInv'
  BY <1>4, CrashKeepsIInv
<1>5. CASE Tick
  BY <1>5, TickKeepsIInv
<1>6. QED
  BY <1>1, <1>2, <1>3, <1>4, <1>5 DEF Next

\* The first inductive invariant holds in every reachable state, whatever the delay.
THEOREM Invariance == Spec => []IInv
<1>1. QED
  BY InitIInv, NextKeepsIInv, PTL DEF Spec

\* Every reachable state is well typed, and no result has two pending rows.
THEOREM TypeCorrectness == Spec => []TypeOK
<1>1. IInv => TypeOK
  BY DEF IInv
<1>2. QED
  BY <1>1, Invariance, PTL

\* A card Telegram took, or may have taken under a run that died, is not sent
\* again for its row.
THEOREM AtMostOnce == Spec => []HandedOverOnce
<1>1. IInv => HandedOverOnce
  BY DEF IInv, HandedRowsAreDone, HandedOverOnce
<1>2. QED
  BY <1>1, Invariance, PTL


-----------------------------------------------------------------------------
(* Every step preserves TimedInv, when the delay outlasts a lease.         *)

\* What a transport's row is: not one an edit or a claim can touch.
LEMMA TransportRow ==
  ASSUME IInv, NEW w \in Worker, InTransport(w)
  PROVE  /\ worker[w].at \in Row /\ row[worker[w].at].of \in Result
         /\ row[worker[w].at].status \in Closed \cup {"claimed"}
         /\ row[worker[w].at].status \notin {"absent", "pending"}
<1>1. TypeOK /\ RunIsSound(w)
  BY DEF IInv, RunsAreSound
<1>2. worker[w].at \in Row /\ row[worker[w].at].status \in Closed \cup {"claimed"}
  BY <1>1 DEF RunIsSound, InTransport, Holds
<1>3. QED
  BY <1>1, <1>2 DEF Closed, TypeOK

LEMMA InitTimedInv == Init => TimedInv
<1> SUFFICES ASSUME Init PROVE TimedInv
  OBVIOUS
<1>1. /\ \A i \in Row : row[i].status = "absent"
      /\ \A w \in Worker : worker[w].pc = "idle"
      /\ \A x \in Result : score[x] = Unset
  BY DEF Init, Absent, Idle
<1>2. QED
  BY <1>1 DEF TimedInv, ClaimsAreApart, ClaimsFollowReleases, TransportEndsFirst, OneCardAtATime,
              BasisIsCurrent, CardsAreCurrent, SentMeansShown

\* A claimed row that is let go, and why it may be.
Gone(j) ==
  /\ row[j].status = "claimed" /\ row'[j].of = row[j].of
  /\ \/ row'[j].status = "pending" /\ PendingOf(row[j].of) = {}
     \/ row'[j].status \in {"failed", "unreachable"}
     \/ row'[j].status = "superseded" /\ PendingOf(row[j].of) # {}
     \/ row'[j].status = "cleared" /\ (score[row[j].of] = Unset \/ basis[row[j].of] # j)
     \/ /\ row'[j].status = "sent"
        /\ score[row[j].of] # Unset /\ basis[row[j].of] = j => shown[row[j].of] = score[row[j].of]

LEMMA LettingGo ==
  ASSUME IInv, TimedInv, NEW w \in Worker, UNCHANGED <<score, basis, shown>>,
         \A v \in Worker \ {w} : worker'[v] = worker[v],
         worker'[w].pc \in {"idle", "claim", "next"},
         worker'[w].pc = "claim" =>
           worker'[w].age = 0 /\ \A j \in Row : row'[j].status = "claimed" => row[j].lease > 0,
         \A j \in Row : row'[j] = row[j] \/ Gone(j)
  PROVE  TimedInv'
<1>1. TypeOK /\ ClaimsAreApart /\ ClaimsFollowReleases /\ TransportEndsFirst
      /\ OneCardAtATime /\ BasisIsCurrent /\ CardsAreCurrent /\ SentMeansShown
  BY DEF IInv, TimedInv
<1>2. /\ score' = score /\ basis' = basis /\ shown' = shown
      /\ \A j \in Row : row'[j].of = row[j].of
      /\ \A j \in Row : row'[j].status = "claimed" => row'[j] = row[j]
      /\ \A j \in Row : row'[j].status = "pending" =>
           \/ row'[j] = row[j]
           \/ row[j].status = "claimed" /\ PendingOf(row[j].of) = {}
      /\ \A j \in Row : row[j].status = "pending" => row'[j] = row[j]
  BY DEF Gone
<1>3. ClaimsAreApart'
  BY <1>1, <1>2 DEF ClaimsAreApart, SameResult
<1>4. ClaimsFollowReleases'
  <2> SUFFICES ASSUME NEW v \in Worker, NEW i \in Row, NEW j \in Row,
                      worker'[v].pc = "claim", SameResult(i, j)',
                      row'[i].status = "claimed", row'[j].status = "pending"
               PROVE  row'[j].due > -worker'[v].age
    BY DEF ClaimsFollowReleases
  <2>1. /\ SameResult(i, j) /\ row[i].status = "claimed"
        /\ row[j].status = "pending" /\ row'[j] = row[j]
    BY <1>1, <1>2 DEF SameResult, ClaimsAreApart
  <2>2. CASE v = w
    <3>1. row[j].due >= row[i].lease + TransportDeadline /\ row[i].lease > 0
      BY <1>1, <2>1, <2>2 DEF ClaimsAreApart
    <3>2. row[j].due \in Int /\ row[i].lease \in Nat
      BY <1>1 DEF TypeOK, RowType
    <3>3. QED
      BY <2>1, <2>2, <3>1, <3>2
  <2>3. CASE v # w
    BY <1>1, <2>1, <2>3 DEF ClaimsFollowReleases
  <2>4. QED
    BY <2>2, <2>3
<1>5. TransportEndsFirst'
  <2> SUFFICES ASSUME NEW v \in Worker, NEW j \in Row, worker'[v].pc = "send",
                      worker'[v].at # j, row'[worker'[v].at].of = row'[j].of
               PROVE  /\ row'[j].status # "claimed"
                      /\ row'[j].status = "pending" => row'[j].due > worker'[v].flight
    BY DEF TransportEndsFirst, SameResult
  <2>1. worker'[v] = worker[v] /\ worker[v].at \in Row
    BY TransportRow DEF InTransport
  <2>2. SameResult(worker[v].at, j)
    BY <1>2, <2>1 DEF SameResult
  <2>3. row[j].status # "claimed" /\ (row[j].status = "pending" => row[j].due > worker[v].flight)
    BY <1>1, <2>1, <2>2 DEF TransportEndsFirst
  <2>4. QED
    BY <1>2, <2>1, <2>3
<1>6. OneCardAtATime'
  <2>1. \A v \in Worker : worker'[v].pc = "send" => worker'[v] = worker[v] /\ worker[v].at \in Row
    BY TransportRow DEF InTransport
  <2>2. QED
    BY <1>1, <1>2, <2>1 DEF OneCardAtATime
<1>7. ASSUME NEW x \in Result, score[x] # Unset
      PROVE  /\ basis[x] \in Row /\ row[basis[x]].of = x
             /\ row'[basis[x]].status \in Open \cup {"sent", "failed", "unreachable"}
             /\ row'[basis[x]] = row[basis[x]] \/ row[basis[x]].status = "claimed"
             /\ row'[basis[x]].status = "sent" => shown[x] = score[x]
  <2> DEFINE b == basis[x]
  <2>1. /\ b \in Row /\ row[b].of = x /\ row[b].status \in Open \cup {"sent", "failed", "unreachable"}
        /\ \A j \in Row \ {b} : row[j].of = x => row[j].status # "pending"
    BY <1>1, <1>7 DEF BasisIsCurrent
  <2>2. row[b].status = "claimed" => PendingOf(x) = {}
    BY <2>1 DEF PendingOf
  <2>3. row[b].status = "sent" => shown[x] = score[x]
    BY <1>1, <1>7, <2>1 DEF SentMeansShown, Row
  <2>4. CASE row'[b] = row[b]
    BY <2>1, <2>3, <2>4
  <2>5. CASE Gone(b)
    BY <1>7, <2>1, <2>2, <2>5 DEF Gone, Open
  <2>6. QED
    BY <2>1, <2>4, <2>5
<1>8. BasisIsCurrent'
  <2> SUFFICES ASSUME NEW x \in Result, score[x] # Unset, NEW j \in Row \ {basis[x]}, row[j].of = x
               PROVE  /\ row'[j].status # "pending"
                      /\ row'[j].status = "claimed" => row'[basis[x]].status = "pending"
    BY <1>2, <1>7 DEF BasisIsCurrent
  <2>1. /\ row[j].status # "pending"
        /\ row[j].status = "claimed" => row[basis[x]].status = "pending"
    BY <1>1 DEF BasisIsCurrent
  <2>2. row[j].status = "claimed" => PendingOf(x) # {}
    BY <1>7, <2>1 DEF PendingOf
  <2>3. QED
    BY <1>2, <1>7, <2>1, <2>2
<1>9. CardsAreCurrent'
  <2> SUFFICES ASSUME NEW v \in Worker, NEW x \in Result, score[x] # Unset
               PROVE  CardIsCurrent(v, x)'
    BY <1>2 DEF CardsAreCurrent
  <2>1. CASE v = w
    <3>1. worker'[v].pc \notin {"skip", "start", "send", "settle"}
      BY <2>1
    <3>2. QED
      BY <3>1 DEF CardIsCurrent
  <2>2. CASE v # w
    <3>1. worker'[v] = worker[v] /\ CardIsCurrent(v, x)
      BY <1>1, <2>2 DEF CardsAreCurrent
    <3>2. Holds(v, basis[x])' => Holds(v, basis[x])
      BY <1>2, <1>7 DEF Holds
    <3>3. row[basis[x]].status = "pending" => row'[basis[x]].status = "pending"
      BY <1>7
    <3>4. worker[v].pc = "send" => worker[v].at \in Row
      BY TransportRow DEF InTransport
    <3>5. QED
      BY <1>2, <3>1, <3>2, <3>3, <3>4 DEF CardIsCurrent
  <2>3. QED
    BY <2>1, <2>2
<1>10. SentMeansShown'
  BY <1>2, <1>7 DEF SentMeansShown
<1>11. QED
  BY <1>3, <1>4, <1>5, <1>6, <1>8, <1>9, <1>10 DEF TimedInv

LEMMA LeavesGone == \A j \in Row : Leaves(j) => Gone(j)
BY DEF Leaves, Gone, Closed

LEMMA ReleaseKeepsTimedInv ==
  ASSUME IInv, TimedInv, NEW w \in Worker, ReleaseStaleClaims(w)
  PROVE  TimedInv'
<1>1. TypeOK
  BY DEF IInv
<1>2. /\ UNCHANGED <<score, basis, shown>> /\ worker' = [worker EXCEPT ![w] = [Idle EXCEPT !.pc = "claim"]]
      /\ worker \in [Worker -> WorkerType]
  BY <1>1 DEF ReleaseStaleClaims, TypeOK
<1>3. /\ \A v \in Worker \ {w} : worker'[v] = worker[v]
      /\ worker'[w].pc = "claim" /\ worker'[w].age = 0
  BY <1>2 DEF Idle
<1>4. ASSUME NEW j \in Row
      PROVE  /\ row'[j] = row[j] \/ Gone(j)
             /\ row'[j].status = "claimed" => row[j].lease > 0
  <2>1. row[j].lease \in 0 .. LeaseDuration
    BY <1>1 DEF TypeOK, RowType
  <2>2. CASE row[j].status = "claimed" /\ row[j].lease = 0
    <3>1. Leaves(j)
      BY <1>1, <2>2, ReleaseFacts
    <3>2. row'[j].status # "claimed"
      BY <3>1 DEF Leaves, Closed
    <3>3. QED
      BY <3>1, <3>2, LeavesGone
  <2>3. CASE ~(row[j].status = "claimed" /\ row[j].lease = 0)
    <3>1. row'[j] = row[j]
      BY <1>1, <2>3, ReleaseFacts
    <3>2. QED
      BY <2>1, <2>3, <3>1
  <2>4. QED
    BY <2>2, <2>3
<1>5. QED
  BY <1>2, <1>3, <1>4, LettingGo

\* What a run settles is what it may: the card it marks sent is the last the
\* parent saw, and a row it clears has no score that stands.
LEMMA SettleKeepsTimedInv ==
  ASSUME IInv, TimedInv, NEW w \in Worker, SettleSkipped(w) \/ Settle(w)
  PROVE  TimedInv'
<1> DEFINE i == worker[w].at
<1>1. /\ TypeOK /\ BasisIsCurrent /\ CardsAreCurrent
      /\ i \in Row /\ worker \in [Worker -> WorkerType]
  BY SettleFacts DEF IInv, TypeOK, TimedInv
<1>2. UNCHANGED <<score, basis, shown>> /\ worker' = [worker EXCEPT ![w] = Returned(w)]
  BY DEF SettleSkipped, Settle
<1>3. worker'[w].pc \in {"idle", "next"} /\ \A v \in Worker \ {w} : worker'[v] = worker[v]
  BY <1>1, <1>2 DEF Returned, Idle
<1>4. ASSUME SettledRow(w, i) PROVE Gone(i)
  <2> DEFINE x == row[i].of
  <2>1. row[i].status = "claimed" /\ row'[i].of = x /\ x \in Result /\ Holds(w, i)
    BY <1>1, <1>4 DEF SettledRow, Holds, TypeOK
  <2>2. score[x] # Unset => CardIsCurrent(w, x)
    BY <1>1, <2>1 DEF CardsAreCurrent
  <2>3. CASE row'[i].status = "sent" /\ worker[w].pc = "settle" /\ worker[w].result = "sent"
    BY <2>1, <2>2, <2>3 DEF CardIsCurrent, Gone
  <2>4. CASE row'[i].status = "cleared" /\ worker[w].pc = "skip" /\ worker[w].result = "cleared"
    BY <2>1, <2>2, <2>4 DEF CardIsCurrent, Gone
  <2>5. CASE Leaves(i)
    BY <1>1, <2>5, LeavesGone
  <2>6. QED
    BY <1>4, <2>3, <2>4, <2>5 DEF SettledRow
<1>5. \A j \in Row : row'[j] = row[j] \/ Gone(j)
  BY <1>4, SettleFacts
<1>6. QED
  BY <1>2, <1>3, <1>5, LettingGo

LEMMA PassedKeepsTimedInv ==
  ASSUME IInv, TimedInv, NEW w \in Worker, MarkSendStarted(w), ~HoldsLease(w, worker[w].at)
  PROVE  TimedInv'
<1>1. /\ UNCHANGED <<row, score, basis, shown>> /\ worker'[w].pc \in {"idle", "next"}
      /\ \A v \in Worker \ {w} : worker'[v] = worker[v]
  BY PassedFacts
<1>2. QED
  BY <1>1, LettingGo

\* A step of w that writes no row: the card it delivers is of the last edit, or
\* the row of the last edit still waits.
LEMMA RowsStay ==
  ASSUME IInv, TimedInv, NEW w \in Worker, UNCHANGED <<row, score, basis>>, Shows(w),
         \A v \in Worker \ {w} : worker'[v] = worker[v],
         worker'[w].pc \notin {"claim", "send"},
         \A x \in Result : score[x] # Unset => CardIsCurrent(w, x)'
  PROVE  TimedInv'
<1>1. TypeOK /\ ClaimsAreApart /\ ClaimsFollowReleases /\ TransportEndsFirst
      /\ OneCardAtATime /\ BasisIsCurrent /\ CardsAreCurrent /\ SentMeansShown /\ TransportsAreApart
  BY DEF IInv, TimedInv
<1>2. ClaimsAreApart' /\ ClaimsFollowReleases' /\ BasisIsCurrent'
  BY <1>1 DEF ClaimsAreApart, SameResult, ClaimsFollowReleases, BasisIsCurrent
<1>3. TransportEndsFirst' /\ OneCardAtATime'
  BY <1>1 DEF TransportEndsFirst, SameResult, OneCardAtATime
<1>4. ASSUME NEW x \in Result, score[x] # Unset, shown'[x] # shown[x]
      PROVE  /\ worker[w].pc = "send" /\ row[worker[w].at].of = x
             /\ shown'[x] = worker[w].seen
             /\ IF worker[w].at = basis[x] THEN worker[w].seen = score[x]
                                           ELSE row[basis[x]].status = "pending"
  <2>1. /\ worker[w].pc = "send"
        /\ shown' = [shown EXCEPT ![row[worker[w].at].of] = worker[w].seen]
        /\ shown \in [Result -> 0 .. MaxScore]
    BY <1>1, <1>4 DEF Shows, TypeOK
  <2>2. row[worker[w].at].of = x /\ shown'[x] = worker[w].seen
    BY <1>4, <2>1
  <2>3. CardIsCurrent(w, x)
    BY <1>1, <1>4 DEF CardsAreCurrent
  <2>4. QED
    BY <2>1, <2>2, <2>3 DEF CardIsCurrent
<1>5. CardsAreCurrent'
  <2> SUFFICES ASSUME NEW v \in Worker, NEW x \in Result, score[x] # Unset
               PROVE  CardIsCurrent(v, x)'
    BY DEF CardsAreCurrent
  <2>1. CASE v = w
    BY <2>1
  <2>2. CASE v # w
    <3>1. worker'[v] = worker[v] /\ CardIsCurrent(v, x)
      BY <1>1, <2>2 DEF CardsAreCurrent
    <3>2. ASSUME worker[v].at = basis[x], worker[v].pc = "settle", shown'[x] # shown[x]
          PROVE  shown'[x] = score[x]
      <4>1. row[basis[x]].status # "pending"
        BY <3>2, TransportRow DEF InTransport
      <4>2. worker[w].pc = "send" /\ worker[w].at = basis[x]
        BY <1>4, <3>2, <4>1
      <4>3. QED
        BY <1>1, <2>2, <3>2, <4>2 DEF TransportsAreApart, InTransport
    <3>3. QED
      BY <3>1, <3>2 DEF CardIsCurrent, Holds
  <2>3. QED
    BY <2>1, <2>2
<1>6. SentMeansShown'
  <2> SUFFICES ASSUME NEW x \in Result, score[x] # Unset, basis[x] # 0, row[basis[x]].status = "sent"
               PROVE  shown'[x] = score[x]
    BY DEF SentMeansShown
  <2>1. shown[x] = score[x]
    BY <1>1 DEF SentMeansShown
  <2>2. QED
    BY <1>4, <2>1
<1>7. QED
  BY <1>2, <1>3, <1>5, <1>6 DEF TimedInv

LEMMA LoadKeepsTimedInv ==
  ASSUME IInv, TimedInv, NEW w \in Worker, NEW i \in Row, LoadSource(w, i)
  PROVE  TimedInv'
<1>1. UNCHANGED <<row, score, basis>> /\ shown' = shown /\ BasisIsCurrent
  BY DEF LoadSource, TimedInv
<1>2. ASSUME NEW x \in Result, score[x] # Unset PROVE CardIsCurrent(w, x)'
  <2>1. row[basis[x]].of = x
    BY <1>1, <1>2 DEF BasisIsCurrent
  <2>2. /\ worker'[w].at = i /\ worker'[w].pc \in {"skip", "start"}
        /\ worker'[w].pc = "skip" /\ worker'[w].result = "cleared" => score[row[i].of] = Unset
        /\ worker'[w].pc = "start" => worker'[w].seen = score[row[i].of]
    BY LoadFacts
  <2>3. QED
    BY <1>1, <1>2, <2>1, <2>2 DEF CardIsCurrent
<1>3. worker'[w].pc \notin {"claim", "send"} /\ \A v \in Worker \ {w} : worker'[v] = worker[v]
  BY LoadFacts
<1>4. QED
  BY <1>1, <1>2, <1>3, RowsStay DEF Shows

LEMMA SendKeepsTimedInv ==
  ASSUME IInv, TimedInv, NEW w \in Worker, SendPhoto(w)
  PROVE  TimedInv'
<1>0. worker[w].pc = "send" /\ TypeOK /\ BasisIsCurrent /\ CardsAreCurrent
  BY DEF SendPhoto, TimedInv, IInv
<1>1. UNCHANGED <<row, score, basis>> /\ Shows(w)
  BY SendFacts
<1>2. ASSUME NEW x \in Result, score[x] # Unset PROVE CardIsCurrent(w, x)'
  <2>1. row[basis[x]].of = x /\ CardIsCurrent(w, x)
    BY <1>0, <1>2 DEF BasisIsCurrent, CardsAreCurrent
  <2>2. /\ worker'[w].at = worker[w].at
        /\ \/ /\ worker'[w].pc = "settle"
              /\ shown' = [shown EXCEPT ![row[worker[w].at].of] = worker[w].seen]
           \/ worker'[w].pc = "skip" /\ worker'[w].result = "unreachable"
           \/ worker'[w].pc = "settle" /\ worker'[w].result = "error"
    BY SendFacts
  <2>3. shown \in [Result -> 0 .. MaxScore]
    BY <1>0 DEF TypeOK
  <2>4. QED
    BY <1>0, <1>1, <1>2, <2>1, <2>2, <2>3 DEF CardIsCurrent
<1>3. worker'[w].pc \notin {"claim", "send"} /\ \A v \in Worker \ {w} : worker'[v] = worker[v]
  BY SendFacts
<1>4. QED
  BY <1>1, <1>2, <1>3, RowsStay

LEMMA CrashKeepsTimedInv ==
  ASSUME IInv, TimedInv, NEW w \in Worker, Crash(w)
  PROVE  TimedInv'
<1>1. /\ UNCHANGED <<row, score, basis>> /\ Shows(w) /\ worker'[w].pc = "idle"
      /\ \A v \in Worker \ {w} : worker'[v] = worker[v]
  BY CrashFacts
<1>2. ASSUME NEW x \in Result PROVE CardIsCurrent(w, x)'
  BY <1>1 DEF CardIsCurrent
<1>3. QED
  BY <1>1, <1>2, RowsStay

LEMMA ClaimKeepsTimedInv ==
  ASSUME IInv, TimedInv, NEW w \in Worker, ClaimDueBatch(w)
  PROVE  TimedInv'
<1>1. TypeOK /\ ClaimsAreApart /\ ClaimsFollowReleases /\ TransportEndsFirst
      /\ OneCardAtATime /\ BasisIsCurrent /\ CardsAreCurrent /\ SentMeansShown /\ UniquePending(row)
  BY DEF IInv, TimedInv, TypeOK
<1>2. UNCHANGED <<score, basis, shown>> /\ worker[w].pc = "claim"
  BY DEF ClaimDueBatch
<1>3. /\ worker'[w].pc \in {"idle", "next"} /\ \A v \in Worker \ {w} : worker'[v] = worker[v]
      /\ \A j \in Row : row'[j] = row[j] \/ Claimed(w, j)
  BY <1>1, ClaimFacts
<1>4. \A j \in Row : /\ row'[j].of = row[j].of
                     /\ row'[j].status # "claimed" => row'[j] = row[j]
                     /\ row[j].status # "pending" => row'[j] = row[j]
  BY <1>3 DEF Claimed
<1>5. ASSUME NEW i \in Row, NEW j \in Row, row[i].status = "claimed", SameResult(i, j)
      PROVE  row'[j] = row[j]
  <2>1. SUFFICES ASSUME Claimed(w, j) PROVE FALSE
    BY <1>3
  <2>2. row[j].due > -worker[w].age /\ row[j].due <= -worker[w].age
    BY <1>1, <1>2, <1>5, <2>1 DEF ClaimsFollowReleases, Claimed
  <2>3. row[j].due \in Int /\ worker[w].age \in Nat
    BY <1>1 DEF TypeOK, RowType, WorkerType
  <2>4. QED
    BY <2>2, <2>3
<1>6. ASSUME NEW i \in Row, NEW j \in Row, row[i].status = "pending", SameResult(i, j)
      PROVE  row[j].status # "pending"
  BY <1>1, <1>6 DEF UniquePending, SameResult
<1>7. ASSUME NEW i \in Row, NEW j \in Row, SameResult(i, j)', row'[i].status = "claimed"
      PROVE  /\ SameResult(i, j)
             /\ \/ row[i].status = "claimed" /\ row'[i] = row[i] /\ row'[j] = row[j]
                \/ row'[j].status \notin {"pending", "claimed"}
  <2>1. SameResult(i, j)
    BY <1>4, <1>7 DEF SameResult
  <2>2. CASE row[i].status = "claimed"
    BY <1>4, <1>5, <2>1, <2>2
  <2>3. CASE row[i].status # "claimed"
    <3>1. row[i].status = "pending"
      BY <1>3, <1>7, <2>3 DEF Claimed
    <3>2. row[j].status # "pending"
      BY <1>6, <2>1, <3>1
    <3>3. row[j].status = "claimed" => row'[i] = row[i]
      BY <1>5, <2>1 DEF SameResult
    <3>4. row[j].status # "claimed" /\ row'[j] = row[j]
      BY <1>4, <1>7, <3>1, <3>2, <3>3
    <3>5. QED
      BY <2>1, <3>2, <3>4
  <2>4. QED
    BY <2>2, <2>3
<1>8. ClaimsAreApart'
  <2> SUFFICES ASSUME NEW i \in Row, NEW j \in Row, SameResult(i, j)', row'[i].status = "claimed"
               PROVE  /\ row'[j].status # "claimed"
                      /\ row'[j].status = "pending" /\ row'[i].lease > 0 =>
                           row'[j].due >= row'[i].lease + TransportDeadline
    BY DEF ClaimsAreApart
  <2>1. QED
    BY <1>1, <1>7 DEF ClaimsAreApart
<1>9. ClaimsFollowReleases'
  <2> SUFFICES ASSUME NEW v \in Worker, NEW i \in Row, NEW j \in Row,
                      worker'[v].pc = "claim", SameResult(i, j)',
                      row'[i].status = "claimed", row'[j].status = "pending"
               PROVE  row'[j].due > -worker'[v].age
    BY DEF ClaimsFollowReleases
  <2>1. v # w /\ worker'[v] = worker[v]
    BY <1>3
  <2>2. QED
    BY <1>1, <1>7, <2>1 DEF ClaimsFollowReleases
<1>10. ASSUME NEW v \in Worker, NEW j \in Row, worker[v].pc = "send", SameResult(worker[v].at, j)
       PROVE  row'[j] = row[j]
  <2>1. SUFFICES ASSUME Claimed(w, j) PROVE FALSE
    BY <1>3
  <2>2. row[j].due > worker[v].flight /\ row[j].due <= -worker[w].age
    BY <1>1, <1>10, <2>1 DEF TransportEndsFirst, Claimed
  <2>3. row[j].due \in Int /\ worker[v].flight \in Nat /\ worker[w].age \in Nat
    BY <1>1 DEF TypeOK, RowType, WorkerType
  <2>4. QED
    BY <2>2, <2>3
<1>11. \A v \in Worker : worker'[v].pc = "send" =>
         worker'[v] = worker[v] /\ worker[v].at \in Row
  BY <1>3, TransportRow DEF InTransport
<1>12. TransportEndsFirst'
  <2> SUFFICES ASSUME NEW v \in Worker, NEW j \in Row, worker'[v].pc = "send",
                      worker'[v].at # j, row'[worker'[v].at].of = row'[j].of
               PROVE  /\ row'[j].status # "claimed"
                      /\ row'[j].status = "pending" => row'[j].due > worker'[v].flight
    BY DEF TransportEndsFirst, SameResult
  <2>1. SameResult(worker[v].at, j)
    BY <1>4, <1>11 DEF SameResult
  <2>2. QED
    BY <1>1, <1>10, <1>11, <2>1 DEF TransportEndsFirst
<1>13. OneCardAtATime'
  BY <1>1, <1>4, <1>11 DEF OneCardAtATime
<1>14. BasisIsCurrent'
  <2> SUFFICES ASSUME NEW x \in Result, score[x] # Unset
               PROVE  /\ basis[x] \in Row /\ row'[basis[x]].of = x
                      /\ row'[basis[x]].status \in Open \cup {"sent", "failed", "unreachable"}
                      /\ \A j \in Row \ {basis[x]} : row'[j].of = x =>
                           /\ row'[j].status # "pending"
                           /\ row'[j].status = "claimed" => row'[basis[x]].status = "pending"
    BY <1>2 DEF BasisIsCurrent
  <2>1. /\ basis[x] \in Row /\ row[basis[x]].of = x
        /\ row[basis[x]].status \in Open \cup {"sent", "failed", "unreachable"}
        /\ \A j \in Row \ {basis[x]} : row[j].of = x =>
             /\ row[j].status # "pending"
             /\ row[j].status = "claimed" => row[basis[x]].status = "pending"
    BY <1>1 DEF BasisIsCurrent
  <2>2. row'[basis[x]].status \in Open \cup {"sent", "failed", "unreachable"}
    BY <1>3, <2>1 DEF Claimed, Open
  <2>3. ASSUME NEW j \in Row \ {basis[x]}, row'[j].of = x
        PROVE  /\ row'[j].status # "pending"
               /\ row'[j].status = "claimed" => row'[basis[x]].status = "pending"
    <3>1. row[j].of = x /\ row'[j] = row[j]
      BY <1>4, <2>1, <2>3
    <3>2. row[j].status = "claimed" => row'[basis[x]] = row[basis[x]]
      BY <1>5, <2>1, <3>1 DEF SameResult
    <3>3. QED
      BY <2>1, <3>1, <3>2
  <2>4. QED
    BY <1>4, <2>1, <2>2, <2>3
<1>15. CardsAreCurrent'
  <2> SUFFICES ASSUME NEW v \in Worker, NEW x \in Result, score[x] # Unset
               PROVE  CardIsCurrent(v, x)'
    BY <1>2 DEF CardsAreCurrent
  <2>1. CASE v = w
    BY <1>3, <2>1 DEF CardIsCurrent
  <2>2. CASE v # w
    <3>1. worker'[v] = worker[v] /\ CardIsCurrent(v, x) /\ basis[x] \in Row /\ row[basis[x]].of = x
      BY <1>1, <1>3, <2>2 DEF CardsAreCurrent, BasisIsCurrent
    <3>2. Holds(v, basis[x])' => Holds(v, basis[x])
      BY <1>2, <1>3, <2>2, <3>1 DEF Holds, Claimed
    <3>3. worker[v].pc = "send" /\ worker[v].at # basis[x] /\ row'[worker[v].at].of = x =>
            row'[basis[x]] = row[basis[x]] /\ row[worker[v].at].of = x
      BY <1>4, <1>10, <1>11, <3>1 DEF SameResult
    <3>4. QED
      BY <1>2, <3>1, <3>2, <3>3 DEF CardIsCurrent
  <2>3. QED
    BY <2>1, <2>2
<1>16. SentMeansShown'
  <2> SUFFICES ASSUME NEW x \in Result, score[x] # Unset, basis[x] # 0, row'[basis[x]].status = "sent"
               PROVE  shown[x] = score[x]
    BY <1>2 DEF SentMeansShown
  <2>1. basis[x] \in Row
    BY <1>1 DEF BasisIsCurrent
  <2>2. QED
    BY <1>1, <1>4, <2>1 DEF SentMeansShown
<1>17. QED
  BY <1>8, <1>9, <1>12, <1>13, <1>14, <1>15, <1>16 DEF TimedInv

\* The lease a run holds when its send begins outlasts the transport.
LEMMA StartKeepsTimedInv ==
  ASSUME IInv, TimedInv, NEW w \in Worker, MarkSendStarted(w), HoldsLease(w, worker[w].at)
  PROVE  TimedInv'
<1> DEFINE i == worker[w].at
<1>1. /\ TypeOK /\ ClaimsAreApart /\ ClaimsFollowReleases /\ TransportEndsFirst
      /\ OneCardAtATime /\ BasisIsCurrent /\ CardsAreCurrent /\ SentMeansShown
  BY DEF IInv, TimedInv
<1>2. /\ UNCHANGED <<score, basis, shown>> /\ worker[w].pc = "start"
      /\ Holds(w, i) /\ row[i].status = "claimed" /\ row[i].lease > 0
  BY DEF MarkSendStarted, HoldsLease, Holds
<1>3. /\ i \in Row
      /\ \A j \in Row : /\ row'[j].status = row[j].status /\ row'[j].of = row[j].of
                        /\ row'[j].owner = row[j].owner /\ row'[j].lease = row[j].lease
                        /\ row'[j].due = row[j].due
  BY StartFacts
<1>4. /\ \A v \in Worker \ {w} : worker'[v] = worker[v]
      /\ worker'[w].pc = "send" /\ worker'[w].flight = TransportDeadline
      /\ worker'[w].at = i /\ worker'[w].seen = worker[w].seen
  BY StartFacts
<1>5. ClaimsAreApart'
  BY <1>1, <1>3 DEF ClaimsAreApart, SameResult
<1>6. ClaimsFollowReleases'
  <2> SUFFICES ASSUME NEW v \in Worker, NEW k \in Row, NEW j \in Row,
                      worker'[v].pc = "claim", SameResult(k, j)',
                      row'[k].status = "claimed", row'[j].status = "pending"
               PROVE  row'[j].due > -worker'[v].age
    BY DEF ClaimsFollowReleases
  <2>1. v # w /\ worker'[v] = worker[v] /\ SameResult(k, j)
    BY <1>3, <1>4 DEF SameResult
  <2>2. QED
    BY <1>1, <1>3, <2>1 DEF ClaimsFollowReleases
<1>7. ASSUME NEW v \in Worker, worker[v].pc = "send"
      PROVE  worker[v].at \in Row /\ worker'[v] = worker[v] /\ v # w
  BY <1>2, <1>4, <1>7, TransportRow DEF InTransport
<1>8. TransportEndsFirst'
  <2> SUFFICES ASSUME NEW v \in Worker, NEW j \in Row, worker'[v].pc = "send",
                      worker'[v].at # j, row'[worker'[v].at].of = row'[j].of
               PROVE  /\ row'[j].status # "claimed"
                      /\ row'[j].status = "pending" => row'[j].due > worker'[v].flight
    BY DEF TransportEndsFirst, SameResult
  <2>1. CASE v = w
    <3>1. SameResult(i, j)
      BY <1>3, <1>4, <2>1 DEF SameResult
    <3>2. /\ row[j].status # "claimed"
          /\ row[j].status = "pending" => row[j].due >= row[i].lease + TransportDeadline
      BY <1>1, <1>2, <1>3, <3>1 DEF ClaimsAreApart
    <3>3. row[j].due \in Int /\ row[i].lease \in Nat
      BY <1>1, <1>3 DEF TypeOK, RowType
    <3>4. QED
      BY <1>2, <1>3, <1>4, <2>1, <3>2, <3>3
  <2>2. CASE v # w
    <3>1. worker'[v] = worker[v] /\ SameResult(worker[v].at, j)
      BY <1>3, <1>4, <1>7, <2>2 DEF SameResult
    <3>2. QED
      BY <1>1, <1>3, <3>1 DEF TransportEndsFirst
  <2>3. QED
    BY <2>1, <2>2
<1>9. ASSUME NEW v \in Worker, worker[v].pc = "send"
      PROVE  row[worker[v].at].of # row[i].of
  <2>1. worker[v].at # i
    BY <1>2, <1>9, <1>3, <1>4, <1>7, StartKeepsIInv DEF IInv, TransportsAreApart, InTransport
  <2>2. QED
    BY <1>1, <1>2, <1>3, <1>9, <2>1 DEF TransportEndsFirst, SameResult
<1>10. OneCardAtATime'
  <2> SUFFICES ASSUME NEW v \in Worker, NEW u \in Worker, v # u,
                      worker'[v].pc = "send", worker'[u].pc = "send"
               PROVE  row'[worker'[v].at].of # row'[worker'[u].at].of
    BY DEF OneCardAtATime
  <2>1. CASE v = w
    BY <1>3, <1>4, <1>7, <1>9, <2>1
  <2>2. CASE u = w
    BY <1>3, <1>4, <1>7, <1>9, <2>2
  <2>3. CASE v # w /\ u # w
    BY <1>1, <1>3, <1>4, <1>7, <2>3 DEF OneCardAtATime
  <2>4. QED
    BY <2>1, <2>2, <2>3
<1>11. BasisIsCurrent'
  <2> SUFFICES ASSUME NEW x \in Result, score[x] # Unset
               PROVE  /\ basis[x] \in Row /\ row'[basis[x]].of = x
                      /\ row'[basis[x]].status \in Open \cup {"sent", "failed", "unreachable"}
                      /\ \A j \in Row \ {basis[x]} : row'[j].of = x =>
                           /\ row'[j].status # "pending"
                           /\ row'[j].status = "claimed" => row'[basis[x]].status = "pending"
    BY <1>2 DEF BasisIsCurrent
  <2>1. QED
    BY <1>1, <1>3 DEF BasisIsCurrent
<1>12. CardsAreCurrent'
  <2> SUFFICES ASSUME NEW v \in Worker, NEW x \in Result, score[x] # Unset
               PROVE  CardIsCurrent(v, x)'
    BY <1>2 DEF CardsAreCurrent
  <2>1. /\ CardIsCurrent(v, x) /\ basis[x] \in Row
        /\ \A j \in Row \ {basis[x]} : row[j].of = x /\ row[j].status = "claimed" =>
             row[basis[x]].status = "pending"
    BY <1>1 DEF CardsAreCurrent, BasisIsCurrent
  <2>2. Holds(v, basis[x])' <=> Holds(v, basis[x])
    BY <1>2, <1>3, <2>1 DEF Holds
  <2>3. CASE v = w
    BY <1>2, <1>3, <1>4, <2>1, <2>2, <2>3 DEF CardIsCurrent
  <2>4. CASE v # w
    BY <1>2, <1>3, <1>4, <1>7, <2>1, <2>2, <2>4 DEF CardIsCurrent
  <2>5. QED
    BY <2>3, <2>4
<1>13. SentMeansShown'
  <2> SUFFICES ASSUME NEW x \in Result, score[x] # Unset, basis[x] # 0, row'[basis[x]].status = "sent"
               PROVE  shown[x] = score[x]
    BY <1>2 DEF SentMeansShown
  <2>1. QED
    BY <1>1, <1>3 DEF SentMeansShown, BasisIsCurrent
<1>14. QED
  BY <1>5, <1>6, <1>8, <1>10, <1>11, <1>12, <1>13 DEF TimedInv

\* An edit is put off beyond every lease and transport of its result.
LEMMA EditKeepsTimedInv ==
  ASSUME IInv, TimedInv, DelayOutlastsLease,
         NEW x \in Result, NEW s \in 0 .. MaxScore, Edit(x, s)
  PROVE  TimedInv'
<1> DEFINE b == basis'[x]
<1>1. /\ TypeOK /\ EditsBoundRows /\ ClaimsAreApart /\ ClaimsFollowReleases /\ TransportEndsFirst
      /\ OneCardAtATime /\ BasisIsCurrent /\ CardsAreCurrent /\ SentMeansShown
  BY DEF IInv, TimedInv
<1>2. /\ UNCHANGED <<worker, handed, shown>> /\ score' = [score EXCEPT ![x] = s]
      /\ score \in [Result -> 0 .. MaxScore]
  BY <1>1 DEF Edit, TypeOK
<1>3. /\ \A i \in Row : Edited(i, x, s)
      /\ \A y \in Result \ {x} : basis'[y] = basis[y]
  BY <1>1, EditFacts
<1>4. s # Unset => /\ b \in Row /\ row'[b].status = "pending" /\ row'[b].of = x
                   /\ \A j \in Row : row'[j].status = "pending" /\ row'[j].of = x => j = b
  BY <1>1, EditFacts
<1>5. \A i \in Row :
        /\ row[i].status \notin {"absent", "pending"} => row'[i] = row[i]
        /\ row'[i].status = "claimed" => row'[i] = row[i]
        /\ row'[i].status = "pending" => row'[i] = row[i] \/ row'[i].due = Delay
        /\ row'[i].of # x => row'[i] = row[i]
        /\ row[i].status # "absent" => row'[i].of = row[i].of
  BY <1>3 DEF Edited
<1>6. ASSUME NEW i \in Row, NEW j \in Row, SameResult(i, j)', row'[i].status = "claimed",
             row'[j].status \in {"pending", "claimed"}
      PROVE  /\ row'[i] = row[i]
             /\ \/ row'[j] = row[j] /\ SameResult(i, j)
                \/ row'[j].status = "pending" /\ row'[j].due = Delay
  <2>1. row'[i] = row[i]
    BY <1>5, <1>6
  <2>2. row'[j] = row[j] \/ (row'[j].status = "pending" /\ row'[j].due = Delay)
    <3>1. row'[j].status = "claimed" \/ row'[j].status = "pending"
      BY <1>6
    <3>2. QED
      BY <1>5, <3>1
  <2>3. QED
    BY <1>6, <2>1, <2>2 DEF SameResult
<1>7. ClaimsAreApart'
  <2> SUFFICES ASSUME NEW i \in Row, NEW j \in Row, SameResult(i, j)', row'[i].status = "claimed"
               PROVE  /\ row'[j].status # "claimed"
                      /\ row'[j].status = "pending" /\ row'[i].lease > 0 =>
                           row'[j].due >= row'[i].lease + TransportDeadline
    BY DEF ClaimsAreApart
  <2>1. CASE row'[j] = row[j] /\ row'[i] = row[i] /\ SameResult(i, j)
    BY <1>1, <2>1 DEF ClaimsAreApart
  <2>2. CASE row'[i] = row[i] /\ row'[j].status = "pending" /\ row'[j].due = Delay
    <3>1. row[i].lease \in 0 .. LeaseDuration
      BY <1>1 DEF TypeOK, RowType
    <3>2. QED
      BY <2>2, <3>1 DEF DelayOutlastsLease
  <2>3. CASE row'[j].status \notin {"pending", "claimed"}
    BY <2>3
  <2>4. QED
    BY <1>6, <2>1, <2>2, <2>3
<1>8. ClaimsFollowReleases'
  <2> SUFFICES ASSUME NEW v \in Worker, NEW i \in Row, NEW j \in Row,
                      worker[v].pc = "claim", SameResult(i, j)',
                      row'[i].status = "claimed", row'[j].status = "pending"
               PROVE  row'[j].due > -worker[v].age
    BY <1>2 DEF ClaimsFollowReleases
  <2>1. CASE row'[j] = row[j] /\ row'[i] = row[i] /\ SameResult(i, j)
    BY <1>1, <2>1 DEF ClaimsFollowReleases
  <2>2. CASE row'[j].due = Delay
    <3>1. worker[v].age \in Nat /\ Delay > 0
      BY <1>1 DEF TypeOK, WorkerType, DelayOutlastsLease
    <3>2. QED
      BY <2>2, <3>1
  <2>3. QED
    BY <1>6, <2>1, <2>2
<1>9. ASSUME NEW v \in Worker, worker[v].pc = "send"
      PROVE  /\ worker[v].at \in Row /\ row'[worker[v].at] = row[worker[v].at]
             /\ row[worker[v].at].status # "pending"
  BY <1>5, <1>9, TransportRow DEF InTransport
<1>10. TransportEndsFirst'
  <2> SUFFICES ASSUME NEW v \in Worker, NEW j \in Row, worker[v].pc = "send",
                      SameResult(worker[v].at, j)'
               PROVE  /\ row'[j].status # "claimed"
                      /\ row'[j].status = "pending" => row'[j].due > worker[v].flight
    BY <1>2 DEF TransportEndsFirst, SameResult
  <2>1. CASE row'[j] = row[j]
    <3>1. SameResult(worker[v].at, j)
      BY <1>2, <1>9, <2>1 DEF SameResult
    <3>2. QED
      BY <1>1, <2>1, <3>1 DEF TransportEndsFirst
  <2>2. CASE row'[j].status = "pending" /\ row'[j].due = Delay
    <3>1. worker[v].flight \in 0 .. TransportDeadline
      BY <1>1 DEF TypeOK, WorkerType
    <3>2. QED
      BY <2>2, <3>1 DEF DelayOutlastsLease
  <2>3. QED
    BY <1>5, <2>1, <2>2
<1>11. OneCardAtATime'
  <2> SUFFICES ASSUME NEW v \in Worker, NEW w \in Worker, v # w,
                      worker[v].pc = "send", worker[w].pc = "send"
               PROVE  row'[worker[v].at].of # row'[worker[w].at].of
    BY <1>2 DEF OneCardAtATime
  <2>1. QED
    BY <1>1, <1>9 DEF OneCardAtATime
<1>12. ASSUME NEW y \in Result \ {x}, score'[y] # Unset
       PROVE  /\ score'[y] = score[y] /\ basis'[y] = basis[y]
              /\ basis[y] \in Row /\ row[basis[y]].of = y /\ row'[basis[y]] = row[basis[y]]
  <2>1. score'[y] = score[y] /\ basis'[y] = basis[y]
    BY <1>2, <1>3
  <2>2. /\ basis[y] \in Row /\ row[basis[y]].of = y
        /\ row[basis[y]].status \in Open \cup {"sent", "failed", "unreachable"}
    BY <1>1, <1>12, <2>1 DEF BasisIsCurrent
  <2>3. row[basis[y]].status # "absent"
    BY <2>2 DEF Open
  <2>4. QED
    BY <1>5, <2>1, <2>2, <2>3
<1>13. score'[x] = s
  BY <1>2
<1>14. BasisIsCurrent'
  <2> SUFFICES ASSUME NEW y \in Result, score'[y] # Unset
               PROVE  /\ basis'[y] \in Row /\ row'[basis'[y]].of = y
                      /\ row'[basis'[y]].status \in Open \cup {"sent", "failed", "unreachable"}
                      /\ \A j \in Row \ {basis'[y]} : row'[j].of = y =>
                           /\ row'[j].status # "pending"
                           /\ row'[j].status = "claimed" => row'[basis'[y]].status = "pending"
    BY DEF BasisIsCurrent
  <2>1. CASE y = x
    BY <1>4, <1>13, <2>1 DEF Open
  <2>2. CASE y # x
    <3>1. \A j \in Row : row'[j].of = y => row'[j] = row[j]
      BY <1>5, <2>2
    <3>2. QED
      BY <1>1, <1>12, <2>2, <3>1 DEF BasisIsCurrent
  <2>3. QED
    BY <2>1, <2>2
<1>15. CardsAreCurrent'
  <2> SUFFICES ASSUME NEW v \in Worker, NEW y \in Result, score'[y] # Unset
               PROVE  CardIsCurrent(v, y)'
    BY DEF CardsAreCurrent
  <2>1. CASE y = x
    <3>1. b \in Row /\ row'[b].status = "pending"
      BY <1>4, <1>13, <2>1
    <3>2. worker[v].at = b => ~InTransport(v)
      BY <1>5, <3>1, TransportRow
    <3>3. QED
      BY <1>2, <2>1, <3>1, <3>2 DEF CardIsCurrent, InTransport, Holds
  <2>2. CASE y # x
    <3>1. CardIsCurrent(v, y) /\ (Holds(v, basis[y])' <=> Holds(v, basis[y]))
      BY <1>1, <1>2, <1>12, <2>2 DEF CardsAreCurrent, Holds
    <3>2. QED
      BY <1>2, <1>9, <1>12, <2>2, <3>1 DEF CardIsCurrent
  <2>3. QED
    BY <2>1, <2>2
<1>16. SentMeansShown'
  <2> SUFFICES ASSUME NEW y \in Result, score'[y] # Unset, row'[basis'[y]].status = "sent"
               PROVE  shown[y] = score'[y]
    BY <1>2 DEF SentMeansShown
  <2>1. y # x
    BY <1>4, <1>13
  <2>2. QED
    BY <1>1, <1>12, <2>1 DEF SentMeansShown, Row
<1>17. QED
  BY <1>7, <1>8, <1>10, <1>11, <1>14, <1>15, <1>16 DEF TimedInv

LEMMA TickKeepsTimedInv ==
  ASSUME IInv, TimedInv, Tick
  PROVE  TimedInv'
<1>1. /\ TypeOK /\ ClaimsAreApart /\ ClaimsFollowReleases /\ TransportEndsFirst
      /\ OneCardAtATime /\ BasisIsCurrent /\ CardsAreCurrent /\ SentMeansShown
  BY DEF IInv, TimedInv
<1>2. UNCHANGED <<score, basis, shown>>
  BY DEF Tick
<1>3. \A i \in Row : /\ row'[i].status = row[i].status /\ row'[i].of = row[i].of
                     /\ row'[i].owner = row[i].owner
                     /\ row[i].lease \in Nat /\ row[i].due \in Int
                     /\ row'[i].lease = IF row[i].lease > 0 THEN row[i].lease - 1 ELSE 0
                     /\ row'[i].due \in Int /\ row'[i].due >= row[i].due - 1
  BY <1>1, TickFacts DEF SameButClock, TypeOK, RowType
<1>4. \A w \in Worker :
        /\ worker'[w].pc = worker[w].pc /\ worker'[w].at = worker[w].at
        /\ worker'[w].result = worker[w].result /\ worker'[w].seen = worker[w].seen
        /\ worker[w].age \in Nat /\ worker[w].flight \in Nat
        /\ worker[w].pc = "claim" => worker'[w].age = worker[w].age + 1
        /\ worker[w].pc = "send" => worker'[w].flight = worker[w].flight - 1
  BY <1>1, TickFacts DEF TypeOK, WorkerType
<1>5. ClaimsAreApart'
  <2> SUFFICES ASSUME NEW i \in Row, NEW j \in Row, SameResult(i, j)', row'[i].status = "claimed"
               PROVE  /\ row'[j].status # "claimed"
                      /\ row'[j].status = "pending" /\ row'[i].lease > 0 =>
                           row'[j].due >= row'[i].lease + TransportDeadline
    BY DEF ClaimsAreApart
  <2>1. /\ row[j].status # "claimed"
        /\ row[j].status = "pending" /\ row[i].lease > 0 =>
             row[j].due >= row[i].lease + TransportDeadline
    BY <1>1, <1>3 DEF ClaimsAreApart, SameResult
  <2>2. QED
    BY <1>3, <2>1
<1>6. ClaimsFollowReleases'
  <2> SUFFICES ASSUME NEW v \in Worker, NEW i \in Row, NEW j \in Row,
                      worker'[v].pc = "claim", SameResult(i, j)',
                      row'[i].status = "claimed", row'[j].status = "pending"
               PROVE  row'[j].due > -worker'[v].age
    BY DEF ClaimsFollowReleases
  <2>1. row[j].due > -worker[v].age
    BY <1>1, <1>3, <1>4 DEF ClaimsFollowReleases, SameResult
  <2>2. QED
    BY <1>3, <1>4, <2>1
<1>7. TransportEndsFirst'
  <2> SUFFICES ASSUME NEW v \in Worker, NEW j \in Row, worker'[v].pc = "send",
                      worker'[v].at # j, row'[worker'[v].at].of = row'[j].of
               PROVE  /\ row'[j].status # "claimed"
                      /\ row'[j].status = "pending" => row'[j].due > worker'[v].flight
    BY DEF TransportEndsFirst, SameResult
  <2>1. worker[v].pc = "send" /\ worker[v].at \in Row
    BY <1>4, TransportRow DEF InTransport
  <2>2. /\ row[j].status # "claimed"
        /\ row[j].status = "pending" => row[j].due > worker[v].flight
    BY <1>1, <1>3, <1>4, <2>1 DEF TransportEndsFirst, SameResult
  <2>3. QED
    BY <1>3, <1>4, <2>1, <2>2
<1>8. \A w \in Worker : worker[w].pc = "send" => worker[w].at \in Row
  BY TransportRow DEF InTransport
<1>9. OneCardAtATime'
  BY <1>1, <1>3, <1>4, <1>8 DEF OneCardAtATime
<1>10. BasisIsCurrent'
  BY <1>1, <1>2, <1>3 DEF BasisIsCurrent
<1>11. CardsAreCurrent'
  <2> SUFFICES ASSUME NEW v \in Worker, NEW x \in Result, score[x] # Unset
               PROVE  CardIsCurrent(v, x)'
    BY <1>2 DEF CardsAreCurrent
  <2>1. CardIsCurrent(v, x) /\ basis[x] \in Row
    BY <1>1 DEF CardsAreCurrent, BasisIsCurrent
  <2>2. Holds(v, basis[x])' <=> Holds(v, basis[x])
    BY <1>2, <1>3, <2>1 DEF Holds
  <2>3. QED
    BY <1>2, <1>3, <1>4, <1>8, <2>1, <2>2 DEF CardIsCurrent
<1>12. SentMeansShown'
  BY <1>1, <1>2, <1>3 DEF SentMeansShown, BasisIsCurrent
<1>13. QED
  BY <1>5, <1>6, <1>7, <1>9, <1>10, <1>11, <1>12 DEF TimedInv

LEMMA NextKeepsTimedInv ==
  ASSUME DelayOutlastsLease
  PROVE  IInv /\ TimedInv /\ [Next]_vars => TimedInv'
<1> SUFFICES ASSUME IInv, TimedInv, [Next]_vars PROVE TimedInv'
  OBVIOUS
<1>1. CASE UNCHANGED vars
  BY <1>1 DEF vars, TimedInv, ClaimsAreApart, SameResult, ClaimsFollowReleases, TransportEndsFirst,
              OneCardAtATime, BasisIsCurrent, CardsAreCurrent, CardIsCurrent, Holds, SentMeansShown
<1>2. CASE \E x \in Result, s \in 0 .. MaxScore : Edit(x, s)
  BY <1>2, EditKeepsTimedInv
<1>3. ASSUME NEW w \in Worker, Step(w) PROVE TimedInv'
  <2>1. CASE MarkSendStarted(w)
    BY <2>1, StartKeepsTimedInv, PassedKeepsTimedInv
  <2>2. QED
    BY <1>3, <2>1, ReleaseKeepsTimedInv, ClaimKeepsTimedInv, LoadKeepsTimedInv, SettleKeepsTimedInv,
       SendKeepsTimedInv DEF Step
<1>4. ASSUME NEW w \in Worker, Crash(w) PROVE TimedInv'
  BY <1>4, CrashKeepsTimedInv
<1>5. CASE Tick
  BY <1>5, TickKeepsTimedInv
<1>6. QED
  BY <1>1, <1>2, <1>3, <1>4, <1>5 DEF Next

\* The second inductive invariant holds in every reachable state, if the delay
\* outlasts a lease and the transport begun under it.
THEOREM TimedInvariance ==
  ASSUME DelayOutlastsLease
  PROVE  Spec => []TimedInv
<1>1. IInv /\ TimedInv /\ [Next]_vars => TimedInv'
  BY NextKeepsTimedInv
<1>2. QED
  BY <1>1, InitTimedInv, Invariance, PTL DEF Spec

\* Two runs never have cards of one result in transport together.
THEOREM CardsDoNotOvertake ==
  ASSUME DelayOutlastsLease
  PROVE  Spec => []OneCardAtATime
<1>1. TimedInv => OneCardAtATime
  BY DEF TimedInv
<1>2. QED
  BY <1>1, TimedInvariance, PTL

\* A sent row of the last edit means that the parent saw the score that stands.
THEOREM SentScoreStands ==
  ASSUME DelayOutlastsLease
  PROVE  Spec => []SentMeansShown
<1>1. TimedInv => SentMeansShown
  BY DEF TimedInv
<1>2. QED
  BY <1>1, TimedInvariance, PTL

\* The row of an edit that stands is never superseded or cleared.
THEOREM EditsAreKept ==
  ASSUME DelayOutlastsLease
  PROVE  Spec => []NoEditIsDropped
<1>1. TimedInv => NoEditIsDropped
  BY DEF TimedInv, BasisIsCurrent, NoEditIsDropped
<1>2. QED
  BY <1>1, TimedInvariance, PTL

\* The release of stale claims never breaks the unique index.
THEOREM ReleaseIsFree ==
  ASSUME DelayOutlastsLease
  PROVE  Spec => []ReleaseNeverCollides
<1>1. ASSUME IInv, TimedInv PROVE ReleaseNeverCollides
  <2> DEFINE rows == [i \in Row |-> StaleReleased(i)]
  <2>1. ASSUME NEW i \in Row, StaleReleased(i).status = "pending"
        PROVE  /\ StaleReleased(i).of = row[i].of
               /\ \/ row[i].status = "pending"
                  \/ row[i].status = "claimed" /\ PendingOf(row[i].of) = {}
    <3>1. row[i] \in RowType
      BY <1>1 DEF IInv, TypeOK
    <3>2. CASE StaleReleased(i) = row[i]
      BY <2>1, <3>2
    <3>3. CASE StaleReleased(i) = Close(row[i], "failed")
      BY <2>1, <3>1, <3>3, CloseType DEF Closed
    <3>4. CASE row[i].status = "claimed" /\ StaleReleased(i) = ReturnedToPending(i, 0)
      <4>1. CASE HasNewerPending(i)
        BY <2>1, <3>1, <3>4, <4>1, CloseType DEF ReturnedToPending, Closed
      <4>2. CASE ~HasNewerPending(i)
        BY <3>1, <3>4, <4>2, ReleasedType DEF ReturnedToPending, HasNewerPending
      <4>3. QED
        BY <4>1, <4>2
    <3>5. QED
      BY <3>2, <3>3, <3>4 DEF StaleReleased
  <2>2. UniquePending(row) /\ ClaimsAreApart
    BY <1>1 DEF IInv, TypeOK, TimedInv
  <2>3. UniquePending(rows)
    <3> SUFFICES ASSUME NEW i \in Row, NEW j \in Row, i # j,
                        StaleReleased(i).status = "pending", StaleReleased(j).status = "pending",
                        StaleReleased(i).of = StaleReleased(j).of
                 PROVE  FALSE
      BY DEF UniquePending
    <3>1. SameResult(i, j) /\ SameResult(j, i)
      BY <2>1 DEF SameResult
    <3>2. CASE row[i].status = "pending" /\ row[j].status = "pending"
      BY <2>2, <3>1, <3>2 DEF UniquePending, SameResult
    <3>3. CASE row[i].status = "claimed" /\ PendingOf(row[i].of) = {}
      BY <2>1, <2>2, <3>1, <3>3 DEF ClaimsAreApart, SameResult, PendingOf
    <3>4. CASE row[j].status = "claimed" /\ PendingOf(row[j].of) = {}
      BY <2>1, <2>2, <3>1, <3>4 DEF ClaimsAreApart, SameResult, PendingOf
    <3>5. QED
      BY <2>1, <3>2, <3>3, <3>4
  <2>4. QED
    BY <2>3 DEF ReleaseNeverCollides
<1>2. QED
  BY <1>1, Invariance, TimedInvariance, PTL

=============================================================================
