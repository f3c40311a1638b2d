-------------------------- MODULE ExamResultDelivery --------------------------
(***************************************************************************)
(* Telling parents about exam results.  An edit of an exam score schedules *)
(* one debounced row of exam_result_notifications; runs of the delivery    *)
(* job release what dead runs held, claim a batch of due rows under ONE    *)
(* lease, and for each row in turn read the score of that moment, mark the *)
(* row started, send the card and record what came of it.                  *)
(*                                                                         *)
(* Every transaction is one action, and a run may stall or die between any *)
(* two.  Clocks are countdowns: lease is lease_expires_at - now and due is *)
(* due_at - now, negative once the row is overdue.                         *)
(***************************************************************************)
EXTENDS Integers, FiniteSets

CONSTANTS
  Result,             \* pairs of a student and a journal
  Worker,             \* lease owners: runs of the job, one at a time each
  MaxScore,           \* exam_max_score
  MaxAttempts,        \* max_attempts of a row
  LeaseDuration,      \* EXAM_RESULT_LEASE_SECONDS
  Delay,              \* EXAM_RESULT_NOTIFICATION_DELAY_SECONDS
  TransportDeadline,  \* send_photo answers or raises within this of the start
  Backoff,            \* next_due_at - now after the n-th failed attempt
  BatchSize,          \* EXAM_RESULT_BATCH_SIZE
  ClaimWindow,        \* bound: the claim follows the run's clock reading within this
  MaxEdits,           \* bound: edits of exam scores
  MaxFaults,          \* bound: runs that die
  NoWorker, NoResult

ASSUME ExamConstants ==
  /\ MaxScore \in Nat \ {0} /\ MaxAttempts \in Nat \ {0}
  /\ LeaseDuration \in Nat \ {0} /\ Delay \in Nat /\ TransportDeadline \in Nat
  /\ Backoff \in [0 .. MaxAttempts -> Nat]
  /\ BatchSize \in Nat \ {0} /\ ClaimWindow \in Nat
  /\ MaxEdits \in Nat \ {0} /\ MaxFaults \in Nat
  /\ NoWorker \notin Worker /\ NoResult \notin Result

VARIABLES
  row,     \* exam_result_notifications
  score,   \* exam_score of the student's summary
  worker,  \* what each run remembers
  basis,   \* history: the row the last edit to a score was put on
  handed,  \* history: cards Telegram took of a row, but for those that raised
  shown,   \* history: the score on the last card the parent got
  edits, faults

vars == <<row, score, worker, basis, handed, shown, edits, faults>>

Row == 1 .. MaxEdits
Unset == 0  \* UNSET_EXAM_SCORE, and no row

Open == {"pending", "claimed"}

\* "cleared", "superseded" and "unreachable" are the reasons of a "skipped" row.
Closed == {"sent", "failed", "superseded", "cleared", "unreachable"}

Absent == [status |-> "absent", of |-> NoResult, attempts |-> 0, owner |-> NoWorker,
           lease |-> 0, started |-> FALSE, due |-> 0]

Idle == [pc |-> "idle", age |-> 0, batch |-> {}, at |-> 0, seen |-> 0, flight |-> 0,
         result |-> "none"]

Init ==
  /\ row = [i \in Row |-> Absent]
  /\ score = [x \in Result |-> Unset]
  /\ worker = [w \in Worker |-> Idle]
  /\ basis = [x \in Result |-> 0]
  /\ handed = [i \in Row |-> 0]
  /\ shown = [x \in Result |-> Unset]
  /\ edits = 0
  /\ faults = 0

PendingOf(x) == {i \in Row : row[i].status = "pending" /\ row[i].of = x}

\* uq_exam_result_notifications_pending_student_journal
UniquePending(rows) ==
  \A i, j \in Row : /\ rows[i].status = "pending" /\ rows[j].status = "pending"
                    /\ rows[i].of = rows[j].of
                    => i = j

\* A closed row is never read again: its other columns are forgotten.
Close(r, status) == [Absent EXCEPT !.status = status, !.of = r.of]

Released(r, due) ==
  [r EXCEPT !.status = "pending", !.owner = NoWorker, !.lease = 0, !.started = FALSE, !.due = due]

-----------------------------------------------------------------------------
(* An edit of an exam score.                                               *)

Scheduled(r) == [r EXCEPT !.due = Delay, !.attempts = 0]

\* Mutant: the edit is merged into any open row of the result.
MergedIntoOpen(x) == {i \in Row : row[i].status \in Open /\ row[i].of = x}

Conflicting(x) == PendingOf(x)

\* Ids grow; one is never used twice.
NextRow == edits + 1

Schedule(x) ==
  IF Conflicting(x) # {}
  THEN /\ row' = [i \in Row |-> IF i \in Conflicting(x) THEN Scheduled(row[i]) ELSE row[i]]
       /\ basis' = [basis EXCEPT ![x] = CHOOSE i \in Conflicting(x) : TRUE]
  ELSE /\ row' = [row EXCEPT ![NextRow] = Scheduled([Absent EXCEPT !.status = "pending", !.of = x])]
       /\ basis' = [basis EXCEPT ![x] = NextRow]

CancelPending(x) ==
  /\ row' = [i \in Row |-> IF i \in PendingOf(x) THEN Close(row[i], "cleared") ELSE row[i]]
  /\ UNCHANGED basis

Edit(x, s) ==
  /\ s # score[x] /\ edits < MaxEdits
  /\ edits' = edits + 1
  /\ score' = [score EXCEPT ![x] = s]
  /\ IF s = Unset THEN CancelPending(x) ELSE Schedule(x)
  /\ UNCHANGED <<worker, handed, shown, faults>>

-----------------------------------------------------------------------------
(* What one UPDATE of the repository does to a row.                        *)

\* Mutant: any other row of the result supersedes, not only a pending one.
SupersededByAny(i) == \E j \in Row \ {i} : row[j].of = row[i].of

\* Mutant: a row goes back whatever else is pending.
NeverNewer(i) == FALSE

HasNewerPending(i) == PendingOf(row[i].of) # {}

ReturnedToPending(i, due) ==
  IF HasNewerPending(i)
  THEN Close(row[i], "superseded")
  ELSE Released(row[i], due)

\* Mutant: a row whose send began is released like any other.
UncertainIfUsedUp(r) == r.attempts >= MaxAttempts

Uncertain(r) == r.started \/ r.attempts >= MaxAttempts

StaleReleased(i) ==
  IF ~(row[i].status = "claimed" /\ row[i].lease = 0) THEN row[i]
  ELSE IF Uncertain(row[i]) THEN Close(row[i], "failed")
  ELSE ReturnedToPending(i, 0)

Holds(w, i) == row[i].status = "claimed" /\ row[i].owner = w

\* Mutant: the WHERE clause of the start asks for a claim, whoever has it.
HoldsAny(w, i) == row[i].status = "claimed"

HoldsLease(w, i) == Holds(w, i) /\ row[i].lease > 0

\* Mutant: due_at is left out of the WHERE clause.
PendingRows(w) == {i \in Row : row[i].status = "pending" /\ row[i].attempts < MaxAttempts}

DueRows(w) ==
  {i \in Row : /\ row[i].status = "pending" /\ row[i].attempts < MaxAttempts
               /\ row[i].due <= -worker[w].age}

-----------------------------------------------------------------------------
(* One run of deliver_due_exam_results.                                    *)

\* The clock is read and the stale claims go back.  Two of one result would
\* break the unique index: the transaction, and with it the run, fails.
ReleaseStaleClaims(w) ==
  /\ worker[w].pc = "idle"
  /\ UniquePending([i \in Row |-> StaleReleased(i)])
  /\ row' = [i \in Row |-> StaleReleased(i)]
  /\ worker' = [worker EXCEPT ![w] = [Idle EXCEPT !.pc = "claim"]]
  /\ UNCHANGED <<score, basis, handed, shown, edits, faults>>

\* The oldest due rows, up to BatchSize, on a lease that began with the run.
ClaimDueBatch(w) ==
  /\ worker[w].pc = "claim"
  /\ \E batch \in SUBSET DueRows(w) :
       /\ Cardinality(batch) <= BatchSize
       /\ batch = {} => DueRows(w) = {}
       /\ \A i \in batch, j \in DueRows(w) \ batch : row[i].due <= row[j].due
       /\ row' = [i \in Row |->
            IF i \in batch
            THEN [row[i] EXCEPT !.status = "claimed", !.owner = w, !.started = FALSE,
                                !.attempts = @ + 1, !.due = 0,
                                !.lease = IF worker[w].age < LeaseDuration
                                          THEN LeaseDuration - worker[w].age ELSE 0]
            ELSE row[i]]
       /\ worker' = [worker EXCEPT ![w] =
            IF batch = {} THEN Idle ELSE [Idle EXCEPT !.pc = "next", !.batch = batch]]
  /\ UNCHANGED <<score, basis, handed, shown, edits, faults>>

\* deliver begins: the summary, the student and the parent are read.
LoadSource(w, i) ==
  /\ worker[w].pc = "next" /\ i \in worker[w].batch
  /\ \/ worker' = [worker EXCEPT ![w].pc = "skip", ![w].batch = @ \ {i}, ![w].at = i,
                                 ![w].result = "unreachable"]
     \/ /\ score[row[i].of] = Unset
        /\ worker' = [worker EXCEPT ![w].pc = "skip", ![w].batch = @ \ {i}, ![w].at = i,
                                    ![w].result = "cleared"]
     \/ /\ score[row[i].of] # Unset
        /\ worker' = [worker EXCEPT ![w].pc = "start", ![w].batch = @ \ {i}, ![w].at = i,
                                    ![w].seen = score[row[i].of]]
  /\ UNCHANGED <<row, score, basis, handed, shown, edits, faults>>

\* deliver returns; the run goes on with the next row or ends.
Returned(w) ==
  IF worker[w].batch = {} THEN Idle ELSE [Idle EXCEPT !.pc = "next", !.batch = worker[w].batch]

SettleSkipped(w) ==
  /\ worker[w].pc = "skip"
  /\ row' = IF Holds(w, worker[w].at)
            THEN [row EXCEPT ![worker[w].at] = Close(@, worker[w].result)] ELSE row
  /\ worker' = [worker EXCEPT ![w] = Returned(w)]
  /\ UNCHANGED <<score, basis, handed, shown, edits, faults>>

MarkSendStarted(w) ==
  /\ worker[w].pc = "start"
  /\ IF HoldsLease(w, worker[w].at)
     THEN /\ row' = [row EXCEPT ![worker[w].at].started = TRUE]
          /\ worker' = [worker EXCEPT ![w].pc = "send", ![w].flight = TransportDeadline]
     ELSE /\ worker' = [worker EXCEPT ![w] = Returned(w)]
          /\ UNCHANGED row
  /\ UNCHANGED <<score, basis, handed, shown, edits, faults>>

Delivers(w, took) ==
  shown' = IF took THEN [shown EXCEPT ![row[worker[w].at].of] = worker[w].seen] ELSE shown

HandsOver(w, took) ==
  handed' = IF took THEN [handed EXCEPT ![worker[w].at] = @ + 1] ELSE handed

\* send_photo returns, is refused by the chat, or raises; what raised may
\* have been taken all the same.
SendPhoto(w) ==
  /\ worker[w].pc = "send"
  /\ \/ /\ worker' = [worker EXCEPT ![w].pc = "settle", ![w].result = "sent", ![w].flight = 0]
        /\ Delivers(w, TRUE) /\ HandsOver(w, TRUE)
     \/ /\ worker' = [worker EXCEPT ![w].pc = "skip", ![w].result = "unreachable", ![w].flight = 0]
        /\ UNCHANGED <<handed, shown>>
     \/ /\ worker' = [worker EXCEPT ![w].pc = "settle", ![w].result = "error", ![w].flight = 0]
        /\ \E took \in BOOLEAN : Delivers(w, took)
        /\ UNCHANGED handed
  /\ UNCHANGED <<row, score, basis, edits, faults>>

\* Mutant: one attempt more than the claim will ever take.
RetriesBeyond(i) ==
  IF row[i].attempts > MaxAttempts THEN Close(row[i], "failed")
  ELSE ReturnedToPending(i, Backoff[row[i].attempts])

AfterError(i) ==
  IF row[i].attempts >= MaxAttempts THEN Close(row[i], "failed")
  ELSE ReturnedToPending(i, Backoff[row[i].attempts])

\* mark_sent or mark_retry; the attempts of a row the run holds are those it read.
Settle(w) ==
  /\ worker[w].pc = "settle"
  /\ LET i == worker[w].at IN
     row' = IF ~Holds(w, i) THEN row
            ELSE IF worker[w].result = "sent" THEN [row EXCEPT ![i] = Close(@, "sent")]
            ELSE [row EXCEPT ![i] = AfterError(i)]
  /\ worker' = [worker EXCEPT ![w] = Returned(w)]
  /\ UNCHANGED <<score, basis, handed, shown, edits, faults>>

\* The process dies, the job times out or a transaction fails.
Crash(w) ==
  /\ worker[w].pc # "idle" /\ faults < MaxFaults
  /\ faults' = faults + 1
  /\ worker' = [worker EXCEPT ![w] = Idle]
  /\ \E took \in IF worker[w].pc = "send" THEN BOOLEAN ELSE {FALSE} :
       Delivers(w, took) /\ HandsOver(w, took)
  /\ UNCHANGED <<row, score, basis, edits>>

Tick ==
  /\ \A w \in Worker : /\ worker[w].pc = "send" => worker[w].flight > 0
                       /\ worker[w].pc = "claim" => worker[w].age < ClaimWindow
  /\ row' = [i \in Row |->
       [row[i] EXCEPT !.lease = IF @ > 0 THEN @ - 1 ELSE 0,
                      !.due = IF row[i].status = "pending" /\ @ > -ClaimWindow THEN @ - 1 ELSE @]]
  /\ worker' = [w \in Worker |->
       [worker[w] EXCEPT !.age = IF worker[w].pc = "claim" THEN @ + 1 ELSE @,
                         !.flight = IF worker[w].pc = "send" THEN @ - 1 ELSE @]]
  /\ UNCHANGED <<score, basis, handed, shown, edits, faults>>

Step(w) ==
  \/ ReleaseStaleClaims(w)
  \/ ClaimDueBatch(w)
  \/ \E i \in Row : LoadSource(w, i)
  \/ SettleSkipped(w)
  \/ MarkSendStarted(w)
  \/ SendPhoto(w)
  \/ Settle(w)

Next ==
  \/ \E x \in Result, s \in 0 .. MaxScore : Edit(x, s)
  \/ \E w \in Worker : Step(w) \/ Crash(w)
  \/ Tick

Spec == Init /\ [][Next]_vars

\* The scheduler starts a run every half minute, and a run that is not killed
\* goes on: no step waits for anything but the transport's deadline.
FairSpec == Spec /\ WF_vars(Tick) /\ \A w \in Worker : WF_vars(Step(w))

-----------------------------------------------------------------------------
(* Properties.                                                             *)

RowType ==
  [status : {"absent"} \cup Open \cup Closed, of : Result \cup {NoResult},
   attempts : 0 .. MaxAttempts, owner : Worker \cup {NoWorker}, lease : 0 .. LeaseDuration,
   started : BOOLEAN, due : Int]

WorkerType ==
  [pc : {"idle", "claim", "next", "skip", "start", "send", "settle"}, age : 0 .. ClaimWindow,
   batch : SUBSET Row, at : Row \cup {0}, seen : 0 .. MaxScore, flight : 0 .. TransportDeadline,
   result : {"none", "sent", "error", "cleared", "unreachable"}]

\* The types, and that no result ever has two pending rows.
TypeOK ==
  /\ row \in [Row -> RowType]
  /\ score \in [Result -> 0 .. MaxScore]
  /\ worker \in [Worker -> WorkerType]
  /\ basis \in [Result -> Row \cup {0}]
  /\ handed \in [Row -> Nat]
  /\ shown \in [Result -> 0 .. MaxScore]
  /\ edits \in 0 .. MaxEdits /\ faults \in 0 .. MaxFaults
  /\ \A i \in Row : row[i].status = "absent" \/ row[i].of \in Result
  /\ UniquePending(row)

\* A card Telegram took without raising, or under a run that died over it, is
\* never sent a second time for the same row.
HandedOverOnce == \A i \in Row : handed[i] <= 1

\* Two runs never have cards of one result in transport together, so cards
\* cannot overtake each other on their way to the parent.
OneCardAtATime ==
  \A v, w \in Worker :
    v # w /\ worker[v].pc = "send" /\ worker[w].pc = "send"
      => row[worker[v].at].of # row[worker[w].at].of

\* When the row of the last edit is sent, the parent has seen that score.
SentMeansShown ==
  \A x \in Result :
    score[x] # Unset /\ basis[x] # 0 /\ row[basis[x]].status = "sent" => shown[x] = score[x]

\* The row of an edit that still stands waits, is sent, or ends for a reason
\* staff can act on; it is never dropped as superseded or cleared.
NoEditIsDropped ==
  \A x \in Result :
    score[x] # Unset => row[basis[x]].status \in Open \cup {"sent", "failed", "unreachable"}

\* The release of stale claims never runs into the unique index, which would
\* roll it back and stop every delivery.
ReleaseNeverCollides == UniquePending([i \in Row |-> StaleReleased(i)])

\* What a run that died before its send had claimed is released at last.
DeadClaimsAreReleased ==
  \A i \in Row : (row[i].status = "claimed" /\ row[i].lease = 0) ~> row[i].status # "claimed"

\* A scheduled card is sent, given up or replaced at last.
EveryRowCloses == \A i \in Row : row[i].status = "pending" ~> row[i].status \in Closed

-----------------------------------------------------------------------------
(* The inductive invariants.  The first holds for every delay, the second   *)
(* needs a delay that outlasts a lease and the transport begun under it.    *)

\* The rows a run still has to do with.
Mine(w) == worker[w].batch \cup
             (IF worker[w].pc \in {"skip", "start", "send", "settle"} THEN {worker[w].at} ELSE {})

InTransport(w) == worker[w].pc \in {"send", "settle"}

RunIsSound(w) ==
  /\ worker[w].pc = "skip" => worker[w].result \in {"cleared", "unreachable"}
  /\ worker[w].pc \in {"skip", "start", "send", "settle"} =>
       worker[w].at \in Row \ worker[w].batch
  /\ \A i \in Mine(w) : row[i].status # "absent"
  /\ \A i \in worker[w].batch : Holds(w, i) => ~row[i].started
  /\ worker[w].pc = "start" /\ Holds(w, worker[w].at) => ~row[worker[w].at].started
  /\ InTransport(w) => \/ row[worker[w].at].status \in Closed
                       \/ Holds(w, worker[w].at) /\ row[worker[w].at].started
  /\ InTransport(w) /\ handed[worker[w].at] # 0 => worker[w].result = "sent" /\ worker[w].pc = "settle"

RunsAreSound == \A w \in Worker : RunIsSound(w)

TransportsAreApart ==
  \A v, w \in Worker : v # w /\ InTransport(v) /\ InTransport(w) => worker[v].at # worker[w].at

HandedRowsAreDone ==
  \A i \in Row : /\ handed[i] <= 1
                 /\ handed[i] # 0 => \/ row[i].status \in Closed
                                     \/ row[i].status = "claimed" /\ row[i].started

EditsBoundRows == \A i \in Row : i > edits => row[i].status = "absent"

IInv == TypeOK /\ RunsAreSound /\ TransportsAreApart /\ HandedRowsAreDone /\ EditsBoundRows

DelayOutlastsLease == Delay >= LeaseDuration + TransportDeadline

SameResult(i, j) == i # j /\ row[i].of = row[j].of

\* While a row is claimed, no second one of its result is, and the next one
\* falls due after the lease and whatever transport it can still begin.
ClaimsAreApart ==
  \A i, j \in Row :
    SameResult(i, j) /\ row[i].status = "claimed" =>
      /\ row[j].status # "claimed"
      /\ row[j].status = "pending" /\ row[i].lease > 0 =>
           row[j].due >= row[i].lease + TransportDeadline

\* What a run is about to claim has no claimed row of its result beside it.
ClaimsFollowReleases ==
  \A w \in Worker, i, j \in Row :
    /\ worker[w].pc = "claim" /\ SameResult(i, j)
    /\ row[i].status = "claimed" /\ row[j].status = "pending"
    => row[j].due > -worker[w].age

TransportEndsFirst ==
  \A w \in Worker, j \in Row :
    worker[w].pc = "send" /\ SameResult(worker[w].at, j) =>
      /\ row[j].status # "claimed"
      /\ row[j].status = "pending" => row[j].due > worker[w].flight

\* The last edit's row is the only one of its result with work left.
BasisIsCurrent ==
  \A x \in Result : score[x] # Unset =>
    /\ basis[x] \in Row /\ row[basis[x]].of = x
    /\ row[basis[x]].status \in Open \cup {"sent", "failed", "unreachable"}
    /\ \A j \in Row \ {basis[x]} : row[j].of = x =>
         /\ row[j].status # "pending"
         /\ row[j].status = "claimed" => row[basis[x]].status = "pending"

\* What a run read is still true of the row it holds, if that is the last edit's.
CardIsCurrent(w, x) ==
  /\ worker[w].at = basis[x] =>
       /\ ~(Holds(w, basis[x]) /\ worker[w].pc = "skip" /\ worker[w].result = "cleared")
       /\ Holds(w, basis[x]) /\ worker[w].pc = "start" => worker[w].seen = score[x]
       /\ worker[w].pc = "send" => worker[w].seen = score[x]
       /\ worker[w].pc = "settle" /\ worker[w].result = "sent" => shown[x] = score[x]
  /\ worker[w].pc = "send" /\ worker[w].at # basis[x] /\ row[worker[w].at].of = x =>
       row[basis[x]].status = "pending"

CardsAreCurrent ==
  \A w \in Worker, x \in Result : score[x] # Unset => CardIsCurrent(w, x)

TimedInv ==
  /\ ClaimsAreApart /\ ClaimsFollowReleases /\ TransportEndsFirst
  /\ OneCardAtATime /\ BasisIsCurrent /\ CardsAreCurrent /\ SentMeansShown

=============================================================================
