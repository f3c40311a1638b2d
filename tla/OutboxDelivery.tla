--------------------------- MODULE OutboxDelivery ---------------------------
(***************************************************************************)
(* The transactional outbox: rows of outbox_events, and the workers that   *)
(* claim them under a lease, hand them to a transport (SMTP, the SMS       *)
(* gateway, the job queue) and record what came of it.                     *)
(*                                                                         *)
(* Every transaction of the code is one action.  A worker may be delayed,  *)
(* raise or die between any two of them.  Deadlines are countdowns: lease  *)
(* is lease_expires_at - now, wait is next_attempt_at - now and ttl is     *)
(* expires_at - now, so "lease_expires_at > now" reads lease > 0.          *)
(***************************************************************************)
EXTENDS Integers, FiniteSets

CONSTANTS
  Event,              \* the rows that may be enqueued
  Worker,             \* lease owners: worker processes, each in one run at a time
  KindOf,             \* the kind of each event
  MaxAttempts,        \* max_attempts of a row
  LeaseDuration,      \* OUTBOX_WORKER_LEASE_SECONDS
  MinLeaseRemaining,  \* what begin_attempt must leave of the lease
  TransportDeadline,  \* a transport is over this long after its attempt began
  TimeToLive,         \* expires_at - created_at of a row that expires
  Backoff,            \* next_attempt_at - now after the n-th failed attempt
  BatchSize,          \* claims of one run_once
  MaxFaults,          \* bound: crashes, exceptions and ticks inside a step
  NoWorker, NoEvent

Kinds == {"email", "sms", "debt", "notification"}

ASSUME OutboxConstants ==
  /\ KindOf \in [Event -> Kinds]
  /\ MaxAttempts \in Nat \ {0}
  /\ LeaseDuration \in Nat /\ MinLeaseRemaining \in Nat /\ TransportDeadline \in Nat
  /\ TransportDeadline < MinLeaseRemaining /\ MinLeaseRemaining < LeaseDuration
  /\ TimeToLive \in Nat \ {0}
  /\ Backoff \in [1 .. MaxAttempts -> Nat]
  /\ BatchSize \in Nat \ {0} /\ MaxFaults \in Nat
  /\ NoWorker \notin Worker /\ NoEvent \notin Event

VARIABLES
  row,        \* outbox_events
  reminder,   \* status of the DebtReminderNotification a "debt" row carries
  valid,      \* the payload is still what the user should get
  worker,     \* what each worker process remembers; wasValid is a ghost: the
              \* payload was valid at some moment since the claim
  accepted,   \* history: the provider took the message at least once
  sends,      \* history: transports started for the event
  faults      \* faults spent

vars == <<row, reminder, valid, worker, accepted, sends, faults>>

Terminal == {"delivered", "failed", "expired"}

Expires(e) == KindOf[e] # "notification"
Bounded(e) == KindOf[e] # "notification"

Idle == [pc |-> "idle", ev |-> NoEvent, lease |-> 0, counted |-> FALSE, result |-> "none",
         processed |-> FALSE, left |-> 0, flight |-> 0, wasValid |-> FALSE]

Init ==
  /\ row = [e \in Event |-> [status |-> "absent", attempts |-> 0, owner |-> NoWorker, lease |-> 0,
                             wait |-> 0, ttl |-> TimeToLive, payload |-> FALSE]]
  /\ reminder = [e \in Event |-> "none"]
  /\ valid = [e \in Event |-> FALSE]
  /\ worker = [w \in Worker |-> Idle]
  /\ accepted = [e \in Event |-> FALSE]
  /\ sends = [e \in Event |-> 0]
  /\ faults = 0

-----------------------------------------------------------------------------
(* What one UPDATE of the repository does to a row.                        *)

Released(r) == [r EXCEPT !.status = "pending", !.owner = NoWorker, !.lease = 0]

\* Mutant: a failed row keeps its payload for another look.
ClosedKeepingFailed(r, status) ==
  [r EXCEPT !.status = status, !.owner = NoWorker, !.lease = 0, !.payload = status = "failed"]

Closed(r, status) ==
  [r EXCEPT !.status = status, !.owner = NoWorker, !.lease = 0, !.payload = FALSE]

AfterFailure(r, terminal) ==
  IF terminal \/ r.attempts >= MaxAttempts
  THEN Closed(r, "failed")
  ELSE [Released(r) EXCEPT !.wait = Backoff[r.attempts]]

\* Mutants: a stale row goes back whatever it has used; stale rows stay claimed.
StaleReleasedAlways(r) ==
  IF r.status = "claimed" /\ r.lease = 0 THEN [Released(r) EXCEPT !.wait = 0] ELSE r
NeverReleased(r) == r

StaleReleased(r) ==
  IF r.status = "claimed" /\ r.lease = 0
  THEN IF r.attempts >= MaxAttempts
       THEN [Closed(r, "failed") EXCEPT !.wait = 0]
       ELSE [Released(r) EXCEPT !.wait = 0]
  ELSE r

StaleExpired(e, r) ==
  IF r.status \in {"pending", "claimed"} /\ Expires(e) /\ r.ttl <= 0
  THEN Closed(r, "expired")
  ELSE r

(* The WHERE clauses that protect a row from everyone but its lease holder. *)

Holds(w, e) == row[e].status = "claimed" /\ row[e].owner = w
HoldsLease(w, e) == Holds(w, e) /\ row[e].lease > 0

Claimable(e) ==
  /\ row[e].status = "pending"
  /\ row[e].attempts < MaxAttempts
  /\ row[e].wait = 0
  /\ Expires(e) => row[e].ttl > 0

ReleaseClaim(w, e) ==
  row' = IF Holds(w, e) THEN [row EXCEPT ![e] = Released(@)] ELSE row

\* The row becomes r, and its debt reminder follows it, when guard holds.
Settled(e, guard, r, reminderStatus) ==
  /\ row' = IF guard THEN [row EXCEPT ![e] = r] ELSE row
  /\ reminder' = IF guard /\ KindOf[e] = "debt"
                 THEN [reminder EXCEPT ![e] = reminderStatus] ELSE reminder

\* Mutant: the transport succeeded, so the row is delivered whoever has it.
MarkDeliveredAnyway(w, e) == Settled(e, TRUE, Closed(row[e], "delivered"), "sent")

MarkDelivered(w, e) == Settled(e, HoldsLease(w, e), Closed(row[e], "delivered"), "sent")

MarkFailed(w, e, terminal) ==
  Settled(e, HoldsLease(w, e), AfterFailure(row[e], terminal),
          IF terminal THEN "failed" ELSE "outbox")

MarkExpired(w, e, live) == Settled(e, live, Closed(row[e], "expired"), "failed")

Goto(w, pc) == worker' = [worker EXCEPT ![w].pc = pc]

Finish(w, processed) == worker' = [worker EXCEPT ![w].pc = "finally", ![w].processed = processed]

-----------------------------------------------------------------------------
(* The application: a row is written with the business change, and what it *)
(* carries may be overtaken (a newer code, a changed phone, a paid debt).  *)

Enqueue(e) ==
  /\ row[e].status = "absent"
  /\ row' = [row EXCEPT ![e].status = "pending", ![e].payload = TRUE]
  /\ reminder' = [reminder EXCEPT ![e] = IF KindOf[e] = "debt" THEN "outbox" ELSE "none"]
  /\ valid' = [valid EXCEPT ![e] = TRUE]
  /\ UNCHANGED <<worker, accepted, sends, faults>>

Supersede(e) ==
  /\ KindOf[e] # "notification"
  /\ valid[e]
  /\ valid' = [valid EXCEPT ![e] = FALSE]
  /\ UNCHANGED <<row, reminder, worker, accepted, sends, faults>>

\* It may be right again: a debt is owed once more, a number is changed back.
Reinstate(e) ==
  /\ KindOf[e] # "notification"
  /\ row[e].status # "absent" /\ ~valid[e]
  /\ valid' = [valid EXCEPT ![e] = TRUE]
  /\ worker' = [w \in Worker |-> IF worker[w].ev = e THEN [worker[w] EXCEPT !.wasValid = TRUE]
                                ELSE worker[w]]
  /\ UNCHANGED <<row, reminder, accepted, sends, faults>>

-----------------------------------------------------------------------------
(* One run of a worker.                                                    *)

\* Mutant: rows are released and expired, their debt reminders forgotten.
MaintainRowsOnly(w) ==
  /\ worker[w].pc = "idle"
  /\ row' = [e \in Event |-> StaleExpired(e, StaleReleased(row[e]))]
  /\ worker' = [worker EXCEPT ![w].pc = "claim", ![w].left = BatchSize]
  /\ UNCHANGED <<reminder, valid, accepted, sends, faults>>

\* run_once opens with one transaction that returns the rows of dead workers
\* to the queue and expires what is too old, whoever holds it.
Maintain(w) ==
  /\ worker[w].pc = "idle"
  /\ row' = [e \in Event |-> StaleExpired(e, StaleReleased(row[e]))]
  /\ reminder' = [e \in Event |->
       IF reminder[e] = "outbox" /\ row'[e].status \in {"failed", "expired"}
       THEN "failed" ELSE reminder[e]]
  /\ worker' = [worker EXCEPT ![w].pc = "claim", ![w].left = BatchSize]
  /\ UNCHANGED <<valid, accepted, sends, faults>>

\* One row per claim.  Rows locked by another transaction are skipped, so the
\* oldest next_attempt_at is a preference and not an order.
Claim(w) ==
  /\ worker[w].pc = "claim"
  /\ \/ \E e \in Event :
          /\ Claimable(e)
          /\ row' = [row EXCEPT ![e].status = "claimed", ![e].owner = w, ![e].lease = LeaseDuration]
          /\ worker' = [worker EXCEPT ![w] =
               [Idle EXCEPT !.pc = "process", !.ev = e, !.lease = LeaseDuration,
                            !.left = worker[w].left - 1, !.wasValid = valid[e]]]
     \/ /\ \A e \in Event : ~Claimable(e)
        /\ worker' = [worker EXCEPT ![w] = Idle]
        /\ UNCHANGED row
  /\ UNCHANGED <<reminder, valid, accepted, sends, faults>>

\* Mutant: a retried event was checked the first time.
ProcessCheckedOnce(w) ==
  LET e == worker[w].ev IN
  /\ worker[w].pc = "process"
  /\ Goto(w, IF KindOf[e] = "notification" \/ row[e].attempts > 0 THEN "begin" ELSE "check")
  /\ UNCHANGED <<row, reminder, valid, accepted, sends, faults>>

\* The checks that open process_single_event, on the row as it was claimed.
Process(w) ==
  LET e == worker[w].ev IN
  /\ worker[w].pc = "process"
  /\ \/ /\ Expires(e) /\ row[e].ttl <= 0
        /\ MarkExpired(w, e, HoldsLease(w, e))
        /\ Finish(w, TRUE)
     \/ /\ Expires(e) => row[e].ttl > 0
        /\ worker[w].lease < MinLeaseRemaining
        /\ ReleaseClaim(w, e)
        /\ Finish(w, FALSE)
        /\ UNCHANGED reminder
     \/ /\ Expires(e) => row[e].ttl > 0
        /\ worker[w].lease >= MinLeaseRemaining
        /\ Goto(w, IF KindOf[e] = "notification" THEN "begin" ELSE "check")
        /\ UNCHANGED <<row, reminder>>
  /\ UNCHANGED <<valid, accepted, sends, faults>>

\* The payload was written under a key this worker no longer has.
Undecryptable(w) ==
  LET e == worker[w].ev IN
  /\ worker[w].pc = "process"
  /\ Expires(e) => row[e].ttl > 0
  /\ worker[w].lease >= MinLeaseRemaining
  /\ MarkFailed(w, e, TRUE)
  /\ Finish(w, TRUE)
  /\ UNCHANGED <<valid, accepted, sends, faults>>

\* check_verification_state, or the SMS dispatchers' _inspect: a read of its own.
Check(w) ==
  /\ worker[w].pc = "check"
  /\ Goto(w, IF valid[worker[w].ev] THEN "begin" ELSE "reject")
  /\ UNCHANGED <<row, reminder, valid, accepted, sends, faults>>

\* An e-mail is rejected with the clock read before the check, when the lease
\* was certainly alive; an SMS with a fresh one.
Reject(w) ==
  LET e == worker[w].ev IN
  /\ worker[w].pc = "reject"
  /\ MarkExpired(w, e, IF KindOf[e] = "email" THEN Holds(w, e) ELSE HoldsLease(w, e))
  /\ Finish(w, TRUE)
  /\ UNCHANGED <<valid, accepted, sends, faults>>

\* Mutant: any live lease will do.
MayBeginUnderAnyLease(w, e) == HoldsLease(w, e) /\ row[e].attempts < MaxAttempts

\* The attempt is counted, in a committed transaction, before the transport
\* starts, and only under a lease that outlives the transport.
MayBegin(w, e) ==
  /\ Holds(w, e)
  /\ row[e].lease > MinLeaseRemaining
  /\ row[e].attempts < MaxAttempts

\* Mutant: the attempt would be counted when its outcome is known.
BeginUncounted(w) ==
  LET e == worker[w].ev IN
  /\ worker[w].pc = "begin"
  /\ MayBegin(w, e)
  /\ sends' = [sends EXCEPT ![e] = @ + 1]
  /\ worker' = [worker EXCEPT ![w].pc = "send", ![w].counted = TRUE, ![w].flight = TransportDeadline]
  /\ UNCHANGED <<row, reminder, valid, accepted, faults>>

Begin(w) ==
  LET e == worker[w].ev IN
  /\ worker[w].pc = "begin"
  /\ MayBegin(w, e)
  /\ row' = [row EXCEPT ![e].attempts = @ + 1]
  /\ sends' = [sends EXCEPT ![e] = @ + 1]
  /\ worker' = [worker EXCEPT ![w].pc = "send", ![w].counted = TRUE, ![w].flight = TransportDeadline]
  /\ UNCHANGED <<reminder, valid, accepted, faults>>

CannotBegin(w) ==
  LET e == worker[w].ev IN
  /\ worker[w].pc = "begin"
  /\ ~MayBegin(w, e)
  /\ ReleaseClaim(w, e)
  /\ Finish(w, FALSE)
  /\ UNCHANGED <<reminder, valid, accepted, sends, faults>>

\* The outcome of the transport.  A timeout or a broken connection does not tell
\* whether the provider took the message; only the SMS gateway refuses for good.
Transport(w) ==
  LET e == worker[w].ev IN
  /\ worker[w].pc = "send"
  /\ \E took \in BOOLEAN, result \in {"ok", "retryable", "final"} :
       /\ result = "ok" => took
       /\ result = "final" => ~took /\ KindOf[e] \in {"sms", "debt"}
       /\ accepted' = [accepted EXCEPT ![e] = @ \/ took]
       /\ worker' = [worker EXCEPT ![w].pc = "settle", ![w].result = result, ![w].flight = 0]
  /\ UNCHANGED <<row, reminder, valid, sends, faults>>

\* A notification leaves the choice of "failed" to the row's attempt_count.
Settle(w) ==
  LET e == worker[w].ev IN
  /\ worker[w].pc = "settle"
  /\ IF worker[w].result = "ok"
     THEN MarkDelivered(w, e)
     ELSE MarkFailed(w, e, /\ KindOf[e] # "notification"
                           /\ worker[w].result = "final" \/ row[e].attempts >= MaxAttempts)
  /\ Finish(w, TRUE)
  /\ UNCHANGED <<valid, accepted, sends, faults>>

\* Mutant: the run goes on until nothing is claimable.
FinallyUnbounded(w) ==
  LET e == worker[w].ev IN
  /\ worker[w].pc = "finally"
  /\ IF worker[w].counted THEN UNCHANGED row ELSE ReleaseClaim(w, e)
  /\ worker' = [worker EXCEPT ![w] =
       IF worker[w].processed THEN [Idle EXCEPT !.pc = "claim", !.left = worker[w].left] ELSE Idle]
  /\ UNCHANGED <<reminder, valid, accepted, sends, faults>>

\* The finally clause of run_once: a claim whose attempt was never counted goes
\* back to the queue.  The run goes on after a processed event, up to its batch.
Finally(w) ==
  LET e == worker[w].ev IN
  /\ worker[w].pc = "finally"
  /\ IF worker[w].counted THEN UNCHANGED row ELSE ReleaseClaim(w, e)
  /\ worker' = [worker EXCEPT ![w] =
       IF worker[w].processed /\ worker[w].left > 0
       THEN [Idle EXCEPT !.pc = "claim", !.left = worker[w].left]
       ELSE Idle]
  /\ UNCHANGED <<reminder, valid, accepted, sends, faults>>

-----------------------------------------------------------------------------
(* What goes wrong.                                                        *)

\* An exception inside process_single_event rolls its transaction back and
\* leaves through the finally clause.  begin_attempt's caller sets the counted
\* attempt before the commit that may fail.
Raise(w) ==
  /\ worker[w].pc \in {"process", "check", "reject", "begin", "settle"}
  /\ faults < MaxFaults
  /\ faults' = faults + 1
  /\ \E counted \in BOOLEAN :
       /\ counted # worker[w].counted => worker[w].pc = "begin"
       /\ worker' = [worker EXCEPT ![w].pc = "finally", ![w].processed = FALSE, ![w].counted = counted]
  /\ UNCHANGED <<row, reminder, valid, accepted, sends>>

\* The process dies, or is stopped while it sends; the provider may have taken
\* what was on the wire.
Crash(w) ==
  /\ worker[w].pc # "idle"
  /\ faults < MaxFaults
  /\ faults' = faults + 1
  /\ \E took \in BOOLEAN :
       /\ took => worker[w].pc = "send"
       /\ accepted' = IF took THEN [accepted EXCEPT ![worker[w].ev] = TRUE] ELSE accepted
  /\ worker' = [worker EXCEPT ![w] = Idle]
  /\ UNCHANGED <<row, reminder, valid, sends>>

Less(n) == IF n > 0 THEN n - 1 ELSE 0

\* Time passes.  A transport with a deadline does not outlive it; a tick that
\* finds a worker in any other step is a stall and counts as a fault.
Stalled(w) ==
  \/ worker[w].pc \notin {"idle", "claim", "send"}
  \/ worker[w].pc = "send" /\ ~Bounded(worker[w].ev)

Tick ==
  /\ \A w \in Worker : worker[w].pc = "send" /\ Bounded(worker[w].ev) => worker[w].flight > 0
  /\ IF \E w \in Worker : Stalled(w)
     THEN faults < MaxFaults /\ faults' = faults + 1
     ELSE UNCHANGED faults
  /\ row' = [e \in Event |->
       IF row[e].status = "absent" THEN row[e]
       ELSE [row[e] EXCEPT !.lease = Less(@), !.wait = Less(@),
                           !.ttl = IF @ > -LeaseDuration THEN @ - 1 ELSE @]]
  /\ worker' = [w \in Worker |-> [worker[w] EXCEPT !.lease = Less(@), !.flight = Less(@)]]
  /\ UNCHANGED <<reminder, valid, accepted, sends>>

Step(w) ==
  \/ Maintain(w) \/ Claim(w) \/ Process(w) \/ Undecryptable(w) \/ Check(w) \/ Reject(w)
  \/ Begin(w) \/ CannotBegin(w) \/ Transport(w) \/ Settle(w) \/ Finally(w)

Next ==
  \/ \E e \in Event : Enqueue(e) \/ Supersede(e) \/ Reinstate(e)
  \/ \E w \in Worker : Step(w) \/ Raise(w) \/ Crash(w)
  \/ Tick

Spec == Init /\ [][Next]_vars

\* A worker process keeps polling and time keeps passing; faults are finite.
FairSpec == Spec /\ WF_vars(Tick) /\ \A w \in Worker : WF_vars(Step(w))

-----------------------------------------------------------------------------
(* Properties.                                                             *)

RowType == [status : {"absent", "pending", "claimed"} \cup Terminal, attempts : 0 .. MaxAttempts,
            owner : Worker \cup {NoWorker}, lease : 0 .. LeaseDuration, wait : Nat,
            ttl : -LeaseDuration .. TimeToLive, payload : BOOLEAN]

Steps == {"idle", "claim", "process", "check", "reject", "begin", "send", "settle", "finally"}

WorkerType == [pc : Steps, ev : Event \cup {NoEvent}, lease : 0 .. LeaseDuration, counted : BOOLEAN,
               result : {"none", "ok", "retryable", "final"}, processed : BOOLEAN,
               left : 0 .. BatchSize, flight : 0 .. TransportDeadline, wasValid : BOOLEAN]

\* Every variable keeps its type; attempt_count never passes max_attempts.
TypeOK ==
  /\ row \in [Event -> RowType]
  /\ reminder \in [Event -> {"none", "outbox", "sent", "failed"}]
  /\ valid \in [Event -> BOOLEAN]
  /\ worker \in [Worker -> WorkerType]
  /\ \A w \in Worker :
       /\ worker[w].pc \notin {"idle", "claim"} => worker[w].ev \in Event
       /\ worker[w].pc = "claim" => worker[w].left > 0
  /\ accepted \in [Event -> BOOLEAN]
  /\ sends \in [Event -> Nat]
  /\ faults \in 0 .. MaxFaults

\* No row waits in the queue that no claim can ever pick: a pending row has an
\* attempt left and still has its payload, whichever way it came back (release,
\* failure, stale lease).
PendingIsClaimable ==
  \A e \in Event : row[e].status = "pending" => row[e].attempts < MaxAttempts /\ row[e].payload

\* The encrypted secret is erased in exactly the transactions that close the row.
PayloadPurgedOnClose ==
  \A e \in Event : row[e].payload <=> row[e].status \in {"pending", "claimed"}

\* However workers crash between counting and sending, the transports started
\* for an event are counted in its row, so they never pass max_attempts.
SendsAreCounted == \A e \in Event : sends[e] <= row[e].attempts

\* Two workers never have the same e-mail or SMS in transport together: the
\* lease outlives the transport it was checked for.
OneTransportAtATime ==
  \A v, w \in Worker :
    /\ worker[v].pc = "send" /\ worker[w].pc = "send"
    /\ worker[v].ev = worker[w].ev /\ Bounded(worker[v].ev)
    => v = w

\* What a claim sends was right at some moment since that claim, whatever attempt
\* it is: a code, password or debt that was overtaken before and stayed so is not
\* sent (check_verification_state, _inspect).
NothingOvertakenIsSent ==
  \A w \in Worker :
    worker[w].pc = "send" /\ KindOf[worker[w].ev] # "notification" => worker[w].wasValid

\* expires_at is checked before the claim and not again before the transport: a
\* transport may run late, by less than the lease it began under.
LatenessIsBounded ==
  \A w \in Worker :
    worker[w].pc = "send" /\ Bounded(worker[w].ev) =>
      row[worker[w].ev].ttl > MinLeaseRemaining - LeaseDuration - TransportDeadline

\* The debt reminder a row carries tells the row's story: sent iff delivered,
\* failed iff the row ended otherwise.
ReminderFollowsRow ==
  \A e \in Event : KindOf[e] = "debt" =>
    /\ reminder[e] = "sent" <=> row[e].status = "delivered"
    /\ reminder[e] = "failed" <=> row[e].status \in {"failed", "expired"}

\* Every enqueued event reaches a final status while workers poll.
EveryEventCloses ==
  \A e \in Event : row[e].status = "pending" ~> row[e].status \in Terminal

-----------------------------------------------------------------------------
(* The inductive invariant behind the safety properties: what a row says,  *)
(* and what a worker in the middle of an event may rely on.                *)

Busy(w) == worker[w].pc \notin {"idle", "claim"}

RowInv(e) ==
  /\ row[e].payload <=> row[e].status \in {"pending", "claimed"}
  /\ row[e].status = "absent" => row[e].attempts = 0
  /\ row[e].status = "pending" => row[e].attempts < MaxAttempts
  /\ sends[e] = row[e].attempts
  /\ row[e].status = "delivered" => accepted[e]
  /\ KindOf[e] = "debt" =>
       /\ reminder[e] = "none" <=> row[e].status = "absent"
       /\ reminder[e] = "sent" <=> row[e].status = "delivered"
       /\ reminder[e] = "failed" <=> row[e].status \in {"failed", "expired"}

\* What holds of the claim, whoever has the row now.
ClaimInv(w, e) ==
  /\ row[e].status # "absent"
  /\ valid[e] => worker[w].wasValid
  /\ worker[w].pc \in {"process", "check", "reject", "begin"} => ~worker[w].counted
  /\ Holds(w, e) => row[e].lease = worker[w].lease
  /\ Holds(w, e) /\ ~worker[w].counted => row[e].attempts < MaxAttempts
  /\ Expires(e) => row[e].ttl > worker[w].lease - LeaseDuration \/ worker[w].lease = 0
  /\ worker[w].pc \in {"check", "reject"} => Expires(e)
  /\ worker[w].pc \in {"begin", "send"} /\ Expires(e) => worker[w].wasValid
  /\ worker[w].pc = "settle" /\ worker[w].result = "ok" => accepted[e]
  /\ worker[w].pc \in {"send", "settle"} => sends[e] > 0

\* What holds while the transport runs.
TransportInv(w, e) ==
  Bounded(e) =>
    /\ row[e].ttl > MinLeaseRemaining - LeaseDuration - TransportDeadline + worker[w].flight
    /\ row[e].status \in Terminal \/ (Holds(w, e) /\ row[e].lease > worker[w].flight)

\* The conjunction is kept by every step of every worker, tick and fault.
IInv ==
  /\ TypeOK
  /\ \A e \in Event : RowInv(e)
  /\ \A w \in Worker : Busy(w) => ClaimInv(w, worker[w].ev)
  /\ \A w \in Worker : worker[w].pc = "send" => TransportInv(w, worker[w].ev)
  /\ OneTransportAtATime

\* A row that leases and workers have stripped away is a message of
\* MessageLifecycle: closed once, attempted only while open, delivered only when
\* taken.
Lifecycle == INSTANCE MessageLifecycle WITH
  Message <- Event,
  Permanent <- {e \in Event : ~Expires(e)},
  phase <- [e \in Event |->
    IF row[e].status \in {"pending", "claimed"} THEN "open" ELSE row[e].status],
  tried <- sends,
  taken <- accepted

LifecycleSpec == Lifecycle!Spec

=============================================================================
