------------------------ MODULE OutboxDelivery_proofs ------------------------
(***************************************************************************)
(* For any events, workers, attempts, leases, deadlines and faults: the    *)
(* inductive invariant of OutboxDelivery and what follows from it.         *)
(***************************************************************************)
EXTENDS OutboxDelivery, TLAPS

LEMMA NatConstants ==
  /\ MaxAttempts \in Nat \ {0} /\ LeaseDuration \in Nat /\ MinLeaseRemaining \in Nat
  /\ TransportDeadline \in Nat /\ TimeToLive \in Nat \ {0} /\ BatchSize \in Nat \ {0} /\ MaxFaults \in Nat
  /\ TransportDeadline < MinLeaseRemaining /\ MinLeaseRemaining < LeaseDuration
  BY OutboxConstants

LEMMA Nobody == NoWorker \notin Worker /\ NoEvent \notin Event
  BY OutboxConstants

LEMMA BackoffType == Backoff \in [1 .. MaxAttempts -> Nat]
  BY OutboxConstants

LEMMA ZeroLease == 0 \in 0 .. LeaseDuration
  BY NatConstants

USE NatConstants, Nobody

LEMMA InitIInv == Init => IInv
<1> SUFFICES ASSUME Init PROVE IInv
  OBVIOUS
<1>1. TypeOK
  BY DEF Init, TypeOK, RowType, WorkerType, Idle, Steps, Terminal
<1>2. QED
  BY <1>1 DEF Init, IInv, RowInv, Busy, Idle, OneTransportAtATime, Kinds

-----------------------------------------------------------------------------
(* Records after one UPDATE keep their types, and the fields it leaves out *)

LEMMA RowFields ==
  ASSUME NEW r \in RowType, NEW status \in {"pending", "claimed"} \cup Terminal, NEW owner \in Worker \cup {NoWorker}
  PROVE  /\ [r EXCEPT !.status = status, !.owner = owner] \in RowType
         /\ \A n \in 0 .. LeaseDuration : [r EXCEPT !.lease = n] \in RowType
         /\ \A n \in Nat : [r EXCEPT !.wait = n] \in RowType
         /\ [r EXCEPT !.payload = FALSE] \in RowType
  BY DEF RowType, Terminal

LEMMA ReleasedFields ==
  ASSUME NEW r \in RowType
  PROVE  /\ Released(r) \in RowType
         /\ Released(r).status = "pending" /\ Released(r).owner = NoWorker /\ Released(r).ttl = r.ttl
         /\ Released(r).attempts = r.attempts /\ Released(r).payload = r.payload
<1>1. Released(r) = [[r EXCEPT !.status = "pending", !.owner = NoWorker] EXCEPT !.lease = 0]
  BY DEF Released
<1>2. Released(r) \in RowType
  <2>1. [r EXCEPT !.status = "pending", !.owner = NoWorker] \in RowType
    BY RowFields
  <2>2. QED
    BY <1>1, <2>1, RowFields, ZeroLease
<1>3. QED
  BY <1>2 DEF Released, RowType

LEMMA ClosedFields ==
  ASSUME NEW r \in RowType, NEW status \in Terminal
  PROVE  /\ Closed(r, status) \in RowType
         /\ Closed(r, status).status = status /\ Closed(r, status).owner = NoWorker
         /\ Closed(r, status).ttl = r.ttl /\ Closed(r, status).attempts = r.attempts
         /\ Closed(r, status).payload = FALSE
<1>1. Closed(r, status) =
        [[[r EXCEPT !.status = status, !.owner = NoWorker] EXCEPT !.lease = 0] EXCEPT !.payload = FALSE]
  BY DEF Closed
<1>2. Closed(r, status) \in RowType
  BY <1>1, RowFields, ZeroLease
<1>3. QED
  BY <1>2 DEF Closed, RowType

LEMMA FailureFields ==
  ASSUME NEW r \in RowType, NEW terminal \in BOOLEAN, terminal \/ r.attempts > 0
  PROVE  /\ AfterFailure(r, terminal) \in RowType
         /\ AfterFailure(r, terminal).status = IF terminal \/ r.attempts >= MaxAttempts THEN "failed" ELSE "pending"
         /\ AfterFailure(r, terminal).owner = NoWorker
         /\ AfterFailure(r, terminal).ttl = r.ttl /\ AfterFailure(r, terminal).attempts = r.attempts
         /\ AfterFailure(r, terminal).payload = IF terminal \/ r.attempts >= MaxAttempts THEN FALSE ELSE r.payload
<1>1. CASE terminal \/ r.attempts >= MaxAttempts
  BY <1>1, ClosedFields DEF AfterFailure, Terminal
<1>2. CASE ~(terminal \/ r.attempts >= MaxAttempts)
  <2>1. Backoff[r.attempts] \in Nat
    BY <1>2, BackoffType DEF RowType
  <2>2. [Released(r) EXCEPT !.wait = Backoff[r.attempts]] \in RowType
    BY <2>1, ReleasedFields, RowFields
  <2>3. QED
    BY <1>2, <2>2, ReleasedFields DEF AfterFailure, RowType
<1>3. QED
  BY <1>1, <1>2

LEMMA WorkerFields ==
  ASSUME NEW m \in WorkerType, NEW pc \in Steps, NEW b \in BOOLEAN
  PROVE  /\ [m EXCEPT !.pc = pc, !.processed = b] \in WorkerType
         /\ [m EXCEPT !.pc = pc] \in WorkerType
         /\ [m EXCEPT !.counted = b] \in WorkerType
         /\ \A n \in 0 .. TransportDeadline : [m EXCEPT !.flight = n] \in WorkerType
         /\ \A n \in 0 .. LeaseDuration : [m EXCEPT !.lease = n] \in WorkerType
         /\ \A x \in {"none", "ok", "retryable", "final"} : [m EXCEPT !.result = x] \in WorkerType
         /\ \A n \in 0 .. BatchSize : [m EXCEPT !.left = n] \in WorkerType
  BY DEF WorkerType

-----------------------------------------------------------------------------
(* A step of worker w at event e touches no other row and no other worker. *)

RowStep(w, e) ==
  \/ row' = row
  \/ /\ row[e].status = "pending" \/ Holds(w, e)
     /\ row'[e].status # "absent"
     /\ row'[e].owner \in {w, NoWorker}
     /\ row'[e].ttl = row[e].ttl
     /\ \A f \in Event \ {e} : row'[f] = row[f]

LocalStep(w, e) ==
  /\ RowStep(w, e)
  /\ \A v \in Worker \ {w} : worker'[v] = worker[v]
  /\ valid' = valid
  /\ \A f \in Event : (accepted[f] => accepted'[f]) /\ sends[f] <= sends'[f]
  /\ \A f \in Event \ {e} :
       reminder'[f] = reminder[f] /\ accepted'[f] = accepted[f] /\ sends'[f] = sends[f]

\* Another worker loses nothing by such a step: if w had the row, it had not.
LEMMA OthersKept ==
  ASSUME IInv, TypeOK', NEW w \in Worker, NEW e, LocalStep(w, e),
         NEW v \in Worker \ {w}
  PROVE  /\ Busy(v)' => ClaimInv(v, worker[v].ev)'
         /\ worker'[v].pc = "send" => TransportInv(v, worker[v].ev)'
<1> DEFINE f == worker[v].ev
<1>1. worker'[v] = worker[v]
  BY DEF LocalStep
<1>2. Busy(v) => f \in Event /\ ClaimInv(v, f) /\ (worker[v].pc = "send" => TransportInv(v, f))
  BY DEF IInv, TypeOK, Busy
<1>3. CASE ~Busy(v)
  BY <1>1, <1>3 DEF Busy
<1>4. CASE f \in Event /\ ClaimInv(v, f) /\ (worker[v].pc = "send" => TransportInv(v, f))
  <2> USE <1>4
  <2>1. valid'[f] = valid[f] /\ (accepted[f] => accepted'[f]) /\ sends[f] <= sends'[f]
    BY DEF LocalStep
  <2>2. CASE row'[f] = row[f]
    <3>1. ClaimInv(v, f)'
      BY <1>1, <2>1, <2>2 DEF ClaimInv, Holds, IInv, TypeOK
    <3>2. worker'[v].pc = "send" => TransportInv(v, f)'
      BY <1>1, <2>1, <2>2 DEF TransportInv, Holds
    <3>3. QED
      BY <1>1, <3>1, <3>2
  <2>3. CASE /\ f = e
             /\ row[e].status = "pending" \/ Holds(w, e)
             /\ row'[e].status # "absent"
             /\ row'[e].owner \in {w, NoWorker}
             /\ row'[e].ttl = row[e].ttl
    <3>1. ~Holds(v, f) /\ ~Holds(v, f)' /\ row[f].status \notin Terminal
      BY <1>1, <2>3 DEF Holds, Terminal
    <3>2. ClaimInv(v, f)'
      BY <1>1, <2>1, <2>3, <3>1 DEF ClaimInv, IInv, TypeOK
    <3>3. worker'[v].pc = "send" => TransportInv(v, f)'
      BY <1>1, <2>1, <2>3, <3>1 DEF TransportInv
    <3>4. QED
      BY <1>1, <3>2, <3>3
  <2>4. QED
    BY <2>2, <2>3 DEF LocalStep, RowStep
<1>5. QED
  BY <1>2, <1>3, <1>4

\* So a local step that leaves w out of the transport keeps the invariant if it
\* keeps the types, the row's own invariant and w's view of its claim.
LEMMA LocalKept ==
  ASSUME IInv, TypeOK', NEW w \in Worker, NEW e, LocalStep(w, e), e \in Event => RowInv(e)',
         worker'[w].pc # "send", Busy(w)' => ClaimInv(w, worker[w].ev)'
  PROVE  IInv'
<1>1. \A f \in Event : RowInv(f)'
  BY DEF IInv, RowInv, LocalStep, RowStep
<1>2. \A v \in Worker : Busy(v)' => ClaimInv(v, worker[v].ev)'
  BY OthersKept
<1>3. \A v \in Worker : worker'[v].pc = "send" => TransportInv(v, worker[v].ev)'
  BY OthersKept
<1>4. OneTransportAtATime'
  BY DEF IInv, OneTransportAtATime, LocalStep, Bounded
<1>5. QED
  BY <1>1, <1>2, <1>3, <1>4 DEF IInv

-----------------------------------------------------------------------------
(* The two ways a worker writes the row it claimed: settle it, or give the *)
(* claim back.  Either does nothing when the row is no longer the worker's *)

RowTypes == row \in [Event -> RowType] /\ reminder \in [Event -> {"none", "outbox", "sent", "failed"}]

OwnRow(w, e) ==
  /\ RowTypes'
  /\ RowStep(w, e)
  /\ RowInv(e)'
  /\ \A f \in Event \ {e} : reminder'[f] = reminder[f]
  /\ row' = row \/ ~Holds(w, e)'

Follows(reminderStatus, status) ==
  \/ reminderStatus = "outbox" /\ status = "pending"
  \/ reminderStatus = "sent" /\ status = "delivered"
  \/ reminderStatus = "failed" /\ status \in {"failed", "expired"}

LEMMA SettledRow ==
  ASSUME IInv, NEW w \in Worker, NEW e \in Event, NEW guard, NEW r, NEW rs,
         Settled(e, guard, r, rs), accepted' = accepted, sends' = sends,
         guard => /\ Holds(w, e)
                  /\ r \in RowType
                  /\ r.ttl = row[e].ttl /\ r.attempts = row[e].attempts /\ r.owner = NoWorker
                  /\ r.status \in {"pending"} \cup Terminal
                  /\ r.payload <=> r.status = "pending"
                  /\ r.status = "pending" => r.attempts < MaxAttempts
                  /\ r.status = "delivered" => accepted[e]
                  /\ KindOf[e] = "debt" => Follows(rs, r.status)
  PROVE  OwnRow(w, e)
<1>1. CASE ~guard
  BY <1>1 DEF Settled, OwnRow, RowTypes, RowStep, RowInv, IInv, TypeOK
<1>2. CASE guard
  <2>1. /\ row'[e] = r
        /\ \A f \in Event \ {e} : row'[f] = row[f] /\ reminder'[f] = reminder[f]
        /\ row' \in [Event -> RowType]
    BY <1>2 DEF Settled, IInv, TypeOK
  <2>2. reminder' \in [Event -> {"none", "outbox", "sent", "failed"}]
    BY <1>2 DEF Settled, IInv, TypeOK, Follows
  <2>3. RowStep(w, e)
    BY <1>2, <2>1 DEF RowStep, Terminal
  <2>4. RowInv(e)'
    <3>1. KindOf[e] = "debt" => reminder'[e] = rs
      BY <1>2 DEF Settled, IInv, TypeOK
    <3>2. sends'[e] = row'[e].attempts
      BY <1>2, <2>1 DEF IInv, RowInv
    <3>3. QED
      BY <1>2, <2>1, <3>1, <3>2 DEF RowInv, Terminal, Follows
  <2>5. ~Holds(w, e)'
    BY <1>2, <2>1 DEF Holds
  <2>6. QED
    BY <2>1, <2>2, <2>3, <2>4, <2>5 DEF OwnRow, RowTypes
<1>3. QED
  BY <1>1, <1>2

LEMMA ReleasedRow ==
  ASSUME IInv, NEW w \in Worker, Busy(w), ~worker[w].counted,
         NEW e, e = worker[w].ev, ReleaseClaim(w, e),
         reminder' = reminder, accepted' = accepted, sends' = sends
  PROVE  OwnRow(w, e)
<1>1. e \in Event /\ ClaimInv(w, e) /\ RowInv(e)
  BY DEF IInv, TypeOK, Busy
<1>2. CASE ~Holds(w, e)
  BY <1>1, <1>2 DEF ReleaseClaim, OwnRow, RowTypes, RowStep, RowInv, IInv, TypeOK
<1>3. CASE Holds(w, e)
  <2> Released(row[e]) \in RowType
    BY <1>1, ReleasedFields DEF IInv, TypeOK
  <2>1. /\ row'[e] = Released(row[e])
        /\ \A f \in Event \ {e} : row'[f] = row[f] /\ reminder'[f] = reminder[f]
        /\ row' \in [Event -> RowType]
    BY <1>1, <1>3 DEF ReleaseClaim, IInv, TypeOK
  <2>2. row'[e].status = "pending" /\ row'[e].owner = NoWorker /\ row'[e].ttl = row[e].ttl
        /\ row'[e].attempts = row[e].attempts /\ row'[e].payload = row[e].payload
    BY <2>1, <1>1, ReleasedFields DEF IInv, TypeOK
  <2>3. RowStep(w, e)
    BY <1>3, <2>1, <2>2 DEF RowStep
  <2>4. RowInv(e)'
    BY <1>1, <1>3, <2>2 DEF RowInv, ClaimInv, Holds
  <2>5. ~Holds(w, e)'
    BY <2>2 DEF Holds
  <2>6. QED
    BY <2>1, <2>3, <2>4, <2>5 DEF OwnRow, RowTypes, IInv, TypeOK
<1>4. QED
  BY <1>2, <1>3

\* Once its row is written, the worker leaves through the finally clause.
LEMMA FinishKept ==
  ASSUME IInv, NEW w \in Worker, Busy(w), NEW processed \in BOOLEAN, Finish(w, processed),
         NEW e, e = worker[w].ev, OwnRow(w, e), UNCHANGED <<valid, accepted, sends, faults>>
  PROVE  IInv'
<1>1. e \in Event /\ ClaimInv(w, e)
  BY DEF IInv, TypeOK, Busy
<1>2. worker \in [Worker -> WorkerType]
  BY DEF IInv, TypeOK
<1>3. /\ worker'[w] = [worker[w] EXCEPT !.pc = "finally", !.processed = processed]
      /\ \A v \in Worker \ {w} : worker'[v] = worker[v]
      /\ worker' \in [Worker -> WorkerType]
  BY <1>2, WorkerFields DEF Finish, Steps
<1>4. /\ worker'[w].pc = "finally" /\ worker'[w].ev = e /\ worker'[w].lease = worker[w].lease
      /\ worker'[w].counted = worker[w].counted /\ worker'[w].wasValid = worker[w].wasValid
  BY <1>2, <1>3 DEF WorkerType
<1>5. TypeOK'
  <2>1. \A v \in Worker : /\ worker'[v].pc \notin {"idle", "claim"} => worker'[v].ev \in Event
                          /\ worker'[v].pc = "claim" => worker'[v].left > 0
    BY <1>1, <1>3, <1>4 DEF IInv, TypeOK
  <2>2. QED
    BY <1>3, <2>1 DEF IInv, TypeOK, OwnRow, RowTypes
<1>6. LocalStep(w, e)
  BY <1>3 DEF LocalStep, OwnRow, IInv, TypeOK
<1>7. ClaimInv(w, worker[w].ev)'
  <2>1. row'[e].ttl = row[e].ttl /\ row'[e].status # "absent"
    BY <1>1 DEF OwnRow, RowStep, ClaimInv
  <2>2. Holds(w, e)' => Holds(w, e) /\ row' = row
    BY <1>4 DEF OwnRow, Holds
  <2>3. QED
    BY <1>1, <1>4, <2>1, <2>2 DEF ClaimInv
<1>8. QED
  BY <1>1, <1>4, <1>5, <1>6, <1>7, LocalKept DEF OwnRow

-----------------------------------------------------------------------------
(* One lemma per action of a worker.                                       *)

LEMMA Finished ==
  ASSUME IInv, NEW w \in Worker, worker[w].pc \in {"process", "begin"}, NEW e, e = worker[w].ev,
         ReleaseClaim(w, e), Finish(w, FALSE), UNCHANGED <<reminder, valid, accepted, sends, faults>>
  PROVE  IInv'
<1>1. Busy(w) /\ ~worker[w].counted
  BY DEF Busy, IInv, ClaimInv
<1>2. OwnRow(w, e)
  BY <1>1, ReleasedRow
<1>3. QED
  BY <1>1, <1>2, FinishKept

\* A row closed while the worker holds it.
LEMMA ClosedKept ==
  ASSUME IInv, NEW w \in Worker, Busy(w), NEW e, e = worker[w].ev, NEW guard, NEW status \in Terminal, NEW rs,
         Settled(e, guard, Closed(row[e], status), rs), Finish(w, TRUE),
         guard => Holds(w, e), Follows(rs, status), status = "delivered" => accepted[e],
         UNCHANGED <<valid, accepted, sends, faults>>
  PROVE  IInv'
<1>1. e \in Event /\ row[e] \in RowType
  BY DEF IInv, TypeOK, Busy
<1>2. OwnRow(w, e)
  BY <1>1, ClosedFields, SettledRow DEF Terminal
<1>3. QED
  BY <1>2, FinishKept

LEMMA FailedKept ==
  ASSUME IInv, NEW w \in Worker, Busy(w), NEW e, e = worker[w].ev, NEW terminal \in BOOLEAN,
         MarkFailed(w, e, terminal), Finish(w, TRUE),
         terminal \/ row[e].attempts > 0,
         KindOf[e] = "debt" /\ row[e].attempts >= MaxAttempts => terminal,
         UNCHANGED <<valid, accepted, sends, faults>>
  PROVE  IInv'
<1>1. e \in Event /\ row[e] \in RowType /\ RowInv(e)
  BY DEF IInv, TypeOK, Busy
<1>2. Holds(w, e) => row[e].payload
  BY <1>1 DEF Holds, RowInv
<1> DEFINE r == AfterFailure(row[e], terminal)
           rs == IF terminal THEN "failed" ELSE "outbox"
<1>3. /\ r \in RowType /\ r.owner = NoWorker /\ r.ttl = row[e].ttl /\ r.attempts = row[e].attempts
      /\ r.status = IF terminal \/ row[e].attempts >= MaxAttempts THEN "failed" ELSE "pending"
      /\ r.payload = IF terminal \/ row[e].attempts >= MaxAttempts THEN FALSE ELSE row[e].payload
  BY <1>1, FailureFields
<1>4. row[e].attempts \in Nat
  BY <1>1 DEF RowType
<1>5. Holds(w, e) => /\ r.status \in {"pending"} \cup Terminal
                     /\ r.payload <=> r.status = "pending"
                     /\ r.status = "pending" => r.attempts < MaxAttempts
                     /\ r.status # "delivered"
                     /\ KindOf[e] = "debt" => Follows(rs, r.status)
  BY <1>2, <1>3, <1>4 DEF Terminal, Follows
<1>6. Settled(e, HoldsLease(w, e), r, rs)
  BY DEF MarkFailed
<1>7. OwnRow(w, e)
  <2> HIDE DEF r, rs
  <2>1. HoldsLease(w, e) => Holds(w, e)
    BY DEF HoldsLease
  <2>2. QED
    BY <1>1, <1>3, <1>5, <1>6, <2>1, SettledRow
<1>8. QED
  BY <1>7, FinishKept

\* The worker moves on to the next check without writing anything.
LEMMA GotoKept ==
  ASSUME IInv, NEW w \in Worker, worker[w].pc \in {"process", "check"}, NEW e, e = worker[w].ev,
         NEW pc \in {"check", "begin", "reject"}, Goto(w, pc),
         pc = "begin" /\ Expires(e) => worker[w].wasValid, pc # "begin" => Expires(e),
         UNCHANGED <<row, reminder, valid, accepted, sends, faults>>
  PROVE  IInv'
<1>1. e \in Event /\ ClaimInv(w, e) /\ RowInv(e) /\ worker[w] \in WorkerType
  BY DEF IInv, TypeOK, Busy
<1>2. /\ worker'[w] = [worker[w] EXCEPT !.pc = pc]
      /\ \A v \in Worker \ {w} : worker'[v] = worker[v]
      /\ worker' \in [Worker -> WorkerType]
  BY <1>1, WorkerFields DEF Goto, Steps, IInv, TypeOK
<1>3. /\ worker'[w].pc = pc /\ worker'[w].ev = e /\ worker'[w].lease = worker[w].lease
      /\ worker'[w].counted = worker[w].counted /\ worker'[w].wasValid = worker[w].wasValid
  BY <1>1, <1>2 DEF WorkerType
<1>4. TypeOK'
  BY <1>1, <1>2, <1>3 DEF IInv, TypeOK
<1>5. LocalStep(w, e)
  BY <1>2 DEF LocalStep, RowStep, IInv, TypeOK
<1>6. RowInv(e)'
  BY <1>1 DEF RowInv
<1>7. ClaimInv(w, worker[w].ev)'
  BY <1>1, <1>3 DEF ClaimInv, Holds
<1>8. QED
  BY <1>3, <1>4, <1>5, <1>6, <1>7, LocalKept

LEMMA ProcessKept ==
  ASSUME IInv, NEW w \in Worker, Process(w) \/ Undecryptable(w)
  PROVE  IInv'
<1> DEFINE e == worker[w].ev
<1>1. worker[w].pc = "process" /\ Busy(w) /\ UNCHANGED <<valid, accepted, sends, faults>>
  BY DEF Process, Undecryptable, Busy
<1>2. CASE MarkExpired(w, e, HoldsLease(w, e)) /\ Finish(w, TRUE)
  BY <1>1, <1>2, ClosedKept DEF MarkExpired, HoldsLease, Follows, Terminal
<1>3. CASE ReleaseClaim(w, e) /\ Finish(w, FALSE) /\ UNCHANGED reminder
  BY <1>1, <1>3, Finished
<1>4. CASE Goto(w, IF KindOf[e] = "notification" THEN "begin" ELSE "check") /\ UNCHANGED <<row, reminder>>
  BY <1>1, <1>4, GotoKept DEF Expires
<1>5. CASE MarkFailed(w, e, TRUE) /\ Finish(w, TRUE)
  BY <1>1, <1>5, FailedKept
<1>6. QED
  BY <1>2, <1>3, <1>4, <1>5 DEF Process, Undecryptable

LEMMA CheckKept ==
  ASSUME IInv, NEW w \in Worker, Check(w)
  PROVE  IInv'
<1> DEFINE e == worker[w].ev
<1>1. Busy(w) /\ worker[w].pc = "check"
  BY DEF Check, Busy
<1>2. (valid[e] => worker[w].wasValid) /\ Expires(e)
  BY <1>1 DEF IInv, ClaimInv
<1>3. QED
  BY <1>1, <1>2, GotoKept DEF Check

LEMMA RejectKept ==
  ASSUME IInv, NEW w \in Worker, Reject(w)
  PROVE  IInv'
<1> DEFINE e == worker[w].ev
           guard == IF KindOf[e] = "email" THEN Holds(w, e) ELSE HoldsLease(w, e)
<1>1. Busy(w)
  BY DEF Reject, Busy
<1>2. guard => Holds(w, e)
  BY DEF HoldsLease
<1>3. Settled(e, guard, Closed(row[e], "expired"), "failed") /\ Finish(w, TRUE)
  BY DEF Reject, MarkExpired
<1>4. QED
  <2> HIDE DEF guard
  <2>1. QED
    BY <1>1, <1>2, <1>3, ClosedKept DEF Reject, Follows, Terminal

LEMMA SettleKept ==
  ASSUME IInv, NEW w \in Worker, Settle(w)
  PROVE  IInv'
<1> DEFINE e == worker[w].ev
           terminal == KindOf[e] # "notification" /\ (worker[w].result = "final" \/ row[e].attempts >= MaxAttempts)
<1>1. Busy(w) /\ worker[w].pc = "settle" /\ Finish(w, TRUE) /\ UNCHANGED <<valid, accepted, sends, faults>>
  BY DEF Settle, Busy
<1>2. /\ worker[w].result = "ok" => accepted[e]
      /\ row[e].attempts > 0
  BY <1>1 DEF IInv, TypeOK, ClaimInv, RowInv, Busy
<1>3. CASE worker[w].result = "ok"
  BY <1>1, <1>2, <1>3, ClosedKept DEF Settle, MarkDelivered, HoldsLease, Follows, Terminal
<1>4. CASE worker[w].result # "ok"
  <2>1. MarkFailed(w, e, terminal)
    BY <1>4 DEF Settle
  <2>2. KindOf[e] = "debt" /\ row[e].attempts >= MaxAttempts => terminal
    OBVIOUS
  <2>3. terminal \in BOOLEAN
    OBVIOUS
  <2> HIDE DEF terminal
  <2>4. QED
    BY <1>1, <1>2, <2>1, <2>2, <2>3, FailedKept
<1>5. QED
  BY <1>3, <1>4

LEMMA TransportKept ==
  ASSUME IInv, NEW w \in Worker, Transport(w)
  PROVE  IInv'
<1> DEFINE e == worker[w].ev
<1>1. PICK took \in BOOLEAN, result \in {"ok", "retryable", "final"} :
        /\ result = "ok" => took
        /\ accepted' = [accepted EXCEPT ![e] = @ \/ took]
        /\ worker' = [worker EXCEPT ![w].pc = "settle", ![w].result = result, ![w].flight = 0]
  BY DEF Transport
<1>2. worker[w].pc = "send" /\ Busy(w) /\ UNCHANGED <<row, reminder, valid, sends, faults>>
  BY DEF Transport, Busy
<1>3. e \in Event /\ ClaimInv(w, e) /\ RowInv(e) /\ worker[w] \in WorkerType
  BY <1>2 DEF IInv, TypeOK, Busy
<1> DEFINE m == [[[worker[w] EXCEPT !.pc = "settle"] EXCEPT !.result = result] EXCEPT !.flight = 0]
<1>4. /\ m \in WorkerType
      /\ m.pc = "settle" /\ m.ev = e /\ m.lease = worker[w].lease /\ m.result = result
      /\ m.counted = worker[w].counted /\ m.wasValid = worker[w].wasValid
  <2>1. "settle" \in Steps /\ 0 \in 0 .. TransportDeadline
    BY DEF Steps
  <2>2. m \in WorkerType
    BY <1>3, <2>1, WorkerFields
  <2>3. QED
    BY <1>3, <2>2 DEF WorkerType
<1>5. /\ worker'[w] = m
      /\ \A v \in Worker \ {w} : worker'[v] = worker[v]
      /\ worker' \in [Worker -> WorkerType]
  BY <1>1, <1>4 DEF IInv, TypeOK
<1>6. /\ accepted' \in [Event -> BOOLEAN]
      /\ \A f \in Event : accepted[f] => accepted'[f]
      /\ \A f \in Event \ {e} : accepted'[f] = accepted[f]
      /\ result = "ok" => accepted'[e]
  BY <1>1, <1>3 DEF IInv, TypeOK
<1> HIDE DEF m
<1>7. TypeOK'
  BY <1>2, <1>3, <1>4, <1>5, <1>6 DEF IInv, TypeOK
<1>8. LocalStep(w, e)
  BY <1>2, <1>5, <1>6 DEF LocalStep, RowStep, IInv, TypeOK
<1>9. ClaimInv(w, worker[w].ev)'
  BY <1>2, <1>3, <1>4, <1>5, <1>6 DEF ClaimInv, Holds
<1>10. \A f : f = e => RowInv(f)'
  BY <1>2, <1>3, <1>6 DEF RowInv
<1>11. QED
  BY <1>4, <1>5, <1>7, <1>8, <1>9, <1>10, LocalKept

LEMMA ClaimKept ==
  ASSUME IInv, NEW w \in Worker, Claim(w)
  PROVE  IInv'
<1>1. worker[w].pc = "claim" /\ worker[w].left \in 1 .. BatchSize
      /\ UNCHANGED <<reminder, valid, accepted, sends, faults>>
  <2>1. worker[w].pc = "claim" /\ worker[w].left > 0 /\ worker[w] \in WorkerType
    BY DEF Claim, IInv, TypeOK
  <2>2. worker[w].left \in 0 .. BatchSize
    BY <2>1 DEF WorkerType
  <2>3. worker[w].left \in 1 .. BatchSize
    BY <2>1, <2>2
  <2>4. UNCHANGED <<reminder, valid, accepted, sends, faults>>
    BY DEF Claim
  <2>5. QED
    BY <2>1, <2>3, <2>4
<1>2. ASSUME NEW e \in Event, Claimable(e),
             row' = [row EXCEPT ![e].status = "claimed", ![e].owner = w, ![e].lease = LeaseDuration],
             worker' = [worker EXCEPT ![w] =
               [Idle EXCEPT !.pc = "process", !.ev = e, !.lease = LeaseDuration,
                            !.left = worker[w].left - 1, !.wasValid = valid[e]]]
      PROVE  IInv'
  <2> DEFINE m == [pc |-> "process", ev |-> e, lease |-> LeaseDuration, counted |-> FALSE, result |-> "none",
                   processed |-> FALSE, left |-> worker[w].left - 1, flight |-> 0, wasValid |-> valid[e]]
             r == [[row[e] EXCEPT !.status = "claimed", !.owner = w] EXCEPT !.lease = LeaseDuration]
  <2>1. m \in WorkerType
    BY <1>1 DEF WorkerType, Steps, IInv, TypeOK
  <2>2. /\ worker'[w] = m
        /\ \A v \in Worker \ {w} : worker'[v] = worker[v]
        /\ worker' \in [Worker -> WorkerType]
    BY <1>2, <2>1 DEF Idle, IInv, TypeOK
  <2>3. row[e] \in RowType /\ RowInv(e)
    BY DEF IInv, TypeOK
  <2>4. r \in RowType
    <3>1. [row[e] EXCEPT !.status = "claimed", !.owner = w] \in RowType
      BY <2>3, RowFields
    <3>2. LeaseDuration \in 0 .. LeaseDuration
      OBVIOUS
    <3>3. \A x \in RowType : [x EXCEPT !.lease = LeaseDuration] \in RowType
      BY <3>2 DEF RowType
    <3>4. QED
      BY <3>1, <3>3
  <2>5. /\ r.status = "claimed" /\ r.owner = w /\ r.lease = LeaseDuration /\ r.ttl = row[e].ttl
        /\ r.attempts = row[e].attempts /\ r.payload = row[e].payload
    BY <2>3, <2>4 DEF RowType
  <2>6. row'[e] = r /\ row' \in [Event -> RowType] /\ \A f \in Event \ {e} : row'[f] = row[f]
    BY <1>2, <2>4 DEF IInv, TypeOK
  <2> HIDE DEF m, r
  <2>7. worker'[w].pc = "process" /\ worker'[w].ev = e /\ worker'[w].lease = LeaseDuration
        /\ worker'[w].counted = FALSE /\ worker'[w].wasValid = valid[e]
    BY <2>2 DEF m
  <2>8. TypeOK'
    BY <1>1, <2>2, <2>6, <2>7 DEF IInv, TypeOK
  <2>9. LocalStep(w, e)
    BY <1>1, <1>2, <2>2, <2>5, <2>6 DEF LocalStep, RowStep, Claimable, IInv, TypeOK
  <2>10. RowInv(e)'
    BY <1>1, <1>2, <2>3, <2>5, <2>6 DEF RowInv, Claimable
  <2>11. ClaimInv(w, e)'
    <3>1. Expires(e) => row'[e].ttl > 0
      BY <1>2, <2>5, <2>6 DEF Claimable
    <3>2. row'[e].attempts < MaxAttempts
      BY <1>2, <2>5, <2>6 DEF Claimable
    <3>3. QED
      BY <1>1, <2>5, <2>6, <2>7, <3>1, <3>2 DEF ClaimInv
  <2>12. QED
    BY <2>7, <2>8, <2>9, <2>10, <2>11, LocalKept
<1>3. CASE worker' = [worker EXCEPT ![w] = Idle] /\ row' = row
  <2>1. Idle \in WorkerType /\ Idle.pc = "idle"
    BY DEF Idle, WorkerType, Steps
  <2>2. /\ worker'[w] = Idle
        /\ \A v \in Worker \ {w} : worker'[v] = worker[v]
        /\ worker' \in [Worker -> WorkerType]
    BY <1>3, <2>1 DEF IInv, TypeOK
  <2>3. TypeOK'
    BY <1>1, <1>3, <2>1, <2>2 DEF IInv, TypeOK
  <2>4. LocalStep(w, NoEvent)
    BY <1>1, <1>3, <2>2 DEF LocalStep, RowStep, IInv, TypeOK
  <2>5. QED
    BY <2>1, <2>2, <2>3, <2>4, LocalKept DEF Busy
<1>4. QED
  BY <1>2, <1>3 DEF Claim

LEMMA BeginKept ==
  ASSUME IInv, NEW w \in Worker, Begin(w)
  PROVE  IInv'
<1>1. PICK e \in Event : e = worker[w].ev
  BY DEF Begin, IInv, TypeOK
<1>2. /\ worker[w].pc = "begin" /\ Busy(w) /\ MayBegin(w, e)
      /\ UNCHANGED <<reminder, valid, accepted, faults>>
  BY <1>1 DEF Begin, Busy
<1>3. ClaimInv(w, e) /\ RowInv(e) /\ worker[w] \in WorkerType /\ row[e] \in RowType /\ sends[e] \in Nat
  BY <1>1, <1>2 DEF IInv, TypeOK
<1> DEFINE m == [[[worker[w] EXCEPT !.pc = "send"] EXCEPT !.counted = TRUE] EXCEPT !.flight = TransportDeadline]
           r == [row[e] EXCEPT !.attempts = @ + 1]
<1>4. /\ m \in WorkerType
      /\ m.pc = "send" /\ m.ev = e /\ m.lease = worker[w].lease /\ m.counted = TRUE
      /\ m.flight = TransportDeadline /\ m.wasValid = worker[w].wasValid
  <2>1. "send" \in Steps /\ TransportDeadline \in 0 .. TransportDeadline /\ TRUE \in BOOLEAN
    BY DEF Steps
  <2>2. m \in WorkerType
    BY <1>3, <2>1, WorkerFields
  <2>3. QED
    BY <1>1, <1>3, <2>2 DEF WorkerType
<1>5. /\ worker'[w] = m
      /\ \A v \in Worker \ {w} : worker'[v] = worker[v]
      /\ worker' \in [Worker -> WorkerType]
  BY <1>4 DEF Begin, IInv, TypeOK
<1>6. /\ r \in RowType
      /\ r.attempts = row[e].attempts + 1 /\ r.status = row[e].status /\ r.owner = row[e].owner
      /\ r.lease = row[e].lease /\ r.ttl = row[e].ttl /\ r.payload = row[e].payload
  BY <1>2, <1>3 DEF RowType, MayBegin
<1>7. row'[e] = r /\ row' \in [Event -> RowType] /\ \A f \in Event \ {e} : row'[f] = row[f]
  BY <1>1, <1>6 DEF Begin, IInv, TypeOK
<1>8. sends'[e] = sends[e] + 1 /\ sends' \in [Event -> Nat] /\ \A f \in Event \ {e} : sends'[f] = sends[f]
  BY <1>1 DEF Begin, IInv, TypeOK
<1> HIDE DEF m, r
<1>9. TypeOK'
  BY <1>1, <1>2, <1>4, <1>5, <1>7, <1>8 DEF IInv, TypeOK
<1>10. Holds(w, e) /\ Holds(w, e)'
  BY <1>2, <1>6, <1>7 DEF MayBegin, Holds
<1>11. LocalStep(w, e)
  BY <1>2, <1>3, <1>5, <1>6, <1>7, <1>8, <1>10 DEF LocalStep, RowStep, Holds, IInv, TypeOK
<1>12. \A f \in Event : RowInv(f)'
  <2>1. RowInv(e)'
    BY <1>2, <1>3, <1>6, <1>7, <1>8, <1>10 DEF RowInv, Holds
  <2>2. \A f \in Event \ {e} : RowInv(f)'
    BY <1>2, <1>7, <1>8 DEF RowInv, IInv
  <2>3. QED
    BY <2>1, <2>2
<1>13. ClaimInv(w, e)'
  BY <1>2, <1>3, <1>4, <1>5, <1>6, <1>7, <1>8, <1>10 DEF ClaimInv, Holds, MayBegin
<1>14. TransportInv(w, e)'
  <2>1. row[e].lease = worker[w].lease /\ row[e].lease > MinLeaseRemaining
    BY <1>2, <1>3, <1>10 DEF ClaimInv, MayBegin
  <2>2. Expires(e) => row[e].ttl > MinLeaseRemaining - LeaseDuration
    BY <1>3, <2>1 DEF ClaimInv, RowType, WorkerType
  <2>3. QED
    BY <1>3, <1>4, <1>5, <1>6, <1>7, <1>10, <2>1, <2>2 DEF TransportInv, Expires, Bounded, RowType
<1>15. OneTransportAtATime'
  <2>1. ASSUME NEW v \in Worker \ {w}, worker[v].pc = "send", worker[v].ev = e, Bounded(e)
        PROVE  FALSE
    <3>1. row[e].status \in Terminal \/ Holds(v, e)
      BY <2>1 DEF IInv, TransportInv
    <3>2. QED
      BY <1>10, <3>1 DEF Holds, Terminal
  <2>2. QED
    BY <1>4, <1>5, <2>1 DEF IInv, OneTransportAtATime, Bounded
<1>16. \A v \in Worker : /\ Busy(v)' => ClaimInv(v, worker[v].ev)'
                         /\ worker'[v].pc = "send" => TransportInv(v, worker[v].ev)'
  BY <1>4, <1>5, <1>9, <1>11, <1>13, <1>14, OthersKept
<1>17. QED
  BY <1>9, <1>12, <1>15, <1>16 DEF IInv

LEMMA CannotBeginKept ==
  ASSUME IInv, NEW w \in Worker, CannotBegin(w)
  PROVE  IInv'
  BY Finished DEF CannotBegin

LEMMA FinallyKept ==
  ASSUME IInv, NEW w \in Worker, Finally(w)
  PROVE  IInv'
<1>1. PICK e \in Event : e = worker[w].ev
  BY DEF Finally, IInv, TypeOK
<1>2. Busy(w) /\ worker[w] \in WorkerType /\ UNCHANGED <<reminder, valid, accepted, sends, faults>>
  BY DEF Finally, Busy, IInv, TypeOK
<1>3. OwnRow(w, e)
  <2>1. CASE worker[w].counted
    BY <1>1, <1>2, <2>1 DEF Finally, OwnRow, RowTypes, RowStep, RowInv, IInv, TypeOK
  <2>2. CASE ~worker[w].counted
    BY <1>1, <1>2, <2>2, ReleasedRow DEF Finally
  <2>3. QED
    BY <2>1, <2>2
<1> DEFINE more == [[Idle EXCEPT !.pc = "claim"] EXCEPT !.left = worker[w].left]
<1>4. \E m \in WorkerType :
        /\ worker'[w] = m
        /\ m.pc \in {"idle", "claim"}
        /\ m.pc = "claim" => m.left > 0
  <2>1. Idle \in WorkerType /\ Idle.pc = "idle"
    BY DEF Idle, WorkerType, Steps
  <2>2. more \in WorkerType /\ more.pc = "claim" /\ more.left = worker[w].left
    <3>1. "claim" \in Steps /\ worker[w].left \in 0 .. BatchSize
      BY <1>2 DEF Steps, WorkerType
    <3>2. more \in WorkerType
      BY <2>1, <3>1, WorkerFields
    <3>3. QED
      BY <2>1, <3>2 DEF WorkerType
  <2>3. worker'[w] = IF worker[w].processed /\ worker[w].left > 0 THEN more ELSE Idle
    <3>1. worker \in [Worker -> WorkerType]
      BY DEF IInv, TypeOK
    <3>2. QED
      BY <3>1 DEF Finally
  <2> HIDE DEF more
  <2>4. CASE worker[w].processed /\ worker[w].left > 0
    BY <2>2, <2>3, <2>4
  <2>5. CASE ~(worker[w].processed /\ worker[w].left > 0)
    BY <2>1, <2>3, <2>5
  <2>6. QED
    BY <2>4, <2>5
<1>5. \A v \in Worker \ {w} : worker'[v] = worker[v]
  BY DEF Finally, IInv, TypeOK
<1>6. worker' \in [Worker -> WorkerType]
  BY <1>4 DEF Finally, IInv, TypeOK
<1>7. TypeOK'
  BY <1>2, <1>3, <1>4, <1>5, <1>6 DEF IInv, TypeOK, OwnRow, RowTypes
<1>8. LocalStep(w, e)
  BY <1>2, <1>3, <1>5 DEF LocalStep, OwnRow, IInv, TypeOK
<1>9. QED
  BY <1>3, <1>4, <1>7, <1>8, LocalKept DEF OwnRow, Busy

\* Maintenance may take any row from its holder, but never a row whose lease
\* runs unless it has expired.
LEMMA MaintainKept ==
  ASSUME IInv, NEW w \in Worker, Maintain(w)
  PROVE  IInv'
<1>1. /\ worker[w].pc = "idle" /\ worker[w] \in WorkerType
      /\ UNCHANGED <<valid, accepted, sends, faults>>
  BY DEF Maintain, IInv, TypeOK
<1> DEFINE m == [[worker[w] EXCEPT !.pc = "claim"] EXCEPT !.left = BatchSize]
<1>2. m \in WorkerType /\ m.pc = "claim" /\ m.left = BatchSize
  <2>1. "claim" \in Steps /\ BatchSize \in 0 .. BatchSize
    BY DEF Steps
  <2>2. m \in WorkerType
    BY <1>1, <2>1, WorkerFields
  <2>3. QED
    BY <1>1, <2>2 DEF WorkerType
<1>3. /\ worker'[w] = m
      /\ \A v \in Worker \ {w} : worker'[v] = worker[v]
      /\ worker' \in [Worker -> WorkerType]
  BY <1>2 DEF Maintain, IInv, TypeOK
<1> HIDE DEF m
<1>4. ASSUME NEW e \in Event
      PROVE  /\ row'[e] \in RowType
             /\ RowInv(e)'
             /\ reminder'[e] \in {"none", "outbox", "sent", "failed"}
             /\ row'[e].ttl = row[e].ttl /\ row'[e].attempts = row[e].attempts
             /\ row'[e].status = "absent" <=> row[e].status = "absent"
             /\ row'[e] = row[e] \/ (row'[e].owner = NoWorker /\ row[e].lease = 0) \/ row'[e].status \in Terminal
             /\ row[e].status \in Terminal => row'[e] = row[e]
  <2> DEFINE s == StaleReleased(row[e])
  <2>1. row[e] \in RowType /\ RowInv(e)
    BY DEF IInv, TypeOK
  <2>2. /\ s \in RowType /\ s.ttl = row[e].ttl /\ s.attempts = row[e].attempts
        /\ s.status = "absent" <=> row[e].status = "absent"
        /\ s.status = "delivered" <=> row[e].status = "delivered"
        /\ s.status = "expired" <=> row[e].status = "expired"
        /\ s.status = "failed" => row[e].status = "failed" \/ s.attempts >= MaxAttempts
        /\ s.status = "pending" => s.attempts < MaxAttempts
        /\ s.payload <=> s.status \in {"pending", "claimed"}
        /\ s = row[e] \/ (s.owner = NoWorker /\ row[e].lease = 0 /\ row[e].status = "claimed")
    <3>1. CASE ~(row[e].status = "claimed" /\ row[e].lease = 0)
      BY <2>1, <3>1 DEF StaleReleased, RowInv
    <3>2. CASE row[e].status = "claimed" /\ row[e].lease = 0 /\ row[e].attempts >= MaxAttempts
      <4> DEFINE c == Closed(row[e], "failed")
      <4>1. /\ c \in RowType
            /\ c.status = "failed" /\ c.owner = NoWorker /\ c.ttl = row[e].ttl
            /\ c.attempts = row[e].attempts /\ c.payload = FALSE
        <5>1. "failed" \in Terminal
          BY DEF Terminal
        <5>2. QED
          BY <2>1, <5>1, ClosedFields
      <4>2. s = [c EXCEPT !.wait = 0]
        BY <3>2 DEF StaleReleased
      <4> HIDE DEF c, s
      <4>3. /\ s \in RowType
            /\ s.status = "failed" /\ s.owner = NoWorker /\ s.ttl = row[e].ttl
            /\ s.attempts = row[e].attempts /\ s.payload = FALSE
        <5>1. s \in RowType
          BY <4>1, <4>2, RowFields
        <5>2. QED
          BY <4>1, <4>2, <5>1 DEF RowType
      <4>4. QED
        BY <3>2, <4>3
    <3>3. CASE row[e].status = "claimed" /\ row[e].lease = 0 /\ ~(row[e].attempts >= MaxAttempts)
      <4>1. Released(row[e]) \in RowType
        BY <2>1, ReleasedFields
      <4>2. [Released(row[e]) EXCEPT !.wait = 0] \in RowType
        BY <4>1, RowFields
      <4>3. row[e].payload /\ row[e].attempts < MaxAttempts
        BY <2>1, <3>3 DEF RowInv, RowType
      <4>4. QED
        BY <2>1, <3>3, <4>1, <4>2, <4>3, ReleasedFields DEF StaleReleased, RowType
    <3>4. QED
      BY <3>1, <3>2, <3>3
  <2> HIDE DEF s
  <2>3. row'[e] = StaleExpired(e, s)
    BY DEF Maintain, s
  <2>4. /\ row'[e] \in RowType /\ row'[e].ttl = row[e].ttl /\ row'[e].attempts = row[e].attempts
        /\ row'[e] = s \/ (s.status \in {"pending", "claimed"} /\ row'[e].status = "expired" /\ ~row'[e].payload)
    <3>1. "expired" \in Terminal
      BY DEF Terminal
    <3>2. Closed(s, "expired") \in RowType /\ Closed(s, "expired").ttl = s.ttl
          /\ Closed(s, "expired").attempts = s.attempts /\ Closed(s, "expired").status = "expired"
          /\ Closed(s, "expired").payload = FALSE
      BY <2>2, <3>1, ClosedFields
    <3>3. CASE s.status \in {"pending", "claimed"} /\ Expires(e) /\ s.ttl <= 0
      BY <2>2, <2>3, <3>2, <3>3 DEF StaleExpired
    <3>4. CASE ~(s.status \in {"pending", "claimed"} /\ Expires(e) /\ s.ttl <= 0)
      BY <2>2, <2>3, <3>4 DEF StaleExpired
    <3>5. QED
      BY <3>3, <3>4
  <2>5. reminder'[e] = IF reminder[e] = "outbox" /\ row'[e].status \in {"failed", "expired"}
                       THEN "failed" ELSE reminder[e]
    BY DEF Maintain
  <2>6. reminder[e] \in {"none", "outbox", "sent", "failed"}
    BY DEF IInv, TypeOK
  <2>7. RowInv(e)'
    BY <1>1, <2>1, <2>2, <2>4, <2>5, <2>6 DEF RowInv, RowType, Terminal
  <2>8. QED
    BY <2>1, <2>2, <2>4, <2>5, <2>6, <2>7 DEF RowInv, RowType, Terminal
<1>5. TypeOK'
  <2>1. row' \in [Event -> RowType]
    BY <1>4 DEF Maintain
  <2>2. reminder' \in [Event -> {"none", "outbox", "sent", "failed"}]
    BY <1>4 DEF Maintain
  <2>3. QED
    BY <1>1, <1>2, <1>3, <2>1, <2>2 DEF IInv, TypeOK
<1>6. ASSUME NEW v \in Worker, Busy(v)'
      PROVE  /\ worker'[v] = worker[v] /\ Busy(v) /\ worker[v].ev \in Event
             /\ ClaimInv(v, worker[v].ev)'
             /\ worker'[v].pc = "send" => TransportInv(v, worker[v].ev)'
  <2>1. worker'[v] = worker[v] /\ Busy(v) /\ worker[v].ev \in Event
    BY <1>2, <1>3, <1>6 DEF Busy, IInv, TypeOK
  <2>2. PICK e \in Event : e = worker[v].ev
    BY <2>1
  <2>3. ClaimInv(v, e) /\ (worker[v].pc = "send" => TransportInv(v, e)) /\ row[e] \in RowType
    BY <2>1, <2>2 DEF IInv, TypeOK
  <2>4. Holds(v, e)' => row'[e] = row[e]
    BY <1>4 DEF Holds, Terminal
  <2>5. ClaimInv(v, e)'
    BY <1>1, <1>4, <2>1, <2>3, <2>4 DEF ClaimInv, Holds
  <2>6. worker'[v].pc = "send" => TransportInv(v, e)'
    <3>1. SUFFICES ASSUME worker[v].pc = "send", Bounded(e)
                   PROVE  row'[e].status \in Terminal \/ row'[e] = row[e]
      BY <1>4, <2>1, <2>3, <2>4 DEF TransportInv, Holds
    <3>2. row[e].status \in Terminal \/ row[e].lease > 0
      BY <2>1, <2>3, <3>1 DEF TransportInv, RowType, WorkerType, IInv, TypeOK
    <3>3. QED
      BY <1>4, <3>2
  <2>7. QED
    BY <2>1, <2>2, <2>5, <2>6
<1>7. OneTransportAtATime'
  BY <1>2, <1>3 DEF IInv, OneTransportAtATime, Bounded
<1>8. QED
  BY <1>4, <1>5, <1>6, <1>7 DEF IInv, Busy

\* An exception leaves through the finally clause; the counted attempt is known
\* to it, or was just about to be committed.
LEMMA RaiseKept ==
  ASSUME IInv, NEW w \in Worker, Raise(w)
  PROVE  IInv'
<1>1. PICK counted \in BOOLEAN :
        /\ counted # worker[w].counted => worker[w].pc = "begin"
        /\ worker' = [worker EXCEPT ![w].pc = "finally", ![w].processed = FALSE, ![w].counted = counted]
  BY DEF Raise
<1>2. Busy(w) /\ UNCHANGED <<row, reminder, valid, accepted, sends>>
  BY DEF Raise, Busy
<1>3. PICK e \in Event : e = worker[w].ev
  BY <1>2 DEF Busy, IInv, TypeOK
<1>4. ClaimInv(w, e) /\ RowInv(e) /\ worker[w] \in WorkerType
  BY <1>2, <1>3 DEF IInv, TypeOK
<1> DEFINE m == [[worker[w] EXCEPT !.pc = "finally", !.processed = FALSE] EXCEPT !.counted = counted]
<1>5. /\ m \in WorkerType
      /\ m.pc = "finally" /\ m.ev = e /\ m.lease = worker[w].lease /\ m.counted = counted
      /\ m.wasValid = worker[w].wasValid
  <2>1. "finally" \in Steps /\ FALSE \in BOOLEAN
    BY DEF Steps
  <2>2. m \in WorkerType
    BY <1>4, <2>1, WorkerFields
  <2>3. QED
    BY <1>3, <1>4, <2>2 DEF WorkerType
<1>6. /\ worker'[w] = m
      /\ \A v \in Worker \ {w} : worker'[v] = worker[v]
      /\ worker' \in [Worker -> WorkerType]
  BY <1>1, <1>5 DEF IInv, TypeOK
<1> HIDE DEF m
<1>7. faults' \in 0 .. MaxFaults
  BY DEF Raise, IInv, TypeOK
<1>8. TypeOK'
  BY <1>2, <1>3, <1>5, <1>6, <1>7 DEF IInv, TypeOK
<1>9. LocalStep(w, e)
  BY <1>2, <1>6 DEF LocalStep, RowStep, IInv, TypeOK
<1>10. RowInv(e)'
  BY <1>2, <1>4 DEF RowInv
<1>11. ClaimInv(w, e)'
  <2>1. Holds(w, e) /\ ~counted => row[e].attempts < MaxAttempts
    BY <1>1, <1>4 DEF ClaimInv
  <2>2. QED
    BY <1>2, <1>4, <1>5, <1>6, <2>1 DEF ClaimInv, Holds
<1>12. QED
  BY <1>5, <1>6, <1>8, <1>9, <1>10, <1>11, LocalKept

\* A dead worker leaves its row claimed; only the history may change.
LEMMA CrashKept ==
  ASSUME IInv, NEW w \in Worker, Crash(w)
  PROVE  IInv'
<1>1. PICK took \in BOOLEAN :
        /\ took => worker[w].pc = "send"
        /\ accepted' = IF took THEN [accepted EXCEPT ![worker[w].ev] = TRUE] ELSE accepted
  BY DEF Crash
<1>2. worker' = [worker EXCEPT ![w] = Idle] /\ UNCHANGED <<row, reminder, valid, sends>>
      /\ faults' \in 0 .. MaxFaults
  BY DEF Crash, IInv, TypeOK
<1>3. Idle \in WorkerType /\ Idle.pc = "idle"
  BY DEF Idle, WorkerType, Steps
<1>4. /\ worker'[w] = Idle
      /\ \A v \in Worker \ {w} : worker'[v] = worker[v]
      /\ worker' \in [Worker -> WorkerType]
  BY <1>2, <1>3 DEF IInv, TypeOK
<1>5. PICK e : e = worker[w].ev
  OBVIOUS
<1>6. /\ accepted' \in [Event -> BOOLEAN]
      /\ \A f \in Event : accepted[f] => accepted'[f]
      /\ \A f \in Event \ {e} : accepted'[f] = accepted[f]
  BY <1>1, <1>5 DEF IInv, TypeOK
<1>7. TypeOK'
  BY <1>2, <1>3, <1>4, <1>6 DEF IInv, TypeOK
<1>8. LocalStep(w, e)
  BY <1>2, <1>4, <1>6 DEF LocalStep, RowStep, IInv, TypeOK
<1>9. e \in Event => RowInv(e)'
  BY <1>2, <1>6 DEF RowInv, IInv
<1>10. QED
  BY <1>3, <1>4, <1>7, <1>8, <1>9, LocalKept DEF Busy

-----------------------------------------------------------------------------
(* The steps of the application and of time.                               *)

\* No worker is at an event that is not enqueued yet.
LEMMA EnqueueKept ==
  ASSUME IInv, NEW e \in Event, Enqueue(e)
  PROVE  IInv'
<1>1. row[e].status = "absent" /\ UNCHANGED <<worker, accepted, sends, faults>>
      /\ row[e] \in RowType /\ RowInv(e)
  BY DEF Enqueue, IInv, TypeOK
<1> DEFINE r == [row[e] EXCEPT !.status = "pending", !.payload = TRUE]
<1>2. r \in RowType /\ r.status = "pending" /\ r.payload = TRUE /\ r.attempts = row[e].attempts
  BY <1>1 DEF RowType
<1>3. row'[e] = r /\ row' \in [Event -> RowType] /\ \A f \in Event \ {e} : row'[f] = row[f]
  BY <1>2 DEF Enqueue, IInv, TypeOK
<1> HIDE DEF r
<1>4. /\ reminder' \in [Event -> {"none", "outbox", "sent", "failed"}]
      /\ KindOf[e] = "debt" => reminder'[e] = "outbox"
      /\ \A f \in Event \ {e} : reminder'[f] = reminder[f]
  BY DEF Enqueue, IInv, TypeOK
<1>5. valid' \in [Event -> BOOLEAN] /\ \A f \in Event \ {e} : valid'[f] = valid[f]
  BY DEF Enqueue, IInv, TypeOK
<1>6. TypeOK'
  BY <1>1, <1>3, <1>4, <1>5 DEF IInv, TypeOK
<1>7. \A f \in Event : RowInv(f)'
  <2>1. RowInv(e)'
    BY <1>1, <1>2, <1>3, <1>4 DEF RowInv
  <2>2. \A f \in Event \ {e} : RowInv(f)'
    BY <1>1, <1>3, <1>4 DEF RowInv, IInv
  <2>3. QED
    BY <2>1, <2>2
<1>8. ASSUME NEW v \in Worker, Busy(v)'
      PROVE  /\ ClaimInv(v, worker[v].ev)'
             /\ worker'[v].pc = "send" => TransportInv(v, worker[v].ev)'
  <2>1. PICK f \in Event : f = worker[v].ev
    BY <1>1, <1>8 DEF Busy, IInv, TypeOK
  <2>2. ClaimInv(v, f) /\ (worker[v].pc = "send" => TransportInv(v, f))
    BY <1>1, <1>8, <2>1 DEF IInv, Busy
  <2>3. f # e
    BY <1>1, <2>2 DEF ClaimInv
  <2>4. row'[f] = row[f] /\ valid'[f] = valid[f]
    BY <1>3, <1>5, <2>3
  <2>5. QED
    BY <1>1, <2>1, <2>2, <2>4 DEF ClaimInv, TransportInv, Holds
<1>9. OneTransportAtATime'
  BY <1>1 DEF IInv, OneTransportAtATime, Bounded
<1>10. QED
  BY <1>6, <1>7, <1>8, <1>9 DEF IInv, Busy

LEMMA SupersedeKept ==
  ASSUME IInv, NEW e \in Event, Supersede(e)
  PROVE  IInv'
<1>1. /\ UNCHANGED <<row, reminder, worker, accepted, sends, faults>>
      /\ valid' \in [Event -> BOOLEAN]
      /\ \A f \in Event : valid'[f] => valid[f]
  BY DEF Supersede, IInv, TypeOK
<1>2. TypeOK'
  BY <1>1 DEF IInv, TypeOK
<1>3. \A f \in Event : RowInv(f)'
  BY <1>1 DEF RowInv, IInv
<1>4. ASSUME NEW v \in Worker, Busy(v)'
      PROVE  /\ ClaimInv(v, worker[v].ev)'
             /\ worker'[v].pc = "send" => TransportInv(v, worker[v].ev)'
  <2>1. PICK f \in Event : f = worker[v].ev
    BY <1>1, <1>4 DEF Busy, IInv, TypeOK
  <2>2. ClaimInv(v, f) /\ (worker[v].pc = "send" => TransportInv(v, f))
    BY <1>1, <1>4, <2>1 DEF IInv, Busy
  <2>3. QED
    BY <1>1, <2>1, <2>2 DEF ClaimInv, TransportInv, Holds
<1>5. OneTransportAtATime'
  BY <1>1 DEF IInv, OneTransportAtATime, Bounded
<1>6. QED
  BY <1>2, <1>3, <1>4, <1>5 DEF IInv, Busy

\* It only adds to what the workers have seen valid.
LEMMA ReinstateKept ==
  ASSUME IInv, NEW e \in Event, Reinstate(e)
  PROVE  IInv'
<1>1. /\ UNCHANGED <<row, reminder, accepted, sends, faults>>
      /\ valid' \in [Event -> BOOLEAN]
      /\ \A f \in Event : f # e => valid'[f] = valid[f]
  BY DEF Reinstate, IInv, TypeOK
<1>2. ASSUME NEW v \in Worker
      PROVE  \/ /\ worker[v].ev # e /\ worker'[v] = worker[v]
             \/ /\ worker[v].ev = e
                /\ worker'[v] = [worker[v] EXCEPT !.wasValid = TRUE]
  BY DEF Reinstate, IInv, TypeOK
<1>3. ASSUME NEW v \in Worker
      PROVE  /\ worker'[v] \in WorkerType
             /\ worker'[v].pc = worker[v].pc /\ worker'[v].ev = worker[v].ev
             /\ worker'[v].lease = worker[v].lease /\ worker'[v].counted = worker[v].counted
             /\ worker'[v].result = worker[v].result /\ worker'[v].left = worker[v].left
             /\ worker'[v].flight = worker[v].flight
             /\ worker[v].wasValid => worker'[v].wasValid
             /\ worker[v].ev = e => worker'[v].wasValid
  <2>1. worker[v] \in WorkerType
    BY DEF IInv, TypeOK
  <2>2. CASE worker[v].ev # e /\ worker'[v] = worker[v]
    BY <2>1, <2>2
  <2>3. CASE worker[v].ev = e /\ worker'[v] = [worker[v] EXCEPT !.wasValid = TRUE]
    <3>1. worker'[v] \in WorkerType
      BY <2>1, <2>3 DEF WorkerType
    <3>2. worker'[v].wasValid
      BY <2>1, <2>3 DEF WorkerType
    <3> QED
      BY <2>1, <2>3, <3>1, <3>2 DEF WorkerType
  <2> QED
    BY <1>2, <2>2, <2>3
<1>4. TypeOK'
  <2>1. worker' \in [Worker -> WorkerType]
    BY <1>3 DEF Reinstate, IInv, TypeOK
  <2> QED
    BY <1>1, <1>3, <2>1 DEF IInv, TypeOK
<1>5. \A f \in Event : RowInv(f)'
  BY <1>1 DEF RowInv, IInv
<1>6. ASSUME NEW v \in Worker, Busy(v)'
      PROVE  /\ ClaimInv(v, worker[v].ev)'
             /\ worker'[v].pc = "send" => TransportInv(v, worker[v].ev)'
  <2>1. PICK f \in Event : f = worker[v].ev
    BY <1>3, <1>6 DEF Busy, IInv, TypeOK
  <2>2. ClaimInv(v, f) /\ (worker[v].pc = "send" => TransportInv(v, f))
    BY <1>3, <1>6, <2>1 DEF IInv, Busy
  <2>3. valid'[f] => worker'[v].wasValid
    BY <1>1, <1>3, <2>1, <2>2 DEF ClaimInv
  <2>4. worker[v].wasValid => worker'[v].wasValid
    BY <1>3
  <2>5. ClaimInv(v, f)'
    BY <1>1, <1>3, <2>2, <2>3, <2>4 DEF ClaimInv, Holds
  <2>6. worker'[v].pc = "send" => TransportInv(v, f)'
    BY <1>1, <1>3, <2>2 DEF TransportInv, Holds
  <2> QED
    BY <1>3, <2>1, <2>5, <2>6
<1>7. OneTransportAtATime'
  BY <1>3 DEF IInv, OneTransportAtATime, Bounded
<1> QED
  BY <1>3, <1>4, <1>5, <1>6, <1>7 DEF IInv, Busy

\* A lease and what a worker remembers of it run down together.
LEMMA TickKept ==
  ASSUME IInv, Tick
  PROVE  IInv'
<1>1. UNCHANGED <<reminder, valid, accepted, sends>> /\ faults' \in 0 .. MaxFaults
  <2>1. UNCHANGED <<reminder, valid, accepted, sends>>
    BY DEF Tick
  <2>2. faults \in 0 .. MaxFaults
    BY DEF IInv, TypeOK
  <2>3. faults' = faults \/ (faults < MaxFaults /\ faults' = faults + 1)
    <3> DEFINE stalled == \E w \in Worker : Stalled(w)
    <3>1. IF stalled THEN faults < MaxFaults /\ faults' = faults + 1 ELSE UNCHANGED faults
      BY DEF Tick
    <3> HIDE DEF stalled
    <3>2. QED
      BY <3>1
  <2>4. QED
    BY <2>1, <2>2, <2>3
<1>2. ASSUME NEW n \in Nat
      PROVE  /\ Less(n) \in Nat /\ (n > 0 => Less(n) = n - 1) /\ (n = 0 => Less(n) = 0)
             /\ \A k \in Nat : n \in 0 .. k => Less(n) \in 0 .. k
  BY DEF Less
<1> DEFINE older(r) == [[[r EXCEPT !.lease = Less(r.lease)] EXCEPT !.wait = Less(r.wait)]
                          EXCEPT !.ttl = IF r.ttl > -LeaseDuration THEN r.ttl - 1 ELSE r.ttl]
<1>3. ASSUME NEW e \in Event
      PROVE  /\ row'[e] \in RowType
             /\ row'[e].status = row[e].status /\ row'[e].owner = row[e].owner
             /\ row'[e].attempts = row[e].attempts /\ row'[e].payload = row[e].payload
             /\ row[e].status # "absent" => row'[e].lease = Less(row[e].lease)
             /\ row'[e].ttl >= row[e].ttl - 1 /\ row'[e].ttl >= -LeaseDuration
             /\ row[e].ttl \in Int /\ row'[e].ttl \in Int /\ row[e].lease \in Nat
             /\ row'[e].ttl < row[e].ttl \/ row'[e].ttl = row[e].ttl
  <2>1. row[e] \in RowType
    BY DEF IInv, TypeOK
  <2>2. CASE row[e].status = "absent"
    <3>1. row'[e] = row[e]
      BY <2>2 DEF Tick
    <3>2. QED
      BY <2>1, <2>2, <3>1 DEF RowType
  <2>3. CASE row[e].status # "absent"
    <3>1. row'[e] = older(row[e])
      <4>1. row'[e] = [row[e] EXCEPT !.lease = Less(@), !.wait = Less(@),
                                     !.ttl = IF @ > -LeaseDuration THEN @ - 1 ELSE @]
        BY <2>3 DEF Tick
      <4>2. QED
        BY <2>1, <4>1 DEF RowType
    <3>2. row[e].lease \in 0 .. LeaseDuration /\ row[e].wait \in Nat /\ row[e].ttl \in -LeaseDuration .. TimeToLive
      BY <2>1 DEF RowType
    <3>3. Less(row[e].lease) \in 0 .. LeaseDuration /\ Less(row[e].wait) \in Nat
      BY <3>2 DEF Less
    <3>4. [[row[e] EXCEPT !.lease = Less(row[e].lease)] EXCEPT !.wait = Less(row[e].wait)] \in RowType
      BY <2>1, <3>3, RowFields
    <3>5. \A r \in RowType, n \in -LeaseDuration .. TimeToLive : [r EXCEPT !.ttl = n] \in RowType
      BY DEF RowType
    <3>6. older(row[e]) \in RowType
      <4>1. (IF row[e].ttl > -LeaseDuration THEN row[e].ttl - 1 ELSE row[e].ttl) \in -LeaseDuration .. TimeToLive
        BY <3>2
      <4>2. QED
        BY <3>4, <3>5, <4>1
    <3>7. QED
      BY <2>1, <2>3, <3>1, <3>2, <3>6 DEF RowType
  <2>4. QED
    BY <2>2, <2>3
<1> HIDE DEF older
<1>4. ASSUME NEW v \in Worker
      PROVE  /\ worker'[v] \in WorkerType
             /\ worker'[v].pc = worker[v].pc /\ worker'[v].ev = worker[v].ev
             /\ worker'[v].counted = worker[v].counted /\ worker'[v].result = worker[v].result
             /\ worker'[v].left = worker[v].left /\ worker'[v].wasValid = worker[v].wasValid
             /\ worker'[v].lease = Less(worker[v].lease) /\ worker'[v].flight = Less(worker[v].flight)
             /\ worker[v].lease \in 0 .. LeaseDuration /\ worker[v].flight \in 0 .. TransportDeadline
             /\ worker[v].pc = "send" /\ Bounded(worker[v].ev) => worker[v].flight > 0
  <2>1. worker[v] \in WorkerType
    BY DEF IInv, TypeOK
  <2>2. worker'[v] = [[worker[v] EXCEPT !.lease = Less(worker[v].lease)] EXCEPT !.flight = Less(worker[v].flight)]
    <3>1. worker'[v] = [worker[v] EXCEPT !.lease = Less(@), !.flight = Less(@)]
      BY DEF Tick
    <3>2. QED
      BY <2>1, <3>1 DEF WorkerType
  <2>3. worker[v].lease \in 0 .. LeaseDuration /\ worker[v].flight \in 0 .. TransportDeadline
    BY <2>1 DEF WorkerType
  <2>4. Less(worker[v].lease) \in 0 .. LeaseDuration /\ Less(worker[v].flight) \in 0 .. TransportDeadline
    BY <2>3 DEF Less
  <2>5. worker'[v] \in WorkerType
    <3>1. \A k \in WorkerType : /\ \A n \in 0 .. LeaseDuration : [k EXCEPT !.lease = n] \in WorkerType
                                /\ \A n \in 0 .. TransportDeadline : [k EXCEPT !.flight = n] \in WorkerType
      BY DEF WorkerType
    <3>2. [worker[v] EXCEPT !.lease = Less(worker[v].lease)] \in WorkerType
      BY <2>1, <2>4, <3>1
    <3>3. QED
      BY <2>2, <2>4, <3>1, <3>2
  <2>6. worker[v].pc = "send" /\ Bounded(worker[v].ev) => worker[v].flight > 0
    BY DEF Tick
  <2>7. QED
    BY <2>1, <2>2, <2>3, <2>5, <2>6 DEF WorkerType
<1>5. TypeOK'
  <2>1. row' \in [Event -> RowType]
    BY <1>3 DEF Tick
  <2>2. worker' \in [Worker -> WorkerType]
    BY <1>4 DEF Tick
  <2>3. \A v \in Worker : /\ worker'[v].pc \notin {"idle", "claim"} => worker'[v].ev \in Event
                          /\ worker'[v].pc = "claim" => worker'[v].left > 0
    BY <1>4 DEF IInv, TypeOK
  <2>4. QED
    BY <1>1, <2>1, <2>2, <2>3 DEF IInv, TypeOK
<1>6. \A e \in Event : RowInv(e)'
  BY <1>1, <1>3 DEF RowInv, IInv
<1>7. ASSUME NEW v \in Worker, Busy(v)'
      PROVE  /\ ClaimInv(v, worker[v].ev)'
             /\ worker'[v].pc = "send" => TransportInv(v, worker[v].ev)'
  <2>1. PICK e \in Event : e = worker[v].ev
    BY <1>4, <1>7 DEF Busy, IInv, TypeOK
  <2>2. ClaimInv(v, e) /\ (worker[v].pc = "send" => TransportInv(v, e))
    BY <1>4, <1>7, <2>1 DEF IInv, Busy
  <2>3. worker'[v].ev = e /\ (Holds(v, e)' <=> Holds(v, e)) /\ row[e].status # "absent"
    BY <1>3, <1>4, <2>1, <2>2 DEF Holds, ClaimInv
  <2>4. ClaimInv(v, e)'
    <3>1. Holds(v, e)' => row'[e].lease = worker'[v].lease
      BY <1>3, <1>4, <2>2, <2>3 DEF ClaimInv
    <3>2. Expires(e) => row'[e].ttl > worker'[v].lease - LeaseDuration \/ worker'[v].lease = 0
      BY <1>3, <1>4, <2>2 DEF ClaimInv, Less
    <3>3. QED
      BY <1>1, <1>3, <1>4, <2>2, <2>3, <3>1, <3>2 DEF ClaimInv
  <2>5. worker'[v].pc = "send" => TransportInv(v, e)'
    BY <1>3, <1>4, <2>1, <2>2, <2>3 DEF TransportInv, Less, Terminal
  <2>6. QED
    BY <2>3, <2>4, <2>5
<1>8. OneTransportAtATime'
  BY <1>4 DEF IInv, OneTransportAtATime, Bounded
<1>9. QED
  BY <1>5, <1>6, <1>7, <1>8 DEF IInv, Busy

LEMMA NextKept ==
  ASSUME IInv, [Next]_vars
  PROVE  IInv'
<1>1. ASSUME NEW e \in Event, Enqueue(e) \/ Supersede(e) \/ Reinstate(e)
      PROVE  IInv'
  BY <1>1, EnqueueKept, SupersedeKept, ReinstateKept
<1>2. ASSUME NEW w \in Worker, Step(w)
      PROVE  IInv'
  BY <1>2, MaintainKept, ClaimKept, ProcessKept, CheckKept, RejectKept, BeginKept, CannotBeginKept,
     TransportKept, SettleKept, FinallyKept DEF Step
<1>3. ASSUME NEW w \in Worker, Raise(w) \/ Crash(w)
      PROVE  IInv'
  BY <1>3, RaiseKept, CrashKept
<1>4. CASE UNCHANGED vars
  BY <1>4 DEF vars, IInv, TypeOK, RowInv, Busy, ClaimInv, TransportInv, Holds, OneTransportAtATime,
              RowType, WorkerType
<1>5. QED
  BY <1>1, <1>2, <1>3, <1>4, TickKept DEF Next

-----------------------------------------------------------------------------
(* The theorems.                                                           *)

\* The inductive invariant holds of every behaviour of the outbox.
THEOREM Invariance == Spec => []IInv
<1>1. Init => IInv
  BY InitIInv
<1>2. IInv /\ [Next]_vars => IInv'
  BY NextKept
<1>3. QED
  BY <1>1, <1>2, PTL DEF Spec

\* Types, whatever the constants.
THEOREM TypeCorrectness == Spec => []TypeOK
<1>1. IInv => TypeOK
  BY DEF IInv
<1>2. QED
  BY <1>1, Invariance, PTL

\* A pending row can always be claimed once its backoff is over: no path back to
\* the queue leaves it without an attempt or without its payload.
THEOREM NothingIsStuck == Spec => []PendingIsClaimable
<1>1. IInv => PendingIsClaimable
  BY DEF IInv, RowInv, PendingIsClaimable
<1>2. QED
  BY <1>1, Invariance, PTL

\* The secret of a row is erased exactly when the row closes.
THEOREM SecretsArePurged == Spec => []PayloadPurgedOnClose
<1>1. IInv => PayloadPurgedOnClose
  BY DEF IInv, RowInv, PayloadPurgedOnClose
<1>2. QED
  BY <1>1, Invariance, PTL

\* Every transport ever started is in attempt_count, which max_attempts bounds:
\* no number of crashes makes an event send more often.
THEOREM SendsAreBounded == Spec => [](SendsAreCounted /\ \A e \in Event : sends[e] <= MaxAttempts)
<1>1. IInv => SendsAreCounted /\ \A e \in Event : sends[e] <= MaxAttempts
  <2>1. IInv => \A e \in Event : sends[e] = row[e].attempts /\ row[e].attempts \in 0 .. MaxAttempts
    BY DEF IInv, RowInv, TypeOK, RowType
  <2>2. QED
    BY <2>1 DEF SendsAreCounted
<1>2. QED
  BY <1>1, Invariance, PTL

\* Mutual exclusion of transports, for any number of workers: it needs only that
\* the lease left by begin_attempt is longer than a transport may take.
THEOREM MutualExclusion == Spec => []OneTransportAtATime
<1>1. IInv => OneTransportAtATime
  BY DEF IInv
<1>2. QED
  BY <1>1, Invariance, PTL

\* What was overtaken before its claim and stayed so is never sent by that
\* claim: the check lies between claim and transport, on every attempt.
THEOREM OvertakenIsNotSent == Spec => []NothingOvertakenIsSent
<1>1. IInv => NothingOvertakenIsSent
  BY DEF IInv, TypeOK, Busy, ClaimInv, Expires, NothingOvertakenIsSent
<1>2. QED
  BY <1>1, Invariance, PTL

\* How late after expires_at a transport may still run.
THEOREM BoundedLateness == Spec => []LatenessIsBounded
<1>1. IInv => LatenessIsBounded
  <2> SUFFICES ASSUME IInv, NEW w \in Worker, worker[w].pc = "send", Bounded(worker[w].ev)
               PROVE  row[worker[w].ev].ttl > MinLeaseRemaining - LeaseDuration - TransportDeadline
    BY DEF LatenessIsBounded
  <2>1. PICK e \in Event : e = worker[w].ev
    BY DEF IInv, TypeOK
  <2>2. row[e].ttl > MinLeaseRemaining - LeaseDuration - TransportDeadline + worker[w].flight
    BY <2>1 DEF IInv, TransportInv
  <2>3. row[e].ttl \in Int /\ worker[w].flight \in Nat
    BY DEF IInv, TypeOK, RowType, WorkerType
  <2>4. QED
    BY <2>1, <2>2, <2>3
<1>2. QED
  BY <1>1, Invariance, PTL

\* A debt reminder and its row tell one story.
THEOREM RemindersFollow == Spec => []ReminderFollowsRow
<1>1. IInv => ReminderFollowsRow
  BY DEF IInv, RowInv, ReminderFollowsRow
<1>2. QED
  BY <1>1, Invariance, PTL

-----------------------------------------------------------------------------
(* The outbox implements MessageLifecycle.                                 *)

Phase == [e \in Event |-> IF row[e].status \in {"pending", "claimed"} THEN "open" ELSE row[e].status]

\* What a step may do to the phases without changing what was tried or taken.
Closes ==
  \A e \in Event : Phase'[e] # Phase[e] =>
    /\ Phase[e] = "open"
    /\ Phase'[e] \in Terminal
    /\ Phase'[e] = "delivered" => accepted[e]
    /\ Phase'[e] = "expired" => Expires(e)

LEMMA ClosesIsClose ==
  ASSUME TypeOK', Closes, UNCHANGED <<accepted, sends>>
  PROVE  Lifecycle!Next
<1>1. Phase' \in [Event -> {"absent", "open"} \cup Lifecycle!Closing]
  BY DEF TypeOK, RowType, Phase, Terminal, Lifecycle!Closing
<1>2. Lifecycle!Close(Phase')
  BY DEF Closes, Phase, Terminal, Lifecycle!Close, Lifecycle!Closing
<1>3. QED
  BY <1>1, <1>2 DEF Lifecycle!Next, Lifecycle!Close

\* A row that one worker settles or gives back, closes or keeps its phase.
LEMMA SettledCloses ==
  ASSUME IInv, NEW w \in Worker, NEW e \in Event, NEW guard, NEW r, NEW rs, Settled(e, guard, r, rs),
         guard => /\ Holds(w, e)
                  /\ r.status \in {"pending"} \cup Terminal
                  /\ r.status = "delivered" => accepted[e]
                  /\ r.status = "expired" => Expires(e)
  PROVE  Closes
<1>1. CASE ~guard
  BY <1>1 DEF Settled, Closes, Phase
<1>2. CASE guard
  <2>1. row'[e] = r /\ \A f \in Event \ {e} : row'[f] = row[f]
    BY <1>2 DEF Settled, IInv, TypeOK
  <2>2. Phase[e] = "open"
    BY <1>2 DEF Phase, Holds
  <2>3. QED
    BY <1>2, <2>1, <2>2 DEF Closes, Phase, Terminal
<1>3. QED
  BY <1>1, <1>2

LEMMA ReleaseCloses ==
  ASSUME IInv, NEW w \in Worker, NEW e, ReleaseClaim(w, e)
  PROVE  Closes
<1>1. \A f \in Event : row'[f] = row[f] \/ (row[f].status = "claimed" /\ row'[f].status = "pending")
  <2>1. \A f \in Event : row[f] \in RowType
    BY DEF IInv, TypeOK
  <2>2. \A f \in Event : Released(row[f]).status = "pending"
    BY <2>1, ReleasedFields
  <2>3. QED
    BY <2>2 DEF ReleaseClaim, Holds, IInv, TypeOK
<1>2. QED
  BY <1>1 DEF Closes, Phase

\* Every way a worker leaves its row through Settled or ReleaseClaim.
LEMMA WorkerCloses ==
  ASSUME IInv, NEW w \in Worker, Process(w) \/ Undecryptable(w) \/ Reject(w) \/ CannotBegin(w) \/ Settle(w) \/ Finally(w)
  PROVE  Closes /\ UNCHANGED <<accepted, sends>>
<1>1. PICK e : e = worker[w].ev
  OBVIOUS
<1>2. e \in Event /\ ClaimInv(w, e) /\ row[e] \in RowType /\ RowInv(e)
  BY <1>1 DEF Process, Undecryptable, Reject, CannotBegin, Settle, Finally, IInv, TypeOK, Busy
<1>3. UNCHANGED <<accepted, sends>>
  BY DEF Process, Undecryptable, Reject, CannotBegin, Settle, Finally
<1>4. HoldsLease(w, e) => Holds(w, e)
  BY DEF HoldsLease
<1>5. \A status \in Terminal : Closed(row[e], status).status = status
  BY <1>2, ClosedFields
<1>6. UNCHANGED row => Closes
  BY DEF Closes, Phase
<1>7. ASSUME ReleaseClaim(w, e) PROVE Closes
  BY <1>7, ReleaseCloses
<1>8. ASSUME NEW live, MarkExpired(w, e, live), live => Holds(w, e), Expires(e)
      PROVE  Closes
  BY <1>2, <1>5, <1>8, SettledCloses DEF MarkExpired, Terminal
<1>9. ASSUME NEW terminal \in BOOLEAN, MarkFailed(w, e, terminal), terminal \/ row[e].attempts > 0
      PROVE  Closes
  <2>1. AfterFailure(row[e], terminal).status \in {"pending", "failed"}
    BY <1>2, <1>9, FailureFields
  <2>2. QED
    BY <1>2, <1>4, <1>9, <2>1, SettledCloses DEF MarkFailed, Terminal
<1>10. ASSUME Process(w) PROVE Closes
  <2>1. \/ MarkExpired(w, worker[w].ev, HoldsLease(w, worker[w].ev)) /\ Expires(worker[w].ev)
        \/ ReleaseClaim(w, worker[w].ev)
        \/ UNCHANGED row
    BY <1>10 DEF Process
  <2>2. \/ MarkExpired(w, e, HoldsLease(w, e)) /\ Expires(e)
        \/ ReleaseClaim(w, e)
        \/ UNCHANGED row
    BY <1>1, <2>1
  <2>3. QED
    BY <1>4, <1>6, <1>7, <1>8, <2>2
<1>11. ASSUME Undecryptable(w) PROVE Closes
  <2>1. MarkFailed(w, e, TRUE)
    BY <1>1, <1>11 DEF Undecryptable
  <2>2. QED
    BY <1>9, <2>1
<1>12. ASSUME Reject(w) PROVE Closes
  <2>1. Expires(e)
    BY <1>1, <1>2, <1>12 DEF Reject, ClaimInv
  <2> DEFINE live == IF KindOf[e] = "email" THEN Holds(w, e) ELSE HoldsLease(w, e)
  <2>2. MarkExpired(w, e, live)
    BY <1>1, <1>12 DEF Reject
  <2>3. live => Holds(w, e)
    BY <1>4
  <2> HIDE DEF live
  <2>4. QED
    BY <1>8, <2>1, <2>2, <2>3
<1>13. ASSUME CannotBegin(w) PROVE Closes
  BY <1>1, <1>7, <1>13 DEF CannotBegin
<1>14. ASSUME Settle(w) PROVE Closes
  <2>1. row[e].attempts > 0 /\ (worker[w].result = "ok" => accepted[e])
    BY <1>1, <1>2, <1>14 DEF Settle, ClaimInv, RowInv
  <2>2. CASE worker[w].result = "ok"
    <3>1. MarkDelivered(w, e)
      BY <1>1, <1>14, <2>2 DEF Settle
    <3>2. QED
      BY <1>2, <1>4, <1>5, <2>1, <2>2, <3>1, SettledCloses DEF MarkDelivered, Terminal
  <2>3. CASE worker[w].result # "ok"
    <3> DEFINE terminal == KindOf[e] # "notification" /\ (worker[w].result = "final" \/ row[e].attempts >= MaxAttempts)
    <3>1. MarkFailed(w, e, terminal) /\ terminal \in BOOLEAN
      BY <1>1, <1>14, <2>3 DEF Settle
    <3> HIDE DEF terminal
    <3>2. QED
      BY <1>9, <2>1, <3>1
  <2>4. QED
    BY <2>2, <2>3
<1>15. ASSUME Finally(w) PROVE Closes
  BY <1>1, <1>6, <1>7, <1>15 DEF Finally
<1>16. QED
  BY <1>3, <1>10, <1>11, <1>12, <1>13, <1>14, <1>15

LEMMA MaintainCloses ==
  ASSUME IInv, NEW w \in Worker, Maintain(w)
  PROVE  Closes /\ UNCHANGED <<accepted, sends>>
<1>1. ASSUME NEW e \in Event
      PROVE  \/ row'[e].status = row[e].status
             \/ /\ row[e].status \in {"pending", "claimed"}
                /\ row'[e].status \in {"pending", "failed"} \/ (row'[e].status = "expired" /\ Expires(e))
  <2> DEFINE s == StaleReleased(row[e])
  <2>1. row[e] \in RowType
    BY DEF IInv, TypeOK
  <2>2. s.status = row[e].status \/ (row[e].status = "claimed" /\ s.status \in {"pending", "failed"})
    <3>1. s \in RowType => s.status = s.status
      OBVIOUS
    <3>2. Closed(row[e], "failed") \in RowType /\ Closed(row[e], "failed").status = "failed"
      BY <2>1, ClosedFields DEF Terminal
    <3>3. Released(row[e]) \in RowType /\ Released(row[e]).status = "pending"
      BY <2>1, ReleasedFields
    <3>4. \A r \in RowType : [r EXCEPT !.wait = 0].status = r.status
      BY DEF RowType
    <3>5. QED
      BY <3>2, <3>3, <3>4 DEF StaleReleased
  <2>3. s \in RowType
    <3>1. Closed(row[e], "failed") \in RowType /\ Released(row[e]) \in RowType
      BY <2>1, ClosedFields, ReleasedFields DEF Terminal
    <3>2. \A r \in RowType : [r EXCEPT !.wait = 0] \in RowType
      BY DEF RowType
    <3>3. QED
      BY <2>1, <3>1, <3>2 DEF StaleReleased
  <2> HIDE DEF s
  <2>4. row'[e] = StaleExpired(e, s)
    BY DEF Maintain, s
  <2>5. Closed(s, "expired").status = "expired"
    BY <2>3, ClosedFields DEF Terminal
  <2>6. QED
    BY <2>2, <2>4, <2>5 DEF StaleExpired
<1>2. Closes
  BY <1>1 DEF Closes, Phase, Terminal
<1>3. QED
  BY <1>2 DEF Maintain

LEMMA StepRefines ==
  ASSUME IInv, IInv', Next
  PROVE  Lifecycle!Next \/ UNCHANGED <<Phase, sends, accepted>>
<1>1. TypeOK'
  BY DEF IInv
<1>2. ASSUME NEW e \in Event, Enqueue(e)
      PROVE  Lifecycle!Submit(e)
  <2>1. row[e] \in RowType /\ row[e].status = "absent" /\ UNCHANGED <<accepted, sends>>
    BY <1>2 DEF Enqueue, IInv, TypeOK
  <2>2. row'[e].status = "pending" /\ \A f \in Event \ {e} : row'[f] = row[f]
    <3>1. row' = [row EXCEPT ![e] = [row[e] EXCEPT !.status = "pending", !.payload = TRUE]]
      BY <1>2 DEF Enqueue, IInv, TypeOK
    <3>2. QED
      BY <2>1, <3>1 DEF RowType, IInv, TypeOK
  <2>3. QED
    BY <2>1, <2>2 DEF Lifecycle!Submit
<1>3. ASSUME NEW e \in Event, Supersede(e) \/ Reinstate(e)
      PROVE  UNCHANGED <<Phase, sends, accepted>>
  BY <1>3 DEF Supersede, Reinstate, Phase
<1>4. ASSUME NEW w \in Worker, Maintain(w)
      PROVE  Lifecycle!Next
  BY <1>1, <1>4, MaintainCloses, ClosesIsClose
<1>5. ASSUME NEW w \in Worker, Process(w) \/ Undecryptable(w) \/ Reject(w) \/ CannotBegin(w) \/ Settle(w) \/ Finally(w)
      PROVE  Lifecycle!Next
  BY <1>1, <1>5, WorkerCloses, ClosesIsClose
<1>6. ASSUME NEW w \in Worker, Claim(w)
      PROVE  UNCHANGED <<Phase, sends, accepted>>
  <2>1. ASSUME NEW e \in Event, Claimable(e),
               row' = [row EXCEPT ![e].status = "claimed", ![e].owner = w, ![e].lease = LeaseDuration]
        PROVE  UNCHANGED Phase
    <3>1. row' = [row EXCEPT ![e] = [row[e] EXCEPT !.status = "claimed", !.owner = w, !.lease = LeaseDuration]]
      BY <2>1 DEF IInv, TypeOK
    <3>2. row'[e].status = "claimed" /\ \A f \in Event \ {e} : row'[f] = row[f]
      BY <3>1 DEF RowType, IInv, TypeOK
    <3>3. row[e].status = "pending"
      BY <2>1 DEF Claimable
    <3>4. \A f \in Event : Phase'[f] = Phase[f]
      BY <3>2, <3>3 DEF Phase
    <3>5. QED
      BY <3>4 DEF Phase
  <2>2. UNCHANGED row => UNCHANGED Phase
    BY DEF Phase
  <2>3. QED
    BY <1>6, <2>1, <2>2 DEF Claim
<1>7. ASSUME NEW w \in Worker, Check(w) \/ Raise(w)
      PROVE  UNCHANGED <<Phase, sends, accepted>>
  BY <1>7 DEF Check, Raise, Phase
<1>8. ASSUME NEW w \in Worker, Begin(w)
      PROVE  \E e \in Event : Lifecycle!Attempt(e)
  <2>1. PICK e \in Event : e = worker[w].ev
    BY <1>8 DEF Begin, IInv, TypeOK
  <2>2. row[e] \in RowType /\ RowInv(e) /\ MayBegin(w, e) /\ UNCHANGED accepted
        /\ sends' = [sends EXCEPT ![e] = @ + 1]
    BY <1>8, <2>1 DEF Begin, IInv, TypeOK
  <2>3. \A f \in Event : row'[f].status = row[f].status
    <3>1. row' = [row EXCEPT ![e] = [row[e] EXCEPT !.attempts = row[e].attempts + 1]]
      BY <1>8, <2>1, <2>2 DEF Begin, IInv, TypeOK, RowType
    <3>2. QED
      BY <2>2, <3>1 DEF RowType, IInv, TypeOK
  <2>4. UNCHANGED Phase /\ Phase[e] = "open" /\ sends[e] < MaxAttempts
    BY <2>2, <2>3 DEF Phase, RowInv, MayBegin, Holds
  <2>5. Lifecycle!Attempt(e)
    BY <2>2, <2>4 DEF Lifecycle!Attempt, Phase
  <2>6. QED
    BY <2>5
<1>9. ASSUME NEW w \in Worker, Transport(w) \/ Crash(w)
      PROVE  (\E e \in Event : Lifecycle!Take(e)) \/ UNCHANGED <<Phase, sends, accepted>>
  <2>1. UNCHANGED <<row, sends>>
    BY <1>9 DEF Transport, Crash
  <2>2. UNCHANGED Phase
    BY <2>1 DEF Phase
  <2>3. UNCHANGED accepted \/ (worker[w].pc = "send" /\ accepted' = [accepted EXCEPT ![worker[w].ev] = TRUE])
    BY <1>9 DEF Transport, Crash, IInv, TypeOK
  <2>4. CASE worker[w].pc = "send" /\ accepted' = [accepted EXCEPT ![worker[w].ev] = TRUE]
    <3>1. PICK e \in Event : e = worker[w].ev
      BY <2>4 DEF IInv, TypeOK
    <3>2. sends[e] > 0
      BY <2>4, <3>1 DEF IInv, Busy, ClaimInv
    <3>3. Lifecycle!Take(e)
      BY <2>1, <2>2, <2>4, <3>1, <3>2 DEF Lifecycle!Take, Phase
    <3>4. QED
      BY <3>3
  <2>5. QED
    BY <2>1, <2>2, <2>3, <2>4
<1>10. ASSUME Tick
       PROVE  UNCHANGED <<Phase, sends, accepted>>
  <2>1. \A e \in Event : row'[e].status = row[e].status
    <3>1. \A e \in Event : row[e] \in RowType
      BY DEF IInv, TypeOK
    <3>2. \A e \in Event :
            row'[e] = IF row[e].status = "absent" THEN row[e]
                      ELSE [row[e] EXCEPT !.lease = Less(@), !.wait = Less(@),
                                          !.ttl = IF @ > -LeaseDuration THEN @ - 1 ELSE @]
      BY <1>10 DEF Tick
    <3>3. QED
      BY <3>1, <3>2 DEF RowType
  <2>2. QED
    BY <1>10, <2>1 DEF Tick, Phase
<1>11. (\E e \in Event : Lifecycle!Submit(e) \/ Lifecycle!Attempt(e) \/ Lifecycle!Take(e)) => Lifecycle!Next
  BY DEF Lifecycle!Next
<1>12. ASSUME NEW w \in Worker, Step(w)
       PROVE  Lifecycle!Next \/ UNCHANGED <<Phase, sends, accepted>>
  BY <1>4, <1>5, <1>6, <1>7, <1>8, <1>9, <1>11, <1>12 DEF Step
<1>13. QED
  BY <1>2, <1>3, <1>7, <1>9, <1>10, <1>11, <1>12 DEF Next

\* The worker's protocol implements the message's life: attempts only while the
\* message is open, one closing, delivery only of what the provider took.
THEOREM Refinement == Spec => LifecycleSpec
<1>1. Init => Lifecycle!Init
  BY DEF Init, Lifecycle!Init
<1>2. IInv /\ IInv' /\ [Next]_vars => [Lifecycle!Next]_Lifecycle!lifecycle
  <2> SUFFICES ASSUME IInv, IInv', [Next]_vars
                 PROVE  Lifecycle!Next \/ UNCHANGED Lifecycle!lifecycle
    OBVIOUS
  <2>1. CASE Next
    BY <2>1, StepRefines DEF Phase, Lifecycle!lifecycle
  <2>2. CASE UNCHANGED vars
    BY <2>2 DEF vars, Lifecycle!lifecycle
  <2>3. QED
    BY <2>1, <2>2
<1>3. QED
  BY <1>1, <1>2, Invariance, PTL DEF Spec, LifecycleSpec, Lifecycle!Spec

=============================================================================
