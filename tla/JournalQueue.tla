---------------------------- MODULE JournalQueue ----------------------------
(***************************************************************************)
(* The browser's autosave queue of one journal, with the journal entries   *)
(* of the backend it writes to.                                            *)
(*                                                                         *)
(* A mentor marks cells; the queue keeps every mark as a draft, sends the  *)
(* drafts in batches with the version they were made over, takes in the    *)
(* answers, retries, shows conflicts and lets the mentor settle them, and  *)
(* drains before the page is left.  The code is single threaded, but every *)
(* await is a place where marks, timers and other answers come in between. *)
(* An await that goes on when the flush it waits for is over is an action  *)
(* of its own; the browser runs it before the next event, the model may    *)
(* also run it later.                                                      *)
(***************************************************************************)
EXTENDS Integers, FiniteSets

CONSTANTS
  Cell,        \* (student, lesson date) pairs: the journal's entries
  Value,       \* attendance, score and comment of an entry
  Blank,       \* the value of an entry nobody has graded
  NoValue,     \* null and undefined
  Sanitized,   \* sanitize_html: what the backend makes of a value
  Slot,        \* GET requests for the journal that may be under way together
  BatchLimit,  \* MAX_ENTRIES_PER_REQUEST
  MaxRetries,  \* length of BACKOFF_DELAYS_MS
  MaxActs,    \* bound: marks, retries, drains and discards
  MaxForeign,  \* bound: what other people do to the journal
  MaxFaults    \* bound: requests and answers that are lost, late or refused

ASSUME QueueConstants ==
  /\ Blank \in Value /\ NoValue \notin Value
  /\ Sanitized \in [Value -> Value] /\ Sanitized[Blank] = Blank
  /\ \A v \in Value : Sanitized[Sanitized[v]] = Sanitized[v]
  /\ BatchLimit \in Nat \ {0} /\ MaxRetries \in Nat
  /\ MaxActs \in Nat /\ MaxForeign \in Nat /\ MaxFaults \in Nat

VARIABLES
  server,    \* journal_entries: value, is_graded and version of each cell
  closed,    \* cells reject_invalid_cells refuses
  allowed,   \* the mentor may change this journal
  cell,      \* what the browser knows of each cell: queue record, conflict, grid
  request,   \* the batch under way: its entries, and the answer once there is one
  late,      \* batches the browser has given up and the backend may still serve
  fetch,     \* the GET requests under way
  queue,     \* flags and timers of the owner
  task,      \* where drain, retryManual and discardUnsettled wait
  wish,      \* ghost: the mentor's newest mark, until the backend has held it or
             \* he has taken it back; none if TakenForStored when it is made
  told,      \* ghost: what the last drain answered, forgotten at the next mark
  acts, foreign, faults

client == <<cell, queue, task>>
ghosts == <<wish, told>>
counts == <<acts, foreign, faults>>
backend == <<server, closed, allowed, late>>
vars == <<backend, client, request, fetch, ghosts, counts>>

\* An entry that is not there, on the server or in the grid: version 0.
Gone == [val |-> Blank, graded |-> FALSE, ver |-> 0]

Max2(m, n) == IF m > n THEN m ELSE n

-----------------------------------------------------------------------------
(* One cell in the browser.  record: confirmed, graded, ver, draft, sent    *)
(* (inFlight.value), and whether entries has it (live); clash and theirs:  *)
(* its conflict and the state shown for it; rejected; shown: the            *)
(* entry in the detail cache, which is the grid.  base is a ghost: the      *)
(* version the work on the cell was made over, or the newer one the mentor  *)
(* was shown in a conflict he settled, or his mark turned out to equal.     *)

Unrecorded ==
  [live |-> FALSE, confirmed |-> NoValue, graded |-> FALSE, ver |-> 0, draft |-> NoValue,
   sent |-> NoValue, clash |-> "none", theirs |-> Gone, rejected |-> FALSE,
   base |-> 0, shown |-> Gone]

Mine(r) == IF r.draft # NoValue THEN r.draft ELSE r.sent

HasWork(r) == r.draft # NoValue \/ r.sent # NoValue

\* entryRecord: the record, made from the cache when there is none.
Opened(r) ==
  IF r.live THEN r
  ELSE IF r.shown = Gone THEN [r EXCEPT !.live = TRUE]
  ELSE [r EXCEPT !.live = TRUE, !.confirmed = r.shown.val, !.graded = r.shown.graded,
                 !.ver = r.shown.ver]

\* Mutant: the overlay adopts the version it finds in the cache.
OverlaidAndRaised(r) ==
  [r EXCEPT !.ver = Max2(@, r.shown.ver),
            !.shown = [val |-> Mine(r), graded |-> TRUE, ver |-> Max2(r.ver, r.shown.ver)]]

\* overlayLocalWork
Overlaid(r) ==
  IF r.shown.val = Mine(r) /\ r.shown.ver = r.ver THEN r
  ELSE [r EXCEPT !.shown = [val |-> Mine(r), graded |-> TRUE, ver |-> r.ver]]

\* reapplyLocalWork, run by every write to the cache.
Reapplied(r) ==
  IF ~r.live \/ r.shown = Gone THEN r
  ELSE IF HasWork(r) THEN Overlaid(r)
  ELSE IF r.clash # "none" THEN r
  ELSE [r EXCEPT !.confirmed = r.shown.val, !.graded = r.shown.graded,
                 !.ver = Max2(r.ver, r.shown.ver)]

\* writeEntry changes an entry that is in the cache and adds none.
Written(r, v, isGraded) ==
  IF r.shown = Gone THEN Reapplied(r)
  ELSE Reapplied([r EXCEPT !.shown = [val |-> v, graded |-> isGraded, ver |-> r.ver]])

WithoutClash(r) == [r EXCEPT !.clash = "none", !.theirs = Gone]

\* stageEntry; grading is a score or an attendance, not a comment.
TakesBack(r, v, grading) ==
  /\ r.graded \/ ~grading
  /\ v = r.confirmed /\ r.sent = NoValue /\ r.clash = "none"

ChangesNothing(r, v, grading) == TakesBack(r, v, grading) /\ r.draft = NoValue

Staged(r0, v, grading) ==
  LET r    == Opened(r0)
      next == [r EXCEPT !.draft = IF TakesBack(r, v, grading) THEN NoValue ELSE v,
                        !.rejected = FALSE,
                        !.base = IF HasWork(r) THEN @ ELSE r.ver]
  IN IF ChangesNothing(r, v, grading) THEN r
     ELSE Written(next, v, HasWork(next) \/ r.graded)

Sendable(r) == r.draft # NoValue /\ r.clash = "none" /\ ~r.rejected

Claimed(r) == [r EXCEPT !.sent = r.draft, !.draft = NoValue]

\* Mutant: the draft is put back and inFlight left as it is.
RestoredInFlight(r) == [r EXCEPT !.draft = Mine(r)]

\* restoreInFlightEntry
Restored(r) == [r EXCEPT !.draft = Mine(r), !.sent = NoValue]

\* Mutant: the answer is taken for the newest mark.
NothingLeft(r, st) == NoValue

Left(r, st) == IF r.draft = st.val THEN NoValue ELSE r.draft

AbsorbedApplied(r0, st) ==
  LET r == Opened(r0)
  IN Written([r EXCEPT !.ver = Max2(@, st.ver), !.confirmed = st.val, !.graded = TRUE,
                       !.sent = NoValue, !.draft = Left(r, st),
                       !.base = Max2(@, st.ver)],
             IF Left(r, st) = NoValue THEN st.val ELSE Left(r, st), TRUE)

IsServerState(r, st) == st # Gone /\ r.sent # NoValue /\ st.val = r.sent

AbsorbedRejected(r0, st) ==
  LET r == Opened(r0)
      known == [r EXCEPT !.sent = NoValue, !.ver = Max2(@, st.ver), !.confirmed = st.val,
                         !.graded = st.graded, !.base = Max2(@, st.ver)]
  IN IF IsServerState(r, st)
     THEN Written(known, IF r.draft # NoValue THEN r.draft ELSE st.val, TRUE)
     ELSE [Restored(r) EXCEPT !.clash = "known", !.theirs = st]

\* reconcileWithServer, for one cell; st is what the GET read.
Reconciled(r, st) ==
  LET seen  == [r EXCEPT !.confirmed = st.val, !.graded = st.graded]
      equal == WithoutClash([seen EXCEPT !.draft = NoValue, !.ver = Max2(@, st.ver),
                                         !.base = Max2(@, st.ver)])
      clash == [seen EXCEPT !.clash = "known", !.theirs = st]
      next  == IF ~r.live THEN r
               ELSE IF r.draft = NoValue
               THEN IF r.sent # NoValue \/ st = Gone THEN r
                    ELSE [seen EXCEPT !.ver = Max2(@, st.ver)]
               ELSE IF st = Gone THEN [r EXCEPT !.clash = "known", !.theirs = Gone]
               ELSE IF r.draft = st.val THEN equal
               ELSE IF st.ver # r.ver \/ r.clash # "none" THEN clash
               ELSE seen
  IN Reapplied([next EXCEPT !.shown = st])

\* Mutant: the queue does not watch the cache.
ShownAsRead(r, st) == [r EXCEPT !.shown = st]

\* A refetch of the page's own query: the cache alone is replaced.
Refreshed(r, st) == Reapplied([r EXCEPT !.shown = st])

KeptMine(r) ==
  LET next == WithoutClash([r EXCEPT !.ver = r.theirs.ver, !.confirmed = r.theirs.val,
                                     !.graded = r.theirs.graded, !.base = r.theirs.ver])
  IN Written(next, IF r.draft # NoValue THEN r.draft ELSE r.theirs.val, TRUE)

KeptTheirs(r) ==
  IF r.theirs = Gone THEN [Unrecorded EXCEPT !.rejected = r.rejected]
  ELSE Written(WithoutClash([r EXCEPT !.draft = NoValue, !.ver = r.theirs.ver, !.confirmed = r.theirs.val,
                                      !.graded = r.theirs.graded, !.base = r.theirs.ver]),
               r.theirs.val, r.theirs.graded)

\* revertLocalWork without a fresh journal.
Reverted(r) ==
  LET back == IF r.clash = "known" THEN r.theirs
              ELSE [val |-> r.confirmed, graded |-> TRUE, ver |-> r.ver]
  IN IF r.draft = NoValue /\ r.clash = "none" THEN [r EXCEPT !.rejected = FALSE]
     ELSE [Unrecorded EXCEPT !.shown =
             IF r.shown = Gone \/ back = Gone THEN Gone
             ELSE IF r.clash # "known" /\ r.confirmed = NoValue THEN r.shown
             ELSE [back EXCEPT !.graded = TRUE]]

-----------------------------------------------------------------------------
(* The owner.  Its timers and halted are not state: a page that becomes     *)
(* hidden flushes whenever it does, so a timer allows nothing more.         *)

Stopped == [retries |-> 0, forbidden |-> FALSE, uncertain |-> FALSE, acked |-> FALSE,
            refetching |-> FALSE, outcome |-> "ok", flush |-> "idle"]

NoItems == [c \in {} |-> Gone]
NoRequest == [stage |-> "none", items |-> NoItems, kind |-> "none", ok |-> {}, state |-> NoItems]
NoFetch == [for |-> "none", stage |-> "up", data |-> [c \in Cell |-> Gone]]

Ungraded == [val |-> Blank, graded |-> FALSE, ver |-> 1]

Init ==
  /\ server = [c \in Cell |-> Ungraded] /\ closed = {} /\ allowed = TRUE /\ late = {}
  /\ cell = [c \in Cell |-> [Unrecorded EXCEPT !.shown = Ungraded]]
  /\ request = NoRequest
  /\ fetch = [s \in Slot |-> NoFetch]
  /\ queue = Stopped
  /\ task = [drain |-> "idle", manual |-> "idle", discard |-> "idle"]
  /\ wish = [c \in Cell |-> NoValue]
  /\ told = "nothing"
  /\ acts = 0 /\ foreign = 0 /\ faults = 0

HasSendable(q, cells) == ~q.forbidden /\ \E c \in Cell : Sendable(cells[c])

Clashes(cells) == {c \in Cell : cells[c].clash # "none"}

\* Mutant: drafts that were never sent are left out.
InFlightAlone(cells) == {c \in Cell : cells[c].sent # NoValue}

Unsettled(cells) == {c \in Cell : HasWork(cells[c])}

\* flush: it begins the cycles, unless they run or there is nothing to send.
Flushed(q, cells) ==
  IF q.flush # "idle" \/ ~HasSendable(q, cells) THEN q
  ELSE [q EXCEPT !.flush = "claim", !.acked = FALSE]

\* schedule: the debounce, which FlushDue stands for, or at once while a drain runs.
Scheduled(q, cells) == IF task.drain # "idle" THEN Flushed(q, cells) ELSE q

StartFetch(s, purpose) ==
  /\ fetch[s] = NoFetch
  /\ fetch' = [fetch EXCEPT ![s].for = purpose]

-----------------------------------------------------------------------------
(* The mentor.                                                             *)

\* The backend has held v before the mark v is made, and what it said then, an
\* answer or a GET to be reconciled with, is on its way.  The queue may take the
\* mark for the stored one, though others have changed the entry since.
TakenForStored(c, v) ==
  \/ request.kind = "done" /\ c \in request.ok /\ request.state[c].val = v
  \/ \E s \in Slot : /\ fetch[s].stage = "down" /\ fetch[s].for \in {"conflict", "manual"}
                    /\ fetch[s].data[c].val = v

Holds(st, v) == st # Gone /\ st.val = Sanitized[v]

\* applyEntryCommand on a cell of the grid.
Edit(c, v, grading) ==
  LET next  == Staged(cell[c], v, grading)
      cells == [cell EXCEPT ![c] = next]
  IN /\ acts < MaxActs /\ cell[c].shown # Gone
     /\ acts' = acts + 1
     /\ cell' = cells
     /\ queue' = IF ChangesNothing(Opened(cell[c]), v, grading) \/ next.clash # "none"
                 THEN queue ELSE Scheduled(queue, cells)
     /\ wish' = [wish EXCEPT ![c] = IF Holds(server[c], v) \/ TakenForStored(c, v)
                                    THEN NoValue ELSE next.draft]
     /\ told' = "nothing"
     /\ UNCHANGED <<backend, request, fetch, task, foreign, faults>>

\* resolveConflict; a conflict can be resolved once its other side is known.
Resolvable(c) == cell[c].clash = "known" /\ ~queue.refetching

KeepMine(c) ==
  LET cells == [cell EXCEPT ![c] = KeptMine(cell[c])]
  IN /\ Resolvable(c) /\ cell[c].theirs # Gone
     /\ cell' = cells
     /\ queue' = IF cell[c].draft # NoValue THEN Scheduled(queue, cells) ELSE queue
     /\ UNCHANGED <<backend, request, fetch, task, ghosts, counts>>

KeepTheirs(c) ==
  LET cells == [cell EXCEPT ![c] = KeptTheirs(cell[c])]
  IN /\ Resolvable(c)
     /\ cell' = cells
     /\ queue' = IF Clashes(cells) = {} /\ HasSendable(queue, cells)
                 THEN Scheduled(queue, cells) ELSE queue
     /\ wish' = [wish EXCEPT ![c] = NoValue]
     /\ UNCHANGED <<backend, request, fetch, task, told, counts>>

\* retryManual
Retry ==
  /\ task.manual = "idle" /\ acts < MaxActs
  /\ acts' = acts + 1
  /\ queue' = [queue EXCEPT !.forbidden = FALSE, !.retries = 0]
  /\ task' = [task EXCEPT !.manual = "waiting"]
  /\ UNCHANGED <<backend, cell, request, fetch, ghosts, foreign, faults>>

\* drain, when the mentor leaves the page or opens its settings.
Drain ==
  /\ task.drain = "idle" /\ task.discard = "idle" /\ acts < MaxActs
  /\ acts' = acts + 1
  /\ queue' = [queue EXCEPT !.retries = 0]
  /\ task' = [task EXCEPT !.drain = "check"]
  /\ told' = "nothing"
  /\ UNCHANGED <<backend, cell, request, fetch, wish, foreign, faults>>

\* discardUnsettled, offered when a drain has failed.
Discard ==
  /\ task.discard = "idle" /\ task.drain = "idle" /\ acts < MaxActs
  /\ acts' = acts + 1
  /\ task' = [task EXCEPT !.discard = "waiting"]
  /\ UNCHANGED <<backend, cell, request, fetch, queue, ghosts, foreign, faults>>

-----------------------------------------------------------------------------
(* The event loop: timers, and what goes on after an await.                *)

\* The debounce, the retry timer, or the page becoming hidden.
FlushDue ==
  /\ queue' = Flushed(queue, cell) /\ queue' # queue
  /\ UNCHANGED <<backend, cell, task, request, fetch, ghosts, counts>>

\* One round of runCycles up to its await.
ClaimBatch ==
  /\ queue.flush = "claim"
  /\ LET ready == {c \in Cell : Sendable(cell[c])}
     IN IF ready = {}
        THEN /\ queue' = [queue EXCEPT !.outcome = "ok", !.flush = "idle", !.acked = FALSE,
                  !.uncertain = @ /\ ~(/\ queue.acked /\ Unsettled(cell) = {}
                                       /\ Clashes(cell) = {})]
             /\ UNCHANGED <<cell, request>>
        ELSE \E batch \in SUBSET ready :
               /\ Cardinality(batch) = IF Cardinality(ready) < BatchLimit
                                       THEN Cardinality(ready) ELSE BatchLimit
               /\ cell' = [c \in Cell |-> IF c \in batch THEN Claimed(cell[c]) ELSE cell[c]]
               /\ request' = [NoRequest EXCEPT !.stage = "up", !.items =
                    [c \in batch |-> [val |-> cell[c].draft, ver |-> cell[c].ver,
                                      base |-> cell[c].base]]]
               /\ queue' = [queue EXCEPT !.flush = "sending"]
  /\ UNCHANGED <<backend, task, fetch, ghosts, counts>>

InFlight == {c \in Cell : cell[c].sent # NoValue}

\* settleCycle after a conflict or an error that is not retried.
Ended(outcome) ==
  [queue EXCEPT !.retries = 0, !.outcome = outcome, !.flush = "idle"]

\* refreshUnknownConflicts: a GET nobody waits for.
RefreshUnknown(q) ==
  IF \E c \in Cell : cell'[c].clash = "unknown"
  THEN /\ \E s \in Slot : StartFetch(s, "conflict")
       /\ queue' = [q EXCEPT !.refetching = TRUE]
  ELSE queue' = q /\ UNCHANGED fetch

\* absorbBatchResponse: each entry applied, or in conflict with a state the
\* answer shows.  The backend answers for every entry it was sent.
AbsorbBatch ==
  /\ request.stage = "down" /\ request.kind = "done"
  /\ LET items == DOMAIN request.items
         clash == {c \in items \ request.ok : ~IsServerState(cell[c], request.state[c])}
         acked == queue.acked \/ clash # items
     IN /\ cell' = [c \in Cell |->
             IF c \notin items THEN cell[c]
             ELSE IF c \in request.ok THEN AbsorbedApplied(cell[c], request.state[c])
             ELSE AbsorbedRejected(cell[c], request.state[c])]
        /\ IF clash = {}
           THEN /\ queue' = [queue EXCEPT !.acked = acked, !.retries = 0, !.outcome = "ok",
                                          !.flush = "claim"]
                /\ UNCHANGED fetch
           ELSE RefreshUnknown([Ended("conflict") EXCEPT !.acked = acked])
  /\ request' = NoRequest
  /\ UNCHANGED <<backend, task, ghosts, counts>>

\* absorbEntryFailure of a 409: the whole batch, with no state shown.
AbsorbClash ==
  /\ request.stage = "down" /\ request.kind = "clash"
  /\ LET newer == {c \in InFlight : cell[c].draft # NoValue}
     IN /\ cell' = [c \in Cell |->
             IF c \notin InFlight THEN cell[c]
             ELSE IF c \in newer THEN Restored(cell[c])
             ELSE [Restored(cell[c]) EXCEPT !.clash = "unknown", !.theirs = Gone]]
        /\ IF InFlight # newer THEN RefreshUnknown(Ended("conflict"))
           ELSE queue' = Ended("terminal") /\ UNCHANGED fetch
  /\ request' = NoRequest
  /\ UNCHANGED <<backend, task, ghosts, counts>>

\* A 422 that lists cells, a 403, or another refusal.
AbsorbRefusal ==
  /\ request.stage = "down" /\ request.kind \in {"invalid", "forbidden", "refused"}
  /\ cell' = [c \in Cell |->
       LET r == IF c \in InFlight THEN Restored(cell[c]) ELSE cell[c]
       IN [r EXCEPT !.rejected = @ \/ (request.kind = "invalid" /\ c \in request.ok)]]
  /\ queue' = [Ended("terminal") EXCEPT !.forbidden = @ \/ (request.kind = "forbidden")]
  /\ request' = NoRequest
  /\ UNCHANGED <<backend, task, fetch, ghosts, counts>>

\* No answer, or a 5xx: retried after a delay, but not while a drain waits.
Retries == queue.retries < MaxRetries /\ task.drain = "idle"

AbsorbError ==
  /\ request.stage = "down" /\ request.kind = "error"
  /\ cell' = [c \in Cell |-> IF c \in InFlight THEN Restored(cell[c]) ELSE cell[c]]
  /\ queue' = IF Retries
              THEN [queue EXCEPT !.uncertain = TRUE, !.retries = @ + 1,
                                   !.outcome = "transient", !.flush = "idle"]
              ELSE [queue EXCEPT !.uncertain = TRUE, !.retries = 0,
                                   !.outcome = "terminal", !.flush = "idle"]
  /\ request' = NoRequest
  /\ UNCHANGED <<backend, task, fetch, ghosts, counts>>

Absorb == AbsorbBatch \/ AbsorbClash \/ AbsorbRefusal \/ AbsorbError

\* drain returns.
DrainEnd ==
  /\ task' = [task EXCEPT !.drain = "idle"]
  /\ told' = IF Clashes(cell) # {} THEN "conflict"
             ELSE IF Unsettled(cell) # {} THEN "failed" ELSE "acknowledged"
  /\ UNCHANGED queue

DrainStep ==
  /\ \/ /\ task.drain = "check" /\ queue.flush = "idle" /\ HasSendable(queue, cell)
        /\ queue' = Flushed(queue, cell)
        /\ task' = [task EXCEPT !.drain = "await"]
        /\ UNCHANGED told
     \/ /\ task.drain = "check" /\ queue.flush = "idle" /\ ~HasSendable(queue, cell)
        /\ DrainEnd
     \/ /\ task.drain = "check" /\ queue.flush # "idle"
        /\ task' = [task EXCEPT !.drain = "await"]
        /\ UNCHANGED <<queue, told>>
     \/ /\ task.drain = "await" /\ queue.flush = "idle" /\ queue.outcome = "ok"
        /\ task' = [task EXCEPT !.drain = "check"]
        /\ UNCHANGED <<queue, told>>
     \/ /\ task.drain = "await" /\ queue.flush = "idle" /\ queue.outcome # "ok"
        /\ DrainEnd
  /\ UNCHANGED <<backend, cell, request, fetch, wish, counts>>

\* What retryManual and discardUnsettled do once no flush runs.
ManualStep ==
  /\ task.manual = "waiting" /\ queue.flush = "idle"
  /\ \E s \in Slot : StartFetch(s, "manual")
  /\ queue' = [queue EXCEPT !.refetching = TRUE]
  /\ task' = [task EXCEPT !.manual = "fetching"]
  /\ UNCHANGED <<backend, cell, request, ghosts, counts>>

Discarded(cells) ==
  /\ cell' = cells
  /\ queue' = [queue EXCEPT !.uncertain = FALSE, !.retries = 0, !.refetching = FALSE]
  /\ task' = [task EXCEPT !.discard = "idle"]
  /\ wish' = [c \in Cell |-> NoValue]
  /\ UNCHANGED told

DiscardStep ==
  /\ task.discard = "waiting" /\ queue.flush = "idle"
  /\ \/ /\ queue.uncertain
        /\ \E s \in Slot : StartFetch(s, "discard")
        /\ queue' = [queue EXCEPT !.refetching = TRUE]
        /\ task' = [task EXCEPT !.discard = "fetching"]
        /\ UNCHANGED <<cell, ghosts>>
     \/ /\ ~queue.uncertain
        /\ Discarded([c \in Cell |-> Reverted(cell[c])])
        /\ UNCHANGED fetch
  /\ UNCHANGED <<backend, request, counts>>

\* A GET comes back with the journal.
FetchArrives(s) ==
  /\ fetch[s].stage = "down"
  /\ fetch' = [fetch EXCEPT ![s] = NoFetch]
  /\ LET data  == fetch[s].data
         cells == [c \in Cell |-> Reconciled(cell[c], data[c])]
         ready == [queue EXCEPT !.uncertain = FALSE, !.refetching = FALSE]
     IN \/ /\ fetch[s].for = "page"
           /\ cell' = [c \in Cell |-> Refreshed(cell[c], data[c])]
           /\ UNCHANGED <<queue, task, ghosts>>
        \/ /\ fetch[s].for = "conflict"
           /\ cell' = cells /\ queue' = ready
           /\ UNCHANGED <<task, ghosts>>
        \/ /\ fetch[s].for = "manual"
           /\ cell' = cells
           /\ queue' = IF Clashes(cells) = {} /\ HasSendable(queue, cells)
                       THEN Flushed(ready, cells) ELSE ready
           /\ task' = [task EXCEPT !.manual = "idle"]
           /\ UNCHANGED ghosts
        \/ /\ fetch[s].for = "discard"
           /\ Discarded([c \in Cell |-> [Unrecorded EXCEPT !.shown = data[c]]])
  /\ UNCHANGED <<backend, request, counts>>

\* A GET fails: the drafts stay, and a discard is called off.
FetchFails(s) ==
  /\ fetch[s] # NoFetch /\ faults < MaxFaults
  /\ faults' = faults + 1
  /\ fetch' = [fetch EXCEPT ![s] = NoFetch]
  /\ queue' = [queue EXCEPT !.refetching = @ /\ fetch[s].for = "page"]
  /\ task' = [task EXCEPT !.manual = IF fetch[s].for = "manual" THEN "idle" ELSE @,
                          !.discard = IF fetch[s].for = "discard" THEN "idle" ELSE @]
  /\ UNCHANGED <<backend, cell, request, ghosts, acts, foreign>>

\* The page's own query refetches the journal.
PageRefetch ==
  /\ foreign < MaxForeign
  /\ foreign' = foreign + 1
  /\ \E s \in Slot : StartFetch(s, "page")
  /\ UNCHANGED <<backend, client, request, ghosts, acts, faults>>

-----------------------------------------------------------------------------
(* The backend and the network.                                            *)

MetBy(srv) ==
  wish' = [c \in Cell |-> IF wish[c] # NoValue /\ Holds(srv[c], wish[c]) THEN NoValue ELSE wish[c]]

\* batch_update_entries takes an entry that is as it should be already, or
\* still has the version submitted.
Accepted(items) ==
  {c \in DOMAIN items :
     /\ server[c] # Gone
     /\ \/ server[c].graded /\ server[c].val = items[c].val
        \/ server[c].ver = items[c].ver}

Marked(st, v) ==
  IF st.graded /\ st.val = Sanitized[v] THEN st
  ELSE [val |-> Sanitized[v], graded |-> TRUE, ver |-> st.ver + 1]

Answer(items) ==
  IF ~allowed THEN "forbidden"
  ELSE IF DOMAIN items \cap closed # {} THEN "invalid"
  ELSE IF Accepted(items) = {} THEN "clash"
  ELSE "done"

ServedState(items) ==
  IF Answer(items) # "done" THEN server
  ELSE [c \in Cell |-> IF c \in Accepted(items) THEN Marked(server[c], items[c].val) ELSE server[c]]

\* A batch is one transaction: the versions are checked again by its UPDATEs.
\* Unlike other routes, this one commits before it answers, as it leaves
\* JournalCommandTransaction; when the commit fails it answers that (Fail).
Serve ==
  /\ request.stage = "up"
  /\ LET items == request.items IN
     /\ server' = ServedState(items)
     /\ request' = [request EXCEPT
          !.stage = "down", !.kind = Answer(items),
          !.ok = IF Answer(items) = "invalid" THEN DOMAIN items \cap closed ELSE Accepted(items),
          !.state = [c \in DOMAIN items |-> ServedState(items)[c]]]
  /\ MetBy(server')
  /\ UNCHANGED <<closed, allowed, late, client, fetch, told, counts>>

\* The batch loses a race in the database, is refused, or gets no answer; the
\* backend may serve the last kind later all the same.
Fail(kind) ==
  /\ request.stage = "up" /\ faults < MaxFaults
  /\ faults' = faults + 1
  /\ request' = [request EXCEPT !.stage = "down", !.kind = kind]
  /\ late' = IF kind = "error" THEN late \cup {request.items} ELSE late
  /\ UNCHANGED <<server, closed, allowed, client, fetch, ghosts, acts, foreign>>

LoseAnswer ==
  /\ request.stage = "down" /\ request.kind # "error" /\ faults < MaxFaults
  /\ faults' = faults + 1
  /\ request' = [request EXCEPT !.kind = "error"]
  /\ UNCHANGED <<backend, client, fetch, ghosts, acts, foreign>>

ServeLate(items) ==
  /\ server' = ServedState(items)
  /\ late' = late \ {items}
  /\ MetBy(server')
  /\ UNCHANGED <<closed, allowed, client, request, fetch, told, counts>>

FetchReads(s) ==
  /\ fetch[s].for # "none" /\ fetch[s].stage = "up"
  /\ fetch' = [fetch EXCEPT ![s].stage = "down", ![s].data = server]
  /\ UNCHANGED <<backend, client, request, ghosts, counts>>

\* What other people do: mark an entry, remove one (a lesson that is no more),
\* close or open a cell, take the course from the mentor or give it back.
Others ==
  /\ foreign < MaxForeign
  /\ foreign' = foreign + 1
  /\ \/ \E c \in Cell, v \in Value :
          /\ server[c] # Gone /\ Marked(server[c], v) # server[c]
          /\ server' = [server EXCEPT ![c] = Marked(@, v)]
          /\ MetBy(server')
          /\ UNCHANGED <<closed, allowed>>
     \/ \E c \in Cell :
          /\ server[c] # Gone
          /\ server' = [server EXCEPT ![c] = Gone]
          /\ UNCHANGED <<closed, allowed, wish>>
     \/ \E c \in Cell :
          /\ closed' = IF c \in closed THEN closed \ {c} ELSE closed \cup {c}
          /\ UNCHANGED <<server, allowed, wish>>
     \/ /\ allowed' = ~allowed
        /\ UNCHANGED <<server, closed, wish>>
  /\ UNCHANGED <<late, client, request, fetch, told, acts, faults>>

-----------------------------------------------------------------------------
Mentor ==
  \/ \E c \in Cell, v \in Value, grading \in BOOLEAN : Edit(c, v, grading)
  \/ \E c \in Cell : KeepMine(c) \/ KeepTheirs(c)
  \/ Retry \/ Drain \/ Discard

Browser ==
  \/ FlushDue \/ ClaimBatch \/ Absorb \/ DrainStep \/ ManualStep \/ DiscardStep
  \/ \E s \in Slot : FetchArrives(s)

Network ==
  \/ Serve \/ LoseAnswer
  \/ \E kind \in {"clash", "refused", "error"} : Fail(kind)
  \/ \E items \in late : ServeLate(items)
  \/ \E s \in Slot : FetchReads(s) \/ FetchFails(s)

Next == Mentor \/ Browser \/ Network \/ Others \/ PageRefetch

Spec == Init /\ [][Next]_vars

-----------------------------------------------------------------------------
State == [val : Value, graded : BOOLEAN, ver : Nat]

Record ==
  [live : BOOLEAN, confirmed : Value \cup {NoValue}, graded : BOOLEAN, ver : Nat,
   draft : Value \cup {NoValue}, sent : Value \cup {NoValue},
   clash : {"none", "known", "unknown"}, theirs : State, rejected : BOOLEAN,
   base : Nat, shown : State]

Owner ==
  [retries : 0 .. MaxRetries,
   forbidden : BOOLEAN, uncertain : BOOLEAN, acked : BOOLEAN, refetching : BOOLEAN,
   outcome : {"ok", "conflict", "terminal", "transient"},
   flush : {"idle", "claim", "sending"}]

Item == [val : Value, ver : Nat, base : Nat]
PartOf(f, S) == DOMAIN f \subseteq Cell /\ f \in [DOMAIN f -> S]

\* The types of the queue's state and of what is on its way to the backend and
\* back (JournalQueueBase.ts, journalQueueRecords.ts); what a cell has in flight
\* is in the batch that is under way, and there is none between two flushes.
TypeOK ==
  /\ server \in [Cell -> State] /\ closed \in SUBSET Cell /\ allowed \in BOOLEAN
  /\ \A items \in late : PartOf(items, Item)
  /\ cell \in [Cell -> Record]
  /\ request.stage \in {"none", "up", "down"} /\ PartOf(request.items, Item)
  /\ request.kind \in {"none", "done", "clash", "invalid", "forbidden", "refused", "error"}
  /\ request.ok \subseteq Cell /\ PartOf(request.state, State)
  /\ fetch \in [Slot -> [for : {"none", "page", "conflict", "manual", "discard"},
                         stage : {"up", "down"}, data : [Cell -> State]]]
  /\ InFlight \subseteq DOMAIN request.items
  /\ (queue.flush = "sending") = (request.stage # "none")
  /\ queue \in Owner
  /\ task \in [drain : {"idle", "check", "await"}, manual : {"idle", "waiting", "fetching"},
               discard : {"idle", "waiting", "fetching"}]
  /\ wish \in [Cell -> Value \cup {NoValue}]
  /\ told \in {"nothing", "acknowledged", "conflict", "failed"}
  /\ acts \in 0 .. MaxActs /\ foreign \in 0 .. MaxForeign /\ faults \in 0 .. MaxFaults

\* A mark is not lost: until the backend has held it, or the mentor has taken
\* it back, the queue has it as the newest work on its cell, whatever answers,
\* refusals, retries and refetches came in between.  A mark that an older answer
\* or GET still to come in shows as stored counts as held when it is made
\* (TakenForStored): absorbAppliedEntry and reconcileWithServer drop it.
EditsAreKept ==
  \A c \in Cell : wish[c] # NoValue => Mine(cell[c]) = wish[c]

\* When drain answers that everything is acknowledged, and the page is left,
\* the backend has held the value of every mark that was not taken back: since
\* the mark was made, or, where an answer or GET still to come in then showed
\* it (TakenForStored), before it.  In the second case somebody else may have
\* changed the entry in between, and it stays as he left it.
AcknowledgedIsStored ==
  told = "acknowledged" => \A c \in Cell : wish[c] = NoValue

\* A batch never overwrites what the mentor has not seen: when it changes an
\* entry, the entry still has the version the mentor's work was made over, was
\* shown against, or turned out to equal.  Other changes are other people's.
OverItsBase(c) ==
  \/ \E items \in late \cup {request.items} :
       /\ c \in DOMAIN items
       /\ items[c].base = server[c].ver
       /\ server'[c].val = Sanitized[items[c].val]
  \/ foreign' # foreign

NoBlindOverwrite == [][\A c \in Cell : server'[c] # server[c] => OverItsBase(c)]_vars

\* Whatever the page's refetches, answers and conflicts write into the detail
\* cache, the grid goes on to show the mentor's newest mark.
GridShowsTheMark ==
  \A c \in Cell :
    (HasWork(cell[c]) /\ cell[c].shown # Gone) => cell[c].shown.val = Mine(cell[c])

=============================================================================
