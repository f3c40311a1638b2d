------------------------ MODULE JournalQueue_proofs ------------------------
(***************************************************************************)
(* Proofs about JournalQueue, for any number of cells, values, GETs and    *)
(* acts: the types, that no mark is dropped before the backend has held    *)
(* it, that a drain which reports success is right, that the grid shows    *)
(* the newest mark, and that no batch writes over a state the mentor was   *)
(* not shown.                                                              *)
(***************************************************************************)
EXTENDS JournalQueue, TLAPS


Sound(r) == r \in Record /\ (HasWork(r) => r.live /\ r.base = r.ver)
Good(r) ==
  /\ Sound(r)
  /\ (HasWork(r) /\ r.shown # Gone) => r.shown.val = Mine(r)
SameWork(r, s) == s.draft = r.draft /\ s.sent = r.sent

LEMMA MaxIsNat == ASSUME NEW m \in Nat, NEW n \in Nat PROVE Max2(m, n) \in Nat
BY DEF Max2

LEMMA MineIsValue == ASSUME NEW r \in Record, HasWork(r) PROVE Mine(r) \in Value
BY DEF Record, HasWork, Mine

LEMMA GoneIsState == Gone \in State /\ Gone.val \in Value
BY QueueConstants DEF Gone, State

LEMMA OverlaidGood == ASSUME NEW r, Sound(r), HasWork(r) PROVE Good(Overlaid(r)) /\ SameWork(r, Overlaid(r))
<1> DEFINE x == [val |-> Mine(r), graded |-> TRUE, ver |-> r.ver]
           s == [r EXCEPT !.shown = x]
<1>1. r \in Record /\ x \in State /\ x.val = Mine(r)
  BY MineIsValue DEF Sound, State, Record
<1> HIDE DEF x
<1>2. s \in Record /\ s.shown = x /\ s.draft = r.draft /\ s.sent = r.sent /\ s.live = r.live /\ s.base = r.base /\ s.ver = r.ver
  BY <1>1 DEF Record
<1> HIDE DEF s
<1>3. Overlaid(r) \in {r, s} /\ (Overlaid(r) = r => r.shown.val = Mine(r))
  BY <1>1, <1>2 DEF Overlaid, s, x
<1>4. Good(s) /\ SameWork(r, s)
  BY <1>1, <1>2 DEF Good, Sound, SameWork, HasWork, Mine
<1> QED
  BY <1>3, <1>4 DEF Good, SameWork, Sound

LEMMA ReappliedGood == ASSUME NEW r, Sound(r) PROVE Good(Reapplied(r)) /\ SameWork(r, Reapplied(r))
<1> DEFINE s == [r EXCEPT !.confirmed = r.shown.val, !.graded = r.shown.graded, !.ver = Max2(r.ver, r.shown.ver)]
<1>1. r \in Record /\ r.shown \in State /\ r.shown.val \in Value /\ r.shown.graded \in BOOLEAN /\ Max2(r.ver, r.shown.ver) \in Nat
  BY MaxIsNat DEF Sound, Record, State
<1>2. s \in Record /\ SameWork(r, s)
  BY <1>1 DEF Record, SameWork
<1> HIDE DEF s
<1>3. CASE HasWork(r) /\ r.shown # Gone /\ r.live
  BY <1>3, OverlaidGood DEF Reapplied
<1>4. CASE ~HasWork(r) \/ r.shown = Gone \/ ~r.live
  <2>1. Reapplied(r) = r \/ (Reapplied(r) = s /\ ~HasWork(r))
    BY <1>4 DEF Reapplied, s, Sound
  <2>2. ~HasWork(r) => ~HasWork(s)
    BY <1>2 DEF SameWork, HasWork
  <2> QED
  BY <1>2, <1>4, <2>1, <2>2 DEF Good, Sound, SameWork, HasWork
<1> QED BY <1>3, <1>4

LEMMA WrittenGood == ASSUME NEW r, Sound(r), NEW v \in Value, NEW g \in BOOLEAN
  PROVE Good(Written(r, v, g)) /\ SameWork(r, Written(r, v, g))
<1> DEFINE x == [val |-> v, graded |-> g, ver |-> r.ver]
           s == [r EXCEPT !.shown = x]
<1>1. r \in Record /\ x \in State
  BY DEF Sound, State, Record
<1> HIDE DEF x
<1>2. s \in Record /\ SameWork(r, s) /\ s.live = r.live /\ s.base = r.base /\ s.ver = r.ver
  BY <1>1 DEF Record, SameWork
<1> HIDE DEF s
<1>3. Sound(s)
  BY <1>2 DEF Sound, HasWork, SameWork
<1>4. Written(r, v, g) \in {Reapplied(r), Reapplied(s)}
  BY DEF Written, s, x
<1> QED
  BY <1>2, <1>3, <1>4, ReappliedGood DEF SameWork

LEMMA Annotated ==
  ASSUME NEW r, Good(r), NEW b \in BOOLEAN, NEW k \in {"none", "known", "unknown"}, NEW t \in State
  PROVE  /\ Good([r EXCEPT !.rejected = b]) /\ SameWork(r, [r EXCEPT !.rejected = b])
         /\ Good([r EXCEPT !.clash = k, !.theirs = t])
         /\ SameWork(r, [r EXCEPT !.clash = k, !.theirs = t])
<1> DEFINE x == [r EXCEPT !.rejected = b]
           y == [r EXCEPT !.clash = k, !.theirs = t]
<1>1. x \in Record /\ SameWork(r, x) /\ x.live = r.live /\ x.base = r.base /\ x.ver = r.ver
      /\ x.shown = r.shown
  BY DEF Good, Sound, Record, SameWork
<1>2. y \in Record /\ SameWork(r, y) /\ y.live = r.live /\ y.base = r.base /\ y.ver = r.ver
      /\ y.shown = r.shown
  BY DEF Good, Sound, Record, SameWork
<1> HIDE DEF x, y
<1>3. Good(x) /\ Good(y)
  BY <1>1, <1>2 DEF Good, Sound, SameWork, HasWork, Mine
<1> QED
  BY <1>1, <1>2, <1>3 DEF x, y

LEMMA OpenedGood ==
  ASSUME NEW r, Good(r)
  PROVE  Good(Opened(r)) /\ SameWork(r, Opened(r)) /\ Opened(r).live
<1> DEFINE x == [r EXCEPT !.live = TRUE]
           y == [r EXCEPT !.live = TRUE, !.confirmed = r.shown.val, !.graded = r.shown.graded,
                          !.ver = r.shown.ver]
<1>1. r \in Record /\ r.shown.val \in Value /\ r.shown.graded \in BOOLEAN /\ r.shown.ver \in Nat
  BY DEF Good, Sound, Record, State
<1>2. x \in Record /\ SameWork(r, x) /\ x.live
  BY <1>1 DEF Record, SameWork
<1>3. y \in Record /\ SameWork(r, y) /\ y.live
  BY <1>1 DEF Record, SameWork
<1>4. Opened(r) = IF r.live THEN r ELSE IF r.shown = Gone THEN x ELSE y
  BY DEF Opened
<1> HIDE DEF x, y
<1>5. ~r.live => ~HasWork(r)
  BY DEF Good, Sound
<1> QED
  BY <1>1, <1>2, <1>3, <1>4, <1>5 DEF Good, Sound, SameWork, HasWork

LEMMA StagedGood ==
  ASSUME NEW r, Good(r), NEW v \in Value, NEW grading \in BOOLEAN
  PROVE  LET s == Staged(r, v, grading)
         IN /\ Good(s) /\ s.sent = r.sent /\ s.draft \in {v, NoValue}
            /\ r.sent # NoValue => s.draft = v
<1> DEFINE o == Opened(r)
           d == IF TakesBack(o, v, grading) THEN NoValue ELSE v
           b == IF HasWork(o) THEN o.base ELSE o.ver
           n == [o EXCEPT !.draft = d, !.rejected = FALSE, !.base = b]
           g == HasWork(n) \/ o.graded
<1>1. Good(o) /\ SameWork(r, o) /\ o.live /\ o \in Record
  BY OpenedGood DEF Good, Sound
<1>2. d \in {v, NoValue} /\ (o.sent # NoValue => d = v) /\ b \in Nat /\ (HasWork(o) => b = o.ver)
      /\ (~HasWork(o) => b = o.ver)
  BY <1>1 DEF TakesBack, Good, Sound, Record
<1>3. ChangesNothing(o, v, grading) => o.draft = NoValue /\ o.sent = NoValue
  BY DEF ChangesNothing, TakesBack
<1>4. Staged(r, v, grading) = IF ChangesNothing(o, v, grading) THEN o ELSE Written(n, v, g)
  BY DEF Staged
<1> HIDE DEF o, d, b
<1>5. n \in Record /\ n.draft = d /\ n.sent = o.sent /\ n.live = o.live /\ n.base = b /\ n.ver = o.ver
  BY <1>1, <1>2 DEF Record
<1> HIDE DEF n
<1>6. Sound(n) /\ g \in BOOLEAN
  BY <1>1, <1>2, <1>5 DEF Sound, HasWork, Record
<1> HIDE DEF g
<1>7. Good(Written(n, v, g)) /\ SameWork(n, Written(n, v, g))
  BY <1>6, WrittenGood
<1> QED
  BY <1>1, <1>2, <1>3, <1>4, <1>5, <1>7 DEF SameWork

LEMMA ClaimedGood ==
  ASSUME NEW r, Good(r), r.draft # NoValue
  PROVE  Good(Claimed(r)) /\ Claimed(r).sent = r.draft /\ Claimed(r).draft = NoValue
<1>1. r \in Record
  BY DEF Good, Sound
<1> DEFINE s == Claimed(r)
<1>2. s \in Record /\ s.sent = r.draft /\ s.draft = NoValue /\ s.live = r.live /\ s.base = r.base
      /\ s.ver = r.ver /\ s.shown = r.shown
  BY <1>1 DEF Record, Claimed
<1> HIDE DEF s
<1>3. Good(s)
  BY <1>2 DEF Good, Sound, HasWork, Mine
<1> QED
  BY <1>2, <1>3 DEF s

LEMMA RestoredGood ==
  ASSUME NEW r, Good(r)
  PROVE  Good(Restored(r)) /\ Restored(r).sent = NoValue /\ Restored(r).draft = Mine(r)
<1>1. r \in Record
  BY DEF Good, Sound
<1> DEFINE s == Restored(r)
<1>2. s \in Record /\ s.sent = NoValue /\ s.draft = Mine(r) /\ s.live = r.live /\ s.base = r.base
      /\ s.ver = r.ver /\ s.shown = r.shown
  BY <1>1 DEF Record, Restored, Mine
<1> HIDE DEF s
<1>3. Good(s)
  BY <1>2 DEF Good, Sound, HasWork, Mine
<1> QED
  BY <1>2, <1>3 DEF s

LEMMA AppliedGood ==
  ASSUME NEW r, Good(r), NEW st \in State
  PROVE  LET s == AbsorbedApplied(r, st)
         IN Good(s) /\ s.sent = NoValue /\ s.draft = Left(r, st)
<1> DEFINE o == Opened(r)
           d == Left(o, st)
           n == [o EXCEPT !.ver = Max2(@, st.ver), !.confirmed = st.val, !.graded = TRUE,
                          !.sent = NoValue, !.draft = Left(o, st), !.base = Max2(@, st.ver)]
           v == IF Left(o, st) = NoValue THEN st.val ELSE Left(o, st)
<1>1. Good(o) /\ SameWork(r, o) /\ o.live /\ o \in Record /\ d = Left(r, st)
  BY OpenedGood DEF Good, Sound, SameWork, Left
<1>2. /\ d \in Value \cup {NoValue} /\ d \in {NoValue, o.draft} /\ st.val \in Value /\ v \in Value
      /\ Max2(o.ver, st.ver) \in Nat /\ Max2(o.base, st.ver) \in Nat
  BY <1>1, MaxIsNat DEF Left, Record, State
<1>3. AbsorbedApplied(r, st) = Written(n, v, TRUE)
  BY DEF AbsorbedApplied
<1> HIDE DEF o
<1>4. n \in Record /\ n.draft = d /\ n.sent = NoValue /\ n.live = o.live
      /\ n.base = Max2(o.base, st.ver) /\ n.ver = Max2(o.ver, st.ver)
  <2> HIDE DEF d
  <2>1. n = [o EXCEPT !.ver = Max2(@, st.ver), !.confirmed = st.val, !.graded = TRUE,
                      !.sent = NoValue, !.draft = d, !.base = Max2(@, st.ver)]
    BY DEF d
  <2> QED
    BY <1>1, <1>2, <2>1 DEF Record
<1> HIDE DEF n
<1>5. Sound(n)
  BY <1>1, <1>2, <1>4 DEF Sound, Good, HasWork
<1> HIDE DEF v
<1>6. Good(Written(n, v, TRUE)) /\ SameWork(n, Written(n, v, TRUE))
  BY <1>2, <1>5, WrittenGood
<1> QED
  BY <1>1, <1>3, <1>4, <1>6 DEF SameWork

LEMMA RejectedGood ==
  ASSUME NEW r, Good(r), NEW st \in State
  PROVE  LET s == AbsorbedRejected(r, st)
         IN /\ Good(s) /\ s.sent = NoValue
            /\ s.draft = IF IsServerState(r, st) THEN r.draft ELSE Mine(r)
<1> DEFINE o == Opened(r)
           n == [o EXCEPT !.sent = NoValue, !.ver = Max2(@, st.ver), !.confirmed = st.val,
                          !.graded = st.graded, !.base = Max2(@, st.ver)]
           v == IF o.draft # NoValue THEN o.draft ELSE st.val
           k == Restored(o)
<1>1. /\ Good(o) /\ SameWork(r, o) /\ o.live /\ o \in Record /\ Mine(o) = Mine(r)
      /\ IsServerState(o, st) = IsServerState(r, st)
  BY OpenedGood DEF Good, Sound, SameWork, IsServerState, Mine
<1>2. /\ st.val \in Value /\ v \in Value /\ st.graded \in BOOLEAN
      /\ Max2(o.ver, st.ver) \in Nat /\ Max2(o.base, st.ver) \in Nat
  BY <1>1, MaxIsNat DEF Record, State
<1>3. AbsorbedRejected(r, st) = IF IsServerState(o, st) THEN Written(n, v, TRUE)
                                ELSE [k EXCEPT !.clash = "known", !.theirs = st]
  BY DEF AbsorbedRejected
<1>4. Good(k) /\ k.sent = NoValue /\ k.draft = Mine(o)
  BY <1>1, RestoredGood
<1> HIDE DEF k
<1>5. LET s == [k EXCEPT !.clash = "known", !.theirs = st] IN Good(s) /\ SameWork(k, s)
  BY <1>4, Annotated
<1> HIDE DEF o
<1>6. n \in Record /\ n.draft = o.draft /\ n.sent = NoValue /\ n.live = o.live
      /\ n.base = Max2(o.base, st.ver) /\ n.ver = Max2(o.ver, st.ver)
  BY <1>1, <1>2 DEF Record
<1> HIDE DEF n
<1>7. Sound(n)
  BY <1>1, <1>2, <1>6 DEF Sound, Good, HasWork
<1> HIDE DEF v
<1>8. Good(Written(n, v, TRUE)) /\ SameWork(n, Written(n, v, TRUE))
  BY <1>2, <1>7, WrittenGood
<1>9. CASE IsServerState(o, st)
  BY <1>1, <1>3, <1>6, <1>8, <1>9 DEF SameWork
<1>10. CASE ~IsServerState(o, st)
  BY <1>1, <1>3, <1>4, <1>5, <1>10 DEF SameWork
<1> QED
  BY <1>9, <1>10

LEMMA ReconciledGood ==
  ASSUME NEW r, Good(r), NEW st \in State
  PROVE  LET s == Reconciled(r, st)
         IN /\ Good(s) /\ s.sent = r.sent
            /\ s.draft = r.draft \/ (s.draft = NoValue /\ st # Gone /\ r.draft = st.val)
<1> DEFINE a == [r EXCEPT !.confirmed = st.val, !.graded = st.graded]
           b == [a EXCEPT !.draft = NoValue, !.ver = Max2(@, st.ver), !.base = Max2(@, st.ver)]
           e == WithoutClash(b)
           k == [a EXCEPT !.clash = "known", !.theirs = st]
           w == [a EXCEPT !.ver = Max2(@, st.ver)]
           g == [r EXCEPT !.clash = "known", !.theirs = Gone]
           n == IF ~r.live THEN r
                ELSE IF r.draft = NoValue THEN IF r.sent # NoValue \/ st = Gone THEN r ELSE w
                ELSE IF st = Gone THEN g
                ELSE IF r.draft = st.val THEN e
                ELSE IF st.ver # r.ver \/ r.clash # "none" THEN k
                ELSE a
           s == [n EXCEPT !.shown = st]
<1>1. r \in Record /\ st.val \in Value /\ st.graded \in BOOLEAN /\ st.ver \in Nat
  BY DEF Good, Sound, Record, State
<1>2. a \in Record /\ SameWork(r, a) /\ a.live = r.live /\ a.base = r.base /\ a.ver = r.ver
  BY <1>1 DEF Record, SameWork
<1>3. Reconciled(r, st) = Reapplied(s)
  BY DEF Reconciled
<1> HIDE DEF a
<1>4. Max2(a.ver, st.ver) \in Nat /\ Max2(a.base, st.ver) \in Nat
  BY <1>1, <1>2, MaxIsNat DEF Record
<1>5. /\ b \in Record /\ b.draft = NoValue /\ b.sent = a.sent /\ b.live = a.live
      /\ b.base = Max2(a.base, st.ver) /\ b.ver = Max2(a.ver, st.ver)
  BY <1>2, <1>4 DEF Record
<1> HIDE DEF b
<1>6. e \in Record /\ SameWork(b, e) /\ e.live = b.live /\ e.base = b.base /\ e.ver = b.ver
  BY <1>5, GoneIsState DEF WithoutClash, Record, SameWork
<1>7. k \in Record /\ SameWork(a, k) /\ k.live = a.live /\ k.base = a.base /\ k.ver = a.ver
  BY <1>2 DEF Record, SameWork
<1>8. w \in Record /\ SameWork(a, w) /\ w.live = a.live
  BY <1>2, <1>4 DEF Record, SameWork
<1>9. g \in Record /\ SameWork(r, g) /\ g.live = r.live /\ g.base = r.base /\ g.ver = r.ver
  BY <1>1, GoneIsState DEF Record, SameWork
<1> HIDE DEF e, k, w, g
<1>10. HasWork(r) => r.live /\ r.base = r.ver
  BY DEF Good, Sound
<1>11. /\ Sound(n) /\ n.sent = r.sent
       /\ n.draft = r.draft \/ (n.draft = NoValue /\ st # Gone /\ r.draft = st.val)
  <2>1. CASE n = r
    BY <2>1 DEF Good
  <2>2. CASE n = w /\ ~HasWork(r)
    BY <1>2, <1>8, <2>2 DEF Sound, SameWork, HasWork
  <2>3. CASE n = g
    BY <1>9, <1>10, <2>3 DEF Sound, SameWork, HasWork
  <2>4. CASE n = e /\ st # Gone /\ r.draft = st.val /\ r.draft # NoValue
    BY <1>2, <1>5, <1>6, <1>10, <2>4 DEF Sound, SameWork, HasWork
  <2>5. CASE n \in {k, a}
    BY <1>2, <1>7, <1>10, <2>5 DEF Sound, SameWork, HasWork
  <2> QED
    BY <2>1, <2>2, <2>3, <2>4, <2>5 DEF HasWork
<1> HIDE DEF n
<1>12. s \in Record /\ SameWork(n, s) /\ s.live = n.live /\ s.base = n.base /\ s.ver = n.ver
  BY <1>11 DEF Sound, Record, SameWork
<1> HIDE DEF s
<1>13. Sound(s)
  BY <1>11, <1>12 DEF Sound, HasWork, SameWork
<1> QED
  BY <1>3, <1>11, <1>12, <1>13, ReappliedGood DEF SameWork

LEMMA RefreshedGood ==
  ASSUME NEW r, Good(r), NEW st \in State
  PROVE  Good(Refreshed(r, st)) /\ SameWork(r, Refreshed(r, st))
<1> DEFINE s == [r EXCEPT !.shown = st]
<1>1. s \in Record /\ SameWork(r, s) /\ s.live = r.live /\ s.base = r.base /\ s.ver = r.ver
  BY DEF Good, Sound, Record, SameWork
<1>2. Refreshed(r, st) = Reapplied(s)
  BY DEF Refreshed
<1> HIDE DEF s
<1>3. Sound(s)
  BY <1>1 DEF Good, Sound, HasWork, SameWork
<1> QED
  BY <1>1, <1>2, <1>3, ReappliedGood DEF SameWork

LEMMA KeptMineGood ==
  ASSUME NEW r, Good(r)
  PROVE  Good(KeptMine(r)) /\ SameWork(r, KeptMine(r))
<1> DEFINE m == [r EXCEPT !.ver = r.theirs.ver, !.confirmed = r.theirs.val,
                          !.graded = r.theirs.graded, !.base = r.theirs.ver]
           n == WithoutClash(m)
           v == IF r.draft # NoValue THEN r.draft ELSE r.theirs.val
<1>1. /\ r \in Record /\ r.theirs.val \in Value /\ r.theirs.graded \in BOOLEAN
      /\ r.theirs.ver \in Nat /\ v \in Value
  BY DEF Good, Sound, Record, State
<1>2. KeptMine(r) = Written(n, v, TRUE)
  BY DEF KeptMine
<1>3. m \in Record /\ SameWork(r, m) /\ m.live = r.live /\ m.base = m.ver
  BY <1>1 DEF Record, SameWork
<1> HIDE DEF m
<1>4. n \in Record /\ SameWork(m, n) /\ n.live = m.live /\ n.base = n.ver
  BY <1>3, GoneIsState DEF WithoutClash, Record, SameWork
<1> HIDE DEF n, v
<1>5. Sound(n)
  BY <1>3, <1>4 DEF Good, Sound, HasWork, SameWork
<1>6. Good(Written(n, v, TRUE)) /\ SameWork(n, Written(n, v, TRUE))
  BY <1>1, <1>5, WrittenGood
<1> QED
  BY <1>2, <1>3, <1>4, <1>6 DEF SameWork

LEMMA UnrecordedGood ==
  ASSUME NEW st \in State, NEW b \in BOOLEAN
  PROVE  /\ Good([Unrecorded EXCEPT !.shown = st]) /\ Good([Unrecorded EXCEPT !.rejected = b])
         /\ SameWork(Unrecorded, [Unrecorded EXCEPT !.shown = st])
         /\ SameWork(Unrecorded, [Unrecorded EXCEPT !.rejected = b])
         /\ Unrecorded.draft = NoValue /\ Unrecorded.sent = NoValue
<1> DEFINE x == [Unrecorded EXCEPT !.shown = st]
           y == [Unrecorded EXCEPT !.rejected = b]
<1>1. Unrecorded \in Record /\ Unrecorded.draft = NoValue /\ Unrecorded.sent = NoValue
  BY GoneIsState DEF Unrecorded, Record
<1>2. x \in Record /\ SameWork(Unrecorded, x)
  BY <1>1 DEF Record, SameWork
<1>3. y \in Record /\ SameWork(Unrecorded, y)
  BY <1>1 DEF Record, SameWork
<1> HIDE DEF x, y
<1>4. Good(x) /\ Good(y)
  BY <1>1, <1>2, <1>3 DEF Good, Sound, HasWork, SameWork
<1> QED
  BY <1>1, <1>2, <1>3, <1>4 DEF x, y

LEMMA KeptTheirsGood ==
  ASSUME NEW r, Good(r)
  PROVE  LET s == KeptTheirs(r)
         IN Good(s) /\ s.draft = NoValue /\ s.sent \in {r.sent, NoValue}
<1> DEFINE m == [r EXCEPT !.draft = NoValue, !.ver = r.theirs.ver, !.confirmed = r.theirs.val,
                          !.graded = r.theirs.graded, !.base = r.theirs.ver]
           n == WithoutClash(m)
           u == [Unrecorded EXCEPT !.rejected = r.rejected]
<1>1. /\ r \in Record /\ r.theirs.val \in Value /\ r.theirs.graded \in BOOLEAN
      /\ r.theirs.ver \in Nat /\ r.rejected \in BOOLEAN
  BY DEF Good, Sound, Record, State
<1>2. KeptTheirs(r) = IF r.theirs = Gone THEN u ELSE Written(n, r.theirs.val, r.theirs.graded)
  BY DEF KeptTheirs
<1>3. Good(u) /\ u.draft = NoValue /\ u.sent = NoValue
  BY <1>1, GoneIsState, UnrecordedGood DEF SameWork
<1>4. /\ m \in Record /\ m.draft = NoValue /\ m.sent = r.sent /\ m.live = r.live
      /\ m.base = m.ver
  BY <1>1 DEF Record
<1> HIDE DEF m, u
<1>5. n \in Record /\ SameWork(m, n) /\ n.live = m.live /\ n.base = n.ver
  BY <1>4, GoneIsState DEF WithoutClash, Record, SameWork
<1> HIDE DEF n
<1>6. Sound(n)
  BY <1>4, <1>5 DEF Good, Sound, HasWork, SameWork
<1>7. LET w == Written(n, r.theirs.val, r.theirs.graded) IN Good(w) /\ SameWork(n, w)
  BY <1>1, <1>6, WrittenGood
<1> QED
  BY <1>2, <1>3, <1>4, <1>5, <1>7 DEF SameWork

LEMMA RevertedGood ==
  ASSUME NEW r, Good(r)
  PROVE  Good(Reverted(r)) /\ Reverted(r).sent \in {r.sent, NoValue}
<1> DEFINE back == IF r.clash = "known" THEN r.theirs
                   ELSE [val |-> r.confirmed, graded |-> TRUE, ver |-> r.ver]
           st == IF r.shown = Gone \/ back = Gone THEN Gone
                 ELSE IF r.clash # "known" /\ r.confirmed = NoValue THEN r.shown
                 ELSE [back EXCEPT !.graded = TRUE]
           x == [r EXCEPT !.rejected = FALSE]
           u == [Unrecorded EXCEPT !.shown = st]
<1>1. r \in Record /\ r.shown \in State /\ r.theirs \in State
  BY DEF Good, Sound, Record
<1>2. r.clash # "known" /\ r.confirmed # NoValue => back \in State
  BY <1>1 DEF Record, State
<1>3. st \in State
  <2>1. r.clash = "known" => back \in State
    BY <1>1
  <2>2. back \in State => [back EXCEPT !.graded = TRUE] \in State
    BY DEF State
  <2> HIDE DEF back
  <2> QED
    BY <1>1, <1>2, <2>1, <2>2, GoneIsState
<1>4. Reverted(r) = IF r.draft = NoValue /\ r.clash = "none" THEN x ELSE u
  BY DEF Reverted
<1> HIDE DEF st
<1>5. Good(u) /\ u.sent = NoValue
  BY <1>3, UnrecordedGood DEF SameWork
<1>6. Good(x) /\ x.sent = r.sent
  BY Annotated, GoneIsState DEF SameWork
<1> HIDE DEF x, u
<1> QED
  BY <1>4, <1>5, <1>6

-----------------------------------------------------------------------------
(* The invariant.  EditsAreKept is not inductive: an answer or a GET drops  *)
(* the draft that equals the value it shows, so the invariant says that     *)
(* none on its way shows a mark the backend has not held (Unanswered,       *)
(* Unread), which holds because the values of the backend are sanitized.    *)

Clean(st) == st \in State /\ Sanitized[st.val] = st.val

Shows(st, v) == st # Gone /\ st.val = v

Parts(S) == UNION {[D -> S] : D \in SUBSET Cell}

RequestType ==
  [stage : {"none", "up", "down"}, items : Parts(Item),
   kind : {"none", "done", "clash", "invalid", "forbidden", "refused", "error"},
   ok : SUBSET Cell, state : Parts(State)]

FetchType ==
  [for : {"none", "page", "conflict", "manual", "discard"}, stage : {"up", "down"},
   data : [Cell -> State]]

TaskType ==
  [drain : {"idle", "check", "await"}, manual : {"idle", "waiting", "fetching"},
   discard : {"idle", "waiting", "fetching"}]

Batch(items) == items \in Parts(Item) /\ \A c \in DOMAIN items : items[c].base = items[c].ver

BackendInv ==
  /\ server \in [Cell -> State] /\ closed \in SUBSET Cell /\ allowed \in BOOLEAN
  /\ \A c \in Cell : Clean(server[c])
  /\ \A items \in late : Batch(items)

RequestInv ==
  /\ request \in RequestType /\ Batch(request.items)
  /\ \A c \in DOMAIN request.state : Clean(request.state[c])
  /\ request.kind = "done" =>
       /\ DOMAIN request.state = DOMAIN request.items
       /\ request.ok \subseteq DOMAIN request.items
       /\ \A c \in request.ok : request.state[c] # Gone

CellInv == cell \in [Cell -> Record] /\ \A c \in Cell : Good(cell[c])

FlightInv ==
  \A c \in Cell : cell[c].sent # NoValue =>
    /\ request.stage # "none"
    /\ c \in DOMAIN request.items /\ request.items[c].val = cell[c].sent

FetchInv == fetch \in [Slot -> FetchType] /\ \A s \in Slot, c \in Cell : Clean(fetch[s].data[c])

OwnerInv ==
  /\ queue \in Owner /\ task \in TaskType
  /\ queue.flush = "sending" <=> request.stage # "none"
  /\ told \in {"nothing", "acknowledged", "conflict", "failed"}

CountInv == acts \in 0 .. MaxActs /\ foreign \in 0 .. MaxForeign /\ faults \in 0 .. MaxFaults

Unmet == \A c \in Cell : wish[c] # NoValue => ~Holds(server[c], wish[c])

\* An answer that says the mark in flight is stored is not to come in without
\* a newer draft, and the draft is not the value it shows.
Unanswered ==
  \A c \in Cell : request.kind = "done" /\ c \in DOMAIN request.items /\ wish[c] # NoValue =>
    /\ c \in request.ok => cell[c].draft # NoValue
    /\ c \in request.ok \/ cell[c].draft = NoValue => ~Shows(request.state[c], wish[c])

Unread ==
  \A s \in Slot, c \in Cell :
    fetch[s].stage = "down" /\ fetch[s].for \in {"conflict", "manual"} /\ wish[c] # NoValue =>
      ~Shows(fetch[s].data[c], wish[c])

WishInv ==
  /\ wish \in [Cell -> Value \cup {NoValue}]
  /\ EditsAreKept /\ Unmet /\ Unanswered /\ Unread /\ AcknowledgedIsStored

IInv ==
  /\ BackendInv /\ RequestInv /\ CellInv /\ FlightInv /\ FetchInv /\ OwnerInv /\ CountInv
  /\ WishInv

-----------------------------------------------------------------------------
(* Parts of the state.                                                     *)

LEMMA PartsArePartOf ==
  ASSUME NEW S, NEW f
  PROVE  f \in Parts(S) <=> PartOf(f, S)
<1>1. ASSUME f \in Parts(S) PROVE PartOf(f, S)
  <2>1. PICK D \in SUBSET Cell : f \in [D -> S]
    BY <1>1 DEF Parts
  <2> QED
    BY <2>1 DEF PartOf
<1>2. ASSUME PartOf(f, S) PROVE f \in Parts(S)
  BY <1>2 DEF PartOf, Parts
<1> QED
  BY <1>1, <1>2

LEMMA PartsValues ==
  ASSUME NEW S, NEW f \in Parts(S)
  PROVE  DOMAIN f \subseteq Cell /\ \A c \in DOMAIN f : f[c] \in S
BY PartsArePartOf DEF PartOf

LEMMA EmptyIsPart ==
  ASSUME NEW S
  PROVE  NoItems \in Parts(S) /\ DOMAIN NoItems = {}
<1>1. DOMAIN NoItems = {} /\ NoItems \in [{} -> S]
  BY DEF NoItems
<1> QED
  BY <1>1 DEF Parts

LEMMA NoRequestIsSound ==
  /\ NoRequest \in RequestType /\ Batch(NoRequest.items) /\ NoRequest.stage = "none"
  /\ NoRequest.kind = "none" /\ DOMAIN NoRequest.state = {}
BY EmptyIsPart DEF NoRequest, RequestType, Batch

LEMMA GoneIsClean == Clean(Gone) /\ Clean(Ungraded) /\ Ungraded \in State
BY QueueConstants DEF Clean, Gone, Ungraded, State

LEMMA NoFetchIsSound ==
  /\ NoFetch \in FetchType /\ NoFetch.stage = "up"
  /\ \A c \in Cell : NoFetch.data[c] = Gone
BY GoneIsState DEF NoFetch, FetchType

\* A flush that is begun is one that has not claimed a batch yet.
LEMMA FlushedTyped ==
  ASSUME NEW q \in Owner, NEW cells
  PROVE  /\ Flushed(q, cells) \in Owner
         /\ Flushed(q, cells).flush = "sending" <=> q.flush = "sending"
<1> DEFINE s == [q EXCEPT !.flush = "claim", !.acked = FALSE]
<1>1. s \in Owner /\ s.flush = "claim"
  BY DEF Owner
<1>2. Flushed(q, cells) = IF q.flush # "idle" \/ ~HasSendable(q, cells) THEN q ELSE s
  BY DEF Flushed
<1> HIDE DEF s
<1> QED
  BY <1>1, <1>2

LEMMA ScheduledTyped ==
  ASSUME NEW q \in Owner, NEW cells
  PROVE  /\ Scheduled(q, cells) \in Owner
         /\ Scheduled(q, cells).flush = "sending" <=> q.flush = "sending"
BY FlushedTyped DEF Scheduled

\* A GET that starts has read nothing yet.
LEMMA FetchStarts ==
  ASSUME FetchInv, Unread, NEW s \in Slot, NEW p \in {"page", "conflict", "manual", "discard"},
         StartFetch(s, p), UNCHANGED wish
  PROVE  FetchInv' /\ Unread'
<1> DEFINE f == [fetch[s] EXCEPT !.for = p]
<1>1. fetch' = [fetch EXCEPT ![s] = f] /\ fetch[s] = NoFetch /\ fetch \in [Slot -> FetchType]
  BY DEF StartFetch, FetchInv
<1>2. f \in FetchType /\ f.stage = "up" /\ f.data = fetch[s].data
  BY <1>1, NoFetchIsSound DEF FetchType
<1> HIDE DEF f
<1>3. fetch' \in [Slot -> FetchType]
  BY <1>1, <1>2
<1>4. \A t \in Slot : fetch'[t] = fetch[t] \/ (fetch'[t].stage = "up" /\ fetch'[t].data = fetch[t].data)
  BY <1>1, <1>2
<1> QED
  BY <1>3, <1>4 DEF FetchInv, Unread

\* A GET that is over is taken out.
LEMMA FetchEnds ==
  ASSUME FetchInv, Unread, NEW s \in Slot, fetch' = [fetch EXCEPT ![s] = NoFetch],
         \A c \in Cell : wish'[c] \in {wish[c], NoValue}
  PROVE  FetchInv' /\ Unread'
<1>1. fetch' \in [Slot -> FetchType]
  BY NoFetchIsSound DEF FetchInv
<1>2. \A t \in Slot : fetch'[t] = fetch[t] \/ fetch'[t] = NoFetch
  BY DEF FetchInv
<1> QED
  BY <1>1, <1>2, NoFetchIsSound, GoneIsClean DEF FetchInv, Unread

\* What an action may do to a cell without losing the mark w made in it.
Keeps(r, s, w) ==
  /\ Good(s) /\ s.sent \in {r.sent, NoValue}
  /\ w # NoValue => Mine(s) = w /\ (r.draft # NoValue => s.draft # NoValue)

\* One cell or all of them change, while nothing is claimed or answered.
LEMMA WorkKept ==
  ASSUME IInv, Unread', UNCHANGED <<server, request, wish, told>>,
         NEW f, cell' = [c \in Cell |-> f[c]], \A c \in Cell : Keeps(cell[c], f[c], wish[c])
  PROVE  CellInv' /\ FlightInv' /\ WishInv'
<1>1. \A c \in Cell : cell'[c] = f[c] /\ Keeps(cell[c], cell'[c], wish[c])
  OBVIOUS
<1>2. CellInv'
  BY <1>1 DEF CellInv, Keeps, Good, Sound
<1>3. FlightInv'
  BY <1>1 DEF IInv, FlightInv, Keeps
<1>4. EditsAreKept'
  BY <1>1 DEF EditsAreKept, Keeps
<1>5. Unanswered'
  BY <1>1 DEF IInv, WishInv, Unanswered, Keeps
<1> QED
  BY <1>2, <1>3, <1>4, <1>5 DEF IInv, WishInv, Unmet, AcknowledgedIsStored

\* The answer is taken in: nothing is in flight any more.
LEMMA WorkSettled ==
  ASSUME IInv, Unread', request' = NoRequest, UNCHANGED <<server, wish, told>>,
         NEW f, cell' = [c \in Cell |-> f[c]],
         \A c \in Cell : Good(f[c]) /\ f[c].sent = NoValue /\ (wish[c] # NoValue => Mine(f[c]) = wish[c])
  PROVE  RequestInv' /\ CellInv' /\ FlightInv' /\ WishInv'
<1>1. RequestInv'
  BY NoRequestIsSound DEF RequestInv
<1>2. CellInv' /\ FlightInv' /\ EditsAreKept'
  BY DEF CellInv, Good, Sound, FlightInv, EditsAreKept
<1>3. Unanswered'
  BY NoRequestIsSound DEF Unanswered
<1> QED
  BY <1>1, <1>2, <1>3 DEF IInv, WishInv, Unmet, AcknowledgedIsStored

-----------------------------------------------------------------------------
(* The mentor.                                                             *)

LEMMA InitStep == Init => IInv
<1> SUFFICES ASSUME Init PROVE IInv
  OBVIOUS
<1>1. BackendInv
  BY GoneIsClean DEF Init, BackendInv
<1>2. RequestInv
  BY NoRequestIsSound DEF Init, RequestInv
<1> DEFINE u == [Unrecorded EXCEPT !.shown = Ungraded]
<1>3. Good(u) /\ u.draft = NoValue /\ u.sent = NoValue
  BY UnrecordedGood, GoneIsClean DEF SameWork
<1>4. cell = [c \in Cell |-> u]
  BY DEF Init
<1> HIDE DEF u
<1>5. CellInv /\ FlightInv
  BY <1>3, <1>4 DEF CellInv, FlightInv, Good, Sound
<1>6. FetchInv /\ Unread
  BY NoFetchIsSound, GoneIsClean DEF Init, FetchInv, Unread
<1>7. OwnerInv
  BY QueueConstants, NoRequestIsSound DEF Init, OwnerInv, Stopped, Owner, TaskType
<1>8. CountInv
  BY QueueConstants DEF Init, CountInv
<1>9. WishInv
  BY <1>6 DEF Init, WishInv, EditsAreKept, Unmet, Unanswered, AcknowledgedIsStored
<1> QED
  BY <1>1, <1>2, <1>5, <1>6, <1>7, <1>8, <1>9 DEF IInv

LEMMA EditStep ==
  ASSUME IInv, NEW c \in Cell, NEW v \in Value, NEW grading \in BOOLEAN, Edit(c, v, grading)
  PROVE  IInv'
<1> DEFINE next  == Staged(cell[c], v, grading)
           cells == [cell EXCEPT ![c] = next]
<1>1. /\ cell' = cells /\ acts < MaxActs /\ acts' = acts + 1 /\ told' = "nothing"
      /\ queue' \in {queue, Scheduled(queue, cells)}
      /\ wish' = [wish EXCEPT ![c] = IF Holds(server[c], v) \/ TakenForStored(c, v) THEN NoValue
                                     ELSE next.draft]
      /\ UNCHANGED <<server, closed, allowed, late, request, fetch, task, foreign, faults>>
  BY DEF Edit, backend
<1>2. cell \in [Cell -> Record] /\ Good(cell[c]) /\ wish \in [Cell -> Value \cup {NoValue}]
  BY DEF IInv, CellInv, WishInv
<1>3. /\ Good(next) /\ next \in Record /\ next.sent = cell[c].sent /\ next.draft \in {v, NoValue}
      /\ cell[c].sent # NoValue => next.draft = v
  BY <1>2, StagedGood DEF Good, Sound
<1> HIDE DEF next
<1>4. /\ \A d \in Cell : d # c => cell'[d] = cell[d] /\ wish'[d] = wish[d]
      /\ cell'[c] = next
      /\ wish'[c] = IF Holds(server[c], v) \/ TakenForStored(c, v) THEN NoValue ELSE next.draft
      /\ cell' \in [Cell -> Record] /\ wish' \in [Cell -> Value \cup {NoValue}]
  BY <1>1, <1>2, <1>3
<1>5. BackendInv' /\ RequestInv' /\ FetchInv' /\ CountInv'
  BY <1>1, QueueConstants DEF IInv, BackendInv, RequestInv, FetchInv, CountInv
<1>6. CellInv'
  BY <1>3, <1>4 DEF IInv, CellInv
<1>7. FlightInv'
  BY <1>1, <1>3, <1>4 DEF IInv, FlightInv
<1>8. OwnerInv'
  BY <1>1, ScheduledTyped DEF IInv, OwnerInv
<1>9. wish'[c] # NoValue =>
        wish'[c] = v /\ next.draft = v /\ v # NoValue /\ ~Holds(server[c], v) /\ ~TakenForStored(c, v)
  BY <1>3, <1>4, QueueConstants
<1>10. EditsAreKept'
  BY <1>3, <1>4, <1>9 DEF IInv, WishInv, EditsAreKept, Mine
<1>11. Unmet'
  BY <1>1, <1>4, <1>9 DEF IInv, WishInv, Unmet
<1>12. Unanswered'
  <2> SUFFICES ASSUME NEW d \in Cell, request.kind = "done", d \in DOMAIN request.items,
                      wish'[d] # NoValue
               PROVE  /\ d \in request.ok => cell'[d].draft # NoValue
                      /\ d \in request.ok \/ cell'[d].draft = NoValue
                           => ~Shows(request.state[d], wish'[d])
    BY <1>1 DEF Unanswered
  <2>1. CASE d # c
    BY <1>4, <2>1 DEF IInv, WishInv, Unanswered
  <2>2. CASE d = c
    BY <1>4, <1>9, <2>2 DEF TakenForStored, Shows
  <2> QED
    BY <2>1, <2>2
<1>13. Unread'
  <2> SUFFICES ASSUME NEW s \in Slot, NEW d \in Cell, fetch[s].stage = "down",
                      fetch[s].for \in {"conflict", "manual"}, wish'[d] # NoValue
               PROVE  ~Shows(fetch[s].data[d], wish'[d])
    BY <1>1 DEF Unread
  <2> QED
    BY <1>4, <1>9 DEF IInv, WishInv, Unread, TakenForStored, Shows
<1>14. AcknowledgedIsStored'
  BY <1>1 DEF AcknowledgedIsStored
<1> QED
  BY <1>4, <1>5, <1>6, <1>7, <1>8, <1>10, <1>11, <1>12, <1>13, <1>14 DEF IInv, WishInv

LEMMA KeepMineStep ==
  ASSUME IInv, NEW c \in Cell, KeepMine(c)
  PROVE  IInv'
<1> DEFINE cells == [cell EXCEPT ![c] = KeptMine(cell[c])]
<1>1. /\ cell' = cells /\ queue' \in {queue, Scheduled(queue, cells)}
      /\ UNCHANGED <<server, closed, allowed, late, request, fetch, task, wish, told>>
      /\ UNCHANGED <<acts, foreign, faults>>
  BY DEF KeepMine, backend, ghosts, counts
<1>2. cell \in [Cell -> Record] /\ \A d \in Cell : Good(cell[d])
  BY DEF IInv, CellInv
<1>3. Good(KeptMine(cell[c])) /\ SameWork(cell[c], KeptMine(cell[c]))
  BY <1>2, KeptMineGood
<1>4. cell' = [d \in Cell |-> cells[d]]
  BY <1>1, <1>2
<1>5. \A d \in Cell : Keeps(cell[d], cells[d], wish[d])
  BY <1>2, <1>3 DEF Keeps, SameWork, Mine, IInv, WishInv, EditsAreKept
<1>6. BackendInv' /\ RequestInv' /\ FetchInv' /\ CountInv' /\ Unread'
  BY <1>1 DEF IInv, BackendInv, RequestInv, FetchInv, CountInv, WishInv, Unread
<1>7. OwnerInv'
  BY <1>1, ScheduledTyped DEF IInv, OwnerInv
<1> HIDE DEF cells
<1>8. CellInv' /\ FlightInv' /\ WishInv'
  BY <1>1, <1>4, <1>5, <1>6, WorkKept
<1> QED
  BY <1>6, <1>7, <1>8 DEF IInv

LEMMA KeepTheirsStep ==
  ASSUME IInv, NEW c \in Cell, KeepTheirs(c)
  PROVE  IInv'
<1> DEFINE k == KeptTheirs(cell[c])
           cells == [cell EXCEPT ![c] = k]
<1>1. /\ cell' = cells /\ queue' \in {queue, Scheduled(queue, cells)}
      /\ wish' = [wish EXCEPT ![c] = NoValue]
      /\ UNCHANGED <<server, closed, allowed, late, request, fetch, task, told>>
      /\ UNCHANGED <<acts, foreign, faults>>
  BY DEF KeepTheirs, backend, counts
<1>2. cell \in [Cell -> Record] /\ Good(cell[c]) /\ wish \in [Cell -> Value \cup {NoValue}]
  BY DEF IInv, CellInv, WishInv
<1>3. Good(k) /\ k \in Record /\ k.sent \in {cell[c].sent, NoValue}
  BY <1>2, KeptTheirsGood DEF Good, Sound
<1> HIDE DEF k
<1>4. /\ \A d \in Cell : d # c => cell'[d] = cell[d] /\ wish'[d] = wish[d]
      /\ cell'[c] = k /\ wish'[c] = NoValue
      /\ cell' \in [Cell -> Record] /\ wish' \in [Cell -> Value \cup {NoValue}]
  BY <1>1, <1>2, <1>3
<1>5. BackendInv' /\ RequestInv' /\ FetchInv' /\ CountInv'
  BY <1>1 DEF IInv, BackendInv, RequestInv, FetchInv, CountInv
<1>6. CellInv' /\ FlightInv'
  BY <1>1, <1>3, <1>4 DEF IInv, CellInv, FlightInv
<1>7. OwnerInv'
  BY <1>1, ScheduledTyped DEF IInv, OwnerInv
<1>8. EditsAreKept' /\ Unmet' /\ AcknowledgedIsStored'
  BY <1>1, <1>4 DEF IInv, WishInv, EditsAreKept, Unmet, AcknowledgedIsStored
<1>9. Unanswered' /\ Unread'
  BY <1>1, <1>4 DEF IInv, WishInv, Unanswered, Unread
<1> QED
  BY <1>4, <1>5, <1>6, <1>7, <1>8, <1>9 DEF IInv, WishInv

\* Only the owner, what drain has answered and the counters change.
LEMMA OwnerChanges ==
  ASSUME IInv, OwnerInv', CountInv', told' \in {"nothing", "conflict", "failed", told},
         UNCHANGED <<server, closed, allowed, late, request, cell, fetch, wish>>
  PROVE  IInv'
<1>1. BackendInv' /\ RequestInv' /\ CellInv' /\ FlightInv' /\ FetchInv'
  BY DEF IInv, BackendInv, RequestInv, CellInv, FlightInv, FetchInv
<1>2. WishInv'
  BY DEF IInv, WishInv, EditsAreKept, Unmet, Unanswered, Unread, AcknowledgedIsStored
<1> QED
  BY <1>1, <1>2 DEF IInv

LEMMA TasksTyped ==
  ASSUME NEW t \in TaskType, NEW a \in {"idle", "check", "await"},
         NEW b \in {"idle", "waiting", "fetching"}
  PROVE  /\ [t EXCEPT !.drain = a] \in TaskType /\ [t EXCEPT !.manual = b] \in TaskType
         /\ [t EXCEPT !.discard = b] \in TaskType
BY DEF TaskType

LEMMA RetryStep == ASSUME IInv, Retry PROVE IInv'
<1>1. OwnerInv'
  <2> DEFINE q == [queue EXCEPT !.forbidden = FALSE, !.retries = 0]
  <2>1. queue' = q /\ queue \in Owner /\ 0 \in 0 .. MaxRetries
    BY QueueConstants DEF Retry, IInv, OwnerInv
  <2>2. q \in Owner /\ q.flush = queue.flush
    BY <2>1 DEF Owner
  <2> QED
    BY <2>1, <2>2, TasksTyped DEF Retry, IInv, OwnerInv, ghosts
<1>2. CountInv'
  BY QueueConstants DEF Retry, IInv, CountInv
<1> QED
  BY <1>1, <1>2, OwnerChanges DEF Retry, backend, ghosts

LEMMA DrainBegins == ASSUME IInv, Drain PROVE IInv'
<1>1. OwnerInv'
  <2>1. queue' \in Owner /\ queue'.flush = queue.flush
    BY QueueConstants DEF Drain, IInv, OwnerInv, Owner
  <2> QED
    BY <2>1, TasksTyped DEF Drain, IInv, OwnerInv
<1>2. CountInv'
  BY QueueConstants DEF Drain, IInv, CountInv
<1> QED
  BY <1>1, <1>2, OwnerChanges DEF Drain, backend

LEMMA DiscardBegins == ASSUME IInv, Discard PROVE IInv'
<1>1. OwnerInv'
  BY TasksTyped DEF Discard, IInv, OwnerInv, ghosts
<1>2. CountInv'
  BY QueueConstants DEF Discard, IInv, CountInv
<1> QED
  BY <1>1, <1>2, OwnerChanges DEF Discard, backend, ghosts

LEMMA FlushDueStep == ASSUME IInv, FlushDue PROVE IInv'
<1>1. OwnerInv' /\ CountInv'
  BY FlushedTyped DEF FlushDue, IInv, OwnerInv, CountInv, counts, ghosts
<1> QED
  BY <1>1, OwnerChanges DEF FlushDue, backend, ghosts

-----------------------------------------------------------------------------
(* The queue.                                                              *)

\* Nothing is in flight between two flushes.
LEMMA NothingInFlight ==
  ASSUME IInv, request.stage = "none", NEW c \in Cell
  PROVE  cell[c].sent = NoValue
BY DEF IInv, FlightInv

LEMMA ClaimStep == ASSUME IInv, ClaimBatch PROVE IInv'
<1> DEFINE ready == {c \in Cell : Sendable(cell[c])}
<1>1. /\ queue.flush = "claim"
      /\ UNCHANGED <<server, closed, allowed, late, task, fetch, wish, told>>
      /\ UNCHANGED <<acts, foreign, faults>>
  BY DEF ClaimBatch, backend, ghosts, counts
<1>2. queue \in Owner /\ request.stage = "none"
  BY <1>1 DEF IInv, OwnerInv, RequestInv, RequestType
<1>3. CountInv'
  BY <1>1 DEF IInv, CountInv
<1>4. CASE ready = {}
  <2> DEFINE b == queue.uncertain /\ ~(/\ queue.acked /\ Unsettled(cell) = {}
                                       /\ Clashes(cell) = {})
             q == [queue EXCEPT !.outcome = "ok", !.flush = "idle", !.acked = FALSE,
                                !.uncertain = b]
  <2>1. queue' = q /\ UNCHANGED <<cell, request>>
    BY <1>4 DEF ClaimBatch
  <2>2. b \in BOOLEAN
    BY <1>2 DEF Owner
  <2> HIDE DEF b
  <2>3. q \in Owner /\ q.flush = "idle"
    BY <1>2, <2>2 DEF Owner
  <2>4. OwnerInv'
    BY <1>1, <1>2, <2>1, <2>3 DEF IInv, OwnerInv
  <2> QED
    BY <1>1, <1>3, <2>1, <2>4, OwnerChanges
<1>5. CASE ready # {}
  <2>1. PICK batch \in SUBSET ready :
          /\ cell' = [c \in Cell |-> IF c \in batch THEN Claimed(cell[c]) ELSE cell[c]]
          /\ request' = [NoRequest EXCEPT !.stage = "up", !.items =
               [c \in batch |-> [val |-> cell[c].draft, ver |-> cell[c].ver,
                                 base |-> cell[c].base]]]
          /\ queue' = [queue EXCEPT !.flush = "sending"]
    BY <1>5 DEF ClaimBatch
  <2> DEFINE items == [c \in batch |-> [val |-> cell[c].draft, ver |-> cell[c].ver,
                                        base |-> cell[c].base]]
             new(c) == IF c \in batch THEN Claimed(cell[c]) ELSE cell[c]
  <2>2. \A c \in Cell : Good(cell[c]) /\ cell[c] \in Record /\ cell[c].sent = NoValue
    BY <1>2, NothingInFlight DEF IInv, CellInv
  <2>3. \A c \in batch : c \in Cell /\ cell[c].draft # NoValue
    BY DEF Sendable
  <2>4. \A c \in batch : /\ cell[c].draft \in Value /\ cell[c].ver \in Nat
                         /\ cell[c].base \in Nat /\ cell[c].base = cell[c].ver
    BY <2>2, <2>3 DEF Good, Sound, HasWork, Record
  <2>5. /\ items \in [batch -> Item] /\ DOMAIN items = batch
        /\ \A c \in batch : items[c].base = items[c].ver /\ items[c].val = cell[c].draft
    BY <2>4 DEF Item
  <2>6. Batch(items)
    BY <2>3, <2>5 DEF Batch, Parts
  <2> HIDE DEF items
  <2>7. request' = [NoRequest EXCEPT !.stage = "up", !.items = items]
    BY <2>1 DEF items
  <2>8. /\ request' \in RequestType /\ request'.stage = "up" /\ request'.items = items
        /\ request'.kind = "none" /\ request'.state = NoRequest.state
    BY <2>6, <2>7, NoRequestIsSound DEF Batch, RequestType
  <2>9. RequestInv'
    BY <2>6, <2>8, NoRequestIsSound DEF RequestInv
  <2>10. \A c \in Cell : Good(new(c)) /\ Mine(new(c)) = Mine(cell[c])
                         /\ (c \in batch => new(c).sent = cell[c].draft)
                         /\ (c \notin batch => new(c).sent = NoValue)
    BY <2>2, <2>3, ClaimedGood DEF Mine
  <2>11. \A c \in Cell : cell'[c] = new(c)
    BY <2>1
  <2> HIDE DEF new
  <2>12. CellInv'
    BY <2>1, <2>10, <2>11 DEF CellInv, Good, Sound, new
  <2>13. FlightInv'
    BY <2>5, <2>8, <2>10, <2>11 DEF FlightInv
  <2>14. BackendInv' /\ FetchInv' /\ Unread' /\ Unmet' /\ AcknowledgedIsStored'
    BY <1>1 DEF IInv, BackendInv, FetchInv, WishInv, Unread, Unmet, AcknowledgedIsStored
  <2>15. EditsAreKept' /\ Unanswered'
    BY <1>1, <2>8, <2>10, <2>11 DEF IInv, WishInv, EditsAreKept, Unanswered
  <2>16. OwnerInv'
    <3>1. queue' \in Owner /\ queue'.flush = "sending"
      BY <1>2, <2>1 DEF Owner
    <3> QED
      BY <1>1, <2>8, <3>1 DEF IInv, OwnerInv
  <2> QED
    BY <1>1, <1>3, <2>9, <2>12, <2>13, <2>14, <2>15, <2>16 DEF IInv, WishInv
<1> QED
  BY <1>4, <1>5

LEMMA EndedTyped ==
  ASSUME IInv, NEW o \in {"ok", "conflict", "terminal", "transient"}
  PROVE  Ended(o) \in Owner /\ Ended(o).flush = "idle"
<1>1. queue \in Owner /\ 0 \in 0 .. MaxRetries
  BY QueueConstants DEF IInv, OwnerInv
<1> QED
  BY <1>1 DEF Ended, Owner

\* refreshUnknownConflicts starts at most one GET, after the flush is over.
LEMMA RefreshTyped ==
  ASSUME IInv, UNCHANGED wish, NEW q \in Owner, q.flush = "idle", RefreshUnknown(q)
  PROVE  FetchInv' /\ Unread' /\ queue' \in Owner /\ queue'.flush = "idle"
<1>1. CASE /\ \E s \in Slot : StartFetch(s, "conflict")
           /\ queue' = [q EXCEPT !.refetching = TRUE]
  <2>1. FetchInv' /\ Unread'
    BY <1>1, FetchStarts DEF IInv, WishInv
  <2>2. queue' \in Owner /\ queue'.flush = "idle"
    BY <1>1 DEF Owner
  <2> QED
    BY <2>1, <2>2
<1>2. CASE queue' = q /\ UNCHANGED fetch
  BY <1>2 DEF IInv, FetchInv, WishInv, Unread
<1> QED
  BY <1>1, <1>2 DEF RefreshUnknown

\* The other parts when an answer has been taken in.
LEMMA AnswerTaken ==
  ASSUME IInv, request' = NoRequest, queue' \in Owner, queue'.flush = "idle",
         RequestInv', CellInv', FlightInv', FetchInv', WishInv',
         UNCHANGED <<server, closed, allowed, late, task, told>>, UNCHANGED <<acts, foreign, faults>>
  PROVE  IInv'
<1>1. BackendInv' /\ CountInv'
  BY DEF IInv, BackendInv, CountInv
<1>2. OwnerInv'
  BY NoRequestIsSound DEF IInv, OwnerInv
<1> QED
  BY <1>1, <1>2 DEF IInv

LEMMA AbsorbBatchStep == ASSUME IInv, AbsorbBatch PROVE IInv'
<1> DEFINE items == DOMAIN request.items
           f == [c \in Cell |->
                   IF c \notin items THEN cell[c]
                   ELSE IF c \in request.ok THEN AbsorbedApplied(cell[c], request.state[c])
                   ELSE AbsorbedRejected(cell[c], request.state[c])]
           clash == {c \in items \ request.ok : ~IsServerState(cell[c], request.state[c])}
           acked == queue.acked \/ clash # items
           q == [Ended("conflict") EXCEPT !.acked = acked]
           p == [queue EXCEPT !.acked = acked, !.retries = 0, !.outcome = "ok", !.flush = "claim"]
<1>1. /\ request.kind = "done" /\ request' = NoRequest /\ cell' = f
      /\ \/ clash = {} /\ queue' = p /\ UNCHANGED fetch
         \/ RefreshUnknown(q)
      /\ UNCHANGED <<server, closed, allowed, late, task, wish, told>>
      /\ UNCHANGED <<acts, foreign, faults>>
  BY DEF AbsorbBatch, backend, ghosts, counts
<1>2. queue \in Owner /\ acked \in BOOLEAN /\ 0 \in 0 .. MaxRetries
  BY QueueConstants DEF IInv, OwnerInv, Owner
<1> HIDE DEF acked, clash
<1>3. q \in Owner /\ q.flush = "idle"
  <2> DEFINE e == Ended("conflict")
  <2>1. e \in Owner /\ e.flush = "idle"
    BY EndedTyped
  <2> HIDE DEF e
  <2>2. [e EXCEPT !.acked = acked] \in Owner /\ [e EXCEPT !.acked = acked].flush = "idle"
    BY <1>2, <2>1 DEF Owner
  <2> QED
    BY <2>2 DEF e
<1>4. p \in Owner /\ p.flush = "claim"
  BY <1>2 DEF Owner
<1> HIDE DEF q, p
<1>5. FetchInv' /\ Unread' /\ queue' \in Owner /\ queue'.flush # "sending"
  <2>1. CASE RefreshUnknown(q)
    BY <1>1, <1>3, <2>1, RefreshTyped
  <2>2. CASE queue' = p /\ UNCHANGED fetch
    BY <1>1, <1>4, <2>2 DEF IInv, FetchInv, WishInv, Unread
  <2> QED
    BY <1>1, <2>1, <2>2
<1>6. /\ request \in RequestType /\ DOMAIN request.state = items
      /\ \A c \in request.ok : c \in items /\ request.state[c] # Gone
      /\ \A c \in items : c \in Cell /\ request.state[c] \in State
  BY <1>1, PartsValues DEF IInv, RequestInv, Clean, RequestType
<1>7. \A c \in Cell : Good(f[c]) /\ f[c].sent = NoValue /\ (wish[c] # NoValue => Mine(f[c]) = wish[c])
  <2> SUFFICES ASSUME NEW c \in Cell
               PROVE  /\ Good(f[c]) /\ f[c].sent = NoValue
                      /\ wish[c] # NoValue => Mine(f[c]) = wish[c]
    OBVIOUS
  <2>1. Good(cell[c]) /\ (wish[c] # NoValue => Mine(cell[c]) = wish[c])
    BY DEF IInv, CellInv, WishInv, EditsAreKept
  <2>2. CASE c \notin items
    <3>1. f[c] = cell[c] /\ cell[c].sent = NoValue
      BY <2>2 DEF IInv, FlightInv
    <3> QED
      BY <2>1, <3>1
  <2>3. CASE c \in request.ok
    <3> DEFINE s == AbsorbedApplied(cell[c], request.state[c])
    <3>1. f[c] = s
      BY <1>6, <2>3
    <3>2. Good(s) /\ s.sent = NoValue /\ s.draft = Left(cell[c], request.state[c])
      BY <1>6, <2>1, <2>3, AppliedGood
    <3> HIDE DEF s
    <3>3. wish[c] # NoValue => /\ cell[c].draft # NoValue /\ ~Shows(request.state[c], wish[c])
                               /\ request.state[c] # Gone
      BY <1>1, <1>6, <2>3 DEF IInv, WishInv, Unanswered
    <3>4. wish[c] # NoValue => Mine(s) = wish[c]
      BY <2>1, <3>2, <3>3 DEF Shows, Left, Mine
    <3> HIDE DEF f
    <3> QED
      BY <3>1, <3>2, <3>4
  <2>4. CASE c \in items /\ c \notin request.ok
    <3> DEFINE s == AbsorbedRejected(cell[c], request.state[c])
    <3>1. f[c] = s
      BY <2>4
    <3>2. /\ Good(s) /\ s.sent = NoValue
          /\ s.draft = IF IsServerState(cell[c], request.state[c]) THEN cell[c].draft
                       ELSE Mine(cell[c])
      BY <1>6, <2>1, <2>4, RejectedGood
    <3> HIDE DEF s
    <3>3. wish[c] # NoValue /\ cell[c].draft = NoValue => ~Shows(request.state[c], wish[c])
      BY <1>1, <2>4 DEF IInv, WishInv, Unanswered
    <3>4. wish[c] # NoValue => Mine(s) = wish[c]
      BY <2>1, <3>2, <3>3 DEF Shows, IsServerState, Mine
    <3> HIDE DEF f
    <3> QED
      BY <3>1, <3>2, <3>4
  <2> QED
    BY <2>2, <2>3, <2>4
<1>8. cell' = [c \in Cell |-> f[c]]
  BY <1>1
<1> HIDE DEF f
<1>9. RequestInv' /\ CellInv' /\ FlightInv' /\ WishInv'
  BY <1>1, <1>5, <1>7, <1>8, WorkSettled
<1>10. BackendInv' /\ CountInv'
  BY <1>1 DEF IInv, BackendInv, CountInv
<1>11. OwnerInv'
  BY <1>1, <1>5, NoRequestIsSound DEF IInv, OwnerInv
<1> QED
  BY <1>5, <1>9, <1>10, <1>11 DEF IInv

\* What a refusal, a failure or a conflict leaves of a cell: the mark is a draft.
LEMMA BackToDraft ==
  ASSUME IInv, NEW c \in Cell, NEW s, Good(s), SameWork(Restored(cell[c]), s)
  PROVE  s.sent = NoValue /\ (wish[c] # NoValue => Mine(s) = wish[c])
BY RestoredGood DEF IInv, CellInv, WishInv, EditsAreKept, SameWork, Mine

LEMMA AbsorbClashStep == ASSUME IInv, AbsorbClash PROVE IInv'
<1> DEFINE newer == {c \in InFlight : cell[c].draft # NoValue}
           k(c) == Restored(cell[c])
           f == [c \in Cell |-> IF c \notin InFlight THEN cell[c]
                                ELSE IF c \in newer THEN k(c)
                                ELSE [k(c) EXCEPT !.clash = "unknown", !.theirs = Gone]]
<1>1. /\ request' = NoRequest /\ cell' = f
      /\ RefreshUnknown(Ended("conflict")) \/ (queue' = Ended("terminal") /\ UNCHANGED fetch)
      /\ UNCHANGED <<server, closed, allowed, late, task, wish, told>>
      /\ UNCHANGED <<acts, foreign, faults>>
  BY DEF AbsorbClash, backend, ghosts, counts
<1>2. FetchInv' /\ Unread' /\ queue' \in Owner /\ queue'.flush = "idle"
  <2>1. CASE RefreshUnknown(Ended("conflict"))
    BY <1>1, <2>1, EndedTyped, RefreshTyped
  <2>2. CASE queue' = Ended("terminal") /\ UNCHANGED fetch
    BY <1>1, <2>2, EndedTyped DEF IInv, FetchInv, WishInv, Unread
  <2> QED
    BY <1>1, <2>1, <2>2
<1>3. \A c \in Cell : Good(f[c]) /\ f[c].sent = NoValue /\ (wish[c] # NoValue => Mine(f[c]) = wish[c])
  <2> SUFFICES ASSUME NEW c \in Cell
               PROVE  /\ Good(f[c]) /\ f[c].sent = NoValue
                      /\ wish[c] # NoValue => Mine(f[c]) = wish[c]
    OBVIOUS
  <2>1. Good(cell[c]) /\ (wish[c] # NoValue => Mine(cell[c]) = wish[c])
    BY DEF IInv, CellInv, WishInv, EditsAreKept
  <2>2. CASE c \notin InFlight
    BY <2>1, <2>2 DEF InFlight
  <2>3. CASE c \in InFlight
    <3> DEFINE x == [k(c) EXCEPT !.clash = "unknown", !.theirs = Gone]
    <3>1. Good(k(c))
      BY <2>1, RestoredGood
    <3> HIDE DEF k
    <3>2. Good(x) /\ SameWork(k(c), x)
      BY <3>1, Annotated, GoneIsState
    <3>3. f[c] \in {k(c), x}
      BY <2>3
    <3>4. Good(f[c]) /\ SameWork(k(c), f[c])
      BY <3>1, <3>2, <3>3 DEF SameWork
    <3> HIDE DEF f
    <3> QED
      BY <3>4, BackToDraft DEF k
  <2> QED
    BY <2>2, <2>3
<1>4. cell' = [c \in Cell |-> f[c]]
  BY <1>1
<1> HIDE DEF f
<1>5. RequestInv' /\ CellInv' /\ FlightInv' /\ WishInv'
  BY <1>1, <1>2, <1>3, <1>4, WorkSettled
<1> QED
  BY <1>1, <1>2, <1>5, AnswerTaken

LEMMA AbsorbRefusalStep == ASSUME IInv, AbsorbRefusal PROVE IInv'
<1> DEFINE k(c) == IF c \in InFlight THEN Restored(cell[c]) ELSE cell[c]
           f == [c \in Cell |-> [k(c) EXCEPT !.rejected =
                                   @ \/ (request.kind = "invalid" /\ c \in request.ok)]]
           e == Ended("terminal")
<1>1. /\ request' = NoRequest /\ cell' = f
      /\ queue' = [e EXCEPT !.forbidden = @ \/ (request.kind = "forbidden")]
      /\ UNCHANGED <<server, closed, allowed, late, task, fetch, wish, told>>
      /\ UNCHANGED <<acts, foreign, faults>>
  BY DEF AbsorbRefusal, backend, ghosts, counts
<1>2. queue' \in Owner /\ queue'.flush = "idle"
  <2>1. e \in Owner /\ e.flush = "idle"
    BY EndedTyped
  <2> HIDE DEF e
  <2>2. e.forbidden \/ (request.kind = "forbidden") \in BOOLEAN
    OBVIOUS
  <2> QED
    BY <1>1, <2>1, <2>2 DEF Owner
<1>3. FetchInv' /\ Unread'
  BY <1>1 DEF IInv, FetchInv, WishInv, Unread
<1>4. \A c \in Cell : Good(f[c]) /\ f[c].sent = NoValue /\ (wish[c] # NoValue => Mine(f[c]) = wish[c])
  <2> SUFFICES ASSUME NEW c \in Cell
               PROVE  /\ Good(f[c]) /\ f[c].sent = NoValue
                      /\ wish[c] # NoValue => Mine(f[c]) = wish[c]
    OBVIOUS
  <2> DEFINE b == k(c).rejected \/ (request.kind = "invalid" /\ c \in request.ok)
             x == [k(c) EXCEPT !.rejected = b]
  <2>1. Good(cell[c]) /\ (wish[c] # NoValue => Mine(cell[c]) = wish[c])
    BY DEF IInv, CellInv, WishInv, EditsAreKept
  <2>2. /\ Good(k(c)) /\ k(c).sent = NoValue
        /\ wish[c] # NoValue => Mine(k(c)) = wish[c]
    <3>1. CASE c \in InFlight
      BY <2>1, <3>1, RestoredGood, BackToDraft DEF SameWork
    <3>2. CASE c \notin InFlight
      BY <2>1, <3>2 DEF InFlight
    <3> QED
      BY <3>1, <3>2
  <2>3. f[c] = x /\ b \in BOOLEAN
    OBVIOUS
  <2> HIDE DEF k, b
  <2>4. Good(x) /\ SameWork(k(c), x)
    BY <2>2, <2>3, Annotated, GoneIsState
  <2> HIDE DEF f
  <2> QED
    BY <2>2, <2>3, <2>4 DEF SameWork, Mine
<1>5. cell' = [c \in Cell |-> f[c]]
  BY <1>1
<1> HIDE DEF f
<1>6. RequestInv' /\ CellInv' /\ FlightInv' /\ WishInv'
  BY <1>1, <1>3, <1>4, <1>5, WorkSettled
<1> QED
  BY <1>1, <1>2, <1>3, <1>6, AnswerTaken

LEMMA AbsorbErrorStep == ASSUME IInv, AbsorbError PROVE IInv'
<1> DEFINE f == [c \in Cell |-> IF c \in InFlight THEN Restored(cell[c]) ELSE cell[c]]
           again == [queue EXCEPT !.uncertain = TRUE, !.retries = @ + 1,
                                  !.outcome = "transient", !.flush = "idle"]
           ended == [queue EXCEPT !.uncertain = TRUE, !.retries = 0,
                                  !.outcome = "terminal", !.flush = "idle"]
<1>1. /\ request' = NoRequest /\ cell' = f
      /\ queue' = IF Retries THEN again ELSE ended
      /\ UNCHANGED <<server, closed, allowed, late, task, fetch, wish, told>>
      /\ UNCHANGED <<acts, foreign, faults>>
  BY DEF AbsorbError, backend, ghosts, counts
<1>2. queue' \in Owner /\ queue'.flush = "idle"
  <2>1. queue \in Owner /\ 0 \in 0 .. MaxRetries /\ queue.retries \in 0 .. MaxRetries
    BY QueueConstants DEF IInv, OwnerInv, Owner
  <2>2. Retries => queue.retries + 1 \in 0 .. MaxRetries
    BY <2>1, QueueConstants DEF Retries
  <2>3. ended \in Owner /\ ended.flush = "idle"
    BY <2>1 DEF Owner
  <2>4. ASSUME Retries PROVE again \in Owner /\ again.flush = "idle"
    <3> DEFINE n == queue.retries + 1
    <3>1. again = [queue EXCEPT !.uncertain = TRUE, !.retries = n,
                                !.outcome = "transient", !.flush = "idle"]
      OBVIOUS
    <3>2. n \in 0 .. MaxRetries
      BY <2>2, <2>4
    <3> HIDE DEF n
    <3> QED
      BY <2>1, <3>1, <3>2 DEF Owner
  <2> QED
    BY <1>1, <2>3, <2>4
<1>3. FetchInv' /\ Unread'
  BY <1>1 DEF IInv, FetchInv, WishInv, Unread
<1>4. \A c \in Cell : Good(f[c]) /\ f[c].sent = NoValue /\ (wish[c] # NoValue => Mine(f[c]) = wish[c])
  <2> SUFFICES ASSUME NEW c \in Cell
               PROVE  /\ Good(f[c]) /\ f[c].sent = NoValue
                      /\ wish[c] # NoValue => Mine(f[c]) = wish[c]
    OBVIOUS
  <2>1. Good(cell[c]) /\ (wish[c] # NoValue => Mine(cell[c]) = wish[c])
    BY DEF IInv, CellInv, WishInv, EditsAreKept
  <2>2. CASE c \in InFlight
    BY <2>1, <2>2, RestoredGood, BackToDraft DEF SameWork
  <2>3. CASE c \notin InFlight
    BY <2>1, <2>3 DEF InFlight
  <2> QED
    BY <2>2, <2>3
<1>5. cell' = [c \in Cell |-> f[c]]
  BY <1>1
<1> HIDE DEF f
<1>6. RequestInv' /\ CellInv' /\ FlightInv' /\ WishInv'
  BY <1>1, <1>3, <1>4, <1>5, WorkSettled
<1> QED
  BY <1>1, <1>2, <1>3, <1>6, AnswerTaken

\* drain answers "acknowledged" only when no work is left, so that every mark
\* still wanted has been held.
LEMMA DrainStepStep == ASSUME IInv, DrainStep PROVE IInv'
<1>1. /\ UNCHANGED <<server, closed, allowed, late, cell, request, fetch, wish>>
      /\ UNCHANGED <<acts, foreign, faults>>
  BY DEF DrainStep, backend, counts
<1>2. CountInv'
  BY <1>1 DEF IInv, CountInv
<1>3. queue \in Owner /\ task \in TaskType
  BY DEF IInv, OwnerInv
<1>4. CASE DrainEnd
  <2>1. OwnerInv'
    BY <1>1, <1>3, <1>4, TasksTyped DEF DrainEnd, IInv, OwnerInv
  <2>2. told' = "acknowledged" => \A c \in Cell : wish[c] = NoValue
    <3> SUFFICES ASSUME told' = "acknowledged", NEW c \in Cell, wish[c] # NoValue PROVE FALSE
      OBVIOUS
    <3>1. Unsettled(cell) = {}
      BY <1>4 DEF DrainEnd
    <3>2. Mine(cell[c]) # NoValue
      BY DEF IInv, WishInv, EditsAreKept
    <3> QED
      BY <3>1, <3>2 DEF Unsettled, HasWork, Mine
  <2>3. WishInv'
    BY <1>1, <2>2 DEF IInv, WishInv, EditsAreKept, Unmet, Unanswered, Unread, AcknowledgedIsStored
  <2>4. BackendInv' /\ RequestInv' /\ CellInv' /\ FlightInv' /\ FetchInv'
    BY <1>1 DEF IInv, BackendInv, RequestInv, CellInv, FlightInv, FetchInv
  <2> QED
    BY <1>2, <2>1, <2>3, <2>4 DEF IInv
<1>5. CASE /\ queue' \in {queue, Flushed(queue, cell)} /\ UNCHANGED told
           /\ \E a \in {"check", "await"} : task' = [task EXCEPT !.drain = a]
  <2>1. queue' \in Owner /\ (queue'.flush = "sending" <=> queue.flush = "sending")
    BY <1>3, <1>5, FlushedTyped
  <2>2. task' \in TaskType
    BY <1>3, <1>5, TasksTyped
  <2>3. OwnerInv'
    BY <1>1, <1>5, <2>1, <2>2 DEF IInv, OwnerInv
  <2> QED
    BY <1>1, <1>2, <1>5, <2>3, OwnerChanges
<1> QED
  BY <1>4, <1>5 DEF DrainStep

LEMMA ManualStepStep == ASSUME IInv, ManualStep PROVE IInv'
<1>1. PICK s \in Slot : StartFetch(s, "manual")
  BY DEF ManualStep
<1> DEFINE q == [queue EXCEPT !.refetching = TRUE]
<1>2. /\ queue' = q /\ task' = [task EXCEPT !.manual = "fetching"]
      /\ UNCHANGED <<server, closed, allowed, late, cell, request, wish, told>>
      /\ UNCHANGED <<acts, foreign, faults>>
  BY DEF ManualStep, backend, ghosts, counts
<1>3. FetchInv' /\ Unread'
  BY <1>1, <1>2, FetchStarts DEF IInv, WishInv
<1>4. queue \in Owner /\ task \in TaskType
  BY DEF IInv, OwnerInv
<1>5. q \in Owner /\ q.flush = queue.flush
  BY <1>4 DEF Owner
<1> HIDE DEF q
<1>6. OwnerInv'
  BY <1>2, <1>4, <1>5, TasksTyped DEF IInv, OwnerInv
<1>7. BackendInv' /\ RequestInv' /\ CellInv' /\ FlightInv' /\ CountInv'
  BY <1>2 DEF IInv, BackendInv, RequestInv, CellInv, FlightInv, CountInv
<1>8. WishInv'
  BY <1>2, <1>3 DEF IInv, WishInv, EditsAreKept, Unmet, Unanswered, AcknowledgedIsStored
<1> QED
  BY <1>3, <1>6, <1>7, <1>8 DEF IInv

\* A discard takes every mark back.
LEMMA DiscardedStep ==
  ASSUME IInv, NEW f, Discarded([c \in Cell |-> f[c]]), FetchInv',
         \A c \in Cell : Good(f[c]) /\ f[c].sent \in {cell[c].sent, NoValue},
         UNCHANGED <<server, closed, allowed, late, request>>, UNCHANGED <<acts, foreign, faults>>
  PROVE  IInv'
<1> DEFINE q == [queue EXCEPT !.uncertain = FALSE, !.retries = 0, !.refetching = FALSE]
<1>1. /\ cell' = [c \in Cell |-> f[c]] /\ queue' = q
      /\ task' = [task EXCEPT !.discard = "idle"]
      /\ wish' = [c \in Cell |-> NoValue] /\ UNCHANGED told
  BY DEF Discarded
<1>2. queue \in Owner /\ task \in TaskType /\ 0 \in 0 .. MaxRetries
  BY QueueConstants DEF IInv, OwnerInv
<1>3. q \in Owner /\ q.flush = queue.flush
  BY <1>2 DEF Owner
<1> HIDE DEF q
<1>4. OwnerInv'
  BY <1>1, <1>2, <1>3, TasksTyped DEF IInv, OwnerInv
<1>5. BackendInv' /\ RequestInv' /\ CountInv'
  BY DEF IInv, BackendInv, RequestInv, CountInv
<1>6. CellInv' /\ FlightInv'
  BY <1>1 DEF IInv, CellInv, FlightInv, Good, Sound
<1>7. WishInv'
  BY <1>1 DEF WishInv, EditsAreKept, Unmet, Unanswered, Unread, AcknowledgedIsStored
<1> QED
  BY <1>4, <1>5, <1>6, <1>7 DEF IInv

LEMMA DiscardStepStep == ASSUME IInv, DiscardStep PROVE IInv'
<1>1. /\ UNCHANGED <<server, closed, allowed, late, request>>
      /\ UNCHANGED <<acts, foreign, faults>>
  BY DEF DiscardStep, backend, counts
<1>2. CASE queue.uncertain
  <2>1. PICK s \in Slot : StartFetch(s, "discard")
    BY <1>2 DEF DiscardStep
  <2> DEFINE q == [queue EXCEPT !.refetching = TRUE]
  <2>2. /\ queue' = q /\ task' = [task EXCEPT !.discard = "fetching"]
        /\ UNCHANGED <<cell, wish, told>>
    BY <1>2 DEF DiscardStep, ghosts
  <2>3. FetchInv' /\ Unread'
    BY <2>1, <2>2, FetchStarts DEF IInv, WishInv
  <2>4. queue \in Owner /\ task \in TaskType
    BY DEF IInv, OwnerInv
  <2>5. q \in Owner /\ q.flush = queue.flush
    BY <2>4 DEF Owner
  <2> HIDE DEF q
  <2>6. OwnerInv'
    BY <1>1, <2>2, <2>4, <2>5, TasksTyped DEF IInv, OwnerInv
  <2>7. BackendInv' /\ RequestInv' /\ CellInv' /\ FlightInv' /\ CountInv'
    BY <1>1, <2>2 DEF IInv, BackendInv, RequestInv, CellInv, FlightInv, CountInv
  <2>8. WishInv'
    BY <1>1, <2>2, <2>3 DEF IInv, WishInv, EditsAreKept, Unmet, Unanswered, AcknowledgedIsStored
  <2> QED
    BY <2>3, <2>6, <2>7, <2>8 DEF IInv
<1>3. CASE ~queue.uncertain
  <2> DEFINE f == [c \in Cell |-> Reverted(cell[c])]
  <2>1. Discarded(f) /\ UNCHANGED fetch
    BY <1>3 DEF DiscardStep
  <2>2. \A c \in Cell : Good(f[c]) /\ f[c].sent \in {cell[c].sent, NoValue}
    BY RevertedGood DEF IInv, CellInv
  <2>3. f = [c \in Cell |-> f[c]]
    OBVIOUS
  <2>4. FetchInv'
    BY <2>1 DEF IInv, FetchInv
  <2> HIDE DEF f
  <2>5. Discarded([c \in Cell |-> f[c]])
    BY <2>1, <2>3
  <2> QED
    BY <1>1, <2>2, <2>4, <2>5, DiscardedStep
<1> QED
  BY <1>2, <1>3

LEMMA FetchArrivesStep == ASSUME IInv, NEW s \in Slot, FetchArrives(s) PROVE IInv'
<1> DEFINE data == fetch[s].data
           cells == [c \in Cell |-> Reconciled(cell[c], data[c])]
           shown == [c \in Cell |-> Refreshed(cell[c], data[c])]
           fresh == [c \in Cell |-> [Unrecorded EXCEPT !.shown = data[c]]]
           ready == [queue EXCEPT !.uncertain = FALSE, !.refetching = FALSE]
<1>1. /\ fetch[s].stage = "down" /\ fetch' = [fetch EXCEPT ![s] = NoFetch]
      /\ UNCHANGED <<server, closed, allowed, late, request>>
      /\ UNCHANGED <<acts, foreign, faults>>
  BY DEF FetchArrives, backend, counts
<1>2. /\ queue \in Owner /\ task \in TaskType /\ wish \in [Cell -> Value \cup {NoValue}]
      /\ \A c \in Cell : Good(cell[c]) /\ data[c] \in State
  BY DEF IInv, OwnerInv, WishInv, CellInv, FetchInv, Clean
<1>3. ready \in Owner /\ ready.flush = queue.flush
  BY <1>2 DEF Owner
<1>4. CASE fetch[s].for = "page" /\ cell' = shown /\ UNCHANGED <<queue, task, wish, told>>
  <2>1. FetchInv' /\ Unread'
    BY <1>1, <1>4, FetchEnds DEF IInv, WishInv
  <2>2. \A c \in Cell : Keeps(cell[c], shown[c], wish[c])
    BY <1>2, RefreshedGood DEF Keeps, SameWork, Mine, IInv, WishInv, EditsAreKept
  <2>3. cell' = [c \in Cell |-> shown[c]]
    BY <1>4
  <2> HIDE DEF shown
  <2>4. CellInv' /\ FlightInv' /\ WishInv'
    BY <1>1, <1>4, <2>1, <2>2, <2>3, WorkKept
  <2>5. BackendInv' /\ RequestInv' /\ CountInv' /\ OwnerInv'
    BY <1>1, <1>4 DEF IInv, BackendInv, RequestInv, CountInv, OwnerInv
  <2> QED
    BY <2>1, <2>4, <2>5 DEF IInv
<1>5. CASE /\ fetch[s].for \in {"conflict", "manual"} /\ cell' = cells
           /\ queue' \in {ready, Flushed(ready, cells)}
           /\ task' \in {task, [task EXCEPT !.manual = "idle"]} /\ UNCHANGED <<wish, told>>
  <2>1. FetchInv' /\ Unread'
    BY <1>1, <1>5, FetchEnds DEF IInv, WishInv
  <2>2. \A c \in Cell : Keeps(cell[c], cells[c], wish[c])
    <3> SUFFICES ASSUME NEW c \in Cell PROVE Keeps(cell[c], Reconciled(cell[c], data[c]), wish[c])
      OBVIOUS
    <3> DEFINE r == Reconciled(cell[c], data[c])
    <3>1. /\ Good(r) /\ r.sent = cell[c].sent
          /\ r.draft = cell[c].draft
             \/ (r.draft = NoValue /\ data[c] # Gone /\ cell[c].draft = data[c].val)
      BY <1>2, ReconciledGood
    <3>2. wish[c] # NoValue => ~Shows(data[c], wish[c]) /\ Mine(cell[c]) = wish[c]
      BY <1>1, <1>5 DEF IInv, WishInv, Unread, EditsAreKept
    <3> HIDE DEF r, data
    <3>3. wish[c] # NoValue => r.draft = cell[c].draft
      BY <3>1, <3>2 DEF Shows, Mine
    <3>4. Keeps(cell[c], r, wish[c])
      BY <3>1, <3>2, <3>3 DEF Keeps, Mine
    <3> QED
      BY <3>4 DEF r
  <2>3. cell' = [c \in Cell |-> cells[c]]
    BY <1>5
  <2>4. OwnerInv'
    <3> HIDE DEF ready, cells
    <3>1. queue' \in Owner /\ (queue'.flush = "sending" <=> queue.flush = "sending")
      BY <1>3, <1>5, FlushedTyped
    <3> QED
      BY <1>1, <1>2, <1>5, <3>1, TasksTyped DEF IInv, OwnerInv
  <2> HIDE DEF cells
  <2>5. CellInv' /\ FlightInv' /\ WishInv'
    BY <1>1, <1>5, <2>1, <2>2, <2>3, WorkKept
  <2>6. BackendInv' /\ RequestInv' /\ CountInv'
    BY <1>1 DEF IInv, BackendInv, RequestInv, CountInv
  <2> QED
    BY <2>1, <2>4, <2>5, <2>6 DEF IInv
<1>6. CASE fetch[s].for = "discard" /\ Discarded(fresh)
  <2>1. FetchInv'
    BY <1>1, <1>6, FetchEnds DEF Discarded, IInv, WishInv
  <2>2. \A c \in Cell : Good(fresh[c]) /\ fresh[c].sent \in {cell[c].sent, NoValue}
    BY <1>2, UnrecordedGood DEF SameWork
  <2>3. fresh = [c \in Cell |-> fresh[c]]
    OBVIOUS
  <2> HIDE DEF fresh
  <2>4. Discarded([c \in Cell |-> fresh[c]])
    BY <1>6, <2>3
  <2> QED
    BY <1>1, <2>1, <2>2, <2>4, DiscardedStep
<1> QED
  BY <1>4, <1>5, <1>6 DEF FetchArrives, ghosts

LEMMA FetchFailsStep == ASSUME IInv, NEW s \in Slot, FetchFails(s) PROVE IInv'
<1> DEFINE b == queue.refetching /\ fetch[s].for = "page"
           q == [queue EXCEPT !.refetching = b]
           m == IF fetch[s].for = "manual" THEN "idle" ELSE task.manual
           d == IF fetch[s].for = "discard" THEN "idle" ELSE task.discard
<1>1. /\ fetch' = [fetch EXCEPT ![s] = NoFetch] /\ faults < MaxFaults /\ faults' = faults + 1
      /\ queue' = q /\ task' = [task EXCEPT !.manual = m, !.discard = d]
      /\ UNCHANGED <<server, closed, allowed, late, cell, request, wish, told>>
      /\ UNCHANGED <<acts, foreign>>
  BY DEF FetchFails, backend, ghosts
<1>2. queue \in Owner /\ task \in TaskType /\ b \in BOOLEAN
  BY DEF IInv, OwnerInv
<1>3. m \in {"idle", "waiting", "fetching"} /\ d \in {"idle", "waiting", "fetching"}
  BY <1>2 DEF TaskType
<1> HIDE DEF b, m, d
<1>4. q \in Owner /\ q.flush = queue.flush /\ task' \in TaskType
  BY <1>1, <1>2, <1>3 DEF Owner, TaskType
<1> HIDE DEF q
<1>5. FetchInv' /\ Unread'
  BY <1>1, FetchEnds DEF IInv, WishInv
<1>6. OwnerInv'
  BY <1>1, <1>4 DEF IInv, OwnerInv
<1>7. BackendInv' /\ RequestInv' /\ CellInv' /\ FlightInv'
  BY <1>1 DEF IInv, BackendInv, RequestInv, CellInv, FlightInv
<1>8. CountInv'
  BY <1>1, QueueConstants DEF IInv, CountInv
<1>9. WishInv'
  BY <1>1, <1>5 DEF IInv, WishInv, EditsAreKept, Unmet, Unanswered, AcknowledgedIsStored
<1> QED
  BY <1>5, <1>6, <1>7, <1>8, <1>9 DEF IInv

LEMMA PageRefetchStep == ASSUME IInv, PageRefetch PROVE IInv'
<1>1. PICK s \in Slot : StartFetch(s, "page")
  BY DEF PageRefetch
<1>2. /\ foreign < MaxForeign /\ foreign' = foreign + 1
      /\ UNCHANGED <<server, closed, allowed, late, cell, queue, task, request, wish, told>>
      /\ UNCHANGED <<acts, faults>>
  BY DEF PageRefetch, backend, client, ghosts
<1>3. FetchInv' /\ Unread'
  BY <1>1, <1>2, FetchStarts DEF IInv, WishInv
<1>4. BackendInv' /\ RequestInv' /\ CellInv' /\ FlightInv' /\ OwnerInv'
  BY <1>2 DEF IInv, BackendInv, RequestInv, CellInv, FlightInv, OwnerInv
<1>5. CountInv'
  BY <1>2, QueueConstants DEF IInv, CountInv
<1>6. WishInv'
  BY <1>2, <1>3 DEF IInv, WishInv, EditsAreKept, Unmet, Unanswered, AcknowledgedIsStored
<1> QED
  BY <1>3, <1>4, <1>5, <1>6 DEF IInv

-----------------------------------------------------------------------------
(* The backend and the network.                                            *)

LEMMA SanitizedIsClean ==
  ASSUME NEW v \in Value
  PROVE  Sanitized[v] \in Value /\ Sanitized[Sanitized[v]] = Sanitized[v]
BY QueueConstants

LEMMA MarkedClean ==
  ASSUME NEW st \in State, Clean(st), st # Gone, NEW v \in Value
  PROVE  /\ Clean(Marked(st, v)) /\ Marked(st, v) # Gone
         /\ Marked(st, v).val = Sanitized[v]
<1> DEFINE n == [val |-> Sanitized[v], graded |-> TRUE, ver |-> st.ver + 1]
<1>1. n \in State /\ n.val = Sanitized[v] /\ n.graded = TRUE
  BY SanitizedIsClean DEF State
<1>2. n # Gone
  BY <1>1 DEF Gone
<1>3. Marked(st, v) = IF st.graded /\ st.val = Sanitized[v] THEN st ELSE n
  BY DEF Marked
<1> HIDE DEF n
<1> QED
  BY <1>1, <1>2, <1>3, SanitizedIsClean DEF Clean

\* What a batch makes of the journal: clean states, and the value of every
\* entry it is taken for.
LEMMA ServedClean ==
  ASSUME IInv, NEW items, Batch(items)
  PROVE  LET s == ServedState(items)
         IN /\ s \in [Cell -> State] /\ \A c \in Cell : Clean(s[c])
            /\ Accepted(items) \subseteq DOMAIN items /\ DOMAIN items \subseteq Cell
            /\ \A c \in Accepted(items) : s[c] # Gone \/ Answer(items) # "done"
            /\ \A c \in Accepted(items) : s[c].val = Sanitized[items[c].val] \/ Answer(items) # "done"
<1> DEFINE s == ServedState(items)
           m == [c \in Cell |-> IF c \in Accepted(items) THEN Marked(server[c], items[c].val)
                                ELSE server[c]]
<1>1. /\ DOMAIN items \subseteq Cell
      /\ \A c \in DOMAIN items : items[c] \in Item /\ items[c].val \in Value
  <2>1. DOMAIN items \subseteq Cell /\ \A c \in DOMAIN items : items[c] \in Item
    BY PartsValues DEF Batch
  <2> QED
    BY <2>1 DEF Item
<1>2. \A c \in Accepted(items) : c \in DOMAIN items /\ server[c] # Gone
  BY DEF Accepted
<1>3. server \in [Cell -> State] /\ \A c \in Cell : Clean(server[c]) /\ server[c] \in State
  BY DEF IInv, BackendInv
<1>4. \A c \in Accepted(items) : /\ Clean(Marked(server[c], items[c].val))
                                 /\ Marked(server[c], items[c].val) # Gone
                                 /\ Marked(server[c], items[c].val).val = Sanitized[items[c].val]
  BY <1>1, <1>2, <1>3, MarkedClean
<1>5. m \in [Cell -> State] /\ \A c \in Cell : Clean(m[c])
  BY <1>3, <1>4 DEF Clean
<1>6. \A c \in Accepted(items) : m[c] # Gone /\ m[c].val = Sanitized[items[c].val]
  BY <1>1, <1>2, <1>4
<1>7. s = IF Answer(items) # "done" THEN server ELSE m
  BY DEF ServedState
<1> HIDE DEF m, s
<1> QED
  BY <1>1, <1>2, <1>3, <1>5, <1>6, <1>7 DEF s

\* The backend has new states: what it holds is no longer a wish.
LEMMA MarksAreMet ==
  ASSUME IInv, NEW f \in [Cell -> State], server' = f, MetBy(f)
  PROVE  /\ wish' \in [Cell -> Value \cup {NoValue}] /\ Unmet'
         /\ \A c \in Cell : wish'[c] \in {wish[c], NoValue}
<1>1. wish' = [c \in Cell |-> IF wish[c] # NoValue /\ Holds(f[c], wish[c]) THEN NoValue
                              ELSE wish[c]]
  BY DEF MetBy
<1>2. wish \in [Cell -> Value \cup {NoValue}]
  BY DEF IInv, WishInv
<1>3. \A c \in Cell : /\ wish'[c] \in {wish[c], NoValue}
                      /\ wish'[c] # NoValue => ~Holds(f[c], wish'[c])
  BY <1>1
<1> QED
  BY <1>1, <1>2, <1>3 DEF Unmet

\* A clean state that does not hold a mark does not show its value.
LEMMA UnheldIsNotShown ==
  ASSUME NEW st, Clean(st), NEW v \in Value, ~Holds(st, v)
  PROVE  ~Shows(st, v)
BY DEF Clean, Holds, Shows

\* Marks that are met or taken back leave what is said of the others.
LEMMA FewerWishes ==
  ASSUME IInv, wish' \in [Cell -> Value \cup {NoValue}], Unmet',
         \A c \in Cell : wish'[c] \in {wish[c], NoValue},
         UNCHANGED <<cell, request, fetch, told>>
  PROVE  WishInv'
<1>1. EditsAreKept' /\ AcknowledgedIsStored'
  BY DEF IInv, WishInv, EditsAreKept, AcknowledgedIsStored
<1>2. Unanswered' /\ Unread'
  BY DEF IInv, WishInv, Unanswered, Unread
<1> QED
  BY <1>1, <1>2 DEF WishInv

LEMMA ServeStep == ASSUME IInv, Serve PROVE IInv'
<1> DEFINE items == request.items
           f == ServedState(items)
           a == Answer(items)
           ok == IF a = "invalid" THEN DOMAIN items \cap closed ELSE Accepted(items)
           st == [c \in DOMAIN items |-> f[c]]
<1>1. /\ request.stage = "up" /\ server' = f
      /\ request' = [request EXCEPT !.stage = "down", !.kind = a, !.ok = ok, !.state = st]
      /\ MetBy(server')
      /\ UNCHANGED <<closed, allowed, late, cell, queue, task, fetch, told, acts, foreign, faults>>
  BY DEF Serve, client, counts
<1>2. request \in RequestType /\ Batch(items)
  BY DEF IInv, RequestInv
<1>3. /\ f \in [Cell -> State] /\ \A c \in Cell : Clean(f[c])
      /\ Accepted(items) \subseteq DOMAIN items /\ DOMAIN items \subseteq Cell
      /\ \A c \in Accepted(items) : f[c] # Gone \/ a # "done"
      /\ \A c \in Accepted(items) : f[c].val = Sanitized[items[c].val] \/ a # "done"
  BY <1>2, ServedClean
<1>4. a \in {"done", "clash", "invalid", "forbidden"}
  BY DEF Answer
<1>5. ok \subseteq DOMAIN items /\ (a = "done" => ok = Accepted(items))
  BY <1>3
<1> HIDE DEF a, f
<1>6. st \in [DOMAIN items -> State] /\ DOMAIN st = DOMAIN items
  BY <1>3
<1>7. st \in Parts(State) /\ ok \in SUBSET Cell
  BY <1>3, <1>5, <1>6 DEF Parts
<1> HIDE DEF ok, st
<1>8. /\ request' \in RequestType /\ request'.stage = "down" /\ request'.kind = a
      /\ request'.ok = ok /\ request'.state = st /\ request'.items = items
  BY <1>1, <1>2, <1>4, <1>7 DEF RequestType
<1> HIDE DEF items
<1>9. \A c \in DOMAIN items : st[c] = f[c] /\ c \in Cell
  BY <1>3 DEF st
<1>10. RequestInv'
  <2>1. \A c \in DOMAIN st : Clean(st[c])
    BY <1>3, <1>6, <1>9
  <2>2. a = "done" => \A c \in ok : st[c] # Gone
    BY <1>3, <1>5, <1>9
  <2> QED
    BY <1>2, <1>5, <1>6, <1>8, <2>1, <2>2 DEF RequestInv, items
<1>11. BackendInv'
  BY <1>1, <1>3 DEF IInv, BackendInv
<1>12. CellInv' /\ FetchInv' /\ CountInv' /\ OwnerInv'
  BY <1>1, <1>8 DEF IInv, CellInv, FetchInv, CountInv, OwnerInv
<1>13. FlightInv'
  BY <1>1, <1>8 DEF IInv, FlightInv, items
<1>14. /\ wish' \in [Cell -> Value \cup {NoValue}] /\ Unmet'
       /\ \A c \in Cell : wish'[c] \in {wish[c], NoValue}
  BY <1>1, <1>3, MarksAreMet
<1>15. EditsAreKept' /\ Unread' /\ AcknowledgedIsStored'
  BY <1>1, <1>14 DEF IInv, WishInv, EditsAreKept, Unread, AcknowledgedIsStored
<1>16. Unanswered'
  <2> SUFFICES ASSUME NEW c \in Cell, a = "done", c \in DOMAIN items, wish'[c] # NoValue
               PROVE  (c \in ok => cell[c].draft # NoValue) /\ ~Shows(st[c], wish'[c])
    BY <1>1, <1>8 DEF Unanswered
  <2>1. wish'[c] = wish[c] /\ wish[c] \in Value /\ ~Holds(f[c], wish[c])
    BY <1>1, <1>14 DEF Unmet
  <2>2. ~Shows(st[c], wish'[c])
    BY <1>3, <1>9, <2>1, UnheldIsNotShown
  <2>3. ASSUME c \in ok, cell[c].draft = NoValue PROVE FALSE
    <3>1. cell[c].sent = wish[c]
      BY <2>1, <2>3, QueueConstants DEF IInv, WishInv, EditsAreKept, Mine
    <3>2. items[c].val = wish[c]
      BY <2>1, <3>1, QueueConstants DEF IInv, FlightInv, items
    <3>3. f[c] # Gone /\ f[c].val = Sanitized[wish[c]]
      BY <1>3, <1>5, <2>3, <3>2
    <3> QED
      BY <2>1, <3>3 DEF Holds
  <2> QED
    BY <2>2, <2>3
<1> QED
  BY <1>10, <1>11, <1>12, <1>13, <1>14, <1>15, <1>16 DEF IInv, WishInv

LEMMA ServeLateStep == ASSUME IInv, NEW items \in late, ServeLate(items) PROVE IInv'
<1>1. /\ server' = ServedState(items) /\ late' = late \ {items} /\ MetBy(server')
      /\ UNCHANGED <<closed, allowed, cell, queue, task, request, fetch, told>>
      /\ UNCHANGED <<acts, foreign, faults>>
  BY DEF ServeLate, client, counts
<1>2. Batch(items)
  BY DEF IInv, BackendInv
<1>3. ServedState(items) \in [Cell -> State] /\ \A c \in Cell : Clean(ServedState(items)[c])
  BY <1>2, ServedClean
<1>4. BackendInv'
  BY <1>1, <1>3 DEF IInv, BackendInv
<1>5. RequestInv' /\ CellInv' /\ FlightInv' /\ FetchInv' /\ OwnerInv' /\ CountInv'
  BY <1>1 DEF IInv, RequestInv, CellInv, FlightInv, FetchInv, OwnerInv, CountInv
<1>6. WishInv'
  BY <1>1, <1>3, MarksAreMet, FewerWishes
<1> QED
  BY <1>4, <1>5, <1>6 DEF IInv

\* A batch that fails or whose answer is lost says nothing of any entry.
LEMMA KindChanges ==
  ASSUME IInv, NEW k \in {"clash", "refused", "error"},
         request.stage # "none", NEW r, request' = r,
         r = [request EXCEPT !.stage = "down", !.kind = k]
  PROVE  /\ RequestInv' /\ r.stage = "down" /\ r.kind = k /\ r.items = request.items
<1>1. request \in RequestType
  BY DEF IInv, RequestInv
<1>2. /\ r \in RequestType /\ r.stage = "down" /\ r.kind = k /\ r.items = request.items
      /\ r.state = request.state /\ r.ok = request.ok
  BY <1>1 DEF RequestType
<1> QED
  BY <1>2 DEF IInv, RequestInv

LEMMA NoAnswer ==
  ASSUME IInv, RequestInv', request'.stage = "down", request'.kind # "done",
         request'.items = request.items, request.stage # "none",
         \A items \in late' : items \in late \/ items = request.items,
         CountInv', UNCHANGED <<server, closed, allowed, cell, queue, task, fetch, wish, told>>
  PROVE  IInv'
<1>1. BackendInv'
  BY DEF IInv, BackendInv, RequestInv
<1>2. CellInv' /\ FetchInv' /\ FlightInv' /\ OwnerInv'
  BY DEF IInv, CellInv, FetchInv, FlightInv, OwnerInv
<1>3. WishInv'
  BY DEF IInv, WishInv, EditsAreKept, Unmet, Unanswered, Unread, AcknowledgedIsStored
<1> QED
  BY <1>1, <1>2, <1>3 DEF IInv

LEMMA FailStep ==
  ASSUME IInv, NEW kind \in {"clash", "refused", "error"}, Fail(kind)
  PROVE  IInv'
<1>1. /\ request.stage = "up" /\ faults < MaxFaults /\ faults' = faults + 1
      /\ request' = [request EXCEPT !.stage = "down", !.kind = kind]
      /\ \A items \in late' : items \in late \/ items = request.items
      /\ UNCHANGED <<server, closed, allowed, cell, queue, task, fetch, wish, told, acts, foreign>>
  BY DEF Fail, client, ghosts
<1>2. RequestInv' /\ request'.stage = "down" /\ request'.kind = kind
      /\ request'.items = request.items
  BY <1>1, KindChanges
<1>3. CountInv'
  BY <1>1, QueueConstants DEF IInv, CountInv
<1> QED
  BY <1>1, <1>2, <1>3, NoAnswer

LEMMA LoseAnswerStep == ASSUME IInv, LoseAnswer PROVE IInv'
<1>1. /\ request.stage = "down" /\ faults < MaxFaults /\ faults' = faults + 1
      /\ request' = [request EXCEPT !.kind = "error"]
      /\ UNCHANGED <<server, closed, allowed, late, cell, queue, task, fetch, wish, told>>
      /\ UNCHANGED <<acts, foreign>>
  BY DEF LoseAnswer, backend, client, ghosts
<1>2. request \in RequestType
  BY DEF IInv, RequestInv
<1>3. /\ request' \in RequestType /\ request'.stage = "down" /\ request'.kind = "error"
      /\ request'.items = request.items /\ request'.state = request.state
  BY <1>1, <1>2 DEF RequestType
<1>4. RequestInv'
  BY <1>3 DEF IInv, RequestInv
<1>5. CountInv'
  BY <1>1, QueueConstants DEF IInv, CountInv
<1> QED
  BY <1>1, <1>3, <1>4, <1>5, NoAnswer

LEMMA FetchReadsStep == ASSUME IInv, NEW s \in Slot, FetchReads(s) PROVE IInv'
<1> DEFINE g == [fetch[s] EXCEPT !.stage = "down", !.data = server]
<1>1. /\ fetch' = [fetch EXCEPT ![s] = g]
      /\ UNCHANGED <<server, closed, allowed, late, cell, queue, task, request, wish, told>>
      /\ UNCHANGED <<acts, foreign, faults>>
  BY DEF FetchReads, backend, client, ghosts, counts, IInv, FetchInv
<1>2. /\ fetch \in [Slot -> FetchType] /\ server \in [Cell -> State]
      /\ \A c \in Cell : Clean(server[c])
  BY DEF IInv, FetchInv, BackendInv
<1>3. g \in FetchType /\ g.data = server
  BY <1>2 DEF FetchType
<1> HIDE DEF g
<1>4. /\ fetch' \in [Slot -> FetchType] /\ fetch'[s] = g
      /\ \A t \in Slot : t # s => fetch'[t] = fetch[t]
  BY <1>1, <1>2, <1>3
<1>5. FetchInv'
  BY <1>2, <1>3, <1>4 DEF IInv, FetchInv
<1>6. Unread'
  <2> SUFFICES ASSUME NEW t \in Slot, NEW c \in Cell, fetch'[t].stage = "down",
                      fetch'[t].for \in {"conflict", "manual"}, wish[c] # NoValue
               PROVE  ~Shows(fetch'[t].data[c], wish[c])
    BY <1>1 DEF Unread
  <2>1. CASE t # s
    BY <1>4, <2>1 DEF IInv, WishInv, Unread
  <2>2. CASE t = s
    BY <1>2, <1>3, <1>4, <2>2, UnheldIsNotShown DEF IInv, WishInv, Unmet
  <2> QED
    BY <2>1, <2>2
<1>7. BackendInv' /\ RequestInv' /\ CellInv' /\ FlightInv' /\ OwnerInv' /\ CountInv'
  BY <1>1 DEF IInv, BackendInv, RequestInv, CellInv, FlightInv, OwnerInv, CountInv
<1>8. WishInv'
  BY <1>1, <1>6 DEF IInv, WishInv, EditsAreKept, Unmet, Unanswered, AcknowledgedIsStored
<1> QED
  BY <1>5, <1>7, <1>8 DEF IInv

LEMMA OthersStep == ASSUME IInv, Others PROVE IInv'
<1>1. /\ foreign < MaxForeign /\ foreign' = foreign + 1
      /\ UNCHANGED <<late, cell, queue, task, request, fetch, told, acts, faults>>
  BY DEF Others, client
<1>2. /\ server \in [Cell -> State] /\ closed \in SUBSET Cell /\ allowed \in BOOLEAN
      /\ \A c \in Cell : Clean(server[c])
  BY DEF IInv, BackendInv
<1>3. RequestInv' /\ CellInv' /\ FlightInv' /\ FetchInv' /\ OwnerInv' /\ CountInv'
  BY <1>1, QueueConstants
     DEF IInv, RequestInv, CellInv, FlightInv, FetchInv, OwnerInv, CountInv
<1>4. ASSUME NEW c \in Cell, NEW v \in Value, server[c] # Gone,
             server' = [server EXCEPT ![c] = Marked(server[c], v)], MetBy(server'),
             UNCHANGED <<closed, allowed>>
      PROVE  BackendInv' /\ WishInv'
  <2>1. Clean(Marked(server[c], v))
    BY <1>2, <1>4, MarkedClean
  <2>2. server' \in [Cell -> State] /\ \A d \in Cell : Clean(server'[d])
    BY <1>2, <1>4, <2>1 DEF Clean
  <2>3. BackendInv'
    BY <1>1, <1>2, <1>4, <2>2 DEF IInv, BackendInv
  <2> QED
    BY <1>1, <1>4, <2>2, <2>3, MarksAreMet, FewerWishes
<1>5. ASSUME NEW c \in Cell, server' = [server EXCEPT ![c] = Gone],
             UNCHANGED <<closed, allowed, wish>>
      PROVE  BackendInv' /\ WishInv'
  <2>1. /\ server' \in [Cell -> State] /\ server'[c] = Gone
        /\ \A d \in Cell : d # c => server'[d] = server[d]
    BY <1>2, <1>5, GoneIsState
  <2>2. BackendInv'
    BY <1>1, <1>2, <1>5, <2>1, GoneIsClean DEF IInv, BackendInv
  <2>3. Unmet'
    BY <1>5, <2>1 DEF IInv, WishInv, Unmet, Holds
  <2> QED
    BY <1>1, <1>5, <2>2, <2>3, FewerWishes DEF IInv, WishInv
<1>6. ASSUME closed' \in SUBSET Cell, allowed' \in BOOLEAN, UNCHANGED <<server, wish>>
      PROVE  BackendInv' /\ WishInv'
  BY <1>1, <1>6 DEF IInv, BackendInv, WishInv, EditsAreKept, Unmet, Unanswered, Unread,
                    AcknowledgedIsStored
<1> QED
  BY <1>2, <1>3, <1>4, <1>5, <1>6 DEF Others, IInv

-----------------------------------------------------------------------------
(* The invariant, and what follows from it.                                *)

LEMMA NextStep == ASSUME IInv, [Next]_vars PROVE IInv'
<1>1. CASE Mentor
  BY <1>1, EditStep, KeepMineStep, KeepTheirsStep, RetryStep, DrainBegins, DiscardBegins DEF Mentor
<1>2. CASE Browser
  BY <1>2, FlushDueStep, ClaimStep, AbsorbBatchStep, AbsorbClashStep, AbsorbRefusalStep,
     AbsorbErrorStep, DrainStepStep, ManualStepStep, DiscardStepStep, FetchArrivesStep
     DEF Browser, Absorb
<1>3. CASE Network
  BY <1>3, ServeStep, LoseAnswerStep, FailStep, ServeLateStep, FetchReadsStep, FetchFailsStep
     DEF Network
<1>4. CASE Others
  BY <1>4, OthersStep
<1>5. CASE PageRefetch
  BY <1>5, PageRefetchStep
<1>6. CASE UNCHANGED vars
  BY <1>6 DEF vars, backend, client, ghosts, counts, IInv, BackendInv, RequestInv, CellInv,
     FlightInv, FetchInv, OwnerInv, CountInv, WishInv, EditsAreKept, Unmet, Unanswered, Unread,
     AcknowledgedIsStored
<1> QED
  BY <1>1, <1>2, <1>3, <1>4, <1>5, <1>6 DEF Next

\* Nothing the mentor, the browser, the network or other people do leaves the
\* invariant (all actions of JournalQueueOwner and of its backend).
THEOREM Invariance == Spec => []IInv
BY InitStep, NextStep, PTL DEF Spec

LEMMA InvariantIsTyped == ASSUME IInv PROVE TypeOK
<1>1. /\ request \in RequestType /\ PartOf(request.items, Item) /\ PartOf(request.state, State)
      /\ \A items \in late : PartOf(items, Item)
  BY PartsArePartOf DEF IInv, RequestInv, RequestType, BackendInv, Batch
<1>2. /\ request.stage \in {"none", "up", "down"} /\ request.ok \subseteq Cell
      /\ request.kind \in {"none", "done", "clash", "invalid", "forbidden", "refused", "error"}
  BY <1>1 DEF RequestType
<1>3. InFlight \subseteq DOMAIN request.items
  BY DEF InFlight, IInv, FlightInv
<1>4. (queue.flush = "sending") = (request.stage # "none")
  BY DEF IInv, OwnerInv
<1> QED
  BY <1>1, <1>2, <1>3, <1>4
     DEF TypeOK, IInv, BackendInv, CellInv, FetchInv, FetchType, OwnerInv, TaskType, CountInv, WishInv

\* The types of the queue, of what is on its way and of the journal, and what
\* a cell has in flight is in the batch that is under way.
THEOREM TypeCorrect == Spec => []TypeOK
BY Invariance, InvariantIsTyped, PTL

\* Until the backend has held a mark, or the mentor has taken it back, it is
\* the newest work on its cell (absorbAppliedEntry, absorbRejectedEntry,
\* restoreInFlightEntry, reconcileWithServer).  JournalCommandTransaction commits
\* before the batch is answered; what an answer or GET still to come in shows
\* when the mark is made, the backend has held too (TakenForStored).
THEOREM EditsStay == Spec => []EditsAreKept
<1>1. IInv => EditsAreKept
  BY DEF IInv, WishInv
<1> QED
  BY <1>1, Invariance, PTL

\* When drain says that everything is acknowledged, the backend has held the
\* value of every mark not taken back: after the mark, or before it where an
\* answer or GET then still to come in showed it (JournalQueueOwner.drain).
THEOREM AcknowledgedStored == Spec => []AcknowledgedIsStored
<1>1. IInv => AcknowledgedIsStored
  BY DEF IInv, WishInv
<1> QED
  BY <1>1, Invariance, PTL

\* The grid shows the newest mark, whoever writes the cache (overlayLocalWork,
\* reapplyLocalWork).
THEOREM GridIsCurrent == Spec => []GridShowsTheMark
<1>1. IInv => GridShowsTheMark
  BY DEF IInv, CellInv, Good, GridShowsTheMark
<1> QED
  BY <1>1, Invariance, PTL

\* A batch changes an entry only at the version it was made over.
LEMMA ServedOverBase ==
  ASSUME IInv, NEW items, Batch(items), server' = ServedState(items), NEW c \in Cell,
         server'[c] # server[c]
  PROVE  /\ c \in DOMAIN items /\ items[c].base = server[c].ver
         /\ server'[c].val = Sanitized[items[c].val]
<1>1. /\ Answer(items) = "done" /\ c \in Accepted(items)
      /\ server'[c] = Marked(server[c], items[c].val)
  BY DEF ServedState
<1>2. c \in DOMAIN items /\ server[c] # Gone
  BY <1>1 DEF Accepted
<1>3. Clean(server[c]) /\ server[c] \in State
  BY DEF IInv, BackendInv, Clean
<1>4. items[c].val \in Value /\ items[c].base = items[c].ver
  <2>1. items[c] \in Item
    BY <1>2, PartsValues DEF Batch
  <2> QED
    BY <1>2, <2>1 DEF Batch, Item
<1>5. server'[c].val = Sanitized[items[c].val]
  BY <1>1, <1>2, <1>3, <1>4, MarkedClean
<1>6. items[c].ver = server[c].ver
  <2>1. SUFFICES ASSUME server[c].graded, server[c].val = items[c].val PROVE FALSE
    BY <1>1, <1>2 DEF Accepted
  <2>2. Marked(server[c], items[c].val) = server[c]
    BY <1>3, <2>1 DEF Marked, Clean
  <2> QED
    BY <1>1, <2>2
<1> QED
  BY <1>2, <1>4, <1>5, <1>6

\* A batch, also one that is served late, changes an entry only at the version
\* the mentor's work was made over or was shown against (batch_update_entries).
THEOREM NothingUnseenIsOverwritten == Spec => NoBlindOverwrite
<1>1. ASSUME IInv, [Next]_vars PROVE [\A c \in Cell : server'[c] # server[c] => OverItsBase(c)]_vars
  <2> SUFFICES ASSUME NEW c \in Cell, server'[c] # server[c] PROVE OverItsBase(c)
    OBVIOUS
  <2>1. CASE Serve
    <3>1. Batch(request.items) /\ server' = ServedState(request.items)
      BY <1>1, <2>1 DEF Serve, IInv, RequestInv
    <3>2. /\ c \in DOMAIN request.items /\ request.items[c].base = server[c].ver
          /\ server'[c].val = Sanitized[request.items[c].val]
      BY <1>1, <3>1, ServedOverBase
    <3>3. request.items \in late \cup {request.items}
      OBVIOUS
    <3> QED
      BY <3>2, <3>3 DEF OverItsBase
  <2>2. ASSUME NEW items \in late, ServeLate(items) PROVE OverItsBase(c)
    <3>1. Batch(items) /\ server' = ServedState(items)
      BY <1>1, <2>2 DEF ServeLate, IInv, BackendInv
    <3>2. /\ c \in DOMAIN items /\ items[c].base = server[c].ver
          /\ server'[c].val = Sanitized[items[c].val]
      BY <1>1, <3>1, ServedOverBase
    <3>3. items \in late \cup {request.items}
      BY <2>2
    <3> QED
      BY <3>2, <3>3 DEF OverItsBase
  <2>3. CASE Others
    BY <2>3 DEF Others, OverItsBase, IInv, CountInv
  <2>4. CASE Mentor
    BY <2>4 DEF Mentor, Edit, KeepMine, KeepTheirs, Retry, Drain, Discard, backend
  <2>5. CASE Browser
    BY <2>5 DEF Browser, FlushDue, ClaimBatch, Absorb, AbsorbBatch, AbsorbClash, AbsorbRefusal,
       AbsorbError, DrainStep, ManualStep, DiscardStep, FetchArrives, backend
  <2>6. ASSUME \/ LoseAnswer \/ (\E kind \in {"clash", "refused", "error"} : Fail(kind))
               \/ \E s \in Slot : FetchReads(s) \/ FetchFails(s)
        PROVE  OverItsBase(c)
    BY <2>6 DEF LoseAnswer, Fail, FetchReads, FetchFails, backend
  <2>7. CASE PageRefetch
    BY <2>7 DEF PageRefetch, backend
  <2>8. CASE UNCHANGED vars
    BY <2>8 DEF vars, backend
  <2> QED
    BY <1>1, <2>1, <2>2, <2>3, <2>4, <2>5, <2>6, <2>7, <2>8 DEF Next, Network
<1> QED
  BY <1>1, Invariance, PTL DEF Spec, NoBlindOverwrite

=============================================================================
