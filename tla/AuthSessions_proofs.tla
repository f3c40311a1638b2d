------------------------ MODULE AuthSessions_proofs ------------------------
(***************************************************************************)
(* Proofs about AuthSessions, for any number of tabs, requests, tokens and *)
(* endings: the types with the lock of the user, that only tokens of the   *)
(* last password are active, and that the browser keeps its session.       *)
(***************************************************************************)
EXTENDS AuthSessions, TLAPS

\* What only a refresh does.
Refreshing == {"grace", "family", "reuse", "issue", "commit"}

USE DEF Refreshing

\* Who holds the user has read the version it has now, and issues its token
\* under it; only a refresh gets to the point where a token is issued.
HoldersAreCurrent ==
  \A q \in Request :
    /\ HoldsUser(q) => request[q].version = version
    /\ request[q].at \in Refreshing => request[q].kind = "refresh"
    /\ request[q].at = "commit" => tokens[request[q].issued].version = version

IInv == TypeOK /\ HoldersAreCurrent /\ OnlyTheLastPassword

-----------------------------------------------------------------------------
(* Sequences.                                                              *)

\* A function on 1 .. n is a sequence of length n.
LEMMA FunctionIsSeq ==
  ASSUME NEW S, NEW n \in Nat, NEW f \in [1 .. n -> S]
  PROVE  f \in Seq(S) /\ Len(f) = n /\ \A i \in 1 .. n : f[i] \in S
OBVIOUS

LEMMA SeqIsFunction ==
  ASSUME NEW S, NEW s \in Seq(S)
  PROVE  Len(s) \in Nat /\ s \in [1 .. Len(s) -> S] /\ \A i \in 1 .. Len(s) : s[i] \in S
OBVIOUS

LEMMA AppendedSeq ==
  ASSUME NEW S, NEW s \in Seq(S), NEW x \in S
  PROVE  /\ Append(s, x) \in Seq(S) /\ Len(Append(s, x)) = Len(s) + 1
         /\ \A i \in 1 .. Len(s) : Append(s, x)[i] = s[i]
         /\ Append(s, x)[Len(s) + 1] = x
OBVIOUS

LEMMA LargerSeq ==
  ASSUME NEW S, NEW T, S \subseteq T, NEW s \in Seq(S)
  PROVE  s \in Seq(T)
OBVIOUS

\* The types grow with the tokens and the version.
LEMMA TypesGrow ==
  ASSUME Len(tokens) \in Nat, Len(tokens)' \in Nat, version \in Nat, version' \in Nat,
         Len(tokens) <= Len(tokens)', version <= version'
  PROVE  /\ Id \subseteq Id' /\ Token \subseteq Token' /\ RequestState \subseteq RequestState'
         /\ TabState \subseteq TabState'
<1>1. Id \subseteq Id' /\ 0 .. version \subseteq 0 .. version'
  BY DEF Id
<1>2. Token \subseteq Token'
  BY <1>1 DEF Token
<1>3. RequestState \subseteq RequestState'
  BY <1>1 DEF RequestState
<1>4. TabState \subseteq TabState'
  BY <1>1 DEF TabState
<1> QED
  BY <1>1, <1>2, <1>3, <1>4

-----------------------------------------------------------------------------
(* Requests that leave the tokens as they are.                             *)

Working == {"user", "rotate", "grace", "family", "reuse", "issue", "commit", "list", "revoke"}

WithFamily == {"family", "reuse", "issue", "commit", "list", "revoke"}

Holds(x) == x.kind = "refresh" /\ x.at \in Refreshing \cup {"rotate"}

\* A state of q that keeps the invariant.
GoodFor(q, x) ==
  /\ x \in RequestState
  /\ x.at \in Working => x.token \in Id
  /\ x.at \in WithFamily => x.family \in Id
  /\ x.at \in Refreshing => x.kind = "refresh"
  /\ x.at # "commit"
  /\ Holds(x) => x.version = version /\ (HoldsUser(q) \/ UserIsFree(q))

LEMMA TokensKept ==
  ASSUME ServerTyped, UNCHANGED <<tokens, version>>
  PROVE  /\ Id' = Id /\ Token' = Token /\ RequestState' = RequestState /\ TabState' = TabState
         /\ OnlyTheLastPassword => OnlyTheLastPassword'
  BY DEF Id, Token, RequestState, TabState, OnlyTheLastPassword, Active

LEMMA OneRequest ==
  ASSUME IInv, NEW q \in Request, NEW x, GoodFor(q, x), request' = [request EXCEPT ![q] = x],
         UNCHANGED <<tokens, version, browser, ended, endings, faults>>
  PROVE  IInv'
<1>1. \A p \in Request : request'[p] = IF p = q THEN x ELSE request[p]
  BY DEF IInv, TypeOK, ServerTyped
<1>2. /\ Id' = Id /\ Token' = Token /\ RequestState' = RequestState /\ TabState' = TabState
      /\ OnlyTheLastPassword'
  BY TokensKept DEF IInv, TypeOK
<1>3. request' \in [Request -> RequestState']
  BY <1>2 DEF IInv, TypeOK, ServerTyped, GoodFor
<1>4. ServerTyped'
  BY <1>1, <1>2, <1>3 DEF IInv, TypeOK, ServerTyped, GoodFor, Working, WithFamily, RequestState
<1>5. BrowserTyped'
  BY <1>2 DEF IInv, TypeOK, BrowserTyped, browser
<1>6. \A p \in Request : HoldsUser(p)' <=> IF p = q THEN Holds(x) ELSE HoldsUser(p)
  BY <1>1 DEF HoldsUser, Holds
<1>7. OneHolder'
  BY <1>6 DEF IInv, TypeOK, OneHolder, GoodFor, UserIsFree
<1>8. HoldersAreCurrent'
  BY <1>1, <1>6 DEF IInv, HoldersAreCurrent, GoodFor
<1> QED
  BY <1>2, <1>4, <1>5, <1>7, <1>8 DEF IInv, TypeOK

LEMMA FreeIsGood ==
  ASSUME IInv, NEW q \in Request
  PROVE  GoodFor(q, Free) /\ ~Holds(Free) /\ Free.at \notin Working /\ Free \in RequestState
<1>1. version \in Nat
  BY DEF IInv, TypeOK, ServerTyped
<1>2. Free \in RequestState
  BY <1>1 DEF RequestState, Free
<1> QED
  BY <1>2 DEF GoodFor, Holds, Working, WithFamily, Free

LEMMA OverIsGood ==
  ASSUME IInv, NEW q \in Request, NEW answer, answer.at \in {"issued", "refused"},
         answer.issued \in Id \cup {0}, Over(q, answer)
  PROVE  \E x : /\ GoodFor(q, x) /\ ~Holds(x) /\ x.at \notin Working
                /\ x \in RequestState /\ request' = [request EXCEPT ![q] = x]
<1> DEFINE y == [Free EXCEPT !.kind = "answer"]
           z == [y EXCEPT !.at = answer.at]
           x == [z EXCEPT !.issued = answer.issued]
<1>1. Free \in RequestState /\ GoodFor(q, Free) /\ ~Holds(Free) /\ Free.at \notin Working
  BY FreeIsGood
<1>2. y \in RequestState /\ y.kind = "answer"
  BY <1>1 DEF RequestState
<1>3. z \in RequestState /\ z.kind = "answer" /\ z.at = answer.at
  <2> HIDE DEF y
  <2> QED
    BY <1>2 DEF RequestState
<1>4. x \in RequestState /\ x.kind = "answer" /\ x.at = answer.at
  <2> HIDE DEF z
  <2> QED
    BY <1>3 DEF RequestState
<1>5. request' = [request EXCEPT ![q] = x] \/ request' = [request EXCEPT ![q] = Free]
  BY DEF Over
<1> HIDE DEF x, y, z
<1>6. GoodFor(q, x) /\ ~Holds(x) /\ x.at \notin Working
  BY <1>4 DEF GoodFor, Holds, Working, WithFamily
<1> QED
  BY <1>1, <1>4, <1>5, <1>6

LEMMA Refuses ==
  ASSUME IInv, NEW q \in Request, Refuse(q) PROVE IInv'
<1>1. Over(q, Refusal) /\ UNCHANGED <<tokens, version, browser, ended, endings, faults>>
  BY DEF Refuse
<1>2. Refusal.at \in {"issued", "refused"} /\ Refusal.issued \in Id \cup {0}
  BY DEF Refusal
<1>3. PICK x : GoodFor(q, x) /\ request' = [request EXCEPT ![q] = x]
  BY <1>1, <1>2, OverIsGood
<1> QED
  BY <1>1, <1>3, OneRequest

LEMMA LockUserStep ==
  ASSUME IInv, NEW q \in Request, LockUser(q) PROVE IInv'
<1> DEFINE y == [request[q] EXCEPT !.at = "rotate"]
           x == [y EXCEPT !.version = version]
<1>1. /\ request' = [request EXCEPT ![q] = x] /\ request[q].at = "user" /\ UserIsFree(q)
      /\ UNCHANGED <<tokens, version, browser, ended, endings, faults>>
  BY DEF LockUser, IInv, TypeOK, ServerTyped
<1>2. version \in Nat /\ request[q] \in RequestState /\ request[q].token \in Id
  BY <1>1 DEF IInv, TypeOK, ServerTyped
<1>3. y \in RequestState /\ y.at = "rotate" /\ y.token = request[q].token
  BY <1>2 DEF RequestState
<1>4. x \in RequestState /\ x.at = "rotate" /\ x.token = request[q].token /\ x.version = version
  <2> HIDE DEF y
  <2> QED
    BY <1>2, <1>3 DEF RequestState
<1> HIDE DEF x, y
<1>5. GoodFor(q, x)
  BY <1>1, <1>2, <1>4 DEF GoodFor, WithFamily, Holds
<1> QED
  BY <1>1, <1>5, OneRequest

LEMMA MovesStep ==
  ASSUME IInv, NEW q \in Request, NEW to \in Working, Moves(q, to),
         request[q].at \in Working, to \in WithFamily => request[q].family \in Id,
         to \in Refreshing => request[q].kind = "refresh",
         to \notin {"rotate", "commit"}, HoldsUser(q) \/ to \notin Refreshing
  PROVE  IInv'
<1> DEFINE x == [request[q] EXCEPT !.at = to]
<1>1. /\ request' = [request EXCEPT ![q] = x]
      /\ UNCHANGED <<tokens, version, browser, ended, endings, faults>>
  BY DEF Moves, IInv, TypeOK, ServerTyped
<1>2. request[q] \in RequestState /\ request[q].token \in Id
  BY DEF IInv, TypeOK, ServerTyped, Working
<1>3. /\ x \in RequestState /\ x.at = to /\ x.token = request[q].token /\ x.kind = request[q].kind
      /\ x.version = request[q].version /\ x.family = request[q].family
  BY <1>2 DEF RequestState, Working
<1> HIDE DEF x
<1>4. HoldsUser(q) => request[q].version = version
  BY DEF IInv, HoldersAreCurrent
<1>5. GoodFor(q, x)
  BY <1>2, <1>3, <1>4 DEF GoodFor, Holds
<1> QED
  BY <1>1, <1>5, OneRequest

LEMMA RotateStep ==
  ASSUME IInv, NEW q \in Request, Rotate(q) PROVE IInv'
<1> DEFINE r == request[q]
<1>1. /\ r \in RequestState /\ r.at = "rotate" /\ r.token \in Id
      /\ UNCHANGED <<tokens, version, browser, ended, endings, faults>>
  BY DEF Rotate, IInv, TypeOK, ServerTyped
<1>2. tokens[r.token].family \in Id
  <2>1. tokens[r.token] \in Token
    BY <1>1, SeqIsFunction DEF IInv, TypeOK, ServerTyped, Id
  <2> QED
    BY <2>1 DEF Token
<1>3. r.kind = "refresh" => HoldsUser(q) /\ r.version = version
  BY <1>1 DEF HoldsUser, IInv, HoldersAreCurrent
<1>4. ASSUME NEW to \in {"issue", "list"}, r.kind = "refresh" <=> to = "issue",
             request' = [request EXCEPT ![q].takes = TRUE, ![q].family = tokens[r.token].family,
                                        ![q].at = to]
      PROVE  IInv'
  <2> DEFINE y == [r EXCEPT !.takes = TRUE]
             z == [y EXCEPT !.family = tokens[r.token].family]
             x == [z EXCEPT !.at = to]
  <2>1. request' = [request EXCEPT ![q] = x]
    BY <1>4 DEF IInv, TypeOK, ServerTyped
  <2>2. /\ y \in RequestState /\ y.kind = r.kind /\ y.token = r.token /\ y.version = r.version
    BY <1>1 DEF RequestState
  <2>3. /\ z \in RequestState /\ z.kind = r.kind /\ z.token = r.token /\ z.version = r.version
        /\ z.family = tokens[r.token].family
    <3> HIDE DEF y, r
    <3> QED
      BY <1>2, <2>2 DEF RequestState
  <2>4. /\ x \in RequestState /\ x.kind = r.kind /\ x.token = r.token /\ x.version = r.version
        /\ x.family = tokens[r.token].family /\ x.at = to
    <3> HIDE DEF z, r
    <3> QED
      BY <2>3 DEF RequestState
  <2> HIDE DEF x, y, z, r
  <2>5. GoodFor(q, x)
    BY <1>1, <1>2, <1>3, <1>4, <2>4 DEF GoodFor, Holds
  <2> QED
    BY <1>1, <2>1, <2>5, OneRequest
<1>5. ASSUME r.kind = "refresh", request' = [request EXCEPT ![q].at = "grace"] PROVE IInv'
  <2>1. Moves(q, "grace")
    BY <1>1, <1>5 DEF Moves
  <2> QED
    BY <1>1, <1>3, <1>5, <2>1, MovesStep DEF Working, WithFamily
<1>6. ASSUME request' = [request EXCEPT ![q] = Free] PROVE IInv'
  BY <1>1, <1>6, FreeIsGood, OneRequest
<1> HIDE DEF r
<1> QED
  BY <1>4, <1>5, <1>6 DEF Rotate, r

LEMMA GraceStep ==
  ASSUME IInv, NEW q \in Request, Grace(q) PROVE IInv'
<1> DEFINE r == request[q]
           row == tokens[r.token]
<1>1. r \in RequestState /\ r.at = "grace" /\ r.token \in Id /\ r.kind = "refresh"
  BY DEF Grace, IInv, TypeOK, ServerTyped, HoldersAreCurrent
<1>2. row.family \in Id
  <2>1. row \in Token
    BY <1>1, SeqIsFunction DEF IInv, TypeOK, ServerTyped, Id
  <2> QED
    BY <2>1 DEF Token
<1>3. HoldsUser(q) /\ r.version = version
  BY <1>1 DEF HoldsUser, IInv, HoldersAreCurrent
<1>4. ASSUME NEW to \in {"family", "reuse"},
             request' = [request EXCEPT ![q].family = row.family, ![q].at = to],
             UNCHANGED <<tokens, version, browser, ended, endings, faults>>
      PROVE  IInv'
  <2> DEFINE y == [r EXCEPT !.family = row.family]
             x == [y EXCEPT !.at = to]
  <2>1. request' = [request EXCEPT ![q] = x]
    BY <1>4 DEF IInv, TypeOK, ServerTyped
  <2>2. /\ y \in RequestState /\ y.kind = r.kind /\ y.token = r.token /\ y.version = r.version
        /\ y.family = row.family
    <3> HIDE DEF r, row
    <3> QED
      BY <1>1, <1>2 DEF RequestState
  <2>3. /\ x \in RequestState /\ x.kind = r.kind /\ x.token = r.token /\ x.version = r.version
        /\ x.family = row.family /\ x.at = to
    <3> HIDE DEF y, r, row
    <3> QED
      BY <2>2 DEF RequestState
  <2> HIDE DEF x, y, r, row
  <2>4. GoodFor(q, x)
    BY <1>1, <1>2, <1>3, <1>4, <2>3 DEF GoodFor, Holds
  <2> QED
    BY <1>4, <2>1, <2>4, OneRequest
<1>5. Refuse(q) => IInv'
  BY Refuses
<1>6. \/ Refuse(q)
      \/ \E to \in {"family", "reuse"} :
           /\ request' = [request EXCEPT ![q].family = row.family, ![q].at = to]
           /\ UNCHANGED <<tokens, version, browser, ended, endings, faults>>
  BY DEF Grace
<1> QED
  BY <1>4, <1>5, <1>6

LEMMA CheckFamilyStep ==
  ASSUME IInv, NEW q \in Request, CheckFamily(q) PROVE IInv'
<1>1. /\ request[q].at = "family" /\ request[q].family \in Id /\ request[q].kind = "refresh"
  BY DEF CheckFamily, IInv, TypeOK, ServerTyped, HoldersAreCurrent
<1>2. HoldsUser(q)
  BY <1>1 DEF HoldsUser
<1>3. ASSUME Moves(q, "issue") PROVE IInv'
  BY <1>1, <1>2, <1>3, MovesStep DEF Working
<1> QED
  BY <1>3, Refuses DEF CheckFamily

LEMMA ListFamilyStep ==
  ASSUME IInv, NEW q \in Request, ListFamily(q) PROVE IInv'
<1> DEFINE r == request[q]
           sees == {i \in FamilyOf(r.family) : Active(i)}
           y == [r EXCEPT !.sees = sees]
           x == [y EXCEPT !.at = "revoke"]
<1>1. /\ r \in RequestState /\ r.at = "list" /\ r.token \in Id /\ r.family \in Id
      /\ request' = [request EXCEPT ![q] = x]
      /\ UNCHANGED <<tokens, version, browser, ended, endings, faults>>
  BY DEF ListFamily, IInv, TypeOK, ServerTyped
<1>2. sees \in SUBSET Id
  BY DEF FamilyOf
<1>3. y \in RequestState /\ y.token = r.token /\ y.family = r.family
  <2> HIDE DEF r, sees
  <2> QED
    BY <1>1, <1>2 DEF RequestState
<1>4. x \in RequestState /\ x.at = "revoke" /\ x.token = r.token /\ x.family = r.family
  <2> HIDE DEF y, r
  <2> QED
    BY <1>3 DEF RequestState
<1> HIDE DEF x, y, r, sees
<1>5. GoodFor(q, x)
  BY <1>1, <1>4 DEF GoodFor, Holds
<1> QED
  BY <1>1, <1>5, OneRequest

-----------------------------------------------------------------------------
(* The parts of the invariant after any step.                              *)

\* A state in which a request begins or ends.
NewFor(x) ==
  /\ x \in RequestState /\ ~Holds(x) /\ x.at \notin WithFamily /\ x.at # "grace"
  /\ x.at \in Working => x.token \in Id

\* A state in which a request has issued its token.
Committing(x) ==
  /\ x \in RequestState /\ x.at = "commit" /\ x.kind = "refresh"
  /\ {x.token, x.family, x.issued} \subseteq Id
  /\ x.version = version /\ tokens[x.issued].version = version

RequestsTyped ==
  /\ request \in [Request -> RequestState]
  /\ \A q \in Request :
       /\ request[q].at \notin {"idle", "issued", "refused"} => request[q].token \in Id
       /\ request[q].at \in {"family", "reuse", "issue", "commit", "list", "revoke"} =>
            request[q].family \in Id
       /\ request[q].at = "commit" => request[q].issued \in Id

LEMMA RequestsAfter ==
  ASSUME IInv, Len(tokens) <= Len(tokens'), Len(tokens') \in Nat, version' \in Nat,
         version <= version', request' \in [Request -> RequestState'],
         \A p \in Request : \/ request'[p] = request[p] \/ NewFor(request[p])'
                            \/ HoldsUser(p) /\ Committing(request[p])',
         \A i \in Id : tokens'[i].version = tokens[i].version,
         version' = version \/ \A p \in Request : ~HoldsUser(p)
  PROVE  RequestsTyped' /\ OneHolder' /\ HoldersAreCurrent'
<1>1. Len(tokens) \in Nat /\ version \in Nat /\ RequestsTyped
  BY DEF IInv, TypeOK, ServerTyped, RequestsTyped
<1>2. Id \subseteq Id'
  BY <1>1, TypesGrow
<1>3. \A p \in Request : request[p].at \in Working \cup {"idle", "issued", "refused"}
  BY <1>1 DEF RequestsTyped, RequestState, Working
<1>4. \A p \in Request : request'[p].at \in Working \cup {"idle", "issued", "refused"}
  BY DEF RequestState, Working
<1>5. RequestsTyped'
  <2> SUFFICES ASSUME NEW p \in Request
               PROVE  /\ request'[p].at \in Working => request'[p].token \in Id'
                      /\ request'[p].at \in WithFamily => request'[p].family \in Id'
                      /\ request'[p].at = "commit" => request'[p].issued \in Id'
    BY <1>4 DEF RequestsTyped, Working, WithFamily
  <2>1. CASE request'[p] = request[p]
    BY <1>1, <1>2, <1>3, <2>1 DEF RequestsTyped, Working, WithFamily
  <2>2. CASE NewFor(request[p])'
    BY <2>2 DEF NewFor, WithFamily
  <2>3. CASE Committing(request[p])'
    BY <2>3 DEF Committing
  <2> QED
    BY <2>1, <2>2, <2>3
<1>6. \A p \in Request : HoldsUser(p)' =>
        HoldsUser(p) /\ (request'[p] = request[p] \/ Committing(request[p])')
  BY DEF HoldsUser, NewFor, Holds
<1>7. OneHolder'
  BY <1>6 DEF IInv, TypeOK, OneHolder
<1>8. HoldersAreCurrent'
  <2> SUFFICES ASSUME NEW p \in Request
               PROVE  /\ HoldsUser(p)' => request'[p].version = version'
                      /\ request'[p].at \in Refreshing => request'[p].kind = "refresh"
                      /\ request'[p].at = "commit" =>
                           tokens'[request'[p].issued].version = version'
    BY DEF HoldersAreCurrent
  <2>1. CASE request'[p] = request[p]
    <3>1. /\ HoldsUser(p) => request[p].version = version
          /\ request[p].at \in Refreshing => request[p].kind = "refresh"
          /\ request[p].at = "commit" => /\ tokens[request[p].issued].version = version
                                         /\ request[p].issued \in Id
      BY <1>1 DEF IInv, HoldersAreCurrent, RequestsTyped
    <3>2. request[p].at = "commit" => HoldsUser(p)
      BY <3>1 DEF HoldsUser
    <3>3. HoldsUser(p)' <=> HoldsUser(p)
      BY <2>1 DEF HoldsUser
    <3> QED
      BY <2>1, <3>1, <3>2, <3>3
  <2>2. CASE NewFor(request[p])'
    BY <1>6, <2>2 DEF NewFor, WithFamily, Holds, HoldsUser
  <2>3. CASE Committing(request[p])'
    BY <2>3 DEF Committing
  <2> QED
    BY <2>1, <2>2, <2>3
<1> QED
  BY <1>5, <1>7, <1>8

LEMMA BrowserAfter ==
  ASSUME IInv, Len(tokens) <= Len(tokens'), Len(tokens') \in Nat,
         version' \in Nat, version <= version',
         store' \in Id' \cup {0}, UNCHANGED <<tab, leaving>>, faults' \in 0 .. MaxFaults
  PROVE  BrowserTyped'
<1>1. Len(tokens) \in Nat /\ version \in Nat /\ BrowserTyped
  BY DEF IInv, TypeOK, ServerTyped
<1>2. TabState \subseteq TabState'
  BY <1>1, TypesGrow
<1> QED
  BY <1>1, <1>2 DEF BrowserTyped

\* The rows are written anew; what becomes active is of the last password.
LEMMA TokensRewritten ==
  ASSUME IInv, NEW f \in [Id -> Token], tokens' = f, version' = version,
         \A i \in Id : f[i].version = tokens[i].version,
         \A i \in Id : f[i].status = "active" => Active(i) \/ tokens[i].version = version
  PROVE  /\ Len(tokens') = Len(tokens) /\ tokens' \in Seq(Token') /\ OnlyTheLastPassword'
         /\ Id' = Id /\ RequestState' = RequestState /\ TabState' = TabState
         /\ \A i \in Id : tokens'[i].version = tokens[i].version
<1>1. Len(tokens) \in Nat
  BY DEF IInv, TypeOK, ServerTyped
<1>2. f \in Seq(Token) /\ Len(f) = Len(tokens)
  BY <1>1, FunctionIsSeq DEF Id
<1>3. Id' = Id
  BY <1>2 DEF Id
<1>4. Token' = Token /\ RequestState' = RequestState /\ TabState' = TabState
  BY <1>3 DEF Token, RequestState, TabState
<1>5. OnlyTheLastPassword'
  BY <1>3 DEF IInv, OnlyTheLastPassword, Active
<1> QED
  BY <1>2, <1>3, <1>4, <1>5

\* The rows of a new token of family n.
RowsOf(n, v) ==
  [family : {n}, status : {"active", "pending", "void"}, fresh : {TRUE}, version : {v}]

LEMMA NewRow ==
  ASSUME NEW n, NEW v
  PROVE  /\ NewToken(n, v) \in RowsOf(n, v) /\ NewToken(n, v).status = "active"
         /\ \A st \in {"pending", "void"} :
              /\ [NewToken(n, v) EXCEPT !.status = st] \in RowsOf(n, v)
              /\ [NewToken(n, v) EXCEPT !.status = st].status = st
BY DEF NewToken, RowsOf

\* A new token follows the rows.
LEMMA TokensAppended ==
  ASSUME IInv, NEW f \in [Id -> Token], NEW family \in 1 .. Len(tokens) + 1,
         version' \in Nat, version <= version',
         NEW x, x \in RowsOf(family, version'), tokens' = Append(f, x),
         \A i \in Id : f[i].version = tokens[i].version,
         \A i \in Id : f[i].status = "active" => Active(i) /\ version' = version
  PROVE  /\ Len(tokens') = Len(tokens) + 1 /\ tokens' \in Seq(Token') /\ OnlyTheLastPassword'
         /\ Id \subseteq Id' /\ RequestState \subseteq RequestState'
         /\ \A i \in Id : tokens'[i].version = tokens[i].version
         /\ tokens'[Len(tokens) + 1] = x
<1>1. Len(tokens) \in Nat /\ version \in Nat
  BY DEF IInv, TypeOK, ServerTyped
<1>2. f \in Seq(Token) /\ Len(f) = Len(tokens)
  BY <1>1, FunctionIsSeq DEF Id
<1>3. Append(f, x) \in Seq(Token \cup {x}) /\ Len(Append(f, x)) = Len(tokens) + 1
  <2>1. f \in Seq(Token \cup {x}) /\ x \in Token \cup {x}
    BY <1>2, LargerSeq
  <2> QED
    BY <1>2, <2>1, AppendedSeq
<1>4. Len(tokens') = Len(tokens) + 1 /\ Len(tokens') \in Nat
  BY <1>1, <1>3
<1>5. Id \subseteq Id' /\ RequestState \subseteq RequestState' /\ Token \subseteq Token'
  BY <1>1, <1>4, TypesGrow
<1>6. x \in Token'
  <2>1. family \in Id' /\ version' \in 0 .. version'
    BY <1>1, <1>4 DEF Id
  <2> QED
    BY <2>1 DEF RowsOf, Token
<1>7. tokens' \in Seq(Token')
  <2>1. Token \cup {x} \subseteq Token'
    BY <1>5, <1>6
  <2> QED
    BY <1>3, <2>1, LargerSeq
<1>8. \A i \in Id : tokens'[i] = f[i]
  BY <1>2, AppendedSeq DEF Id
<1>9. x.version = version' /\ tokens'[Len(tokens) + 1] = x
  <2>1. x.version = version'
    BY DEF RowsOf
  <2>2. x \in Token \cup {x} /\ f \in Seq(Token \cup {x})
    BY <1>2, LargerSeq
  <2> QED
    BY <1>2, <2>1, <2>2, AppendedSeq
<1>10. OnlyTheLastPassword'
  <2> SUFFICES ASSUME NEW i \in Id', tokens'[i].status = "active"
               PROVE  tokens'[i].version = version'
    BY DEF OnlyTheLastPassword, Active
  <2>1. i \in Id \/ i = Len(tokens) + 1
    BY <1>1, <1>4 DEF Id
  <2> QED
    BY <1>8, <1>9, <2>1 DEF IInv, OnlyTheLastPassword
<1> QED
  BY <1>4, <1>5, <1>7, <1>8, <1>9, <1>10

LEMMA RevokedRows ==
  ASSUME IInv, NEW ids
  PROVE  /\ Revoked(ids) \in [Id -> Token]
         /\ \A i \in Id : Revoked(ids)[i].status = "active" => Active(i) /\ Revoked(ids)[i] = tokens[i]
         /\ \A i \in Id : Revoked(ids)[i].version = tokens[i].version
         /\ \A i \in Id : i \in ids => Revoked(ids)[i].status # "active"
<1>1. \A i \in Id : tokens[i] \in Token
  BY SeqIsFunction DEF IInv, TypeOK, ServerTyped, Id
<1>2. \A i \in Id : /\ [tokens[i] EXCEPT !.status = "revoked"] \in Token
                    /\ [tokens[i] EXCEPT !.status = "revoked"].status = "revoked"
                    /\ [tokens[i] EXCEPT !.status = "revoked"].version = tokens[i].version
  BY <1>1 DEF Token
<1>3. \A i \in Id : Revoked(ids)[i] = IF i \in ids /\ Active(i)
                                      THEN [tokens[i] EXCEPT !.status = "revoked"] ELSE tokens[i]
  BY DEF Revoked
<1>4. Revoked(ids) \in [Id -> Token]
  BY <1>1, <1>2 DEF Revoked
<1> QED
  BY <1>2, <1>3, <1>4 DEF Active

LEMMA OverIsNew ==
  ASSUME IInv, RequestState \subseteq RequestState', NEW q \in Request, NEW answer,
         answer.at \in {"issued", "refused"}, answer.issued \in Id' \cup {0}, Over(q, answer)
  PROVE  /\ request' \in [Request -> RequestState']
         /\ \A p \in Request : request'[p] = request[p] \/ NewFor(request[p])'
<1> DEFINE y == [Free EXCEPT !.kind = "answer"]
           z == [y EXCEPT !.at = answer.at]
           x == [z EXCEPT !.issued = answer.issued]
<1>1. Free \in RequestState' /\ ~Holds(Free) /\ Free.at \notin Working
  BY FreeIsGood
<1>2. y \in RequestState' /\ y.kind = "answer"
  BY <1>1 DEF RequestState
<1>3. z \in RequestState' /\ z.kind = "answer" /\ z.at = answer.at
  <2> HIDE DEF y
  <2> QED
    BY <1>2 DEF RequestState
<1>4. x \in RequestState' /\ x.kind = "answer" /\ x.at = answer.at
  <2> HIDE DEF z
  <2> QED
    BY <1>3 DEF RequestState
<1>5. request' = [request EXCEPT ![q] = x] \/ request' = [request EXCEPT ![q] = Free]
  BY DEF Over
<1> HIDE DEF x, y, z
<1>6. ~Holds(x) /\ x.at \notin Working
  BY <1>4 DEF Holds, Working
<1>7. PICK w : /\ w \in RequestState' /\ ~Holds(w) /\ w.at \notin Working
               /\ request' = [request EXCEPT ![q] = w]
  BY <1>1, <1>4, <1>5, <1>6
<1>8. request \in [Request -> RequestState]
  BY DEF IInv, TypeOK, ServerTyped
<1>9. \A p \in Request : request'[p] = IF p = q THEN w ELSE request[p]
  BY <1>7, <1>8
<1> QED
  BY <1>7, <1>8, <1>9 DEF NewFor, Working, WithFamily, Holds

LEMMA FreedIsNew ==
  ASSUME IInv, RequestState \subseteq RequestState', NEW ids,
         request' = [p \in Request |-> IF p \in ids THEN Free ELSE request[p]]
  PROVE  /\ request' \in [Request -> RequestState']
         /\ \A p \in Request : request'[p] = request[p] \/ NewFor(request[p])'
<1>1. Free \in RequestState' /\ ~Holds(Free) /\ Free.at \notin Working
  <2>1. version \in Nat
    BY DEF IInv, TypeOK, ServerTyped
  <2>2. Free \in RequestState
    BY <2>1 DEF RequestState, Free
  <2> QED
    BY <2>2 DEF Free, Holds, Working
<1>2. request \in [Request -> RequestState]
  BY DEF IInv, TypeOK, ServerTyped
<1> QED
  BY <1>1, <1>2 DEF NewFor, Working, WithFamily, Holds

LEMMA IssueStep ==
  ASSUME IInv, NEW q \in Request, Issue(q) PROVE IInv'
<1> DEFINE r == request[q]
           m == Len(tokens) + 1
           row == [NewToken(r.family, r.version) EXCEPT !.status = "pending"]
           y == [r EXCEPT !.at = "commit"]
           x == [y EXCEPT !.issued = m]
<1>1. /\ r.at = "issue" /\ Len(tokens) < MaxTokens /\ tokens' = Append(tokens, row)
      /\ request' = [request EXCEPT ![q] = x]
      /\ UNCHANGED <<version, store, tab, leaving, ended, endings, faults>>
  BY DEF Issue, SuccessorsFamily, browser, IInv, TypeOK, ServerTyped
<1>2. /\ Len(tokens) \in Nat /\ version \in Nat /\ MaxTokens \in Nat /\ HoldsUser(q)
      /\ r.token \in Id /\ r.family \in Id /\ r.version = version /\ r \in RequestState
      /\ r.kind = "refresh"
  <2>1. HoldsUser(q) /\ r.family \in Id /\ r.token \in Id /\ r.kind = "refresh"
    BY <1>1 DEF HoldsUser, IInv, HoldersAreCurrent, TypeOK, ServerTyped
  <2> QED
    BY <2>1, SessionConstants DEF IInv, HoldersAreCurrent, TypeOK, ServerTyped
<1>3. tokens \in [Id -> Token]
  BY SeqIsFunction DEF IInv, TypeOK, ServerTyped, Id
<1>4. row \in RowsOf(r.family, version')
  BY <1>1, <1>2, NewRow
<1>5. r.family \in 1 .. Len(tokens) + 1
  BY <1>2 DEF Id
<1>6. row.version = version
  BY <1>1, <1>4 DEF RowsOf
<1> HIDE DEF row
<1>7. /\ Len(tokens') = Len(tokens) + 1 /\ tokens' \in Seq(Token') /\ OnlyTheLastPassword'
      /\ Id \subseteq Id' /\ RequestState \subseteq RequestState'
      /\ \A i \in Id : tokens'[i].version = tokens[i].version
      /\ tokens'[m] = row
  <2> HIDE DEF r
  <2>1. \A i \in Id : tokens[i].status = "active" => Active(i) /\ version' = version
    BY <1>1 DEF Active
  <2> QED
    BY <1>1, <1>2, <1>3, <1>4, <1>5, <2>1, TokensAppended
<1>8. y \in RequestState' /\ y.at = "commit" /\ y.kind = r.kind /\ y.token = r.token
      /\ y.family = r.family /\ y.version = r.version
  <2>1. r \in RequestState'
    BY <1>2, <1>7
  <2> HIDE DEF r
  <2> QED
    BY <2>1 DEF RequestState
<1>9. m \in Id'
  BY <1>2, <1>7 DEF Id
<1>10. x \in RequestState' /\ x.at = "commit" /\ x.kind = r.kind /\ x.token = r.token
      /\ x.family = r.family /\ x.version = r.version /\ x.issued = m
  <2> HIDE DEF r, y, m
  <2> QED
    BY <1>8, <1>9 DEF RequestState
<1> HIDE DEF x, y, r, m
<1>11. \A p \in Request : request'[p] = IF p = q THEN x ELSE request[p]
  BY <1>1 DEF IInv, TypeOK, ServerTyped
<1>12. request' \in [Request -> RequestState']
  BY <1>1, <1>7, <1>10 DEF IInv, TypeOK, ServerTyped
<1>13. Committing(request[q])'
  BY <1>1, <1>2, <1>6, <1>7, <1>9, <1>10, <1>11 DEF Committing
<1>14. RequestsTyped' /\ OneHolder' /\ HoldersAreCurrent'
  <2>1. ASSUME NEW p \in Request
        PROVE  \/ request'[p] = request[p] \/ NewFor(request[p])'
               \/ HoldsUser(p) /\ Committing(request[p])'
    <3>1. CASE p = q
      BY <1>2, <1>13, <3>1
    <3>2. CASE p # q
      BY <1>11, <3>2
    <3> QED
      BY <3>1, <3>2
  <2>2. Len(tokens) <= Len(tokens') /\ Len(tokens') \in Nat /\ version' = version
    BY <1>1, <1>2, <1>7
  <2> QED
    BY <1>2, <1>7, <1>12, <2>1, <2>2, RequestsAfter
<1>15. BrowserTyped'
  <2>1. store' \in Id' \cup {0} /\ faults' \in 0 .. MaxFaults
    BY <1>1, <1>7 DEF IInv, TypeOK, BrowserTyped
  <2> QED
    BY <1>1, <1>2, <1>7, <2>1, BrowserAfter
<1>16. ServerTyped'
  BY <1>1, <1>2, <1>7, <1>14 DEF ServerTyped, RequestsTyped, IInv, TypeOK
<1> QED
  BY <1>7, <1>14, <1>15, <1>16 DEF IInv, TypeOK

\* A request is over: its rows are written, or not.
LEMMA OverWithRows ==
  ASSUME IInv, NEW q \in Request, NEW answer, Over(q, answer),
         answer.at \in {"issued", "refused"}, answer.issued \in Id \cup {0},
         NEW f \in [Id -> Token], tokens' = f, UNCHANGED <<version, browser, endings>>,
         \A i \in Id : f[i].version = tokens[i].version,
         \A i \in Id : f[i].status = "active" => Active(i) \/ tokens[i].version = version,
         ended' \subseteq Id, faults' \in 0 .. MaxFaults
  PROVE  IInv'
<1>1. /\ Len(tokens') = Len(tokens) /\ tokens' \in Seq(Token') /\ OnlyTheLastPassword'
      /\ Id' = Id /\ RequestState' = RequestState /\ TabState' = TabState
      /\ \A i \in Id : tokens'[i].version = tokens[i].version
  BY TokensRewritten
<1>2. Len(tokens) \in Nat /\ version \in Nat
  BY DEF IInv, TypeOK, ServerTyped
<1>3. /\ request' \in [Request -> RequestState']
      /\ \A p \in Request : request'[p] = request[p] \/ NewFor(request[p])'
  BY <1>1, OverIsNew
<1>4. RequestsTyped' /\ OneHolder' /\ HoldersAreCurrent'
  BY <1>1, <1>2, <1>3, RequestsAfter
<1>5. BrowserTyped'
  <2>1. store' \in Id' \cup {0}
    BY <1>1 DEF IInv, TypeOK, BrowserTyped, browser
  <2> QED
    BY <1>1, <1>2, <2>1, BrowserAfter DEF browser
<1>6. ServerTyped'
  BY <1>1, <1>2, <1>4 DEF ServerTyped, RequestsTyped, IInv, TypeOK
<1> QED
  BY <1>1, <1>4, <1>5, <1>6 DEF IInv, TypeOK

LEMMA EndFamilyStep ==
  ASSUME IInv, NEW q \in Request, EndFamily(q) PROVE IInv'
<1>1. /\ tokens' = Revoked(FamilyOf(request[q].family))
      /\ request[q].at = "reuse" /\ ended' = ended \cup {request[q].family} /\ Over(q, Refusal)
      /\ UNCHANGED <<version, browser, endings, faults>>
  BY DEF EndFamily
<1>2. ended' \subseteq Id /\ faults' \in 0 .. MaxFaults
  BY <1>1 DEF IInv, TypeOK, ServerTyped, BrowserTyped
<1>3. Refusal.at \in {"issued", "refused"} /\ Refusal.issued \in Id \cup {0}
  BY DEF Refusal
<1> QED
  BY <1>1, <1>2, <1>3, RevokedRows, OverWithRows

LEMMA CommitStep ==
  ASSUME IInv, NEW q \in Request, Commit(q) PROVE IInv'
<1> DEFINE r == request[q]
           f == [i \in Id |-> IF i = r.issued THEN [tokens[i] EXCEPT !.status = "active"]
                              ELSE IF r.takes /\ i = r.token
                              THEN [tokens[i] EXCEPT !.status = "rotated"] ELSE tokens[i]]
<1>1. /\ r.at = "commit" /\ tokens' = f /\ Over(q, IssuedBy(q))
      /\ UNCHANGED <<version, browser, ended, endings, faults>>
  BY DEF Commit
<1>2. r.issued \in Id /\ tokens[r.issued].version = version
  BY <1>1 DEF IInv, TypeOK, ServerTyped, HoldersAreCurrent
<1>3. \A i \in Id : tokens[i] \in Token
  BY SeqIsFunction DEF IInv, TypeOK, ServerTyped, Id
<1>4. \A i \in Id : \A st \in {"active", "rotated"} :
        /\ [tokens[i] EXCEPT !.status = st] \in Token
        /\ [tokens[i] EXCEPT !.status = st].status = st
        /\ [tokens[i] EXCEPT !.status = st].version = tokens[i].version
  BY <1>3 DEF Token
<1>5. /\ f \in [Id -> Token] /\ \A i \in Id : f[i].version = tokens[i].version
      /\ \A i \in Id : f[i].status = "active" => Active(i) \/ tokens[i].version = version
  BY <1>2, <1>3, <1>4 DEF Active
<1> HIDE DEF f
<1>6. IssuedBy(q).at \in {"issued", "refused"} /\ IssuedBy(q).issued \in Id \cup {0}
  BY <1>2 DEF IssuedBy
<1>7. ended' \subseteq Id /\ faults' \in 0 .. MaxFaults
  BY <1>1 DEF IInv, TypeOK, ServerTyped, BrowserTyped
<1> QED
  BY <1>1, <1>5, <1>6, <1>7, OverWithRows

LEMMA FaultTyped == ASSUME IInv, Fault PROVE faults' \in 0 .. MaxFaults
  BY SessionConstants DEF Fault, IInv, TypeOK, BrowserTyped

LEMMA CommitFailsStep ==
  ASSUME IInv, NEW q \in Request, CommitFails(q) PROVE IInv'
<1> DEFINE i == request[q].issued
           x == [tokens[i] EXCEPT !.status = "void"]
           f == [tokens EXCEPT ![i] = x]
<1>1. /\ request[q].at = "commit" /\ tokens' = f /\ Over(q, IssuedBy(q))
      /\ ended' = ended \/ ended' = ended \cup {tokens[i].family}
      /\ UNCHANGED <<version, browser, endings>> /\ faults' \in 0 .. MaxFaults
  BY FaultTyped DEF CommitFails
<1>2. i \in Id
  BY <1>1 DEF IInv, TypeOK, ServerTyped
<1>3. tokens \in [Id -> Token]
  BY SeqIsFunction DEF IInv, TypeOK, ServerTyped, Id
<1>4. x \in Token /\ x.status = "void" /\ x.version = tokens[i].version
      /\ tokens[i].family \in Id
  <2>1. tokens[i] \in Token
    BY <1>2, <1>3
  <2> HIDE DEF i
  <2> QED
    BY <2>1 DEF Token
<1>5. IssuedBy(q).at \in {"issued", "refused"} /\ IssuedBy(q).issued \in Id \cup {0}
  BY <1>2 DEF IssuedBy
<1> HIDE DEF x, i
<1>6. /\ f \in [Id -> Token] /\ \A j \in Id : f[j].version = tokens[j].version
      /\ \A j \in Id : f[j].status = "active" => Active(j) \/ tokens[j].version = version
  BY <1>2, <1>3, <1>4 DEF Active
<1> HIDE DEF f
<1>7. ended' \subseteq Id
  BY <1>1, <1>4 DEF IInv, TypeOK, ServerTyped
<1> QED
  BY <1>1, <1>5, <1>6, <1>7, OverWithRows

LEMMA RevokeFamilyStep ==
  ASSUME IInv, NEW q \in Request, RevokeFamily(q) PROVE IInv'
<1> DEFINE r == request[q]
           g == Revoked(r.sees)
           x == [g[r.token] EXCEPT !.status = "rotated"]
           f == [g EXCEPT ![r.token] = x]
<1>1. /\ tokens' = f /\ version' = version /\ r.at = "revoke"
      /\ request' = [request EXCEPT ![q] = Free]
      /\ UNCHANGED <<store, tab, leaving, ended, endings, faults>>
  BY DEF RevokeFamily, browser
<1>2. Len(tokens) \in Nat /\ version \in Nat /\ r.token \in Id
  BY <1>1 DEF IInv, TypeOK, ServerTyped
<1>3. /\ g \in [Id -> Token]
      /\ \A i \in Id : g[i].status = "active" => Active(i)
      /\ \A i \in Id : g[i].version = tokens[i].version
  BY RevokedRows
<1> HIDE DEF g, r
<1>4. x \in Token /\ x.status = "rotated" /\ x.version = tokens[r.token].version
  <2>1. g[r.token] \in Token /\ g[r.token].version = tokens[r.token].version
    BY <1>2, <1>3
  <2> QED
    BY <2>1 DEF Token
<1> HIDE DEF x
<1>5. f \in [Id -> Token]
  BY <1>2, <1>3, <1>4
<1>6. /\ \A i \in Id : f[i].status = "active" => Active(i) \/ tokens[i].version = version
      /\ \A i \in Id : f[i].version = tokens[i].version
  BY <1>2, <1>3, <1>4
<1> HIDE DEF f
<1>7. /\ Len(tokens') = Len(tokens) /\ tokens' \in Seq(Token') /\ OnlyTheLastPassword'
      /\ Id' = Id /\ RequestState' = RequestState /\ TabState' = TabState
      /\ \A j \in Id : tokens'[j].version = tokens[j].version
  BY <1>1, <1>5, <1>6, TokensRewritten
<1>8. request' = [p \in Request |-> IF p \in {q} THEN Free ELSE request[p]]
  BY <1>1 DEF IInv, TypeOK, ServerTyped
<1>9. /\ request' \in [Request -> RequestState']
      /\ \A p \in Request : request'[p] = request[p] \/ NewFor(request[p])'
  BY <1>7, <1>8, FreedIsNew
<1>10. RequestsTyped' /\ OneHolder' /\ HoldersAreCurrent'
  BY <1>1, <1>2, <1>7, <1>9, RequestsAfter
<1>11. BrowserTyped'
  <2>1. store' \in Id' \cup {0} /\ faults' \in 0 .. MaxFaults
    BY <1>1, <1>7 DEF IInv, TypeOK, BrowserTyped
  <2> QED
    BY <1>1, <1>2, <1>7, <2>1, BrowserAfter
<1>12. ServerTyped'
  BY <1>1, <1>2, <1>7, <1>10 DEF ServerTyped, RequestsTyped, IInv, TypeOK
<1> QED
  BY <1>7, <1>10, <1>11, <1>12 DEF IInv, TypeOK

LEMMA LapseStep ==
  ASSUME IInv, NEW i \in Id, Lapse(i) PROVE IInv'
<1> DEFINE x == [tokens[i] EXCEPT !.fresh = FALSE]
           f == [tokens EXCEPT ![i] = x]
<1>1. /\ tokens' = f /\ version' = version /\ request' = request
      /\ ended' = ended \cup {tokens[i].family}
      /\ UNCHANGED <<store, tab, leaving, endings, faults>>
  BY DEF Lapse, browser
<1>2. Len(tokens) \in Nat /\ version \in Nat /\ tokens \in [Id -> Token]
  BY SeqIsFunction DEF IInv, TypeOK, ServerTyped, Id
<1>3. tokens[i] \in Token /\ tokens[i].family \in Id
  BY <1>2 DEF Token
<1>4. x \in Token /\ x.status = tokens[i].status /\ x.version = tokens[i].version
  BY <1>3 DEF Token
<1> HIDE DEF x
<1>5. f \in [Id -> Token]
  BY <1>2, <1>4
<1>6. /\ \A j \in Id : f[j].status = "active" => Active(j) \/ tokens[j].version = version
      /\ \A j \in Id : f[j].version = tokens[j].version
  BY <1>2, <1>4 DEF Active
<1> HIDE DEF f
<1>7. /\ Len(tokens') = Len(tokens) /\ tokens' \in Seq(Token') /\ OnlyTheLastPassword'
      /\ Id' = Id /\ RequestState' = RequestState /\ TabState' = TabState
      /\ \A j \in Id : tokens'[j].version = tokens[j].version
  BY <1>1, <1>5, <1>6, TokensRewritten
<1>8. request' \in [Request -> RequestState']
  BY <1>1, <1>7 DEF IInv, TypeOK, ServerTyped
<1>9. RequestsTyped' /\ OneHolder' /\ HoldersAreCurrent'
  BY <1>1, <1>2, <1>7, <1>8, RequestsAfter
<1>10. BrowserTyped'
  <2>1. store' \in Id' \cup {0} /\ faults' \in 0 .. MaxFaults
    BY <1>1, <1>7 DEF IInv, TypeOK, BrowserTyped
  <2> QED
    BY <1>1, <1>2, <1>7, <2>1, BrowserAfter
<1>11. ServerTyped'
  BY <1>1, <1>2, <1>3, <1>7, <1>9 DEF ServerTyped, RequestsTyped, IInv, TypeOK
<1> QED
  BY <1>7, <1>9, <1>10, <1>11 DEF IInv, TypeOK

LEMMA ReplacePasswordStep ==
  ASSUME IInv, ReplacePassword PROVE IInv'
<1> DEFINE f == Revoked(Id)
<1>1. /\ tokens' = Append(f, NewToken(Len(tokens) + 1, version'))
      /\ version' = version + 1 /\ endings < MaxEndings /\ endings' = endings + 1
      /\ Len(tokens) < MaxTokens /\ \A q \in Request : ~HoldsUser(q)
      /\ ended' = ended \cup {tokens[i].family : i \in Id} /\ store' \in {store, Len(tokens) + 1}
      /\ UNCHANGED <<request, tab, leaving, faults>>
  BY DEF ReplacePassword
<1>2. /\ Len(tokens) \in Nat /\ version \in Nat /\ MaxTokens \in Nat /\ MaxEndings \in Nat
      /\ endings \in version .. MaxEndings /\ endings \in Nat /\ version' \in Nat
      /\ version <= version'
  BY <1>1, SessionConstants DEF IInv, TypeOK, ServerTyped
<1>3. /\ f \in [Id -> Token] /\ \A i \in Id : f[i].status # "active"
      /\ \A i \in Id : f[i].version = tokens[i].version
      /\ NewToken(Len(tokens) + 1, version') \in RowsOf(Len(tokens) + 1, version')
  BY RevokedRows, NewRow
<1>4. Len(tokens) + 1 \in 1 .. Len(tokens) + 1
  BY <1>2
<1> HIDE DEF f
<1>5. /\ Len(tokens') = Len(tokens) + 1 /\ tokens' \in Seq(Token') /\ OnlyTheLastPassword'
      /\ Id \subseteq Id' /\ RequestState \subseteq RequestState'
      /\ \A i \in Id : tokens'[i].version = tokens[i].version
  BY <1>1, <1>2, <1>3, <1>4, TokensAppended
<1>6. request' \in [Request -> RequestState']
  BY <1>1, <1>5 DEF IInv, TypeOK, ServerTyped
<1>7. RequestsTyped' /\ OneHolder' /\ HoldersAreCurrent'
  <2>1. /\ Len(tokens) <= Len(tokens') /\ Len(tokens') \in Nat
        /\ \A p \in Request : request'[p] = request[p]
    BY <1>1, <1>2, <1>5
  <2> QED
    BY <1>1, <1>2, <1>5, <1>6, <2>1, RequestsAfter
<1>8. Len(tokens) + 1 \in Id'
  BY <1>2, <1>5 DEF Id
<1>9. BrowserTyped'
  <2>1. store' \in Id' \cup {0} /\ faults' \in 0 .. MaxFaults
    BY <1>1, <1>5, <1>8 DEF IInv, TypeOK, BrowserTyped
  <2> QED
    BY <1>1, <1>2, <1>5, <2>1, BrowserAfter
<1>10. ended' \subseteq Id'
  <2>1. \A i \in Id : tokens[i] \in Token
    BY SeqIsFunction DEF IInv, TypeOK, ServerTyped, Id
  <2>2. \A i \in Id : tokens[i].family \in Id
    BY <2>1 DEF Token
  <2>3. ended \subseteq Id
    BY DEF IInv, TypeOK, ServerTyped
  <2> QED
    BY <1>1, <1>5, <2>2, <2>3
<1>11. /\ Len(tokens') \in 1 .. MaxTokens /\ version' \in 0 .. MaxEndings
       /\ endings' \in version' .. MaxEndings
  BY <1>1, <1>2, <1>5
<1>12. ServerTyped'
  BY <1>5, <1>7, <1>10, <1>11 DEF ServerTyped, RequestsTyped
<1> QED
  BY <1>5, <1>7, <1>9, <1>12 DEF IInv, TypeOK

\* The browser signs in; the backend keeps the token or does not.
LEMMA SignInStep ==
  ASSUME IInv, Len(tokens) < MaxTokens, NEW x, x \in RowsOf(Len(tokens) + 1, version),
         tokens' = Append(tokens, x), store' = Len(tokens) + 1,
         ended' \subseteq ended \cup {Len(tokens) + 1}, faults' \in 0 .. MaxFaults,
         UNCHANGED <<version, request, tab, leaving, endings>>
  PROVE  IInv'
<1>1. Len(tokens) \in Nat /\ version \in Nat /\ MaxTokens \in Nat
  BY SessionConstants DEF IInv, TypeOK, ServerTyped
<1>2. tokens \in [Id -> Token]
  BY SeqIsFunction DEF IInv, TypeOK, ServerTyped, Id
<1>3. Len(tokens) + 1 \in 1 .. Len(tokens) + 1
  BY <1>1
<1>4. \A i \in Id : tokens[i].status = "active" => Active(i) /\ version' = version
  BY DEF Active
<1>5. /\ Len(tokens') = Len(tokens) + 1 /\ tokens' \in Seq(Token') /\ OnlyTheLastPassword'
      /\ Id \subseteq Id' /\ RequestState \subseteq RequestState'
      /\ \A i \in Id : tokens'[i].version = tokens[i].version
  BY <1>1, <1>2, <1>3, <1>4, TokensAppended
<1>6. request' \in [Request -> RequestState']
  BY <1>5 DEF IInv, TypeOK, ServerTyped
<1>7. RequestsTyped' /\ OneHolder' /\ HoldersAreCurrent'
  <2>1. /\ Len(tokens) <= Len(tokens') /\ Len(tokens') \in Nat
        /\ \A p \in Request : request'[p] = request[p]
    BY <1>1, <1>5
  <2>2. version' = version /\ version' \in Nat /\ version <= version'
    BY <1>1
  <2> HIDE DEF Refreshing
  <2> QED
    BY <1>5, <1>6, <2>1, <2>2, RequestsAfter
<1>8. Len(tokens) + 1 \in Id'
  BY <1>1, <1>5 DEF Id
<1>9. BrowserTyped'
  BY <1>1, <1>5, <1>8, BrowserAfter
<1>10. ServerTyped'
  BY <1>1, <1>5, <1>7, <1>8 DEF ServerTyped, RequestsTyped, IInv, TypeOK
<1> QED
  BY <1>5, <1>7, <1>9, <1>10 DEF IInv, TypeOK

LEMMA LoginStep ==
  ASSUME IInv, Login \/ SignInUndone PROVE IInv'
<1>1. CASE Login
  <2>1. faults' \in 0 .. MaxFaults
    BY <1>1 DEF Login, IInv, TypeOK, BrowserTyped
  <2> QED
    BY <1>1, <2>1, NewRow, SignInStep DEF Login
<1>2. CASE SignInUndone
  <2>1. faults' \in 0 .. MaxFaults
    BY <1>2, FaultTyped DEF SignInUndone
  <2> QED
    BY <1>2, <2>1, NewRow, SignInStep DEF SignInUndone
<1> QED
  BY <1>1, <1>2

-----------------------------------------------------------------------------
(* The tabs, and requests that begin or end with them.                     *)

\* A step that keeps the rows: the browser changes, and requests begin or end.
LEMMA SameRows ==
  ASSUME IInv, UNCHANGED <<tokens, version>>, request' \in [Request -> RequestState],
         \A p \in Request : request'[p] = request[p] \/ NewFor(request'[p]),
         store' \in Id \cup {0}, tab' \in [Tab -> TabState], leaving' \in BOOLEAN,
         \A t \in Tab : tab'[t].at = "ask" => tab'[t].request \in Request,
         ended' \subseteq Id, endings' \in version .. MaxEndings, faults' \in 0 .. MaxFaults
  PROVE  IInv'
<1>1. Len(tokens) \in Nat /\ version \in Nat
  BY DEF IInv, TypeOK, ServerTyped
<1>2. /\ Id' = Id /\ Token' = Token /\ RequestState' = RequestState /\ TabState' = TabState
      /\ OnlyTheLastPassword'
  BY TokensKept DEF IInv, TypeOK
<1>3. \A p \in Request : request'[p] = request[p] \/ NewFor(request[p])'
  BY <1>2 DEF NewFor
<1>4. RequestsTyped' /\ OneHolder' /\ HoldersAreCurrent'
  BY <1>1, <1>2, <1>3, RequestsAfter
<1>5. ServerTyped'
  BY <1>2, <1>4 DEF ServerTyped, RequestsTyped, IInv, TypeOK
<1>6. BrowserTyped'
  BY <1>2 DEF BrowserTyped
<1> QED
  BY <1>2, <1>4, <1>5, <1>6 DEF IInv, TypeOK

\* What a step that does not touch a part may use of it.
LEMMA Parts ==
  ASSUME IInv
  PROVE  /\ request \in [Request -> RequestState] /\ store \in Id \cup {0}
         /\ tab \in [Tab -> TabState] /\ leaving \in BOOLEAN
         /\ \A t \in Tab : tab[t].at = "ask" => tab[t].request \in Request
         /\ ended \subseteq Id /\ endings \in version .. MaxEndings /\ faults \in 0 .. MaxFaults
         /\ version \in Nat /\ Quiet \in TabState /\ Quiet.at = "idle"
         /\ Free \in RequestState /\ NewFor(Free)
<1>1. /\ request \in [Request -> RequestState] /\ store \in Id \cup {0}
      /\ tab \in [Tab -> TabState] /\ leaving \in BOOLEAN
      /\ \A t \in Tab : tab[t].at = "ask" => tab[t].request \in Request
      /\ ended \subseteq Id /\ endings \in version .. MaxEndings /\ faults \in 0 .. MaxFaults
      /\ version \in Nat
  BY DEF IInv, TypeOK, ServerTyped, BrowserTyped
<1>2. Quiet \in TabState /\ Quiet.at = "idle"
  BY DEF Quiet, TabState
<1>3. Free \in RequestState
  BY <1>1 DEF Free, RequestState
<1>4. NewFor(Free)
  BY <1>3 DEF NewFor, Free, Holds, WithFamily, Working
<1> QED
  BY <1>1, <1>2, <1>3, <1>4

LEMMA AbortStep ==
  ASSUME IInv, NEW q \in Request, Abort(q) PROVE IInv'
<1>1. /\ request' = [request EXCEPT ![q] = Free]
      /\ tab' = [t \in Tab |-> IF tab[t].request = q THEN Quiet ELSE tab[t]]
      /\ UNCHANGED <<tokens, version, store, leaving, ended, endings>>
      /\ faults' \in 0 .. MaxFaults
  BY FaultTyped DEF Abort
<1>2. /\ request' \in [Request -> RequestState]
      /\ \A p \in Request : request'[p] = request[p] \/ NewFor(request'[p])
  BY <1>1, Parts
<1>3. /\ tab' \in [Tab -> TabState]
      /\ \A t \in Tab : tab'[t].at = "ask" => tab'[t].request \in Request
  BY <1>1, Parts
<1> QED
  BY <1>1, <1>2, <1>3, Parts, SameRows

GoodTab(x) == x \in TabState /\ (x.at = "ask" => x.request \in Request)

LEMMA QuietTabs ==
  ASSUME NEW n \in Id \cup {0}
  PROVE  /\ GoodTab(Quiet) /\ GoodTab([Quiet EXCEPT !.at = "reject"])
         /\ GoodTab([Quiet EXCEPT !.at = "apply", !.got = n])
         /\ GoodTab([Quiet EXCEPT !.at = "wait", !.start = n])
<1>1. Quiet \in TabState /\ Quiet.at = "idle"
  BY DEF Quiet, TabState
<1>2. ASSUME NEW a \in {"reject", "apply", "wait"}
      PROVE  [Quiet EXCEPT !.at = a] \in TabState /\ [Quiet EXCEPT !.at = a].at = a
  BY <1>1 DEF TabState
<1> DEFINE x == [Quiet EXCEPT !.at = "apply"]
           y == [Quiet EXCEPT !.at = "wait"]
<1>3. x \in TabState /\ x.at = "apply" /\ y \in TabState /\ y.at = "wait"
  BY <1>2
<1> HIDE DEF x, y
<1>4. [x EXCEPT !.got = n] \in TabState /\ [x EXCEPT !.got = n].at = "apply"
  BY <1>3 DEF TabState
<1>5. [y EXCEPT !.start = n] \in TabState /\ [y EXCEPT !.start = n].at = "wait"
  BY <1>3 DEF TabState
<1>6. GoodTab([x EXCEPT !.got = n]) /\ GoodTab([y EXCEPT !.start = n])
  BY <1>4, <1>5 DEF GoodTab
<1>7. GoodTab(Quiet) /\ GoodTab([Quiet EXCEPT !.at = "reject"])
  BY <1>1, <1>2 DEF GoodTab
<1>8. /\ GoodTab([Quiet EXCEPT !.at = "apply", !.got = n])
      /\ GoodTab([Quiet EXCEPT !.at = "wait", !.start = n])
  BY <1>6 DEF x, y
<1> QED
  BY <1>7, <1>8

LEMMA OneTab ==
  ASSUME IInv, NEW t \in Tab, NEW x, GoodTab(x), tab' = [tab EXCEPT ![t] = x]
  PROVE  /\ tab' \in [Tab -> TabState]
         /\ \A u \in Tab : tab'[u].at = "ask" => tab'[u].request \in Request
BY Parts DEF GoodTab

LEMMA OneFreed ==
  ASSUME IInv, NEW q \in Request, request' = [request EXCEPT ![q] = Free]
  PROVE  /\ request' \in [Request -> RequestState]
         /\ \A p \in Request : request'[p] = request[p] \/ NewFor(request'[p])
BY Parts

LEMMA AsksTyped ==
  ASSUME IInv, NEW t \in Tab, NEW q \in Request, NEW retry \in BOOLEAN, store # 0,
         Asks(t, q, retry)
  PROVE  /\ request' \in [Request -> RequestState]
         /\ \A p \in Request : request'[p] = request[p] \/ NewFor(request'[p])
         /\ tab' \in [Tab -> TabState]
         /\ \A u \in Tab : tab'[u].at = "ask" => tab'[u].request \in Request
<1> DEFINE a == [Free EXCEPT !.kind = "refresh"]
           b == [a EXCEPT !.at = "user"]
           c == [b EXCEPT !.token = store]
           d == [Quiet EXCEPT !.at = "ask"]
           e == [d EXCEPT !.used = store]
           f == [e EXCEPT !.request = q]
           g == [f EXCEPT !.retried = retry]
<1>1. request' = [request EXCEPT ![q] = c] /\ tab' = [tab EXCEPT ![t] = g]
  BY DEF Asks
<1>2. store \in Id /\ Free \in RequestState /\ Quiet \in TabState
  BY Parts
<1>3. a \in RequestState /\ a.kind = "refresh"
  BY <1>2 DEF RequestState
<1>4. b \in RequestState /\ b.at = "user"
  <2> HIDE DEF a
  <2> QED
    BY <1>3 DEF RequestState
<1>5. c \in RequestState /\ c.at = "user" /\ c.token = store
  <2> HIDE DEF b
  <2> QED
    BY <1>2, <1>4 DEF RequestState
<1>6. d \in TabState /\ d.at = "ask"
  BY <1>2 DEF TabState
<1>7. e \in TabState /\ e.at = "ask"
  <2> HIDE DEF d
  <2> QED
    BY <1>2, <1>6 DEF TabState
<1>8. f \in TabState /\ f.at = "ask" /\ f.request = q
  <2> HIDE DEF e
  <2> QED
    BY <1>7 DEF TabState
<1>9. g \in TabState /\ g.at = "ask" /\ g.request = q
  <2> HIDE DEF f
  <2> QED
    BY <1>8 DEF TabState
<1> HIDE DEF a, b, c, d, e, f, g
<1>10. NewFor(c)
  BY <1>2, <1>5 DEF NewFor, Holds, WithFamily, Working
<1>11. GoodTab(g)
  BY <1>9 DEF GoodTab
<1> QED
  BY <1>1, <1>5, <1>10, <1>11, OneTab, Parts

LEMMA EnterStep ==
  ASSUME IInv, NEW t \in Tab, Enter(t) PROVE IInv'
<1>1. faults' \in 0 .. MaxFaults /\ UNCHANGED <<tokens, version, store, leaving, ended, endings>>
  BY FaultTyped, Parts DEF Enter, Entered
<1>2. CASE store = 0 /\ tab' = [tab EXCEPT ![t] = [Quiet EXCEPT !.at = "reject"]]
           /\ UNCHANGED request
  BY <1>1, <1>2, QuietTabs, OneTab, Parts, SameRows
<1>3. CASE tab' = [tab EXCEPT ![t] = [Quiet EXCEPT !.at = "apply", !.got = store]]
           /\ UNCHANGED request
  BY <1>1, <1>3, QuietTabs, OneTab, Parts, SameRows
<1>4. ASSUME store # 0, NEW q \in Request, Asks(t, q, FALSE) PROVE IInv'
  <2>1. /\ request' \in [Request -> RequestState]
        /\ \A p \in Request : request'[p] = request[p] \/ NewFor(request'[p])
        /\ tab' \in [Tab -> TabState]
        /\ \A u \in Tab : tab'[u].at = "ask" => tab'[u].request \in Request
    BY <1>4, AsksTyped
  <2> QED
    BY <1>1, <2>1, Parts, SameRows
<1> QED
  BY <1>2, <1>3, <1>4 DEF Enter

LEMMA PersistStep ==
  ASSUME IInv, NEW t \in Tab, Persist(t) PROVE IInv'
<1> DEFINE q == tab[t].request
<1>1. /\ tab[t].at = "ask" /\ (request' = [request EXCEPT ![q] = Free] \/ UNCHANGED request)
      /\ UNCHANGED <<tokens, version, leaving, ended, endings, faults>>
  BY DEF Persist
<1>2. q \in Request /\ request[q].issued \in Id \cup {0}
  <2>1. q \in Request
    BY <1>1, Parts
  <2> QED
    BY <2>1, Parts DEF RequestState
<1>3. /\ request' \in [Request -> RequestState]
      /\ \A p \in Request : request'[p] = request[p] \/ NewFor(request'[p])
  BY <1>1, <1>2, OneFreed, Parts
<1>4. CASE tab' = [tab EXCEPT ![t] = Quiet] /\ UNCHANGED store
  BY <1>1, <1>3, <1>4, QuietTabs, OneTab, Parts, SameRows
<1>5. ASSUME store' = request[q].issued,
             tab' = [u \in Tab |->
                       IF u = t THEN [Quiet EXCEPT !.at = "apply", !.got = request[q].issued]
                       ELSE [tab[u] EXCEPT !.told = (tab[u].at = "wait")]]
      PROVE  IInv'
  <2>1. GoodTab([Quiet EXCEPT !.at = "apply", !.got = request[q].issued])
    BY <1>2, QuietTabs
  <2>2. ASSUME NEW u \in Tab PROVE GoodTab([tab[u] EXCEPT !.told = (tab[u].at = "wait")])
    <3>1. tab[u] \in TabState /\ (tab[u].at = "ask" => tab[u].request \in Request)
      BY Parts
    <3>2. ASSUME NEW b \in BOOLEAN PROVE GoodTab([tab[u] EXCEPT !.told = b])
      <4> DEFINE x == [tab[u] EXCEPT !.told = b]
      <4>1. x \in TabState /\ x.at = tab[u].at /\ x.request = tab[u].request
        BY <3>1 DEF TabState
      <4> HIDE DEF x
      <4>2. GoodTab(x)
        BY <3>1, <4>1 DEF GoodTab
      <4> QED
        BY <4>2 DEF x
    <3>3. (tab[u].at = "wait") \in BOOLEAN
      OBVIOUS
    <3> QED
      BY <3>2, <3>3
  <2>3. \A u \in Tab : GoodTab(tab'[u])
    BY <1>5, <2>1, <2>2
  <2>4. /\ tab' \in [Tab -> TabState]
        /\ \A u \in Tab : tab'[u].at = "ask" => tab'[u].request \in Request
    BY <1>5, <2>3 DEF GoodTab
  <2> HIDE DEF q
  <2> QED
    BY <1>1, <1>2, <1>3, <1>5, <2>4, Parts, SameRows
<1> QED
  BY <1>4, <1>5 DEF Persist

LEMMA RefusedStep ==
  ASSUME IInv, NEW t \in Tab, Refused(t) PROVE IInv'
<1> DEFINE q == tab[t].request
<1>1. /\ tab[t].at = "ask"
      /\ UNCHANGED <<tokens, version, store, leaving, ended, endings, faults>>
  BY DEF Refused
<1>2. q \in Request
  BY <1>1, Parts
<1>3. ASSUME store # 0, Asks(t, q, TRUE) PROVE IInv'
  <2>1. /\ request' \in [Request -> RequestState]
        /\ \A p \in Request : request'[p] = request[p] \/ NewFor(request'[p])
        /\ tab' \in [Tab -> TabState]
        /\ \A u \in Tab : tab'[u].at = "ask" => tab'[u].request \in Request
    <3> HIDE DEF q
    <3> QED
      BY <1>2, <1>3, AsksTyped
  <2> QED
    BY <1>1, <2>1, Parts, SameRows
<1>4. ASSUME request' = [request EXCEPT ![q] = Free],
             tab' = [tab EXCEPT ![t] = [Quiet EXCEPT !.at = "reject"]]
      PROVE  IInv'
  <2>1. /\ request' \in [Request -> RequestState]
        /\ \A p \in Request : request'[p] = request[p] \/ NewFor(request'[p])
    BY <1>2, <1>4, OneFreed
  <2>2. /\ tab' \in [Tab -> TabState]
        /\ \A u \in Tab : tab'[u].at = "ask" => tab'[u].request \in Request
    BY <1>4, QuietTabs, OneTab
  <2> QED
    BY <1>1, <2>1, <2>2, Parts, SameRows
<1> QED
  BY <1>3, <1>4 DEF Refused

LEMMA TabSteps ==
  ASSUME IInv, Tabs PROVE IInv'
<1>1. ASSUME NEW t \in Tab, NEW x, GoodTab(x), tab' = [tab EXCEPT ![t] = x],
             UNCHANGED <<tokens, version, request, leaving, ended, endings, faults>>,
             store' \in Id \cup {0}
      PROVE  IInv'
  BY <1>1, OneTab, Parts, SameRows
<1>2. ASSUME NEW t \in Tab, Start(t) PROVE IInv'
  <2>1. GoodTab([Quiet EXCEPT !.at = "wait", !.start = store])
    BY QuietTabs, Parts
  <2> QED
    BY <1>1, <1>2, <2>1, Parts DEF Start, server
<1>3. ASSUME NEW t \in Tab, Apply(t) PROVE IInv'
  <2>1. tab[t].got \in Id \cup {0}
    BY Parts DEF TabState
  <2>2. GoodTab(Quiet)
    BY QuietTabs, Parts
  <2> QED
    BY <1>1, <1>3, <2>1, <2>2 DEF Apply, server
<1>4. ASSUME NEW t \in Tab, Clear(t) PROVE IInv'
  <2>1. GoodTab(Quiet)
    BY QuietTabs, Parts
  <2> QED
    BY <1>1, <1>4, <2>1 DEF Clear, server
<1>5. ASSUME NEW t \in Tab, Lose(t) PROVE IInv'
  <2>1. /\ tab' = [tab EXCEPT ![t] = Quiet] /\ faults' \in 0 .. MaxFaults
        /\ request' = [q \in Request |-> IF q = tab[t].request /\ request[q].kind = "answer"
                                         THEN Free ELSE request[q]]
        /\ UNCHANGED <<tokens, version, store, leaving, ended, endings>>
    BY <1>5, FaultTyped DEF Lose
  <2>2. /\ request' \in [Request -> RequestState]
        /\ \A p \in Request : request'[p] = request[p] \/ NewFor(request'[p])
    BY <2>1, Parts
  <2>3. /\ tab' \in [Tab -> TabState]
        /\ \A u \in Tab : tab'[u].at = "ask" => tab'[u].request \in Request
    BY <2>1, QuietTabs, OneTab, Parts
  <2> QED
    BY <2>1, <2>2, <2>3, Parts, SameRows
<1> QED
  BY <1>2, <1>3, <1>4, <1>5, EnterStep, PersistStep, RefusedStep DEF Tabs

LEMMA LogoutStep ==
  ASSUME IInv, Logout PROVE IInv'
<1> DEFINE a == [Free EXCEPT !.kind = "logout"]
           b == [a EXCEPT !.at = "rotate"]
           c == [b EXCEPT !.token = store]
<1>1. /\ store # 0 /\ leaving' = TRUE /\ endings < MaxEndings /\ endings' = endings + 1
      /\ ended' = ended \cup {tokens[store].family}
      /\ \E q \in Request : request' = [request EXCEPT ![q] = c]
      /\ UNCHANGED <<tokens, version, store, tab, faults>>
  BY DEF Logout
<1>2. store \in Id /\ Free \in RequestState
  BY <1>1, Parts
<1>3. a \in RequestState /\ a.kind = "logout"
  BY <1>2 DEF RequestState
<1>4. b \in RequestState /\ b.kind = "logout" /\ b.at = "rotate"
  <2> HIDE DEF a
  <2> QED
    BY <1>3 DEF RequestState
<1>5. c \in RequestState /\ c.kind = "logout" /\ c.at = "rotate" /\ c.token = store
  <2> HIDE DEF b
  <2> QED
    BY <1>2, <1>4 DEF RequestState
<1> HIDE DEF a, b, c
<1>6. NewFor(c)
  BY <1>2, <1>5 DEF NewFor, Holds, WithFamily, Working
<1>7. /\ request' \in [Request -> RequestState]
      /\ \A p \in Request : request'[p] = request[p] \/ NewFor(request'[p])
  BY <1>1, <1>5, <1>6, Parts
<1>8. ended' \subseteq Id
  <2>1. tokens[store] \in Token
    BY <1>2, SeqIsFunction DEF IInv, TypeOK, ServerTyped, Id
  <2> QED
    BY <1>1, <2>1, Parts DEF Token
<1>9. endings' \in version .. MaxEndings
  BY <1>1, Parts, SessionConstants
<1> QED
  BY <1>1, <1>7, <1>8, <1>9, Parts, SameRows

-----------------------------------------------------------------------------
LEMMA InitIInv == Init => IInv
<1> SUFFICES ASSUME Init PROVE IInv
  OBVIOUS
<1>1. /\ Len(tokens) = 1 /\ tokens[1] = NewToken(1, 0) /\ version = 0 /\ Id = {1}
      /\ tokens = <<NewToken(1, 0)>>
  BY DEF Init, Id
<1>2. NewToken(1, 0) \in Token
  BY <1>1 DEF NewToken, Token
<1>3. tokens \in Seq(Token)
  BY <1>1, <1>2
<1>4. Free \in RequestState /\ Free.at = "idle" /\ Free.kind = "none"
  BY <1>1 DEF Free, RequestState
<1>5. Quiet \in TabState /\ Quiet.at = "idle"
  BY DEF Quiet, TabState
<1>6. ServerTyped
  BY <1>1, <1>3, <1>4, SessionConstants DEF Init, ServerTyped
<1>7. BrowserTyped
  <2>1. store \in Id \cup {0} /\ leaving \in BOOLEAN
    BY <1>1 DEF Init
  <2>2. /\ tab \in [Tab -> TabState]
        /\ \A t \in Tab : tab[t].at = "ask" => tab[t].request \in Request
    BY <1>5 DEF Init
  <2>3. faults \in 0 .. MaxFaults
    BY SessionConstants DEF Init
  <2> QED
    BY <2>1, <2>2, <2>3 DEF BrowserTyped
<1>8. OneHolder /\ HoldersAreCurrent
  BY <1>4 DEF Init, OneHolder, HoldersAreCurrent, HoldsUser
<1>9. OnlyTheLastPassword
  BY <1>1 DEF OnlyTheLastPassword, NewToken
<1> QED
  BY <1>6, <1>7, <1>8, <1>9 DEF IInv, TypeOK

LEMMA NextIInv == IInv /\ [Next]_vars => IInv'
<1> SUFFICES ASSUME IInv, [Next]_vars PROVE IInv'
  OBVIOUS
<1>1. CASE Requests
  BY <1>1, LockUserStep, RotateStep, GraceStep, CheckFamilyStep, EndFamilyStep, IssueStep,
     CommitStep, CommitFailsStep, ListFamilyStep, RevokeFamilyStep, AbortStep DEF Requests
<1>2. CASE Tabs
  BY <1>2, TabSteps
<1>3. CASE ReplacePassword \/ Login \/ SignInUndone \/ Logout
  BY <1>3, ReplacePasswordStep, LoginStep, LogoutStep
<1>4. CASE Leave
  BY <1>4, Parts, SameRows DEF Leave, server
<1>5. ASSUME NEW i \in Id, Lapse(i) PROVE IInv'
  BY <1>5, LapseStep
<1>6. CASE UNCHANGED vars
  BY <1>6, Parts, SameRows DEF vars, server, browser
<1> QED
  BY <1>1, <1>2, <1>3, <1>4, <1>5, <1>6 DEF Next

LEMMA Invariance == Spec => []IInv
  BY InitIInv, NextIInv, PTL DEF Spec

\* The types, and get_by_id_for_update lets in one refresh of the user at a time.
THEOREM TypeCorrect == Spec => []TypeOK
  BY Invariance, PTL DEF IInv

\* However many refreshes are under way when the password changes, no token of
\* an earlier one is active afterwards: a refresh holds the user from reading
\* its version to the commit of the token it issues.
THEOREM OldSessionsEnd == Spec => []OnlyTheLastPassword
  BY Invariance, PTL DEF IInv

-----------------------------------------------------------------------------
(* The browser keeps its session.                                          *)

\* The row of a session nobody has ended can be exchanged, or its commit failed
\* when nobody had it.
Whole(i, rows, over) ==
  rows[i].family \notin over =>
    /\ rows[i].status # "revoked" /\ rows[i].fresh
    /\ \E j \in 1 .. Len(rows) : rows[j].family = rows[i].family /\ rows[j].status = "active"

\* A token somebody has: if its commit failed, its session is over.
Real(i, rows, over) == rows[i].status = "void" => rows[i].family \in over

\* rotate_valid_token has seen the row of the token.
Past == WithFamily \cup {"grace"}

\* A request works on the family of its token, whose row it has seen; a logout and
\* a refusal have ended a session; a token that is answered is no longer pending.
Fits(x, rows, over) ==
  /\ x.at \in WithFamily => x.family = rows[x.token].family
  /\ x.at \in Working => Real(x.token, rows, over)
  /\ x.at \in Past => rows[x.token].status # "pending"
  /\ x.at = "grace" => rows[x.token].status # "active"
  /\ x.at \in {"user", "rotate"} => x.kind \in {"refresh", "logout"}
  /\ x.at \in {"list", "revoke"} => x.kind = "logout"
  /\ x.kind = "logout" => x.token \in 1 .. Len(rows) /\ rows[x.token].family \in over
  /\ x.at = "revoke" => \A i \in x.sees : rows[i].family = x.family
  /\ x.at = "refused" => over # {}
  /\ x.at = "commit" => rows[x.issued].status = "pending" /\ rows[x.issued].family = x.family
  /\ x.at = "issued" => /\ x.issued # 0 /\ rows[x.issued].status # "pending"
                        /\ Real(x.issued, rows, over)

TabFits(x, rows, over) ==
  /\ x.at = "reject" => over # {}
  /\ x.at = "apply" => x.got # 0
  /\ x.got # 0 => Real(x.got, rows, over)

\* A pending row has a commit to come.
CommitToCome(i) == \E q \in Request : request[q].at = "commit" /\ request[q].issued = i

SessionInv ==
  /\ \A i \in Id : /\ Whole(i, tokens, ended)
                   /\ tokens[i].status = "pending" => CommitToCome(i)
  /\ \A q \in Request : Fits(request[q], tokens, ended)
  /\ \A t \in Tab : TabFits(tab[t], tokens, ended)
  /\ leaving \/ store = 0 => ended # {}
  /\ store # 0 => Real(store, tokens, ended)

LEMMA Rows ==
  ASSUME IInv
  PROVE  /\ Len(tokens) \in Nat /\ tokens \in [Id -> Token] /\ \A i \in Id : tokens[i] \in Token
         /\ request \in [Request -> RequestState] /\ tab \in [Tab -> TabState]
         /\ \A q \in Request : /\ request[q].at \in Working => request[q].token \in Id
                               /\ request[q].sees \subseteq Id
                               /\ request[q].at = "commit" => /\ request[q].issued \in Id
                                                             /\ request[q].kind = "refresh"
                                                             /\ HoldsUser(q)
<1>1. Len(tokens) \in Nat /\ tokens \in [Id -> Token] /\ \A i \in Id : tokens[i] \in Token
  BY SeqIsFunction DEF IInv, TypeOK, ServerTyped, Id
<1>2. request \in [Request -> RequestState] /\ tab \in [Tab -> TabState]
  BY Parts
<1>3. \A q \in Request : request[q].at \in Working => request[q].token \in Id
  BY DEF IInv, TypeOK, ServerTyped, Working
<1>4. \A q \in Request : request[q].sees \subseteq Id
  BY <1>2 DEF RequestState
<1>5. \A q \in Request : request[q].at = "commit" => /\ request[q].issued \in Id
                                                    /\ request[q].kind = "refresh"
                                                    /\ HoldsUser(q)
  BY DEF IInv, TypeOK, ServerTyped, HoldersAreCurrent, HoldsUser
<1> QED
  BY <1>1, <1>2, <1>3, <1>4, <1>5

\* Nobody has the token i, or asks with it, or is answered with it.
Unheld(i) ==
  /\ store # i
  /\ \A t \in Tab : tab[t].got # i
  /\ \A p \in Request : /\ request[p].token # i
                        /\ request[p].at = "issued" => request[p].issued # i

\* Rows keep their families and ended sessions stay ended; what is active was so
\* or was pending; a row is void that was so, whose session is over, or nobody has.
Onward ==
  /\ Len(tokens) <= Len(tokens') /\ Len(tokens') \in Nat
  /\ \A i \in Id : tokens'[i].family = tokens[i].family
  /\ ended \subseteq ended'
  /\ \A i \in Id : tokens'[i].status \in {"active", "pending"} =>
                     tokens[i].status \in {tokens'[i].status, "pending"}
  /\ \A i \in Id : tokens'[i].status = "void" =>
                     tokens[i].status = "void" \/ tokens[i].family \in ended' \/ Unheld(i)

LEMMA StillReal ==
  ASSUME Onward, NEW i \in Id, Real(i, tokens, ended), ~Unheld(i)
  PROVE  Real(i, tokens', ended')
BY DEF Onward, Real

LEMMA StillFits ==
  ASSUME IInv, SessionInv, Onward, NEW q \in Request,
         request[q].at = "commit" => tokens'[request[q].issued].status = "pending"
  PROVE  Fits(request[q], tokens', ended')
<1> DEFINE r == request[q]
<1>1. Fits(r, tokens, ended)
  BY DEF SessionInv
<1>2. /\ Len(tokens) \in Nat /\ Id \subseteq 1 .. Len(tokens') /\ r.sees \subseteq Id
      /\ r.at \in Working => r.token \in Id
      /\ r.at = "commit" => r.issued \in Id
  BY Rows DEF Onward, Id
<1>3. \A i \in Id : tokens'[i].family = tokens[i].family
  BY DEF Onward
<1>4. ended \subseteq ended'
  BY DEF Onward
<1>5. r.issued \in Id \cup {0}
  BY Rows DEF RequestState
<1>6. r.at \in Working => Real(r.token, tokens', ended')
  BY <1>1, <1>2, StillReal DEF Fits, Unheld
<1>7. r.at = "issued" => Real(r.issued, tokens', ended')
  BY <1>1, <1>5, StillReal DEF Fits, Unheld
<1>8. \A i \in Id : /\ tokens[i].status # "pending" => tokens'[i].status # "pending"
                    /\ tokens[i].status \notin {"active", "pending"} =>
                         tokens'[i].status \notin {"active", "pending"}
  BY DEF Onward
<1>9. r.at = "commit" => tokens'[r.issued].status = "pending"
  OBVIOUS
<1> HIDE DEF r
<1>10. r.at \in WithFamily => r.family = tokens'[r.token].family
  BY <1>1, <1>2, <1>3 DEF Fits, WithFamily, Working
<1>11. r.kind = "logout" => r.token \in 1 .. Len(tokens') /\ tokens'[r.token].family \in ended'
  BY <1>1, <1>2, <1>3, <1>4 DEF Fits, Id
<1>12. r.at = "revoke" => \A i \in r.sees : tokens'[i].family = r.family
  BY <1>1, <1>2, <1>3 DEF Fits
<1>13. r.at = "refused" => ended' # {}
  BY <1>1, <1>4 DEF Fits
<1>14. /\ r.at \in Past => tokens'[r.token].status # "pending"
       /\ r.at = "grace" => tokens'[r.token].status # "active"
  BY <1>1, <1>2, <1>8 DEF Fits, Past, Working, WithFamily
<1>15. r.at = "commit" => tokens'[r.issued].family = r.family
  BY <1>1, <1>2, <1>3 DEF Fits
<1>16. r.at = "issued" => r.issued # 0 /\ tokens'[r.issued].status # "pending"
  BY <1>1, <1>5, <1>8 DEF Fits
<1>17. /\ r.at \in {"user", "rotate"} => r.kind \in {"refresh", "logout"}
       /\ r.at \in {"list", "revoke"} => r.kind = "logout"
  BY <1>1 DEF Fits
<1> QED
  BY <1>6, <1>7, <1>9, <1>10, <1>11, <1>12, <1>13, <1>14, <1>15, <1>16, <1>17 DEF Fits, r

LEMMA StillTabFits ==
  ASSUME IInv, SessionInv, Onward
  PROVE  /\ \A t \in Tab : TabFits(tab[t], tokens', ended')
         /\ store # 0 => Real(store, tokens', ended')
<1>1. store # 0 => store \in Id /\ Real(store, tokens, ended)
  BY Parts DEF SessionInv
<1>2. store # 0 => Real(store, tokens', ended')
  BY <1>1, StillReal DEF Unheld
<1>3. ASSUME NEW t \in Tab PROVE TabFits(tab[t], tokens', ended')
  <2>1. TabFits(tab[t], tokens, ended) /\ tab[t].got \in Id \cup {0}
    BY Rows DEF SessionInv, TabState
  <2>2. tab[t].got # 0 => Real(tab[t].got, tokens', ended')
    BY <2>1, StillReal DEF Unheld, TabFits
  <2>3. ended \subseteq ended'
    BY DEF Onward
  <2> QED
    BY <2>1, <2>2, <2>3 DEF TabFits
<1> QED
  BY <1>2, <1>3

\* A pending row keeps its commit.
LEMMA CommitsStay ==
  ASSUME SessionInv, Onward, NEW i \in Id, tokens'[i].status = "pending",
         \A p \in Request : request[p].at = "commit" => request'[p] = request[p]
  PROVE  CommitToCome(i)'
<1>1. tokens[i].status = "pending"
  BY DEF Onward
<1>2. PICK p \in Request : request[p].at = "commit" /\ request[p].issued = i
  BY <1>1 DEF SessionInv, CommitToCome
<1>3. request'[p] = request[p]
  BY <1>2
<1> QED
  BY <1>2, <1>3 DEF CommitToCome

\* While one request holds the user and has not issued yet, no row is pending.
LEMMA NothingPending ==
  ASSUME IInv, SessionInv, NEW q \in Request, HoldsUser(q), NEW i \in Id,
         tokens[i].status = "pending"
  PROVE  request[q].at = "commit" /\ request[q].issued = i
<1>1. PICK p \in Request : request[p].at = "commit" /\ request[p].issued = i
  BY DEF SessionInv, CommitToCome
<1>2. HoldsUser(p)
  BY <1>1, Rows
<1>3. p = q
  BY <1>2 DEF IInv, TypeOK, OneHolder
<1> QED
  BY <1>1, <1>3

LEMMA SessionAfter ==
  ASSUME IInv, SessionInv, Onward,
         \A i \in 1 .. Len(tokens') : /\ Whole(i, tokens', ended')
                                      /\ tokens'[i].status = "pending" => CommitToCome(i)',
         \A p \in Request :
           \/ /\ request'[p] = request[p]
              /\ request[p].at = "commit" => tokens'[request[p].issued].status = "pending"
           \/ Fits(request'[p], tokens', ended'),
         \A t \in Tab : TabFits(tab'[t], tokens', ended'),
         leaving' \/ store' = 0 => ended' # {},
         store' # 0 => Real(store', tokens', ended')
  PROVE  SessionInv'
<1>1. \A p \in Request : Fits(request'[p], tokens', ended')
  BY StillFits
<1> QED
  BY <1>1 DEF SessionInv, Id

LEMMA SessionSameRows ==
  ASSUME IInv, SessionInv, tokens' = tokens, ended \subseteq ended',
         \A p \in Request : \/ request'[p] = request[p]
                            \/ request[p].at # "commit" /\ Fits(request'[p], tokens, ended'),
         \A t \in Tab : tab'[t] = tab[t] \/ TabFits(tab'[t], tokens, ended'),
         leaving' \/ store' = 0 => ended' # {},
         store' \in {0, store} \/ Real(store', tokens, ended')
  PROVE  SessionInv'
<1>1. Onward
  BY Rows DEF Onward
<1>2. 1 .. Len(tokens') = Id
  BY DEF Id
<1>3. \A i \in Id : Whole(i, tokens', ended')
  BY DEF SessionInv, Whole
<1>4. \A i \in Id : tokens'[i].status = "pending" => CommitToCome(i)'
  BY <1>1, CommitsStay
<1>5. (\A t \in Tab : TabFits(tab'[t], tokens', ended')) /\ (store' # 0 => Real(store', tokens', ended'))
  BY <1>1, StillTabFits
<1>6. \A p \in Request : request[p].at = "commit" => tokens'[request[p].issued].status = "pending"
  BY DEF SessionInv, Fits
<1> QED
  BY <1>1, <1>2, <1>3, <1>4, <1>5, <1>6, SessionAfter

\* A request goes on and changes nothing else.
LEMMA SessionOneRequest ==
  ASSUME IInv, SessionInv, NEW q \in Request, NEW x, Fits(x, tokens, ended),
         request[q].at # "commit",
         request' = [request EXCEPT ![q] = x], UNCHANGED <<tokens, browser, ended>>
  PROVE  SessionInv'
<1>1. \A p \in Request : \/ request'[p] = request[p]
                         \/ request[p].at # "commit" /\ Fits(request'[p], tokens, ended')
  BY Rows
<1> QED
  BY <1>1, SessionSameRows DEF browser, SessionInv

LEMMA FreeFits ==
  ASSUME NEW rows, NEW over PROVE Fits(Free, rows, over) /\ TabFits(Quiet, rows, over)
BY DEF Fits, Free, Working, Past, WithFamily, TabFits, Quiet

LEMMA AnswerFits ==
  ASSUME IInv, NEW q \in Request, NEW answer, NEW rows, NEW over, Over(q, answer),
         answer.at \in {"issued", "refused"}, answer.at = "refused" => over # {},
         answer.at = "issued" => answer.issued # 0 /\ rows[answer.issued].status # "pending",
         answer.at = "issued" /\ (\E t \in Tab : tab[t].request = q) =>
           Real(answer.issued, rows, over)
  PROVE  /\ \A p \in Request \ {q} : request'[p] = request[p]
         /\ Fits(request'[q], rows, over)
<1> DEFINE y == [Free EXCEPT !.kind = "answer"]
           z == [y EXCEPT !.at = answer.at]
           x == [z EXCEPT !.issued = answer.issued]
<1>1. \/ request' = [request EXCEPT ![q] = x] /\ \E t \in Tab : tab[t].request = q
      \/ request' = [request EXCEPT ![q] = Free]
  BY DEF Over
<1>2. y \in RequestState /\ y.kind = "answer"
  BY Parts DEF RequestState
<1>3. z \in RequestState /\ z.kind = "answer" /\ z.at = answer.at
  <2> HIDE DEF y
  <2> QED
    BY <1>2 DEF RequestState
<1>4. x.kind = "answer" /\ x.at = answer.at /\ x.issued = answer.issued
  <2> HIDE DEF z
  <2> QED
    BY <1>3 DEF RequestState
<1> HIDE DEF x
<1>5. (\E t \in Tab : tab[t].request = q) => Fits(x, rows, over)
  BY <1>4 DEF Fits, Working, Past, WithFamily
<1> QED
  BY <1>1, <1>5, FreeFits, Rows

LEMMA RefuseKeepsSession ==
  ASSUME IInv, SessionInv, NEW q \in Request, Refuse(q), ended # {}, request[q].at # "commit"
  PROVE  SessionInv'
<1>1. Over(q, Refusal) /\ UNCHANGED <<tokens, browser, ended>>
  BY DEF Refuse
<1>2. (\A p \in Request \ {q} : request'[p] = request[p]) /\ Fits(request'[q], tokens, ended')
  BY <1>1, AnswerFits DEF Refusal
<1> QED
  BY <1>1, <1>2, SessionSameRows DEF browser, SessionInv

\* A token somebody has, of a session nobody has ended, is neither revoked nor
\* void, and its family has an active one.
LEMMA Unended ==
  ASSUME SessionInv, NEW i \in Id, ended = {}, Real(i, tokens, ended)
  PROVE  /\ tokens[i].status \notin {"revoked", "void"}
         /\ \E j \in FamilyOf(tokens[i].family) : Active(j)
BY DEF SessionInv, Whole, FamilyOf, Active, Id, Real

LEMMA LockUserKeepsSession ==
  ASSUME IInv, SessionInv, NEW q \in Request, LockUser(q) PROVE SessionInv'
<1> DEFINE y == [request[q] EXCEPT !.at = "rotate"]
           x == [y EXCEPT !.version = version]
<1>1. /\ request' = [request EXCEPT ![q] = x] /\ request[q].at = "user"
      /\ UNCHANGED <<tokens, browser, ended>>
  BY Rows DEF LockUser
<1>2. request[q] \in RequestState /\ Fits(request[q], tokens, ended)
  BY Rows DEF SessionInv
<1>3. y \in RequestState /\ y.at = "rotate" /\ y.kind = request[q].kind /\ y.token = request[q].token
  BY <1>2 DEF RequestState
<1> HIDE DEF y
<1>4. x.at = "rotate" /\ x.kind = request[q].kind /\ x.token = request[q].token
  BY <1>3 DEF RequestState
<1> HIDE DEF x
<1>5. Fits(x, tokens, ended)
  BY <1>1, <1>2, <1>4 DEF Fits, Working, Past, WithFamily
<1> QED
  BY <1>1, <1>5, SessionOneRequest

LEMMA RotateKeepsSession ==
  ASSUME IInv, SessionInv, NEW q \in Request, Rotate(q) PROVE SessionInv'
<1> DEFINE r == request[q]
<1>1. /\ r \in RequestState /\ r.at = "rotate" /\ r.token \in Id /\ Fits(r, tokens, ended)
      /\ UNCHANGED <<tokens, browser, ended>>
  BY Rows DEF Rotate, SessionInv, Working
<1>2. ASSUME NEW to \in {"issue", "list"}, to = "list" => r.kind # "refresh",
             request' = [request EXCEPT ![q].takes = TRUE, ![q].family = tokens[r.token].family,
                                        ![q].at = to],
             r.kind \in {"refresh", "logout"}, Active(r.token)
      PROVE  SessionInv'
  <2> DEFINE y == [r EXCEPT !.takes = TRUE]
             z == [y EXCEPT !.family = tokens[r.token].family]
             x == [z EXCEPT !.at = to]
  <2>1. request' = [request EXCEPT ![q] = x]
    BY <1>2, Rows
  <2>2. x.at = to /\ x.kind = r.kind /\ x.token = r.token /\ x.family = tokens[r.token].family
    <3> HIDE DEF r
    <3> QED
      BY <1>1 DEF RequestState
  <2> HIDE DEF x, r
  <2>3. Fits(x, tokens, ended)
    BY <1>1, <1>2, <2>2 DEF Fits, Working, Past, WithFamily, Active
  <2> QED
    BY <1>1, <2>1, <2>3, SessionOneRequest DEF r
<1>3. ASSUME r.kind = "refresh", ~Active(r.token),
             request' = [request EXCEPT ![q].at = "grace"]
      PROVE  SessionInv'
  <2> DEFINE x == [r EXCEPT !.at = "grace"]
  <2>1. request' = [request EXCEPT ![q] = x]
    BY <1>3, Rows
  <2>2. x.at = "grace" /\ x.kind = "refresh" /\ x.token = r.token
    <3> HIDE DEF r
    <3> QED
      BY <1>1, <1>3 DEF RequestState
  <2>3. tokens[r.token].status \notin {"active", "pending"}
    <3>1. HoldsUser(q)
      BY <1>1, <1>3 DEF HoldsUser
    <3> QED
      BY <1>1, <1>3, <3>1, NothingPending DEF Active
  <2> HIDE DEF x, r
  <2>4. Fits(x, tokens, ended)
    BY <1>1, <2>2, <2>3 DEF Fits, Working, Past, WithFamily
  <2> QED
    BY <1>1, <2>1, <2>4, SessionOneRequest DEF r
<1>4. ASSUME request' = [request EXCEPT ![q] = Free] PROVE SessionInv'
  BY <1>1, <1>4, FreeFits, SessionOneRequest
<1>5. r.kind \in {"refresh", "logout"}
  BY <1>1 DEF Fits
<1> HIDE DEF r
<1> QED
  BY <1>2, <1>3, <1>4, <1>5 DEF Rotate, r

LEMMA GraceKeepsSession ==
  ASSUME IInv, SessionInv, NEW q \in Request, Grace(q) PROVE SessionInv'
<1> DEFINE r == request[q]
           row == tokens[r.token]
<1>1. r \in RequestState /\ r.at = "grace" /\ r.token \in Id /\ Fits(r, tokens, ended)
  BY Rows DEF Grace, SessionInv, Working
<1>2. ASSUME NEW to \in {"family", "reuse"},
             request' = [request EXCEPT ![q].family = row.family, ![q].at = to],
             UNCHANGED <<tokens, version, browser, ended, endings, faults>>
      PROVE  SessionInv'
  <2> DEFINE y == [r EXCEPT !.family = row.family]
             x == [y EXCEPT !.at = to]
  <2>1. request' = [request EXCEPT ![q] = x]
    BY <1>2, Rows
  <2>2. x.at = to /\ x.kind = r.kind /\ x.token = r.token /\ x.family = row.family
    <3> HIDE DEF r, row
    <3> QED
      BY <1>1 DEF RequestState
  <2> HIDE DEF x
  <2>3. Fits(x, tokens, ended)
    BY <1>1, <1>2, <2>2 DEF Fits, Working, Past, WithFamily
  <2> QED
    BY <1>1, <1>2, <2>1, <2>3, SessionOneRequest
<1>3. ASSUME row.status # "rotated", Refuse(q) PROVE SessionInv'
  <2>1. row.status \in {"revoked", "void"} /\ Real(r.token, tokens, ended)
    <3>1. row \in Token
      BY <1>1, Rows
    <3>2. row.status \in {"active", "rotated", "revoked", "pending", "void"}
      BY <3>1 DEF Token
    <3> QED
      BY <1>1, <1>3, <3>2 DEF Fits, Past, Working
  <2>2. ended # {}
    BY <1>1, <2>1, Unended
  <2> QED
    BY <1>1, <1>3, <2>2, RefuseKeepsSession
<1> QED
  BY <1>2, <1>3 DEF Grace

LEMMA CheckFamilyKeepsSession ==
  ASSUME IInv, SessionInv, NEW q \in Request, CheckFamily(q) PROVE SessionInv'
<1> DEFINE r == request[q]
<1>1. /\ r \in RequestState /\ r.at = "family" /\ r.token \in Id /\ Fits(r, tokens, ended)
      /\ r.family = tokens[r.token].family /\ Real(r.token, tokens, ended)
  BY Rows DEF CheckFamily, SessionInv, Working, WithFamily, Fits
<1>2. ASSUME Moves(q, "issue") PROVE SessionInv'
  <2> DEFINE x == [r EXCEPT !.at = "issue"]
  <2>1. request' = [request EXCEPT ![q] = x] /\ UNCHANGED <<tokens, browser, ended>>
    BY <1>2, Rows DEF Moves
  <2>2. x.at = "issue" /\ x.kind = r.kind /\ x.token = r.token /\ x.family = r.family
    <3> HIDE DEF r
    <3> QED
      BY <1>1 DEF RequestState
  <2> HIDE DEF x, r
  <2>3. Fits(x, tokens, ended)
    BY <1>1, <2>2 DEF Fits, Working, Past, WithFamily
  <2> QED
    BY <1>1, <2>1, <2>3, SessionOneRequest DEF r
<1>3. ASSUME ~\E i \in FamilyOf(r.family) : Active(i), Refuse(q) PROVE SessionInv'
  <2>1. ended # {}
    BY <1>1, <1>3, Unended
  <2> QED
    BY <1>1, <1>3, <2>1, RefuseKeepsSession
<1> QED
  BY <1>2, <1>3 DEF CheckFamily

LEMMA ListFamilyKeepsSession ==
  ASSUME IInv, SessionInv, NEW q \in Request, ListFamily(q) PROVE SessionInv'
<1> DEFINE r == request[q]
           sees == {i \in FamilyOf(r.family) : Active(i)}
           y == [r EXCEPT !.sees = sees]
           x == [y EXCEPT !.at = "revoke"]
<1>1. /\ r \in RequestState /\ r.at = "list" /\ Fits(r, tokens, ended)
      /\ request' = [request EXCEPT ![q] = x] /\ UNCHANGED <<tokens, browser, ended>>
  BY Rows DEF ListFamily, SessionInv
<1>2. /\ x.at = "revoke" /\ x.kind = r.kind /\ x.token = r.token /\ x.family = r.family
      /\ x.sees = sees
  <2> HIDE DEF r, sees
  <2> QED
    BY <1>1 DEF RequestState
<1>3. \A i \in sees : tokens[i].family = r.family
  BY DEF FamilyOf
<1> HIDE DEF x, sees, r
<1>4. Fits(x, tokens, ended)
  BY <1>1, <1>2, <1>3 DEF Fits, Working, Past, WithFamily
<1> QED
  BY <1>1, <1>4, SessionOneRequest DEF r

LEMMA RewrittenRows ==
  ASSUME IInv, NEW f \in [Id -> Token], tokens' = f
  PROVE  Len(tokens') = Len(tokens) /\ Len(tokens') \in Nat /\ 1 .. Len(tokens') = Id
BY Rows, FunctionIsSeq DEF Id

LEMMA AppendedRows ==
  ASSUME IInv, NEW f \in [Id -> Token], NEW x, tokens' = Append(f, x)
  PROVE  /\ Len(tokens') = Len(tokens) + 1 /\ Len(tokens') \in Nat
         /\ \A i \in Id : tokens'[i] = f[i]
         /\ tokens'[Len(tokens) + 1] = x
         /\ 1 .. Len(tokens') = Id \cup {Len(tokens) + 1}
<1>1. Len(tokens) \in Nat /\ f \in Seq(Token) /\ Len(f) = Len(tokens)
  BY Rows, FunctionIsSeq DEF Id
<1>2. f \in Seq(Token \cup {x}) /\ x \in Token \cup {x}
  BY <1>1, LargerSeq
<1>3. /\ Len(Append(f, x)) = Len(f) + 1 /\ Append(f, x)[Len(f) + 1] = x
      /\ \A i \in 1 .. Len(f) : Append(f, x)[i] = f[i]
  BY <1>2, AppendedSeq
<1> QED
  BY <1>1, <1>3 DEF Id

LEMMA RevokedKeeps ==
  ASSUME IInv, NEW ids, NEW i \in Id
  PROVE  /\ Revoked(ids)[i].family = tokens[i].family /\ Revoked(ids)[i].fresh = tokens[i].fresh
         /\ i \notin ids => Revoked(ids)[i] = tokens[i]
         /\ tokens[i].status # "active" => Revoked(ids)[i] = tokens[i]
         /\ Revoked(ids)[i].status \in {tokens[i].status, "revoked"}
<1> DEFINE x == [tokens[i] EXCEPT !.status = "revoked"]
<1>1. x.family = tokens[i].family /\ x.fresh = tokens[i].fresh /\ x.status = "revoked"
  BY Rows DEF Token
<1>2. Revoked(ids)[i] = x \/ Revoked(ids)[i] = tokens[i]
  BY DEF Revoked
<1>3. i \notin ids \/ tokens[i].status # "active" => Revoked(ids)[i] = tokens[i]
  BY DEF Revoked, Active
<1> QED
  BY <1>1, <1>2, <1>3

\* Rows of a session that is not over are as they were.
LEMMA WholeStill ==
  ASSUME IInv, SessionInv, ended \subseteq ended', NEW i \in Id,
         1 .. Len(tokens') = Id,
         \A j \in Id : tokens'[j].family = tokens[j].family,
         \A j \in Id : tokens[j].family \notin ended' => tokens'[j] = tokens[j]
  PROVE  Whole(i, tokens', ended')
<1> SUFFICES ASSUME tokens'[i].family \notin ended'
             PROVE  /\ tokens'[i].status # "revoked" /\ tokens'[i].fresh
                    /\ \E j \in Id : tokens'[j].family = tokens'[i].family /\ tokens'[j].status = "active"
  BY DEF Whole
<1>1. tokens'[i] = tokens[i] /\ tokens[i].family \notin ended
  OBVIOUS
<1>2. PICK j \in Id : tokens[j].family = tokens[i].family /\ tokens[j].status = "active"
  BY <1>1 DEF SessionInv, Whole, Id
<1>3. tokens'[j] = tokens[j]
  BY <1>1, <1>2
<1>4. tokens[i].status # "revoked" /\ tokens[i].fresh
  BY <1>1 DEF SessionInv, Whole
<1> QED
  BY <1>1, <1>2, <1>3, <1>4

\* A step that closes rows of sessions that are over, and lets pending ones be.
LEMMA ClosedRows ==
  ASSUME IInv, SessionInv, ended \subseteq ended', NEW f \in [Id -> Token], tokens' = f,
         \A j \in Id : f[j].family = tokens[j].family,
         \A j \in Id : tokens[j].family \notin ended' => f[j] = tokens[j],
         \A j \in Id : f[j].status \in {tokens[j].status, "revoked", "rotated"},
         \A j \in Id : tokens[j].status = "pending" => f[j] = tokens[j],
         \A p \in Request : request[p].at = "commit" => request'[p] = request[p],
         \A p \in Request : request'[p] = request[p] \/ Fits(request'[p], tokens', ended'),
         UNCHANGED <<tab, store>>, leaving \/ store = 0 => ended' # {}, leaving' = leaving
  PROVE  SessionInv'
<1>1. Len(tokens') = Len(tokens) /\ Len(tokens') \in Nat /\ 1 .. Len(tokens') = Id
  BY RewrittenRows
<1>2. Onward
  BY <1>1, Rows DEF Onward
<1>3. \A i \in 1 .. Len(tokens') : Whole(i, tokens', ended')
  BY <1>1, WholeStill
<1>4. \A i \in 1 .. Len(tokens') : tokens'[i].status = "pending" => CommitToCome(i)'
  BY <1>1, <1>2, CommitsStay
<1>5. \A p \in Request : request[p].at = "commit" => tokens'[request[p].issued].status = "pending"
  BY Rows DEF SessionInv, Fits
<1>6. (\A t \in Tab : TabFits(tab'[t], tokens', ended')) /\ (store' # 0 => Real(store', tokens', ended'))
  BY <1>2, StillTabFits
<1> QED
  BY <1>2, <1>3, <1>4, <1>5, <1>6, SessionAfter

LEMMA EndFamilyKeepsSession ==
  ASSUME IInv, SessionInv, NEW q \in Request, EndFamily(q) PROVE SessionInv'
<1> DEFINE family == FamilyOf(request[q].family)
           f == Revoked(family)
<1>1. /\ tokens' = f /\ ended' = ended \cup {request[q].family} /\ Over(q, Refusal)
      /\ request[q].at = "reuse" /\ UNCHANGED <<store, tab, leaving>>
  BY DEF EndFamily, browser
<1>2. /\ f \in [Id -> Token]
      /\ \A j \in Id : f[j].family = tokens[j].family
      /\ \A j \in Id : f[j].status \in {tokens[j].status, "revoked"}
      /\ \A j \in Id : tokens[j].status = "pending" => f[j] = tokens[j]
      /\ \A j \in Id : j \notin family => f[j] = tokens[j]
  BY RevokedRows, RevokedKeeps
<1>3. \A j \in Id : tokens[j].family \notin ended' => f[j] = tokens[j]
  BY <1>1, <1>2 DEF FamilyOf
<1>4. /\ \A p \in Request \ {q} : request'[p] = request[p]
      /\ Fits(request'[q], tokens', ended')
  BY <1>1, AnswerFits DEF Refusal
<1>5. /\ \A p \in Request : request[p].at = "commit" => request'[p] = request[p]
      /\ \A p \in Request : request'[p] = request[p] \/ Fits(request'[p], tokens', ended')
  BY <1>1, <1>4
<1> HIDE DEF f, family
<1> QED
  BY <1>1, <1>2, <1>3, <1>5, ClosedRows

LEMMA RevokeFamilyKeepsSession ==
  ASSUME IInv, SessionInv, NEW q \in Request, RevokeFamily(q) PROVE SessionInv'
<1> DEFINE r == request[q]
           g == Revoked(r.sees)
           x == [g[r.token] EXCEPT !.status = "rotated"]
           f == [g EXCEPT ![r.token] = x]
<1>1. /\ tokens' = f /\ request' = [request EXCEPT ![q] = Free] /\ r.at = "revoke"
      /\ UNCHANGED <<store, tab, leaving, ended>>
  BY DEF RevokeFamily, browser
<1>2. /\ r.token \in Id /\ r.sees \subseteq Id /\ tokens[r.token].family \in ended
      /\ \A i \in r.sees : tokens[i].family = tokens[r.token].family
      /\ tokens[r.token].status # "pending"
  BY <1>1, Rows DEF SessionInv, Fits, Working, Past, WithFamily
<1>3. g \in [Id -> Token] /\ \A j \in Id : g[j].family = tokens[j].family
  BY RevokedRows, RevokedKeeps
<1>4. /\ \A j \in Id : j \notin r.sees => g[j] = tokens[j]
      /\ \A j \in Id : g[j].status \in {tokens[j].status, "revoked"}
      /\ \A j \in Id : tokens[j].status = "pending" => g[j] = tokens[j]
  BY RevokedKeeps
<1>5. /\ \A p \in Request : request[p].at = "commit" => request'[p] = request[p]
      /\ \A p \in Request : request'[p] = request[p] \/ Fits(request'[p], tokens', ended')
  BY <1>1, FreeFits, Rows
<1> HIDE DEF g, r
<1>6. x \in Token /\ x.family = tokens[r.token].family /\ x.status = "rotated"
  <2>1. g[r.token] \in Token /\ g[r.token].family = tokens[r.token].family
    BY <1>2, <1>3
  <2> QED
    BY <2>1 DEF Token
<1> HIDE DEF x
<1>7. /\ f \in [Id -> Token] /\ \A j \in Id : f[j].family = tokens[j].family
      /\ \A j \in Id : tokens[j].family \notin ended => f[j] = tokens[j]
      /\ \A j \in Id : f[j].status \in {tokens[j].status, "revoked", "rotated"}
      /\ \A j \in Id : tokens[j].status = "pending" => f[j] = tokens[j]
  BY <1>2, <1>3, <1>4, <1>6
<1> HIDE DEF f
<1> QED
  BY <1>1, <1>5, <1>7, ClosedRows DEF SessionInv

LEMMA LapseKeepsSession ==
  ASSUME IInv, SessionInv, NEW i \in Id, Lapse(i) PROVE SessionInv'
<1> DEFINE x == [tokens[i] EXCEPT !.fresh = FALSE]
           f == [tokens EXCEPT ![i] = x]
<1>1. /\ tokens' = f /\ request' = request /\ ended' = ended \cup {tokens[i].family}
      /\ tokens[i].status = "rotated" /\ UNCHANGED <<store, tab, leaving>>
  BY DEF Lapse, browser
<1>2. x \in Token /\ x.family = tokens[i].family /\ x.status = tokens[i].status
  <2>1. tokens[i] \in Token
    BY Rows
  <2> QED
    BY <2>1 DEF Token
<1> HIDE DEF x
<1>3. /\ f \in [Id -> Token] /\ \A j \in Id : f[j].family = tokens[j].family
      /\ \A j \in Id : tokens[j].family \notin ended' => f[j] = tokens[j]
      /\ \A j \in Id : f[j].status \in {tokens[j].status, "revoked", "rotated"}
      /\ \A j \in Id : tokens[j].status = "pending" => f[j] = tokens[j]
  BY <1>1, <1>2, Rows
<1> HIDE DEF f
<1> QED
  BY <1>1, <1>3, ClosedRows DEF SessionInv

\* A new row joins the rows of sessions that are not over: it is active, or its
\* family has another one that is.
LEMMA WholeWithNew ==
  ASSUME IInv, SessionInv, ended \subseteq ended', NEW v, NEW n, NEW f \in [Id -> Token],
         NEW x, x \in RowsOf(n, v), tokens' = Append(f, x),
         \/ x.status = "active" \/ n \in ended'
         \/ \E j \in Id : f[j].family = n /\ f[j].status = "active",
         \A j \in Id : f[j].family = tokens[j].family,
         \A j \in Id : tokens[j].family \notin ended' => f[j] = tokens[j]
  PROVE  \A i \in 1 .. Len(tokens') : Whole(i, tokens', ended')
<1> DEFINE m == Len(tokens) + 1
<1>1. /\ \A i \in Id : tokens'[i] = f[i]
      /\ tokens'[m] = x /\ 1 .. Len(tokens') = Id \cup {m}
  BY AppendedRows
<1>2. x.family = n /\ x.fresh /\ x.status # "revoked"
  BY DEF RowsOf
<1> HIDE DEF m
<1>3. Whole(m, tokens', ended')
  BY <1>1, <1>2 DEF Whole
<1>4. ASSUME NEW i \in Id PROVE Whole(i, tokens', ended')
  <2> SUFFICES ASSUME tokens[i].family \notin ended'
               PROVE  /\ f[i].status # "revoked" /\ f[i].fresh
                      /\ \E j \in Id \cup {m} : /\ tokens'[j].family = tokens[i].family
                                                /\ tokens'[j].status = "active"
    BY <1>1 DEF Whole
  <2>1. /\ tokens[i].status # "revoked" /\ tokens[i].fresh /\ f[i] = tokens[i]
        /\ \E j \in Id : tokens[j].family = tokens[i].family /\ tokens[j].status = "active"
    BY DEF SessionInv, Whole, Id
  <2>2. PICK j \in Id : tokens[j].family = tokens[i].family /\ tokens[j].status = "active"
    BY <2>1
  <2>3. tokens'[j] = tokens[j]
    BY <1>1, <2>2
  <2> QED
    BY <2>1, <2>2, <2>3
<1> QED
  BY <1>1, <1>3, <1>4

\* The rows go on with a new one; nothing else in them becomes active or void.
LEMMA OnwardWithNew ==
  ASSUME IInv, ended \subseteq ended', NEW f \in [Id -> Token], NEW x, tokens' = Append(f, x),
         \A j \in Id : f[j].family = tokens[j].family,
         \A j \in Id : f[j].status \in {tokens[j].status, "revoked"}
  PROVE  Onward
BY AppendedRows, Rows DEF Onward

LEMMA IssueKeepsSession ==
  ASSUME IInv, SessionInv, NEW q \in Request, Issue(q) PROVE SessionInv'
<1> DEFINE r == request[q]
           m == Len(tokens) + 1
           row == [NewToken(r.family, r.version) EXCEPT !.status = "pending"]
           y == [r EXCEPT !.at = "commit"]
           x == [y EXCEPT !.issued = m]
<1>1. /\ tokens' = Append(tokens, row) /\ request' = [request EXCEPT ![q] = x]
      /\ r.at = "issue" /\ UNCHANGED <<store, tab, leaving, ended>>
  BY Rows DEF Issue, SuccessorsFamily, browser
<1>2. /\ r.token \in Id /\ r.family = tokens[r.token].family /\ r \in RequestState
      /\ Fits(r, tokens, ended) /\ r.kind = "refresh"
  BY <1>1, Rows DEF SessionInv, Fits, Working, WithFamily, IInv, HoldersAreCurrent
<1>3. row \in RowsOf(r.family, r.version) /\ row.status = "pending"
  BY NewRow
<1>4. row.family = r.family
  BY <1>3 DEF RowsOf
<1>5. y \in RequestState /\ y.at = "commit" /\ y.kind = r.kind /\ y.token = r.token
      /\ y.family = r.family
  <2> HIDE DEF r
  <2> QED
    BY <1>2 DEF RequestState
<1>6. x.at = "commit" /\ x.kind = r.kind /\ x.token = r.token /\ x.family = r.family
      /\ x.issued = m
  <2> HIDE DEF r, y, m
  <2> QED
    BY <1>5 DEF RequestState
<1> HIDE DEF row, y, x, r
<1>7. Len(tokens) \in Nat /\ tokens \in [Id -> Token] /\ ended \subseteq ended'
  BY <1>1, Rows
<1>8. /\ Len(tokens') \in Nat /\ (\A i \in Id : tokens'[i] = tokens[i]) /\ tokens'[m] = row
      /\ 1 .. Len(tokens') = Id \cup {m}
  BY <1>1, <1>7, AppendedRows
<1>9. r.family \in ended' \/ \E j \in Id : tokens[j].family = r.family /\ tokens[j].status = "active"
  BY <1>1, <1>2 DEF SessionInv, Whole, Id
<1>10. \A i \in 1 .. Len(tokens') : Whole(i, tokens', ended')
  BY <1>1, <1>3, <1>7, <1>9, WholeWithNew
<1>11. Onward
  BY <1>1, <1>7, OnwardWithNew
<1> HIDE DEF m
<1>12. \A p \in Request : request'[p] = IF p = q THEN x ELSE request[p]
  BY <1>1, Rows
<1>13. Fits(x, tokens', ended')
  <2>1. Real(r.token, tokens', ended')
    BY <1>1, <1>2, <1>8 DEF Fits, Real, Working
  <2>2. tokens'[r.token].status # "pending" /\ r.family = tokens'[r.token].family
    BY <1>1, <1>2, <1>8 DEF Fits, Past, WithFamily
  <2>3. tokens'[x.issued].status = "pending" /\ tokens'[x.issued].family = x.family
    BY <1>3, <1>4, <1>6, <1>8
  <2> QED
    BY <1>2, <1>6, <2>1, <2>2, <2>3 DEF Fits
<1>14. ASSUME NEW p \in Request
       PROVE  \/ /\ request'[p] = request[p]
                 /\ request[p].at = "commit" => tokens'[request[p].issued].status = "pending"
              \/ Fits(request'[p], tokens', ended')
  <2>1. CASE p = q
    BY <1>12, <1>13, <2>1
  <2>2. CASE p # q
    <3>1. request[p].at = "commit" =>
            request[p].issued \in Id /\ tokens[request[p].issued].status = "pending"
      BY Rows DEF SessionInv, Fits
    <3> QED
      BY <1>8, <1>12, <2>2, <3>1
  <2> QED
    BY <2>1, <2>2
<1>15. ASSUME NEW i \in 1 .. Len(tokens'), tokens'[i].status = "pending" PROVE CommitToCome(i)'
  <2>1. CASE i = m
    <3>1. request'[q].at = "commit" /\ request'[q].issued = i
      BY <1>6, <1>12, <2>1
    <3> QED
      BY <3>1 DEF CommitToCome
  <2>2. CASE i \in Id
    <3>1. \A p \in Request : request[p].at = "commit" => request'[p] = request[p]
      BY <1>1, <1>12 DEF r
    <3> QED
      BY <1>11, <1>15, <2>2, <3>1, CommitsStay
  <2> QED
    BY <1>8, <2>1, <2>2
<1>16. (\A t \in Tab : TabFits(tab'[t], tokens', ended')) /\ (store' # 0 => Real(store', tokens', ended'))
  BY <1>1, <1>11, StillTabFits
<1> QED
  BY <1>1, <1>10, <1>11, <1>14, <1>15, <1>16, SessionAfter DEF SessionInv

\* A commit is over, with or without the row it was for: no row is pending now.
LEMMA OverAfterCommit ==
  ASSUME IInv, SessionInv, NEW q \in Request, request[q].at = "commit", Over(q, IssuedBy(q)),
         Onward, 1 .. Len(tokens') = Id, UNCHANGED <<store, tab, leaving>>,
         \A i \in Id : Whole(i, tokens', ended'),
         tokens'[request[q].issued].status # "pending",
         (\E t \in Tab : tab[t].request = q) => Real(request[q].issued, tokens', ended')
  PROVE  SessionInv'
<1> DEFINE n == request[q].issued
<1>1. n \in Id /\ n # 0 /\ HoldsUser(q)
  BY Rows DEF Id
<1>2. IssuedBy(q).at = "issued" /\ IssuedBy(q).issued = n
  BY DEF IssuedBy
<1>3. /\ \A p \in Request \ {q} : request'[p] = request[p]
      /\ Fits(request'[q], tokens', ended')
  <2> HIDE DEF n
  <2> QED
    BY <1>1, <1>2, AnswerFits DEF n
<1>4. \A p \in Request : request[p].at = "commit" => p = q
  BY <1>1, Rows DEF IInv, TypeOK, OneHolder
<1>5. \A i \in Id : tokens'[i].status # "pending"
  <2> SUFFICES ASSUME NEW i \in Id, tokens'[i].status = "pending" PROVE FALSE
    OBVIOUS
  <2>1. tokens[i].status = "pending"
    BY DEF Onward
  <2>2. i = n
    BY <1>1, <2>1, NothingPending
  <2> QED
    BY <2>2
<1>6. (\A t \in Tab : TabFits(tab'[t], tokens', ended')) /\ (store' # 0 => Real(store', tokens', ended'))
  BY StillTabFits
<1>7. leaving' \/ store' = 0 => ended' # {}
  BY DEF SessionInv, Onward
<1>8. \A p \in Request : \/ request'[p] = request[p] /\ request[p].at # "commit"
                         \/ Fits(request'[p], tokens', ended')
  BY <1>3, <1>4
<1> QED
  BY <1>5, <1>6, <1>7, <1>8, SessionAfter

LEMMA CommitKeepsSession ==
  ASSUME IInv, SessionInv, NEW q \in Request, Commit(q) PROVE SessionInv'
<1> DEFINE r == request[q]
           f == [i \in Id |-> IF i = r.issued THEN [tokens[i] EXCEPT !.status = "active"]
                              ELSE IF r.takes /\ i = r.token
                              THEN [tokens[i] EXCEPT !.status = "rotated"] ELSE tokens[i]]
<1>1. /\ r.at = "commit" /\ tokens' = f /\ Over(q, IssuedBy(q))
      /\ UNCHANGED <<store, tab, leaving, ended>>
  BY DEF Commit, browser
<1>2. /\ r.issued \in Id /\ r.token \in Id /\ r.family = tokens[r.token].family
      /\ tokens[r.issued].status = "pending" /\ tokens[r.issued].family = r.family
      /\ tokens[r.token].status # "pending"
  BY <1>1, Rows DEF SessionInv, Fits, Working, Past, WithFamily
<1>3. \A i \in Id : \A st \in {"active", "rotated"} :
        /\ [tokens[i] EXCEPT !.status = st] \in Token
        /\ [tokens[i] EXCEPT !.status = st].status = st
        /\ [tokens[i] EXCEPT !.status = st].family = tokens[i].family
        /\ [tokens[i] EXCEPT !.status = st].fresh = tokens[i].fresh
  BY Rows DEF Token
<1>4. f \in [Id -> Token]
  BY <1>3, Rows
<1>5. /\ \A i \in Id : f[i].family = tokens[i].family /\ f[i].fresh = tokens[i].fresh
      /\ f[r.issued].status = "active"
      /\ \A i \in Id \ {r.issued} : \/ f[i].status = tokens[i].status
                                    \/ (i = r.token /\ f[i].status = "rotated")
  <2>1. \A i \in Id : f[i].family = tokens[i].family /\ f[i].fresh = tokens[i].fresh
    BY <1>3
  <2>2. f[r.issued].status = "active"
    <3> HIDE DEF r
    <3> QED
      BY <1>2, <1>3
  <2>3. \A i \in Id \ {r.issued} : \/ f[i].status = tokens[i].status
                                   \/ (i = r.token /\ f[i].status = "rotated")
    <3> SUFFICES ASSUME NEW i \in Id \ {r.issued}
                 PROVE  f[i].status = tokens[i].status \/ (i = r.token /\ f[i].status = "rotated")
      OBVIOUS
    <3>1. CASE r.takes /\ i = r.token
      <4>1. f[i] = [tokens[i] EXCEPT !.status = "rotated"]
        BY <3>1
      <4> QED
        BY <1>3, <3>1, <4>1
    <3>2. CASE ~(r.takes /\ i = r.token)
      <4>1. f[i] = tokens[i]
        BY <3>2
      <4> QED
        BY <4>1
    <3> QED
      BY <3>1, <3>2
  <2> QED
    BY <2>1, <2>2, <2>3
<1> HIDE DEF f, r
<1>6. Len(tokens') = Len(tokens) /\ Len(tokens') \in Nat /\ 1 .. Len(tokens') = Id
  BY <1>1, <1>4, RewrittenRows
<1>7. Onward
  <2>1. \A i \in Id : tokens'[i].status \in {"active", "pending"} =>
                        tokens[i].status \in {tokens'[i].status, "pending"}
    BY <1>1, <1>2, <1>5
  <2>2. \A i \in Id : tokens'[i].status = "void" => tokens[i].status = "void"
    BY <1>1, <1>5
  <2> QED
    BY <1>1, <1>5, <1>6, <2>1, <2>2, Rows DEF Onward
<1>8. ASSUME NEW i \in Id PROVE Whole(i, tokens', ended')
  <2> SUFFICES ASSUME tokens[i].family \notin ended
               PROVE  /\ f[i].status # "revoked" /\ f[i].fresh
                      /\ \E j \in Id : f[j].family = tokens[i].family /\ f[j].status = "active"
    BY <1>1, <1>5, <1>6 DEF Whole
  <2>1. /\ tokens[i].status # "revoked" /\ tokens[i].fresh
        /\ \E j \in Id : tokens[j].family = tokens[i].family /\ tokens[j].status = "active"
    BY DEF SessionInv, Whole, Id
  <2>2. f[i].status # "revoked" /\ f[i].fresh
    BY <1>5, <2>1
  <2>3. PICK j \in Id : tokens[j].family = tokens[i].family /\ tokens[j].status = "active"
    BY <2>1
  <2>4. CASE j = r.token
    BY <1>2, <1>5, <2>2, <2>3, <2>4
  <2>5. CASE j # r.token
    BY <1>5, <2>2, <2>3, <2>5
  <2> QED
    BY <2>4, <2>5
<1>9. tokens'[r.issued].status = "active" /\ Real(r.issued, tokens', ended')
  BY <1>1, <1>5 DEF Real
<1> QED
  BY <1>1, <1>6, <1>7, <1>8, <1>9, OverAfterCommit DEF r

LEMMA CommitFailsKeepsSession ==
  ASSUME IInv, SessionInv, NEW q \in Request, CommitFails(q) PROVE SessionInv'
<1> DEFINE n == request[q].issued
           x == [tokens[n] EXCEPT !.status = "void"]
           f == [tokens EXCEPT ![n] = x]
<1>1. /\ request[q].at = "commit" /\ tokens' = f /\ Over(q, IssuedBy(q))
      /\ UNCHANGED <<store, tab, leaving>> /\ ended \subseteq ended'
      /\ HandedOut(q, n) => tokens[n].family \in ended'
  BY DEF CommitFails, browser
<1>2. n \in Id /\ tokens[n].status = "pending" /\ tokens \in [Id -> Token] /\ tokens[n] \in Token
  BY <1>1, Rows DEF SessionInv, Fits
<1>3. HandedOut(q, n) \/ Unheld(n)
  <2>1. \A p \in Request : request[p].at = "issued" => request[p].issued # n
    BY <1>2 DEF SessionInv, Fits
  <2> QED
    BY <2>1 DEF HandedOut, Unheld
<1>4. (\E t \in Tab : tab[t].request = q) => HandedOut(q, n)
  BY DEF HandedOut
<1> HIDE DEF n
<1>5. /\ x \in Token /\ x.status = "void" /\ x.family = tokens[n].family /\ x.fresh = tokens[n].fresh
  BY <1>2 DEF Token
<1> HIDE DEF x
<1>6. /\ f \in [Id -> Token] /\ \A i \in Id : f[i].family = tokens[i].family
      /\ \A i \in Id \ {n} : f[i] = tokens[i]
      /\ f[n].status = "void" /\ f[n].fresh = tokens[n].fresh
  BY <1>2, <1>5
<1> HIDE DEF f
<1>7. Len(tokens') = Len(tokens) /\ Len(tokens') \in Nat /\ 1 .. Len(tokens') = Id
  BY <1>1, <1>6, RewrittenRows
<1>8. Onward
  <2>1. \A i \in Id : tokens'[i].status \in {"active", "pending"} =>
                        tokens[i].status \in {tokens'[i].status, "pending"}
    BY <1>1, <1>6
  <2>2. \A i \in Id : tokens'[i].status = "void" =>
                        tokens[i].status = "void" \/ tokens[i].family \in ended' \/ Unheld(i)
    BY <1>1, <1>3, <1>6
  <2> QED
    BY <1>1, <1>6, <1>7, <2>1, <2>2, Rows DEF Onward
<1>9. ASSUME NEW i \in Id PROVE Whole(i, tokens', ended')
  <2> SUFFICES ASSUME tokens[i].family \notin ended
               PROVE  /\ f[i].status # "revoked" /\ f[i].fresh
                      /\ \E j \in Id : f[j].family = tokens[i].family /\ f[j].status = "active"
    BY <1>1, <1>6, <1>7 DEF Whole
  <2>1. /\ tokens[i].status # "revoked" /\ tokens[i].fresh
        /\ \E j \in Id : tokens[j].family = tokens[i].family /\ tokens[j].status = "active"
    BY DEF SessionInv, Whole, Id
  <2>2. f[i].status # "revoked" /\ f[i].fresh
    BY <1>6, <2>1
  <2>3. PICK j \in Id : tokens[j].family = tokens[i].family /\ tokens[j].status = "active"
    BY <2>1
  <2>4. f[j] = tokens[j]
    BY <1>2, <1>6, <2>3
  <2> QED
    BY <2>2, <2>3, <2>4
<1>10. (\E t \in Tab : tab[t].request = q) => Real(n, tokens', ended')
  BY <1>1, <1>2, <1>4, <1>6 DEF Real
<1>11. tokens'[n].status # "pending"
  BY <1>1, <1>6
<1> QED
  BY <1>1, <1>7, <1>8, <1>9, <1>10, <1>11, OverAfterCommit DEF n

\* A row of a session of its own follows the rows.
LEMMA SignedIn ==
  ASSUME IInv, SessionInv, ended \subseteq ended', NEW f \in [Id -> Token], NEW v,
         NEW x, x \in RowsOf(Len(tokens) + 1, v), tokens' = Append(f, x),
         x.status = "active" \/ (x.status = "void" /\ Len(tokens) + 1 \in ended'),
         \A j \in Id : f[j].family = tokens[j].family,
         \A j \in Id : tokens[j].family \notin ended' => f[j] = tokens[j],
         \A j \in Id : f[j].status \in {tokens[j].status, "revoked"},
         \A j \in Id : tokens[j].status = "pending" => f[j] = tokens[j],
         store' \in {store, Len(tokens) + 1}, UNCHANGED <<request, tab, leaving>>
  PROVE  SessionInv'
<1> DEFINE m == Len(tokens) + 1
<1>1. /\ Len(tokens) \in Nat /\ Len(tokens') \in Nat /\ (\A i \in Id : tokens'[i] = f[i])
      /\ tokens'[m] = x /\ 1 .. Len(tokens') = Id \cup {m}
  BY AppendedRows, Rows
<1>2. m # 0 /\ x.family = m /\ x.status # "pending"
  BY <1>1 DEF RowsOf
<1>3. \A i \in 1 .. Len(tokens') : Whole(i, tokens', ended')
  BY WholeWithNew
<1>4. Onward
  BY OnwardWithNew
<1>5. /\ \A t \in Tab : TabFits(tab'[t], tokens', ended')
      /\ store # 0 => Real(store, tokens', ended')
  BY <1>4, StillTabFits
<1>6. Real(m, tokens', ended')
  BY <1>1, <1>2 DEF Real
<1>7. leaving' \/ store' = 0 => ended' # {}
  BY <1>2 DEF SessionInv
<1> HIDE DEF m
<1>8. ASSUME NEW i \in 1 .. Len(tokens'), tokens'[i].status = "pending" PROVE CommitToCome(i)'
  <2>1. i \in Id
    BY <1>1, <1>2, <1>8
  <2> QED
    BY <1>4, <1>8, <2>1, CommitsStay
<1>9. \A p \in Request : request[p].at = "commit" => tokens'[request[p].issued].status = "pending"
  BY <1>1, Rows DEF SessionInv, Fits
<1>10. store' # 0 => Real(store', tokens', ended')
  BY <1>5, <1>6 DEF m
<1> QED
  BY <1>3, <1>4, <1>5, <1>7, <1>8, <1>9, <1>10, SessionAfter

LEMMA ReplacePasswordKeepsSession ==
  ASSUME IInv, SessionInv, ReplacePassword PROVE SessionInv'
<1> DEFINE f == Revoked(Id)
           x == NewToken(Len(tokens) + 1, version + 1)
<1>1. /\ tokens' = Append(f, x) /\ store' \in {store, Len(tokens) + 1}
      /\ ended' = ended \cup {tokens[i].family : i \in Id}
      /\ UNCHANGED <<request, tab, leaving>>
  BY DEF ReplacePassword
<1>2. /\ f \in [Id -> Token] /\ \A i \in Id : f[i].family = tokens[i].family
      /\ \A j \in Id : f[j].status \in {tokens[j].status, "revoked"}
      /\ \A j \in Id : tokens[j].status = "pending" => f[j] = tokens[j]
  BY RevokedRows, RevokedKeeps
<1>3. x \in RowsOf(Len(tokens) + 1, version + 1) /\ x.status = "active"
  BY NewRow
<1> HIDE DEF f, x
<1>4. /\ ended \subseteq ended'
      /\ \A j \in Id : tokens[j].family \notin ended' => f[j] = tokens[j]
  BY <1>1
<1>5. UNCHANGED <<request, tab, leaving>>
  BY <1>1
<1> QED
  BY <1>1, <1>2, <1>3, <1>4, <1>5, SignedIn

LEMMA LoginKeepsSession ==
  ASSUME IInv, SessionInv, Login \/ SignInUndone PROVE SessionInv'
<1>1. tokens \in [Id -> Token]
  BY Rows
<1>2. CASE Login
  <2> DEFINE x == NewToken(Len(tokens) + 1, version)
  <2>1. /\ tokens' = Append(tokens, x) /\ store' = Len(tokens) + 1
        /\ UNCHANGED <<request, tab, leaving, ended>>
    BY <1>2 DEF Login
  <2>2. x \in RowsOf(Len(tokens) + 1, version) /\ x.status = "active"
    BY NewRow
  <2> HIDE DEF x
  <2>3. /\ ended \subseteq ended' /\ store' \in {store, Len(tokens) + 1}
        /\ \A j \in Id : tokens[j].status \in {tokens[j].status, "revoked"}
    BY <2>1
  <2> QED
    BY <1>1, <2>1, <2>2, <2>3, SignedIn
<1>3. CASE SignInUndone
  <2> DEFINE x == [NewToken(Len(tokens) + 1, version) EXCEPT !.status = "void"]
  <2>1. /\ tokens' = Append(tokens, x) /\ store' = Len(tokens) + 1
        /\ ended' = ended \cup {Len(tokens) + 1}
        /\ UNCHANGED <<request, tab, leaving>>
    BY <1>3 DEF SignInUndone
  <2>2. x \in RowsOf(Len(tokens) + 1, version) /\ x.status = "void"
    BY NewRow
  <2> HIDE DEF x
  <2> QED
    BY <1>1, <2>1, <2>2, SignedIn
<1> QED
  BY <1>2, <1>3

-----------------------------------------------------------------------------
LEMMA AbortKeepsSession ==
  ASSUME IInv, SessionInv, NEW q \in Request, Abort(q) PROVE SessionInv'
<1>1. /\ request' = [request EXCEPT ![q] = Free]
      /\ tab' = [t \in Tab |-> IF tab[t].request = q THEN Quiet ELSE tab[t]]
      /\ UNCHANGED <<tokens, store, leaving, ended>> /\ request[q].at # "commit"
  BY DEF Abort
<1>2. \A p \in Request : \/ request'[p] = request[p]
                         \/ request[p].at # "commit" /\ Fits(request'[p], tokens, ended')
  BY <1>1, FreeFits, Rows
<1>3. \A t \in Tab : tab'[t] = tab[t] \/ TabFits(tab'[t], tokens, ended')
  BY <1>1, FreeFits
<1> QED
  BY <1>1, <1>2, <1>3, SessionSameRows DEF SessionInv

LEMMA QuietTabsFit ==
  ASSUME NEW n, NEW rows, NEW over
  PROVE  /\ over # {} => TabFits([Quiet EXCEPT !.at = "reject"], rows, over)
         /\ n # 0 /\ Real(n, rows, over) =>
              TabFits([Quiet EXCEPT !.at = "apply", !.got = n], rows, over)
         /\ TabFits([Quiet EXCEPT !.at = "wait", !.start = n], rows, over)
<1>1. ASSUME NEW a \in {"reject", "apply", "wait"}
      PROVE  [Quiet EXCEPT !.at = a].at = a /\ [Quiet EXCEPT !.at = a].got = 0
  BY DEF Quiet
<1> DEFINE x == [Quiet EXCEPT !.at = "apply", !.got = n]
           y == [Quiet EXCEPT !.at = "wait", !.start = n]
<1>2. x.at = "apply" /\ x.got = n /\ y.at = "wait" /\ y.got = 0
  BY DEF Quiet
<1> HIDE DEF x, y
<1>3. (n # 0 /\ Real(n, rows, over) => TabFits(x, rows, over)) /\ TabFits(y, rows, over)
  BY <1>2 DEF TabFits
<1>4. over # {} => TabFits([Quiet EXCEPT !.at = "reject"], rows, over)
  BY <1>1 DEF TabFits
<1> QED
  BY <1>3, <1>4 DEF x, y

LEMMA AskingFits ==
  ASSUME IInv, SessionInv, NEW t \in Tab, NEW q \in Request, NEW retry, Asks(t, q, retry),
         store # 0, request[q].at # "commit", ended' = ended
  PROVE  /\ \A p \in Request : \/ request'[p] = request[p]
                               \/ request[p].at # "commit" /\ Fits(request'[p], tokens, ended')
         /\ \A u \in Tab : tab'[u] = tab[u] \/ TabFits(tab'[u], tokens, ended')
<1> DEFINE c == [Free EXCEPT !.kind = "refresh", !.at = "user", !.token = store]
           g == [Quiet EXCEPT !.at = "ask", !.used = store, !.request = q, !.retried = retry]
<1>1. request' = [request EXCEPT ![q] = c] /\ tab' = [tab EXCEPT ![t] = g]
  BY DEF Asks
<1>2. c.kind = "refresh" /\ c.at = "user" /\ c.token = store
  BY DEF Free
<1>3. g.at = "ask" /\ g.got = 0
  BY DEF Quiet
<1> HIDE DEF c, g
<1>4. Real(store, tokens, ended)
  BY DEF SessionInv
<1>5. Fits(c, tokens, ended') /\ TabFits(g, tokens, ended')
  BY <1>2, <1>3, <1>4 DEF Fits, Working, Past, WithFamily, TabFits
<1> QED
  BY <1>1, <1>5, Rows

LEMMA EnterKeepsSession ==
  ASSUME IInv, SessionInv, NEW t \in Tab, Enter(t) PROVE SessionInv'
<1>1. /\ UNCHANGED <<tokens, store, leaving, ended>> /\ (leaving \/ store = 0 => ended # {})
      /\ store # 0 => Real(store, tokens, ended)
  BY DEF Enter, SessionInv
<1>2. ASSUME NEW x, TabFits(x, tokens, ended), tab' = [tab EXCEPT ![t] = x], UNCHANGED request
      PROVE  SessionInv'
  <2>1. \A u \in Tab : tab'[u] = tab[u] \/ TabFits(tab'[u], tokens, ended')
    BY <1>1, <1>2, Rows
  <2> QED
    BY <1>1, <1>2, <2>1, SessionSameRows
<1>3. CASE store = 0 /\ tab' = [tab EXCEPT ![t] = [Quiet EXCEPT !.at = "reject"]] /\ UNCHANGED request
  BY <1>1, <1>2, <1>3, QuietTabsFit
<1>4. CASE /\ store # 0 /\ tab' = [tab EXCEPT ![t] = [Quiet EXCEPT !.at = "apply", !.got = store]]
           /\ UNCHANGED request
  BY <1>1, <1>2, <1>4, QuietTabsFit
<1>5. ASSUME NEW q \in Request, store # 0, request[q] = Free, Asks(t, q, FALSE) PROVE SessionInv'
  <2>1. request[q].at # "commit"
    BY <1>5 DEF Free
  <2> QED
    BY <1>1, <1>5, <2>1, AskingFits, SessionSameRows
<1> QED
  BY <1>3, <1>4, <1>5 DEF Enter

LEMMA PersistKeepsSession ==
  ASSUME IInv, SessionInv, NEW t \in Tab, Persist(t) PROVE SessionInv'
<1> DEFINE q == tab[t].request
           n == request[q].issued
<1>1. /\ tab[t].at = "ask" /\ request[q].at \in {"issued", "commit"}
      /\ \/ UNCHANGED request
         \/ request[q].at = "issued" /\ request' = [request EXCEPT ![q] = Free]
      /\ UNCHANGED <<tokens, leaving, ended>>
  BY DEF Persist
<1>2. n # 0 /\ Real(n, tokens, ended)
  <2>1. q \in Request
    BY <1>1, Parts
  <2>2. Fits(request[q], tokens, ended)
    BY <2>1 DEF SessionInv
  <2>3. CASE request[q].at = "issued"
    BY <2>2, <2>3 DEF Fits
  <2>4. CASE request[q].at = "commit"
    <3>1. n \in Id
      BY <2>1, <2>4, Rows
    <3> QED
      BY <2>2, <2>4, <3>1 DEF Fits, Real, Id
  <2> QED
    BY <1>1, <2>3, <2>4
<1>3. \A p \in Request : \/ request'[p] = request[p]
                         \/ request[p].at # "commit" /\ Fits(request'[p], tokens, ended')
  BY <1>1, FreeFits, Rows
<1>4. CASE tab' = [tab EXCEPT ![t] = Quiet] /\ UNCHANGED store
  <2>1. \A u \in Tab : tab'[u] = tab[u] \/ TabFits(tab'[u], tokens, ended')
    BY <1>4, FreeFits, Rows
  <2> QED
    BY <1>1, <1>3, <1>4, <2>1, SessionSameRows DEF SessionInv
<1>5. ASSUME store' = n,
             tab' = [u \in Tab |-> IF u = t THEN [Quiet EXCEPT !.at = "apply", !.got = n]
                                   ELSE [tab[u] EXCEPT !.told = (tab[u].at = "wait")]]
      PROVE  SessionInv'
  <2>1. ASSUME NEW u \in Tab, NEW b PROVE TabFits([tab[u] EXCEPT !.told = b], tokens, ended')
    <3> DEFINE x == [tab[u] EXCEPT !.told = b]
    <3>1. tab[u] \in TabState /\ TabFits(tab[u], tokens, ended)
      BY Rows DEF SessionInv
    <3>2. x.at = tab[u].at /\ x.got = tab[u].got
      BY <3>1 DEF TabState
    <3> HIDE DEF x
    <3>3. TabFits(x, tokens, ended')
      BY <1>1, <3>1, <3>2 DEF TabFits
    <3> QED
      BY <3>3 DEF x
  <2>2. \A u \in Tab : TabFits([tab[u] EXCEPT !.told = (tab[u].at = "wait")], tokens, ended')
    BY <2>1
  <2> HIDE DEF q, n
  <2>3. TabFits([Quiet EXCEPT !.at = "apply", !.got = n], tokens, ended')
    BY <1>1, <1>2, QuietTabsFit
  <2>4. \A u \in Tab : tab'[u] = tab[u] \/ TabFits(tab'[u], tokens, ended')
    BY <1>5, <2>2, <2>3
  <2>5. leaving' \/ store' = 0 => ended' # {}
    BY <1>1, <1>2, <1>5 DEF SessionInv
  <2> QED
    BY <1>1, <1>2, <1>3, <1>5, <2>4, <2>5, SessionSameRows
<1> QED
  BY <1>4, <1>5 DEF Persist

LEMMA RefusedKeepsSession ==
  ASSUME IInv, SessionInv, NEW t \in Tab, Refused(t) PROVE SessionInv'
<1> DEFINE q == tab[t].request
<1>1. /\ tab[t].at = "ask" /\ request[q].at = "refused" /\ UNCHANGED <<tokens, store, leaving, ended>>
  BY DEF Refused
<1>2. q \in Request /\ ended # {}
  <2>1. q \in Request
    BY <1>1, Parts
  <2> QED
    BY <1>1, <2>1 DEF SessionInv, Fits
<1> HIDE DEF q
<1>3. CASE store # 0 /\ Asks(t, q, TRUE)
  <2>1. request[q].at # "commit"
    BY <1>1 DEF q
  <2> QED
    BY <1>1, <1>2, <1>3, <2>1, AskingFits, SessionSameRows
<1>4. CASE /\ request' = [request EXCEPT ![q] = Free]
           /\ tab' = [tab EXCEPT ![t] = [Quiet EXCEPT !.at = "reject"]]
  <2>1. \A p \in Request : \/ request'[p] = request[p]
                           \/ request[p].at # "commit" /\ Fits(request'[p], tokens, ended')
    BY <1>1, <1>4, FreeFits, Rows DEF q
  <2>2. TabFits([Quiet EXCEPT !.at = "reject"], tokens, ended)
    BY <1>2, QuietTabsFit
  <2>3. \A u \in Tab : tab'[u] = tab[u] \/ TabFits(tab'[u], tokens, ended')
    BY <1>1, <1>4, <2>2, Rows
  <2> QED
    BY <1>1, <1>2, <2>1, <2>3, SessionSameRows
<1> QED
  BY <1>3, <1>4 DEF Refused, q

LEMMA TabsKeepSession ==
  ASSUME IInv, SessionInv, Tabs PROVE SessionInv'
<1>1. ASSUME NEW t \in Tab, NEW x, TabFits(x, tokens, ended), tab' = [tab EXCEPT ![t] = x],
             UNCHANGED <<tokens, request, leaving, ended>>, leaving \/ store' = 0 => ended # {},
             store' \in {0, store} \/ Real(store', tokens, ended)
      PROVE  SessionInv'
  <2>1. \A u \in Tab : tab'[u] = tab[u] \/ TabFits(tab'[u], tokens, ended')
    BY <1>1, Rows
  <2> QED
    BY <1>1, <2>1, SessionSameRows
<1>2. /\ leaving \/ store = 0 => ended # {}
      /\ \A t \in Tab : TabFits(tab[t], tokens, ended) /\ TabFits(Quiet, tokens, ended)
  BY FreeFits DEF SessionInv
<1>3. ASSUME NEW t \in Tab, Start(t) PROVE SessionInv'
  BY <1>1, <1>2, <1>3, QuietTabsFit DEF Start, server
<1>4. ASSUME NEW t \in Tab, Apply(t) PROVE SessionInv'
  <2>1. store' # 0 /\ Real(store', tokens, ended)
    BY <1>2, <1>4 DEF Apply, TabFits
  <2> QED
    BY <1>1, <1>2, <1>4, <2>1 DEF Apply, server
<1>5. ASSUME NEW t \in Tab, Clear(t) PROVE SessionInv'
  <2>1. ended # {}
    BY <1>2, <1>5 DEF Clear, TabFits
  <2> QED
    BY <1>1, <1>2, <1>5, <2>1 DEF Clear, server
<1>6. ASSUME NEW t \in Tab, Lose(t) PROVE SessionInv'
  <2>1. /\ tab' = [tab EXCEPT ![t] = Quiet]
        /\ request' = [q \in Request |-> IF q = tab[t].request /\ request[q].kind = "answer"
                                         THEN Free ELSE request[q]]
        /\ UNCHANGED <<tokens, store, leaving, ended>>
    BY <1>6 DEF Lose
  <2>2. \A p \in Request : \/ request'[p] = request[p]
                           \/ request[p].at # "commit" /\ Fits(request'[p], tokens, ended')
    BY <2>1, FreeFits, Rows
  <2>3. \A u \in Tab : tab'[u] = tab[u] \/ TabFits(tab'[u], tokens, ended')
    BY <2>1, FreeFits, Rows
  <2> QED
    BY <1>2, <2>1, <2>2, <2>3, SessionSameRows
<1> QED
  BY <1>3, <1>4, <1>5, <1>6, EnterKeepsSession, PersistKeepsSession, RefusedKeepsSession DEF Tabs

LEMMA LogoutKeepsSession ==
  ASSUME IInv, SessionInv, Logout PROVE SessionInv'
<1> DEFINE c == [Free EXCEPT !.kind = "logout", !.at = "rotate", !.token = store]
<1>1. /\ store # 0 /\ ended' = ended \cup {tokens[store].family}
      /\ \E q \in Request : request[q] = Free /\ request' = [request EXCEPT ![q] = c]
      /\ UNCHANGED <<tokens, store, tab>>
  BY DEF Logout
<1>2. store \in Id /\ Free.at # "commit" /\ Real(store, tokens, ended')
  BY <1>1, Parts DEF SessionInv, Real, Free
<1>3. c.kind = "logout" /\ c.at = "rotate" /\ c.token = store
  BY DEF Free
<1> HIDE DEF c
<1>4. Fits(c, tokens, ended')
  BY <1>1, <1>2, <1>3 DEF Fits, Working, Past, WithFamily, Id
<1>5. \A p \in Request : \/ request'[p] = request[p]
                         \/ request[p].at # "commit" /\ Fits(request'[p], tokens, ended')
  BY <1>1, <1>2, <1>4, Rows
<1> QED
  BY <1>1, <1>5, SessionSameRows

-----------------------------------------------------------------------------
LEMMA InitSession == Init => SessionInv
<1> SUFFICES ASSUME Init PROVE SessionInv
  OBVIOUS
<1>1. Len(tokens) = 1 /\ tokens[1] = NewToken(1, 0) /\ Id = {1} /\ 1 .. Len(tokens) = {1}
  BY DEF Init, Id
<1>2. /\ Whole(1, tokens, ended) /\ tokens[1].status = "active"
      /\ store = 1
  BY <1>1 DEF Whole, NewToken, Init
<1>3. /\ \A q \in Request : Fits(request[q], tokens, ended)
      /\ \A t \in Tab : TabFits(tab[t], tokens, ended)
  BY FreeFits DEF Init
<1>4. Real(store, tokens, ended)
  BY <1>2 DEF Real
<1> QED
  BY <1>1, <1>2, <1>3, <1>4 DEF SessionInv, Init

LEMMA NextSession == IInv /\ SessionInv /\ [Next]_vars => SessionInv'
<1> SUFFICES ASSUME IInv, SessionInv, [Next]_vars PROVE SessionInv'
  OBVIOUS
<1>1. CASE Requests
  BY <1>1, LockUserKeepsSession, RotateKeepsSession, GraceKeepsSession, CheckFamilyKeepsSession,
     EndFamilyKeepsSession, IssueKeepsSession, CommitKeepsSession, CommitFailsKeepsSession,
     ListFamilyKeepsSession, RevokeFamilyKeepsSession, AbortKeepsSession DEF Requests
<1>2. CASE Tabs
  BY <1>2, TabsKeepSession
<1>3. CASE ReplacePassword \/ Login \/ SignInUndone \/ Logout
  BY <1>3, ReplacePasswordKeepsSession, LoginKeepsSession, LogoutKeepsSession
<1>4. CASE Leave
  BY <1>4, SessionSameRows DEF Leave, server, SessionInv
<1>5. ASSUME NEW i \in Id, Lapse(i) PROVE SessionInv'
  BY <1>5, LapseKeepsSession
<1>6. CASE UNCHANGED vars
  BY <1>6, SessionSameRows DEF vars, server, browser, SessionInv
<1> QED
  BY <1>1, <1>2, <1>3, <1>4, <1>5, <1>6 DEF Next

\* The browser holds a token the backend exchanges, or will once it is committed,
\* until a session is ended, whatever the tabs, the lost answers and the rollbacks
\* before an answer do (RefreshCoordinator, AuthSessionService.refresh); a commit
\* that fails behind the answer ends the session of the token it handed out
\* (get_db_session), and no other.
THEOREM SessionKept == Spec => []SessionIsKept
<1>1. ASSUME IInv, SessionInv PROVE SessionIsKept
  <2>1. store \in Id \cup {0}
    BY <1>1, Parts
  <2>2. ASSUME store # 0, tokens[store].family \notin ended
        PROVE  Usable(store) \/ tokens[store].status = "pending"
    <3>1. /\ store \in Id /\ tokens[store] \in Token /\ Whole(store, tokens, ended)
          /\ Real(store, tokens, ended)
      BY <1>1, <2>1, <2>2, Rows DEF SessionInv
    <3>2. tokens[store].status \in {"active", "rotated", "revoked", "pending", "void"}
      BY <3>1 DEF Token
    <3> QED
      BY <2>2, <3>1, <3>2 DEF Whole, Real, Usable, Active, FamilyOf, Id
  <2> QED
    BY <1>1, <2>2 DEF SessionIsKept, SessionInv
<1> QED
  BY <1>1, Invariance, InitSession, NextSession, PTL DEF Spec

=============================================================================
