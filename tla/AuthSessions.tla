---------------------------- MODULE AuthSessions ----------------------------
(***************************************************************************)
(* The sessions of one user: refresh_tokens in the database, the requests  *)
(* that rotate and revoke them, and the tabs of a browser that share one   *)
(* stored refresh token (RefreshCoordinator, tokenStorage, authStore).     *)
(*                                                                         *)
(* A request is one PostgreSQL transaction (READ COMMITTED); a step of it  *)
(* is one statement.  The rows a transaction has changed are locked until  *)
(* its commit and are seen by others from then on.  The answer goes out    *)
(* before the commit, unless the request commits by itself.                *)
(***************************************************************************)
EXTENDS Integers, Sequences, FiniteSets

CONSTANTS
  Tab,         \* tabs of the browser
  Request,     \* requests the backend may run together
  None,
  MaxTokens,   \* bound: tokens issued
  MaxEndings,  \* bound: logouts and new passwords
  MaxFaults    \* bound: closed tabs, lost answers, lease deadlines, rolled back requests

ASSUME SessionConstants ==
  /\ None \notin Request
  /\ MaxTokens \in Nat \ {0} /\ MaxEndings \in Nat /\ MaxFaults \in Nat

VARIABLES
  tokens,   \* refresh_tokens, by id
  version,  \* auth_version of the user
  request,  \* the requests in the backend
  store,    \* localStorage: the stored refresh token, or 0
  tab,      \* what each tab remembers of its refresh
  leaving,  \* a tab waits for the answer to its logout
  ended,    \* ghost: the sessions the user ended, a late token did, or a commit
            \* that failed when its token was handed out
  endings, faults

server == <<tokens, version, request>>
browser == <<store, tab, leaving>>
vars == <<server, browser, ended, endings, faults>>

Free == [kind |-> "none", at |-> "idle", token |-> 0, family |-> 0, version |-> 0,
         takes |-> FALSE, sees |-> {}, issued |-> 0]
Quiet == [at |-> "idle", start |-> 0, used |-> 0, got |-> 0, retried |-> FALSE, told |-> FALSE,
          request |-> None]

NewToken(family, v) == [family |-> family, status |-> "active", fresh |-> TRUE, version |-> v]

\* The user has just logged in.
Init ==
  /\ tokens = <<NewToken(1, 0)>> /\ version = 0
  /\ request = [q \in Request |-> Free]
  /\ store = 1 /\ tab = [t \in Tab |-> Quiet] /\ leaving = FALSE
  /\ ended = {} /\ endings = 0 /\ faults = 0

Fault == faults < MaxFaults /\ faults' = faults + 1

-----------------------------------------------------------------------------
(* The backend: AuthSessionService and SQLAlchemyRefreshTokenRepository.   *)

Id == 1 .. Len(tokens)

Active(i) == tokens[i].status = "active"

FamilyOf(f) == {i \in Id : tokens[i].family = f}

\* Mutant: only the row of the token is locked, not the user.
HoldsTokenOnly(q) == request[q].kind = "refresh" /\ request[q].takes

HoldsUser(q) == request[q].kind = "refresh"
                /\ request[q].at \in {"rotate", "grace", "family", "reuse", "issue", "commit"}

\* Mutant: the user is read without FOR UPDATE.
NeverWaits(q) == TRUE

UserIsFree(q) == \A p \in Request \ {q} : ~HoldsUser(p)

\* No other transaction holds the row.
RowIsFree(q, i) == \A p \in Request \ {q} : ~(request[p].takes /\ request[p].token = i)

Moves(q, to) ==
  /\ request' = [request EXCEPT ![q].at = to]
  /\ UNCHANGED <<tokens, version, browser, ended, endings, faults>>

\* The transaction is over; its answer waits for the tab that asked, if it still does.
Over(q, answer) ==
  request' = [request EXCEPT ![q] =
                IF \E t \in Tab : tab[t].request = q
                THEN [Free EXCEPT !.kind = "answer", !.at = answer.at, !.issued = answer.issued]
                ELSE Free]

Refusal == [at |-> "refused", issued |-> 0]

Refuse(q) == Over(q, Refusal) /\ UNCHANGED <<tokens, version, browser, ended, endings, faults>>

Revoked(ids) == [i \in Id |-> IF i \in ids /\ Active(i) THEN [tokens[i] EXCEPT !.status = "revoked"]
                              ELSE tokens[i]]

\* refresh: get_by_id_for_update.
LockUser(q) ==
  /\ request[q].at = "user" /\ UserIsFree(q)
  /\ request' = [request EXCEPT ![q].at = "rotate", ![q].version = version]
  /\ UNCHANGED <<tokens, version, browser, ended, endings, faults>>

\* rotate_valid_token; logout does it without the lock of the user.
Rotate(q) ==
  LET r == request[q] IN
  /\ r.at = "rotate" /\ RowIsFree(q, r.token)
  /\ IF Active(r.token)
     THEN request' = [request EXCEPT ![q].takes = TRUE, ![q].family = tokens[r.token].family,
                                     ![q].at = IF r.kind = "refresh" THEN "issue" ELSE "list"]
     ELSE IF r.kind = "refresh" THEN request' = [request EXCEPT ![q].at = "grace"]
     ELSE request' = [request EXCEPT ![q] = Free]
  /\ UNCHANGED <<tokens, version, browser, ended, endings, faults>>

\* find_rotated_token
Grace(q) ==
  LET row == tokens[request[q].token] IN
  /\ request[q].at = "grace"
  /\ \/ row.status # "rotated" /\ Refuse(q)
     \/ /\ row.status = "rotated"
        /\ request' = [request EXCEPT ![q].family = row.family,
                                      ![q].at = IF row.fresh THEN "family" ELSE "reuse"]
        /\ UNCHANGED <<tokens, version, browser, ended, endings, faults>>

\* family_has_active_token
CheckFamily(q) ==
  /\ request[q].at = "family"
  /\ IF \E i \in FamilyOf(request[q].family) : Active(i) THEN Moves(q, "issue") ELSE Refuse(q)

\* RefreshTokenReuseDetected: revoke_family, committed before the refusal.
EndFamily(q) ==
  LET family == FamilyOf(request[q].family) IN
  /\ request[q].at = "reuse" /\ \A i \in family : RowIsFree(q, i)
  /\ tokens' = Revoked(family)
  /\ ended' = ended \cup {request[q].family}
  /\ Over(q, Refusal)
  /\ UNCHANGED <<version, browser, endings, faults>>

\* Mutant: the successor of a token starts a family of its own.
OwnFamily(q) == Len(tokens) + 1

SuccessorsFamily(q) == request[q].family

\* issue_refresh_token; the route returns, and its answer goes out before
\* get_db_session goes on to the commit.  Nobody else sees the new row until then.
Issue(q) ==
  /\ request[q].at = "issue" /\ Len(tokens) < MaxTokens
  /\ tokens' = Append(tokens, [NewToken(SuccessorsFamily(q), request[q].version)
                                EXCEPT !.status = "pending"])
  /\ request' = [request EXCEPT ![q].at = "commit", ![q].issued = Len(tokens) + 1]
  /\ UNCHANGED <<version, browser, ended, endings, faults>>

IssuedBy(q) == [at |-> "issued", issued |-> request[q].issued]

Commit(q) ==
  LET r == request[q] IN
  /\ r.at = "commit"
  /\ tokens' = [i \in Id |-> IF i = r.issued THEN [tokens[i] EXCEPT !.status = "active"]
                             ELSE IF r.takes /\ i = r.token
                             THEN [tokens[i] EXCEPT !.status = "rotated"] ELSE tokens[i]]
  /\ Over(q, IssuedBy(q))
  /\ UNCHANGED <<version, browser, ended, endings, faults>>

\* The browser stores the token i of request q, or will, or is asking with it.
HandedOut(q, i) ==
  \/ store = i
  \/ \E t \in Tab : tab[t].request = q \/ tab[t].got = i
  \/ \E p \in Request : request[p].token = i

\* The commit fails behind the answer: the backend has never had the token it
\* has handed out, and the session the browser has with it is lost.
CommitFails(q) ==
  LET i == request[q].issued IN
  /\ request[q].at = "commit" /\ Fault
  /\ tokens' = [tokens EXCEPT ![i].status = "void"]
  /\ ended' = IF HandedOut(q, i) THEN ended \cup {tokens[i].family} ELSE ended
  /\ Over(q, IssuedBy(q))
  /\ UNCHANGED <<version, browser, endings>>

\* logout: the statement of revoke_family begins; it knows the rows of now.
ListFamily(q) ==
  /\ request[q].at = "list"
  /\ request' = [request EXCEPT ![q].sees = {i \in FamilyOf(request[q].family) : Active(i)},
                                ![q].at = "revoke"]
  /\ UNCHANGED <<tokens, version, browser, ended, endings, faults>>

\* It has waited for those another transaction held; the commit.
RevokeFamily(q) ==
  LET r == request[q] IN
  /\ r.at = "revoke" /\ \A i \in r.sees : RowIsFree(q, i)
  /\ tokens' = [Revoked(r.sees) EXCEPT ![r.token].status = "rotated"]
  /\ request' = [request EXCEPT ![q] = Free]
  /\ UNCHANGED <<version, browser, ended, endings, faults>>

\* A timeout, a lost connection or a crash before the answer rolls the
\* transaction back; the tab gets an error that is no refusal, or nothing.
Abort(q) ==
  /\ request[q].kind \in {"refresh", "logout"} /\ request[q].at # "commit" /\ Fault
  /\ request' = [request EXCEPT ![q] = Free]
  /\ tab' = [t \in Tab |-> IF tab[t].request = q THEN Quiet ELSE tab[t]]
  /\ UNCHANGED <<tokens, version, store, leaving, ended, endings>>

\* set_password, change_password, password_reset_confirm and the login with a
\* password that was sent; the new session is this browser's or not.
ReplacePassword ==
  /\ endings < MaxEndings /\ endings' = endings + 1
  /\ Len(tokens) < MaxTokens
  /\ \A q \in Request : ~HoldsUser(q) /\ ~request[q].takes
  /\ version' = version + 1
  /\ tokens' = Append(Revoked(Id), NewToken(Len(tokens) + 1, version + 1))
  /\ ended' = ended \cup {tokens[i].family : i \in Id}
  /\ store' \in {store, Len(tokens) + 1}
  /\ UNCHANGED <<request, tab, leaving, faults>>

\* login, in this browser.
Login ==
  /\ Len(tokens) < MaxTokens /\ \A q \in Request : ~HoldsUser(q)
  /\ tokens' = Append(tokens, NewToken(Len(tokens) + 1, version))
  /\ store' = Len(tokens) + 1
  /\ UNCHANGED <<version, request, tab, leaving, ended, endings, faults>>

\* A login or a new password in this browser whose commit fails behind the
\* answer: the browser has a token the backend has never had.
SignInUndone ==
  /\ Len(tokens) < MaxTokens /\ \A q \in Request : ~HoldsUser(q)
  /\ Fault
  /\ tokens' = Append(tokens, [NewToken(Len(tokens) + 1, version) EXCEPT !.status = "void"])
  /\ store' = Len(tokens) + 1
  /\ ended' = ended \cup {Len(tokens) + 1}
  /\ UNCHANGED <<version, request, tab, leaving, endings>>

-----------------------------------------------------------------------------
(* The browser.                                                            *)

\* A tab asks the backend to exchange the stored token.
Asks(t, q, retry) ==
  /\ request' = [request EXCEPT ![q] = [Free EXCEPT !.kind = "refresh", !.at = "user",
                                                    !.token = store]]
  /\ tab' = [tab EXCEPT ![t] = [Quiet EXCEPT !.at = "ask", !.used = store, !.request = q,
                                             !.retried = retry]]

\* refreshAcrossTabs, after a 401 or when a tab is opened.
Start(t) ==
  /\ tab[t] = Quiet /\ store # 0
  /\ tab' = [tab EXCEPT ![t] = [Quiet EXCEPT !.at = "wait", !.start = store]]
  /\ UNCHANGED <<server, store, leaving, ended, endings, faults>>

\* The Web Lock, or the lease in localStorage, which is not waited for forever.
Entered ==
  \/ \A u \in Tab : tab[u].at # "ask" /\ UNCHANGED faults
  \/ (\E u \in Tab : tab[u].at = "ask") /\ Fault

\* refreshUnderLock: the token of another tab is shared if its message has come.
Enter(t) ==
  /\ tab[t].at = "wait" /\ Entered
  /\ \/ /\ store = 0
        /\ tab' = [tab EXCEPT ![t] = [Quiet EXCEPT !.at = "reject"]]
        /\ UNCHANGED request
     \/ /\ store \notin {0, tab[t].start} /\ tab[t].told
        /\ tab' = [tab EXCEPT ![t] = [Quiet EXCEPT !.at = "apply", !.got = store]]
        /\ UNCHANGED request
     \/ store # 0 /\ \E q \in Request : request[q] = Free /\ Asks(t, q, FALSE)
  /\ UNCHANGED <<tokens, version, store, leaving, ended, endings>>

\* persist, unless the store has changed (SessionChangedError), and post.
Persist(t) ==
  LET q == tab[t].request IN
  /\ tab[t].at = "ask" /\ request[q].at \in {"issued", "commit"}
  /\ request' = IF request[q].at = "commit" THEN request ELSE [request EXCEPT ![q] = Free]
  /\ IF store # tab[t].used THEN tab' = [tab EXCEPT ![t] = Quiet] /\ UNCHANGED store
     ELSE /\ store' = request[q].issued
          /\ tab' = [u \in Tab |->
                       IF u = t THEN [Quiet EXCEPT !.at = "apply", !.got = request[q].issued]
                       ELSE [tab[u] EXCEPT !.told = (tab[u].at = "wait")]]
  /\ UNCHANGED <<tokens, version, leaving, ended, endings, faults>>

\* requestWithRotationRetry: one more try if another tab has changed the store.
Refused(t) ==
  LET q == tab[t].request IN
  /\ tab[t].at = "ask" /\ request[q].at = "refused"
  /\ IF store \notin {0, tab[t].used} /\ ~tab[t].retried THEN Asks(t, q, TRUE)
     ELSE /\ request' = [request EXCEPT ![q] = Free]
          /\ tab' = [tab EXCEPT ![t] = [Quiet EXCEPT !.at = "reject"]]
  /\ UNCHANGED <<tokens, version, store, leaving, ended, endings, faults>>

\* apply (setAuthenticated) runs once the lock is released, and stores again.
Apply(t) ==
  /\ tab[t].at = "apply"
  /\ store' = tab[t].got
  /\ tab' = [tab EXCEPT ![t] = Quiet]
  /\ UNCHANGED <<server, leaving, ended, endings, faults>>

\* isDefinitiveRejection: the tokens are cleared and the user is logged out.
Clear(t) ==
  /\ tab[t].at = "reject"
  /\ store' = 0
  /\ tab' = [tab EXCEPT ![t] = Quiet]
  /\ UNCHANGED <<server, leaving, ended, endings, faults>>

\* The tab is closed, or its answer is lost (NetworkError, no rejection).
Lose(t) ==
  /\ tab[t] # Quiet /\ Fault
  /\ tab' = [tab EXCEPT ![t] = Quiet]
  /\ request' = [q \in Request |-> IF q = tab[t].request /\ request[q].kind = "answer" THEN Free
                                   ELSE request[q]]
  /\ UNCHANGED <<tokens, version, store, leaving, ended, endings>>

\* useLogout: the backend is asked to revoke the stored token ...
Logout ==
  /\ store # 0 /\ ~leaving /\ endings < MaxEndings /\ endings' = endings + 1
  /\ \E q \in Request : request[q] = Free
       /\ request' = [request EXCEPT ![q] = [Free EXCEPT !.kind = "logout", !.at = "rotate",
                                                         !.token = store]]
  /\ leaving' = TRUE
  /\ ended' = ended \cup {tokens[store].family}
  /\ UNCHANGED <<tokens, version, store, tab, faults>>

\* ... and after its answer, or without one, the browser forgets it.
Leave ==
  /\ leaving /\ leaving' = FALSE /\ store' = 0
  /\ UNCHANGED <<server, tab, ended, endings, faults>>

Held(i) ==
  \/ store = i
  \/ \E t \in Tab : i \in {tab[t].used, tab[t].got}
  \/ \E q \in Request : i \in {request[q].token, request[q].issued}

\* REFRESH_REUSE_GRACE_SECONDS have passed since i was rotated, and a tab or a
\* request still holds i: its session is lost.  Once nobody holds i, nobody will,
\* and its grace no longer matters.
Lapse(i) ==
  /\ tokens[i].status = "rotated" /\ tokens[i].fresh /\ Held(i)
  /\ tokens' = [tokens EXCEPT ![i].fresh = FALSE]
  /\ ended' = ended \cup {tokens[i].family}
  /\ UNCHANGED <<version, request, browser, endings, faults>>

-----------------------------------------------------------------------------
Requests ==
  \E q \in Request : \/ LockUser(q) \/ Rotate(q) \/ Grace(q) \/ CheckFamily(q) \/ EndFamily(q)
                     \/ Issue(q) \/ Commit(q) \/ CommitFails(q) \/ ListFamily(q)
                     \/ RevokeFamily(q) \/ Abort(q)

Tabs ==
  \E t \in Tab : \/ Start(t) \/ Enter(t) \/ Persist(t) \/ Refused(t) \/ Apply(t) \/ Clear(t)
                 \/ Lose(t)

Next ==
  \/ Requests \/ Tabs \/ ReplacePassword \/ Login \/ SignInUndone \/ Logout \/ Leave
  \/ \E i \in Id : Lapse(i)

Spec == Init /\ [][Next]_vars

-----------------------------------------------------------------------------
(* Properties.                                                             *)

Token ==
  [family : Id, status : {"active", "rotated", "revoked", "pending", "void"}, fresh : BOOLEAN,
   version : 0 .. version]

RequestState ==
  [kind : {"none", "refresh", "logout", "answer"},
   at : {"idle", "user", "rotate", "grace", "family", "reuse", "issue", "commit", "list",
         "revoke", "issued", "refused"},
   token : Id \cup {0}, family : Id \cup {0}, version : 0 .. version, takes : BOOLEAN,
   sees : SUBSET Id, issued : Id \cup {0}]

TabState ==
  [at : {"idle", "wait", "ask", "apply", "reject"}, start : Id \cup {0}, used : Id \cup {0},
   got : Id \cup {0}, retried : BOOLEAN, told : BOOLEAN, request : Request \cup {None}]

ServerTyped ==
  /\ Len(tokens) \in 1 .. MaxTokens /\ tokens \in Seq(Token)
  /\ version \in 0 .. MaxEndings
  /\ request \in [Request -> RequestState]
  /\ \A q \in Request :
       /\ request[q].at \notin {"idle", "issued", "refused"} => request[q].token \in Id
       /\ request[q].at \in {"family", "reuse", "issue", "commit", "list", "revoke"} =>
            request[q].family \in Id
       /\ request[q].at = "commit" => request[q].issued \in Id
  /\ ended \subseteq Id /\ endings \in version .. MaxEndings

BrowserTyped ==
  /\ store \in Id \cup {0} /\ tab \in [Tab -> TabState] /\ leaving \in BOOLEAN
  /\ \A t \in Tab : tab[t].at = "ask" => tab[t].request \in Request
  /\ faults \in 0 .. MaxFaults

OneHolder == \A p, q \in Request : HoldsUser(p) /\ HoldsUser(q) => p = q

\* The types; and the lock of the user is held by one refresh at a time.
TypeOK == ServerTyped /\ BrowserTyped /\ OneHolder

\* The token would be exchanged for another one.
Usable(i) == Active(i) \/ (tokens[i].status = "rotated" /\ tokens[i].fresh
                           /\ \E j \in FamilyOf(tokens[i].family) : Active(j))

\* The browser keeps its session, however its tabs race and answers are lost:
\* unless the user has logged out or has got a new password, or a rotated token
\* was still held when its grace was over, or the commit behind a token that was
\* handed out has failed, the store holds a token the backend accepts, or will
\* once the commit it is waiting for is done.
SessionIsKept ==
  /\ store = 0 => ended # {}
  /\ store # 0 /\ tokens[store].family \notin ended =>
       Usable(store) \/ tokens[store].status = "pending"

\* A new password ends every session before it: no refresh that was under way
\* leaves a token of the old ones behind.
OnlyTheLastPassword == \A i \in Id : Active(i) => tokens[i].version = version

=============================================================================
