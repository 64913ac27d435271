-------------------------- MODULE SessionHandlers --------------------------
(***************************************************************************)
(* The Go handlers that own the `sessions` table: Login, Refresh and       *)
(* Logout (backend/internal/application/auth), each run by one goroutine   *)
(* per request, interleaving at every database call.  A session row is     *)
(* named by its refresh token: the table keeps SHA-256(token) under a      *)
(* UNIQUE index and the row's id is a fresh UUID, so token, hash and id    *)
(* are in bijection.                                                       *)
(***************************************************************************)
EXTENDS Integers

CONSTANTS
    Users,          \* registered accounts (no handler deletes one)
    NoUser,
    Tokens,         \* values newOpaqueToken can draw
    NoToken,        \* no cookie, or a value that is the token of no row
    Handlers,       \* request goroutines that may run at once
    SessionLife,    \* 7 * 24h, in clock ticks
    MaxTime         \* bound on the clock

ASSUME NoneAssumption == NoToken \notin Tokens /\ NoUser \notin Users
ASSUME TimeAssumption == SessionLife \in Nat \ {0} /\ MaxTime \in Nat

VARIABLES
    rows,           \* tokens whose session row is in the table
    owner,          \* column user_id
    expiresAt,      \* column expires_at
    revoked,        \* rows whose is_revoked is true
    req,            \* the request each goroutine is serving
    delivered,      \* refresh tokens that reached a client
    now,            \* wall clock
    parent,         \* history: the session a row was rotated from
    excused         \* history: tokens Refresh went on with after a failed Revoke

table == <<rows, owner, expiresAt>>
history == <<parent, excused>>
vars == <<rows, owner, expiresAt, revoked, req, delivered, now,
          parent, excused>>

MaybeToken == Tokens \cup {NoToken}
MaybeUser == Users \cup {NoUser}

Requests ==
    [ op : {"none", "login", "refresh", "logout"},
      at : {"idle", "login", "lookup", "revokeAll", "user", "revoke",
            "mint", "insert", "reply"},
      user : MaybeUser,         \* whose credentials, or the row's user_id
      tok : MaybeToken,         \* the refresh_token cookie presented
      fresh : MaybeToken,       \* the token drawn for the new session
      exp : Nat,                \* its ExpiresAt
      live : BOOLEAN,           \* r.Context() is not cancelled
      answer : {"none", "ok", "refused", "reuse"},
      dead : BOOLEAN ]          \* history: tok was already useless on arrival

Idle == [op |-> "none", at |-> "idle", user |-> NoUser, tok |-> NoToken,
         fresh |-> NoToken, exp |-> 0, live |-> TRUE, answer |-> "none",
         dead |-> FALSE]

(* time.Now().Before(ExpiresAt) fails from the very tick of expiry on.     *)
ExpiredLate(t) == now > expiresAt[t]                              \* mutant
Expired(t) == now >= expiresAt[t]

ExpiryInThePast == now - SessionLife                              \* mutant
ExpiryFromNow == now + SessionLife

(* WHERE user_id = $1                                                      *)
SessionsOfAnyone(u) == rows                                       \* mutant
SessionsOf(u) == {t \in rows : owner[t] = u}
Children(t) == {c \in rows : parent[c] = t}

At(h, step) == req[h].at = step
Goto(h, step) == req' = [req EXCEPT ![h].at = step]
Reply(h, ans) == req' = [req EXCEPT ![h].at = "reply", ![h].answer = ans]

(* respondError sets no cookie: a token drawn earlier never leaves.        *)
Refuse(h) == req' = [req EXCEPT ![h].at = "reply", ![h].answer = "refused",
                                ![h].fresh = NoToken]

(* pool.Exec: the statement took effect and the handler knows ("done"),    *)
(* took effect while the connection was lost ("lost"), or did not.  A      *)
(* cancelled context keeps pgx from sending it at all.                     *)
Exec(h) == IF req[h].live THEN {"done", "lost", "failed"} ELSE {"failed"}
Applied(out) == out # "failed"

(* UPDATE sessions SET is_revoked = true over the rows S.                  *)
RevokedBy(S, out) == IF Applied(out) THEN revoked \cup S ELSE revoked

(* What Login and Refresh answer after Create.                             *)
AnswerRegardless(h, out) == Reply(h, "ok")                        \* mutant
RetryCreate(h, out) ==                                            \* mutant
    IF out = "done" THEN Reply(h, "ok") ELSE UNCHANGED req
CreateAnswer(h, out) == IF out = "done" THEN Reply(h, "ok") ELSE Refuse(h)

-----------------------------------------------------------------------------
Init ==
    /\ rows = {}
    /\ owner = [t \in Tokens |-> NoUser]
    /\ expiresAt = [t \in Tokens |-> 0]
    /\ revoked = {}
    /\ req = [h \in Handlers |-> Idle]
    /\ delivered = {}
    /\ now = 0
    /\ parent = [t \in Tokens |-> NoToken]
    /\ excused = {}

(* POST /login with an account's address.                                  *)
StartLogin(h, u) ==
    /\ At(h, "idle")
    /\ req' = [req EXCEPT ![h] = [Idle EXCEPT !.op = "login", !.at = "login",
                                              !.user = u]]
    /\ UNCHANGED <<table, revoked, delivered, now, history>>

(* POST /refresh-token; without a cookie the answer is 401 at once.        *)
StartRefresh(h, t) ==
    /\ At(h, "idle")
    /\ t \in delivered \cup {NoToken}
    /\ req' = [req EXCEPT ![h] =
                 [Idle EXCEPT !.op = "refresh", !.tok = t,
                    !.at = IF t = NoToken THEN "reply" ELSE "lookup",
                    !.answer = IF t = NoToken THEN "refused" ELSE "none",
                    !.dead = t # NoToken /\ (t \in revoked \/ now >= expiresAt[t])]]
    /\ UNCHANGED <<table, revoked, delivered, now, history>>

(* POST /logout; without a cookie there is nothing to look up.             *)
StartLogout(h, t) ==
    /\ At(h, "idle")
    /\ t \in delivered \cup {NoToken}
    /\ req' = [req EXCEPT ![h] =
                 [Idle EXCEPT !.op = "logout", !.tok = t,
                    !.at = IF t = NoToken THEN "reply" ELSE "lookup",
                    !.answer = IF t = NoToken THEN "ok" ELSE "none"]]
    /\ UNCHANGED <<table, revoked, delivered, now, history>>

(* The rate limiter refuses or errs (429) before anything is read.         *)
Limited(h) ==
    /\ At(h, "login") \/ (At(h, "lookup") /\ req[h].op = "refresh")
    /\ Refuse(h)
    /\ UNCHANGED <<table, revoked, delivered, now, history>>

(* Login: GetByEmail and ComparePasswordAndHash read only users.           *)
LoginCheck(h) ==
    /\ At(h, "login")
    /\ \/ req[h].live /\ Goto(h, "mint")
       \/ Refuse(h)
    /\ UNCHANGED <<table, revoked, delivered, now, history>>

IgnoreRevoked(h) ==                                               \* mutant
    /\ At(h, "lookup") /\ req[h].op = "refresh"
    /\ \/ /\ req[h].live /\ req[h].tok \in rows
          /\ req' = [req EXCEPT ![h].user = owner[req[h].tok],
                                ![h].at = "user"]
       \/ Refuse(h)
    /\ UNCHANGED <<table, revoked, delivered, now, history>>
ExpiredIsReuse(h) ==                                              \* mutant
    /\ At(h, "lookup") /\ req[h].op = "refresh"
    /\ req[h].live /\ req[h].tok \in rows
    /\ req' = [req EXCEPT
                 ![h].user = owner[req[h].tok],
                 ![h].at = IF req[h].tok \in revoked \/ Expired(req[h].tok)
                           THEN "revokeAll" ELSE "user"]
    /\ UNCHANGED <<table, revoked, delivered, now, history>>

(* Refresh: GetByRefreshTokenHash and the IsRevoked test on what it read.  *)
RefreshLookup(h) ==
    /\ At(h, "lookup") /\ req[h].op = "refresh"
    /\ \/ /\ req[h].live /\ req[h].tok \in rows
          /\ req' = [req EXCEPT
                       ![h].user = owner[req[h].tok],
                       ![h].at = IF req[h].tok \in revoked THEN "revokeAll"
                                                           ELSE "user"]
       \/ Refuse(h)
    /\ UNCHANGED <<table, revoked, delivered, now, history>>

(* Refresh: RevokeAllForUser, its error dropped, then 401 "reuse detected". *)
RefreshRevokeAll(h) ==
    /\ At(h, "revokeAll")
    /\ \E out \in Exec(h) :
          revoked' = RevokedBy(SessionsOf(req[h].user), out)
    /\ Reply(h, "reuse")
    /\ UNCHANGED <<table, delivered, now, history>>

(* Refresh: IsValid against the clock of this moment, then GetByID(user).  *)
RefreshUser(h) ==
    /\ At(h, "user")
    /\ \/ ~ Expired(req[h].tok) /\ req[h].live /\ Goto(h, "revoke")
       \/ Refuse(h)
    /\ UNCHANGED <<table, revoked, delivered, now, history>>

RevokeForgotten(h) ==                                             \* mutant
    /\ At(h, "revoke") /\ req[h].op = "refresh"
    /\ Goto(h, "mint")
    /\ UNCHANGED <<table, revoked, delivered, now, history>>

(* Refresh: Revoke(sess.ID), its error dropped.                            *)
RefreshRevoke(h) ==
    /\ At(h, "revoke") /\ req[h].op = "refresh"
    /\ \E out \in Exec(h) :
          /\ revoked' = RevokedBy({req[h].tok}, out)
          /\ excused' = IF Applied(out) THEN excused
                                        ELSE excused \cup {req[h].tok}
    /\ Goto(h, "mint")
    /\ UNCHANGED <<table, delivered, now, parent>>

(* GenerateToken, newOpaqueToken and NewSession, or 500 when one errs.     *)
Mint(h) ==
    /\ At(h, "mint")
    /\ \/ \E t \in Tokens :
             /\ t \notin rows /\ \A g \in Handlers : req[g].fresh # t
             /\ req' = [req EXCEPT ![h].at = "insert", ![h].fresh = t,
                                   ![h].exp = ExpiryFromNow]
       \/ Refuse(h)
    /\ UNCHANGED <<table, revoked, delivered, now, history>>

(* sessRepo.Create: a row with is_revoked = false, or 500.                 *)
Insert(h) ==
    /\ At(h, "insert")
    /\ \E out \in Exec(h) :
          /\ IF Applied(out)
             THEN LET t == req[h].fresh IN
                  /\ rows' = rows \cup {t}
                  /\ owner' = [owner EXCEPT ![t] = req[h].user]
                  /\ expiresAt' = [expiresAt EXCEPT ![t] = req[h].exp]
                  /\ parent' = [parent EXCEPT ![t] = req[h].tok]
             ELSE UNCHANGED <<table, parent>>
          /\ CreateAnswer(h, out)
    /\ UNCHANGED <<revoked, delivered, now, excused>>

(* Logout: a failed or empty lookup still answers 200.                     *)
LogoutLookup(h) ==
    /\ At(h, "lookup") /\ req[h].op = "logout"
    /\ \/ req[h].live /\ req[h].tok \in rows /\ Goto(h, "revoke")
       \/ Reply(h, "ok")
    /\ UNCHANGED <<table, revoked, delivered, now, history>>

(* Logout: Revoke(sess.ID), its error dropped.                             *)
LogoutRevoke(h) ==
    /\ At(h, "revoke") /\ req[h].op = "logout"
    /\ \E out \in Exec(h) :
          revoked' = RevokedBy({req[h].tok}, out)
    /\ Reply(h, "ok")
    /\ UNCHANGED <<table, delivered, now, history>>

(* The response, with its Set-Cookie, reaches the client.                  *)
Deliver(h) ==
    /\ At(h, "reply") /\ req[h].live
    /\ delivered' = delivered \cup ({req[h].fresh} \ {NoToken})
    /\ req' = [req EXCEPT ![h] = Idle]
    /\ UNCHANGED <<table, revoked, now, history>>

(* The response does not: the client is gone, or WriteTimeout has passed.  *)
Drop(h) ==
    /\ At(h, "reply")
    /\ req' = [req EXCEPT ![h] = Idle]
    /\ UNCHANGED <<table, revoked, delivered, now, history>>

(* The client disconnects or the router's 60 s timeout fires.  Once the    *)
(* answer is written this is Drop.                                         *)
Cancel(h) ==
    /\ ~ At(h, "idle") /\ ~ At(h, "reply") /\ req[h].live
    /\ req' = [req EXCEPT ![h].live = FALSE]
    /\ UNCHANGED <<table, revoked, delivered, now, history>>

(* The API process dies; only Postgres and the clients remember.           *)
Crash ==
    /\ \E h \in Handlers : ~ At(h, "idle")
    /\ req' = [h \in Handlers |-> Idle]
    /\ UNCHANGED <<table, revoked, delivered, now, history>>

Tick ==
    /\ now < MaxTime
    /\ now' = now + 1
    /\ UNCHANGED <<table, revoked, req, delivered, history>>

-----------------------------------------------------------------------------
Arrive(h) ==
    \/ \E u \in Users : StartLogin(h, u)
    \/ \E t \in MaybeToken : StartRefresh(h, t) \/ StartLogout(h, t)

Login(h) == LoginCheck(h)
Refresh(h) ==
    \/ RefreshLookup(h) \/ RefreshRevokeAll(h)
    \/ RefreshUser(h) \/ RefreshRevoke(h)
Logout(h) == LogoutLookup(h) \/ LogoutRevoke(h)

(* The steps the goroutine itself takes.                                   *)
Serve(h) ==
    \/ Limited(h) \/ Login(h) \/ Refresh(h) \/ Logout(h)
    \/ Mint(h) \/ Insert(h) \/ Deliver(h) \/ Drop(h)

Next ==
    \/ \E h \in Handlers : Arrive(h) \/ Serve(h) \/ Cancel(h)
    \/ Crash
    \/ Tick

Spec == Init /\ [][Next]_vars

(* net/http runs every accepted request on its own goroutine, and ReadTime-*)
(* out, WriteTimeout and the 60 s context bound each call it blocks in.    *)
FairSpec == Spec /\ \A h \in Handlers : WF_vars(Serve(h))

-----------------------------------------------------------------------------
(* Type invariant: the columns, the requests and the history variables     *)
(* stay in their ranges, and only stored rows are revoked or delivered.    *)
TypeOK ==
    /\ rows \in SUBSET Tokens
    /\ owner \in [Tokens -> MaybeUser]
    /\ expiresAt \in [Tokens -> Nat]
    /\ revoked \in SUBSET rows
    /\ req \in [Handlers -> Requests]
    /\ delivered \in SUBSET rows
    /\ now \in Nat
    /\ parent \in [Tokens -> MaybeToken]
    /\ excused \in SUBSET Tokens

(* A refresh token that was revoked or expired before the request came in  *)
(* buys nothing: no interleaving, error or delay lets Refresh (token.go    *)
(* 32-42) draw a new token for it.                                         *)
DeadTokenBuysNothing ==
    \A h \in Handlers : req[h].dead => req[h].fresh = NoToken

(* Rotation (token.go 50-68) leaves no two-way ticket: whenever a session  *)
(* obtained by Refresh is in the table, the session it was obtained from   *)
(* belongs to the same account and is revoked, except where the Revoke     *)
(* whose error line 50 ignores did fail.                                   *)
RotationRevokesParent ==
    \A t \in rows : parent[t] # NoToken =>
        /\ parent[t] \in rows
        /\ owner[parent[t]] = owner[t]
        /\ parent[t] \in revoked \cup excused

(* Every refresh token in a client's hands, or in a 200 on its way there,  *)
(* is stored under the account of the response, and no two responses carry *)
(* the same token (login.go 55-90, token.go 58-95).                        *)
AnswersAreStored ==
    /\ delivered \subseteq rows
    /\ \A h \in Handlers : req[h].answer = "ok" /\ req[h].fresh # NoToken =>
          /\ req[h].fresh \in rows \ delivered
          /\ owner[req[h].fresh] = req[h].user
          /\ \A g \in Handlers \ {h} : req[g].fresh # req[h].fresh

(* No statement of these handlers brings a revoked session back, removes a *)
(* row, or moves it to another account, parent or expiry.                  *)
RevocationIsForever ==
    [][ /\ rows \subseteq rows' /\ revoked \subseteq revoked'
        /\ \A t \in rows : /\ owner'[t] = owner[t]
                           /\ expiresAt'[t] = expiresAt[t]
                           /\ parent'[t] = parent[t] ]_vars

(* One device's request ends another device's session only on evidence of  *)
(* reuse: the request that revokes a session either presented that very    *)
(* token or presented a token of the same account that is already revoked. *)
(* In particular an expired one ends nothing (token.go 38).                *)
OnlyReuseReachesOthers ==
    [][ \A t \in revoked' \ revoked : \E h \in Handlers :
          /\ req'[h] # req[h]
          /\ \/ t = req[h].tok
             \/ /\ req[h].op = "refresh" /\ req[h].tok \in revoked
                /\ owner[req[h].tok] = owner[t] ]_vars

(* Refreshes of one token can fork it only while they race: once it is     *)
(* revoked and no request still acts on an earlier read of it (the gap     *)
(* between token.go 25 and 50), it never gets another successor.           *)
ActsOnLiveRead(h, t) ==
    /\ req[h].op = "refresh" /\ req[h].tok = t
    /\ req[h].at \in {"user", "revoke", "mint", "insert"}
Closed(t) == t \in revoked /\ \A h \in Handlers : ~ ActsOnLiveRead(h, t)
RetiredFamilyIsClosed ==
    [][ \A t \in Tokens :
          Closed(t) => Closed(t)' /\ Children(t)' = Children(t) ]_vars

(* Every request that is accepted is finished, whatever its database calls *)
(* come to: no handler waits on another.                                   *)
EveryRequestEnds ==
    \A h \in Handlers : ~ At(h, "idle") ~> At(h, "idle")

(* The concurrent handlers implement the one-step-per-request life cycle.  *)
Lifecycle == INSTANCE SessionLifecycle
                WITH holder <- owner, origin <- parent, retired <- revoked
ImplementsLifecycle == Lifecycle!Spec

-----------------------------------------------------------------------------
(* The inductive invariant behind the properties above: what each request  *)
(* may rely on at each step, whatever the others do meanwhile.             *)

(* A column is meaningful exactly for the rows stored.                     *)
TableOK ==
    /\ delivered \subseteq rows
    /\ \A t \in Tokens : IF t \in rows THEN owner[t] \in Users
                        ELSE owner[t] = NoUser /\ parent[t] = NoToken

(* Which kind of request can be at a step, and what it has found out.      *)
ProgressOK(r) ==
    /\ r.at = "login" => r.op = "login"
    /\ r.at = "lookup" => r.op \in {"refresh", "logout"} /\ r.tok \in rows
    /\ r.at \in {"revokeAll", "user"} => r.op = "refresh"
    /\ r.at = "revoke" => r.op \in {"refresh", "logout"} /\ r.tok \in rows
    /\ r.at \in {"mint", "insert"} => r.op \in {"login", "refresh"}
    /\ r.op = "login" => r.user \in Users /\ r.tok = NoToken
    /\ r.op = "refresh" /\ r.at \in {"revokeAll", "user", "revoke", "mint", "insert"}
          => r.tok \in rows /\ r.user = owner[r.tok]
    /\ r.at = "revokeAll" => r.tok \in revoked
    /\ r.op = "refresh" /\ r.at \in {"mint", "insert"}
          => r.tok \in revoked \cup excused

(* Where the token of a new session can be.                                *)
FreshOK(r) ==
    /\ r.at = "insert" => r.fresh \in Tokens \ rows
    /\ r.fresh # NoToken => r.at = "insert" \/ (r.at = "reply" /\ r.answer = "ok")
    /\ r.answer = "ok" => r.at = "reply"
    /\ r.answer = "ok" /\ r.fresh # NoToken
          => r.fresh \in rows \ delivered /\ owner[r.fresh] = r.user

(* Whatever made a token useless on arrival still does.                    *)
DeadOK(r) ==
    r.dead =>
        /\ r.op = "refresh" /\ r.tok \in rows /\ r.fresh = NoToken
        /\ r.tok \in revoked \/ Expired(r.tok)
        /\ r.at \in {"lookup", "revokeAll", "user", "reply"}
        /\ r.at = "user" => Expired(r.tok)

FreshDistinct ==
    \A g, h \in Handlers : g # h /\ req[g].fresh = req[h].fresh
                            => req[g].fresh = NoToken

IInv ==
    /\ TypeOK
    /\ TableOK
    /\ \A h \in Handlers : ProgressOK(req[h]) /\ FreshOK(req[h]) /\ DeadOK(req[h])
    /\ FreshDistinct
    /\ RotationRevokesParent

=============================================================================
