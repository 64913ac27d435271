--------------------------- MODULE SessionProofs ---------------------------
(***************************************************************************)
(* Proofs that the session handlers keep their invariant for any number of *)
(* accounts, tokens and concurrent requests.                               *)
(***************************************************************************)
EXTENDS SessionHandlers, TLAPS

-----------------------------------------------------------------------------
(* The steps that touch nothing but one request.                           *)

(* If one request moves to a record that satisfies the per-request parts   *)
(* and its fresh token is its own, the whole invariant is kept.            *)
LEMMA OneRequestMoves ==
    ASSUME IInv, NEW h \in Handlers, NEW r \in Requests,
           req' = [req EXCEPT ![h] = r],
           UNCHANGED <<table, revoked, delivered, now, history>>,
           ProgressOK(r), FreshOK(r), DeadOK(r),
           \A g \in Handlers \ {h} : r.fresh # NoToken => r.fresh # req[g].fresh
    PROVE  IInv'
<1>. USE DEF IInv, table, history
<1>1. \A g \in Handlers : req'[g] = IF g = h THEN r ELSE req[g]
  BY DEF TypeOK
<1>2. TypeOK'
  BY DEF TypeOK
<1>3. TableOK'
  BY DEF TableOK
<1>4. \A g \in Handlers : (ProgressOK(req[g]) /\ FreshOK(req[g]) /\ DeadOK(req[g]))'
  BY <1>1 DEF ProgressOK, FreshOK, DeadOK, Expired
<1>5. FreshDistinct'
  BY <1>1 DEF FreshDistinct
<1>6. RotationRevokesParent'
  BY DEF RotationRevokesParent
<1>. QED
  BY <1>2, <1>3, <1>4, <1>5, <1>6

(* The idle record satisfies every per-request part.                       *)
LEMMA IdleOK == Idle \in Requests /\ ProgressOK(Idle) /\ FreshOK(Idle) /\ DeadOK(Idle)
  BY NoneAssumption
  DEF Idle, Requests, MaybeUser, MaybeToken, ProgressOK, FreshOK, DeadOK

(* A new request starts out consistent with the table.                     *)
LEMMA ArriveStep ==
    ASSUME IInv, NEW h \in Handlers, Arrive(h)
    PROVE  IInv'
<1>1. ASSUME NEW u \in Users, StartLogin(h, u)
      PROVE  IInv'
  <2>. DEFINE r == [Idle EXCEPT !.op = "login", !.at = "login", !.user = u]
  <2>1. r \in Requests /\ ProgressOK(r) /\ FreshOK(r) /\ DeadOK(r) /\ r.fresh = NoToken
    BY NoneAssumption
    DEF Idle, Requests, MaybeUser, MaybeToken, ProgressOK, FreshOK, DeadOK
  <2>2. req' = [req EXCEPT ![h] = r] /\ UNCHANGED <<table, revoked, delivered, now, history>>
    BY <1>1 DEF StartLogin
  <2>. QED
    BY <2>1, <2>2, OneRequestMoves
<1>2. ASSUME NEW t \in MaybeToken, StartRefresh(h, t)
      PROVE  IInv'
  <2>. DEFINE r == [Idle EXCEPT !.op = "refresh", !.tok = t,
                    !.at = IF t = NoToken THEN "reply" ELSE "lookup",
                    !.answer = IF t = NoToken THEN "refused" ELSE "none",
                    !.dead = t # NoToken /\ (t \in revoked \/ now >= expiresAt[t])]
  <2>1. t # NoToken => t \in rows
    BY <1>2 DEF StartRefresh, IInv, TableOK
  <2>2. r \in Requests
    BY NoneAssumption DEF Idle, Requests, MaybeUser, MaybeToken
  <2>3. ProgressOK(r) /\ FreshOK(r) /\ r.fresh = NoToken
    BY <2>1, NoneAssumption DEF Idle, ProgressOK, FreshOK
  <2>4. DeadOK(r)
    BY <2>1 DEF Idle, DeadOK, Expired
  <2>5. req' = [req EXCEPT ![h] = r] /\ UNCHANGED <<table, revoked, delivered, now, history>>
    BY <1>2 DEF StartRefresh
  <2>. QED
    BY <2>2, <2>3, <2>4, <2>5, OneRequestMoves
<1>3. ASSUME NEW t \in MaybeToken, StartLogout(h, t)
      PROVE  IInv'
  <2>. DEFINE r == [Idle EXCEPT !.op = "logout", !.tok = t,
                    !.at = IF t = NoToken THEN "reply" ELSE "lookup",
                    !.answer = IF t = NoToken THEN "ok" ELSE "none"]
  <2>1. t # NoToken => t \in rows
    BY <1>3 DEF StartLogout, IInv, TableOK
  <2>2. r \in Requests
    BY NoneAssumption DEF Idle, Requests, MaybeUser, MaybeToken
  <2>3. ProgressOK(r) /\ FreshOK(r) /\ DeadOK(r) /\ r.fresh = NoToken
    BY <2>1, NoneAssumption DEF Idle, ProgressOK, FreshOK, DeadOK
  <2>4. req' = [req EXCEPT ![h] = r] /\ UNCHANGED <<table, revoked, delivered, now, history>>
    BY <1>3 DEF StartLogout
  <2>. QED
    BY <2>2, <2>3, <2>4, OneRequestMoves
<1>. QED
  BY <1>1, <1>2, <1>3 DEF Arrive

(* respondError: a refused request is consistent whatever came before.     *)
LEMMA RefuseStep ==
    ASSUME IInv, NEW h \in Handlers, Refuse(h),
           UNCHANGED <<table, revoked, delivered, now, history>>
    PROVE  IInv'
<1>. DEFINE r == [req[h] EXCEPT !.at = "reply", !.answer = "refused", !.fresh = NoToken]
<1>1. r \in Requests /\ req' = [req EXCEPT ![h] = r]
  BY DEF Refuse, IInv, TypeOK, Requests, MaybeToken
<1>2. ProgressOK(r) /\ FreshOK(r) /\ DeadOK(r) /\ r.fresh = NoToken
  BY DEF IInv, TypeOK, Requests, ProgressOK, FreshOK, DeadOK
<1>. QED
  BY <1>1, <1>2, OneRequestMoves

(* Before its Create a request holds no token and no answer.               *)
LEMMA NothingInHand ==
    ASSUME IInv, NEW h \in Handlers,
           req[h].at \in {"login", "lookup", "revokeAll", "user", "revoke", "mint"}
    PROVE  req[h].fresh = NoToken /\ req[h].answer # "ok"
  BY DEF IInv, FreshOK

LEMMA LimitedStep ==
    ASSUME IInv, NEW h \in Handlers, Limited(h)
    PROVE  IInv'
  BY RefuseStep DEF Limited

LEMMA LoginStep ==
    ASSUME IInv, NEW h \in Handlers, LoginCheck(h)
    PROVE  IInv'
<1>1. CASE Refuse(h)
  BY <1>1, RefuseStep DEF LoginCheck
<1>2. CASE Goto(h, "mint")
  <2>. DEFINE r == [req[h] EXCEPT !.at = "mint"]
  <2>1. r \in Requests /\ req' = [req EXCEPT ![h] = r]
    BY <1>2 DEF Goto, IInv, TypeOK, Requests
  <2>2. ProgressOK(r) /\ FreshOK(r) /\ DeadOK(r) /\ r.fresh = NoToken
    BY NothingInHand
    DEF LoginCheck, At, IInv, TypeOK, Requests, ProgressOK, FreshOK, DeadOK
  <2>. QED
    BY <2>1, <2>2, OneRequestMoves DEF LoginCheck
<1>. QED
  BY <1>1, <1>2 DEF LoginCheck

(* What RefreshLookup learns of the row: revoked, or alive at the moment.  *)
LEMMA RefreshLookupStep ==
    ASSUME IInv, NEW h \in Handlers, RefreshLookup(h)
    PROVE  IInv'
<1>1. CASE Refuse(h)
  BY <1>1, RefuseStep DEF RefreshLookup
<1>2. CASE ~ Refuse(h)
  <2>. DEFINE r == [req[h] EXCEPT
                      !.user = owner[req[h].tok],
                      !.at = IF req[h].tok \in revoked THEN "revokeAll" ELSE "user"]
  <2>1. req[h].tok \in rows /\ req[h].at = "lookup" /\ req[h].op = "refresh"
        /\ req' = [req EXCEPT ![h] = r]
    BY <1>2 DEF RefreshLookup, At, IInv, TypeOK, Requests
  <2>2. r \in Requests
    BY <2>1 DEF IInv, TypeOK, Requests
  <2>3. ProgressOK(r) /\ FreshOK(r) /\ DeadOK(r) /\ r.fresh = NoToken
    BY <2>1, NothingInHand
    DEF IInv, TypeOK, Requests, ProgressOK, FreshOK, DeadOK
  <2>. QED
    BY <2>1, <2>2, <2>3, OneRequestMoves DEF RefreshLookup
<1>. QED
  BY <1>1, <1>2

(* Only a token that is neither dead on arrival nor expired now goes on.   *)
LEMMA RefreshUserStep ==
    ASSUME IInv, NEW h \in Handlers, RefreshUser(h)
    PROVE  IInv'
<1>1. CASE Refuse(h)
  BY <1>1, RefuseStep DEF RefreshUser
<1>2. CASE ~ Refuse(h)
  <2>. DEFINE r == [req[h] EXCEPT !.at = "revoke"]
  <2>1. req[h].at = "user" /\ ~ Expired(req[h].tok) /\ req' = [req EXCEPT ![h] = r]
    BY <1>2 DEF RefreshUser, At, Goto, IInv, TypeOK, Requests
  <2>2. r \in Requests
    BY <2>1 DEF IInv, TypeOK, Requests
  <2>3. ProgressOK(r) /\ FreshOK(r) /\ DeadOK(r) /\ r.fresh = NoToken
    BY <2>1, NothingInHand
    DEF IInv, TypeOK, Requests, ProgressOK, FreshOK, DeadOK
  <2>. QED
    BY <2>1, <2>2, <2>3, OneRequestMoves DEF RefreshUser
<1>. QED
  BY <1>1, <1>2

(* Mint takes a token nobody else holds.                                   *)
LEMMA MintStep ==
    ASSUME IInv, NEW h \in Handlers, Mint(h)
    PROVE  IInv'
<1>1. CASE Refuse(h)
  BY <1>1, RefuseStep DEF Mint
<1>2. CASE ~ Refuse(h)
  <2>1. PICK t \in Tokens :
          /\ t \notin rows /\ \A g \in Handlers : req[g].fresh # t
          /\ req' = [req EXCEPT ![h].at = "insert", ![h].fresh = t,
                                ![h].exp = ExpiryFromNow]
    BY <1>2 DEF Mint
  <2>. DEFINE r == [req[h] EXCEPT !.at = "insert", !.fresh = t, !.exp = ExpiryFromNow]
  <2>2. req[h].at = "mint" /\ req' = [req EXCEPT ![h] = r]
    BY <1>2, <2>1 DEF Mint, At, IInv, TypeOK, Requests
  <2>0. ExpiryFromNow \in Nat
    BY TimeAssumption DEF IInv, TypeOK, ExpiryFromNow
  <2>3. r \in Requests
    BY <2>0 DEF IInv, TypeOK, Requests, MaybeToken
  <2>4. ProgressOK(r) /\ FreshOK(r) /\ DeadOK(r) /\ r.fresh = t
    BY <2>1, <2>2, NothingInHand
    DEF IInv, TypeOK, Requests, ProgressOK, FreshOK, DeadOK
  <2>5. UNCHANGED <<table, revoked, delivered, now, history>>
    BY DEF Mint
  <2>6. \A g \in Handlers \ {h} : r.fresh # NoToken => r.fresh # req[g].fresh
    BY <2>1, <2>4
  <2>. HIDE DEF r
  <2>. QED
    BY <2>2, <2>3, <2>4, <2>5, <2>6, OneRequestMoves
<1>. QED
  BY <1>1, <1>2

(* A failed, empty or successful lookup all keep the request consistent.   *)
LEMMA LogoutLookupStep ==
    ASSUME IInv, NEW h \in Handlers, LogoutLookup(h)
    PROVE  IInv'
<1>1. req[h].at = "lookup" /\ req[h].op = "logout"
  BY DEF LogoutLookup, At
<1>2. ASSUME NEW r, req' = [req EXCEPT ![h] = r],
             \/ r = [req[h] EXCEPT !.at = "revoke"] /\ req[h].tok \in rows
             \/ r = [req[h] EXCEPT !.at = "reply", !.answer = "ok"]
      PROVE  IInv'
  <2>0. req[h] \in Requests
    BY DEF IInv, TypeOK
  <2>1. r \in Requests
    BY <1>2, <2>0 DEF Requests
  <2>2. ProgressOK(r) /\ FreshOK(r) /\ DeadOK(r) /\ r.fresh = NoToken
    BY <1>1, <1>2, NothingInHand
    DEF IInv, TypeOK, Requests, ProgressOK, FreshOK, DeadOK
  <2>. QED
    BY <1>2, <2>1, <2>2, OneRequestMoves DEF LogoutLookup
<1>3. CASE req[h].tok \in rows /\ Goto(h, "revoke")
  BY <1>2, <1>3 DEF Goto, IInv, TypeOK, Requests
<1>4. CASE Reply(h, "ok")
  BY <1>2, <1>4 DEF Reply, IInv, TypeOK, Requests
<1>. QED
  BY <1>3, <1>4 DEF LogoutLookup

(* A context that is cancelled changes nothing a request relies on.        *)
LEMMA CancelStep ==
    ASSUME IInv, NEW h \in Handlers, Cancel(h)
    PROVE  IInv'
<1>. DEFINE r == [req[h] EXCEPT !.live = FALSE]
<1>1. r \in Requests /\ req' = [req EXCEPT ![h] = r]
  BY DEF Cancel, IInv, TypeOK, Requests
<1>2. ProgressOK(r) /\ FreshOK(r) /\ DeadOK(r) /\ r.fresh = req[h].fresh
  BY DEF IInv, TypeOK, Requests, ProgressOK, FreshOK, DeadOK
<1>3. \A g \in Handlers \ {h} : r.fresh # NoToken => r.fresh # req[g].fresh
  BY <1>2 DEF IInv, FreshDistinct
<1>. QED
  BY <1>1, <1>2, <1>3, OneRequestMoves DEF Cancel

LEMMA DropStep ==
    ASSUME IInv, NEW h \in Handlers, Drop(h)
    PROVE  IInv'
<1>1. Idle.fresh = NoToken
  BY DEF Idle
<1>. QED
  BY <1>1, IdleOK, OneRequestMoves DEF Drop

-----------------------------------------------------------------------------
(* The steps that write to the table.                                      *)

(* Revoking more rows, or noting a failed Revoke, disturbs no request.     *)
LEMMA RequestRevokes ==
    ASSUME IInv, NEW h \in Handlers, NEW r \in Requests,
           req' = [req EXCEPT ![h] = r],
           revoked \subseteq revoked', revoked' \subseteq rows,
           excused \subseteq excused', excused' \subseteq Tokens,
           UNCHANGED <<table, delivered, now, parent>>,
           ProgressOK(r)', FreshOK(r), DeadOK(r)', r.fresh = NoToken
    PROVE  IInv'
<1>. USE DEF IInv, table
<1>1. \A g \in Handlers : req'[g] = IF g = h THEN r ELSE req[g]
  BY DEF TypeOK
<1>2. TypeOK'
  BY DEF TypeOK
<1>3. TableOK'
  BY DEF TableOK
<1>4. \A g \in Handlers : (ProgressOK(req[g]) /\ FreshOK(req[g]) /\ DeadOK(req[g]))'
  BY <1>1 DEF ProgressOK, FreshOK, DeadOK, Expired
<1>5. FreshDistinct'
  BY <1>1 DEF FreshDistinct
<1>6. RotationRevokesParent'
  BY DEF RotationRevokesParent
<1>. QED
  BY <1>2, <1>3, <1>4, <1>5, <1>6

(* What the two UPDATE statements do to the set of revoked rows.           *)
LEMMA RevokedByGrows ==
    ASSUME TypeOK, NEW S \in SUBSET rows, NEW out
    PROVE  revoked \subseteq RevokedBy(S, out) /\ RevokedBy(S, out) \subseteq rows
  BY DEF TypeOK, RevokedBy

LEMMA RefreshRevokeAllStep ==
    ASSUME IInv, NEW h \in Handlers, RefreshRevokeAll(h)
    PROVE  IInv'
<1>. PICK r : r = [req[h] EXCEPT !.at = "reply", !.answer = "reuse"]
  OBVIOUS
<1>1. r \in Requests /\ req' = [req EXCEPT ![h] = r]
  BY DEF RefreshRevokeAll, Reply, IInv, TypeOK, Requests
<1>2. revoked \subseteq revoked' /\ revoked' \subseteq rows
  BY RevokedByGrows DEF RefreshRevokeAll, SessionsOf, IInv
<1>3. UNCHANGED <<table, delivered, now, parent, excused>>
  BY DEF RefreshRevokeAll, history
<1>4. ProgressOK(r)' /\ FreshOK(r) /\ DeadOK(r)' /\ r.fresh = NoToken
  BY <1>2, <1>3, NothingInHand
  DEF RefreshRevokeAll, At, IInv, TypeOK, Requests, ProgressOK, FreshOK, DeadOK,
      Expired, table
<1>. QED
  BY <1>1, <1>2, <1>3, <1>4, RequestRevokes DEF IInv, TypeOK

LEMMA RefreshRevokeStep ==
    ASSUME IInv, NEW h \in Handlers, RefreshRevoke(h)
    PROVE  IInv'
<1>. PICK r : r = [req[h] EXCEPT !.at = "mint"]
  OBVIOUS
<1>0. /\ req[h].at = "revoke" /\ req[h].op = "refresh" /\ req[h].tok \in rows
      /\ req[h].tok \in Tokens
  BY DEF RefreshRevoke, At, IInv, ProgressOK, TypeOK
<1>1. r \in Requests /\ req' = [req EXCEPT ![h] = r]
  BY DEF RefreshRevoke, Goto, IInv, TypeOK, Requests
<1>2. revoked \subseteq revoked' /\ revoked' \subseteq rows
  BY <1>0, RevokedByGrows DEF RefreshRevoke, IInv
<1>3. excused \subseteq excused' /\ excused' \subseteq Tokens
  BY <1>0 DEF RefreshRevoke, IInv, TypeOK
<1>4. req[h].tok \in revoked' \cup excused'
  BY DEF RefreshRevoke, RevokedBy
<1>5. UNCHANGED <<table, delivered, now, parent>>
  BY DEF RefreshRevoke
<1>6. ProgressOK(r)' /\ FreshOK(r) /\ DeadOK(r)' /\ r.fresh = NoToken
  BY <1>0, <1>4, <1>5, NothingInHand
  DEF IInv, TypeOK, Requests, ProgressOK, FreshOK, DeadOK, table
<1>. QED
  BY <1>1, <1>2, <1>3, <1>5, <1>6, RequestRevokes

LEMMA LogoutRevokeStep ==
    ASSUME IInv, NEW h \in Handlers, LogoutRevoke(h)
    PROVE  IInv'
<1>. PICK r : r = [req[h] EXCEPT !.at = "reply", !.answer = "ok"]
  OBVIOUS
<1>0. req[h].at = "revoke" /\ req[h].op = "logout" /\ req[h].tok \in rows
  BY DEF LogoutRevoke, At, IInv, ProgressOK
<1>1. r \in Requests /\ req' = [req EXCEPT ![h] = r]
  BY DEF LogoutRevoke, Reply, IInv, TypeOK, Requests
<1>2. revoked \subseteq revoked' /\ revoked' \subseteq rows
  BY <1>0, RevokedByGrows DEF LogoutRevoke, IInv
<1>3. UNCHANGED <<table, delivered, now, parent, excused>>
  BY DEF LogoutRevoke, history
<1>4. ProgressOK(r)' /\ FreshOK(r) /\ DeadOK(r)' /\ r.fresh = NoToken
  BY <1>0, <1>3, NothingInHand
  DEF IInv, TypeOK, Requests, ProgressOK, FreshOK, DeadOK, table
<1>. QED
  BY <1>1, <1>2, <1>3, <1>4, RequestRevokes DEF IInv, TypeOK

(* The state after the new row has been stored: everything that was true   *)
(* of the other rows and requests still is.                                *)
LEMMA RowStored ==
    ASSUME IInv, NEW h \in Handlers, NEW r \in Requests, NEW t, NEW u,
           t = req[h].fresh, u = req[h].user, req[h].at = "insert",
           req' = [req EXCEPT ![h] = r],
           rows' = rows \cup {t},
           owner' = [owner EXCEPT ![t] = u],
           expiresAt' = [expiresAt EXCEPT ![t] = req[h].exp],
           parent' = [parent EXCEPT ![t] = req[h].tok],
           UNCHANGED <<revoked, delivered, now, excused>>,
           r.at = "reply", r.op = req[h].op, r.tok = req[h].tok,
           r.user = u, r.dead = req[h].dead,
           \/ r.answer = "ok" /\ r.fresh = t
           \/ r.answer = "refused" /\ r.fresh = NoToken
    PROVE  IInv'
<1>. USE DEF IInv
<1>1. \A g \in Handlers : req'[g] = IF g = h THEN r ELSE req[g]
  BY DEF TypeOK
<1>2. t \in Tokens \ rows /\ t # NoToken /\ t \notin delivered /\ ~ req[h].dead
  BY NoneAssumption DEF FreshOK, DeadOK, TableOK
<1>3. u \in Users /\ req[h].tok \in MaybeToken /\ req[h].exp \in Nat /\ u \in MaybeUser
  BY NoneAssumption DEF ProgressOK, TypeOK, Requests, TableOK, MaybeUser
<1>4. \A x \in Tokens \ {t} : /\ owner'[x] = owner[x] /\ parent'[x] = parent[x]
                             /\ expiresAt'[x] = expiresAt[x]
  BY DEF TypeOK
<1>5. owner'[t] = u /\ parent'[t] = req[h].tok
  BY <1>2 DEF TypeOK
<1>6. TypeOK'
  BY <1>2, <1>3 DEF TypeOK
<1>7. TableOK'
  BY <1>2, <1>3, <1>4, <1>5 DEF TableOK, TypeOK
<1>8. \A g \in Handlers \ {h} : req[g].fresh # t
  BY <1>2 DEF FreshDistinct
<1>9. \A g \in Handlers : (ProgressOK(req[g]) /\ FreshOK(req[g]) /\ DeadOK(req[g]))'
  <2>. TAKE g \in Handlers
  <2>0. rows \subseteq Tokens
    BY DEF TypeOK
  <2>1. CASE g = h
    <3>1. req'[g] = r
      BY <1>1, <2>1
    <3>2. ProgressOK(req[g])'
      BY <3>1, <1>3 DEF ProgressOK
    <3>3. FreshOK(req[g])'
      BY <3>1, <1>2, <1>5 DEF FreshOK
    <3>4. DeadOK(req[g])'
      BY <3>1, <1>2 DEF DeadOK
    <3>. QED
      BY <3>2, <3>3, <3>4
  <2>2. CASE g # h
    <3>1. req'[g] = req[g] /\ req[g].fresh # t
      BY <1>1, <1>8, <2>2
    <3>2. ProgressOK(req[g])'
      BY <3>1, <1>2, <1>4, <2>0 DEF ProgressOK
    <3>3. FreshOK(req[g])'
      BY <3>1, <1>2, <1>4, <2>0 DEF FreshOK
    <3>4. DeadOK(req[g])'
      BY <3>1, <1>2, <1>4, <2>0 DEF DeadOK, Expired
    <3>. QED
      BY <3>2, <3>3, <3>4
  <2>. QED
    BY <2>1, <2>2
<1>10. FreshDistinct'
  BY <1>1, <1>8 DEF FreshDistinct
<1>11. RotationRevokesParent'
  <2>. SUFFICES ASSUME NEW x \in rows', parent'[x] # NoToken
                PROVE  /\ parent'[x] \in rows'
                       /\ owner'[parent'[x]] = owner'[x]
                       /\ parent'[x] \in revoked' \cup excused'
    BY DEF RotationRevokesParent
  <2>0. rows \subseteq Tokens
    BY DEF TypeOK
  <2>1. CASE x = t
    <3>1. req[h].op = "refresh" /\ req[h].tok \in rows /\ req[h].tok # t
      BY <2>1, <1>2, <1>5 DEF ProgressOK
    <3>2. u = owner[req[h].tok] /\ req[h].tok \in revoked \cup excused
      BY <3>1 DEF ProgressOK
    <3>. QED
      BY <2>0, <2>1, <3>1, <3>2, <1>4, <1>5
  <2>2. CASE x # t
    <3>1. x \in rows /\ parent'[x] = parent[x] /\ owner'[x] = owner[x]
      BY <2>0, <2>2, <1>4
    <3>2. parent[x] \in rows /\ owner[parent[x]] = owner[x]
          /\ parent[x] \in revoked \cup excused
      BY <3>1 DEF RotationRevokesParent
    <3>. QED
      BY <2>0, <3>1, <3>2, <1>2, <1>4
  <2>. QED
    BY <2>1, <2>2
<1>. QED
  BY <1>6, <1>7, <1>9, <1>10, <1>11

LEMMA InsertStep ==
    ASSUME IInv, NEW h \in Handlers, Insert(h)
    PROVE  IInv'
<1>0. req[h].at = "insert" /\ req[h] \in Requests
  BY DEF Insert, At, IInv, TypeOK
<1>1. PICK out \in Exec(h) :
        /\ IF Applied(out)
           THEN LET t == req[h].fresh IN
                /\ rows' = rows \cup {t}
                /\ owner' = [owner EXCEPT ![t] = req[h].user]
                /\ expiresAt' = [expiresAt EXCEPT ![t] = req[h].exp]
                /\ parent' = [parent EXCEPT ![t] = req[h].tok]
           ELSE UNCHANGED <<table, parent>>
        /\ CreateAnswer(h, out)
  BY DEF Insert
<1>2. UNCHANGED <<revoked, delivered, now, excused>>
  BY DEF Insert
<1>3. CASE ~ Applied(out)
  <2>1. Refuse(h)
    BY <1>1, <1>3 DEF CreateAnswer, Applied
  <2>. QED
    BY <1>1, <1>2, <1>3, <2>1, RefuseStep DEF history
<1>4. CASE Applied(out) /\ out = "done"
  <2>. DEFINE r == [req[h] EXCEPT !.at = "reply", !.answer = "ok"]
  <2>1. req' = [req EXCEPT ![h] = r] /\ r \in Requests
    BY <1>0, <1>1, <1>4 DEF CreateAnswer, Reply, IInv, TypeOK, Requests
  <2>2. /\ r.at = "reply" /\ r.op = req[h].op /\ r.tok = req[h].tok
        /\ r.user = req[h].user /\ r.dead = req[h].dead
        /\ r.answer = "ok" /\ r.fresh = req[h].fresh
    BY <1>0 DEF Requests
  <2>3. /\ rows' = rows \cup {req[h].fresh}
        /\ owner' = [owner EXCEPT ![req[h].fresh] = req[h].user]
        /\ expiresAt' = [expiresAt EXCEPT ![req[h].fresh] = req[h].exp]
        /\ parent' = [parent EXCEPT ![req[h].fresh] = req[h].tok]
    BY <1>1, <1>4
  <2>. HIDE DEF r
  <2>. QED
    BY <1>0, <1>2, <2>1, <2>2, <2>3, RowStored
<1>5. CASE Applied(out) /\ out # "done"
  <2>. DEFINE r == [req[h] EXCEPT !.at = "reply", !.answer = "refused",
                                  !.fresh = NoToken]
  <2>1. req' = [req EXCEPT ![h] = r] /\ r \in Requests
    BY <1>0, <1>1, <1>5 DEF CreateAnswer, Refuse, IInv, TypeOK, Requests, MaybeToken
  <2>2. /\ r.at = "reply" /\ r.op = req[h].op /\ r.tok = req[h].tok
        /\ r.user = req[h].user /\ r.dead = req[h].dead
        /\ r.answer = "refused" /\ r.fresh = NoToken
    BY <1>0 DEF Requests
  <2>3. /\ rows' = rows \cup {req[h].fresh}
        /\ owner' = [owner EXCEPT ![req[h].fresh] = req[h].user]
        /\ expiresAt' = [expiresAt EXCEPT ![req[h].fresh] = req[h].exp]
        /\ parent' = [parent EXCEPT ![req[h].fresh] = req[h].tok]
    BY <1>1, <1>5
  <2>. HIDE DEF r
  <2>. QED
    BY <1>0, <1>2, <2>1, <2>2, <2>3, RowStored
<1>. QED
  BY <1>3, <1>4, <1>5

(* A delivered token leaves its request and can be in no other.            *)
LEMMA DeliverStep ==
    ASSUME IInv, NEW h \in Handlers, Deliver(h)
    PROVE  IInv'
<1>. USE DEF IInv
<1>1. /\ req' = [req EXCEPT ![h] = Idle]
      /\ delivered' = delivered \cup ({req[h].fresh} \ {NoToken})
      /\ UNCHANGED <<rows, owner, expiresAt, revoked, now, parent, excused>>
      /\ req[h].at = "reply"
  BY DEF Deliver, At, table, history
<1>2. \A g \in Handlers : req'[g] = IF g = h THEN Idle ELSE req[g]
  BY <1>1 DEF TypeOK
<1>3. delivered' \subseteq rows
  BY <1>1 DEF FreshOK, TableOK
<1>4. TypeOK'
  BY <1>1, <1>3, IdleOK DEF TypeOK
<1>5. TableOK'
  BY <1>1, <1>3 DEF TableOK
<1>6. \A g \in Handlers : (ProgressOK(req[g]) /\ FreshOK(req[g]) /\ DeadOK(req[g]))'
  <2>. TAKE g \in Handlers
  <2>1. CASE g = h
    <3>1. req'[g] = Idle
      BY <1>2, <2>1
    <3>. QED
      BY <3>1 DEF Idle, ProgressOK, FreshOK, DeadOK
  <2>2. CASE g # h
    <3>1. req'[g] = req[g]
      BY <1>2, <2>2
    <3>2. req[g].fresh # NoToken => req[g].fresh # req[h].fresh
      BY <2>2 DEF FreshDistinct
    <3>3. ProgressOK(req[g])'
      BY <3>1, <1>1 DEF ProgressOK
    <3>4. FreshOK(req[g])'
      BY <3>1, <3>2, <1>1 DEF FreshOK
    <3>5. DeadOK(req[g])'
      BY <3>1, <1>1 DEF DeadOK, Expired
    <3>. QED
      BY <3>3, <3>4, <3>5
  <2>. QED
    BY <2>1, <2>2
<1>7. FreshDistinct'
  BY <1>2 DEF FreshDistinct, Idle
<1>8. RotationRevokesParent'
  BY <1>1 DEF RotationRevokesParent
<1>. QED
  BY <1>4, <1>5, <1>6, <1>7, <1>8

LEMMA CrashStep ==
    ASSUME IInv, Crash
    PROVE  IInv'
<1>. USE DEF IInv
<1>1. /\ req' = [h \in Handlers |-> Idle]
      /\ UNCHANGED <<rows, owner, expiresAt, revoked, delivered, now, parent, excused>>
  BY DEF Crash, table, history
<1>2. TypeOK'
  BY <1>1, IdleOK DEF TypeOK
<1>3. TableOK'
  BY <1>1 DEF TableOK
<1>4. \A g \in Handlers : (ProgressOK(req[g]) /\ FreshOK(req[g]) /\ DeadOK(req[g]))'
  BY <1>1 DEF Idle, ProgressOK, FreshOK, DeadOK
<1>5. FreshDistinct'
  BY <1>1 DEF FreshDistinct, Idle
<1>6. RotationRevokesParent'
  BY <1>1 DEF RotationRevokesParent
<1>. QED
  BY <1>2, <1>3, <1>4, <1>5, <1>6

(* An expired token stays expired as the clock advances.                   *)
LEMMA TickStep ==
    ASSUME IInv, Tick
    PROVE  IInv'
<1>. USE DEF IInv
<1>1. /\ now' = now + 1
      /\ UNCHANGED <<rows, owner, expiresAt, revoked, req, delivered, parent, excused>>
  BY DEF Tick, table, history
<1>2. TypeOK'
  BY <1>1 DEF TypeOK
<1>3. TableOK'
  BY <1>1 DEF TableOK
<1>4. ASSUME NEW t \in Tokens, Expired(t)
      PROVE  Expired(t)'
  BY <1>1, <1>4 DEF TypeOK, Expired
<1>5. \A g \in Handlers : (ProgressOK(req[g]) /\ FreshOK(req[g]) /\ DeadOK(req[g]))'
  BY <1>1, <1>4 DEF TypeOK, ProgressOK, FreshOK, DeadOK
<1>6. FreshDistinct'
  BY <1>1 DEF FreshDistinct
<1>7. RotationRevokesParent'
  BY <1>1 DEF RotationRevokesParent
<1>. QED
  BY <1>2, <1>3, <1>5, <1>6, <1>7

-----------------------------------------------------------------------------
(* The invariant and what follows from it.                                 *)

LEMMA InitIInv == Init => IInv
<1>. SUFFICES ASSUME Init PROVE IInv
  OBVIOUS
<1>1. TypeOK
  BY IdleOK DEF Init, TypeOK, MaybeUser, MaybeToken
<1>2. TableOK /\ FreshDistinct /\ RotationRevokesParent
  BY DEF Init, TableOK, FreshDistinct, RotationRevokesParent, Idle
<1>3. \A h \in Handlers : ProgressOK(req[h]) /\ FreshOK(req[h]) /\ DeadOK(req[h])
  BY DEF Init, Idle, ProgressOK, FreshOK, DeadOK
<1>. QED
  BY <1>1, <1>2, <1>3 DEF IInv

LEMMA NextIInv == IInv /\ [Next]_vars => IInv'
<1>. SUFFICES ASSUME IInv, [Next]_vars PROVE IInv'
  OBVIOUS
<1>1. ASSUME NEW h \in Handlers, Arrive(h) PROVE IInv'
  BY <1>1, ArriveStep
<1>2. ASSUME NEW h \in Handlers, Serve(h) PROVE IInv'
  BY <1>2, LimitedStep, LoginStep, RefreshLookupStep, RefreshRevokeAllStep,
     RefreshUserStep, RefreshRevokeStep, LogoutLookupStep, LogoutRevokeStep,
     MintStep, InsertStep, DeliverStep, DropStep
  DEF Serve, Login, Refresh, Logout
<1>3. ASSUME NEW h \in Handlers, Cancel(h) PROVE IInv'
  BY <1>3, CancelStep
<1>4. CASE UNCHANGED vars
  BY <1>4 DEF vars, IInv, TypeOK, TableOK, ProgressOK, FreshOK, DeadOK, Expired,
              FreshDistinct, RotationRevokesParent
<1>. QED
  BY <1>1, <1>2, <1>3, <1>4, CrashStep, TickStep DEF Next

(* In every behaviour of the handlers each request, the table and the      *)
(* history stay consistent: the invariant the other theorems rest on.      *)
THEOREM InvariantHolds == Spec => []IInv
  BY InitIInv, NextIInv, PTL DEF Spec

(* The type invariant: columns, requests and clock stay in their ranges.   *)
THEOREM TypeCorrect == Spec => []TypeOK
<1>1. IInv => TypeOK
  BY DEF IInv
<1>. QED
  BY <1>1, InvariantHolds, PTL

(* Refresh never draws a token for one that was revoked or expired when    *)
(* the request arrived, however its steps interleave with others.          *)
THEOREM DeadTokens == Spec => []DeadTokenBuysNothing
<1>1. IInv => DeadTokenBuysNothing
  BY DEF IInv, DeadOK, DeadTokenBuysNothing
<1>. QED
  BY <1>1, InvariantHolds, PTL

(* Every session obtained by rotation has a parent of the same account     *)
(* that is revoked, unless the Revoke whose error is ignored failed.       *)
THEOREM RotationIsOneWay == Spec => []RotationRevokesParent
<1>1. IInv => RotationRevokesParent
  BY DEF IInv
<1>. QED
  BY <1>1, InvariantHolds, PTL

(* Every token in a response or in a client's hands is stored for its      *)
(* account and is in one place only.                                       *)
THEOREM AnswersStored == Spec => []AnswersAreStored
<1>1. IInv => AnswersAreStored
  BY DEF IInv, TableOK, FreshOK, FreshDistinct, AnswersAreStored
<1>. QED
  BY <1>1, InvariantHolds, PTL

-----------------------------------------------------------------------------
(* What a step does to the sessions table: nothing, store one row, or      *)
(* revoke the presented token or, on reuse, the sessions of its account.   *)

Quiet == UNCHANGED <<table, revoked, parent>>

Stores(h, t) ==
    /\ At(h, "insert") /\ req[h].fresh = t
    /\ rows' = rows \cup {t}
    /\ owner' = [owner EXCEPT ![t] = req[h].user]
    /\ expiresAt' = [expiresAt EXCEPT ![t] = req[h].exp]
    /\ parent' = [parent EXCEPT ![t] = req[h].tok]
    /\ UNCHANGED revoked

Revokes(h, S) ==
    /\ \/ At(h, "revoke") /\ S = {req[h].tok}
       \/ At(h, "revokeAll") /\ S = SessionsOf(req[h].user)
    /\ req'[h] # req[h]
    /\ revoked' = revoked \cup S
    /\ UNCHANGED <<table, parent>>

(* A statement that was not applied leaves the table alone.                *)
LEMMA ExecRevokes ==
    ASSUME NEW S, NEW h \in Handlers, NEW out \in Exec(h),
           revoked' = RevokedBy(S, out)
    PROVE  UNCHANGED revoked \/ revoked' = revoked \cup S
  BY DEF RevokedBy

LEMMA RevokeSteps ==
    ASSUME IInv, NEW h \in Handlers,
           RefreshRevokeAll(h) \/ RefreshRevoke(h) \/ LogoutRevoke(h)
    PROVE  Quiet \/ \E S : Revokes(h, S)
<1>1. CASE RefreshRevokeAll(h)
  <2>1. UNCHANGED revoked \/ revoked' = revoked \cup SessionsOf(req[h].user)
    BY <1>1, ExecRevokes DEF RefreshRevokeAll
  <2>2. req'[h] # req[h]
    BY <1>1 DEF RefreshRevokeAll, Reply, At, IInv, TypeOK, Requests
  <2>. QED
    BY <1>1, <2>1, <2>2 DEF RefreshRevokeAll, Quiet, Revokes, table, history
<1>2. CASE RefreshRevoke(h)
  <2>1. UNCHANGED revoked \/ revoked' = revoked \cup {req[h].tok}
    BY <1>2, ExecRevokes DEF RefreshRevoke
  <2>2. req'[h] # req[h]
    BY <1>2 DEF RefreshRevoke, Goto, At, IInv, TypeOK, Requests
  <2>. QED
    BY <1>2, <2>1, <2>2 DEF RefreshRevoke, Quiet, Revokes, table
<1>3. CASE LogoutRevoke(h)
  <2>1. UNCHANGED revoked \/ revoked' = revoked \cup {req[h].tok}
    BY <1>3, ExecRevokes DEF LogoutRevoke
  <2>2. req'[h] # req[h]
    BY <1>3 DEF LogoutRevoke, Reply, At, IInv, TypeOK, Requests
  <2>. QED
    BY <1>3, <2>1, <2>2 DEF LogoutRevoke, Quiet, Revokes, table, history
<1>. QED
  BY <1>1, <1>2, <1>3

LEMMA TableSteps ==
    ASSUME IInv, [Next]_vars
    PROVE  \/ Quiet
           \/ \E h \in Handlers, t \in Tokens \ rows : Stores(h, t)
           \/ \E h \in Handlers : \E S : Revokes(h, S)
<1>1. ASSUME NEW h \in Handlers, Arrive(h) PROVE Quiet
  BY <1>1 DEF Arrive, StartLogin, StartRefresh, StartLogout, Quiet, table, history
<1>2. ASSUME NEW h \in Handlers,
             \/ Limited(h) \/ LoginCheck(h) \/ RefreshLookup(h) \/ RefreshUser(h)
             \/ LogoutLookup(h) \/ Mint(h) \/ Deliver(h) \/ Drop(h) \/ Cancel(h)
      PROVE  Quiet
  BY <1>2 DEF Limited, LoginCheck, RefreshLookup, RefreshUser, LogoutLookup, Mint,
              Deliver, Drop, Cancel, Quiet, table, history
<1>3. ASSUME NEW h \in Handlers, Insert(h)
      PROVE  Quiet \/ \E t \in Tokens \ rows : Stores(h, t)
  <2>1. req[h].fresh \in Tokens \ rows
    BY <1>3 DEF Insert, At, IInv, FreshOK
  <2>. QED
    BY <1>3, <2>1 DEF Insert, Quiet, Stores, table
<1>4. ASSUME NEW h \in Handlers,
             RefreshRevokeAll(h) \/ RefreshRevoke(h) \/ LogoutRevoke(h)
      PROVE  Quiet \/ \E S : Revokes(h, S)
  BY <1>4, RevokeSteps
<1>5. CASE Crash \/ Tick \/ UNCHANGED vars
  BY <1>5 DEF Crash, Tick, vars, Quiet, table, history
<1>. QED
  BY <1>1, <1>2, <1>3, <1>4, <1>5 DEF Next, Serve, Login, Refresh, Logout

-----------------------------------------------------------------------------
(* Action properties of the handlers.                                      *)

(* No step of any handler un-revokes or removes a session, or changes its  *)
(* account, its expiry or the session it was rotated from.                 *)
THEOREM RevocationPermanent == Spec => RevocationIsForever
<1>. DEFINE Kept == /\ rows \subseteq rows' /\ revoked \subseteq revoked'
                    /\ \A t \in rows : /\ owner'[t] = owner[t]
                                       /\ expiresAt'[t] = expiresAt[t]
                                       /\ parent'[t] = parent[t]
<1>1. ASSUME IInv, [Next]_vars PROVE Kept
  <2>1. CASE Quiet
    BY <2>1 DEF Quiet, table
  <2>2. ASSUME NEW h \in Handlers, NEW t \in Tokens \ rows, Stores(h, t) PROVE Kept
    BY <1>1, <2>2 DEF Stores, IInv, TypeOK
  <2>3. ASSUME NEW h \in Handlers, NEW S, Revokes(h, S) PROVE Kept
    BY <2>3 DEF Revokes, table
  <2>. QED
    BY <1>1, <2>1, <2>2, <2>3, TableSteps
<1>. QED
  BY <1>1, InvariantHolds, PTL DEF Spec, RevocationIsForever

(* A request revokes another session than the one it presented only when   *)
(* it is a refresh with a token already revoked, of the same account.      *)
THEOREM OthersEndOnReuseOnly == Spec => OnlyReuseReachesOthers
<1>. DEFINE ForCause(t, h) ==
              /\ req'[h] # req[h]
              /\ \/ t = req[h].tok
                 \/ /\ req[h].op = "refresh" /\ req[h].tok \in revoked
                    /\ owner[req[h].tok] = owner[t]
<1>1. ASSUME IInv, [Next]_vars, NEW t \in revoked' \ revoked
      PROVE  \E h \in Handlers : ForCause(t, h)
  <2>1. PICK h \in Handlers : \E S : Revokes(h, S)
    BY <1>1, TableSteps DEF Quiet, Stores
  <2>2. PICK S : Revokes(h, S)
    BY <2>1
  <2>3. t \in S /\ req'[h] # req[h]
    BY <1>1, <2>2 DEF Revokes
  <2>4. CASE At(h, "revoke")
    BY <2>2, <2>3, <2>4 DEF Revokes, At, SessionsOf
  <2>5. CASE At(h, "revokeAll")
    <3>1. t \in SessionsOf(req[h].user)
      BY <2>2, <2>3, <2>5 DEF Revokes, At
    <3>2. req[h].op = "refresh" /\ req[h].tok \in revoked /\ req[h].user = owner[req[h].tok]
      BY <1>1, <2>5 DEF IInv, ProgressOK, At
    <3>. QED
      BY <2>3, <3>1, <3>2 DEF SessionsOf
  <2>. QED
    BY <2>2, <2>4, <2>5 DEF Revokes
<1>2. IInv /\ [Next]_vars => \A t \in revoked' \ revoked : \E h \in Handlers : ForCause(t, h)
  BY <1>1
<1>. QED
  BY <1>2, InvariantHolds, PTL DEF Spec, OnlyReuseReachesOthers

-----------------------------------------------------------------------------
(* Once a token is revoked, only RefreshLookup could start a new request   *)
(* acting on a live read of it, and that sends it to "revokeAll".          *)
LEMMA NoNewReader ==
    ASSUME IInv, [Next]_vars, NEW t \in revoked, NEW h \in Handlers,
           ~ ActsOnLiveRead(h, t)
    PROVE  ~ ActsOnLiveRead(h, t)'
<1>. DEFINE Old == req[h]
            New == req'[h]
<1>0. Old \in Requests
  BY DEF IInv, TypeOK
<1>1. CASE New = Old
  BY <1>1 DEF ActsOnLiveRead
<1>2. CASE Arrive(h)
  <2>1. New.at \in {"login", "lookup", "reply"}
    <3>1. CASE \E u \in Users : StartLogin(h, u)
      BY <3>1 DEF StartLogin, Idle, IInv, TypeOK
    <3>2. CASE \E s \in MaybeToken : StartRefresh(h, s)
      BY <3>2 DEF StartRefresh, Idle, IInv, TypeOK
    <3>3. CASE \E s \in MaybeToken : StartLogout(h, s)
      BY <3>3 DEF StartLogout, Idle, IInv, TypeOK
    <3>. QED
      BY <1>2, <3>1, <3>2, <3>3 DEF Arrive
  <2>. QED
    BY <2>1 DEF ActsOnLiveRead
<1>3. CASE \/ Limited(h) \/ RefreshRevokeAll(h) \/ Insert(h) \/ LogoutRevoke(h)
           \/ Deliver(h) \/ Drop(h) \/ Crash
  <2>1. New.at \in {"reply", "idle"}
    BY <1>0, <1>3 DEF Limited, RefreshRevokeAll, Insert, CreateAnswer, LogoutRevoke,
                      Deliver, Drop, Crash, Reply, Refuse, Idle, Requests, IInv, TypeOK
  <2>. QED
    BY <2>1 DEF ActsOnLiveRead
<1>4. CASE LoginCheck(h)
  <2>1. Old.op = "login"
    BY <1>4 DEF LoginCheck, At, IInv, ProgressOK
  <2>2. New.op = Old.op
    BY <1>0, <1>4 DEF LoginCheck, Goto, Refuse, Requests, IInv, TypeOK
  <2>. QED
    BY <2>1, <2>2 DEF ActsOnLiveRead
<1>5. CASE RefreshLookup(h)
  <2>1. New.tok = Old.tok /\ (Old.tok \in revoked => New.at \in {"revokeAll", "reply"})
    BY <1>0, <1>5 DEF RefreshLookup, Refuse, Requests, IInv, TypeOK
  <2>. QED
    BY <2>1 DEF ActsOnLiveRead
<1>6. CASE RefreshUser(h) \/ RefreshRevoke(h) \/ Mint(h) \/ Cancel(h)
  <2>1. /\ New.op = Old.op /\ New.tok = Old.tok
        /\ \/ Old.at \in {"user", "revoke", "mint"}
           \/ New.at = Old.at
    <3>1. CASE RefreshUser(h)
      BY <1>0, <3>1 DEF RefreshUser, At, Goto, Refuse, Requests, IInv, TypeOK
    <3>2. CASE RefreshRevoke(h)
      BY <1>0, <3>2 DEF RefreshRevoke, At, Goto, Requests, IInv, TypeOK
    <3>3. CASE Mint(h)
      <4>1. Old.at = "mint"
        BY <3>3 DEF Mint, At
      <4>2. CASE Refuse(h)
        BY <1>0, <4>1, <4>2 DEF Refuse, Requests, IInv, TypeOK
      <4>3. CASE \E s \in Tokens :
                   req' = [req EXCEPT ![h].at = "insert", ![h].fresh = s,
                                      ![h].exp = ExpiryFromNow]
        BY <1>0, <4>1, <4>3 DEF Requests, IInv, TypeOK
      <4>. QED
        BY <3>3, <4>2, <4>3 DEF Mint
    <3>4. CASE Cancel(h)
      BY <1>0, <3>4 DEF Cancel, Requests, IInv, TypeOK
    <3>. QED
      BY <1>6, <3>1, <3>2, <3>3, <3>4
  <2>. QED
    BY <2>1 DEF ActsOnLiveRead
<1>7. CASE LogoutLookup(h)
  <2>1. New.op = "logout"
    BY <1>0, <1>7 DEF LogoutLookup, Goto, Reply, Requests, IInv, TypeOK
  <2>. QED
    BY <2>1 DEF ActsOnLiveRead
<1>8. ASSUME NEW g \in Handlers, g # h, Arrive(g) \/ Serve(g) \/ Cancel(g)
      PROVE  New = Old
  <2>1. CASE Arrive(g)
    BY <1>8, <2>1 DEF Arrive, StartLogin, StartRefresh, StartLogout, IInv, TypeOK
  <2>2. CASE Serve(g)
    BY <1>8, <2>2 DEF Serve, Limited, Login, LoginCheck, Refresh, RefreshLookup,
                      RefreshRevokeAll, RefreshUser, RefreshRevoke, Logout,
                      LogoutLookup, LogoutRevoke, Mint, Insert, CreateAnswer,
                      Deliver, Drop, Goto, Reply, Refuse, IInv, TypeOK
  <2>3. CASE Cancel(g)
    BY <1>8, <2>3 DEF Cancel, IInv, TypeOK
  <2>. QED
    BY <1>8, <2>1, <2>2, <2>3
<1>9. CASE Tick \/ UNCHANGED vars
  BY <1>1, <1>9 DEF Tick, vars
<1>. QED
  BY <1>1, <1>2, <1>3, <1>4, <1>5, <1>6, <1>7, <1>8, <1>9
  DEF Next, Serve, Login, Refresh, Logout

(* A session is stored as the child of t only by a request that acts on a  *)
(* live read of t.                                                         *)
LEMMA ChildrenFixed ==
    ASSUME IInv, [Next]_vars, NEW t \in Tokens, Closed(t)
    PROVE  Children(t)' = Children(t)
<1>1. CASE Quiet
  BY <1>1 DEF Quiet, table, Children
<1>2. ASSUME NEW h \in Handlers, NEW c \in Tokens \ rows, Stores(h, c)
      PROVE  Children(t)' = Children(t)
  <2>1. req[h].tok # t
    BY <1>2, NoneAssumption
    DEF Stores, At, Closed, ActsOnLiveRead, IInv, ProgressOK
  <2>2. /\ rows' = rows \cup {c} /\ parent'[c] # t
        /\ \A s \in rows : parent'[s] = parent[s]
    BY <1>2, <2>1 DEF Stores, IInv, TypeOK
  <2>. QED
    BY <2>2 DEF Children
<1>3. ASSUME NEW h \in Handlers, NEW S, Revokes(h, S)
      PROVE  Children(t)' = Children(t)
  BY <1>3 DEF Revokes, table, Children
<1>. QED
  BY <1>1, <1>2, <1>3, TableSteps

(* Once a token is revoked and no request acts on an earlier read of it,   *)
(* it stays so, and no session is ever rotated from it again.              *)
THEOREM RetiredForGood == Spec => RetiredFamilyIsClosed
<1>1. ASSUME IInv, [Next]_vars, NEW t \in Tokens, Closed(t)
      PROVE  Closed(t)' /\ Children(t)' = Children(t)
  <2>1. t \in revoked'
    BY <1>1, TableSteps DEF Closed, Quiet, Stores, Revokes
  <2>2. ASSUME NEW h \in Handlers PROVE ~ ActsOnLiveRead(h, t)'
    BY <1>1, <2>2, NoNewReader DEF Closed
  <2>. QED
    BY <1>1, <2>1, <2>2, ChildrenFixed DEF Closed
<1>2. IInv /\ [Next]_vars =>
        \A t \in Tokens : Closed(t) => Closed(t)' /\ Children(t)' = Children(t)
  BY <1>1
<1>. QED
  BY <1>2, InvariantHolds, PTL DEF Spec, RetiredFamilyIsClosed

-----------------------------------------------------------------------------
(* The refinement.                                                         *)

LEMMA LifecycleInit == Init => Lifecycle!Init
  BY DEF Init, Lifecycle!Init

LEMMA LifecycleStep ==
    ASSUME IInv, [Next]_vars
    PROVE  [Lifecycle!Next]_(Lifecycle!vars)
<1>1. CASE Quiet
  BY <1>1 DEF Quiet, table, Lifecycle!vars
<1>2. ASSUME NEW h \in Handlers, NEW t \in Tokens \ rows, Stores(h, t)
      PROVE  Lifecycle!Next
  <2>1. /\ req[h].op \in {"login", "refresh"}
        /\ req[h].op = "login" => req[h].user \in Users /\ req[h].tok = NoToken
        /\ req[h].op = "refresh" =>
              req[h].tok \in rows /\ req[h].user = owner[req[h].tok]
    BY <1>2 DEF Stores, At, IInv, ProgressOK
  <2>2. owner[t] = NoUser /\ parent[t] = NoToken
    BY DEF IInv, TableOK
  <2>3. CASE req[h].op = "login"
    <3>1. parent' = parent
      BY <1>2, <2>1, <2>2, <2>3 DEF Stores, IInv, TypeOK
    <3>. QED
      BY <1>2, <2>1, <2>2, <2>3, <3>1
      DEF Stores, Lifecycle!Next, Lifecycle!IssueAtLogin, Lifecycle!Issued
  <2>4. CASE req[h].op = "refresh"
    <3>1. req[h].tok \in Tokens /\ owner[req[h].tok] # NoUser
      BY <2>1, <2>4, NoneAssumption DEF IInv, TypeOK, TableOK
    <3>2. Lifecycle!Exchange(t, req[h].tok)
      BY <1>2, <2>1, <2>2, <2>4, <3>1
      DEF Stores, Lifecycle!Exchange, Lifecycle!Issued
    <3>. QED
      BY <3>1, <3>2 DEF Lifecycle!Next
  <2>. QED
    BY <2>1, <2>3, <2>4
<1>3. ASSUME NEW h \in Handlers, NEW S, Revokes(h, S)
      PROVE  Lifecycle!Next
  <2>1. CASE At(h, "revoke")
    <3>1. req[h].tok \in Tokens /\ owner[req[h].tok] # NoUser
      BY <2>1, NoneAssumption DEF At, IInv, TypeOK, TableOK, ProgressOK
    <3>2. S = {req[h].tok}
      BY <1>3, <2>1 DEF Revokes, At
    <3>. QED
      BY <1>3, <3>1, <3>2
      DEF Revokes, table, Lifecycle!Next, Lifecycle!Retire, Lifecycle!Issued
  <2>2. CASE At(h, "revokeAll")
    <3>1. /\ req[h].tok \in rows \cap revoked
          /\ req[h].user = owner[req[h].tok]
      BY <2>2 DEF At, IInv, ProgressOK, TypeOK
    <3>2. req[h].user \in Users
      BY <3>1 DEF IInv, TypeOK, TableOK
    <3>3. Lifecycle!TokensOf(req[h].user) = SessionsOf(req[h].user)
      BY <3>2, NoneAssumption DEF Lifecycle!TokensOf, SessionsOf, IInv, TypeOK, TableOK
    <3>4. S = SessionsOf(req[h].user)
      BY <1>3, <2>2 DEF Revokes, At
    <3>5. req[h].tok \in Lifecycle!TokensOf(req[h].user)
      BY <3>1, <3>3 DEF SessionsOf
    <3>6. Lifecycle!RetireAll(req[h].user)
      BY <1>3, <3>1, <3>3, <3>4, <3>5 DEF Revokes, table, Lifecycle!RetireAll
    <3>. QED
      BY <3>2, <3>6 DEF Lifecycle!Next
  <2>. QED
    BY <1>3, <2>1, <2>2 DEF Revokes
<1>. QED
  BY <1>1, <1>2, <1>3, TableSteps

(* The concurrent handlers implement the session life cycle: every step    *)
(* issues, exchanges or retires as SessionLifecycle allows, or does        *)
(* nothing to the table.                                                   *)
THEOREM LifecycleImplemented == Spec => ImplementsLifecycle
  BY LifecycleInit, LifecycleStep, InvariantHolds, PTL
  DEF Spec, ImplementsLifecycle, Lifecycle!Spec

=============================================================================
