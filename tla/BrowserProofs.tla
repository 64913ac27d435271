---------------------------- MODULE BrowserProofs ----------------------------
(***************************************************************************)
(* Proofs about the browsers: their steps are steps of the session         *)
(* handlers, so that what is proved of these holds here, and the three     *)
(* promises to a signed-in device hold for any number of devices, tabs,    *)
(* accounts and concurrent requests.                                       *)
(***************************************************************************)
EXTENDS BrowserSessions, SessionProofs

-----------------------------------------------------------------------------
(* The inductive invariant: what the browsers and the requests under way   *)
(* know of each other.                                                     *)

BrowserTypeOK ==
    /\ jar \in [Devices -> MaybeToken]
    /\ tab \in [Tabs -> TabStates]
    /\ client \in [Handlers -> Tabs \cup {NoTab}]
    /\ burnt \in SUBSET Tokens

(* What a tab waits for, by the request it sent.                           *)
WaitingFor(op) ==
    CASE op = "refresh" -> "booting" [] op = "login" -> "signing" [] OTHER -> "leaving"

(* Whom a request works for, if a tab waits for it, and what it can bring. *)
ClientOK(h) ==
    LET r == req[h]
        d == DeviceOf[client[h]]
    IN  client[h] # NoTab =>
          /\ r.op # "none" /\ tab[client[h]] = WaitingFor(r.op)
          /\ \A g \in Handlers \ {h} : client[g] # client[h]
          /\ r.op # "logout" /\ r.user # NoUser => r.user = OwnerOf[d]
          /\ r.tok # NoToken =>
                owner[r.tok] = OwnerOf[d] /\ \A e \in Devices \ {d} : jar[e] # r.tok

(* What is known of any request, whoever waits for it.                     *)
RequestOK(r) ==
    /\ r.at = "idle" <=> r.op = "none"
    /\ r.op = "none" => r.tok = NoToken
    /\ r.tok \in delivered \cup {NoToken}
    /\ r.op = "logout" => r.fresh = NoToken
    /\ r.answer = "ok" /\ r.op # "logout" => r.fresh # NoToken

(* A cookie is a token the server sent, its owner's, on one device only.   *)
JarOK ==
    \A d \in Devices : jar[d] # NoToken =>
        /\ jar[d] \in delivered /\ owner[jar[d]] = OwnerOf[d]
        /\ \A e \in Devices \ {d} : jar[e] # jar[d]

(* A request that may have revoked the token it presented.                 *)
Spends(h, t) == req[h].tok = t /\ req[h].at \in {"mint", "insert", "reply"}
RevokedForCause ==
    /\ revoked \ delivered \subseteq burnt
    /\ \A d \in Devices : jar[d] \in revoked =>
          jar[d] \in burnt \/ \E h \in Handlers : Spends(h, jar[d])

(* A tab alone on its device that shows the app has the device's cookie.   *)
AppHasCookie ==
    \A t \in Tabs :
        /\ tab[t] = "in"
        /\ \A u \in Tabs \ {t} : DeviceOf[u] # DeviceOf[t]
        => jar[DeviceOf[t]] # NoToken

BrowserInv ==
    /\ BrowserTypeOK
    /\ \A h \in Handlers : ClientOK(h) /\ RequestOK(req[h])
    /\ JarOK
    /\ RevokedForCause
    /\ AppHasCookie
    /\ AlarmForCause

-----------------------------------------------------------------------------
(* The browsers use the handlers as these allow.                           *)

(* A browser presents nothing but what the server has sent.                *)
LEMMA BrowserStepIsNext ==
    ASSUME TypeOK, [BrowserNext]_allVars
    PROVE  [Next]_vars
<1>1. ASSUME NEW t \in Tabs, Open(t) \/ SignIn(t) \/ LogOut(t) \/ Close(t)
      PROVE  [Next]_vars
  <2>1. ASSUME NEW h \in Handlers, NEW c, StartRefresh(h, c) \/ StartLogout(h, c)
        PROVE  Next
    <3>1. c \in MaybeToken
      BY <2>1 DEF StartRefresh, StartLogout, TypeOK, MaybeToken
    <3>. QED
      BY <2>1, <3>1 DEF Next, Arrive
  <2>2. ASSUME NEW h \in Handlers, StartLogin(h, OwnerOf[DeviceOf[t]])
        PROVE  Next
    BY <2>2, BrowserAssumption DEF Next, Arrive
  <2>. QED
    BY <1>1, <2>1, <2>2 DEF Open, SignIn, LogOut, Close
<1>2. ASSUME NEW h \in Handlers, Work(h) \/ Answer(h) \/ Lose(h)
      PROVE  Next
  BY <1>2 DEF Work, Answer, Lose, Next, Serve
<1>3. CASE Outage \/ (Tick /\ UNCHANGED <<browser, burnt>>)
  BY <1>3 DEF Outage, Next
<1>4. CASE UNCHANGED allVars
  BY <1>4 DEF allVars
<1>. QED
  BY <1>1, <1>2, <1>3, <1>4 DEF BrowserNext

(* The composition of the browsers with the handlers is a behaviour of the *)
(* handlers: every theorem about them holds of it.                         *)
THEOREM BrowsersUseHandlers == BrowserSpec => Spec
<1>1. BrowserInit => Init
  BY DEF BrowserInit
<1>2. IInv /\ [BrowserNext]_allVars => IInv' /\ [Next]_vars
  BY BrowserStepIsNext, NextIInv DEF IInv
<1>. QED
  BY <1>1, <1>2, InitIInv, PTL DEF BrowserSpec, Spec

(* So the browsers, the lost answers and the closed tabs of a device do to *)
(* the session table only what the life cycle of a session allows          *)
(* (session.ts on top of login.go, token.go and logout.go).                *)
THEOREM BrowsersKeepLifecycle == BrowserSpec => ImplementsLifecycle
BY BrowsersUseHandlers, LifecycleImplemented, PTL

-----------------------------------------------------------------------------
(* What the work on a request leaves alone, and where it leads.            *)

(* The request keeps its operation and token; others are not touched.      *)
SameRequest(h) ==
    /\ \A g \in Handlers \ {h} : req'[g] = req[g]
    /\ req'[h].op = req[h].op /\ req'[h].tok = req[h].tok
    /\ delivered' = delivered

(* A step under way keeps to these bounds.                                 *)
Advances(r, s) ==
    /\ r.at # "idle" /\ s.at # "idle"
    /\ s.user # r.user => r.op = "refresh" /\ r.tok \in rows /\ s.user = owner[r.tok]
    /\ r.at \in {"mint", "insert", "reply"} => s.at \in {"mint", "insert", "reply"}
    /\ s.at = "revokeAll" => r.at = "revokeAll" \/ (r.at = "lookup" /\ r.tok \in revoked)
    /\ r.op = "logout" => s.fresh = NoToken
    /\ s.answer = "ok" /\ r.op # "logout" => s.fresh # NoToken

LEMMA LimitedWork ==
    ASSUME IInv, NEW h \in Handlers, Limited(h) \/ LoginCheck(h), RequestOK(req[h])
    PROVE  SameRequest(h) /\ Advances(req[h], req'[h])
<1>. USE DEF IInv, TypeOK, Requests
<1>1. \A g \in Handlers \ {h} : req'[g] = req[g]
  BY DEF Limited, LoginCheck, Refuse, Goto
<1>2. req[h].at \in {"login", "lookup"} /\ req[h].answer # "ok" /\ req[h].fresh = NoToken
      /\ req[h].op # "logout"
  BY NothingInHand DEF Limited, LoginCheck, At, ProgressOK
<1>3. CASE Refuse(h)
  BY <1>1, <1>2, <1>3 DEF Limited, LoginCheck, Refuse, SameRequest, Advances
<1>4. CASE Goto(h, "mint")
  BY <1>1, <1>2, <1>4 DEF Limited, LoginCheck, Goto, SameRequest, Advances
<1>. QED
  BY <1>3, <1>4 DEF Limited, LoginCheck

LEMMA RefreshLookupWork ==
    ASSUME IInv, NEW h \in Handlers, RefreshLookup(h), RequestOK(req[h])
    PROVE  SameRequest(h) /\ Advances(req[h], req'[h])
<1>. USE DEF IInv, TypeOK, Requests
<1>1. \A g \in Handlers \ {h} : req'[g] = req[g]
  BY DEF RefreshLookup, Refuse
<1>2. /\ req[h].at = "lookup" /\ req[h].answer # "ok" /\ req[h].fresh = NoToken
      /\ req[h].op = "refresh"
  BY NothingInHand DEF RefreshLookup, At
<1>3. CASE Refuse(h)
  BY <1>1, <1>2, <1>3 DEF RefreshLookup, Refuse, SameRequest, Advances
<1>4. CASE ~ Refuse(h)
  BY <1>1, <1>2, <1>4 DEF RefreshLookup, SameRequest, Advances
<1>. QED
  BY <1>3, <1>4

LEMMA RefreshWork ==
    ASSUME IInv, NEW h \in Handlers, RequestOK(req[h]),
           RefreshRevokeAll(h) \/ RefreshUser(h) \/ RefreshRevoke(h)
    PROVE  SameRequest(h) /\ Advances(req[h], req'[h])
<1>. USE DEF IInv, TypeOK, Requests
<1>1. /\ req[h].at \in {"revokeAll", "user", "revoke"} /\ req[h].op = "refresh"
      /\ req[h].answer # "ok" /\ req[h].fresh = NoToken
  BY NothingInHand DEF RefreshRevokeAll, RefreshUser, RefreshRevoke, At, ProgressOK
<1>2. CASE RefreshRevokeAll(h)
  BY <1>1, <1>2 DEF RefreshRevokeAll, Reply, SameRequest, Advances
<1>3. CASE RefreshUser(h)
  BY <1>1, <1>3 DEF RefreshUser, Goto, Refuse, SameRequest, Advances
<1>4. CASE RefreshRevoke(h)
  BY <1>1, <1>4 DEF RefreshRevoke, Goto, SameRequest, Advances
<1>. QED
  BY <1>2, <1>3, <1>4

LEMMA LogoutWork ==
    ASSUME IInv, NEW h \in Handlers, RequestOK(req[h]),
           LogoutLookup(h) \/ LogoutRevoke(h)
    PROVE  SameRequest(h) /\ Advances(req[h], req'[h])
<1>. USE DEF IInv, TypeOK, Requests
<1>1. req[h].at \in {"lookup", "revoke"} /\ req[h].op = "logout" /\ req[h].fresh = NoToken
  BY NothingInHand DEF LogoutLookup, LogoutRevoke, At
<1>2. CASE LogoutLookup(h)
  BY <1>1, <1>2 DEF LogoutLookup, Goto, Reply, SameRequest, Advances
<1>3. CASE LogoutRevoke(h)
  BY <1>1, <1>3 DEF LogoutRevoke, Reply, SameRequest, Advances
<1>. QED
  BY <1>2, <1>3

LEMMA MintInsertWork ==
    ASSUME IInv, NEW h \in Handlers, Mint(h) \/ Insert(h), RequestOK(req[h])
    PROVE  SameRequest(h) /\ Advances(req[h], req'[h])
<1>. USE DEF IInv, TypeOK, Requests
<1>1. req[h].at \in {"mint", "insert"} /\ req[h].op \in {"login", "refresh"}
      /\ req[h].answer # "ok"
  BY DEF Mint, Insert, At, ProgressOK, FreshOK
<1>2. CASE Mint(h)
  <2>1. CASE Refuse(h)
    BY <1>1, <1>2, <2>1 DEF Mint, Refuse, SameRequest, Advances
  <2>2. ASSUME NEW t \in Tokens,
               req' = [req EXCEPT ![h].at = "insert", ![h].fresh = t,
                                  ![h].exp = ExpiryFromNow]
        PROVE  SameRequest(h) /\ Advances(req[h], req'[h])
    BY <1>1, <1>2, <2>2 DEF Mint, SameRequest, Advances
  <2>. QED
    BY <1>2, <2>1, <2>2 DEF Mint
<1>3. CASE Insert(h)
  <2>1. req[h].fresh # NoToken /\ UNCHANGED delivered
    BY <1>3, NoneAssumption DEF Insert, At, FreshOK
  <2>2. Refuse(h) \/ Reply(h, "ok")
    BY <1>3 DEF Insert, CreateAnswer
  <2>3. CASE Refuse(h)
    BY <1>1, <2>1, <2>3 DEF Refuse, SameRequest, Advances
  <2>4. CASE Reply(h, "ok")
    BY <1>1, <2>1, <2>4 DEF Reply, SameRequest, Advances
  <2>. QED
    BY <2>2, <2>3, <2>4
<1>. QED
  BY <1>2, <1>3

LEMMA CancelWork ==
    ASSUME IInv, NEW h \in Handlers, Cancel(h), RequestOK(req[h])
    PROVE  SameRequest(h) /\ Advances(req[h], req'[h])
  BY DEF IInv, TypeOK, Requests, Cancel, At, RequestOK, SameRequest, Advances

LEMMA WorkAdvances ==
    ASSUME IInv, NEW h \in Handlers, Work(h), RequestOK(req[h])
    PROVE  SameRequest(h) /\ Advances(req[h], req'[h])
  BY LimitedWork, RefreshLookupWork, RefreshWork, LogoutWork, MintInsertWork, CancelWork
  DEF Work, Login, Refresh, Logout

(* What it does to the table: rows keep their account, and a revocation is *)
(* of the presented token, noted by the step reached, or a sweep, noted in *)
(* the history.                                                            *)
LEMMA WorkRevokes ==
    ASSUME IInv, NEW h \in Handlers, Work(h)
    PROVE  /\ rows \subseteq rows' /\ \A t \in rows : owner'[t] = owner[t]
           /\ burnt \subseteq burnt' /\ burnt' \subseteq burnt \cup rows
           /\ \/ revoked' = revoked
              \/ /\ revoked' = revoked \cup {req[h].tok}
                 /\ req[h].tok \in rows
                 /\ req'[h].at \in {"mint", "reply"}
              \/ revoked' \ revoked \subseteq burnt'
<1>. DEFINE S == SessionsOf(req[h].user)
<1>1. rows \subseteq rows' /\ \A t \in rows : owner'[t] = owner[t]
  <2>1. [Next]_vars
    BY DEF Work, Next, Serve
  <2>2. CASE Quiet
    BY <2>2 DEF Quiet, table
  <2>3. ASSUME NEW g \in Handlers, NEW t \in Tokens \ rows, Stores(g, t)
        PROVE  rows \subseteq rows' /\ \A s \in rows : owner'[s] = owner[s]
    BY <2>3 DEF Stores, IInv, TypeOK
  <2>4. ASSUME NEW g \in Handlers, NEW R, Revokes(g, R)
        PROVE  rows \subseteq rows' /\ \A s \in rows : owner'[s] = owner[s]
    BY <2>4 DEF Revokes, table
  <2>. QED
    BY <2>1, <2>2, <2>3, <2>4, TableSteps
<1>2. burnt \subseteq burnt' /\ burnt' \subseteq burnt \cup rows
  BY DEF Work
<1>3. CASE RefreshRevokeAll(h) \/ RefreshRevoke(h) \/ LogoutRevoke(h)
  <2>1. CASE Quiet
    BY <1>1, <1>2, <2>1 DEF Quiet
  <2>2. ASSUME NEW R, Revokes(h, R)
        PROVE  \/ revoked' = revoked
               \/ /\ revoked' = revoked \cup {req[h].tok}
                  /\ req[h].tok \in rows
                  /\ req'[h].at \in {"mint", "reply"}
               \/ revoked' \ revoked \subseteq burnt'
    <3>1. CASE At(h, "revoke")
      <4>1. revoked' = revoked \cup {req[h].tok}
        BY <2>2, <3>1 DEF Revokes, At
      <4>2. req[h].tok \in rows
        BY <3>1 DEF At, IInv, ProgressOK
      <4>3. req'[h].at \in {"mint", "reply"}
        BY <1>3, <3>1 DEF RefreshRevokeAll, RefreshRevoke, LogoutRevoke, At, Goto,
                          Reply, IInv, TypeOK, Requests
      <4>. QED
        BY <4>1, <4>2, <4>3
    <3>2. CASE At(h, "revokeAll") /\ revoked' # revoked
      <4>1. revoked' = revoked \cup S /\ burnt' = burnt \cup S
        BY <2>2, <3>2 DEF Revokes, At, Work, SessionsOf
      <4>. QED
        BY <4>1
    <3>. QED
      BY <2>2, <3>1, <3>2 DEF Revokes
  <2>. QED
    BY <1>1, <1>2, <1>3, <2>1, <2>2, RevokeSteps
<1>4. CASE ~ (RefreshRevokeAll(h) \/ RefreshRevoke(h) \/ LogoutRevoke(h))
  <2>1. revoked' = revoked
    BY <1>4 DEF Work, Limited, Login, LoginCheck, Refresh, RefreshLookup, RefreshUser,
                Logout, LogoutLookup, Mint, Insert, Cancel
  <2>. QED
    BY <1>1, <1>2, <2>1
<1>. QED
  BY <1>3, <1>4

-----------------------------------------------------------------------------
(* The invariant: the work on a request, and the clock.                    *)

LEMMA WorkStep ==
    ASSUME IInv, BrowserInv, NEW h \in Handlers, Work(h)
    PROVE  BrowserInv'
<1>. DEFINE r == req[h]
            s == req'[h]
<1>1. SameRequest(h) /\ Advances(r, s)
  BY WorkAdvances DEF BrowserInv
<1>2. UNCHANGED <<jar, tab, client>>
  BY DEF Work, browser
<1>3. /\ \A t \in rows : owner'[t] = owner[t]
      /\ burnt \subseteq burnt' /\ burnt' \subseteq burnt \cup rows
      /\ \/ revoked' = revoked
         \/ /\ revoked' = revoked \cup {r.tok} /\ r.tok \in rows
            /\ s.at \in {"mint", "reply"}
         \/ revoked' \ revoked \subseteq burnt'
  BY WorkRevokes
<1>4. delivered \subseteq rows /\ rows \subseteq Tokens /\ r.tok \in delivered \cup {NoToken}
  BY DEF IInv, TypeOK, TableOK, BrowserInv, RequestOK
<1>5. BrowserTypeOK'
  BY <1>2, <1>3, <1>4 DEF BrowserInv, BrowserTypeOK
<1>6. JarOK'
  BY <1>1, <1>2, <1>3, <1>4 DEF SameRequest, BrowserInv, JarOK
<1>7. ASSUME NEW g \in Handlers PROVE RequestOK(req[g])'
  <2>1. RequestOK(req[g])
    BY DEF BrowserInv
  <2>2. CASE g # h
    BY <1>1, <2>1, <2>2 DEF SameRequest, RequestOK
  <2>3. CASE g = h
    BY <1>1, <2>1, <2>3 DEF SameRequest, Advances, RequestOK
  <2>. QED
    BY <2>2, <2>3
<1>8. ASSUME NEW g \in Handlers PROVE ClientOK(g)'
  <2>1. ClientOK(g) /\ RequestOK(req[g])
    BY DEF BrowserInv
  <2>2. /\ req'[g].op = req[g].op /\ req'[g].tok = req[g].tok
        /\ req'[g].user = req[g].user
           \/ (req[g].tok \in rows /\ req'[g].user = owner[req[g].tok])
    BY <1>1 DEF SameRequest, Advances
  <2>3. req[g].tok # NoToken => owner'[req[g].tok] = owner[req[g].tok]
    BY <1>3, <1>4, <2>1 DEF RequestOK
  <2>4. req[g].tok \in rows => req[g].tok # NoToken
    BY <1>4, NoneAssumption
  <2>. QED
    BY <1>2, <2>1, <2>2, <2>3, <2>4 DEF ClientOK
<1>9. RevokedForCause'
  <2>1. revoked' \ delivered' \subseteq burnt'
    <3>1. revoked \ delivered \subseteq burnt /\ delivered' = delivered
      BY <1>1 DEF SameRequest, BrowserInv, RevokedForCause
    <3>2. r.tok \in rows => r.tok \in delivered
      BY <1>4, NoneAssumption
    <3>. QED
      BY <1>3, <3>1, <3>2
  <2>2. ASSUME NEW d \in Devices, jar[d] \in revoked', jar[d] \notin burnt'
        PROVE  \E g \in Handlers : Spends(g, jar[d])'
    <3>1. CASE jar[d] \in revoked
      <4>1. PICK g \in Handlers : Spends(g, jar[d])
        BY <1>3, <2>2, <3>1 DEF BrowserInv, RevokedForCause
      <4>2. Spends(g, jar[d])'
        BY <1>1, <1>2, <4>1 DEF SameRequest, Advances, Spends
      <4>. QED
        BY <4>2
    <3>2. CASE jar[d] \notin revoked
      <4>1. jar[d] = r.tok /\ s.at \in {"mint", "reply"}
        BY <1>3, <2>2, <3>2
      <4>2. Spends(h, jar[d])'
        BY <1>1, <1>2, <4>1 DEF SameRequest, Spends
      <4>. QED
        BY <4>2
    <3>. QED
      BY <3>1, <3>2
  <2>. QED
    BY <1>2, <2>1, <2>2 DEF RevokedForCause
<1>10. AppHasCookie'
  BY <1>2 DEF BrowserInv, AppHasCookie
<1>11. AlarmForCause'
  <2>. SUFFICES ASSUME NEW g \in Handlers, req'[g].at = "revokeAll",
                       req'[g].tok \notin burnt',
                       NEW d \in Devices, jar[d] = req'[g].tok
                PROVE  \E k \in Handlers \ {g} : req'[k].tok = req'[g].tok
    BY <1>2 DEF AlarmForCause, At
  <2>1. \A k \in Handlers : req'[k].tok = req[k].tok
    BY <1>1 DEF SameRequest
  <2>2. CASE req[g].at = "revokeAll"
    BY <1>3, <2>1, <2>2 DEF BrowserInv, AlarmForCause, At
  <2>3. CASE req[g].at # "revokeAll"
    <3>1. req[g].at = "lookup" /\ req[g].tok \in revoked
      BY <1>1, <2>3 DEF SameRequest, Advances
    <3>2. PICK k \in Handlers : Spends(k, jar[d])
      BY <1>3, <2>1, <3>1 DEF BrowserInv, RevokedForCause
    <3>3. k # g /\ req[k].tok = req[g].tok
      BY <2>1, <3>1, <3>2 DEF Spends
    <3>. QED
      BY <2>1, <3>3
  <2>. QED
    BY <2>2, <2>3
<1>. QED
  BY <1>5, <1>6, <1>7, <1>8, <1>9, <1>10, <1>11 DEF BrowserInv

LEMMA ClockStep ==
    ASSUME BrowserInv, Tick /\ UNCHANGED <<browser, burnt>>
    PROVE  BrowserInv'
  BY DEF Tick, table, history, browser, BrowserInv, BrowserTypeOK, ClientOK, RequestOK,
         JarOK, RevokedForCause, Spends, AppHasCookie, AlarmForCause, At

-----------------------------------------------------------------------------
(* A tab shows something else, and sends a request or does not.            *)

(* A tab that waits for nothing moves to a screen without the app.         *)
LEMMA TabMoves ==
    ASSUME BrowserInv, NEW t \in Tabs, ~ Waits(t),
           NEW state \in TabStates \ {"in"}, Show(t, state),
           UNCHANGED <<vars, jar, client, burnt>>
    PROVE  BrowserInv'
<1>. USE DEF vars
<1>1. \A u \in Tabs : tab'[u] = IF u = t THEN state ELSE tab[u]
  BY DEF Show, BrowserInv, BrowserTypeOK
<1>2. BrowserTypeOK'
  BY DEF Show, BrowserInv, BrowserTypeOK
<1>3. ASSUME NEW g \in Handlers PROVE ClientOK(g)'
  <2>1. ClientOK(g) /\ client[g] \in Tabs \cup {NoTab}
    BY DEF BrowserInv, BrowserTypeOK
  <2>2. client[g] # t
    BY <2>1, BrowserAssumption DEF ClientOK, WaitingFor, Waits
  <2>. QED
    BY <1>1, <2>1, <2>2 DEF ClientOK
<1>4. AppHasCookie'
  BY <1>1 DEF BrowserInv, AppHasCookie
<1>. QED
  BY <1>2, <1>3, <1>4 DEF BrowserInv, RequestOK, JarOK, RevokedForCause, Spends,
                          AlarmForCause, At

(* A tab sends a request: what its device holds, for its device's owner.   *)
LEMMA TabAsks ==
    ASSUME IInv, BrowserInv, NEW t \in Tabs, ~ Waits(t), NEW h \in Handlers, At(h, "idle"),
           NEW r, req' = [req EXCEPT ![h] = r],
           r.op \in {"login", "refresh", "logout"}, r.at \in {"login", "lookup", "reply"},
           r.user \in {NoUser, OwnerOf[DeviceOf[t]]},
           r.tok \in {NoToken, jar[DeviceOf[t]]},
           r.fresh = NoToken, r.answer = "ok" => r.op = "logout",
           Show(t, WaitingFor(r.op)), client' = [client EXCEPT ![h] = t],
           UNCHANGED <<table, revoked, delivered, jar, burnt>>
    PROVE  BrowserInv'
<1>. DEFINE d == DeviceOf[t]
<1>0. d \in Devices /\ t # NoTab
  BY BrowserAssumption
<1>1. \A u \in Tabs : tab'[u] = IF u = t THEN WaitingFor(r.op) ELSE tab[u]
  BY DEF Show, BrowserInv, BrowserTypeOK
<1>2. \A g \in Handlers : /\ req'[g] = IF g = h THEN r ELSE req[g]
                          /\ client'[g] = IF g = h THEN t ELSE client[g]
  BY DEF IInv, TypeOK, BrowserInv, BrowserTypeOK
<1>3. req[h].tok = NoToken /\ NoToken \notin revoked
  BY NoneAssumption DEF At, BrowserInv, RequestOK, IInv, TypeOK
<1>4. ASSUME NEW g \in Handlers PROVE client[g] # t
  <2>1. ClientOK(g)
    BY DEF BrowserInv
  <2>. QED
    BY <1>0, <2>1 DEF ClientOK, WaitingFor, Waits
<1>5. BrowserTypeOK'
  BY DEF Show, WaitingFor, TabStates, BrowserInv, BrowserTypeOK
<1>6. JarOK'
  BY DEF table, BrowserInv, JarOK
<1>7. ASSUME NEW g \in Handlers PROVE RequestOK(req[g])'
  <2>1. RequestOK(req[g]) /\ jar[d] \in delivered \cup {NoToken}
    BY <1>0 DEF BrowserInv, JarOK
  <2>. QED
    BY <1>2, <2>1 DEF RequestOK
<1>8. ASSUME NEW g \in Handlers PROVE ClientOK(g)'
  <2>1. CASE g # h
    <3>1. ClientOK(g) /\ client[g] \in Tabs \cup {NoTab}
      BY DEF BrowserInv, BrowserTypeOK
    <3>. QED
      BY <1>1, <1>2, <1>4, <2>1, <3>1 DEF ClientOK, table
  <2>2. CASE g = h
    <3>1. r.tok # NoToken => owner[r.tok] = OwnerOf[d] /\ \A e \in Devices \ {d} : jar[e] # r.tok
      BY <1>0 DEF BrowserInv, JarOK
    <3>. QED
      BY <1>1, <1>2, <1>4, <2>2, <3>1 DEF ClientOK, table
  <2>. QED
    BY <2>1, <2>2
<1>9. RevokedForCause'
  <2>1. ASSUME NEW e \in Devices, jar[e] \in revoked, NEW g \in Handlers, Spends(g, jar[e])
        PROVE  Spends(g, jar[e])'
    BY <1>2, <1>3, <2>1 DEF Spends
  <2>. QED
    BY <2>1 DEF BrowserInv, RevokedForCause
<1>10. AppHasCookie'
  BY <1>1 DEF WaitingFor, BrowserInv, AppHasCookie
<1>11. AlarmForCause'
  <2>. SUFFICES ASSUME NEW g \in Handlers, req'[g].at = "revokeAll",
                       req'[g].tok \notin burnt,
                       NEW e \in Devices, jar[e] = req'[g].tok
                PROVE  \E k \in Handlers \ {g} : req'[k].tok = req'[g].tok
    BY DEF AlarmForCause, At
  <2>1. g # h /\ req'[g] = req[g]
    BY <1>2
  <2>2. req[g].tok # NoToken
    BY <2>1, <1>3 DEF IInv, ProgressOK
  <2>3. PICK k \in Handlers \ {g} : req[k].tok = req[g].tok
    BY <2>1 DEF BrowserInv, AlarmForCause, At
  <2>4. k # h
    BY <1>3, <2>2, <2>3
  <2>. QED
    BY <1>2, <2>1, <2>3, <2>4
<1>. QED
  BY <1>5, <1>6, <1>7, <1>8, <1>9, <1>10, <1>11 DEF BrowserInv

LEMMA CookiePresented ==
    ASSUME NEW d \in Devices
    PROVE  Cookie(d) \in {NoToken, jar[d]}
  BY DEF Cookie

LEMMA OpenStep ==
    ASSUME IInv, BrowserInv, NEW t \in Tabs, Open(t)
    PROVE  BrowserInv'
<1>1. ~ Waits(t) /\ UNCHANGED <<jar, burnt>>
  BY DEF Open, Waits
<1>2. CASE Show(t, "out") /\ UNCHANGED <<vars, client>>
  BY <1>1, <1>2, TabMoves DEF TabStates
<1>3. ASSUME NEW h \in Handlers, StartRefresh(h, Cookie(DeviceOf[t])),
             client' = [client EXCEPT ![h] = t], Show(t, "booting")
      PROVE  BrowserInv'
  <2>. DEFINE c == Cookie(DeviceOf[t])
  <2>1. PICK r : /\ req' = [req EXCEPT ![h] = r]
                 /\ r = [Idle EXCEPT !.op = "refresh", !.tok = c,
                           !.at = IF c = NoToken THEN "reply" ELSE "lookup",
                           !.answer = IF c = NoToken THEN "refused" ELSE "none",
                           !.dead = c # NoToken /\ (c \in revoked \/ now >= expiresAt[c])]
    BY <1>3 DEF StartRefresh
  <2>2. /\ r.op = "refresh" /\ r.at \in {"lookup", "reply"} /\ r.user = NoUser
        /\ r.tok = c /\ r.fresh = NoToken /\ r.answer # "ok"
    BY <2>1 DEF Idle
  <2>3. c \in {NoToken, jar[DeviceOf[t]]}
    BY CookiePresented, BrowserAssumption
  <2>4. Show(t, WaitingFor(r.op))
    BY <1>3, <2>2 DEF WaitingFor
  <2>5. At(h, "idle") /\ UNCHANGED <<table, revoked, delivered>>
    BY <1>3 DEF StartRefresh
  <2>. HIDE DEF c
  <2>. QED
    BY <1>1, <1>3, <2>1, <2>2, <2>3, <2>4, <2>5, TabAsks
<1>. QED
  BY <1>2, <1>3 DEF Open

LEMMA SignInStep ==
    ASSUME IInv, BrowserInv, NEW t \in Tabs, SignIn(t)
    PROVE  BrowserInv'
<1>. DEFINE owns == OwnerOf[DeviceOf[t]]
<1>1. ~ Waits(t) /\ UNCHANGED <<jar, burnt>>
  BY DEF SignIn, Waits
<1>2. PICK h \in Handlers : StartLogin(h, owns) /\ client' = [client EXCEPT ![h] = t]
  BY DEF SignIn
<1>3. PICK r : /\ req' = [req EXCEPT ![h] = r]
               /\ r = [Idle EXCEPT !.op = "login", !.at = "login", !.user = owns]
  BY <1>2 DEF StartLogin
<1>4. /\ r.op = "login" /\ r.at = "login" /\ r.user = owns
      /\ r.tok = NoToken /\ r.fresh = NoToken /\ r.answer # "ok"
  BY <1>3 DEF Idle
<1>5. Show(t, WaitingFor(r.op))
  BY <1>4 DEF WaitingFor, SignIn
<1>6. At(h, "idle") /\ UNCHANGED <<table, revoked, delivered>>
  BY <1>2 DEF StartLogin
<1>. QED
  BY <1>1, <1>2, <1>3, <1>4, <1>5, <1>6, TabAsks

LEMMA LogOutStep ==
    ASSUME IInv, BrowserInv, NEW t \in Tabs, LogOut(t)
    PROVE  BrowserInv'
<1>1. ~ Waits(t) /\ UNCHANGED <<jar, burnt>>
  BY DEF LogOut, Waits
<1>2. CASE Show(t, "out") /\ UNCHANGED <<vars, client>>
  BY <1>1, <1>2, TabMoves DEF TabStates
<1>3. ASSUME NEW h \in Handlers, StartLogout(h, Cookie(DeviceOf[t])),
             client' = [client EXCEPT ![h] = t], Show(t, "leaving")
      PROVE  BrowserInv'
  <2>. DEFINE c == Cookie(DeviceOf[t])
  <2>1. PICK r : /\ req' = [req EXCEPT ![h] = r]
                 /\ r = [Idle EXCEPT !.op = "logout", !.tok = c,
                           !.at = IF c = NoToken THEN "reply" ELSE "lookup",
                           !.answer = IF c = NoToken THEN "ok" ELSE "none"]
    BY <1>3 DEF StartLogout
  <2>2. /\ r.op = "logout" /\ r.at \in {"lookup", "reply"} /\ r.user = NoUser
        /\ r.tok = c /\ r.fresh = NoToken
    BY <2>1 DEF Idle
  <2>3. c \in {NoToken, jar[DeviceOf[t]]}
    BY CookiePresented, BrowserAssumption
  <2>4. Show(t, WaitingFor(r.op))
    BY <1>3, <2>2 DEF WaitingFor
  <2>5. At(h, "idle") /\ UNCHANGED <<table, revoked, delivered>>
    BY <1>3 DEF StartLogout
  <2>. HIDE DEF c
  <2>. QED
    BY <1>1, <1>3, <2>1, <2>2, <2>3, <2>4, <2>5, TabAsks
<1>. QED
  BY <1>2, <1>3 DEF LogOut

LEMMA CloseStep ==
    ASSUME BrowserInv, NEW t \in Tabs, Close(t)
    PROVE  BrowserInv'
<1>. USE DEF vars
<1>1. \A u \in Tabs : tab'[u] = IF u = t THEN "closed" ELSE tab[u]
  BY DEF Close, Show, BrowserInv, BrowserTypeOK
<1>2. \A g \in Handlers : client'[g] = IF client[g] = t THEN NoTab ELSE client[g]
  BY DEF Close, Abandoned
<1>3. BrowserTypeOK'
  BY DEF Close, Show, Abandoned, TabStates, BrowserInv, BrowserTypeOK
<1>4. ASSUME NEW g \in Handlers PROVE ClientOK(g)'
  <2>1. ClientOK(g) /\ client[g] \in Tabs \cup {NoTab}
    BY DEF BrowserInv, BrowserTypeOK
  <2>. QED
    BY <1>1, <1>2, <2>1 DEF Close, ClientOK
<1>5. AppHasCookie'
  BY <1>1 DEF Close, BrowserInv, AppHasCookie
<1>. QED
  BY <1>3, <1>4, <1>5 DEF Close, BrowserInv, RequestOK, JarOK, RevokedForCause, Spends,
                          AlarmForCause, At

-----------------------------------------------------------------------------
(* A request ends.                                                         *)

(* When a request that was not answered with "ok" ends, its token counts   *)
(* as burnt, and the cookies stay as they were.                            *)
LEMMA EndsForNothing ==
    ASSUME IInv, BrowserInv, NEW h \in Handlers, At(h, "reply"),
           req' = [req EXCEPT ![h] = Idle],
           burnt' = burnt \cup Presented(h),
           client' = [client EXCEPT ![h] = NoTab],
           IF client[h] = NoTab THEN UNCHANGED tab
           ELSE Show(client[h], "out"),
           UNCHANGED <<table, revoked, jar>>,
           delivered \subseteq delivered', delivered' \subseteq rows
    PROVE  BrowserInv'
<1>. USE DEF table
<1>1. \A g \in Handlers : /\ req'[g] = IF g = h THEN Idle ELSE req[g]
                          /\ client'[g] = IF g = h THEN NoTab ELSE client[g]
  BY DEF IInv, TypeOK, BrowserInv, BrowserTypeOK
<1>2. \A u \in Tabs : tab'[u] = IF u = client[h] THEN "out" ELSE tab[u]
  BY BrowserAssumption DEF Show, BrowserInv, BrowserTypeOK
<1>3. req[h].tok \in Tokens \cup {NoToken} /\ NoToken \notin revoked
  BY NoneAssumption DEF IInv, TypeOK, Requests, MaybeToken
<1>4. BrowserTypeOK'
  <2>1. tab' \in [Tabs -> TabStates]
    BY DEF Show, TabStates, BrowserInv, BrowserTypeOK
  <2>2. burnt' \in SUBSET Tokens
    BY <1>3 DEF Presented, BrowserInv, BrowserTypeOK
  <2>. QED
    BY <2>1, <2>2 DEF BrowserInv, BrowserTypeOK
<1>5. JarOK'
  BY DEF BrowserInv, JarOK
<1>6. ASSUME NEW g \in Handlers PROVE RequestOK(req[g])'
  BY <1>1 DEF Idle, BrowserInv, RequestOK
<1>7. ASSUME NEW g \in Handlers PROVE ClientOK(g)'
  <2>1. ClientOK(g) /\ ClientOK(h) /\ client[g] \in Tabs \cup {NoTab}
    BY DEF BrowserInv, BrowserTypeOK
  <2>. QED
    BY <1>1, <1>2, <2>1 DEF ClientOK
<1>8. RevokedForCause'
  <2>1. ASSUME NEW d \in Devices, jar[d] \in revoked, jar[d] \notin burnt'
        PROVE  \E g \in Handlers : Spends(g, jar[d])'
    <3>1. PICK g \in Handlers : Spends(g, jar[d])
      BY <2>1 DEF BrowserInv, RevokedForCause
    <3>2. g # h
      BY <1>3, <2>1, <3>1 DEF Spends, Presented
    <3>. QED
      BY <1>1, <3>1, <3>2 DEF Spends
  <2>. QED
    BY <2>1 DEF BrowserInv, RevokedForCause
<1>9. AppHasCookie'
  BY <1>2 DEF BrowserInv, AppHasCookie
<1>10. AlarmForCause'
  <2>. SUFFICES ASSUME NEW g \in Handlers, req'[g].at = "revokeAll",
                       req'[g].tok \notin burnt',
                       NEW e \in Devices, jar[e] = req'[g].tok
                PROVE  \E k \in Handlers \ {g} : req'[k].tok = req'[g].tok
    BY DEF AlarmForCause, At
  <2>1. g # h /\ req'[g] = req[g]
    BY <1>1 DEF Idle
  <2>2. req[g].tok # NoToken
    BY <2>1, <1>3 DEF IInv, ProgressOK
  <2>3. PICK k \in Handlers \ {g} : req[k].tok = req[g].tok
    BY <2>1 DEF BrowserInv, AlarmForCause, At
  <2>4. k # h
    BY <2>1, <2>2, <2>3 DEF Presented
  <2>. QED
    BY <1>1, <2>1, <2>3, <2>4
<1>. QED
  BY <1>4, <1>5, <1>6, <1>7, <1>8, <1>9, <1>10 DEF BrowserInv

(* A good answer reaches the tab that waits for it: a token nobody has     *)
(* seen yet takes the place of the cookie, or the cookie goes.             *)
LEMMA AnsweredOk ==
    ASSUME IInv, BrowserInv, NEW h \in Handlers, Answer(h), req[h].answer = "ok"
    PROVE  BrowserInv'
<1>. DEFINE t == client[h]
            d == DeviceOf[t]
            f == req[h].fresh
<1>1. /\ t \in Tabs /\ d \in Devices /\ At(h, "reply")
      /\ UNCHANGED <<table, revoked, burnt>>
      /\ delivered' = delivered \cup ({f} \ {NoToken})
  BY BrowserAssumption DEF Answer, Deliver, BrowserInv, BrowserTypeOK
<1>2. \A g \in Handlers : /\ req'[g] = IF g = h THEN Idle ELSE req[g]
                          /\ client'[g] = IF g = h THEN NoTab ELSE client[g]
  BY DEF Answer, Deliver, IInv, TypeOK, BrowserInv, BrowserTypeOK
<1>3. \A u \in Tabs : tab'[u] = IF u = t THEN TabAfter(t, TRUE) ELSE tab[u]
  BY <1>1 DEF Answer, Show, BrowserInv, BrowserTypeOK
<1>4. \A e \in Devices : jar'[e] = IF e = d THEN f ELSE jar[e]
  BY <1>1 DEF Answer, CookieAfter, BrowserInv, BrowserTypeOK
<1>5. ClientOK(h) /\ RequestOK(req[h])
  BY DEF BrowserInv
<1>6. f # NoToken => /\ f \in rows \ delivered /\ owner[f] = OwnerOf[d]
  <2>1. ASSUME f # NoToken PROVE f \in rows \ delivered /\ owner[f] = req[h].user
    BY <2>1 DEF IInv, FreshOK
  <2>2. ASSUME f # NoToken PROVE req[h].user # NoUser /\ req[h].op # "logout"
    BY <1>5, <2>1, <2>2, NoneAssumption DEF IInv, TypeOK, TableOK, RequestOK
  <2>. QED
    BY <1>1, <1>5, <2>1, <2>2, BrowserAssumption DEF ClientOK
<1>7. f \in MaybeToken /\ delivered \subseteq rows /\ rows \subseteq Tokens
  BY DEF IInv, TypeOK, TableOK, Requests
<1>8. \A e \in Devices : jar[e] \in delivered \cup {NoToken}
  BY DEF BrowserInv, JarOK
<1>9. NoToken \notin rows /\ NoToken \notin revoked
  BY NoneAssumption DEF IInv, TypeOK
<1>10. BrowserTypeOK'
  <2>1. jar' \in [Devices -> MaybeToken]
    BY <1>7 DEF Answer, CookieAfter, BrowserInv, BrowserTypeOK
  <2>2. tab' \in [Tabs -> TabStates]
    BY DEF Answer, Show, TabAfter, TabStates, BrowserInv, BrowserTypeOK
  <2>. QED
    BY <1>1, <2>1, <2>2 DEF Answer, BrowserInv, BrowserTypeOK
<1>11. JarOK'
  <2>. SUFFICES ASSUME NEW e \in Devices, jar'[e] # NoToken
                PROVE  /\ jar'[e] \in delivered' /\ owner[jar'[e]] = OwnerOf[e]
                       /\ \A k \in Devices \ {e} : jar'[k] # jar'[e]
    BY <1>1 DEF JarOK, table
  <2>1. CASE e = d
    BY <1>1, <1>4, <1>6, <1>8, <2>1
  <2>2. CASE e # d
    <3>1. jar'[e] \in delivered
      BY <1>4, <1>8, <2>2
    <3>2. d \in Devices \ {e} => jar'[d] # jar'[e]
      BY <1>1, <1>4, <1>6, <1>9, <1>7, <3>1
    <3>. QED
      BY <1>1, <1>4, <2>2, <3>1, <3>2 DEF BrowserInv, JarOK
  <2>. QED
    BY <2>1, <2>2
<1>12. ASSUME NEW g \in Handlers PROVE RequestOK(req[g])'
  BY <1>1, <1>2 DEF Idle, BrowserInv, RequestOK
<1>13. ASSUME NEW g \in Handlers PROVE ClientOK(g)'
  <2>. SUFFICES ASSUME g # h, client[g] # NoTab PROVE ClientOK(g)'
    BY <1>2 DEF ClientOK
  <2>1. ClientOK(g) /\ RequestOK(req[g]) /\ client[g] \in Tabs
    BY DEF BrowserInv, BrowserTypeOK
  <2>2. client[g] # t
    BY <1>5, <2>1, <1>1, BrowserAssumption DEF ClientOK
  <2>3. req[g].tok # NoToken => f # req[g].tok
    BY <1>6, <1>7, <2>1 DEF RequestOK
  <2>4. req[g].tok # NoToken => \A e \in Devices \ {DeviceOf[client[g]]} : jar'[e] # req[g].tok
    BY <1>4, <2>1, <2>3 DEF ClientOK
  <2>. QED
    BY <1>1, <1>2, <1>3, <2>1, <2>2, <2>4 DEF ClientOK, table
<1>14. RevokedForCause'
  <2>1. revoked' \ delivered' \subseteq burnt'
    BY <1>1 DEF BrowserInv, RevokedForCause
  <2>2. ASSUME NEW e \in Devices, jar'[e] \in revoked, jar'[e] \notin burnt
        PROVE  \E g \in Handlers : Spends(g, jar[e])' /\ jar'[e] = jar[e]
    <3>1. e # d
      BY <1>4, <1>6, <1>9, <2>2 DEF BrowserInv, RevokedForCause
    <3>2. jar'[e] = jar[e]
      BY <1>4, <3>1
    <3>3. PICK g \in Handlers : Spends(g, jar[e])
      BY <2>2, <3>2 DEF BrowserInv, RevokedForCause
    <3>4. g # h
      BY <1>1, <1>5, <1>9, <2>2, <3>1, <3>2, <3>3, BrowserAssumption DEF Spends, ClientOK
    <3>. QED
      BY <1>2, <3>2, <3>3, <3>4 DEF Spends
  <2>3. ASSUME NEW e \in Devices, jar'[e] \in revoked', jar'[e] \notin burnt'
        PROVE  \E g \in Handlers : Spends(g, jar[e])'
    BY <1>1, <2>2, <2>3
  <2>. QED
    BY <2>1, <2>3 DEF RevokedForCause
<1>15. AppHasCookie'
  <2>. SUFFICES ASSUME NEW u \in Tabs, tab'[u] = "in",
                       \A k \in Tabs \ {u} : DeviceOf[k] # DeviceOf[u]
                PROVE  jar'[DeviceOf[u]] # NoToken
    BY DEF AppHasCookie
  <2>1. CASE u = t
    <3>1. tab[t] \in {"booting", "signing"}
      BY <1>1, <1>3, <2>1 DEF TabAfter
    <3>2. req[h].op # "logout"
      BY <1>1, <1>5, <3>1, BrowserAssumption DEF ClientOK, WaitingFor
    <3>. QED
      BY <1>1, <1>4, <1>5, <2>1, <3>2 DEF RequestOK
  <2>2. CASE u # t
    <3>1. DeviceOf[u] # d /\ DeviceOf[u] \in Devices
      BY <1>1, <2>2, BrowserAssumption
    <3>. QED
      BY <1>3, <1>4, <2>2, <3>1 DEF BrowserInv, AppHasCookie
  <2>. QED
    BY <2>1, <2>2
<1>16. AlarmForCause'
  <2>. SUFFICES ASSUME NEW g \in Handlers, req'[g].at = "revokeAll",
                       req'[g].tok \notin burnt,
                       NEW e \in Devices, jar'[e] = req'[g].tok
                PROVE  \E k \in Handlers \ {g} : req'[k].tok = req'[g].tok
    BY <1>1 DEF AlarmForCause, At
  <2>1. g # h /\ req'[g] = req[g]
    BY <1>2 DEF Idle
  <2>2. req[g].tok \in revoked /\ req[g].tok \in delivered
    BY <1>9, <2>1 DEF IInv, ProgressOK, BrowserInv, RequestOK
  <2>3. e # d
    BY <1>4, <1>6, <1>9, <2>1, <2>2
  <2>4. jar[e] = req[g].tok
    BY <1>4, <2>1, <2>3
  <2>5. PICK k \in Handlers \ {g} : req[k].tok = req[g].tok
    BY <2>1, <2>4 DEF BrowserInv, AlarmForCause, At
  <2>6. k # h
    BY <1>1, <1>5, <1>9, <2>2, <2>3, <2>4, <2>5, BrowserAssumption DEF ClientOK
  <2>. QED
    BY <1>2, <2>1, <2>5, <2>6
<1>. QED
  BY <1>10, <1>11, <1>12, <1>13, <1>14, <1>15, <1>16 DEF BrowserInv

LEMMA AnswerStep ==
    ASSUME IInv, BrowserInv, NEW h \in Handlers, Answer(h)
    PROVE  BrowserInv'
<1>1. CASE req[h].answer = "ok"
  BY <1>1, AnsweredOk
<1>2. CASE req[h].answer # "ok"
  <2>1. client[h] \in Tabs /\ client[h] # NoTab /\ DeviceOf[client[h]] \in Devices
    BY BrowserAssumption DEF Answer, BrowserInv, BrowserTypeOK
  <2>2. jar' = jar
    BY <1>2, <2>1 DEF Answer, CookieAfter, BrowserInv, BrowserTypeOK
  <2>3. Show(client[h], "out")
    BY <1>2 DEF Answer, TabAfter
  <2>4. req[h].fresh = NoToken
    BY <1>2 DEF Answer, Deliver, At, IInv, FreshOK
  <2>5. delivered' = delivered /\ delivered \subseteq rows
    BY <2>4 DEF Answer, Deliver, IInv, TableOK
  <2>6. /\ At(h, "reply") /\ req' = [req EXCEPT ![h] = Idle]
        /\ client' = [client EXCEPT ![h] = NoTab]
        /\ burnt' = burnt \cup Presented(h) /\ UNCHANGED <<table, revoked>>
    BY <1>2 DEF Answer, Deliver
  <2>. QED
    BY <2>1, <2>2, <2>3, <2>5, <2>6, EndsForNothing
<1>. QED
  BY <1>1, <1>2

LEMMA LoseStep ==
    ASSUME IInv, BrowserInv, NEW h \in Handlers, Lose(h)
    PROVE  BrowserInv'
<1>1. /\ At(h, "reply") /\ req' = [req EXCEPT ![h] = Idle]
      /\ burnt' = burnt \cup Presented(h)
      /\ UNCHANGED <<table, revoked, delivered, jar>>
  BY DEF Lose, Drop
<1>2. /\ client' = [client EXCEPT ![h] = NoTab]
      /\ IF client[h] = NoTab THEN UNCHANGED tab ELSE Show(client[h], "out")
  BY DEF Lose, BrowserInv, BrowserTypeOK
<1>3. delivered \subseteq rows
  BY DEF IInv, TableOK
<1>. QED
  BY <1>1, <1>2, <1>3, EndsForNothing

(* The process dies: every token under way counts as burnt.                *)
LEMMA OutageStep ==
    ASSUME IInv, BrowserInv, Outage
    PROVE  BrowserInv'
<1>1. /\ req' = [h \in Handlers |-> Idle] /\ client' = [h \in Handlers |-> NoTab]
      /\ tab' = [t \in Tabs |-> IF Waits(t) THEN "out" ELSE tab[t]]
      /\ burnt' = burnt \cup UNION {Presented(h) : h \in Handlers}
      /\ UNCHANGED <<rows, owner, revoked, delivered, jar>>
  BY DEF Outage, Crash, table
<1>2. \A h \in Handlers : Presented(h) \subseteq Tokens
  BY DEF Presented, IInv, TypeOK, Requests, MaybeToken
<1>3. BrowserTypeOK'
  <2>1. burnt' \in SUBSET Tokens
    BY <1>1, <1>2 DEF BrowserInv, BrowserTypeOK
  <2>. QED
    BY <1>1, <2>1 DEF TabStates, BrowserInv, BrowserTypeOK
<1>4. \A h \in Handlers : ClientOK(h)' /\ RequestOK(req[h])'
  BY <1>1 DEF Idle, ClientOK, RequestOK
<1>5. JarOK'
  BY <1>1 DEF BrowserInv, JarOK
<1>6. RevokedForCause'
  <2>1. ASSUME NEW d \in Devices, jar[d] \in revoked, NEW g \in Handlers, Spends(g, jar[d])
        PROVE  jar[d] \in burnt'
    <3>1. jar[d] \in Presented(g)
      BY <2>1, NoneAssumption DEF Presented, Spends, IInv, TypeOK
    <3>. QED
      BY <1>1, <3>1
  <2>. QED
    BY <1>1, <2>1 DEF BrowserInv, RevokedForCause
<1>7. AppHasCookie'
  BY <1>1 DEF BrowserInv, AppHasCookie
<1>8. AlarmForCause'
  BY <1>1 DEF AlarmForCause, At, Idle
<1>. QED
  BY <1>3, <1>4, <1>5, <1>6, <1>7, <1>8 DEF BrowserInv

-----------------------------------------------------------------------------
(* The theorems.                                                           *)

LEMMA BrowserInitInv == BrowserInit => BrowserInv
<1>. SUFFICES ASSUME BrowserInit PROVE BrowserInv
  OBVIOUS
<1>1. BrowserTypeOK
  BY DEF BrowserInit, BrowserTypeOK, MaybeToken, TabStates
<1>2. \A h \in Handlers : ClientOK(h) /\ RequestOK(req[h])
  BY DEF BrowserInit, Init, Idle, ClientOK, RequestOK
<1>3. JarOK /\ RevokedForCause /\ AppHasCookie /\ AlarmForCause
  BY BrowserAssumption DEF BrowserInit, Init, Idle, JarOK, RevokedForCause,
                           AppHasCookie, AlarmForCause, At
<1>. QED
  BY <1>1, <1>2, <1>3 DEF BrowserInv

LEMMA BrowserNextInv ==
    ASSUME IInv, BrowserInv, [BrowserNext]_allVars
    PROVE  BrowserInv'
<1>1. ASSUME NEW t \in Tabs, Open(t) \/ SignIn(t) \/ LogOut(t) \/ Close(t)
      PROVE  BrowserInv'
  BY <1>1, OpenStep, SignInStep, LogOutStep, CloseStep
<1>2. ASSUME NEW h \in Handlers, Work(h) \/ Answer(h) \/ Lose(h)
      PROVE  BrowserInv'
  BY <1>2, WorkStep, AnswerStep, LoseStep
<1>3. CASE Outage
  BY <1>3, OutageStep
<1>4. CASE Tick /\ UNCHANGED <<browser, burnt>>
  BY <1>4, ClockStep
<1>5. CASE UNCHANGED allVars
  BY <1>5 DEF allVars, vars, browser, BrowserInv, BrowserTypeOK, ClientOK, RequestOK, JarOK,
              RevokedForCause, Spends, AppHasCookie, AlarmForCause, At
<1>. QED
  BY <1>1, <1>2, <1>3, <1>4, <1>5 DEF BrowserNext

(* What the browsers and the requests under way know of each other stays   *)
(* true, whatever is lost, closed, raced or crashed.                       *)
THEOREM BrowsersConsistent == BrowserSpec => [](IInv /\ BrowserInv)
<1>1. BrowserInit => IInv /\ BrowserInv
  BY BrowserInitInv, InitIInv DEF BrowserInit
<1>2. IInv /\ BrowserInv /\ [BrowserNext]_allVars => IInv' /\ BrowserInv'
  BY BrowserNextInv, BrowserStepIsNext, NextIInv DEF IInv
<1>. QED
  BY <1>1, <1>2, PTL DEF BrowserSpec

(* A device's session is revoked only while a request that presented its   *)
(* cookie is under way, after such a request was lost or refused, or by a  *)
(* sweep after reuse.                                                      *)
THEOREM SignedInUntilCause == BrowserSpec => []CookieDiesForCause
<1>1. BrowserInv => CookieDiesForCause
  BY DEF BrowserInv, RevokedForCause, Spends, CookieDiesForCause
<1>. QED
  BY <1>1, BrowsersConsistent, PTL

(* A tab that shows the app and is alone on its device holds a stored      *)
(* session of the device's account that no other device holds.             *)
THEOREM AppBacked == BrowserSpec => []AppIsBacked
<1>1. IInv /\ BrowserInv => AppIsBacked
  BY BrowserAssumption DEF IInv, TableOK, BrowserInv, JarOK, AppHasCookie, AppIsBacked
<1>. QED
  BY <1>1, BrowsersConsistent, PTL

(* An honest browser is taken for a thief only if a request with the same  *)
(* token was lost before or is still under way.                            *)
THEOREM AlarmsForCause == BrowserSpec => []AlarmForCause
<1>1. BrowserInv => AlarmForCause
  BY DEF BrowserInv
<1>. QED
  BY <1>1, BrowsersConsistent, PTL

=============================================================================
