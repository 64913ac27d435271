-------------------------- MODULE BrowserSessions --------------------------
(***************************************************************************)
(* The session handlers together with the browsers that use them: the      *)
(* refresh_token cookie of each device, shared by its tabs, and what a tab *)
(* does (frontend/src/auth/session.ts, App.tsx, AuthGateway.tsx).  Clients *)
(* are honest; requests and answers get lost.                              *)
(***************************************************************************)
EXTENDS SessionHandlers

CONSTANTS
    Devices,
    OwnerOf,        \* [Devices -> Users]: whose device it is
    Tabs,
    DeviceOf,       \* [Tabs -> Devices]
    NoTab

ASSUME BrowserAssumption ==
    /\ OwnerOf \in [Devices -> Users] /\ DeviceOf \in [Tabs -> Devices]
    /\ NoTab \notin Tabs

VARIABLES
    jar,            \* each device's refresh_token cookie
    tab,            \* what each tab shows or waits for
    client,         \* the tab that waits for a handler's answer
    burnt           \* history: tokens a request has presented without its
                    \* answer reaching the cookie, or that a sweep covered

browser == <<jar, tab, client>>
allVars == <<vars, browser, burnt>>

TabStates == {"closed", "booting", "out", "signing", "in", "leaving"}
Waits(t) == tab[t] \in {"booting", "signing", "leaving"}

(* The cookie's Expires is the session's ExpiresAt.                        *)
Cookie(d) == IF jar[d] # NoToken /\ ~ Expired(jar[d]) THEN jar[d] ELSE NoToken

Show(t, state) == tab' = [tab EXCEPT ![t] = state]

BrowserInit ==
    /\ Init
    /\ jar = [d \in Devices |-> NoToken]
    /\ tab = [t \in Tabs |-> "closed"]
    /\ client = [h \in Handlers |-> NoTab]
    /\ burnt = {}

(* The page loads and restoreSession runs; the request may get lost.       *)
Open(t) ==
    /\ tab[t] = "closed"
    /\ \/ /\ Show(t, "booting")
          /\ \E h \in Handlers : /\ StartRefresh(h, Cookie(DeviceOf[t]))
                                 /\ client' = [client EXCEPT ![h] = t]
       \/ Show(t, "out") /\ UNCHANGED <<vars, client>>
    /\ UNCHANGED <<jar, burnt>>

(* The login form of AuthGateway.                                          *)
SignIn(t) ==
    /\ tab[t] = "out"
    /\ Show(t, "signing")
    /\ \E h \in Handlers : /\ StartLogin(h, OwnerOf[DeviceOf[t]])
                           /\ client' = [client EXCEPT ![h] = t]
    /\ UNCHANGED <<jar, burnt>>

(* handleLogout awaits logout(), which swallows every failure; the app     *)
(* offers it whether or not a session was restored.                        *)
LogOut(t) ==
    /\ tab[t] \in {"in", "out"}
    /\ \/ /\ Show(t, "leaving")
          /\ \E h \in Handlers : /\ StartLogout(h, Cookie(DeviceOf[t]))
                                 /\ client' = [client EXCEPT ![h] = t]
       \/ Show(t, "out") /\ UNCHANGED <<vars, client>>
    /\ UNCHANGED <<jar, burnt>>

(* Closing a tab takes its request's answer away from it.                  *)
Abandoned(t) ==
    [h \in Handlers |-> IF client[h] = t THEN NoTab ELSE client[h]]

(* The tab is closed or reloaded; its request is on its own from here.     *)
Close(t) ==
    /\ tab[t] # "closed"
    /\ Show(t, "closed")
    /\ client' = Abandoned(t)
    /\ UNCHANGED <<vars, jar, burnt>>

(* What an answer does to the cookie: a 200 of login and refresh replaces  *)
(* it, a 200 of logout clears it, an error leaves it as it was.            *)
CookieNotRotated(h, d) ==                                         \* mutant
    IF req[h].answer = "ok" /\ req[h].op # "refresh" THEN req[h].fresh ELSE jar[d]
CookieAfter(h, d) ==
    IF req[h].answer = "ok" THEN req[h].fresh ELSE jar[d]

(* What the tab makes of its answer, or of none.                           *)
AnyAnswerSignsIn(t, ok) == IF tab[t] = "leaving" THEN "out" ELSE "in"  \* mutant
TabAfter(t, ok) ==
    IF ok /\ tab[t] \in {"booting", "signing"} THEN "in" ELSE "out"

Presented(h) == {req[h].tok} \ {NoToken}

Answer(h) ==
    LET t == client[h] IN
    /\ t # NoTab
    /\ Deliver(h)
    /\ jar' = [jar EXCEPT ![DeviceOf[t]] = CookieAfter(h, DeviceOf[t])]
    /\ Show(t, TabAfter(t, req[h].answer = "ok"))
    /\ client' = [client EXCEPT ![h] = NoTab]
    /\ burnt' = IF req[h].answer = "ok" THEN burnt ELSE burnt \cup Presented(h)

(* The answer is lost; a tab that still waits sees its fetch reject.       *)
Lose(h) ==
    LET t == client[h] IN
    /\ Drop(h)
    /\ IF t = NoTab THEN UNCHANGED <<tab, client>>
       ELSE /\ Show(t, "out")
            /\ client' = [client EXCEPT ![h] = NoTab]
    /\ burnt' = burnt \cup Presented(h)
    /\ UNCHANGED jar

Outage ==
    /\ Crash
    /\ tab' = [t \in Tabs |-> IF Waits(t) THEN "out" ELSE tab[t]]
    /\ client' = [h \in Handlers |-> NoTab]
    /\ burnt' = burnt \cup UNION {Presented(h) : h \in Handlers}
    /\ UNCHANGED jar

Work(h) ==
    /\ Limited(h) \/ Login(h) \/ Refresh(h) \/ Logout(h) \/ Mint(h) \/ Insert(h)
       \/ Cancel(h)
    /\ burnt' = IF At(h, "revokeAll") /\ revoked' # revoked
                THEN burnt \cup {t \in rows : owner[t] = req[h].user} ELSE burnt
    /\ UNCHANGED browser

BrowserNext ==
    \/ \E t \in Tabs : Open(t) \/ SignIn(t) \/ LogOut(t) \/ Close(t)
    \/ \E h \in Handlers : Work(h) \/ Answer(h) \/ Lose(h)
    \/ Outage
    \/ Tick /\ UNCHANGED <<browser, burnt>>

BrowserSpec == BrowserInit /\ [][BrowserNext]_allVars

-----------------------------------------------------------------------------
(* A device stays signed in unless there is a reason: its cookie's session *)
(* is revoked only while a request that presented it is under way, or      *)
(* because such a request was lost or refused on the way back, or by a     *)
(* sweep after reuse.  No other device's login, refresh or logout does it. *)
CookieDiesForCause ==
    \A d \in Devices : jar[d] \in revoked =>
        jar[d] \in burnt \/ \E h \in Handlers : req[h].tok = jar[d]

(* A tab that shows the app is backed by a session of its own: unless     *)
(* another tab of the device may have logged it out, the device's cookie   *)
(* is a stored token of the device's account that no other device holds.   *)
AppIsBacked ==
    \A t \in Tabs :
        /\ tab[t] = "in"
        /\ \A u \in Tabs \ {t} : DeviceOf[u] # DeviceOf[t]
        => LET d == DeviceOf[t] IN
           /\ jar[d] \in rows /\ owner[jar[d]] = OwnerOf[d]
           /\ \A e \in Devices \ {d} : jar[e] # jar[d]

(* An honest browser that presents the cookie it holds is not taken for a  *)
(* thief, unless a request with that same token was lost before or is      *)
(* still under way from another tab; that the session ran out while the    *)
(* request travelled (token.go 38-42) is no reason.                        *)
AlarmForCause ==
    \A h \in Handlers : At(h, "revokeAll") =>
        \/ req[h].tok \in burnt
        \/ \E g \in Handlers \ {h} : req[g].tok = req[h].tok
        \/ \A d \in Devices : jar[d] # req[h].tok

=============================================================================
