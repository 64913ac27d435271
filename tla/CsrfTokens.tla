----------------------------- MODULE CsrfTokens -----------------------------
(***************************************************************************)
(* The double-submit CSRF token of one browser: ensureCsrfToken in its     *)
(* tabs (frontend/src/auth/csrf.ts), the handler that mints a token        *)
(* (backend handler.go, CSRFToken) and the middleware that compares header *)
(* and cookie (transport/middleware/security.go, CSRF).  All tabs share    *)
(* one cookie; a tab stands for one caller, two callers of one page too.   *)
(***************************************************************************)
EXTENDS Naturals

CONSTANTS
    Tabs,
    Tokens,         \* values newOpaqueToken draws; one not in use is fresh
    None,           \* no cookie, empty header
    MaxRestarts     \* bound on browser restarts

ASSUME CsrfAssumption == None \notin Tokens /\ MaxRestarts \in Nat

VARIABLES
    cookie,         \* csrf_token, a session cookie
    at,             \* what each tab is doing
    reply,          \* the token in the answer to its GET, while on its way
    header,         \* the X-CSRF-Token it is going to send
    excuse,         \* history: its GET failed, or the cookie was replaced
                    \* while it had a token or was getting one
    restarts

vars == <<cookie, at, reply, header, excuse, restarts>>

MaybeToken == Tokens \cup {None}
Steps == {"idle", "fetch", "reply", "body", "send", "accepted", "refused"}

(* A GET /csrf-token is out, or its Set-Cookie is still to come.           *)
Fetching(t) == at[t] \in {"fetch", "reply"}

Init ==
    /\ cookie = None
    /\ at = [t \in Tabs |-> "idle"]
    /\ reply = [t \in Tabs |-> None]
    /\ header = [t \in Tabs |-> None]
    /\ excuse = [t \in Tabs |-> FALSE]
    /\ restarts = 0

(* ensureCsrfToken: take the cookie's token, or ask for one.               *)
AlwaysFetch(t) ==                                                 \* mutant
    /\ at[t] = "idle"
    /\ at' = [at EXCEPT ![t] = "fetch"]
    /\ excuse' = [excuse EXCEPT ![t] = FALSE]
    /\ UNCHANGED <<cookie, reply, header, restarts>>
Ensure(t) ==
    /\ at[t] = "idle"
    /\ at' = [at EXCEPT ![t] = IF cookie = None THEN "fetch" ELSE "send"]
    /\ header' = [header EXCEPT ![t] = cookie]
    /\ excuse' = [excuse EXCEPT ![t] = FALSE]
    /\ UNCHANGED <<cookie, reply, restarts>>

(* CSRFToken: a new token for every GET, whatever cookie came with it.     *)
Mint(t) ==
    /\ at[t] = "fetch"
    /\ \E new \in Tokens \ ({cookie} \cup {reply[u] : u \in Tabs}
                                     \cup {header[u] : u \in Tabs}) :
          reply' = [reply EXCEPT ![t] = new]
    /\ at' = [at EXCEPT ![t] = "reply"]
    /\ UNCHANGED <<cookie, header, excuse, restarts>>

(* The response head arrives: the browser stores Set-Cookie for all tabs.  *)
SetCookie(t) ==
    /\ at[t] = "reply"
    /\ cookie' = reply[t]
    /\ at' = [at EXCEPT ![t] = "body"]
    /\ excuse' = [u \in Tabs |-> \/ excuse[u]
                                 \/ u # t /\ at[u] \in {"fetch", "reply", "body", "send"}]
    /\ UNCHANGED <<reply, header, restarts>>

(* The JSON body is parsed: its token, or the cookie's when it is bad.     *)
BodyOfAnother(t) == Tokens                                        \* mutant
BodyToken(t) == {reply[t], cookie}

Body(t) ==
    /\ at[t] = "body"
    /\ \E h \in BodyToken(t) : header' = [header EXCEPT ![t] = h]
    /\ reply' = [reply EXCEPT ![t] = None]
    /\ at' = [at EXCEPT ![t] = "send"]
    /\ UNCHANGED <<cookie, excuse, restarts>>

(* The GET fails; getCsrfToken reads whatever the cookie holds by now.     *)
FetchFails(t) ==
    /\ Fetching(t)
    /\ header' = [header EXCEPT ![t] = cookie]
    /\ reply' = [reply EXCEPT ![t] = None]
    /\ excuse' = [excuse EXCEPT ![t] = TRUE]
    /\ at' = [at EXCEPT ![t] = "send"]
    /\ UNCHANGED <<cookie, restarts>>

(* The POST leaves with the cookie of that moment; CSRF compares.          *)
Passes(t) == cookie # None /\ cookie = header[t]

Send(t) ==
    /\ at[t] = "send"
    /\ at' = [at EXCEPT ![t] = IF Passes(t) THEN "accepted" ELSE "refused"]
    /\ UNCHANGED <<cookie, reply, header, excuse, restarts>>

(* The caller is done; it may come back with another request.              *)
Finish(t) ==
    /\ at[t] \in {"accepted", "refused"}
    /\ at' = [at EXCEPT ![t] = "idle"]
    /\ header' = [header EXCEPT ![t] = None]
    /\ UNCHANGED <<cookie, reply, excuse, restarts>>

(* The browser is closed and reopened: session cookies are gone.           *)
Restart ==
    /\ restarts < MaxRestarts
    /\ restarts' = restarts + 1
    /\ cookie' = None
    /\ at' = [t \in Tabs |-> "idle"]
    /\ reply' = [t \in Tabs |-> None]
    /\ header' = [t \in Tabs |-> None]
    /\ excuse' = [t \in Tabs |-> FALSE]

Request(t) ==
    \/ Mint(t) \/ SetCookie(t) \/ Body(t) \/ FetchFails(t) \/ Send(t) \/ Finish(t)

Next ==
    \/ \E t \in Tabs : Ensure(t) \/ Request(t)
    \/ Restart

Spec == Init /\ [][Next]_vars

(* A request under way goes on: fetch resolves or rejects, and the code    *)
(* awaits nothing else.  Of a caller that asks again and again, some GET   *)
(* gets through: the network is not down for good.                         *)
FairSpec == Spec /\ \A t \in Tabs :
    WF_vars(Request(t)) /\ SF_vars(Mint(t)) /\ SF_vars(SetCookie(t))

-----------------------------------------------------------------------------
(* Type invariant: a token is on its way exactly between Mint and Body.    *)
TypeOK ==
    /\ cookie \in MaybeToken
    /\ at \in [Tabs -> Steps]
    /\ reply \in [Tabs -> MaybeToken]
    /\ header \in [Tabs -> MaybeToken]
    /\ excuse \in [Tabs -> BOOLEAN]
    /\ restarts \in 0..MaxRestarts
    /\ \A t \in Tabs : at[t] \in {"reply", "body"} <=> reply[t] # None

(* A caller of ensureCsrfToken is refused only when its GET failed or the  *)
(* answer to another caller's GET replaced the cookie meanwhile.           *)
RefusedOnlyInRace ==
    \A t \in Tabs : at[t] = "refused" => excuse[t]

(* Once there is a cookie and no GET is out, nobody asks for a token again *)
(* and the cookie stays, until the browser is closed (csrf.ts 13-15).      *)
Settled == cookie # None /\ \A t \in Tabs : ~ Fetching(t)
CookieSettles ==
    [][ Settled /\ restarts' = restarts => Settled' /\ cookie' = cookie ]_vars

(* So the refusals come to an end by themselves.                           *)
RefusalsStop == <>[](\A t \in Tabs : at[t] # "refused")

=============================================================================
