----------------------------- MODULE CsrfProofs -----------------------------
(***************************************************************************)
(* What CsrfTokens promises, for any number of tabs and tokens.  A caller  *)
(* without an excuse has, from the moment its cookie is set, the token the *)
(* cookie still holds.                                                     *)
(***************************************************************************)
EXTENDS CsrfTokens, TLAPS

Fresh ==
    \A t \in Tabs : ~ excuse[t] =>
        /\ at[t] = "body" => reply[t] = cookie
        /\ at[t] = "send" => header[t] = cookie /\ cookie # None
        /\ at[t] # "refused"

CsrfInv == TypeOK /\ Fresh

LEMMA InitCsrf == Init => CsrfInv
BY CsrfAssumption DEF Init, CsrfInv, TypeOK, Fresh, MaybeToken, Steps

LEMMA EnsureCsrf == ASSUME CsrfInv, NEW t \in Tabs, Ensure(t) PROVE CsrfInv'
<1>1. TypeOK'
  BY DEF CsrfInv, TypeOK, Ensure, MaybeToken, Steps
<1>2. Fresh'
  BY DEF CsrfInv, TypeOK, Fresh, Ensure, Steps
<1> QED
  BY <1>1, <1>2 DEF CsrfInv

LEMMA MintCsrf == ASSUME CsrfInv, NEW t \in Tabs, Mint(t) PROVE CsrfInv'
<1>1. TypeOK'
  BY CsrfAssumption DEF CsrfInv, TypeOK, Mint, MaybeToken, Steps
<1>2. Fresh'
  BY DEF CsrfInv, TypeOK, Fresh, Mint, Steps
<1> QED
  BY <1>1, <1>2 DEF CsrfInv

LEMMA SetCookieCsrf == ASSUME CsrfInv, NEW t \in Tabs, SetCookie(t) PROVE CsrfInv'
<1>1. TypeOK'
  BY DEF CsrfInv, TypeOK, SetCookie, MaybeToken, Steps
<1>2. Fresh'
  BY DEF CsrfInv, TypeOK, Fresh, SetCookie, Steps
<1> QED
  BY <1>1, <1>2 DEF CsrfInv

LEMMA BodyCsrf == ASSUME CsrfInv, NEW t \in Tabs, Body(t) PROVE CsrfInv'
<1>1. TypeOK'
  BY CsrfAssumption DEF CsrfInv, TypeOK, Body, BodyToken, MaybeToken, Steps
<1>2. Fresh'
  BY DEF CsrfInv, TypeOK, Fresh, Body, BodyToken, Steps
<1> QED
  BY <1>1, <1>2 DEF CsrfInv

LEMMA FetchFailsCsrf == ASSUME CsrfInv, NEW t \in Tabs, FetchFails(t) PROVE CsrfInv'
<1>1. TypeOK'
  BY DEF CsrfInv, TypeOK, FetchFails, MaybeToken, Steps
<1>2. Fresh'
  BY DEF CsrfInv, TypeOK, Fresh, FetchFails, Steps
<1> QED
  BY <1>1, <1>2 DEF CsrfInv

LEMMA SendCsrf == ASSUME CsrfInv, NEW t \in Tabs, Send(t) PROVE CsrfInv'
<1>1. TypeOK'
  BY DEF CsrfInv, TypeOK, Send, MaybeToken, Steps
<1>2. Fresh'
  BY DEF CsrfInv, TypeOK, Fresh, Send, Passes, Steps
<1> QED
  BY <1>1, <1>2 DEF CsrfInv

LEMMA FinishCsrf == ASSUME CsrfInv, NEW t \in Tabs, Finish(t) PROVE CsrfInv'
<1>1. TypeOK'
  BY DEF CsrfInv, TypeOK, Finish, MaybeToken, Steps
<1>2. Fresh'
  BY DEF CsrfInv, TypeOK, Fresh, Finish, Steps
<1> QED
  BY <1>1, <1>2 DEF CsrfInv

LEMMA RestartCsrf == CsrfInv /\ Restart => CsrfInv'
BY CsrfAssumption DEF CsrfInv, TypeOK, Fresh, Restart, MaybeToken, Steps

LEMMA CsrfInvariant == Spec => []CsrfInv
<1>1. CsrfInv /\ [Next]_vars => CsrfInv'
  <2>1. CASE UNCHANGED vars
    BY <2>1 DEF vars, CsrfInv, TypeOK, Fresh
  <2> QED
    BY <2>1, EnsureCsrf, MintCsrf, SetCookieCsrf, BodyCsrf, FetchFailsCsrf, SendCsrf,
       FinishCsrf, RestartCsrf DEF Next, Request
<1> QED
  BY <1>1, InitCsrf, PTL DEF Spec

(* A token is on its way exactly between Mint and Body.                    *)
THEOREM CsrfTyped == Spec => []TypeOK
<1>1. CsrfInv => TypeOK
  BY DEF CsrfInv
<1> QED
  BY <1>1, CsrfInvariant, PTL

(* The middleware refuses a caller of ensureCsrfToken only when its GET    *)
(* failed or another caller's answer replaced the cookie meanwhile.        *)
THEOREM RefusedInRace == Spec => []RefusedOnlyInRace
<1>1. CsrfInv => RefusedOnlyInRace
  BY DEF CsrfInv, Fresh, RefusedOnlyInRace
<1> QED
  BY <1>1, CsrfInvariant, PTL

(* Once there is a cookie and no GET is out, the cookie stays until the    *)
(* browser is closed.                                                      *)
THEOREM CookieStays == Spec => CookieSettles
<1> DEFINE Step == Settled /\ restarts' = restarts => Settled' /\ cookie' = cookie
<1>1. TypeOK /\ [Next]_vars => Step
  <2>1. SUFFICES ASSUME TypeOK, [Next]_vars, Settled, restarts' = restarts
                 PROVE  Settled' /\ cookie' = cookie
    OBVIOUS
  <2>2. CASE UNCHANGED vars
    BY <2>1, <2>2 DEF vars, Settled, Fetching
  <2>3. ASSUME NEW t \in Tabs, Ensure(t) PROVE Settled' /\ cookie' = cookie
    BY <2>1, <2>3 DEF TypeOK, Steps, Settled, Fetching, Ensure
  <2>4. ASSUME NEW t \in Tabs, Request(t) PROVE Settled' /\ cookie' = cookie
    <3>1. ~ Mint(t) /\ ~ SetCookie(t) /\ ~ FetchFails(t)
      BY <2>1 DEF Settled, Fetching, Mint, SetCookie, FetchFails
    <3>2. CASE Body(t)
      BY <2>1, <3>2 DEF TypeOK, Steps, Settled, Fetching, Body
    <3>3. CASE Send(t)
      BY <2>1, <3>3 DEF TypeOK, Steps, Settled, Fetching, Send
    <3>4. CASE Finish(t)
      BY <2>1, <3>4 DEF TypeOK, Steps, Settled, Fetching, Finish
    <3> QED
      BY <2>4, <3>1, <3>2, <3>3, <3>4 DEF Request
  <2>5. ~ Restart
    BY <2>1, CsrfAssumption DEF TypeOK, Restart
  <2> QED
    BY <2>1, <2>2, <2>3, <2>4, <2>5 DEF Next
<1>2. TypeOK /\ [Next]_vars => [Step]_vars
  BY <1>1
<1> QED
  BY <1>2, CsrfTyped, PTL DEF Spec, CookieSettles

=============================================================================
