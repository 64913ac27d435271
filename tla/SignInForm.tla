----------------------------- MODULE SignInForm -----------------------------
(***************************************************************************)
(* The sign-in form (frontend/src/auth/AuthGateway.tsx): its views, the    *)
(* busy flag that stands between a click and the answer to its call, the   *)
(* attempt counters in sessionStorage, the verification session with its   *)
(* three clocks, and the detour through Google.                            *)
(*                                                                         *)
(* A handler is a closure: what it reads after its await is the state of   *)
(* the render it was created in.  A call under way therefore carries the   *)
(* verification session it was started with, and so does a completed code  *)
(* that waits for its setTimeout(0).  An instant is kept as the time left  *)
(* until it; Tick ages all of them, the captured ones too.                 *)
(***************************************************************************)
EXTENDS Integers, Sequences, FiniteSets, SequencesExt

CONSTANTS
    Ttl,                \* TOKEN_TTL_MS
    ResendWait,         \* RESEND_COOLDOWN_MS
    Wait,               \* attempt -> pause after a wrong code
    Lock,               \* pause after the last attempt
    Window,             \* length of a rate window
    Redirect,           \* countdown after a recovery, in seconds
    MaxTimers,          \* bound on completed codes waiting
    MaxTrips            \* bound on journeys to Google

MAX_VERIFICATION_ATTEMPTS == 5
MAX_RESENDS == 3
Keys == {"login", "register", "recovery"}
Limit == [login |-> 5, register |-> 3, recovery |-> 3]

ASSUME FormAssumption ==
    /\ {Ttl, ResendWait, Lock, Window, Redirect, MaxTimers, MaxTrips} \subseteq Nat \ {0}
    /\ Wait \in [1..MAX_VERIFICATION_ATTEMPTS -> Nat \ {0}]
    /\ Lock >= Ttl /\ \A n \in DOMAIN Wait : Wait[n] <= Lock

VARIABLES
    view,
    busy,
    session,            \* verifySession
    timers,             \* completed codes, each with the session it captured
    calls,              \* calls under way
    rates,              \* the windows in sessionStorage
    recent,             \* less than FORM_DEBOUNCE_MS since the last submit
    redirect,           \* recoveryRedirect
    google,             \* the OAuth detour
    lag,                \* `now' is behind Date.now(), by less than a second
    seen                \* history: since the code was issued; ever

formVars == <<busy, session, timers, calls, recent, redirect>>
vars == <<view, formVars, rates, google, lag, seen>>

Views == {"login", "signup", "verify_email", "forgot_password", "signed_in", "away"}
NoSession == [attempts |-> -1]
NoRedirect == -1
Sessions == [ttl : 0..Ttl, resendIn : 0..ResendWait, cooldown : 0..Lock,
             attempts : 0..MAX_VERIFICATION_ATTEMPTS, resendCount : 0..MAX_RESENDS]
HasSession == session # NoSession

Init ==
    /\ view = "login"
    /\ busy = FALSE
    /\ session = NoSession
    /\ timers = <<>>
    /\ calls = <<>>
    /\ rates = [k \in Keys |-> [count |-> 0, left |-> -1]]
    /\ recent = FALSE
    /\ redirect = NoRedirect
    /\ google = [state |-> 0, verifier |-> 0, starting |-> {}, trip |-> 0,
                 trips |-> 0, reached |-> {}]
    /\ lag = FALSE
    /\ seen = [wrong |-> 0, resent |-> 0, overlap |-> FALSE, broken |-> FALSE,
               exchanges |-> <<>>]

-----------------------------------------------------------------------------
(* Fixed windows: canAttempt opens a new one once the old one is over,     *)
(* recordAttempt counts in it.                                             *)
Over(k) == rates[k].left < 0
OffByOne(k) == Over(k) \/ rates[k].count <= Limit[k]               \* mutant
canAttempt(k) == Over(k) \/ rates[k].count < Limit[k]
recordAttempt(k) ==
    rates' = [rates EXCEPT ![k] = IF Over(k) THEN [count |-> 1, left |-> Window]
                                  ELSE [rates[k] EXCEPT !.count = @ + 1]]

Start(kind) == calls' = Append(calls, [kind |-> kind, session |-> session])

(* A submit button: debounced, then refused while busy, then by the checks *)
(* of the fields, then by the counter.                                     *)
SubmitTwice(from, kind, k) ==                                      \* mutant
    /\ view = from /\ ~recent
    /\ recent' = TRUE
    /\ \/ canAttempt(k) /\ busy' = TRUE /\ recordAttempt(k) /\ Start(kind)
       \/ UNCHANGED <<busy, rates, calls>>
    /\ UNCHANGED <<view, session, timers, redirect, google, lag, seen>>
Submit(from, kind, k) ==
    /\ view = from /\ ~recent
    /\ recent' = TRUE
    /\ \/ /\ ~busy /\ canAttempt(k)
          /\ busy' = TRUE
          /\ recordAttempt(k)
          /\ Start(kind)
       \/ UNCHANGED <<busy, rates, calls>>
    /\ UNCHANGED <<view, session, timers, redirect, google, lag, seen>>

handleLogin == Submit("login", "login", "login")
handleSignup == Submit("signup", "register", "register")
handleRecovery == Submit("forgot_password", "recovery", "recovery")

(* The tabs and links between the views.                                   *)
ShowView ==
    /\ ~busy /\ view \notin {"signed_in", "away"}
    /\ view' \in CASE view = "login" -> {"signup", "forgot_password"}
                   [] OTHER -> {"login", "signup"}
    /\ UNCHANGED <<busy, session, timers, calls, rates, recent, redirect, google, lag, seen>>

-----------------------------------------------------------------------------
(* The six digits are complete: handleVerify of this render is scheduled.  *)
(* The inputs are enabled by the clock on screen, which runs behind.       *)
CodeComplete ==
    /\ view = "verify_email" /\ HasSession /\ ~busy
    /\ (session.ttl > 0 \/ lag) /\ session.cooldown = 0
    /\ session.attempts < MAX_VERIFICATION_ATTEMPTS
    /\ Len(timers) < MaxTimers
    /\ timers' = Append(timers, session)
    /\ UNCHANGED <<view, busy, session, calls, rates, recent, redirect, google, lag, seen>>

(* handleVerify up to its await.  Of what it checks it sees only the past: *)
(* busy was FALSE and the view was right when the code was completed.      *)
MayVerify(s) == s.cooldown = 0 /\ s.ttl > 0

handleVerify ==
    /\ timers # <<>>
    /\ timers' = Tail(timers)
    /\ LET s == Head(timers) IN
       IF MayVerify(s) /\ view # "signed_in"
       THEN /\ busy' = TRUE
            /\ calls' = Append(calls, [kind |-> "verify", session |-> s])
            /\ seen' = [seen EXCEPT !.overlap = @ \/ calls # <<>> \/ s # session]
       ELSE UNCHANGED <<busy, calls, seen>>
    /\ UNCHANGED <<view, session, rates, recent, redirect, google, lag>>

handleResend ==
    /\ view = "verify_email" /\ HasSession /\ ~busy
    /\ session.resendIn = 0 /\ session.resendCount < MAX_RESENDS
    /\ busy' = TRUE
    /\ Start("resend")
    /\ UNCHANGED <<view, session, timers, rates, recent, redirect, google, lag, seen>>

(* The session registration and resending both put in place, whatever the  *)
(* server said: a missing one is made up.                                  *)
Issued(resendCount) ==
    [ttl |-> Ttl, resendIn |-> ResendWait, cooldown |-> 0,
     attempts |-> 0, resendCount |-> resendCount]

CountsNothing(s) == [s EXCEPT !.cooldown = Wait[s.attempts + 1]]   \* mutant
AfterWrong(s) ==
    LET n == s.attempts + 1 IN
    [s EXCEPT !.attempts = n,
              !.cooldown = IF n >= MAX_VERIFICATION_ATTEMPTS THEN Lock ELSE Wait[n]]

SignIn == view' = "signed_in" /\ UNCHANGED <<session, redirect, seen>>

(* What the handler does after its await, by the kind of call.             *)
Refused == UNCHANGED <<view, session, redirect, seen>>
Registered ==
    /\ session' = Issued(0)
    /\ view' = "verify_email"
    /\ seen' = [seen EXCEPT !.wrong = 0, !.resent = 0]
    /\ UNCHANGED redirect
WrongCode(s) ==
    /\ session' = AfterWrong(s)
    /\ seen' = [seen EXCEPT !.wrong = IF seen.overlap THEN @ ELSE @ + 1]
    /\ UNCHANGED <<view, redirect>>
Resent(s) ==
    /\ session' = Issued(s.resendCount + 1)
    /\ seen' = [seen EXCEPT !.wrong = 0,
                            !.resent = IF seen.overlap THEN @ ELSE @ + 1]
    /\ UNCHANGED <<view, redirect>>
RecoveryAsked ==
    /\ redirect' = Redirect
    /\ UNCHANGED <<view, session, seen>>

StaysBusy == busy                                                  \* mutant
Settled == FALSE

(* An answer, also an error status (postJson makes it ok = false): the     *)
(* handler resumes.  A code waiting for its setTimeout(0) comes first.     *)
Answer(i) ==
    LET c == calls[i] IN
    /\ i \in DOMAIN calls /\ timers = <<>>
    /\ view \notin {"signed_in", "away"}
    /\ calls' = RemoveAt(calls, i)
    /\ busy' = Settled
    /\ \/ c.kind \in {"login", "verify", "google"} /\ SignIn
       \/ c.kind \in {"login", "google"} /\ Refused
       \/ c.kind = "verify" /\ WrongCode(c.session)
       \/ c.kind = "register" /\ Registered
       \/ c.kind = "resend" /\ Resent(c.session)
       \/ c.kind = "recovery" /\ RecoveryAsked
    /\ UNCHANGED <<timers, rates, recent, google, lag>>

(* The network fails, or hashing does: nothing catches, busy stays.        *)
Reject(i) ==
    /\ i \in DOMAIN calls /\ timers = <<>>
    /\ view \notin {"signed_in", "away"}
    /\ calls' = RemoveAt(calls, i)
    /\ seen' = [seen EXCEPT !.broken = TRUE]
    /\ UNCHANGED <<view, busy, session, timers, rates, recent, redirect, google, lag>>

-----------------------------------------------------------------------------
(* startGoogleOAuth, before and after createPkceChallenge.  It does not    *)
(* set busy: a second click starts a second one.                           *)
StartOAuth ==
    /\ view = "login" /\ ~busy
    /\ google.trips < MaxTrips
    /\ google' = [google EXCEPT !.trips = @ + 1, !.starting = @ \cup {google.trips + 1}]
    /\ UNCHANGED <<view, busy, session, timers, calls, rates, recent, redirect, lag, seen>>

VerifierKept(n) ==                                                 \* mutant
    /\ view # "away" /\ n \in google.starting
    /\ google' = [google EXCEPT !.starting = @ \ {n}, !.state = n, !.trip = n,
                                !.verifier = IF @ = 0 THEN n ELSE @]
    /\ UNCHANGED <<view, busy, session, timers, calls, rates, recent, redirect, lag, seen>>
AssignLocation(n) ==
    /\ view # "away" /\ n \in google.starting
    /\ google' = [google EXCEPT !.starting = @ \ {n}, !.state = n, !.verifier = n,
                                !.trip = n]
    /\ UNCHANGED <<view, busy, session, timers, calls, rates, recent, redirect, lag, seen>>

(* The page goes, with everything it was waiting for; sessionStorage stays. *)
NewPage(v) ==
    /\ view' = v
    /\ busy' = FALSE /\ recent' = FALSE
    /\ session' = NoSession
    /\ timers' = <<>> /\ calls' = <<>>
    /\ redirect' = NoRedirect

Reload ==
    /\ view \notin {"signed_in", "away"}
    /\ NewPage("login")
    /\ google' = [google EXCEPT !.starting = {}, !.trip = 0]
    /\ UNCHANGED <<rates, lag, seen>>

LeaveForGoogle ==
    /\ google.trip # 0
    /\ NewPage("away")
    /\ google' = [google EXCEPT !.starting = {}, !.trip = 0,
                                !.reached = @ \cup {google.trip}]
    /\ UNCHANGED <<rates, lag, seen>>

(* Back from Google: by the browser's own buttons, or with the code and    *)
(* state of any journey Google has seen, which must be the stored one.     *)
GiveUp ==
    /\ view = "away"
    /\ view' = "login"
    /\ UNCHANGED <<formVars, rates, google, lag, seen>>

ReturnFromGoogle(n) ==
    /\ view = "away" /\ n \in google.reached
    /\ view' = "login"
    /\ IF google.state = n /\ google.verifier # 0
       THEN /\ busy' = TRUE
            /\ Start("google")
            /\ google' = [google EXCEPT !.state = 0, !.verifier = 0]
            /\ seen' = [seen EXCEPT !.exchanges = Append(@, <<n, google.verifier>>)]
       ELSE UNCHANGED <<busy, calls, google, seen>>
    /\ UNCHANGED <<session, timers, rates, recent, redirect, lag>>

-----------------------------------------------------------------------------
Less(n, floor) == IF n > floor THEN n - 1 ELSE floor
Aged(s) == IF s = NoSession THEN s
           ELSE [s EXCEPT !.ttl = Less(@, 0), !.resendIn = Less(@, 0),
                          !.cooldown = Less(@, 0)]

Tick ==
    /\ timers = <<>>
    /\ session' = Aged(session)
    /\ calls' = [i \in DOMAIN calls |-> [calls[i] EXCEPT !.session = Aged(@)]]
    /\ rates' = [k \in Keys |-> [rates[k] EXCEPT !.left = Less(@, -1)]]
    /\ recent' = FALSE
    /\ lag' = TRUE
    /\ UNCHANGED <<view, busy, timers, redirect, google, seen>>

(* The interval that copies the clock to the screen.                       *)
ShowTime ==
    /\ lag
    /\ lag' = FALSE
    /\ UNCHANGED <<view, formVars, rates, google, seen>>

(* One second of the countdown; at its end the form goes to the login view *)
(* from whatever view it shows by then.                                    *)
Countdown ==
    /\ redirect > 0 /\ view # "signed_in"
    /\ redirect' = IF redirect = 1 THEN NoRedirect ELSE redirect - 1
    /\ view' = IF redirect = 1 THEN "login" ELSE view
    /\ UNCHANGED <<busy, session, timers, calls, rates, recent, google, lag, seen>>

-----------------------------------------------------------------------------
AnswerSome == \E i \in DOMAIN calls : Answer(i) \/ Reject(i)

VerifySteps == CodeComplete \/ handleVerify \/ handleResend
OAuthSteps ==
    \/ StartOAuth \/ LeaveForGoogle \/ GiveUp
    \/ \E n \in 1..MaxTrips : AssignLocation(n) \/ ReturnFromGoogle(n)
FormSteps ==
    \/ handleLogin \/ handleSignup \/ handleRecovery
    \/ ShowView \/ Reload \/ Countdown

Next == AnswerSome \/ FormSteps \/ VerifySteps \/ OAuthSteps \/ Tick \/ ShowTime

Fairness == WF_vars(AnswerSome) /\ WF_vars(handleVerify)
Spec == Init /\ [][Next]_vars

-----------------------------------------------------------------------------
(* Every variable has its type; in particular no counter of attempts ever  *)
(* passes its limit, and each window bounds its calls.                     *)
TypeOK ==
    /\ view \in Views
    /\ busy \in BOOLEAN /\ recent \in BOOLEAN /\ lag \in BOOLEAN
    /\ session \in Sessions \cup {NoSession}
    /\ timers \in Seq(Sessions) /\ Len(timers) <= MaxTimers
    /\ \A i \in DOMAIN calls : calls[i].session \in Sessions \cup {NoSession}
    /\ \A k \in Keys : rates[k].count \in 0..Limit[k] /\ rates[k].left \in -1..Window
    /\ redirect \in 1..Redirect \cup {NoRedirect}

(* One call at a time, and the form is busy exactly while it is under way  *)
(* (after a call that was rejected for ever), although nothing but busy    *)
(* and the closures' own view of it keeps a second one out.  The exception *)
(* is a code completed twice, or completed just before a resend, whose     *)
(* closure was made when the form was not busy yet.                        *)
OneCallAtATime ==
    ~seen.overlap =>
        /\ Len(calls) <= 1
        /\ calls # <<>> => busy
        /\ busy => calls # <<>> \/ seen.broken

(* What the form counts against a code and an address is what happened:    *)
(* wrong answers since the code was issued, resends since the registration *)
(* (also after views were changed, codes expired and answers came late),   *)
(* except after such an overlap.  The code view never shows without one.   *)
CountersTrue ==
    /\ view = "verify_email" => HasSession
    /\ HasSession /\ ~seen.overlap =>
          session.attempts = seen.wrong /\ session.resendCount = seen.resent

(* An authorisation code is exchanged with the verifier made for the same  *)
(* journey, and once only, however often the button was pressed.           *)
ExchangeMatches ==
    /\ \A i \in DOMAIN seen.exchanges : seen.exchanges[i][1] = seen.exchanges[i][2]
    /\ IsInjective(seen.exchanges)

(* A busy form comes to rest, unless a call was rejected.                  *)
BusyEnds == busy ~> (~busy \/ seen.broken)

=============================================================================
