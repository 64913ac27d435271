-------------------------- MODULE SignInFormProofs --------------------------
(***************************************************************************)
(* What SignInForm promises, for any lengths of its clocks and any number  *)
(* of journeys, and with the forms, the code view and the detour through   *)
(* Google mixed as the form allows.  The closures are the difficulty: a    *)
(* handler goes on with the session it captured.  Unless two calls have    *)
(* overlapped, that is still the session on screen (Latest).               *)
(***************************************************************************)
EXTENDS SignInForm, SequenceTheorems, TLAPS

Kinds == {"login", "register", "recovery", "verify", "resend", "google"}
OfCode == {"verify", "resend"}
Pending == {s \in Sessions : s.attempts < MAX_VERIFICATION_ATTEMPTS}
Calls == {c \in [kind : Kinds, session : Sessions \cup {NoSession}] :
            /\ c.kind = "verify" => c.session \in Pending
            /\ c.kind = "resend" => /\ c.session \in Sessions
                                    /\ c.session.resendCount < MAX_RESENDS}

SeenTyped == seen \in [wrong : Nat, resent : Nat, overlap : BOOLEAN, broken : BOOLEAN,
                       exchanges : Seq(Nat \X Nat)]
Typed ==
    /\ view \in Views
    /\ busy \in BOOLEAN /\ recent \in BOOLEAN /\ lag \in BOOLEAN
    /\ session \in Sessions \cup {NoSession}
    /\ timers \in Seq(Pending) /\ Len(timers) <= MaxTimers
    /\ calls \in Seq(Calls)
    /\ redirect \in 1..Redirect \cup {NoRedirect}
    /\ SeenTyped

(* A call about the code goes on with the session that is on screen.       *)
Latest ==
    ~seen.overlap =>
        \A i \in DOMAIN calls : calls[i].kind \in OfCode => calls[i].session = session

(* While the page is at Google nothing of the form is left.                *)
Away == view = "away" => ~busy /\ timers = <<>>

FormInv == Typed /\ OneCallAtATime /\ Latest /\ CountersTrue /\ Away

RatesRight ==
    rates \in [Keys -> [count : Nat, left : -1..Window]]
    /\ \A k \in Keys : rates[k].count \in 0..Limit[k]

(* State and verifier are of one journey, which has not been exchanged yet *)
(* and is not among those that are only starting.                          *)
Detour == [state : Nat, verifier : Nat, starting : SUBSET (Nat \ {0}),
           trip : Nat, trips : Nat, reached : SUBSET Nat]
Exchanged == {seen.exchanges[i][1] : i \in DOMAIN seen.exchanges}
GoogleInv ==
    /\ google \in Detour
    /\ \A n \in google.starting \cup {google.state} : n <= google.trips
    /\ google.state = google.verifier
    /\ google.state \notin google.starting
    /\ \A n \in Exchanged : n # 0 /\ n <= google.trips /\ n # google.state
                            /\ n \notin google.starting
    /\ ExchangeMatches

-----------------------------------------------------------------------------
LEMMA Limits ==
    /\ MAX_VERIFICATION_ATTEMPTS = 5 /\ MAX_RESENDS = 3
    /\ Ttl \in Nat /\ ResendWait \in Nat /\ Lock \in Nat /\ Window \in Nat
    /\ Redirect \in Nat \ {0} /\ MaxTimers \in Nat \ {0}
    /\ \A n \in 1..5 : Wait[n] \in 0..Lock
BY FormAssumption DEF FormAssumption, MAX_VERIFICATION_ATTEMPTS, MAX_RESENDS

LEMMA RealSession == ASSUME NEW s \in Sessions PROVE s # NoSession
BY DEF Sessions, NoSession, MAX_VERIFICATION_ATTEMPTS

LEMMA IssuedTyped ==
    ASSUME NEW n \in 0..MAX_RESENDS
    PROVE  Issued(n) \in Sessions /\ Issued(n).attempts = 0 /\ Issued(n).resendCount = n
BY Limits DEF Issued, Sessions

LEMMA WrongTyped ==
    ASSUME NEW s \in Pending
    PROVE  /\ AfterWrong(s) \in Sessions
           /\ AfterWrong(s).attempts = s.attempts + 1
           /\ AfterWrong(s).resendCount = s.resendCount
<1>1. s \in Sessions /\ s.attempts \in 0..4
  BY Limits DEF Pending, Sessions
<1> DEFINE n == s.attempts + 1
           pause == IF n >= MAX_VERIFICATION_ATTEMPTS THEN Lock ELSE Wait[n]
<1>2. n \in 1..5 /\ pause \in 0..Lock
  BY <1>1, Limits
<1>3. AfterWrong(s) = [s EXCEPT !.attempts = n, !.cooldown = pause]
  BY DEF AfterWrong
<1> HIDE DEF n, pause
<1>4. n \in 0..MAX_VERIFICATION_ATTEMPTS
  BY <1>2, Limits
<1>5. AfterWrong(s) \in Sessions /\ AfterWrong(s).attempts = n
      /\ AfterWrong(s).resendCount = s.resendCount
  BY <1>1, <1>2, <1>3, <1>4 DEF Sessions
<1> QED
  BY <1>5 DEF n

LEMMA LessInRange == ASSUME NEW m \in Nat, NEW n \in 0..m PROVE Less(n, 0) \in 0..m
BY DEF Less

LEMMA AgedTyped ==
    ASSUME NEW s \in Sessions \cup {NoSession}
    PROVE  /\ Aged(s) \in Sessions \cup {NoSession}
           /\ s = NoSession <=> Aged(s) = NoSession
           /\ s \in Sessions => /\ Aged(s) \in Sessions
                                /\ Aged(s).attempts = s.attempts
                                /\ Aged(s).resendCount = s.resendCount
<1>1. CASE s = NoSession
  BY <1>1, RealSession DEF Aged
<1>2. CASE s \in Sessions
  <2>1. s # NoSession
    BY <1>2, RealSession
  <2>2. Aged(s) = [s EXCEPT !.ttl = Less(s.ttl, 0), !.resendIn = Less(s.resendIn, 0),
                            !.cooldown = Less(s.cooldown, 0)]
    BY <2>1 DEF Aged
  <2>3. Less(s.ttl, 0) \in 0..Ttl /\ Less(s.resendIn, 0) \in 0..ResendWait
        /\ Less(s.cooldown, 0) \in 0..Lock
    BY <1>2, Limits, LessInRange DEF Sessions
  <2>4. Aged(s) \in Sessions /\ Aged(s).attempts = s.attempts
        /\ Aged(s).resendCount = s.resendCount
    BY <1>2, <2>2, <2>3 DEF Sessions
  <2> QED
    BY <1>2, <2>1, <2>4, RealSession
<1> QED
  BY <1>1, <1>2

(* What RemoveAt leaves is of the type of the sequence and one shorter.    *)
LEMMA Removed ==
    ASSUME NEW S, NEW s \in Seq(S), NEW i \in DOMAIN s
    PROVE  RemoveAt(s, i) \in Seq(S) /\ Len(RemoveAt(s, i)) = Len(s) - 1
<1>1. Len(s) \in Nat /\ i \in 1..Len(s) /\ \A j \in 1..Len(s) : s[j] \in S
  BY ElementOfSeq
<1>2. /\ SubSeq(s, 1, i - 1) \in Seq(S)
      /\ Len(SubSeq(s, 1, i - 1)) = i - 1
  BY <1>1, SubSeqProperties
<1>3. /\ SubSeq(s, i + 1, Len(s)) \in Seq(S)
      /\ Len(SubSeq(s, i + 1, Len(s))) = Len(s) - i
  BY <1>1, SubSeqProperties
<1>4. /\ SubSeq(s, 1, i - 1) \o SubSeq(s, i + 1, Len(s)) \in Seq(S)
      /\ Len(SubSeq(s, 1, i - 1) \o SubSeq(s, i + 1, Len(s))) = (i - 1) + (Len(s) - i)
  BY <1>2, <1>3, ConcatProperties
<1>5. (i - 1) + (Len(s) - i) = Len(s) - 1
  BY <1>1
<1> QED
  BY <1>4, <1>5, Zenon DEF RemoveAt

-----------------------------------------------------------------------------
LEMMA InitForm == Init => FormInv
<1> SUFFICES ASSUME Init PROVE FormInv
  OBVIOUS
<1>1. SeenTyped
  BY EmptySeq DEF Init, SeenTyped
<1>2. /\ timers \in Seq(Pending) /\ Len(timers) <= MaxTimers
      /\ calls \in Seq(Calls) /\ timers = <<>>
  BY EmptySeq, Limits DEF Init
<1>3. Typed
  <2>1. /\ view = "login" /\ busy = FALSE /\ recent = FALSE /\ lag = FALSE
        /\ session = NoSession /\ redirect = NoRedirect
    BY DEF Init
  <2> QED
    BY <1>1, <1>2, <2>1 DEF Typed, Views
<1>4. /\ ~HasSession /\ ~busy /\ view = "login"
      /\ calls = <<>> /\ Len(calls) = 0 /\ DOMAIN calls = {}
  BY <1>2, EmptySeq, LenProperties DEF Init, HasSession
<1>5. OneCallAtATime /\ Latest /\ CountersTrue
  BY <1>4 DEF OneCallAtATime, Latest, CountersTrue
<1> QED
  BY <1>3, <1>4, <1>5 DEF FormInv, Away

(* A call is started with the form idle, so it is the only one.            *)
LEMMA Started ==
    ASSUME FormInv, ~busy, NEW kind \in Kinds, Start(kind), busy',
           kind = "resend" => session \in Sessions /\ session.resendCount < MAX_RESENDS,
           kind # "verify",
           UNCHANGED session, seen'.overlap = seen.overlap
    PROVE  calls' \in Seq(Calls) /\ OneCallAtATime' /\ Latest'
<1>1. [kind |-> kind, session |-> session] \in Calls
  BY DEF FormInv, Typed, Calls
<1>2. /\ calls' \in Seq(Calls) /\ Len(calls') = Len(calls) + 1 /\ calls' # <<>>
      /\ DOMAIN calls' = 1..Len(calls')
      /\ calls'[Len(calls) + 1] = [kind |-> kind, session |-> session]
  BY <1>1, AppendProperties, LenProperties DEF FormInv, Typed, Start
<1>3. ~seen.overlap => calls = <<>> /\ Len(calls) = 0
  BY EmptySeq DEF FormInv, Typed, OneCallAtATime
<1>4. OneCallAtATime'
  BY <1>2, <1>3 DEF OneCallAtATime
<1>5. Latest'
  BY <1>2, <1>3 DEF Latest
<1> QED
  BY <1>2, <1>4, <1>5

LEMMA SubmitForm ==
    ASSUME FormInv, NEW from \in {"login", "signup", "forgot_password"},
           NEW kind \in {"login", "register", "recovery"}, NEW k \in Keys,
           Submit(from, kind, k)
    PROVE  FormInv'
<1>0. /\ view = from /\ recent' = TRUE
      /\ UNCHANGED <<view, session, timers, redirect, lag, seen>>
  BY DEF Submit
<1>1. CountersTrue'
  BY <1>0 DEF FormInv, CountersTrue, HasSession
<1>2. CASE ~busy /\ busy' = TRUE /\ Start(kind)
  <2>1. calls' \in Seq(Calls) /\ OneCallAtATime' /\ Latest'
    BY <1>0, <1>2, Started DEF Kinds
  <2> QED
    BY <1>0, <1>1, <1>2, <2>1 DEF FormInv, Away, Typed, SeenTyped
<1>3. CASE UNCHANGED <<busy, calls>>
  BY <1>0, <1>1, <1>3 DEF FormInv, Away, Typed, SeenTyped, OneCallAtATime, Latest
<1> QED
  BY <1>2, <1>3 DEF Submit

(* Steps that touch neither a call nor the session.                        *)
LEMMA Idle ==
    ASSUME FormInv, UNCHANGED <<busy, session, timers, calls, seen>>,
           view' \in Views, view' \in {"verify_email", "away"} => view' = view,
           recent' \in BOOLEAN, lag' \in BOOLEAN,
           redirect' \in 1..Redirect \cup {NoRedirect}
    PROVE  FormInv'
BY DEF FormInv, Away, Typed, SeenTyped, OneCallAtATime, Latest, CountersTrue, HasSession

LEMMA ShowViewForm == ASSUME FormInv, ShowView PROVE FormInv'
<1>1. view' \in {"login", "signup", "forgot_password"}
  BY DEF ShowView
<1> QED
  BY <1>1, Idle DEF ShowView, Views, FormInv, Typed

LEMMA CountdownForm == ASSUME FormInv, Countdown PROVE FormInv'
<1>1. redirect' \in 1..Redirect \cup {NoRedirect}
  BY Limits DEF Countdown, FormInv, Typed, NoRedirect
<1> QED
  BY <1>1, Idle DEF Countdown, Views, FormInv, Typed

LEMMA CodeCompleteForm == ASSUME FormInv, CodeComplete PROVE FormInv'
<1>1. session \in Pending
  BY DEF CodeComplete, HasSession, FormInv, Typed, Pending
<1>2. timers' \in Seq(Pending) /\ Len(timers') <= MaxTimers
  BY <1>1, Limits, AppendProperties, LenProperties DEF CodeComplete, FormInv, Typed
<1> QED
  BY <1>2 DEF CodeComplete, FormInv, Away, Typed, SeenTyped, OneCallAtATime, Latest, CountersTrue,
              HasSession

(* The code is sent with the session it captured: another one than on      *)
(* screen, or a second call, counts as an overlap.                         *)
LEMMA VerifyForm == ASSUME FormInv, handleVerify PROVE FormInv'
<1> DEFINE s == Head(timers)
           call == [kind |-> "verify", session |-> s]
<1>1. /\ s \in Pending /\ timers' \in Seq(Pending)
      /\ Len(timers') <= MaxTimers
  BY Limits, HeadTailProperties, LenProperties DEF handleVerify, FormInv, Typed
<1>2. UNCHANGED <<view, session, recent, redirect, lag>> /\ view # "away"
  BY DEF handleVerify, FormInv, Away
<1>3. CASE UNCHANGED <<busy, calls, seen>>
  BY <1>1, <1>2, <1>3 DEF FormInv, Away, Typed, SeenTyped, OneCallAtATime, Latest, CountersTrue,
                          HasSession
<1>4. CASE /\ busy' = TRUE /\ calls' = Append(calls, call)
           /\ seen' = [seen EXCEPT !.overlap = @ \/ calls # <<>> \/ s # session]
  <2>1. /\ SeenTyped' /\ seen'.wrong = seen.wrong /\ seen'.resent = seen.resent
        /\ ~seen'.overlap => ~seen.overlap /\ calls = <<>> /\ s = session
    BY <1>4 DEF FormInv, Typed, SeenTyped
  <2>2. call \in Calls
    BY <1>1 DEF Calls, Kinds, Pending
  <2>3. /\ calls' \in Seq(Calls) /\ Len(calls') = Len(calls) + 1 /\ calls' # <<>>
        /\ DOMAIN calls' = 1..Len(calls') /\ calls'[Len(calls) + 1] = call
    BY <1>4, <2>2, AppendProperties, LenProperties DEF FormInv, Typed
  <2>4. calls = <<>> => Len(calls) = 0
    BY EmptySeq
  <2>5. OneCallAtATime'
    BY <1>4, <2>1, <2>3, <2>4 DEF OneCallAtATime
  <2>6. Latest'
    BY <1>2, <2>1, <2>3, <2>4 DEF Latest
  <2>7. CountersTrue'
    BY <1>2, <2>1 DEF CountersTrue, HasSession, FormInv
  <2> QED
    BY <1>1, <1>2, <1>4, <2>1, <2>3, <2>5, <2>6, <2>7 DEF FormInv, Away, Typed
<1> QED
  BY <1>3, <1>4 DEF handleVerify

LEMMA ResendForm == ASSUME FormInv, handleResend PROVE FormInv'
<1>1. session \in Sessions
  BY DEF handleResend, HasSession, FormInv, Typed
<1>2. calls' \in Seq(Calls) /\ OneCallAtATime' /\ Latest'
  BY <1>1, Started DEF handleResend, Kinds
<1> QED
  BY <1>2 DEF handleResend, FormInv, Away, Typed, SeenTyped, CountersTrue, HasSession

(* The end of a call.  With no overlap it was the only one.                *)
LEMMA CallEnds ==
    ASSUME FormInv, NEW i \in DOMAIN calls, calls' = RemoveAt(calls, i)
    PROVE  /\ calls' \in Seq(Calls)
           /\ ~seen.overlap => /\ calls' = <<>> /\ Len(calls') = 0 /\ DOMAIN calls' = {}
                               /\ calls[i].kind \in OfCode => calls[i].session = session
<1>1. calls' \in Seq(Calls) /\ Len(calls') = Len(calls) - 1
  BY Removed DEF FormInv, Typed
<1>2. Len(calls) \in Nat /\ i \in 1..Len(calls) /\ DOMAIN calls' = 1..Len(calls')
  BY <1>1, LenProperties DEF FormInv, Typed
<1>3. ~seen.overlap => Len(calls') = 0
  BY <1>1, <1>2 DEF FormInv, OneCallAtATime
<1> QED
  BY <1>1, <1>2, <1>3, EmptySeq DEF FormInv, Latest

LEMMA RejectForm == ASSUME FormInv, NEW i \in DOMAIN calls, Reject(i) PROVE FormInv'
<1>1. /\ SeenTyped' /\ seen'.broken /\ seen'.overlap = seen.overlap
      /\ seen'.wrong = seen.wrong /\ seen'.resent = seen.resent
  BY DEF Reject, FormInv, Typed, SeenTyped
<1>2. /\ calls' \in Seq(Calls)
      /\ ~seen.overlap => calls' = <<>> /\ Len(calls') = 0 /\ DOMAIN calls' = {}
  BY CallEnds DEF Reject
<1>3. UNCHANGED <<view, busy, session, timers, recent, redirect, lag>> /\ view # "away"
  BY DEF Reject
<1>4. OneCallAtATime' /\ Latest'
  BY <1>1, <1>2 DEF OneCallAtATime, Latest
<1>5. CountersTrue'
  BY <1>1, <1>3 DEF CountersTrue, HasSession, FormInv
<1> QED
  BY <1>1, <1>2, <1>3, <1>4, <1>5 DEF FormInv, Away, Typed

(* An answer leaves the form idle and, without overlap, no call.           *)
LEMMA AnswerIdle ==
    ASSUME FormInv, NEW i \in DOMAIN calls, Answer(i), seen'.overlap = seen.overlap
    PROVE  calls' \in Seq(Calls) /\ OneCallAtATime' /\ Latest'
<1>1. /\ calls' \in Seq(Calls)
      /\ ~seen.overlap => calls' = <<>> /\ Len(calls') = 0 /\ DOMAIN calls' = {}
  BY CallEnds DEF Answer
<1>2. ~busy'
  BY DEF Answer, Settled
<1> QED
  BY <1>1, <1>2 DEF OneCallAtATime, Latest

LEMMA AnswerForm == ASSUME FormInv, NEW i \in DOMAIN calls, Answer(i) PROVE FormInv'
<1> DEFINE c == calls[i]
<1>1. /\ busy' = FALSE /\ UNCHANGED <<timers, recent, lag>>
      /\ view \notin {"signed_in", "away"}
  BY DEF Answer, Settled
<1>2. c \in Calls
  BY ElementOfSeq, LenProperties DEF FormInv, Typed
<1>3. CASE SignIn
  <2>1. calls' \in Seq(Calls) /\ OneCallAtATime' /\ Latest'
    BY <1>3, AnswerIdle DEF SignIn
  <2> QED
    BY <1>1, <1>3, <2>1 DEF SignIn, Views, FormInv, Away, Typed, SeenTyped, CountersTrue, HasSession
<1>4. CASE Refused
  <2>1. calls' \in Seq(Calls) /\ OneCallAtATime' /\ Latest'
    BY <1>4, AnswerIdle DEF Refused
  <2> QED
    BY <1>1, <1>4, <2>1 DEF Refused, FormInv, Away, Typed, SeenTyped, CountersTrue, HasSession
<1>5. CASE Registered
  <2>1. /\ SeenTyped' /\ seen'.overlap = seen.overlap /\ seen'.wrong = 0 /\ seen'.resent = 0
    BY <1>5 DEF Registered, FormInv, Typed, SeenTyped
  <2>2. calls' \in Seq(Calls) /\ OneCallAtATime' /\ Latest'
    BY <2>1, AnswerIdle
  <2>3. /\ session' \in Sessions /\ session' # NoSession
        /\ session'.attempts = 0 /\ session'.resendCount = 0
    BY <1>5, IssuedTyped, Limits, RealSession DEF Registered
  <2>4. CountersTrue'
    BY <2>1, <2>3 DEF CountersTrue, HasSession
  <2> QED
    BY <1>1, <1>5, <2>1, <2>2, <2>3, <2>4 DEF Registered, Views, FormInv, Away, Typed
<1>6. CASE c.kind = "verify" /\ WrongCode(c.session)
  <2>1. c.session \in Pending
    BY <1>2, <1>6 DEF Calls
  <2>2. /\ SeenTyped' /\ seen'.overlap = seen.overlap /\ seen'.resent = seen.resent
        /\ ~seen.overlap => seen'.wrong = seen.wrong + 1
    <3> DEFINE w == IF seen.overlap THEN seen.wrong ELSE seen.wrong + 1
    <3>1. SeenTyped
      BY DEF FormInv, Typed
    <3>2. w \in Nat /\ (~seen.overlap => w = seen.wrong + 1)
      BY <3>1 DEF SeenTyped
    <3>3. seen' = [seen EXCEPT !.wrong = w]
      BY <1>6 DEF WrongCode
    <3> HIDE DEF w
    <3> QED
      BY <3>1, <3>2, <3>3 DEF SeenTyped
  <2>3. calls' \in Seq(Calls) /\ OneCallAtATime' /\ Latest'
    BY <2>2, AnswerIdle
  <2>4. /\ session' \in Sessions /\ session' # NoSession
        /\ session'.attempts = c.session.attempts + 1
        /\ session'.resendCount = c.session.resendCount
    BY <1>6, <2>1, WrongTyped, RealSession DEF WrongCode
  <2>5. ~seen.overlap => c.session = session
    BY <1>6, CallEnds DEF Answer, OfCode
  <2>6. CountersTrue'
    <3>1. c.session # NoSession
      BY <2>1, RealSession DEF Pending
    <3> QED
      BY <2>2, <2>4, <2>5, <3>1 DEF CountersTrue, HasSession, FormInv
  <2> QED
    BY <1>1, <1>6, <2>2, <2>3, <2>4, <2>6 DEF WrongCode, FormInv, Away, Typed
<1>7. CASE c.kind = "resend" /\ Resent(c.session)
  <2>1. c.session \in Sessions /\ c.session.resendCount < MAX_RESENDS
    BY <1>2, <1>7 DEF Calls
  <2>2. /\ SeenTyped' /\ seen'.overlap = seen.overlap /\ seen'.wrong = 0
        /\ ~seen.overlap => seen'.resent = seen.resent + 1
    <3> DEFINE w == IF seen.overlap THEN seen.resent ELSE seen.resent + 1
    <3>1. SeenTyped
      BY DEF FormInv, Typed
    <3>2. w \in Nat /\ (~seen.overlap => w = seen.resent + 1)
      BY <3>1 DEF SeenTyped
    <3>3. seen' = [seen EXCEPT !.wrong = 0, !.resent = w]
      BY <1>7 DEF Resent
    <3> HIDE DEF w
    <3> QED
      BY <3>1, <3>2, <3>3 DEF SeenTyped
  <2>3. calls' \in Seq(Calls) /\ OneCallAtATime' /\ Latest'
    BY <2>2, AnswerIdle
  <2>4. c.session.resendCount + 1 \in 0..MAX_RESENDS
    BY <2>1, Limits DEF Sessions
  <2>5. /\ session' \in Sessions /\ session' # NoSession /\ session'.attempts = 0
        /\ session'.resendCount = c.session.resendCount + 1
    BY <1>7, <2>4, IssuedTyped, RealSession DEF Resent
  <2>6. ~seen.overlap => c.session = session
    BY <1>7, CallEnds DEF Answer, OfCode
  <2>7. CountersTrue'
    <3>1. c.session # NoSession
      BY <2>1, RealSession
    <3> QED
      BY <2>2, <2>5, <2>6, <3>1 DEF CountersTrue, HasSession, FormInv
  <2> QED
    BY <1>1, <1>7, <2>2, <2>3, <2>5, <2>7 DEF Resent, FormInv, Away, Typed
<1>8. CASE RecoveryAsked
  <2>1. calls' \in Seq(Calls) /\ OneCallAtATime' /\ Latest'
    BY <1>8, AnswerIdle DEF RecoveryAsked
  <2>2. redirect' \in 1..Redirect \cup {NoRedirect}
    BY <1>8, Limits DEF RecoveryAsked
  <2> QED
    BY <1>1, <1>8, <2>1, <2>2 DEF RecoveryAsked, FormInv, Away, Typed, SeenTyped, CountersTrue,
                                  HasSession
<1> QED
  BY <1>3, <1>4, <1>5, <1>6, <1>7, <1>8 DEF Answer

(* A page that goes takes its calls, codes and session with it.            *)
LEMMA NewPageForm ==
    ASSUME FormInv, NEW v \in {"login", "away"}, NewPage(v), UNCHANGED <<lag, seen>>
    PROVE  FormInv'
<1>1. /\ timers' \in Seq(Pending) /\ Len(timers') <= MaxTimers /\ timers' = <<>>
      /\ calls' = <<>> /\ calls' \in Seq(Calls) /\ Len(calls') = 0 /\ DOMAIN calls' = {}
  BY EmptySeq, LenProperties, Limits DEF NewPage
<1>2. OneCallAtATime' /\ Latest' /\ CountersTrue'
  BY <1>1 DEF NewPage, OneCallAtATime, Latest, CountersTrue, HasSession
<1> QED
  BY <1>1, <1>2 DEF NewPage, FormInv, Typed, SeenTyped, Views, Away

LEMMA GiveUpForm == ASSUME FormInv, GiveUp PROVE FormInv'
BY Idle DEF GiveUp, formVars, Views, FormInv, Typed

LEMMA ReturnForm == ASSUME FormInv, NEW n \in Nat, ReturnFromGoogle(n),
                           google.verifier \in Nat
                    PROVE  FormInv'
<1>1. view = "away" /\ view' = "login" /\ UNCHANGED <<session, timers, recent, redirect, lag>>
  BY DEF ReturnFromGoogle
<1>2. CASE UNCHANGED <<busy, calls, seen>>
  BY <1>1, <1>2, Idle DEF Views, FormInv, Typed
<1>3. CASE /\ busy' = TRUE /\ Start("google")
           /\ seen' = [seen EXCEPT !.exchanges = Append(@, <<n, google.verifier>>)]
  <2>1. Append(seen.exchanges, <<n, google.verifier>>) \in Seq(Nat \X Nat)
    BY AppendProperties DEF FormInv, Typed, SeenTyped
  <2>2. /\ SeenTyped' /\ seen'.overlap = seen.overlap
        /\ seen'.wrong = seen.wrong /\ seen'.resent = seen.resent
    BY <1>3, <2>1 DEF FormInv, Typed, SeenTyped
  <2>3. ~busy
    BY <1>1 DEF FormInv, Away
  <2>4. calls' \in Seq(Calls) /\ OneCallAtATime' /\ Latest'
    BY <1>1, <1>3, <2>2, <2>3, Started DEF Kinds
  <2> QED
    BY <1>1, <1>3, <2>2, <2>4 DEF FormInv, Away, Typed, Views, CountersTrue, HasSession
<1> QED
  BY <1>2, <1>3 DEF ReturnFromGoogle

(* Time passes for the session on screen and for the captured ones alike.  *)
LEMMA TickForm == ASSUME FormInv, Tick PROVE FormInv'
<1>1. /\ session' = Aged(session) /\ recent' = FALSE /\ lag' = TRUE
      /\ UNCHANGED <<view, busy, timers, redirect, seen>>
      /\ calls' = [i \in DOMAIN calls |-> [calls[i] EXCEPT !.session = Aged(@)]]
  BY DEF Tick
<1>2. /\ Len(calls) \in Nat /\ DOMAIN calls = 1..Len(calls)
      /\ \A i \in 1..Len(calls) : calls[i] \in Calls
  BY ElementOfSeq, LenProperties DEF FormInv, Typed
<1>3. ASSUME NEW c \in Calls
      PROVE  /\ [c EXCEPT !.session = Aged(@)] \in Calls
             /\ [c EXCEPT !.session = Aged(@)].kind = c.kind
             /\ [c EXCEPT !.session = Aged(@)].session = Aged(c.session)
  <2>1. /\ c \in [kind : Kinds, session : Sessions \cup {NoSession}]
        /\ c.kind = "verify" => c.session \in Sessions
                                /\ c.session.attempts < MAX_VERIFICATION_ATTEMPTS
        /\ c.kind = "resend" => c.session \in Sessions
                                /\ c.session.resendCount < MAX_RESENDS
    BY DEF Calls, Pending
  <2>2. /\ Aged(c.session) \in Sessions \cup {NoSession}
        /\ c.session \in Sessions => /\ Aged(c.session) \in Sessions
                                     /\ Aged(c.session).attempts = c.session.attempts
                                     /\ Aged(c.session).resendCount = c.session.resendCount
    BY <2>1, AgedTyped
  <2>3. /\ [c EXCEPT !.session = Aged(@)] \in [kind : Kinds,
                                               session : Sessions \cup {NoSession}]
        /\ [c EXCEPT !.session = Aged(@)].kind = c.kind
        /\ [c EXCEPT !.session = Aged(@)].session = Aged(c.session)
    BY <2>1, <2>2
  <2> QED
    BY <2>1, <2>2, <2>3 DEF Calls, Pending
<1>4. calls' \in [1..Len(calls) -> Calls]
  BY <1>1, <1>2, <1>3
<1>5. calls' \in Seq(Calls)
  BY <1>2, <1>4, SeqDef
<1>6. Len(calls') = Len(calls) /\ DOMAIN calls' = DOMAIN calls
  BY <1>2, <1>4, <1>5, LenProperties
<1>7. OneCallAtATime'
  <2>1. calls' = <<>> <=> calls = <<>>
    BY <1>5, <1>6, EmptySeq DEF FormInv, Typed
  <2> QED
    BY <1>1, <1>6, <2>1 DEF OneCallAtATime, FormInv
<1>8. Latest'
  <2>1. ASSUME NEW i \in DOMAIN calls
        PROVE  calls'[i].kind = calls[i].kind /\ calls'[i].session = Aged(calls[i].session)
    BY <1>1, <1>2, <1>3, <2>1
  <2> QED
    BY <1>1, <1>6, <2>1 DEF Latest, FormInv
<1>9. session' \in Sessions \cup {NoSession} /\ CountersTrue'
  <2>1. session \in Sessions \cup {NoSession}
    BY DEF FormInv, Typed
  <2> QED
    BY <1>1, <2>1, AgedTyped DEF CountersTrue, HasSession, FormInv
<1> QED
  BY <1>1, <1>5, <1>7, <1>8, <1>9 DEF FormInv, Away, Typed, SeenTyped

-----------------------------------------------------------------------------
(* Counters of calls.                                                      *)
LEMMA InitRates == Init => RatesRight
BY Limits DEF Init, RatesRight, Keys, Limit

LEMMA SubmitRates ==
    ASSUME RatesRight, NEW k \in Keys, canAttempt(k), recordAttempt(k) PROVE RatesRight'
<1> DEFINE next == IF Over(k) THEN [count |-> 1, left |-> Window]
                   ELSE [rates[k] EXCEPT !.count = @ + 1]
<1>1. /\ rates[k] \in [count : Nat, left : -1..Window] /\ rates[k].count \in 0..Limit[k]
      /\ Limit[k] \in 3..5
  BY DEF RatesRight, Keys, Limit
<1>2. next \in [count : Nat, left : -1..Window] /\ next.count \in 0..Limit[k]
  BY <1>1, Limits DEF canAttempt, Over
<1>3. rates' = [rates EXCEPT ![k] = next]
  BY DEF recordAttempt
<1> HIDE DEF next
<1> QED
  BY <1>2, <1>3 DEF RatesRight

LEMMA TickRates == ASSUME RatesRight, Tick PROVE RatesRight'
<1>1. \A k \in Keys : Less(rates[k].left, -1) \in -1..Window
  BY Limits DEF RatesRight, Less
<1> QED
  BY <1>1 DEF Tick, RatesRight

-----------------------------------------------------------------------------
(* The detour.                                                             *)
LEMMA InitGoogle == Init => GoogleInv
<1> SUFFICES ASSUME Init PROVE GoogleInv
  OBVIOUS
<1>1. google = [state |-> 0, verifier |-> 0, starting |-> {}, trip |-> 0,
                trips |-> 0, reached |-> {}]
  BY DEF Init
<1>2. DOMAIN seen.exchanges = {}
  BY EmptySeq, LenProperties DEF Init
<1> QED
  BY <1>1, <1>2 DEF GoogleInv, Detour, Exchanged, ExchangeMatches, IsInjective

LEMMA SameExchanges ==
    ASSUME seen'.exchanges = seen.exchanges
    PROVE  Exchanged' = Exchanged /\ (ExchangeMatches => ExchangeMatches')
BY DEF Exchanged, ExchangeMatches

LEMMA StartGoogle ==
    ASSUME GoogleInv, StartOAuth PROVE GoogleInv'
<1> DEFINE t == google.trips + 1
<1>1. google' = [google EXCEPT !.trips = t, !.starting = @ \cup {t}] /\ seen' = seen
  BY DEF StartOAuth
<1>2. /\ t \in Nat \ {0}
      /\ \A n \in google.starting \cup {google.state} \cup Exchanged : n <= t /\ n # t
  BY DEF GoogleInv, Detour
<1>3. Exchanged' = Exchanged /\ (ExchangeMatches => ExchangeMatches')
  BY <1>1, SameExchanges
<1> HIDE DEF t
<1>4. google'.starting = google.starting \cup {t} /\ google'.trips = t
      /\ google'.state = google.state /\ google'.verifier = google.verifier
  BY <1>1 DEF GoogleInv, Detour
<1>5. google' \in Detour
  BY <1>1, <1>2 DEF GoogleInv, Detour
<1>6. /\ \A n \in google'.starting \cup {google'.state} : n <= google'.trips
      /\ \A n \in Exchanged' : n # 0 /\ n <= google'.trips /\ n # google'.state
                               /\ n \notin google'.starting
  <2>1. \A n \in google'.starting \cup {google'.state} : n <= t
    BY <1>2, <1>4
  <2>2. \A n \in Exchanged : n # 0 /\ n # google.state /\ n \notin google.starting
                            /\ n <= t /\ n # t
    BY <1>2 DEF GoogleInv, Detour
  <2> QED
    BY <1>3, <1>4, <2>1, <2>2
<1>7. google'.state = google'.verifier /\ google'.state \notin google'.starting
  BY <1>2, <1>4 DEF GoogleInv, Detour
<1> QED
  BY <1>3, <1>5, <1>6, <1>7 DEF GoogleInv

LEMMA AssignGoogle ==
    ASSUME GoogleInv, NEW n \in Nat, AssignLocation(n) PROVE GoogleInv'
BY DEF AssignLocation, GoogleInv, Detour, Exchanged, ExchangeMatches

LEMMA LeaveGoogle == ASSUME GoogleInv, Reload \/ LeaveForGoogle PROVE GoogleInv'
<1>1. UNCHANGED seen
  BY DEF Reload, LeaveForGoogle
<1>2. Exchanged' = Exchanged /\ (ExchangeMatches => ExchangeMatches')
  BY <1>1, SameExchanges
<1>3. /\ google' \in Detour
      /\ google'.starting = {} /\ google'.trips = google.trips
      /\ google'.state = google.state /\ google'.verifier = google.verifier
  <2>1. CASE Reload
    BY <2>1 DEF Reload, GoogleInv, Detour
  <2>2. CASE LeaveForGoogle
    BY <2>2 DEF LeaveForGoogle, GoogleInv, Detour
  <2> QED
    BY <2>1, <2>2
<1> QED
  BY <1>2, <1>3 DEF GoogleInv

(* The exchange uses up state and verifier together.                       *)
LEMMA ReturnGoogle ==
    ASSUME Typed, GoogleInv, NEW n \in Nat \ {0}, ReturnFromGoogle(n) PROVE GoogleInv'
<1>1. CASE UNCHANGED <<google, seen>>
  BY <1>1 DEF GoogleInv, Exchanged, ExchangeMatches
<1>2. CASE /\ google.state = n
           /\ google' = [google EXCEPT !.state = 0, !.verifier = 0]
           /\ seen' = [seen EXCEPT !.exchanges = Append(@, <<n, google.verifier>>)]
  <2> DEFINE old == seen.exchanges
             new == seen'.exchanges
  <2>1. old \in Seq(Nat \X Nat) /\ google.verifier = n
    BY <1>2 DEF GoogleInv, Detour, Typed, SeenTyped
  <2>2. new = Append(old, <<n, n>>)
    BY <1>2, <2>1 DEF Typed, SeenTyped
  <2>3. /\ Len(old) \in Nat /\ DOMAIN old = 1..Len(old)
        /\ DOMAIN new = 1..(Len(old) + 1)
        /\ \A i \in 1..Len(old) : new[i] = old[i]
        /\ new[Len(old) + 1] = <<n, n>>
    BY <2>1, <2>2, AppendProperties, LenProperties
  <2>4. \A i \in DOMAIN old : /\ old[i] \in Nat \X Nat /\ old[i][1] \in Exchanged
                              /\ old[i][1] = old[i][2]
    BY <2>1, <2>3, ElementOfSeq DEF GoogleInv, Exchanged, ExchangeMatches
  <2>5. \A i \in DOMAIN old : old[i] # <<n, n>>
    BY <1>2, <2>4 DEF GoogleInv
  <2>6. Exchanged' = Exchanged \cup {n}
    <3>1. Exchanged' = {new[i][1] : i \in 1..(Len(old) + 1)}
      BY <2>3 DEF Exchanged
    <3>2. Exchanged = {old[i][1] : i \in 1..Len(old)}
      BY <2>3 DEF Exchanged
    <3> HIDE DEF old, new
    <3>3. Len(old) + 1 \in 1..(Len(old) + 1) /\ new[Len(old) + 1][1] = n
      BY <2>3
    <3>4. \A i \in 1..(Len(old) + 1) : i \in 1..Len(old) \/ i = Len(old) + 1
      BY <2>3
    <3>5. \A i \in 1..Len(old) : i \in 1..(Len(old) + 1)
      BY <2>3
    <3> QED
      BY <2>3, <3>1, <3>2, <3>3, <3>4, <3>5
  <2>7. ExchangeMatches'
    <3>1. \A i \in DOMAIN new : new[i][1] = new[i][2]
      BY <2>3, <2>4
    <3>2. \A i, j \in DOMAIN old : old[i] = old[j] => i = j
      BY DEF GoogleInv, ExchangeMatches, IsInjective
    <3> DEFINE last == Len(old) + 1
    <3>3. \A i \in DOMAIN new : i \in DOMAIN old \/ i = last
      BY <2>3
    <3>4. \A i \in DOMAIN old : new[i] = old[i] /\ new[i] # <<n, n>>
      BY <2>3, <2>5
    <3>5. new[last] = <<n, n>>
      BY <2>3
    <3> HIDE DEF last, old, new
    <3>6. \A i, j \in DOMAIN new : new[i] = new[j] => i = j
      BY <3>2, <3>3, <3>4, <3>5, Zenon
    <3> USE DEF new
    <3> QED
      BY <3>1, <3>6 DEF ExchangeMatches, IsInjective
  <2>8. /\ google' \in Detour
        /\ google'.starting = google.starting /\ google'.trips = google.trips
        /\ google'.state = 0 /\ google'.verifier = 0
    BY <1>2 DEF GoogleInv, Detour
  <2> QED
    BY <1>2, <2>6, <2>7, <2>8 DEF GoogleInv, Detour
<1> QED
  BY <1>1, <1>2 DEF ReturnFromGoogle

-----------------------------------------------------------------------------
SignInInv == FormInv /\ RatesRight /\ GoogleInv

LEMMA InitSignIn == Init => SignInInv
BY InitForm, InitRates, InitGoogle DEF SignInInv

(* A step that leaves the detour and its exchanges alone.                  *)
LEMMA NoDetour ==
    ASSUME GoogleInv, UNCHANGED google, seen'.exchanges = seen.exchanges PROVE GoogleInv'
BY SameExchanges DEF GoogleInv

LEMMA AnswerSteps == ASSUME SignInInv, AnswerSome PROVE SignInInv'
<1>1. PICK i \in DOMAIN calls : Answer(i) \/ Reject(i)
  BY DEF AnswerSome
<1>2. FormInv'
  BY <1>1, AnswerForm, RejectForm DEF SignInInv
<1>3. UNCHANGED rates /\ UNCHANGED google
  BY <1>1 DEF Answer, Reject
<1>4. seen'.exchanges = seen.exchanges
  <2>1. SeenTyped
    BY DEF SignInInv, FormInv, Typed
  <2>2. CASE SignIn \/ Refused \/ RecoveryAsked
    BY <2>2 DEF SignIn, Refused, RecoveryAsked
  <2>3. CASE Registered \/ Reject(i)
    BY <2>1, <2>3 DEF Registered, Reject, SeenTyped
  <2>4. ASSUME NEW s, WrongCode(s) \/ Resent(s) PROVE seen'.exchanges = seen.exchanges
    BY <2>1, <2>4 DEF WrongCode, Resent, SeenTyped
  <2> QED
    BY <1>1, <2>2, <2>3, <2>4 DEF Answer
<1>5. GoogleInv'
  BY <1>3, <1>4, NoDetour DEF SignInInv
<1> QED
  BY <1>2, <1>3, <1>5 DEF SignInInv, RatesRight

LEMMA FormStepsKeep == ASSUME SignInInv, FormSteps PROVE SignInInv'
<1>1. CASE handleLogin \/ handleSignup \/ handleRecovery
  <2>1. PICK from \in {"login", "signup", "forgot_password"},
             kind \in {"login", "register", "recovery"}, k \in Keys : Submit(from, kind, k)
    BY <1>1 DEF handleLogin, handleSignup, handleRecovery, Keys
  <2>2. FormInv'
    BY <2>1, SubmitForm DEF SignInInv
  <2>3. RatesRight'
    BY <2>1, SubmitRates DEF Submit, SignInInv, RatesRight
  <2>4. GoogleInv'
    BY <2>1, NoDetour DEF Submit, SignInInv
  <2> QED
    BY <2>2, <2>3, <2>4 DEF SignInInv
<1>2. CASE ShowView \/ Countdown
  <2>1. UNCHANGED <<rates, google, seen>>
    BY <1>2 DEF ShowView, Countdown
  <2>2. FormInv' /\ GoogleInv'
    BY <1>2, <2>1, ShowViewForm, CountdownForm, NoDetour DEF SignInInv
  <2> QED
    BY <2>1, <2>2 DEF SignInInv, RatesRight
<1>3. CASE Reload
  <2>1. FormInv' /\ GoogleInv'
    BY <1>3, NewPageForm, LeaveGoogle DEF SignInInv, Reload
  <2> QED
    BY <1>3, <2>1 DEF SignInInv, RatesRight, Reload
<1> QED
  BY <1>1, <1>2, <1>3 DEF FormSteps

LEMMA CodeStepsKeep == ASSUME SignInInv, VerifySteps \/ Tick \/ ShowTime PROVE SignInInv'
<1>1. FormInv'
  <2>1. CASE ShowTime
    BY <2>1, Idle DEF ShowTime, formVars, SignInInv, FormInv, Typed
  <2> QED
    BY <2>1, CodeCompleteForm, VerifyForm, ResendForm, TickForm DEF VerifySteps, SignInInv
<1>2. UNCHANGED google /\ seen'.exchanges = seen.exchanges
  <2>1. SeenTyped
    BY DEF SignInInv, FormInv, Typed
  <2>2. CASE handleVerify
    BY <2>1, <2>2 DEF handleVerify, SeenTyped
  <2> QED
    BY <2>2 DEF VerifySteps, CodeComplete, handleResend, Tick, ShowTime
<1>3. RatesRight'
  <2>1. CASE Tick
    BY <2>1, TickRates DEF SignInInv
  <2>2. CASE UNCHANGED rates
    BY <2>2 DEF SignInInv, RatesRight
  <2> QED
    BY <2>1, <2>2 DEF VerifySteps, CodeComplete, handleVerify, handleResend, ShowTime
<1> QED
  BY <1>1, <1>2, <1>3, NoDetour DEF SignInInv

LEMMA OAuthStepsKeep == ASSUME SignInInv, OAuthSteps PROVE SignInInv'
<1>1. \A n \in 1..MaxTrips : n \in Nat \ {0}
  BY FormAssumption DEF FormAssumption
<1>2. UNCHANGED rates
  BY DEF OAuthSteps, StartOAuth, LeaveForGoogle, GiveUp, AssignLocation, ReturnFromGoogle
<1>3. CASE StartOAuth
  <2>1. FormInv'
    BY <1>3, Idle DEF StartOAuth, SignInInv, FormInv, Typed
  <2> QED
    BY <1>2, <1>3, <2>1, StartGoogle DEF SignInInv, RatesRight
<1>4. CASE LeaveForGoogle
  <2>1. FormInv'
    BY <1>4, NewPageForm DEF LeaveForGoogle, SignInInv
  <2> QED
    BY <1>2, <1>4, <2>1, LeaveGoogle DEF SignInInv, RatesRight
<1>5. CASE GiveUp
  <2>1. GoogleInv'
    BY <1>5, NoDetour DEF GiveUp, SignInInv
  <2> QED
    BY <1>2, <1>5, <2>1, GiveUpForm DEF SignInInv, RatesRight
<1>6. ASSUME NEW n \in 1..MaxTrips, AssignLocation(n) PROVE SignInInv'
  <2>1. FormInv'
    BY <1>6, Idle DEF AssignLocation, SignInInv, FormInv, Typed
  <2> QED
    BY <1>1, <1>2, <1>6, <2>1, AssignGoogle DEF SignInInv, RatesRight
<1>7. ASSUME NEW n \in 1..MaxTrips, ReturnFromGoogle(n) PROVE SignInInv'
  <2>1. google.verifier \in Nat
    BY DEF SignInInv, GoogleInv, Detour
  <2>2. FormInv' /\ GoogleInv'
    BY <1>1, <1>7, <2>1, ReturnForm, ReturnGoogle DEF SignInInv, FormInv
  <2> QED
    BY <1>2, <2>2 DEF SignInInv, RatesRight
<1> QED
  BY <1>3, <1>4, <1>5, <1>6, <1>7 DEF OAuthSteps

LEMMA SignInInvariant == Spec => []SignInInv
<1>1. ASSUME SignInInv, [Next]_vars PROVE SignInInv'
  <2>1. CASE UNCHANGED vars
    BY <1>1, <2>1 DEF vars, formVars, SignInInv, FormInv, Typed, SeenTyped, OneCallAtATime,
       Latest, CountersTrue, HasSession, Away, RatesRight, GoogleInv, Exchanged, ExchangeMatches
  <2> QED
    BY <1>1, <2>1, AnswerSteps, FormStepsKeep, CodeStepsKeep, OAuthStepsKeep DEF Next
<1> QED
  BY <1>1, InitSignIn, PTL DEF Spec

-----------------------------------------------------------------------------
(* Whatever is clicked, and however answers, clocks and journeys mix,      *)
(* counters stay within their limits (AuthGateway.tsx).                    *)
THEOREM FormTyped == Spec => []TypeOK
<1>1. ASSUME SignInInv PROVE TypeOK
  <2>1. timers \in Seq(Sessions)
    <3>1. Pending \subseteq Sessions
      BY DEF Pending
    <3> QED
      BY <1>1, <3>1, SeqMonotonic DEF SignInInv, FormInv, Typed
  <2>2. \A i \in DOMAIN calls : calls[i].session \in Sessions \cup {NoSession}
    <3>1. \A i \in DOMAIN calls : calls[i] \in Calls
      BY <1>1, ElementOfSeq, LenProperties DEF SignInInv, FormInv, Typed
    <3> QED
      BY <3>1 DEF Calls
  <2> QED
    BY <1>1, <2>1, <2>2 DEF TypeOK, SignInInv, FormInv, Typed, RatesRight
<1> QED
  BY <1>1, SignInInvariant, PTL

(* One call at a time, and the form is busy while it is under way, unless  *)
(* a code overlapped with another call (AuthGateway.tsx).                  *)
THEOREM OneCall == Spec => []OneCallAtATime
<1>1. SignInInv => OneCallAtATime
  BY DEF SignInInv, FormInv
<1> QED
  BY <1>1, SignInInvariant, PTL

(* The form's counters say how often a code was wrong and was sent again,  *)
(* although each answer writes the session its closure captured            *)
(* (handleVerify and handleResend).                                        *)
THEOREM CountersRight == Spec => []CountersTrue
<1>1. SignInInv => CountersTrue
  BY DEF SignInInv, FormInv
<1> QED
  BY <1>1, SignInInvariant, PTL

(* Of any number of journeys to Google, also of several started at once,   *)
(* each code is exchanged once and with its own verifier                   *)
(* (startGoogleOAuth and the effect that handles the return).              *)
THEOREM ExchangeRight == Spec => []ExchangeMatches
<1>1. SignInInv => ExchangeMatches
  BY DEF SignInInv, GoogleInv
<1> QED
  BY <1>1, SignInInvariant, PTL

=============================================================================
