# QED Hub: a verification project

QED Hub is a learning site for discrete mathematics. It has a Go authentication
service (`backend/`: HTTP handlers over Postgres and Redis) and a React front end
(`frontend/`: session handling in the browser, lessons, interactive tasks).
This directory holds TLA+ models of the parts that carry its logic, the TLC
configurations that check them on small instances, and theorems that TLAPS
proves for every value of the constants.

Paths below are relative to the repository.

## 1. The system

| Component | State it keeps | Operations | Talks to |
| --- | --- | --- | --- |
| Session handlers (`application/auth/login.go`, `token.go`, `logout.go`, `infrastructure/session_repo.go`) | the `sessions` table; local variables of each request goroutine | `Login`, `Refresh`, `Logout` | Postgres, the rate limiter, the browser's cookie |
| Rate limiter (`platform/redis/ratelimit.go`) | one Redis sorted set and its TTL per key | `Allow`, `AllowWithBackoff`, `Reset` | Redis, through a pipeline |
| CSRF protection (`frontend/src/auth/csrf.ts`, `handler.go` `CSRFToken`, `middleware/security.go`) | the browser's `csrf_token` cookie | `ensureCsrfToken`, `GET /csrf-token`, the comparing middleware | all mutating requests |
| Registration (`register.go`, `user_repo.go`, `cmd/seed`) | the `users` table, a detached mail goroutine | `Register`, the seeder, the account lookup of `Login` | Postgres, the mail service |
| Browser sessions (`frontend/src/auth/session.ts`, `App.tsx`) | the `refresh_token` cookie of a device, shared by its tabs; what each tab shows | `restoreSession` at page load, `logout`, login | the session handlers |
| Sign-in form (`AuthGateway.tsx`) | the view, the busy flag, rate windows in `sessionStorage`, the verification session and its three clocks, OAuth state and verifier | sign in, sign up, enter a code, resend, recover, go to Google and back | the auth endpoints |
| Lesson progress (`useLessonProgress.ts`) | answers, finished solution, visited pages, streak: in each tab and in `localStorage` | mount, answer, finish, visit, the save after each change | the application |
| Navigation and profile (`App.tsx`, `lessonTrack.ts`, `Practice.tsx`, `ProfilePage.tsx`) | screen, subtopic, page; profile, its form, photos being prepared | the screens' buttons and keys, the worked solution, edit, save, photo, logout | progress, `localStorage`, the session calls |
| Task engines (`tasks/engines.tsx`, `GT01Pages.tsx`, the banks `module41-43.ts`) | the student's work, the marks beside it, the verdict | toggle, type, pick, walk, clear, example, check | the graph functions of `taskkit.tsx`, `GraphVisuals.tsx` |
| Laboratories (`Labs.tsx`, pictures of `GT01Pages.tsx`) | a graph, a colouring, a walk driven by an interval | clicks, ticks | the graph functions |
| Access tokens (`platform/jwt`, `query.go`) | none (stateless) | `GenerateToken`, `ValidateToken`, `Me` | |
| Address and password rules (`domain/user`, `security.ts`) | none | `ParseEmail`, `Normalize`, `ParsePassword` | registration, login |
| Endpoints answering 501 (`verify.go`, `google.go`, `reset.go`) | none | | |
| Wiring, configuration, mail and Turnstile clients, content, layout | none of interest | | |

What is hard here:

* **Interleaving.** Each request is a goroutine and no handler uses a database
  transaction: every statement is a step of its own. `Refresh` reads a session,
  tests it, revokes it and inserts its successor in four statements.
* **Partial failure.** `Refresh` drops the errors of `Revoke` and
  `RevokeAllForUser`; `Register` commits an account before the steps that can
  still fail.
* **Loss.** The answer to a refresh may be lost after the old token is gone; a
  logout may not arrive; the client may disconnect in the middle of a statement.
* **Timeouts and crashes.** The router cancels a request's context after 60 s, the
  server drops answers after `WriteTimeout`, the process may stop anywhere.
* **Shared browser state.** Tabs share cookies: what a tab read before an `await`
  is compared with the cookie of a later moment.
* **Closures over old renders.** A handler resumes after its `await` with the state of
  the render it was created in: the sign-in form's verification session, the profile a
  photo is added to, the subtopic an answer was given in.
* **Whole-record writes.** Every tab stores all of its progress after each change, so the
  last writer wins; a write that fails is swallowed, or takes the page down.
* **Answer keys are data** and must agree with the drawings and with what the engines compute.
* **Redis pipelines** are not transactions: other clients' commands, and key
  expiry, come between the four commands of `Allow`.

What makes each component correct is stated at the head of its section below;
`PROJECT.json` lists the hazards line by line with the properties that watch them.

## 2. The modules

```
SessionLifecycle        what the session table promises, one step per request
   ^ implemented by
SessionHandlers  <----- BrowserSessions <--- BrowserProofs     (theorems)
   ^        ^
   |        +---------- ReuseSweep (history variable)
   +------------------- SessionProofs <--- BrowserProofs       (theorems)
RateLimiter  <--------- LimiterAnswers (history variable)
   ^------------------- RateLimiterProofs                      (theorems)
CsrfTokens   <--------- CsrfProofs                             (theorems)
Registration <--------- RegistrationProofs                     (theorems)
SignInForm   <--------- SignInFormProofs                       (theorems)
LessonProgress, LessonTracks  <--- StudentApp <--- StudentAppProofs    (theorems)
GraphTools <-- TaskBank <-- GraphFacts <--- TaskEngines, Labs
GraphTools <-- GraphSearch, ComponentSearch
TaskEngines, Labs, GraphSearch, ComponentSearch <--- ExerciseProofs    (theorems)
MCExercises             composes the same four
MC*                     instances for TLC
```

`A <-- B` reads: B EXTENDS A.

Operators marked `\* mutant` stand next to the definition they vary. No action
uses them; each is a plausible slip in the code that the properties must notice.

### SessionLifecycle and SessionHandlers

A row of `sessions` is named by its refresh token. The table stores its SHA-256
under a UNIQUE index next to a fresh UUID, so token, hash and id are in bijection.
`rows`, `owner`, `expiresAt` and `revoked` are the table; `req[h]` is the request
that goroutine `h` serves: the handler, the statement it is about to run, the
cookie it was given, the token it has drawn, whether its context still lives, its
answer. `delivered` holds the tokens whose `Set-Cookie` reached a client.

| Action | Code |
| --- | --- |
| `StartLogin`, `StartRefresh`, `StartLogout` | the head of the handler, up to the first call |
| `Limited` | `allow`, refusing or erring (429) |
| `LoginCheck` | `GetByEmail`, `ComparePasswordAndHash` |
| `RefreshLookup` | `GetByRefreshTokenHash` and the `IsRevoked` branch |
| `RefreshRevokeAll` | `RevokeAllForUser`, error dropped |
| `RefreshUser` | `IsValid` with the clock of that moment, `GetByID` |
| `RefreshRevoke`, `LogoutRevoke` | `Revoke`, error dropped |
| `Mint`, `Insert` | `newOpaqueToken` and `NewSession`; `Create` and the answer |
| `Deliver`, `Drop` | the answer arrives, or does not |
| `Cancel`, `Crash`, `Tick` | disconnect or 60 s timeout; process death; time |

A statement ends in one of three ways (`Exec`): done; `lost`, when it took effect
but the handler sees an error; failed. With a cancelled context pgx does not send it.
The token presented to `Refresh` or `Logout` is one that some client received, or
`NoToken` for a missing cookie and for a value that matches no row.

`parent` and `excused` are history: which session a row was rotated from, and for
which tokens the ignored `Revoke` failed. `req[h].dead` records that the token
was useless when the request came in.

*Correctness.* A dead token buys nothing; rotation leaves the old token revoked;
every token given out is stored, once, for the right account; revocation is for
ever; one device's requests end another device's session only on evidence of
reuse; once a token is revoked and nobody acts on an earlier read, its family is
closed; every request ends. `ImplementsLifecycle` says that the handlers, with
all their interleavings, implement `SessionLifecycle` (issue at login, exchange,
retire, retire all on reuse). The abstract `Exchange` asks only that the old token was
issued: two racing refreshes of one token do both succeed, as the code allows
(`RotationRevokesParent` and `RetiredFamilyIsClosed` bound that race).

`ReuseSweep` adds the set of sessions a sweep has covered and refutes the comment
at `token.go:31`: a refresh in flight inserts its row after the sweep.

### RateLimiter and LimiterAnswers

One key, whose sorted set is `zset` (member and score are the same reading of the
clock) with its deletion time `ttl`. The pipeline's commands `Purge`, `Add`,
`Count` and `Expire` interleave with those of other callers, `Tick` deletes the key
when its TTL has passed, `Abort` is an error from `Exec` after any prefix, `Retry` is
go-redis sending the pipeline again. A call takes at most `MaxDelay` ticks
(context and client timeouts bound it).

*Correctness.* `LimitHolds`: at most `Limit` admissions in any window less `MaxDelay`,
counting calls with different stamps whose entry was still in the set when they
returned. `RefusedForCause`: a refusal needs more than `Limit` stamps in the window.
The first proviso is needed because equal readings collapse into one member; `LimiterAnswers`
drops the second and shows that it is needed too: the TTL set by an earlier call can
remove a new entry before its own `EXPIRE`.

### CsrfTokens

One browser, any number of callers of `ensureCsrfToken` (tabs, or two callers in a
page), one cookie. `Ensure` reads it or starts a GET; `Mint` is `CSRFToken`, which
draws a new token on every GET; `SetCookie` stores it for all tabs; `Body` and
`FetchFails` are what the caller makes of the answer; `Send` is the POST and the
comparison in the middleware.

*Correctness.* A refusal needs a failed GET or an overlapping one; once a cookie is
there and no GET is out nothing changes it; refusals stop by themselves. A caller that
fetched a token is therefore not always accepted: another tab's `Set-Cookie` may come
between (`backend/README.md:32` describes the double submit without that case).

### Registration

`users` holds the accounts, a `Mailbox` operator is `Email.Normalize`. Each request
goes through `Arrive`, `Lookup`, `Create`, `Token`; `SendMail` is the detached goroutine;
`Seed` is `cmd/seed`; `Cancel` is a disconnect or the 60 s timeout. An `Exec` may be
`lost`: committed although the handler sees an error. No action verifies an account,
since `VerifyEmail` answers 501.

*Correctness.* One account per mailbox however two spellings and the seeder race;
202 only for a registered mailbox; at most one code per mailbox, to the address that
created the account. `UnmailedForCause`: an unverified account goes without a code only if
a request for its very address failed, or the process died; no other request, no disconnect once 202 is under way and no seeder takes it away.

### BrowserSessions

`SessionHandlers` composed with honest browsers: `jar` is each device's cookie,
`tab` what each tab shows, `client` which tab waits for which goroutine. `Open` is page
load with `restoreSession`, `SignIn` the login call, `LogOut` `handleLogout`, `Close` closing
or reloading; `Answer`, `Lose` and `Outage` deliver or lose what the server says;
`Work` is every step inside the server. `burnt` is history: tokens a request presented
without its answer reaching the cookie, or that a sweep covered.

`App.tsx` has the sign-in gateway commented out at this commit: the app is shown
whether or not a session was restored, and logging in is done by `AuthGateway` where it is
mounted or by another client of the API. The model keeps both.

*Correctness.* A device loses its session only because of its own lost or unfinished
requests or a sweep; a tab that was let in holds a stored token of its account that no
other device has; reuse detection is triggered only by a token whose earlier request
was lost or still runs. The last one has a reverse side: two tabs of one honest browser,
one logging out or refreshing while the other loads, are such a case, and the sweep then
ends the sessions of all devices.

### SignInForm

`AuthGateway.tsx` as the machine it is: `view`, `busy`, `session` (`verifySession`, with its
time to live, its resend pause, its cooldown and its counts), `rates` (the fixed windows in
`sessionStorage`), `recent` (the debounce), `redirect` (the countdown after a recovery),
`google` (stored `state` and `verifier`, journeys started and reached). A handler is a
closure: `calls` holds, for each call under way, the verification session it was started
with, and `timers` the same for each completed code that waits for its `setTimeout(0)`.
Instants are kept as time left; `Tick` ages all of them, the captured ones too. `lag` says
that the clock on the screen is behind.

| Action | Code |
| --- | --- |
| `handleLogin`, `handleSignup`, `handleRecovery` | debounce, busy, the fields' checks (a free choice), the window, the call |
| `CodeComplete`, `handleVerify` | the sixth digit; the closure run by the timer, up to its `await` |
| `handleResend` | up to its `await` |
| `Answer`, `Reject` | the rest of any handler; a rejected promise, which skips `setBusy(false)` |
| `StartOAuth`, `AssignLocation`, `LeaveForGoogle` | `startGoogleOAuth` before and after `createPkceChallenge`; the page goes |
| `ReturnFromGoogle`, `GiveUp`, `Reload` | the effect on `code` and `state`; back without them; reload |
| `ShowView`, `Countdown`, `ShowTime`, `Tick` | links; the redirect interval; the one-second clock; time |

*Correctness.* `OneCallAtATime`: busy exactly while one call is under way. The exception
is found in the code: a code completed twice, or just before a resend, is handled by a
closure made when the form was not busy (history `seen.overlap`). `CountersTrue`: outside
such an overlap the counts of wrong answers and resends are what happened, although every
write back to the session comes from a captured copy. `ExchangeMatches`: an authorisation
code meets the verifier of its own journey, once. `BusyEnds`: a busy form comes to rest
unless a call was rejected; a rejected one leaves it disabled until the page is reloaded.

### LessonProgress, LessonTracks and StudentApp

`LessonProgress` is `useLessonProgress.ts` in several tabs over one `localStorage` record
(`store`): `Mount` reads it and computes the streak, `FirstSave` is the effect of the first
render, `answer`, `completeWorked` and `markVisited` change a tab's record and write all of
it (`Save`, which may fail silently), `Midnight` turns the date. `LessonTracks` has the tracks,
subtopics and page descriptors as data. `StudentApp` is one of the tabs, `Me`, with the screens of `App.tsx`
(one action per button, dot and key), the worked solution of `Practice.tsx` and
`ProfilePage.tsx`: form, save, photos that are prepared while the student goes on, logout
whose answer moves the screen. `SaveOnMount` is the effects of the first render: the progress is
saved, the profile is written back, the session asked for. `OtherTabs` and `OtherProfile` are
everybody else: other tabs write their progress records, and each its whole profile, after its first render
and after each change (`App.tsx:154-156`).

*Correctness.* `NothingLostInOneTab`: recorded work is in `localStorage` unless two tabs
were open together or a write failed. `StreakCountsDays`: the streak is the row of days with
a save, plus three when it began with the first visit, unless a tab left open over
midnight has written. `LessonInStep`: page, track and subtopic agree on every way into a lesson.
`RevealedIsCredited`: "+20 XP" is shown exactly when credited. `CountersAgree`: the percentages
and counts of the screens agree with each other, on the instance and on the real tracks. (From 200
pages on `Math.round` would show 100% with one page missing; the longest real track is far shorter.)
`ProfileLostForCause`: the tab shows the text last saved in it and the photo last set, unless a photo was
chosen before the text was saved and was finished after it, or its page was left; other tabs and
failed writes do not change that. It is also what is stored, unless besides a write failed (which takes the
page down until it is loaded again) or another tab has stored a different profile since; the tab's own next
write puts that right. What had been lost when the page is loaded is lost: the wish starts anew from what is stored.

### GraphTools, TaskBank, GraphFacts and TaskEngines

`GraphTools` has the graph functions (degrees, distances, radius, components, cut vertices,
bridges) of `taskkit.tsx` and `GraphVisuals.tsx`; `TaskBank` every task of modules 4.1 to 4.3 and of GT-01, with
its graph and its key. A typed answer is a value: a formula in n, m, k is a function on
small parameters, and the accepted spellings are one value. `GraphFacts` computes, by
enumeration and from the wording of each task, what is true (`TrueValues`,
`TrueDecisions`); it uses neither the keys nor the engines' own functions.

`TaskEngines` is the desk: the open task, the student's `work`, the marks `shown`, the
`feedback`. Each engine's clicks are actions: `ToggleEdge`, `ShowExample`, `ClearEdges`,
`declareImpossible`, `CheckEdges`; `ToggleCell`, ...; `ClickNode`, `ClickEdge`, `CheckWalk`,
`CheckTrail`; and so on, each with the guard of its component. `Keeping` and `Wiping` tell the engines that
leave an old verdict standing from those that remove it; `about` is history: what the verdict was given on.

*Correctness.* `VerdictTrue`: a verdict on the present work is green exactly when the work
does all that the task's prompt asks, in every task but two (`Disputed`); the tracing engines never show one on
an older walk; an offered example solves its task. GT-01-T2 is one of the two: its prompt asks for two
steps, a matrix to fill and a second matrix to draw (`reverseMatrix`), and its page has only the first. `VerdictTrue`
says of it that the first step is judged rightly, not that green means both. GT-42-rdc is the other. `WorkLegal`: no clicking makes work that could
not stand on the screen (no vertex is picked twice, walks follow edges, a cycle closes only when all
vertices are on it, a trail repeats no edge and ends where the engine believes). `CentreAccepted` is refuted for
GT-42-rdc, whose key `{4,5}` is not the centre `{4}` of its drawing: the eccentricities are 2
for vertex 4 and 3 for vertex 5.

### Labs

`DegreeLab`, `ColorLab`, `EulerLab` and the playable pictures of GT-01 pages (matrix,
handshaking, pigeonhole): `open` says which, `lab` is its state, `Tick` the interval of
`EulerLab`, `Toss` one coin of the random graph of the pigeonhole page. `intervals` holds the starts of the
walk whose interval the browser still runs. `LeavePage` takes the page's state and leaves the intervals:
`EulerLab` has no clean-up, and the ticks of an interval without a page change nothing, so that the
`clearInterval` of its last step is never reached.

*Correctness.* `LabsTellTruth`: each sentence a laboratory shows (sum of degrees, proper and
minimal colouring, Euler cycle found, none over the bridges, the two vertices of equal degree) is
true of the graph on the screen. `LabWalkEnds`: however often the walk is started again and the tabs are
changed, the interval of every start ends, unless the page is left. It speaks of each start by itself,
since restarts without end keep the walk going for ever, but not the interval of any one start.

### GraphSearch and ComponentSearch

`bfsDistances` and `components` of `taskkit.tsx`, one action per turn of a loop (`Shift`,
`Look`; `NextNode`, `Pop`, `Push`), on any graph. `Certificate`: when the search returns, its labels
carry the proof that they are distances. `BfsExact`, `ComponentsExact` compare with the
definitions. `comp` and `out` are arrays, as in the code: `isConnected`, `isBridge` and `isCutVertex`
count the array returned, so `ComponentsExact` also says that no component is in it twice and no vertex
twice in a component. `GraphTools` uses those definitions; these two modules justify it.

## 3. The runs

| Run | Instance | Shows |
| --- | --- | --- |
| `session_expiry` | 1 account, 2 tokens, 2 handlers, life 1, clock to 1, fair | types, dead tokens, rotation, reuse only, every request ends |
| `session_accounts` | 2 accounts, 3 tokens, 2 handlers, no clock | answers, closed families, refinement |
| `reuse_sweep` | 1 account, 3 tokens | violation: a session survives the sweep |
| `rate_limiter` | 2 callers, limit 2, window 4, delay 1, clock to 7 | limit and cause |
| `limiter_key_expiry` | 2 callers, limit 1, window 3, clock to 4 | violation: key expiry between ZADD and EXPIRE |
| `csrf_tabs` | 3 tabs, 4 tokens, 1 restart, fair | race-only refusals, settling, refusals stop |
| `registration` | 3 requests, 3 addresses, 2 mailboxes | uniqueness, 202, code, no code lost without cause |
| `browser` | 2 devices of an account, a tab each, 2 tokens, 2 handlers, clock to 1 | separate devices, backed tabs, alarms only for cause |
| `sign_in_form` | code lives 5 ticks, pauses of 1, lock of 5, windows of 1, 2 completed codes, 3 journeys, fair | one call at a time, true counters, matching exchange, rest |
| `student_app` | 3 tabs, 4 days, 3 pages in 2 subtopics, 1 question, 1 photo, 2 texts | progress, streak, lessons, credit, counters, profile with other tabs' writes |
| `exercises` | every task, every laboratory, graphs of 4 and 5 vertices, fair interval | verdicts, legal work, laboratories, searches |
| `answer_key` | the same | violation: the right centre of GT-42-rdc marked wrong |

*Why the bounds suffice.* Two handlers are enough for every race between two
requests, and the properties relate at most two requests (a third one only repeats
the role of one of them; the theorems cover any number). Two tokens give a session
and its successor; three give a fork. `SessionLife` 1 and a clock to 1 let a session run
out before, during and after a request. Without the clock (`MaxTime = 0`) tokens do not
expire, which `session_expiry` and `browser` cover. A tab per device that reloads while its
old request is still under way makes the same races as two tabs. `browser` uses a VIEW that
leaves out history no property of the run reads. The limiter's window 4, limit 2
and clock to 7 let a window fill, slide past its first entries and lose its key once.
Four CSRF tokens are one more than three tabs and the cookie can hold at once. Tokens,
handlers and, where they play the same part, users and devices are symmetric;
no liveness run uses symmetry.

The three large front-end runs start in one of several *corners* of the state space, where
only some of the actions are taken: the corners together take all of them, and leave out
only products of steps that share no variable (a photo being prepared while another tab answers
a question). `sign_in_form`: forms and windows; the code view, with a registration before it, at
most two calls under way and one registration in the window; the detour through Google. Five
wrong codes, three resends and the limits of the windows are the code's own numbers
and are reached: a code lives five ticks and a wrong one pauses the form for one, so that the fifth
wrong code, the lock, a resend after it and two answers that both reach the limit all happen within the
life of a code. Both counters do not grow at once (`FewOfBoth`): wrong codes up to the lock before the first
resend, then at most one after each. A code can expire before, during and after a pause. `student_app`: other tabs and the calendar (where a tab records one visit or right answers only);
screens and lessons; the profile page, with one other tab open at a time that writes any profile. Four days hold a row, a gap and a new row; three tabs are two that
race and one that comes later. The tracks of the instance share a page, as the real ones do, and `CountersAgree`
also reads the real tracks. `exercises`: on a drawing of six vertices at most two edges beyond the
solution's, in a matrix at most one wrong 1 (which include all near misses of a goal); `DegreeLab` within three pairs of its first
graph; colours 3 and 4 at most once each; two plays of `EulerLab`; `bfsDistances` on all graphs
of five vertices, the least on which a stack in place of the queue goes wrong; `components` on all of four.

`CHECK_DEADLOCK FALSE` is said where the program may stop for good: all requests of
`registration` answered; a form or tab nobody touches at the bounds; a search that has returned.

*Fairness.* `FairSpec` of `SessionHandlers` asks weak fairness of the steps a goroutine
takes itself: net/http gives each accepted request its goroutine, and `ReadTimeout`,
`WriteTimeout` and the 60 s context bound each call it waits in. Neither arrivals nor
failures are fair. `FairSpec` of `CsrfTokens` asks weak fairness of a caller that is under
way (a `fetch` resolves or rejects, nothing else is awaited) and strong fairness
of `Mint` and `SetCookie`: of a caller that asks for ever, some GET gets through.
Browser restarts are bounded by `MaxRestarts`. The sign-in form: weak fairness of some
call's end (a `fetch` resolves or rejects) and of the timer of a completed code; no click, clock or journey
is fair. `EulerLab`: weak fairness of `Tick` while the page is open, since `setInterval` calls back until it
is cleared; nothing is asked of leaving or of clicks.
Everything else is checked without fairness.

## 4. What is proved

Every theorem is of the specification and for any values of its constants, under the
named assumptions of its module:

* `NoneAssumption`, `TimeAssumption`: "none" values are not members, a session's life is positive,
  the clock's bound a natural number. `BrowserAssumption`: a device has an account, a tab
  a device.
* `LimiterAssumption`, `CsrfAssumption`, `SeededAssumption`: kinds and signs of the constants.
* `ProgressAssumption`: a calendar of at least one day. `AppAssumption`: the tracks are non-empty,
  repeat no page and together are the course (they may share pages), the worked solution has steps,
  the bounds on photos and logouts are natural. `ShortTracks`: fewer than 200 pages, see
  `CountersAgree` above.
* `FormAssumption`: clocks positive, no pause longer than the lock, as in line 603 of `AuthGateway.tsx`.
* `VertexAssumption`, `OrderAssumption`: the graph of a search is finite, its vertices are listed once.
* `BankSound`, `KeysRight`, `RingSuffices`: facts about data. The banks are constants of the program, written
  out in `TaskBank`; that a drawing's edges join its vertices, that a key agrees with its drawing,
  that `isBridge` finds the bridges of `barbell` is decided by evaluating it. TLC does so, completely, in
  every run of `MCExercises`; a wrong key makes the run fail (leaving out the exception for
  GT-42-rdc does). The proofs take it from there: they are about the engines, for all sequences of clicks.

| Module | Theorem | States |
| --- | --- | --- |
| `SessionProofs` | `InvariantHolds` | `Spec => []IInv` |
| | `TypeCorrect` | `Spec => []TypeOK` |
| | `DeadTokens` | `Spec => []DeadTokenBuysNothing` |
| | `RotationIsOneWay` | `Spec => []RotationRevokesParent` |
| | `AnswersStored` | `Spec => []AnswersAreStored` |
| | `RevocationPermanent` | `Spec => RevocationIsForever` |
| | `OthersEndOnReuseOnly` | `Spec => OnlyReuseReachesOthers` |
| | `RetiredForGood` | `Spec => RetiredFamilyIsClosed` |
| | `LifecycleImplemented` | `Spec => ImplementsLifecycle` |
| `BrowserProofs` | `BrowsersUseHandlers` | `BrowserSpec => Spec` |
| | `BrowsersKeepLifecycle` | `BrowserSpec => ImplementsLifecycle` |
| | `BrowsersConsistent` | `BrowserSpec => [](IInv /\ BrowserInv)` |
| | `SignedInUntilCause` | `BrowserSpec => []CookieDiesForCause` |
| | `AppBacked` | `BrowserSpec => []AppIsBacked` |
| | `AlarmsForCause` | `BrowserSpec => []AlarmForCause` |
| `RateLimiterProofs` | `LimiterTyped` | `Spec => []TypeOK` |
| | `NoneRefusedWithoutCause` | `Spec => []RefusedForCause` |
| | `TheLimitHolds` | `Spec => []LimitHolds` |
| `CsrfProofs` | `CsrfTyped` | `Spec => []TypeOK` |
| | `RefusedInRace` | `Spec => []RefusedOnlyInRace` |
| | `CookieStays` | `Spec => CookieSettles` |
| `RegistrationProofs` | `RegistrationTyped` | `Spec => []TypeOK` |
| | `OneAccount` | `Spec => []OneAccountPerMailbox` |
| | `Accepted` | `Spec => []AcceptedIsRegistered` |
| | `CodeToCreator` | `Spec => []CodeGoesToTheCreator` |
| | `MailLostForCause` | `Spec => []UnmailedForCause` |
| `ExerciseProofs` | `SearchTyped` | `BfsSpec => []BfsTypeOK` |
| | `DistancesCertified` | `BfsSpec => []Certificate` |
| | `DistancesExact` | `BfsSpec => []BfsExact` |
| | `ComponentsFound` | `CompSpec => []ComponentsExact` |
| | `WorkStaysLegal` | `DeskSpec => []WorkLegal` |
| | `VerdictsRight` | `DeskSpec => []VerdictTrue` |
| | `LabsRight` | `LabSpec => []LabsTellTruth` |
| `StudentAppProofs` | `ProgressTyped` | `ProgressSpec => []ProgressTypeOK` |
| | `NothingLost` | `ProgressSpec => []NothingLostInOneTab` |
| | `StreakRight` | `ProgressSpec => []StreakCountsDays` |
| | `AppKeepsRecord` | `AppSpec => ProgressSpec` |
| | `AppTyped` | `AppSpec => []AppTypeOK` |
| | `CountersInStep` | `AppSpec => []CountersAgree` |
| | `LessonsInStep` | `AppSpec => []LessonInStep` |
| | `RevealedCredited` | `AppSpec => []RevealedIsCredited` |
| | `ProfileKept` | `AppSpec => []ProfileLostForCause` |
| `SignInFormProofs` | `FormTyped` | `Spec => []TypeOK` |
| | `OneCall` | `Spec => []OneCallAtATime` |
| | `CountersRight` | `Spec => []CountersTrue` |
| | `ExchangeRight` | `Spec => []ExchangeMatches` |

*Sessions.* `DeadTokenBuysNothing` is not inductive: that a dead token's request draws no new one
needs to know where in `Refresh` it can be, and that what killed the token
(revocation, or the clock) cannot be undone meanwhile. `IInv` says, for each request,
what it may rely on at each step: a row it has looked up stays (`ProgressOK`), the
token it has drawn is in nobody else's hands and in no row until `Insert` (`FreshOK`,
`FreshDistinct`), what made its token useless still does (`DeadOK`), and the table's
columns mean something exactly for stored rows (`TableOK`). `RotationRevokesParent` is a
conjunct of its own: with `ProgressOK` it says that a refresh past line 50 of `token.go` has
revoked its token or seen the revocation fail. One lemma per action shows that each
conjunct survives it.

The four results on steps (from `RevocationPermanent` on) rest on one case split, `TableSteps`: under `IInv`, a
step leaves the table alone (`Quiet`), stores one row (`Stores`), or revokes the
presented token or its account's sessions (`Revokes`). Each theorem then has three
cases instead of twenty-odd actions. For the refinement, a store is an `IssueAtLogin` or an
`Exchange` according to the request's `op`, a revocation a `Retire` or, at `revokeAll`, a
`RetireAll`, whose evidence of reuse is what `ProgressOK` says of that step.
`RetiredForGood` adds `NoNewReader`: with the token revoked, only `RefreshLookup`
could make a request act on a live read of it, and it goes to `revokeAll` instead.

*Limiter.* `LimiterInv` adds to the types that a call's stamp is a time that has been and at most
`MaxDelay` old (`ClocksRight`), and that after its purge a call meets only entries that
explain its count (`Explained`). The limit needs more: `LimitHolds` counts admissions, the code counts
entries. `LimitInv` says that entries of admitted calls stay for the length of the window,
because a purge reaches back further only once the clock has moved on and every `EXPIRE`
pushes the key's deadline out, so that the `ZCARD` of the last admission has counted all
others of its window.

*CSRF.* `CsrfInv` adds `Fresh`: a caller without an excuse holds, from `SetCookie` on, the token
the cookie still has. *Registration.* `RegInv` adds `OwnersApart`: a request owns the row it
inserted from `Create` until its code is mailed, and the unique index gives two owners
different mailboxes.

*Browsers.* Every step of the composition is a step of the handlers or leaves them alone, since a
browser presents only tokens that were delivered (`BrowserStepIsNext`): all of the theorems about
sessions hold of it. `BrowserInv` says what the cookie, the call under way and the table know of each
other: a call that a tab waits for works for the account of the tab's device, with a token no
other device has (`ClientOK`); a cookie is a delivered token of one device (`JarOK`); what is
revoked is burnt, or a request that presented it is past its `Revoke` (`RevokedForCause`).

*Searches.* Induction cannot be cited as a rule here, but it can be had as a fact about sets: a set that
holds 0 and with n also n + 1 holds all naturals, because < is well-founded (`SetInduction`). With
it recursive functions exist, balls grow to the set that can be reached (`ReachClosed`, `ReachLeast`), and
so on. `SearchInv`: the queue is sorted by distance, nothing met is more than one further than the
vertex being expanded, and a vertex that has left the queue has all its neighbours met (but those
still in the inner loop). At the end the queue is empty: that is the certificate, and by induction over the
distance a labelling with the certificate is the distance (`CertifiedIsExact`). `CompInv`: the
components found are those of the vertices seen, and what the stack holds belongs to the
one being collected, closed but for the stack. That nothing is reported twice is `NoneTwice` (a vertex is on
the stack or collected once, because it is marked seen when pushed) and `Apart` (no two parts in the array are the same,
none repeats a vertex): the part being collected is new because it is disjoint from those found, which rests on
the symmetry of reaching.

*Engines.* `DeskInv` strengthens `WorkLegal` part by part: sequences without repetition, walks that start where
the task says, a Hamilton walk that is simple or closed and simple up to its last step (`Closed`), a
trail whose `current` is where it leads. That the closed walk has met every vertex is the
pigeonhole principle (`AllMet`). `EngineInv` adds what `VerdictTrue` needs: the form of answers and
fields, and `VerdictOK`, that a verdict said of the work is the right one. A step wipes the verdict,
dates it (`about = "past"`), says it of something else, keeps it with the work, or judges
(`Outcome`), and each check is right by a lemma of its own. In `PathVerdict`, a simple walk is one
of the paths that are grown vertex by vertex (`WalkIsGrown`), so its length is never below the least; in
`EdgesVerdict`, the repair page's two conditions are one, by the sum of degrees; in
`TrailVerdict`, a trail as long as the edges are many has used them all.

*Laboratories.* `LabInv` is the shape of each page's state and `NotDoubled`, that `DegreeLab` joins two
vertices once. From it follow the degree sum (`DegreeSum`, by induction over finite sets), the two
vertices of equal degree (six vertices and five possible degrees left, `TwoShare`), the wheel's
three colours (`ThreeColours`), and that there is no walk over the bridges: were there one, each vertex
would be left as often as it is entered and have an even degree (`EvenEverywhere`), but B has three bridges.

*Application.* `ProgressInv` adds to what is promised of the record why it is so: with no
excuse there is one open tab and it shows what is stored (`InStore`), so writing the whole
record loses nothing; a tab opened today already has today's streak, though it has not
saved it (`StreaksRight`), while one opened before today counts as an excuse once it writes.
`AppKeepsRecord` is a refinement: each step of screens, lessons and profile is a step
of the record or leaves it alone, so both results hold of the application. Its own
invariants need the parts of a step that the screen does not show: a lesson stays in
step while the profile covers it (`Step`), the points of the worked solution go with its last step
(`Credit`), and an open profile form carries the photo shown (`AsWished`), else saving the
text would bring a photo back. What is shown is kept apart from what is stored: every write of the tab goes
through `SetWished`, from which both follow, and what another tab stores touches the second only (`OthersStep`). `CountersInStep` is arithmetic on `Math.round` (`RoundsUpLast`) and the
counting of a track without repetition.

*Sign-in form.* The closures are the difficulty. `Latest`: unless two calls overlapped, a call
about the code still has the session on screen, which ages in step with it; then what its
answer writes is one more than what was there. `Calls` and `Pending` say what was true when a
call or code was started and still bounds what its answer may write, overlaps included. For the
detour, `GoogleInv` keeps state and verifier of one journey, never exchanged and no longer starting. TLC
checks the form in three corners; the theorems are about all of its steps mixed.

Only model-checked: liveness (`EveryRequestEnds`, `RefusalsStop`, `BusyEnds`, `LabWalkEnds`), which rests on
fairness and ENABLED, out of the prover's reach; and the facts of the banks' data named above,
which are enumerations. Every safety invariant and action property of the passing runs is proved.

## 5. Abstractions

* Cryptography is ideal: tokens drawn are fresh, hashes injective, passwords compared
  to some outcome. A token in no row behaves as `NoToken`.
* A statement whose connection is lost takes effect at once or not at all; in
  Postgres it might still take effect a moment after the handler has gone on.
* Access tokens (JWT, 15 minutes) are stateless and not in the session models.
* `expires_at` has the clock's resolution, and server and browser share one clock.
* The sorted set's score is a double: stamps less than 256 ns apart may get one score
  though they are distinct members. The limiter's ticks are coarser than that.
* The limiter appears in the handlers as a free choice to refuse (`Limited`).
* An address that parses is a model value; the mail service is a step that may be late.
* A closed tab's request goes on at the server; its answer is ignored by the browser.
* The form's fields, wording and password strength are a free choice to refuse a submit.
  Cooldowns keep their order (each pause shorter than the lock, the lock no shorter than the code's life), not their length.
* React's batching: a click's state change and the effects it causes are one step; the first
  save after mounting is a step of its own.
* A quiz item is answered right or wrong; texts and photos of the profile are model values.
* Drawings are vertices and edges; coordinates, colours, points and hints are left out. What a
  student types is blank, an accepted value, the true one, or a wrong one; the spelling of each is left out.
* `components` of `taskkit.tsx` depends on the order of vertices on a digraph; the code
  calls it on undirected graphs only, and so does the model.

## 6. Seen on the way

Facts of the code that no property is about, for whoever works on it:

* `Login` never reads `Verified`; `docs/local-dev.md:38` says the register flow enforces it. With
  `VerifyEmail` answering 501 every account but the seeded one stays unverified.
* An access token outlives the revocation of its session by up to 15 minutes.
* `Create` of `register.go` runs on the request's context; only the mail (line 92) is decoupled.
* A logout that gets lost leaves the HttpOnly cookie, and the next page load restores the session.
* The first streak is 4 (`useLessonProgress.ts:47`), so the badge for three days in a row
  (`ProfilePage.tsx:139`) is earned on the first day.
* Graph-building, matrix, compute, decision and ordering engines keep a green verdict while the work under it is edited.
* The interval of `EulerLab` is cleared at its end, by the next start and on leaving its tab, but not on leaving the
  page: it then runs until the browser's tab is closed (`LeavePage`).
* GT-01-T2: the prompt (`GT-01-foundations.ts:198-200`, data at 226-237) asks to draw the graph of a second matrix,
  the page shows neither that matrix nor a drawing, and `check` (`GT01Pages.tsx:485-490`) is green after the first
  step. `Solved` says so: nothing that the page allows is all that the prompt asks.
* The countdown after a recovery moves the form to the login view from whatever view it shows by then
  (`AuthGateway.tsx:499`, `Countdown`); an open verification is kept.
* `App.tsx` has `AuthGateway` commented out, see `BrowserSessions`.
* GT-01: prompts of T3 and T4 speak of a button their pages lack; T1 compares degrees by position, as the
  chips beside its vertices show them, and so does its model; `impossible` and the goal `tree` are used by no task.

## 7. Not modelled

* `AllowWithBackoff` and `Reset` of the limiter: the answer of the first is ignored by its one
  caller, the second is never called. Neither changes what the program does.
* Access tokens and `Me`: no state.
* Address and password rules, `normalizeAnswer`, hashing: functions on strings, character by
  character; the models use what they are for (`Mailbox`, accepted values).
* `GT01Practice.tsx` and `GT01Theory.tsx`: nothing that `App.tsx` renders imports them.
* Endpoints that answer 501, configuration and connection set-up, the mail and Turnstile clients,
  static content, figures, layout.

What could come next: the seeder's report when the mailbox belongs to an unverified registrant; how
many admissions equal clock readings can hide from the limiter (`ratelimit.go:32`).
