------------------------- MODULE RegistrationProofs -------------------------
(***************************************************************************)
(* What Registration promises, for any number of requests and addresses.   *)
(*                                                                         *)
(* A request owns the row it has inserted from Create until its code is    *)
(* mailed.  The unique index gives a mailbox one row, hence one owner; so  *)
(* no two requests ever have a code for the same mailbox.                  *)
(***************************************************************************)
EXTENDS Registration, TLAPS

Owns(r) == req[r].at = "token" \/ r \in pending \cup mailed

OwnersApart ==
    \A r \in Requests : Owns(r) =>
        /\ [email |-> req[r].email, verified |-> FALSE] \in users
        /\ \A q \in Requests \ {r} :
              Owns(q) => Mailbox(req[q].email) # Mailbox(req[r].email)

RegInv ==
    /\ TypeOK
    /\ OneAccountPerMailbox
    /\ AcceptedIsRegistered
    /\ OwnersApart
    /\ UnmailedForCause

LEMMA InitReg == Init => RegInv
BY DEF Init, RegInv, TypeOK, Request, Rows, OneAccountPerMailbox, AcceptedIsRegistered,
       OwnersApart, Owns, UnmailedForCause

(* An action that only moves one request between steps at which it owns    *)
(* nothing, in a way Accepted and the causes allow.                        *)
LEMMA IdleMove ==
    ASSUME RegInv, NEW r \in Requests, ~ Owns(r),
           NEW q \in Request, req' = [req EXCEPT ![r] = q],
           q.email = req[r].email, q.at # "token",
           q.at = "accepted" => Registered(req[r].email) # {},
           req[r].at # "failed" \/ q.at = "failed",
           UNCHANGED <<users, pending, mailed, crashed>>
    PROVE  RegInv'
<1>1. /\ req \in [Requests -> Request] /\ req' \in [Requests -> Request]
      /\ req'[r] = q /\ \A s \in Requests \ {r} : req'[s] = req[s]
      /\ r \notin pending \cup mailed /\ req[r].at # "token"
  BY DEF RegInv, TypeOK, Owns
<1>2. \A s \in Requests : req'[s].email = req[s].email
  BY <1>1
<1>3. TypeOK'
  BY <1>1 DEF RegInv, TypeOK
<1>4. OneAccountPerMailbox'
  BY DEF RegInv, OneAccountPerMailbox
<1>5. AcceptedIsRegistered'
  BY <1>1, <1>2 DEF RegInv, AcceptedIsRegistered, Registered
<1>6. \A s \in Requests : Owns(s)' <=> Owns(s)
  BY <1>1 DEF Owns
<1>7. OwnersApart'
  BY <1>2, <1>6 DEF RegInv, OwnersApart
<1>8. UnmailedForCause'
  <2>1. \A s \in Requests : req[s].at \in {"token", "failed"} => req'[s].at \in {"token", "failed"}
    BY <1>1
  <2> QED
    BY <1>2, <2>1 DEF RegInv, UnmailedForCause
<1> QED
  BY <1>3, <1>4, <1>5, <1>7, <1>8 DEF RegInv

LEMMA ArriveReg == ASSUME RegInv, NEW r \in Requests, Arrive(r) PROVE RegInv'
<1>1. PICK step \in {"lookup", "failed"} : req' = [req EXCEPT ![r] = [req[r] EXCEPT !.at = step]]
  BY DEF Arrive, Goto, RegInv, TypeOK, Request
<1>2. req[r] \in Request /\ req[r].at = "new" /\ ~ Owns(r)
  BY DEF Arrive, Owns, RegInv, TypeOK
<1> DEFINE q == [req[r] EXCEPT !.at = step]
<1>3. q \in Request /\ q.email = req[r].email /\ q.at = step
  BY <1>2 DEF Request, Steps
<1>4. UNCHANGED <<users, pending, mailed, crashed>>
  BY DEF Arrive
<1>5. req' = [req EXCEPT ![r] = q]
  BY <1>1
<1>6. req[r].at # "failed" /\ q.at \notin {"token", "accepted"}
  BY <1>2, <1>3
<1> HIDE DEF q
<1> QED
  BY <1>2, <1>3, <1>4, <1>5, <1>6, IdleMove

LEMMA LookupReg == ASSUME RegInv, NEW r \in Requests, Lookup(r) PROVE RegInv'
<1>1. PICK step \in {"accepted", "create", "failed"} :
        /\ req' = [req EXCEPT ![r] = [req[r] EXCEPT !.at = step]]
        /\ step = "accepted" => Registered(req[r].email) # {}
  BY DEF Lookup, Goto, RegInv, TypeOK, Request
<1>2. req[r] \in Request /\ req[r].at = "lookup" /\ ~ Owns(r)
  BY DEF Lookup, Owns, RegInv, TypeOK
<1> DEFINE q == [req[r] EXCEPT !.at = step]
<1>3. q \in Request /\ q.email = req[r].email /\ q.at = step
  BY <1>2 DEF Request, Steps
<1>4. UNCHANGED <<users, pending, mailed, crashed>>
  BY DEF Lookup
<1>5. req' = [req EXCEPT ![r] = q]
  BY <1>1
<1>6. req[r].at # "failed" /\ q.at # "token" /\ (q.at = "accepted" => Registered(req[r].email) # {})
  BY <1>1, <1>2, <1>3
<1> HIDE DEF q
<1> QED
  BY <1>2, <1>3, <1>4, <1>5, <1>6, IdleMove

LEMMA CancelReg == ASSUME RegInv, NEW r \in Requests, Cancel(r) PROVE RegInv'
<1>1. /\ req \in [Requests -> Request] /\ req' \in [Requests -> Request]
      /\ \A s \in Requests : req'[s].at = req[s].at /\ req'[s].email = req[s].email
      /\ UNCHANGED <<users, pending, mailed, crashed>>
  BY DEF Cancel, RegInv, TypeOK, Request
<1> QED
  BY <1>1 DEF RegInv, TypeOK, OneAccountPerMailbox, AcceptedIsRegistered, Registered,
              OwnersApart, Owns, UnmailedForCause

(* The one step that inserts a row for a request.                          *)
LEMMA CreateReg == ASSUME RegInv, NEW r \in Requests, Create(r) PROVE RegInv'
<1>1. PICK out \in {"done", "lost", "failed"} :
        IF out # "failed" /\ Unique(req[r].email)
        THEN /\ users' = users \cup {[email |-> req[r].email, verified |-> FALSE]}
             /\ AfterCreate(r, out)
        ELSE /\ UNCHANGED users
             /\ AfterCreate(r, "failed")
  BY DEF Create, Exec
<1>2. /\ req \in [Requests -> Request] /\ req[r] \in Request /\ req[r].at = "create"
      /\ r \notin pending \cup mailed /\ ~ Owns(r) /\ TypeOK
      /\ UNCHANGED <<pending, mailed, crashed>>
  BY DEF Create, Owns, RegInv, TypeOK
<1>3. CASE ~(out # "failed" /\ Unique(req[r].email))
  <2>1. req' = [req EXCEPT ![r] = [req[r] EXCEPT !.at = "failed"]]
    BY <1>1, <1>2, <1>3 DEF AfterCreate, Request
  <2> DEFINE q == [req[r] EXCEPT !.at = "failed"]
  <2>2. q \in Request /\ q.email = req[r].email /\ q.at = "failed"
    BY <1>2 DEF Request, Steps
  <2>3. req' = [req EXCEPT ![r] = q] /\ users' = users
    BY <1>1, <1>3, <2>1
  <2> HIDE DEF q
  <2> QED
    BY <1>2, <2>2, <2>3, IdleMove
<1>4. CASE out # "failed" /\ Unique(req[r].email)
  <2> DEFINE e == req[r].email
             row == [email |-> e, verified |-> FALSE]
  <2>1. /\ users' = users \cup {row} /\ row \in Rows
        /\ req' \in [Requests -> Request]
        /\ req'[r].at = IF out = "done" THEN "token" ELSE "failed"
        /\ req'[r].email = e
        /\ \A s \in Requests \ {r} : req'[s] = req[s]
    BY <1>1, <1>2, <1>4 DEF AfterCreate, Request, Rows, Steps
  <2>2. \A s \in Requests : req'[s].email = req[s].email
    BY <2>1
  <2>3. TypeOK'
    BY <1>2, <2>1 DEF TypeOK
  <2>4. OneAccountPerMailbox'
    <3>1. \A w \in users : Mailbox(w.email) # Mailbox(row.email)
      BY <1>4 DEF Unique
    <3>2. \A w, x \in users : Mailbox(w.email) = Mailbox(x.email) => w = x
      BY DEF RegInv, OneAccountPerMailbox
    <3> HIDE DEF row
    <3> QED
      BY <2>1, <3>1, <3>2 DEF OneAccountPerMailbox
  <2>5. AcceptedIsRegistered'
    <3>1. ASSUME NEW s \in Requests, req'[s].at = "accepted" PROVE Registered(req[s].email)' # {}
      <4>1. s # r /\ req[s].at = "accepted"
        BY <2>1, <3>1
      <4> QED
        BY <2>1, <2>2, <4>1 DEF RegInv, AcceptedIsRegistered, Registered
    <3> QED
      BY <2>2, <3>1 DEF AcceptedIsRegistered, Registered
  <2>6. \A s \in Requests \ {r} : Owns(s)' <=> Owns(s)
    BY <1>2, <2>1 DEF Owns
  <2>7. \A s \in Requests \ {r} : Owns(s) => Mailbox(req[s].email) # Mailbox(e)
    <3>1. ASSUME NEW s \in Requests, Owns(s) PROVE Mailbox(req[s].email) # Mailbox(e)
      <4>1. [email |-> req[s].email, verified |-> FALSE] \in users
        BY <3>1 DEF RegInv, OwnersApart
      <4> QED
        BY <1>4, <4>1 DEF Unique
    <3> QED
      BY <3>1
  <2>8. OwnersApart'
    <3>1. ASSUME NEW s \in Requests, Owns(s)'
          PROVE  [email |-> req[s].email, verified |-> FALSE]' \in users'
      <4>1. CASE s = r
        BY <2>1, <4>1
      <4>2. CASE s # r
        BY <2>1, <2>2, <2>6, <3>1, <4>2 DEF RegInv, OwnersApart
      <4> QED
        BY <4>1, <4>2
    <3>2. ASSUME NEW s \in Requests, NEW q \in Requests \ {s}, Owns(s)', Owns(q)'
          PROVE  Mailbox(req'[q].email) # Mailbox(req'[s].email)
      <4>1. CASE s = r
        BY <2>2, <2>6, <2>7, <3>2, <4>1
      <4>2. CASE q = r
        BY <2>2, <2>6, <2>7, <3>2, <4>2
      <4>3. CASE s # r /\ q # r
        BY <2>2, <2>6, <3>2, <4>3 DEF RegInv, OwnersApart
      <4> QED
        BY <4>1, <4>2, <4>3
    <3> QED
      BY <3>1, <3>2 DEF OwnersApart
  <2>9. UnmailedForCause'
    <3>1. ASSUME NEW w \in users', ~ w.verified, ~ crashed
          PROVE  \E s \in Requests :
                    /\ req'[s].email = w.email
                    /\ s \in pending \cup mailed \/ req'[s].at \in {"token", "failed"}
      <4>1. CASE w = row
        BY <2>1, <4>1
      <4>2. CASE w \in users
        <5>1. PICK s \in Requests :
                /\ req[s].email = w.email
                /\ s \in pending \cup mailed \/ req[s].at \in {"token", "failed"}
          BY <3>1, <4>2 DEF RegInv, UnmailedForCause
        <5> QED
          BY <1>2, <2>1, <2>2, <5>1
      <4> QED
        BY <2>1, <4>1, <4>2
    <3> QED
      BY <1>2, <3>1 DEF UnmailedForCause
  <2> QED
    BY <2>3, <2>4, <2>5, <2>8, <2>9 DEF RegInv
<1> QED
  BY <1>3, <1>4

LEMMA TokenReg == ASSUME RegInv, NEW r \in Requests, Token(r) PROVE RegInv'
<1>1. /\ req \in [Requests -> Request] /\ req[r] \in Request /\ req[r].at = "token"
      /\ Owns(r) /\ r \notin pending \cup mailed
      /\ UNCHANGED <<users, mailed, crashed>>
  BY DEF Token, Owns, RegInv, TypeOK
<1>2. PICK step \in {"accepted", "failed"} :
        /\ req' = [req EXCEPT ![r].at = step]
        /\ pending' = IF step = "accepted" THEN pending \cup {r} ELSE pending
  BY DEF Token, Goto
<1>3. /\ req' \in [Requests -> Request] /\ req'[r].at = step
      /\ \A s \in Requests : req'[s].email = req[s].email
      /\ \A s \in Requests \ {r} : req'[s] = req[s]
  BY <1>1, <1>2 DEF Request, Steps
<1>4. TypeOK'
  BY <1>1, <1>2, <1>3 DEF RegInv, TypeOK
<1>5. OneAccountPerMailbox'
  BY <1>1 DEF RegInv, OneAccountPerMailbox
<1>6. AcceptedIsRegistered'
  <2>1. [email |-> req[r].email, verified |-> FALSE] \in users
    BY <1>1 DEF RegInv, OwnersApart
  <2>2. Registered(req[r].email) # {}
    BY <2>1 DEF Registered
  <2> QED
    BY <1>1, <1>3, <2>2 DEF RegInv, AcceptedIsRegistered, Registered
<1>7. \A s \in Requests : Owns(s)' => Owns(s)
  BY <1>1, <1>2, <1>3 DEF Owns
<1>8. OwnersApart'
  BY <1>1, <1>3, <1>7 DEF RegInv, OwnersApart
<1>9. UnmailedForCause'
  <2>1. \A s \in Requests :
          s \in pending \cup mailed \/ req[s].at \in {"token", "failed"} =>
              s \in pending' \cup mailed' \/ req'[s].at \in {"token", "failed"}
    BY <1>1, <1>2, <1>3
  <2> QED
    BY <1>1, <1>3, <2>1 DEF RegInv, UnmailedForCause
<1> QED
  BY <1>4, <1>5, <1>6, <1>8, <1>9 DEF RegInv

LEMMA SendMailReg == ASSUME RegInv, NEW r \in Requests, SendMail(r) PROVE RegInv'
<1>1. /\ r \in pending /\ pending' = pending \ {r} /\ mailed' = mailed \cup {r}
      /\ UNCHANGED <<users, req, crashed>>
  BY DEF SendMail
<1>2. pending' \cup mailed' = pending \cup mailed /\ pending' \cap mailed' = {}
  BY <1>1 DEF RegInv, TypeOK
<1> QED
  BY <1>1, <1>2 DEF RegInv, TypeOK, OneAccountPerMailbox, AcceptedIsRegistered, Registered,
                    OwnersApart, Owns, UnmailedForCause

LEMMA SeedReg == RegInv /\ Seed => RegInv'
<1>1. SUFFICES ASSUME RegInv, Seed PROVE RegInv'
  OBVIOUS
<1> DEFINE row == [email |-> Seeded, verified |-> TRUE]
<1>2. /\ users' = users \cup {row} /\ row \in Rows
      /\ UNCHANGED <<req, pending, mailed, crashed>>
  BY <1>1, SeededAssumption DEF Seed, Rows
<1>3. TypeOK'
  BY <1>1, <1>2 DEF RegInv, TypeOK
<1>4. OneAccountPerMailbox'
  <2>1. \A w \in users : Mailbox(w.email) # Mailbox(row.email)
    BY <1>1 DEF Seed, Unique
  <2>2. \A w, x \in users : Mailbox(w.email) = Mailbox(x.email) => w = x
    BY <1>1 DEF RegInv, OneAccountPerMailbox
  <2> HIDE DEF row
  <2> QED
    BY <1>2, <2>1, <2>2 DEF OneAccountPerMailbox
<1>5. AcceptedIsRegistered'
  BY <1>1, <1>2 DEF RegInv, AcceptedIsRegistered, Registered
<1>6. OwnersApart'
  BY <1>1, <1>2 DEF RegInv, OwnersApart, Owns
<1>7. UnmailedForCause'
  BY <1>1, <1>2 DEF RegInv, UnmailedForCause
<1> QED
  BY <1>3, <1>4, <1>5, <1>6, <1>7 DEF RegInv

LEMMA CrashReg == RegInv /\ Crash => RegInv'
<1>1. SUFFICES ASSUME RegInv, Crash PROVE RegInv'
  OBVIOUS
<1>2. /\ req \in [Requests -> Request] /\ pending' = {} /\ crashed' = TRUE
      /\ UNCHANGED <<users, mailed>> /\ TypeOK
      /\ req' = [r \in Requests |->
                   IF Busy(r) THEN [req[r] EXCEPT !.at = "failed"] ELSE req[r]]
  BY <1>1 DEF Crash, RegInv, TypeOK
<1>3. /\ req' \in [Requests -> Request]
      /\ \A r \in Requests :
            /\ req'[r].email = req[r].email
            /\ req'[r].at # "token"
            /\ req[r].at = "accepted" => req'[r].at = "accepted"
            /\ req'[r].at = "accepted" => req[r].at = "accepted"
  BY <1>2 DEF Busy, Request, Steps
<1>4. TypeOK'
  BY <1>2, <1>3 DEF TypeOK
<1>5. AcceptedIsRegistered'
  BY <1>1, <1>2, <1>3 DEF RegInv, AcceptedIsRegistered, Registered
<1>6. \A r \in Requests : Owns(r)' => Owns(r)
  BY <1>2, <1>3 DEF Owns
<1>7. OwnersApart'
  BY <1>1, <1>2, <1>3, <1>6 DEF RegInv, OwnersApart
<1> QED
  BY <1>1, <1>2, <1>4, <1>5, <1>7 DEF RegInv, OneAccountPerMailbox, UnmailedForCause

LEMMA RegInvariant == Spec => []RegInv
<1>1. RegInv /\ [Next]_vars => RegInv'
  <2>1. CASE UNCHANGED vars
    BY <2>1 DEF vars, RegInv, TypeOK, OneAccountPerMailbox, AcceptedIsRegistered, Registered,
                OwnersApart, Owns, UnmailedForCause
  <2>2. ASSUME RegInv, NEW r \in Requests, Register(r) \/ SendMail(r) \/ Cancel(r)
        PROVE  RegInv'
    BY <2>2, ArriveReg, LookupReg, CreateReg, TokenReg, SendMailReg, CancelReg DEF Register
  <2> QED
    BY <2>1, <2>2, SeedReg, CrashReg DEF Next
<1> QED
  BY <1>1, InitReg, PTL DEF Spec

(* Types, and a mail goroutine runs once and for a request answered 202.   *)
THEOREM RegistrationTyped == Spec => []TypeOK
<1>1. RegInv => TypeOK
  BY DEF RegInv
<1> QED
  BY <1>1, RegInvariant, PTL

(* One account per mailbox, whatever races from lookup to insert.          *)
THEOREM OneAccount == Spec => []OneAccountPerMailbox
<1>1. RegInv => OneAccountPerMailbox
  BY DEF RegInv
<1> QED
  BY <1>1, RegInvariant, PTL

(* 202 is never said of a mailbox without an account.                      *)
THEOREM Accepted == Spec => []AcceptedIsRegistered
<1>1. RegInv => AcceptedIsRegistered
  BY DEF RegInv
<1> QED
  BY <1>1, RegInvariant, PTL

(* The code goes to the account this request created, and to no mailbox    *)
(* twice.                                                                  *)
THEOREM CodeToCreator == Spec => []CodeGoesToTheCreator
<1>1. RegInv => CodeGoesToTheCreator
  <2>1. SUFFICES ASSUME RegInv PROVE CodeGoesToTheCreator
    OBVIOUS
  <2>2. pending \cup mailed \subseteq Requests /\ \A r \in pending \cup mailed : Owns(r)
    BY <2>1 DEF RegInv, TypeOK, Owns
  <2> QED
    BY <2>1, <2>2 DEF RegInv, OwnersApart, CodeGoesToTheCreator
<1> QED
  BY <1>1, RegInvariant, PTL

(* An unverified account without a code has a cause.                       *)
THEOREM MailLostForCause == Spec => []UnmailedForCause
<1>1. RegInv => UnmailedForCause
  BY DEF RegInv
<1> QED
  BY <1>1, RegInvariant, PTL

=============================================================================
