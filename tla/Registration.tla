---------------------------- MODULE Registration ----------------------------
(***************************************************************************)
(* Accounts: the Register handler (backend register.go), the goroutine     *)
(* that mails the verification code, and the seeder (cmd/seed).  Requests  *)
(* interleave at every database call.                                      *)
(***************************************************************************)
EXTENDS Naturals

CONSTANTS
    Requests,       \* the POST /register requests, each made once
    Addresses,      \* addresses ParseEmail accepts
    Mailbox(_),     \* Email.Normalize: the address without dots
    Seeded          \* SEED_EMAIL

ASSUME SeededAssumption == Seeded \in Addresses

VARIABLES
    users,          \* rows of the users table
    req,            \* what each request is doing, and its address
    pending,        \* requests whose mail goroutine has not run yet
    mailed,         \* requests whose mail was handed to SendEmail
    crashed         \* history: the API process has died once

vars == <<users, req, pending, mailed, crashed>>

Rows == [email : Addresses, verified : BOOLEAN]
Steps == {"new", "lookup", "create", "token", "accepted", "failed"}
Request == [at : Steps, email : Addresses, live : BOOLEAN]

Busy(r) == req[r].at \in {"lookup", "create", "token"}
Goto(r, step) == req' = [req EXCEPT ![r].at = step]

(* WHERE normalized_email = $1                                             *)
Registered(e) == {u \in users : Mailbox(u.email) = Mailbox(e)}

(* INSERT under the UNIQUE index on normalized_email.                      *)
NoUniqueIndex(e) == TRUE                                          \* mutant
Unique(e) == \A u \in users : Mailbox(u.email) # Mailbox(e)

(* pool.Exec: done, not done, or ("lost") committed by Postgres although   *)
(* the disconnect of the client has cut the statement off with an error.   *)
Exec(r) == IF req[r].live THEN {"done", "lost", "failed"} ELSE {"failed"}

Init ==
    /\ users = {}
    /\ req \in [Requests -> {q \in Request : q.at = "new" /\ q.live}]
    /\ pending = {} /\ mailed = {}
    /\ crashed = FALSE

(* The limiter, the JSON body and the password are checked before any row  *)
(* is read.                                                                *)
Arrive(r) ==
    /\ req[r].at = "new"
    /\ Goto(r, "lookup") \/ Goto(r, "failed")
    /\ UNCHANGED <<users, pending, mailed, crashed>>

CodeAgain(r) ==                                                   \* mutant
    /\ req[r].at = "lookup" /\ req[r].live
    /\ Goto(r, IF Registered(req[r].email) # {} THEN "token" ELSE "create")
    /\ UNCHANGED <<users, pending, mailed, crashed>>

(* GetByEmail: an address already taken gets the same 202 as a new one.    *)
Lookup(r) ==
    /\ req[r].at = "lookup"
    /\ \/ req[r].live /\ IF Registered(req[r].email) # {}
                         THEN Goto(r, "accepted") ELSE Goto(r, "create")
       \/ Goto(r, "failed")
    /\ UNCHANGED <<users, pending, mailed, crashed>>

(* What Register does with the outcome of Create.                          *)
CreateErrorIgnored(r, out) == Goto(r, "token")                    \* mutant
AfterCreate(r, out) ==
    req' = [req EXCEPT ![r].at = IF out = "done" THEN "token" ELSE "failed",
                       ![r].live = @ /\ out # "lost"]

(* HashPassword, NewUser and userRepo.Create; any error is a 500.          *)
Create(r) ==
    /\ req[r].at = "create"
    /\ \E out \in Exec(r) :
          IF out # "failed" /\ Unique(req[r].email)
          THEN /\ users' = users \cup {[email |-> req[r].email, verified |-> FALSE]}
               /\ AfterCreate(r, out)
          ELSE /\ UNCHANGED users
               /\ AfterCreate(r, "failed")
    /\ UNCHANGED <<pending, mailed, crashed>>

NoMail(r) ==                                                      \* mutant
    /\ req[r].at = "token"
    /\ Goto(r, "accepted")
    /\ UNCHANGED <<users, pending, mailed, crashed>>

(* NewVerificationToken, then the mail goroutine is started on a context   *)
(* of its own, then 202.                                                   *)
Token(r) ==
    /\ req[r].at = "token"
    /\ \/ pending' = pending \cup {r} /\ Goto(r, "accepted")
       \/ UNCHANGED pending /\ Goto(r, "failed")
    /\ UNCHANGED <<users, mailed, crashed>>

SendAgain(r) ==                                                   \* mutant
    /\ r \in pending
    /\ mailed' = mailed \cup {r}
    /\ UNCHANGED <<users, req, pending, crashed>>

(* The goroutine calls SendEmail and drops its error.                      *)
SendMail(r) ==
    /\ r \in pending
    /\ pending' = pending \ {r}
    /\ mailed' = mailed \cup {r}
    /\ UNCHANGED <<users, req, crashed>>

(* The client disconnects, or the 60 s timeout fires.                      *)
Cancel(r) ==
    /\ Busy(r) /\ req[r].live
    /\ req' = [req EXCEPT ![r].live = FALSE]
    /\ UNCHANGED <<users, pending, mailed, crashed>>

(* cmd/seed: a verified account, unless the mailbox is taken.              *)
Seed ==
    /\ Unique(Seeded)
    /\ users' = users \cup {[email |-> Seeded, verified |-> TRUE]}
    /\ UNCHANGED <<req, pending, mailed, crashed>>

Crash ==
    /\ pending # {} \/ \E r \in Requests : Busy(r)
    /\ req' = [r \in Requests |->
                 IF Busy(r) THEN [req[r] EXCEPT !.at = "failed"] ELSE req[r]]
    /\ pending' = {}
    /\ crashed' = TRUE
    /\ UNCHANGED <<users, mailed>>

Register(r) == Arrive(r) \/ Lookup(r) \/ Create(r) \/ Token(r)

Next ==
    \/ \E r \in Requests : Register(r) \/ SendMail(r) \/ Cancel(r)
    \/ Seed
    \/ Crash

Spec == Init /\ [][Next]_vars

-----------------------------------------------------------------------------
(* Type invariant; a mail goroutine runs once, for a request answered 202. *)
TypeOK ==
    /\ users \subseteq Rows
    /\ req \in [Requests -> Request]
    /\ pending \cap mailed = {}
    /\ pending \cup mailed \subseteq {r \in Requests : req[r].at = "accepted"}
    /\ crashed \in BOOLEAN

(* One mailbox has one account, however two spellings of it race from      *)
(* GetByEmail to Create (register.go 49-76) and past the seeder.           *)
OneAccountPerMailbox ==
    \A u, v \in users : Mailbox(u.email) = Mailbox(v.email) => u = v

(* 202 is never said of a mailbox without an account.                      *)
AcceptedIsRegistered ==
    \A r \in Requests : req[r].at = "accepted" => Registered(req[r].email) # {}

(* A mailbox gets at most one code, and the address it goes to is the one  *)
(* of the account that this very request created.                          *)
CodeGoesToTheCreator ==
    \A r \in pending \cup mailed :
        /\ [email |-> req[r].email, verified |-> FALSE] \in users
        /\ \A q \in (pending \cup mailed) \ {r} :
              Mailbox(req[q].email) # Mailbox(req[r].email)

(* The mail is decoupled from the request (register.go 91-103), so an      *)
(* unverified account that gets no code has a cause: a request for its     *)
(* very address came to nothing, or the process died.  No other request    *)
(* for the mailbox, no disconnect and no seeder takes the code away.       *)
UnmailedForCause ==
    \A u \in users :
        ~ u.verified =>
            \/ crashed
            \/ \E r \in Requests :
                  /\ req[r].email = u.email
                  /\ r \in pending \cup mailed \/ req[r].at \in {"token", "failed"}

=============================================================================
