---------------------------- MODULE MCSignInForm ----------------------------
(***************************************************************************)
(* Small instances of SignInForm for TLC, in three corners of its state    *)
(* space: the forms and their counters, the verification of a code, and    *)
(* the detour through Google.  Five wrong codes fit into the life of one,  *)
(* with pauses of a tick between them.                                     *)
(***************************************************************************)
EXTENDS SignInForm

VARIABLE corner

MCWait == [n \in 1..5 |-> 1]

(* Wrong codes up to the last attempt before any resend, and all resends   *)
(* with at most one wrong code after each.                                 *)
FewOfBoth == HasSession' => session'.attempts <= 1 \/ session'.resendCount = 0

MCInit ==
    /\ Init
    /\ corner \in {"forms", "code", "google"}
CodeSteps == VerifySteps \/ Tick \/ ShowTime \/ handleSignup \/ ShowView
MCNext ==
    /\ UNCHANGED corner
    /\ \/ AnswerSome
       \/ corner = "forms" /\ (FormSteps \/ Tick)
       \/ corner = "code" /\ CodeSteps
            /\ Len(calls') <= 2
            /\ view' # "forgot_password" /\ rates'["register"].count <= 1
            /\ FewOfBoth
       \/ corner = "google" /\ (OAuthSteps \/ Reload)
FairSpec == MCInit /\ [][MCNext]_<<vars, corner>> /\ Fairness

=============================================================================
