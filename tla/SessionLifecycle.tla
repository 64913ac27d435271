-------------------------- MODULE SessionLifecycle --------------------------
(***************************************************************************)
(* What the session table promises, with every request taken as one step:  *)
(* a refresh token is issued once, by a login or in exchange for an older  *)
(* token of the same account; once retired it stays retired; one request   *)
(* retires one token, unless it brings evidence of reuse, a token already  *)
(* retired, and then all tokens of that account go.                        *)
(***************************************************************************)
CONSTANTS Users, NoUser, Tokens, NoToken

VARIABLES holder,       \* the account a token was issued to
          origin,       \* the token it was exchanged for
          retired       \* tokens revoked

vars == <<holder, origin, retired>>

Issued(t) == holder[t] # NoUser
TokensOf(u) == {t \in Tokens : holder[t] = u}

Init ==
    /\ holder = [t \in Tokens |-> NoUser]
    /\ origin = [t \in Tokens |-> NoToken]
    /\ retired = {}

IssueAtLogin(t, u) ==
    /\ ~ Issued(t)
    /\ holder' = [holder EXCEPT ![t] = u]
    /\ UNCHANGED <<origin, retired>>

Exchange(t, old) ==
    /\ ~ Issued(t) /\ Issued(old)
    /\ holder' = [holder EXCEPT ![t] = holder[old]]
    /\ origin' = [origin EXCEPT ![t] = old]
    /\ UNCHANGED retired

Retire(t) ==
    /\ Issued(t)
    /\ retired' = retired \cup {t}
    /\ UNCHANGED <<holder, origin>>

RetireAll(u) ==
    /\ TokensOf(u) \cap retired # {}
    /\ retired' = retired \cup TokensOf(u)
    /\ UNCHANGED <<holder, origin>>

Next ==
    \/ \E t \in Tokens, u \in Users : IssueAtLogin(t, u)
    \/ \E t, old \in Tokens : Exchange(t, old)
    \/ \E t \in Tokens : Retire(t)
    \/ \E u \in Users : RetireAll(u)

Spec == Init /\ [][Next]_vars

=============================================================================
