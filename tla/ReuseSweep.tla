----------------------------- MODULE ReuseSweep -----------------------------
(***************************************************************************)
(* SessionHandlers with one history variable: the sessions that a          *)
(* RevokeAllForUser issued by Refresh has run over.                        *)
(***************************************************************************)
EXTENDS SessionHandlers

VARIABLE swept

sweepVars == <<vars, swept>>

(* The UPDATE of RefreshRevokeAll took effect in this step.                *)
SweepsNow(h) ==
    /\ At(h, "revokeAll") /\ req'[h].at = "reply"
    /\ SessionsOf(req[h].user) \subseteq revoked'

SweepInit == Init /\ swept = {}

SweepNext ==
    /\ Next
    /\ swept' = swept \cup
         UNION {SessionsOf(req[h].user) : h \in {g \in Handlers : SweepsNow(g)}}

SweepSpec == SweepInit /\ [][SweepNext]_sweepVars

(* token.go 31: "Revoke all active sessions if a reuse pattern indicates   *)
(* token theft."  So once that UPDATE has succeeded no session it covered, *)
(* and none obtained from one of them, is active.                          *)
ReuseEndsEverySession ==
    \A t \in rows \ revoked : t \notin swept /\ parent[t] \notin swept

=============================================================================
