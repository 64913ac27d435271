------------------------- MODULE MCBrowserSessions -------------------------
(* Small instances of BrowserSessions for TLC.                             *)
EXTENDS BrowserSessions, TLC

CONSTANTS alice, tab1, tab2, phone, laptop

(* One device with two tabs.                                               *)
OneOwner == [d \in Devices |-> alice]
SameDevice == [t \in Tabs |-> phone]

(* Two devices of one account, a tab each.                                 *)
OwnDevice == [t \in Tabs |-> IF t = tab1 THEN phone ELSE laptop]

TokenSymmetry == Permutations(Tokens) \cup Permutations(Handlers)

(* The two devices trade places, each with its tab.                        *)
DeviceSwap == (phone :> laptop) @@ (laptop :> phone)
                @@ (tab1 :> tab2) @@ (tab2 :> tab1)
DeviceSymmetry == TokenSymmetry \cup {DeviceSwap}

(* TLC tells states apart without the history that no property here reads. *)
WithoutHistory ==
    << rows, owner, expiresAt, revoked, delivered, now, browser, burnt,
       [h \in Handlers |-> [req[h] EXCEPT !.dead = FALSE]] >>

=============================================================================
