---------------------------- MODULE RateLimiter ----------------------------
(***************************************************************************)
(* RateLimiter.Allow (backend/internal/platform/redis/ratelimit.go) for    *)
(* one key.  The caller reads its own clock, then sends four commands in a *)
(* pipeline, which is not a transaction: Redis may run other callers'      *)
(* commands, or expire the key, between any two of them.                   *)
(***************************************************************************)
EXTENDS Integers, FiniteSets

CONSTANTS
    Callers,        \* requests that may be inside Allow at once
    Limit,          \* argument limit
    Window,         \* argument window, in clock ticks
    MaxDelay,       \* longest time from time.Now() to the last command: the
                    \* context and go-redis timeouts bound it
    MaxTime         \* bound on the clock

ASSUME LimiterAssumption ==
    /\ Limit \in Nat \ {0} /\ Window \in Nat \ {0}
    /\ MaxDelay \in Nat /\ MaxTime \in Nat

VARIABLES
    clock,
    zset,           \* members of the sorted set; member and score are one stamp
    ttl,            \* when Redis deletes the key; 0 while it has no TTL
    call,           \* each caller: next command, its `now`, the ZCARD reply,
                    \* and (history) whether the entry it added is still there
    seen,           \* history: stamps of every ZADD
    granted         \* history: stamps of calls that were allowed with their
                    \* own entry still in the set

vars == <<clock, zset, ttl, call, seen, granted>>

Calls == [at : {"idle", "purge", "add", "count", "expire"},
          stamp : Nat, count : Nat, kept : BOOLEAN]
Idle == [at |-> "idle", stamp |-> 0, count |-> 0, kept |-> FALSE]

Init ==
    /\ clock = 0
    /\ zset = {} /\ ttl = 0
    /\ call = [c \in Callers |-> Idle]
    /\ seen = {} /\ granted = {}

At(c, step) == call[c].at = step

(* now := time.Now()                                                       *)
Stamp == clock

Start(c) ==
    /\ At(c, "idle")
    /\ call' = [call EXCEPT ![c] = [Idle EXCEPT !.at = "purge", !.stamp = Stamp]]
    /\ UNCHANGED <<clock, zset, ttl, seen, granted>>

(* Entries with score in -inf..now-window; Redis drops an emptied key and  *)
(* its TTL with it.                                                        *)
PurgeYounger(stamp) == {s \in zset : s > stamp}                   \* mutant
PurgeNothing(stamp) == zset                                       \* mutant
Surviving(stamp) == {s \in zset : s > stamp - Window}

Purge(c) ==
    /\ At(c, "purge")
    /\ zset' = Surviving(call[c].stamp)
    /\ ttl' = IF zset' = {} THEN 0 ELSE ttl
    /\ call' = [call EXCEPT ![c].at = "add"]
    /\ UNCHANGED <<clock, seen, granted>>

(* ZADD now now: the same nanosecond is the same member.                   *)
Add(c) ==
    /\ At(c, "add")
    /\ zset' = zset \cup {call[c].stamp}
    /\ seen' = seen \cup {call[c].stamp}
    /\ call' = [call EXCEPT ![c].at = "count", ![c].kept = TRUE]
    /\ UNCHANGED <<clock, ttl, granted>>

Count(c) ==
    /\ At(c, "count")
    /\ call' = [call EXCEPT ![c].at = "expire", ![c].count = Cardinality(zset)]
    /\ UNCHANGED <<clock, zset, ttl, seen, granted>>

(* countCmd.Val() <= limit                                                 *)
WithinLimit(count) == count <= Limit

(* EXPIRE does nothing when the key is gone.  Then Allow returns.          *)
Expire(c) ==
    /\ At(c, "expire")
    /\ ttl' = IF zset = {} THEN ttl ELSE clock + Window
    /\ granted' = IF WithinLimit(call[c].count) /\ call[c].kept
                  THEN granted \cup {call[c].stamp} ELSE granted
    /\ call' = [call EXCEPT ![c] = Idle]
    /\ UNCHANGED <<clock, zset, seen>>

(* Exec returned an error: the caller is refused, whatever prefix of the   *)
(* commands Redis ran.                                                     *)
Abort(c) ==
    /\ ~ At(c, "idle")
    /\ call' = [call EXCEPT ![c] = Idle]
    /\ UNCHANGED <<clock, zset, ttl, seen, granted>>

(* go-redis sends the whole pipeline again after a network error.          *)
Retry(c) ==
    /\ At(c, "add") \/ At(c, "count") \/ At(c, "expire")
    /\ call' = [call EXCEPT ![c].at = "purge"]
    /\ UNCHANGED <<clock, zset, ttl, seen, granted>>

(* Time passes, no call outliving MaxDelay; the key goes at its deadline.  *)
Tick ==
    /\ clock < MaxTime
    /\ \A c \in Callers : At(c, "idle") \/ clock < call[c].stamp + MaxDelay
    /\ clock' = clock + 1
    /\ IF ttl # 0 /\ ttl <= clock + 1
       THEN /\ zset' = {} /\ ttl' = 0
            /\ call' = [c \in Callers |-> [call[c] EXCEPT !.kept = FALSE]]
       ELSE UNCHANGED <<zset, ttl, call>>
    /\ UNCHANGED <<seen, granted>>

Allow(c) == Start(c) \/ Purge(c) \/ Add(c) \/ Count(c) \/ Expire(c)

Next ==
    \/ \E c \in Callers : Allow(c) \/ Abort(c) \/ Retry(c)
    \/ Tick

Spec == Init /\ [][Next]_vars

-----------------------------------------------------------------------------
(* Type invariant: stamps come from clock readings already taken.          *)
TypeOK ==
    /\ clock \in Nat /\ ttl \in Nat
    /\ zset \subseteq 0..clock /\ seen \subseteq 0..clock
    /\ granted \subseteq 0..clock
    /\ call \in [Callers -> Calls]

(* Admissions whose stamp lies in the Window - MaxDelay ticks that start   *)
(* at x.                                                                   *)
GrantedFrom(x) == {s \in granted : x <= s /\ s < x + Window - MaxDelay}

(* The sliding window limits: calls that were allowed, at different times  *)
(* and with their entry kept, number at most Limit in every interval of    *)
(* Window less the time a call may take (ratelimit.go 25-46).  It needs    *)
(* that no command of any caller, however late, removes an entry that a    *)
(* later ZCARD must still see.                                             *)
LimitHolds ==
    \A x \in 0..clock : Cardinality(GrantedFrom(x)) <= Limit

(* Nobody is refused without cause, so a key never stays locked: when a    *)
(* ZCARD exceeds the limit, more than Limit calls did stamp the window     *)
(* that ends with this one (or the time this one has taken).               *)
RefusedForCause ==
    \A c \in Callers : At(c, "expire") /\ ~ WithinLimit(call[c].count) =>
        Cardinality({s \in seen : \/ s > call[c].stamp - Window
                                  \/ s >= call[c].stamp - MaxDelay}) > Limit

=============================================================================
