-------------------------- MODULE RateLimiterProofs --------------------------
(***************************************************************************)
(* The sliding window limits and refuses for cause, for any number of      *)
(* callers, limit, window and delay.                                       *)
(*                                                                         *)
(* A call is admitted once its ZCARD is within the limit and its entry is  *)
(* there.  Entries of admitted calls stay in the set for the length of the *)
(* window: a purge by a clock that has been read reaches back further than *)
(* that only afterwards, and every EXPIRE pushes the deadline of the key.  *)
(* So the ZCARD of the last of them has counted all the others.            *)
(***************************************************************************)
EXTENDS RateLimiter, FiniteSetTheorems, TLAPS

InFlight(c) == call[c].at # "idle"
Counted(c) == call[c].at = "expire"
Entered(c) == call[c].at \in {"count", "expire"} /\ call[c].kept

(* A call knows a time that has been, and is not older than MaxDelay.      *)
ClocksRight ==
    \A c \in Callers : InFlight(c) =>
        call[c].stamp <= clock /\ clock <= call[c].stamp + MaxDelay

Cause(c) == {s \in seen : s > call[c].stamp - Window \/ s >= call[c].stamp - MaxDelay}

(* After its purge a call can meet no entry without cause.                 *)
Explained ==
    /\ zset \subseteq seen
    /\ \A c \in Callers :
        /\ call[c].at \in {"add", "count", "expire"} => zset \subseteq Cause(c)
        /\ Counted(c) => call[c].count <= Cardinality(Cause(c))

LimiterInv == TypeOK /\ ClocksRight /\ Explained

LEMMA FiniteTimes ==
    ASSUME NEW n \in Nat, NEW S, S \subseteq 0..n
    PROVE  IsFiniteSet(S) /\ Cardinality(S) \in Nat
<1>1. n \in Int /\ 0 \in Int
  OBVIOUS
<1>2. IsFiniteSet(0..n)
  BY <1>1, FS_Interval
<1>3. IsFiniteSet(S)
  BY <1>2, FS_Subset
<1> QED
  BY <1>3, FS_CardinalityType

LEMMA SubsetSmaller ==
    ASSUME NEW n \in Nat, NEW S, NEW T, S \subseteq T, T \subseteq 0..n
    PROVE  Cardinality(S) <= Cardinality(T)
<1>1. IsFiniteSet(T)
  BY FiniteTimes
<1> QED
  BY <1>1, FS_Subset

LEMMA InitLimiter == Init => LimiterInv
<1>1. SUFFICES ASSUME Init PROVE LimiterInv
  OBVIOUS
<1>2. /\ Idle = [at |-> "idle", stamp |-> 0, count |-> 0, kept |-> FALSE]
      /\ call = [c \in Callers |-> Idle] /\ Idle \in Calls
  BY <1>1 DEF Init, Idle, Calls
<1>3. \A c \in Callers : call[c] = Idle /\ call[c].at = "idle"
  BY <1>2
<1>4. TypeOK
  BY <1>1, <1>2 DEF Init, TypeOK
<1>5. ClocksRight /\ Explained
  BY <1>1, <1>3 DEF Init, ClocksRight, Explained, InFlight, Counted
<1> QED
  BY <1>4, <1>5 DEF LimiterInv

(* What every action of a caller does to the records of the others, and    *)
(* the typed part of the invariant.                                        *)
LEMMA CallerTyped ==
    ASSUME TypeOK, ClocksRight, NEW c \in Callers, Allow(c) \/ Abort(c) \/ Retry(c)
    PROVE  /\ TypeOK' /\ ClocksRight' /\ clock' = clock
           /\ call'[c] \in Calls
           /\ \A d \in Callers \ {c} : call'[d] = call[d]
<1>1. /\ call \in [Callers -> Calls] /\ call[c] \in Calls /\ Idle \in Calls
      /\ clock \in Nat /\ ttl \in Nat /\ Window \in Nat
  BY LimiterAssumption DEF TypeOK, Calls, Idle
<1>2. CASE Start(c)
  <2> DEFINE mid == [Idle EXCEPT !.at = "purge"]
             new == [mid EXCEPT !.stamp = Stamp]
  <2>1. mid \in Calls
    BY <1>1 DEF Calls
  <2> HIDE DEF mid
  <2>2. new \in Calls /\ new.stamp = clock
    BY <1>1, <2>1 DEF Calls, Stamp
  <2>3. call' = [call EXCEPT ![c] = new] /\ UNCHANGED <<clock, zset, ttl, seen, granted>>
    BY <1>2 DEF Start, mid
  <2> HIDE DEF new
  <2> QED
    BY <1>1, <2>2, <2>3, LimiterAssumption DEF TypeOK, ClocksRight, InFlight
<1>3. CASE Purge(c)
  BY <1>1, <1>3 DEF Purge, At, Surviving, TypeOK, ClocksRight, InFlight, Calls
<1>4. CASE Add(c)
  <2>1. call[c].stamp \in 0..clock
    BY <1>1, <1>4 DEF Add, At, ClocksRight, InFlight, Calls
  <2> QED
    BY <1>1, <1>4, <2>1 DEF Add, At, TypeOK, ClocksRight, InFlight, Calls
<1>5. CASE Count(c)
  <2>1. Cardinality(zset) \in Nat
    BY FiniteTimes DEF TypeOK
  <2> QED
    BY <1>1, <1>5, <2>1 DEF Count, At, TypeOK, ClocksRight, InFlight, Calls
<1>6. CASE Expire(c)
  <2>1. call[c].stamp \in 0..clock
    BY <1>1, <1>6 DEF Expire, At, ClocksRight, InFlight, Calls
  <2>2. /\ call'[c] = Idle /\ call' \in [Callers -> Calls] /\ Idle.at = "idle"
        /\ \A d \in Callers \ {c} : call'[d] = call[d]
        /\ UNCHANGED <<clock, zset, seen>>
    BY <1>1, <1>6 DEF Expire, Idle
  <2>3. ttl' \in Nat
    BY <1>1, <1>6 DEF Expire
  <2>4. granted' \subseteq 0..clock
    BY <1>6, <2>1 DEF Expire, TypeOK
  <2> QED
    BY <1>1, <2>2, <2>3, <2>4 DEF TypeOK, ClocksRight, InFlight
<1>7. CASE Abort(c)
  BY <1>1, <1>7 DEF Abort, Idle, TypeOK, ClocksRight, InFlight
<1>8. CASE Retry(c)
  BY <1>1, <1>8 DEF Retry, At, TypeOK, ClocksRight, InFlight, Calls
<1> QED
  BY <1>2, <1>3, <1>4, <1>5, <1>6, <1>7, <1>8 DEF Allow

LEMMA TickTyped ==
    ASSUME TypeOK, ClocksRight, Tick
    PROVE  /\ TypeOK' /\ ClocksRight' /\ clock' = clock + 1
           /\ \A c \in Callers : /\ call'[c].at = call[c].at
                                 /\ call'[c].stamp = call[c].stamp
                                 /\ call'[c].count = call[c].count
<1>1. /\ call' \in [Callers -> Calls] /\ clock' = clock + 1
      /\ \A c \in Callers : /\ call'[c].at = call[c].at
                            /\ call'[c].stamp = call[c].stamp
                            /\ call'[c].count = call[c].count
  <2>1. \A c \in Callers : call[c] \in Calls
    BY DEF TypeOK
  <2>2. CASE call' = call
    BY <2>2 DEF Tick, TypeOK
  <2>3. CASE call' = [c \in Callers |-> [call[c] EXCEPT !.kept = FALSE]]
    BY <2>1, <2>3 DEF Tick, Calls
  <2> QED
    BY <2>2, <2>3 DEF Tick
<1>2. TypeOK'
  BY <1>1 DEF Tick, TypeOK
<1>3. ClocksRight'
  BY <1>1, LimiterAssumption DEF Tick, At, TypeOK, Calls, ClocksRight, InFlight
<1> QED
  BY <1>1, <1>2, <1>3

LEMMA CallerExplained ==
    ASSUME LimiterInv, NEW c \in Callers, Allow(c) \/ Abort(c) \/ Retry(c)
    PROVE  Explained'
<1>1. /\ TypeOK /\ ClocksRight /\ TypeOK' /\ ClocksRight' /\ clock' = clock
      /\ call[c] \in Calls /\ call'[c] \in Calls /\ clock \in Nat
      /\ \A d \in Callers \ {c} : call'[d] = call[d]
  BY CallerTyped DEF LimiterInv, TypeOK
<1>2. seen \subseteq seen' /\ seen' \subseteq 0..clock
  BY <1>1 DEF Allow, Start, Purge, Add, Count, Expire, Abort, Retry, TypeOK
<1>3. ASSUME NEW s \in zset', s \notin zset
      PROVE  s \in seen' /\ clock <= s + MaxDelay /\ s \in Nat
  BY <1>1, <1>3 DEF Allow, Start, Purge, Surviving, Add, At, Count, Expire, Abort, Retry,
                    ClocksRight, InFlight, Calls
<1>4. zset' \subseteq seen'
  BY <1>2, <1>3 DEF LimiterInv, Explained
<1>5. ASSUME NEW d \in Callers, d # c
      PROVE  /\ call'[d].at \in {"add", "count", "expire"} => zset' \subseteq Cause(d)'
             /\ Counted(d)' => call'[d].count <= Cardinality(Cause(d)')
  <2>1. call'[d] = call[d] /\ Cause(d) \subseteq Cause(d)' /\ Cause(d)' \subseteq 0..clock
        /\ call[d] \in Calls
    BY <1>1, <1>2, <1>5 DEF Cause, TypeOK
  <2>2. ASSUME call[d].at \in {"add", "count", "expire"}, NEW s \in zset' PROVE s \in Cause(d)'
    <3>1. CASE s \in zset
      BY <2>1, <2>2, <3>1 DEF LimiterInv, Explained
    <3>2. CASE s \notin zset
      <4>1. call[d].stamp <= clock
        BY <1>1, <2>2 DEF ClocksRight, InFlight
      <4>2. s >= call[d].stamp - MaxDelay
        BY <1>1, <1>3, <2>1, <3>2, <4>1, LimiterAssumption DEF Calls
      <4> QED
        BY <1>3, <2>1, <3>2, <4>2 DEF Cause
    <3> QED
      BY <3>1, <3>2
  <2>3. ASSUME Counted(d) PROVE call[d].count <= Cardinality(Cause(d)')
    <3>1. Cardinality(Cause(d)) <= Cardinality(Cause(d)')
      BY <1>1, <2>1, SubsetSmaller
    <3>2. call[d].count <= Cardinality(Cause(d))
      BY <2>3 DEF LimiterInv, Explained
    <3>3. Cardinality(Cause(d)) \in Nat /\ Cardinality(Cause(d)') \in Nat
      BY <1>1, <2>1, FiniteTimes
    <3> QED
      BY <2>1, <3>1, <3>2, <3>3 DEF Calls
  <2> QED
    BY <2>1, <2>2, <2>3 DEF Counted
<1>6. /\ call'[c].at \in {"add", "count", "expire"} => zset' \subseteq Cause(c)'
      /\ Counted(c)' => call'[c].count <= Cardinality(Cause(c)')
  <2>1. CASE Start(c) \/ Expire(c) \/ Abort(c) \/ Retry(c)
    <3>1. call'[c].at \in {"purge", "idle"}
      <4>1. CASE Start(c)
        <5>1. [[Idle EXCEPT !.at = "purge"] EXCEPT !.stamp = Stamp].at = "purge"
          BY DEF Idle
        <5> QED
          BY <1>1, <4>1, <5>1 DEF Start, TypeOK
      <4>2. CASE Expire(c) \/ Abort(c)
        BY <1>1, <4>2 DEF Expire, Abort, Idle, TypeOK
      <4>3. CASE Retry(c)
        BY <1>1, <4>3 DEF Retry, TypeOK, Calls
      <4> QED
        BY <2>1, <4>1, <4>2, <4>3
    <3> QED
      BY <3>1 DEF Counted
  <2>2. CASE Purge(c)
    <3>1. /\ zset' = Surviving(call[c].stamp) /\ call'[c].at = "add" /\ seen' = seen
          /\ call'[c].stamp = call[c].stamp
      BY <1>1, <2>2 DEF Purge, TypeOK, Calls
    <3> QED
      BY <1>4, <3>1 DEF Surviving, Cause, Counted
  <2>3. CASE Add(c)
    <3>1. /\ zset' = zset \cup {call[c].stamp} /\ seen' = seen \cup {call[c].stamp}
          /\ call'[c].at = "count" /\ call'[c].stamp = call[c].stamp /\ call[c].at = "add"
      BY <1>1, <2>3 DEF Add, At, TypeOK, Calls
    <3>2. zset \subseteq Cause(c)
      BY <3>1 DEF LimiterInv, Explained
    <3> QED
      BY <1>1, <3>1, <3>2, LimiterAssumption DEF Cause, Counted, Calls
  <2>4. CASE Count(c)
    <3>1. /\ zset' = zset /\ seen' = seen /\ call[c].at = "count"
          /\ call'[c].count = Cardinality(zset) /\ call'[c].stamp = call[c].stamp
      BY <1>1, <2>4 DEF Count, At, TypeOK, Calls
    <3>2. zset \subseteq Cause(c) /\ Cause(c)' = Cause(c) /\ Cause(c) \subseteq 0..clock
      BY <1>1, <3>1 DEF LimiterInv, Explained, Cause, TypeOK
    <3> QED
      BY <1>1, <3>1, <3>2, SubsetSmaller
  <2> QED
    BY <2>1, <2>2, <2>3, <2>4 DEF Allow
<1> QED
  BY <1>4, <1>5, <1>6 DEF Explained

LEMMA TickExplained == ASSUME LimiterInv, Tick PROVE Explained'
<1>1. seen' = seen /\ zset' \subseteq zset
  BY DEF Tick
<1>2. \A c \in Callers : Cause(c)' = Cause(c)
  BY <1>1, TickTyped DEF LimiterInv, Cause
<1> QED
  BY <1>1, <1>2, TickTyped DEF LimiterInv, Explained, Counted

LEMMA LimiterInvariant == Spec => []LimiterInv
<1>1. LimiterInv /\ [Next]_vars => LimiterInv'
  <2>1. CASE UNCHANGED vars
    BY <2>1 DEF vars, LimiterInv, TypeOK, ClocksRight, Explained, InFlight, Counted, Cause
  <2> QED
    BY <2>1, CallerTyped, TickTyped, CallerExplained, TickExplained DEF Next, LimiterInv
<1> QED
  BY <1>1, InitLimiter, PTL DEF Spec

(* Stamps are clock readings already taken.                                *)
THEOREM LimiterTyped == Spec => []TypeOK
<1>1. LimiterInv => TypeOK
  BY DEF LimiterInv
<1> QED
  BY <1>1, LimiterInvariant, PTL

(* A refused call has met more than Limit calls in its own window.         *)
THEOREM NoneRefusedWithoutCause == Spec => []RefusedForCause
<1>1. LimiterInv => RefusedForCause
  <2>1. SUFFICES ASSUME LimiterInv, NEW c \in Callers, At(c, "expire"), ~ WithinLimit(call[c].count)
                 PROVE  Cardinality(Cause(c)) > Limit
    BY DEF RefusedForCause, Cause
  <2>2. call[c].count <= Cardinality(Cause(c)) /\ call[c].count \in Nat
    BY <2>1 DEF LimiterInv, Explained, Counted, At, TypeOK, Calls
  <2>3. Cardinality(Cause(c)) \in Nat
    BY <2>1, FiniteTimes DEF LimiterInv, TypeOK, Cause
  <2> QED
    BY <2>1, <2>2, <2>3, LimiterAssumption DEF WithinLimit
<1> QED
  BY <1>1, LimiterInvariant, PTL

-----------------------------------------------------------------------------
(* The limit.                                                              *)
Admitting(c) == Counted(c) /\ call[c].kept /\ WithinLimit(call[c].count)
Admitted == granted \cup {call[c].stamp : c \in {d \in Callers : Admitting(d)}}
AdmittedFrom(x) == {s \in Admitted : x <= s /\ s < x + Window - MaxDelay}

EntriesKept ==
    /\ \A c \in Callers : Entered(c) => call[c].stamp \in zset
    /\ \A s \in granted : clock < s + Window => s \in zset /\ ttl >= s + Window

AdmissionsBounded == \A x \in Nat : Cardinality(AdmittedFrom(x)) <= Limit

LimitInv == LimiterInv /\ EntriesKept /\ AdmissionsBounded

LEMMA AdmittedTimes == ASSUME LimiterInv PROVE Admitted \subseteq 0..clock
<1>1. ASSUME NEW c \in Callers, Admitting(c) PROVE call[c].stamp \in 0..clock
  BY <1>1 DEF LimiterInv, TypeOK, Calls, ClocksRight, InFlight, Admitting, Counted
<1> QED
  BY <1>1 DEF Admitted, LimiterInv, TypeOK

LEMMA NoMoreAdmitted ==
    ASSUME LimiterInv, AdmissionsBounded, Admitted' \subseteq Admitted, NEW x \in Nat
    PROVE  Cardinality(AdmittedFrom(x)') <= Limit
<1>1. AdmittedFrom(x)' \subseteq AdmittedFrom(x) /\ AdmittedFrom(x) \subseteq 0..clock
  BY AdmittedTimes DEF AdmittedFrom
<1>2. clock \in Nat
  BY DEF LimiterInv, TypeOK
<1>3. Cardinality(AdmittedFrom(x)') <= Cardinality(AdmittedFrom(x))
  BY <1>1, <1>2, SubsetSmaller
<1>4. Cardinality(AdmittedFrom(x)') \in Nat /\ Cardinality(AdmittedFrom(x)) \in Nat
  BY <1>1, <1>2, FiniteTimes
<1> QED
  BY <1>3, <1>4, LimiterAssumption DEF AdmissionsBounded

LEMMA InitLimit == Init => LimitInv
<1>1. SUFFICES ASSUME Init PROVE LimitInv
  OBVIOUS
<1>2. /\ \A c \in Callers : call[c].at = "idle"
      /\ granted = {}
  BY <1>1 DEF Init, Idle
<1>3. EntriesKept
  BY <1>2 DEF EntriesKept, Entered
<1>4. \A x \in Nat : AdmittedFrom(x) = {}
  BY <1>2 DEF AdmittedFrom, Admitted, Admitting, Counted
<1>5. AdmissionsBounded
  BY <1>4, FS_EmptySet, LimiterAssumption DEF AdmissionsBounded
<1> QED
  BY <1>1, <1>3, <1>5, InitLimiter DEF LimitInv

LEMMA CallerKeeps ==
    ASSUME MaxDelay < Window, LimitInv, NEW c \in Callers, Allow(c) \/ Abort(c) \/ Retry(c)
    PROVE  EntriesKept'
<1>1. /\ TypeOK /\ ClocksRight /\ clock' = clock /\ clock \in Nat /\ ttl \in Nat
      /\ call[c] \in Calls /\ call'[c] \in Calls /\ MaxDelay \in Nat /\ Window \in Nat
      /\ \A d \in Callers \ {c} : call'[d] = call[d]
  BY CallerTyped, LimiterAssumption DEF LimitInv, LimiterInv, TypeOK
<1>2. /\ \A d \in Callers : Entered(d) => call[d].stamp \in zset
      /\ \A s \in granted : clock < s + Window => s \in zset /\ ttl >= s + Window
  BY DEF LimitInv, EntriesKept
<1>3. granted \subseteq 0..clock
  BY <1>1 DEF TypeOK
<1>4. CASE Start(c) \/ Abort(c) \/ Retry(c)
  <2>1. ~ Entered(c)'
    <3>1. CASE Start(c)
      <4>1. [[Idle EXCEPT !.at = "purge"] EXCEPT !.stamp = Stamp].at = "purge"
        BY DEF Idle
      <4> QED
        BY <1>1, <3>1, <4>1 DEF Start, TypeOK, Entered
    <3>2. CASE Abort(c)
      BY <1>1, <3>2 DEF Abort, Idle, TypeOK, Entered
    <3>3. CASE Retry(c)
      BY <1>1, <3>3 DEF Retry, TypeOK, Calls, Entered
    <3> QED
      BY <1>4, <3>1, <3>2, <3>3
  <2>2. UNCHANGED <<zset, ttl, granted>>
    BY <1>4 DEF Start, Abort, Retry
  <2> QED
    BY <1>1, <1>2, <2>1, <2>2 DEF EntriesKept, Entered
<1>5. CASE Purge(c)
  <2>1. /\ zset' = {s \in zset : s > call[c].stamp - Window}
        /\ ttl' = IF zset' = {} THEN 0 ELSE ttl
        /\ call'[c].at = "add" /\ granted' = granted
        /\ call[c].stamp \in Nat /\ call[c].stamp <= clock
    BY <1>1, <1>5 DEF Purge, At, Surviving, TypeOK, Calls, ClocksRight, InFlight
  <2>2. ASSUME NEW d \in Callers, Entered(d)' PROVE call'[d].stamp \in zset'
    <3>1. d # c /\ call'[d] = call[d] /\ Entered(d) /\ call[d].stamp \in Nat
      BY <1>1, <2>1, <2>2 DEF Entered, TypeOK, Calls
    <3>2. clock <= call[d].stamp + MaxDelay
      BY <1>1, <3>1 DEF ClocksRight, InFlight, Entered
    <3> QED
      BY <1>1, <1>2, <2>1, <3>1, <3>2
  <2>3. ASSUME NEW s \in granted, clock < s + Window PROVE s \in zset' /\ ttl' >= s + Window
    <3>1. s \in Nat /\ s > call[c].stamp - Window
      BY <1>1, <1>3, <2>1, <2>3
    <3> QED
      BY <1>2, <2>1, <2>3, <3>1
  <2> QED
    BY <1>1, <2>1, <2>2, <2>3 DEF EntriesKept
<1>6. CASE Add(c)
  <2>1. /\ zset' = zset \cup {call[c].stamp} /\ call'[c].stamp = call[c].stamp
        /\ UNCHANGED <<ttl, granted>>
    BY <1>1, <1>6 DEF Add, TypeOK, Calls
  <2> QED
    BY <1>1, <1>2, <2>1 DEF EntriesKept, Entered
<1>7. CASE Count(c)
  <2>1. /\ call'[c].stamp = call[c].stamp /\ call'[c].kept = call[c].kept
        /\ call[c].at = "count" /\ UNCHANGED <<zset, ttl, granted>>
    BY <1>1, <1>7 DEF Count, At, TypeOK, Calls
  <2> QED
    BY <1>1, <1>2, <2>1 DEF EntriesKept, Entered
<1>8. CASE Expire(c)
  <2>1. /\ zset' = zset /\ ttl' = (IF zset = {} THEN ttl ELSE clock + Window)
        /\ call[c].at = "expire" /\ call'[c].at = "idle"
        /\ granted' \subseteq granted \cup (IF call[c].kept THEN {call[c].stamp} ELSE {})
    BY <1>1, <1>8 DEF Expire, At, Idle, TypeOK
  <2>2. call[c].stamp \in 0..clock
    BY <1>1, <2>1 DEF ClocksRight, InFlight, Calls
  <2>3. ASSUME NEW s \in granted', clock < s + Window PROVE s \in zset /\ ttl' >= s + Window
    <3>1. s \in zset /\ s \in 0..clock
      BY <1>2, <1>3, <2>1, <2>2, <2>3 DEF Entered
    <3> QED
      BY <1>1, <2>1, <3>1
  <2> QED
    BY <1>1, <1>2, <2>1, <2>3 DEF EntriesKept, Entered
<1> QED
  BY <1>4, <1>5, <1>6, <1>7, <1>8 DEF Allow

LEMMA TickKeeps == ASSUME LimitInv, Tick PROVE EntriesKept'
<1>1. /\ clock \in Nat /\ ttl \in Nat /\ clock' = clock + 1 /\ granted' = granted
      /\ granted \subseteq 0..clock /\ Window \in Nat /\ call \in [Callers -> Calls]
      /\ \A c \in Callers : call'[c].at = call[c].at /\ call'[c].stamp = call[c].stamp
  BY TickTyped, LimiterAssumption DEF LimitInv, LimiterInv, Tick, TypeOK
<1>2. CASE ttl # 0 /\ ttl <= clock + 1
  <2>1. \A c \in Callers : ~ call'[c].kept
    BY <1>1, <1>2 DEF Tick, Calls
  <2>2. \A s \in granted : clock < s + Window => clock + 1 >= s + Window
    BY <1>1, <1>2 DEF LimitInv, EntriesKept
  <2> QED
    BY <1>1, <2>1, <2>2 DEF EntriesKept, Entered
<1>3. CASE ~(ttl # 0 /\ ttl <= clock + 1)
  BY <1>1, <1>3 DEF Tick, LimitInv, EntriesKept, Entered
<1> QED
  BY <1>2, <1>3

LEMMA CallerBounded ==
    ASSUME MaxDelay < Window, LimitInv, NEW c \in Callers, Allow(c) \/ Abort(c) \/ Retry(c)
    PROVE  AdmissionsBounded'
<1>1. /\ TypeOK /\ ClocksRight /\ LimiterInv /\ AdmissionsBounded /\ clock \in Nat
      /\ call[c] \in Calls /\ call'[c] \in Calls /\ MaxDelay \in Nat /\ Window \in Nat
      /\ \A d \in Callers \ {c} : call'[d] = call[d]
  BY CallerTyped, LimiterAssumption DEF LimitInv, LimiterInv, TypeOK
<1>2. CASE ~ Count(c)
  <2>1. ~ Admitting(c)'
    <3>1. call'[c].at # "expire"
      <4>1. CASE Start(c)
        <5>1. [[Idle EXCEPT !.at = "purge"] EXCEPT !.stamp = Stamp].at = "purge"
          BY DEF Idle
        <5> QED
          BY <1>1, <4>1, <5>1 DEF Start, TypeOK
      <4>2. CASE Purge(c) \/ Add(c) \/ Retry(c)
        BY <1>1, <4>2 DEF Purge, Add, Retry, TypeOK, Calls
      <4>3. CASE Expire(c) \/ Abort(c)
        BY <1>1, <4>3 DEF Expire, Abort, Idle, TypeOK
      <4> QED
        BY <1>2, <4>1, <4>2, <4>3 DEF Allow
    <3> QED
      BY <3>1 DEF Admitting, Counted
  <2>2. granted' \subseteq Admitted
    BY <1>2 DEF Allow, Start, Purge, Add, Expire, At, Abort, Retry, Admitted, Admitting, Counted
  <2>3. \A d \in Callers : Admitting(d)' => Admitting(d) /\ call'[d].stamp = call[d].stamp
    BY <1>1, <2>1 DEF Admitting, Counted
  <2>4. Admitted' \subseteq Admitted
    BY <2>2, <2>3 DEF Admitted
  <2> QED
    BY <1>1, <2>4, NoMoreAdmitted DEF AdmissionsBounded
<1>3. CASE Count(c)
  <2>1. /\ zset' = zset /\ granted' = granted /\ call[c].at = "count"
        /\ call'[c].at = "expire" /\ call'[c].count = Cardinality(zset)
        /\ call'[c].stamp = call[c].stamp /\ call'[c].kept = call[c].kept
    BY <1>1, <1>3 DEF Count, At, TypeOK, Calls
  <2>2. \A d \in Callers \ {c} : Admitting(d)' <=> Admitting(d)
    BY <1>1 DEF Admitting, Counted
  <2>3. CASE ~ Admitting(c)'
    <3>1. Admitted' \subseteq Admitted
      BY <1>1, <2>1, <2>2, <2>3 DEF Admitted
    <3> QED
      BY <1>1, <3>1, NoMoreAdmitted DEF AdmissionsBounded
  <2>4. CASE Admitting(c)'
    <3>1. /\ Entered(c) /\ Cardinality(zset) <= Limit /\ call[c].stamp \in 0..clock
          /\ clock <= call[c].stamp + MaxDelay
      BY <1>1, <2>1, <2>4 DEF Admitting, Counted, WithinLimit, Entered, ClocksRight, InFlight, Calls
    <3>2. Admitted' \subseteq Admitted \cup {call[c].stamp}
      BY <1>1, <2>1, <2>2 DEF Admitted
    <3>3. ASSUME NEW x \in Nat PROVE Cardinality(AdmittedFrom(x)') <= Limit
      <4>1. CASE call[c].stamp \in AdmittedFrom(x)'
        <5>1. ASSUME NEW s \in AdmittedFrom(x)' PROVE s \in zset
          <6>1. CASE s = call[c].stamp
            BY <3>1, <6>1 DEF LimitInv, EntriesKept
          <6>2. CASE s \in granted
            <7>1. s \in Nat /\ x <= s /\ call[c].stamp < x + Window - MaxDelay
              BY <1>1, <4>1, <5>1, <6>2 DEF AdmittedFrom, TypeOK
            <7>2. clock < s + Window
              BY <1>1, <3>1, <7>1
            <7> QED
              BY <6>2, <7>2 DEF LimitInv, EntriesKept
          <6>3. CASE \E d \in Callers : Admitting(d) /\ s = call[d].stamp
            BY <6>3 DEF LimitInv, EntriesKept, Entered, Admitting, Counted
          <6> QED
            BY <3>2, <5>1, <6>1, <6>2, <6>3 DEF AdmittedFrom, Admitted
        <5>2. Cardinality(AdmittedFrom(x)') <= Cardinality(zset)
          BY <1>1, <5>1, SubsetSmaller DEF TypeOK
        <5>3. Cardinality(AdmittedFrom(x)') \in Nat /\ Cardinality(zset) \in Nat
          <6>1. zset \subseteq 0..clock /\ AdmittedFrom(x)' \subseteq 0..clock
            BY <1>1, <5>1 DEF TypeOK
          <6> QED
            BY <1>1, <6>1, FiniteTimes
        <5> QED
          BY <3>1, <5>2, <5>3, LimiterAssumption
      <4>2. CASE call[c].stamp \notin AdmittedFrom(x)'
        <5>1. AdmittedFrom(x)' \subseteq AdmittedFrom(x) /\ AdmittedFrom(x) \subseteq 0..clock
          BY <1>1, <3>2, <4>2, AdmittedTimes DEF AdmittedFrom
        <5>2. Cardinality(AdmittedFrom(x)') <= Cardinality(AdmittedFrom(x))
          BY <1>1, <5>1, SubsetSmaller
        <5>3. Cardinality(AdmittedFrom(x)') \in Nat /\ Cardinality(AdmittedFrom(x)) \in Nat
          BY <1>1, <5>1, FiniteTimes
        <5> QED
          BY <1>1, <5>2, <5>3, LimiterAssumption DEF AdmissionsBounded
      <4> QED
        BY <4>1, <4>2
    <3> QED
      BY <3>3 DEF AdmissionsBounded
  <2> QED
    BY <2>3, <2>4
<1> QED
  BY <1>2, <1>3

LEMMA TickBounded == ASSUME LimitInv, Tick PROVE AdmissionsBounded'
<1>1. /\ LimiterInv /\ AdmissionsBounded /\ granted' = granted /\ call \in [Callers -> Calls]
      /\ \A c \in Callers : /\ call'[c].at = call[c].at
                            /\ call'[c].stamp = call[c].stamp
                            /\ call'[c].count = call[c].count
  BY TickTyped DEF LimitInv, LimiterInv, Tick, TypeOK
<1>2. \A c \in Callers : call'[c].kept => call[c].kept
  BY <1>1 DEF Tick, Calls
<1>3. \A c \in Callers : Admitting(c)' => Admitting(c)
  BY <1>1, <1>2 DEF Admitting, Counted
<1>4. Admitted' \subseteq Admitted
  BY <1>1, <1>3 DEF Admitted
<1> QED
  BY <1>1, <1>4, NoMoreAdmitted DEF AdmissionsBounded

LEMMA LimitInvariant == ASSUME MaxDelay < Window PROVE Spec => []LimitInv
<1>1. LimitInv /\ [Next]_vars => LimitInv'
  <2>1. SUFFICES ASSUME LimitInv, [Next]_vars PROVE LimitInv'
    OBVIOUS
  <2>2. CASE UNCHANGED vars
    BY <2>1, <2>2 DEF vars, LimitInv, LimiterInv, TypeOK, ClocksRight, Explained, InFlight,
                      Counted, Cause, EntriesKept, Entered, AdmissionsBounded, AdmittedFrom,
                      Admitted, Admitting
  <2>3. ASSUME NEW c \in Callers, Allow(c) \/ Abort(c) \/ Retry(c) PROVE LimitInv'
    <3>1. LimiterInv'
      BY <2>1, <2>3, CallerTyped, CallerExplained DEF LimitInv, LimiterInv
    <3> QED
      BY <2>1, <2>3, <3>1, CallerKeeps, CallerBounded DEF LimitInv
  <2>4. CASE Tick
    <3>1. LimiterInv'
      BY <2>1, <2>4, TickTyped, TickExplained DEF LimitInv, LimiterInv
    <3> QED
      BY <2>1, <2>4, <3>1, TickKeeps, TickBounded DEF LimitInv
  <2> QED
    BY <2>1, <2>2, <2>3, <2>4 DEF Next
<1> QED
  BY <1>1, InitLimit, PTL DEF Spec

(* In every interval of Window less the time a call may take, at most      *)
(* Limit calls are let through (Allow, ratelimit.go 25-46).                *)
THEOREM TheLimitHolds == Spec => []LimitHolds
<1>1. CASE MaxDelay < Window
  <2>1. LimitInv => LimitHolds
    <3>1. SUFFICES ASSUME LimitInv, NEW x \in 0..clock PROVE Cardinality(GrantedFrom(x)) <= Limit
      BY DEF LimitHolds
    <3>2. LimiterInv /\ clock \in Nat /\ x \in Nat /\ Cardinality(AdmittedFrom(x)) <= Limit
      BY <3>1 DEF LimitInv, LimiterInv, TypeOK, AdmissionsBounded
    <3>3. GrantedFrom(x) \subseteq AdmittedFrom(x) /\ AdmittedFrom(x) \subseteq 0..clock
      BY <3>2, AdmittedTimes DEF GrantedFrom, AdmittedFrom, Admitted
    <3>4. Cardinality(GrantedFrom(x)) <= Cardinality(AdmittedFrom(x))
      BY <3>2, <3>3, SubsetSmaller
    <3>5. Cardinality(GrantedFrom(x)) \in Nat /\ Cardinality(AdmittedFrom(x)) \in Nat
      BY <3>2, <3>3, FiniteTimes
    <3> QED
      BY <3>2, <3>4, <3>5, LimiterAssumption
  <2>2. Spec => []LimitInv
    BY <1>1, LimitInvariant
  <2> QED
    BY <2>1, <2>2, PTL
<1>2. CASE ~(MaxDelay < Window)
  <2>1. TypeOK => LimitHolds
    <3>1. SUFFICES ASSUME TypeOK, NEW x \in 0..clock PROVE Cardinality(GrantedFrom(x)) <= Limit
      BY DEF LimitHolds
    <3>2. x \in Int /\ MaxDelay \in Int /\ Window \in Int /\ Window <= MaxDelay
      BY <1>2, <3>1, LimiterAssumption DEF TypeOK
    <3>3. \A s \in Int : ~ (x <= s /\ s < x + Window - MaxDelay)
      BY <3>2
    <3>4. granted \subseteq Int
      BY <3>1, LimiterAssumption DEF TypeOK
    <3>5. GrantedFrom(x) = {}
      BY <3>3, <3>4 DEF GrantedFrom
    <3> QED
      BY <3>5, FS_EmptySet, LimiterAssumption
  <2> QED
    BY <2>1, LimiterTyped, PTL
<1> QED
  BY <1>1, <1>2

=============================================================================
