--------------------------- MODULE LimiterAnswers ---------------------------
(***************************************************************************)
(* RateLimiter with one history variable: the stamps of the calls that     *)
(* Allow answered with true.                                               *)
(***************************************************************************)
EXTENDS RateLimiter

VARIABLE answered

AnswersInit == Init /\ answered = {}

AnswersNext ==
    \/ /\ Tick \/ \E c \in Callers : Start(c) \/ Purge(c) \/ Add(c) \/ Count(c)
                                   \/ Abort(c) \/ Retry(c)
       /\ UNCHANGED answered
    \/ \E c \in Callers :
          /\ Expire(c)
          /\ answered' = IF WithinLimit(call[c].count)
                         THEN answered \cup {call[c].stamp}
                         ELSE answered

AnswersSpec == AnswersInit /\ [][AnswersNext]_<<vars, answered>>

Stamps(x, w) == {s \in 0..MaxTime : x <= s /\ s < x + w}

(* ratelimit.go 11: "generic sliding window rate limiting".  Counting only *)
(* one call for each clock reading, over a window shorter by the time a    *)
(* call may take, at most Limit calls are allowed.                         *)
SlidingWindow ==
    \A x \in 0..MaxTime :
        Cardinality({s \in Stamps(x, Window - MaxDelay) : s \in answered}) <= Limit

=============================================================================
