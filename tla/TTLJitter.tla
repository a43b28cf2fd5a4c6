----------------------------- MODULE TTLJitter ------------------------------
(***************************************************************************)
(* RuleMatchingCache.jitteredTTL and expireSeconds                         *)
(* (analyzer/cache/valkey.go): the whole number of seconds a token's key   *)
(* is given to live.  Durations are milliseconds and the jitter fraction   *)
(* is a percentage, so that the code's floating point is exact here.       *)
(***************************************************************************)
EXTENDS Integers

\* jitteredTTL: every duration it may return for base TTL ttl and percentage
\* pct; delta is its random part.
MaxDelta(ttl, pct) == IF pct <= 0 THEN 0 ELSE (ttl * pct) \div 100
jitteredTTL(ttl, pct) == {ttl + delta : delta \in -MaxDelta(ttl, pct)..MaxDelta(ttl, pct)}

\* math.Round, math.Ceil and math.Floor of a number of seconds given in
\* thousandths and in hundred-thousandths.
Round(ms) == (ms + 500) \div 1000
Ceil(n) == -((-n) \div 100000)
Floor(n) == n \div 100000

\* Mutant of expireSeconds: the rounded value is clamped to one second only.
expireRounded(ttl, pct, jittered) == IF Round(jittered) < 1 THEN 1 ELSE Round(jittered)

\* expireSeconds for one value of jitteredTTL: clamped to the band from below,
\* then from above, then to one second.
expireSeconds(ttl, pct, jittered) ==
    LET lower   == Ceil(ttl * (100 - pct))
        upper   == Floor(ttl * (100 + pct))
        raised  == IF Round(jittered) < lower THEN lower ELSE Round(jittered)
        lowered == IF raised > upper THEN upper ELSE raised
    IN  IF lowered < 1 THEN 1 ELSE lowered

=============================================================================
