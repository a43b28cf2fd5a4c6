----------------------------- MODULE ValkeyCache ----------------------------
(***************************************************************************)
(* RuleMatchingCache (analyzer/cache/valkey.go) on the hash of one token:  *)
(* savers, in one process or several, each send HSET and EXPIRE NX in one  *)
(* pipeline that the server does not run atomically; commands and replies  *)
(* may be lost; time passes on the server and in the client's own cache.   *)
(*                                                                         *)
(* Keys are independent of each other, so one token is enough.             *)
(***************************************************************************)
EXTENDS TTLJitter, FiniteSets

CONSTANTS
    Entities,         \* pattern.Entity values: the fields of the hash
    Savers,           \* calls of SaveMatches, each made at most once
    Options           \* the RuleMatchingCacheOptions a cache may be built with

\* Of the options, the time-to-live in milliseconds, the jitter as a
\* percentage, and whether client-side caching is off.
ASSUME OptionsAssumption ==
    Options \subseteq [CacheTTL : Nat, jitterPct : Int, disableCSC : BOOLEAN]

VARIABLES
    options,   \* what this cache was built with
    hash,      \* the fields of the key and their text; no field, no key
    ttl,       \* seconds the key has left, NoTTL when it has no expiry
    pc,        \* where a saver is
    batch,     \* the results a saver was given
    seconds,   \* the expiry a saver's EXPIRE carries, 0 before it is drawn
    local,     \* the client's copy of the hash, decoded
    localTTL,  \* seconds the client's copy has left; 0 when there is no copy
    pushed,    \* the server owes the client an invalidation
    expireLost \* history: an EXPIRE was lost or refused whose HSET came before

storeVars == <<hash, ttl>>
clientVars == <<local, localTTL, pushed>>
vars == <<options, storeVars, pc, batch, seconds, clientVars, expireLost>>

NoTTL == -1

\* A map[pattern.Entity]bool, and its text in the hash.
Outcome == {"absent", "no", "yes"}
Text == {"none", "0", "1"}
ResultMap == [Entities -> Outcome]
NoFields == [e \in Entities |-> "none"]
EmptyMap == [e \in Entities |-> "absent"]

\* Mutant of decode: every field that is there is true.
decodePresence(h) == [e \in Entities |-> IF h[e] = "none" THEN "absent" ELSE "yes"]

\* SaveMatches, the field values; GetMatches, value == "1".
encode(m) == [e \in Entities |->
                 CASE m[e] = "absent" -> "none" [] m[e] = "no" -> "0" [] m[e] = "yes" -> "1"]
decode(h) == [e \in Entities |->
                 IF h[e] = "none" THEN "absent" ELSE IF h[e] = "1" THEN "yes" ELSE "no"]

useClientSideCache == ~options.disableCSC /\ options.CacheTTL > 0

\* Whole seconds a client-side copy may live for, and those EXPIRE may carry.  A
\* copy whose time is up at once is none: a jitter above 100 % draws negative ones.
LocalTTLs ==
    [o \in Options |-> {Round(j) : j \in jitteredTTL(o.CacheTTL, o.jitterPct)} \cap (Nat \ {0})]
ServerTTLs ==
    [o \in Options |->
        IF o.CacheTTL = 0 THEN {0}
        ELSE {expireSeconds(o.CacheTTL, o.jitterPct, j) : j \in jitteredTTL(o.CacheTTL, o.jitterPct)}]

Init ==
    /\ options \in Options
    /\ hash = NoFields
    /\ ttl = NoTTL
    /\ pc = [s \in Savers |-> "idle"]
    /\ batch \in [Savers -> ResultMap]
    /\ seconds = [s \in Savers |-> 0]
    /\ local = EmptyMap
    /\ localTTL = 0
    /\ pushed = FALSE
    /\ expireLost = FALSE

-----------------------------------------------------------------------------
(* SaveMatches.                                                            *)

Goto(s, where) == pc' = [pc EXCEPT ![s] = where]

\* An empty batch is a no-op.  Otherwise the two commands are built, the
\* jittered expiry with them.
SaveMatches(s) ==
    /\ pc[s] = "idle"
    /\ IF batch[s] = EmptyMap
       THEN Goto(s, "done") /\ UNCHANGED seconds
       ELSE /\ Goto(s, "hset")
            /\ \E n \in ServerTTLs[options] : seconds' = [seconds EXCEPT ![s] = n]
    /\ UNCHANGED <<options, storeVars, batch, clientVars, expireLost>>

\* Mutant of AfterHset: no EXPIRE follows.
AfterHsetDone == "done"

\* SaveMatches adds EXPIRE to the pipeline when there is a TTL.
AfterHset == IF options.CacheTTL = 0 THEN "done" ELSE "expire"

\* The server runs HSET.  It creates the key without an expiry, or adds to the
\* fields of an existing one and leaves its expiry alone.
Hset(s) ==
    /\ pc[s] = "hset"
    /\ hash' = [e \in Entities |-> IF batch[s][e] = "absent" THEN hash[e] ELSE encode(batch[s])[e]]
    /\ pushed' = (localTTL > 0)
    /\ Goto(s, AfterHset)
    /\ UNCHANGED <<options, ttl, batch, seconds, local, localTTL, expireLost>>

\* Mutants of NewTTL: EXPIRE without NX, EXPIRE XX, and one second too few.
NewTTLAlways(s) == IF hash # NoFields THEN seconds[s] ELSE ttl
NewTTLXX(s) == IF hash # NoFields /\ ttl # NoTTL THEN seconds[s] ELSE ttl
NewTTLShort(s) == IF hash # NoFields /\ ttl = NoTTL THEN seconds[s] - 1 ELSE ttl

\* What EXPIRE NX makes of the key's expiry.
NewTTL(s) == IF hash # NoFields /\ ttl = NoTTL THEN seconds[s] ELSE ttl

\* The server runs EXPIRE NX, on whatever key there is by now.
ExpireNX(s) ==
    /\ pc[s] = "expire"
    /\ ttl' = NewTTL(s)
    /\ Goto(s, "done")
    /\ UNCHANGED <<options, hash, batch, seconds, clientVars, expireLost>>

\* The server refuses HSET: EXPIRE NX still follows; SaveMatches returns HSET's
\* error, which its callers log.
HsetRefused(s) ==
    /\ pc[s] = "hset"
    /\ Goto(s, AfterHset)
    /\ UNCHANGED <<options, storeVars, batch, seconds, clientVars, expireLost>>

\* The connection breaks, before HSET or between the two commands.  An EXPIRE
\* the server refuses is the same step: it too leaves the key as HSET left it,
\* and SaveMatches returns the error.
ConnectionLost(s) ==
    /\ pc[s] \in {"hset", "expire"}
    /\ Goto(s, "done")
    /\ expireLost' = (expireLost \/ pc[s] = "expire")
    /\ UNCHANGED <<options, storeVars, batch, seconds, clientVars>>

-----------------------------------------------------------------------------
(* GetMatches, and what happens to a key and to its copy.                  *)

\* DoCache without a copy: HGETALL, and the answer is kept.  A plain Do keeps
\* nothing, and a copy changes nothing, so neither is a step; an empty answer is
\* a miss whether it is kept or not.
FillCopy ==
    /\ useClientSideCache
    /\ localTTL = 0
    /\ hash # NoFields
    /\ local' = decode(hash)
    /\ localTTL' \in LocalTTLs[options]
    /\ pushed' = FALSE
    /\ UNCHANGED <<options, storeVars, pc, batch, seconds, expireLost>>

\* The server's invalidation reaches the client.
Invalidate ==
    /\ pushed
    /\ pushed' = FALSE
    /\ local' = EmptyMap
    /\ localTTL' = 0
    /\ UNCHANGED <<options, storeVars, pc, batch, seconds, expireLost>>

\* A second passes: expiries come closer, and a key or a copy whose time is up
\* is gone.
Tick ==
    /\ ttl > 0 \/ localTTL > 0
    /\ ttl' = IF ttl > 1 THEN ttl - 1 ELSE NoTTL
    /\ hash' = IF ttl = 1 THEN NoFields ELSE hash
    /\ localTTL' = IF localTTL > 1 THEN localTTL - 1 ELSE 0
    /\ local' = IF localTTL <= 1 THEN EmptyMap ELSE local
    /\ pushed' = (localTTL > 1 /\ (pushed \/ ttl = 1))
    /\ UNCHANGED <<options, pc, batch, seconds, expireLost>>

SaveStep(s) == Hset(s) \/ ExpireNX(s) \/ HsetRefused(s) \/ ConnectionLost(s)

\* Every saver has returned, the key and its copy are as they will stay.
Quiescent ==
    /\ \A s \in Savers : pc[s] = "done"
    /\ ttl = NoTTL
    /\ localTTL = 0
    /\ UNCHANGED vars

Next ==
    \/ \E s \in Savers : SaveMatches(s) \/ SaveStep(s)
    \/ FillCopy
    \/ Invalidate
    \/ Tick
    \/ Quiescent

Spec == Init /\ [][Next]_vars

\* Commands that were sent are run or lost, and time passes.
FairSpec ==
    /\ Spec
    /\ \A s \in Savers : WF_vars(SaveStep(s))
    /\ WF_vars(Tick)

-----------------------------------------------------------------------------
(* Properties.                                                             *)

\* Every variable keeps its type; EXPIRE 0, which deletes the key, and a
\* lifetime of zero never happen.
TypeOK ==
    /\ options \in Options
    /\ hash \in [Entities -> Text]
    /\ ttl \in {NoTTL} \cup (Nat \ {0})
    /\ pc \in [Savers -> {"idle", "hset", "expire", "done"}]
    /\ batch \in [Savers -> ResultMap]
    /\ seconds \in [Savers -> Nat]
    /\ local \in ResultMap
    /\ localTTL \in Nat
    /\ pushed \in BOOLEAN
    /\ expireLost \in BOOLEAN

\* SaveMatches: "existing expiries are never extended".  While a key lives,
\* no save, however it interleaves with others or fails, moves its end.
ExpiryNeverExtended ==
    [][ttl # NoTTL /\ hash' # NoFields => ttl' # NoTTL /\ ttl' <= ttl]_vars

\* SaveMatches, GetMatches: the text round trip and the merging of batches
\* change no value.  A field the hash or a client's copy holds has a value that
\* some saver stored for it.
HoldsOnlySaved ==
    \A e \in Entities :
        /\ decode(hash)[e] # "absent" => \E s \in Savers : batch[s][e] = decode(hash)[e]
        /\ local[e] # "absent" => \E s \in Savers : batch[s][e] = local[e]

\* SaveMatches "establish[es] the jittered TTL ... at the key's first write": a
\* key without an expiry has a saver about to give it one, however savers, the
\* key's end and a refused HSET interleave.  Only an EXPIRE that is lost
\* with its connection, or refused, leaves one behind.
KeyHasExpiry ==
    (options.CacheTTL > 0 /\ hash # NoFields /\ ttl = NoTTL /\ ~expireLost) =>
        \E s \in Savers : pc[s] = "expire"

\* CacheOptions.TTL is "the time-to-live for cached entries. When 0, entries
\* never expire": with a TTL, what is cached on the server and in the client
\* goes away.
EntriesExpire ==
    (options.CacheTTL > 0 /\ (hash # NoFields \/ localTTL > 0)) ~>
        ((hash = NoFields /\ localTTL = 0) \/ expireLost)

\* The whole seconds of the jitter band.
BandSeconds ==
    [o \in Options |->
        {n \in 1..Floor(o.CacheTTL * (100 + o.jitterPct)) :
            o.CacheTTL * (100 - o.jitterPct) <= n * 100000}]

\* expireSeconds "clamped into the jitter band": when the band holds a whole
\* second a key gets one of the band to live, at every draw, boundary draws and
\* roundings included; while it lives it never has more.
ExpiryInBand ==
    BandSeconds[options] # {} =>
        /\ \A s \in Savers : pc[s] = "expire" => seconds[s] \in BandSeconds[options]
        /\ ttl # NoTTL => \E n \in BandSeconds[options] : ttl <= n

=============================================================================
