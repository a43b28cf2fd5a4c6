----------------------------- MODULE RuleRunner -----------------------------
(***************************************************************************)
(* The control that SerialRulesRunner.Process and                          *)
(* ConcurrentRulesRunner.Process share: one read of the token's cached     *)
(* results, a token-level flight that one caller leads and the others      *)
(* join, an inline evaluation of what the flight did not cover, and the    *)
(* final pass.  Each runner's module adds the function its flights run.    *)
(*                                                                         *)
(* A member of Calls is one call of Process, on a goroutine of its own; a  *)
(* flight is named by the call that started it.  Every step that touches   *)
(* state another goroutine can see is an action: the store's commands, the *)
(* singleflight group under its mutex, the channel operations.             *)
(***************************************************************************)
EXTENDS RuleMatching

CONSTANTS
    Calls,               \* calls of Process, each made at most once
    None,                \* no flight
    CacheEnabled,        \* RunnerOptions.Cache.Enabled
    SingleflightEnabled, \* RunnerOptions.Cache.SingleflightEnabled
    ClientSideCache      \* reads may be served from process memory

ASSUME CallsAssumption == None \notin Calls
ASSUME OptionsAssumption ==
    {CacheEnabled, SingleflightEnabled, ClientSideCache} \subseteq BOOLEAN

VARIABLES
    cache,      \* the store: the result map persisted for each token
    local,      \* the client's own copy of a token's map, empty when it has none
    group,      \* singleflight.Group.m: the flight registered for a token
    stage,      \* what the flight led by a call is doing
    results,    \* the map the flight led by a call has computed
    pc,         \* where a call is
    rules,      \* the call's rule list
    token,      \* the call's token
    cached,     \* the call's snapshot of the token's cached map
    joined,     \* the flight whose channel the call waits on
    cancelled,  \* the calls whose context is done
    returned    \* position of the rule a call returned, 0 for no match

callVars == <<rules, token, cached>>
flightVars == <<group, stage, results>>
storeVars == <<cache, local>>
runnerVars == <<cache, local, group, stage, results, pc, rules, token, cached, joined,
                cancelled, returned>>

\* NewSerialRulesRuner, NewConcurrentRulesRunner: which coalescer is built.
Coalescing == CacheEnabled /\ SingleflightEnabled

Running == {"match", "save", "forget"}   \* fn has not returned from DoChan
Stages == Running \cup {"none", "deliver", "delivered"}
Locations == {"idle", "join", "wait", "inline", "residual", "done"}

RunnerTypeOK ==
    /\ cache \in [Tokens -> ResultMap]
    /\ local \in [Tokens -> ResultMap]
    /\ group \in [Tokens -> Calls \cup {None}]
    /\ stage \in [Calls -> Stages]
    /\ results \in [Calls -> ResultMap]
    /\ pc \in [Calls -> Locations]
    /\ rules \in [Calls -> RuleLists]
    /\ token \in [Calls -> Tokens]
    /\ cached \in [Calls -> ResultMap]
    /\ joined \in [Calls -> Calls \cup {None}]
    /\ cancelled \subseteq Calls
    /\ returned \in [Calls -> Nat]

RunnerInit ==
    /\ cache = [t \in Tokens |-> EmptyMap]
    /\ local = [t \in Tokens |-> EmptyMap]
    /\ group = [t \in Tokens |-> None]
    /\ stage = [c \in Calls |-> "none"]
    /\ results = [c \in Calls |-> EmptyMap]
    /\ pc = [c \in Calls |-> "idle"]
    /\ rules \in [Calls -> RuleLists]
    /\ token \in [Calls -> Tokens]
    /\ cached = [c \in Calls |-> EmptyMap]
    /\ joined = [c \in Calls |-> None]
    /\ cancelled = {}
    /\ returned = [c \in Calls |-> 0]

-----------------------------------------------------------------------------
(* The store, as the runners use it (cache.CacheStore).                    *)

\* GetMatches: the answer of the store, which the client keeps when it caches;
\* or the client's copy, however old; or an error, which is read as an empty
\* map.
GetMatches(t, read) ==
    \/ /\ read = cache[t]
       /\ local' = IF ClientSideCache THEN [local EXCEPT ![t] = read] ELSE local
    \/ /\ read \in {local[t], EmptyMap}
       /\ UNCHANGED local

\* SaveMatches of a batch: the fields are written all together, or not at
\* all when the command fails.  A failure is logged and nothing else, whether
\* or not the fields reached the store.  The no-op store keeps nothing.
SaveMatches(t, batch) ==
    \/ UNCHANGED cache
    \/ /\ CacheEnabled
       /\ cache' = [cache EXCEPT ![t] = Merge(@, batch)]

\* The key's TTL elapses.
Expire(t) ==
    /\ cache[t] # EmptyMap
    /\ cache' = [cache EXCEPT ![t] = EmptyMap]
    /\ UNCHANGED <<local, flightVars, pc, callVars, joined, cancelled, returned>>

\* The client drops its copy: the server's invalidation of a changed or
\* expired key arrives, or the copy's own TTL elapses.
Invalidate(t) ==
    /\ local[t] # EmptyMap
    /\ local' = [local EXCEPT ![t] = EmptyMap]
    /\ UNCHANGED <<cache, flightVars, pc, callVars, joined, cancelled, returned>>

-----------------------------------------------------------------------------
(* A call of Process.                                                      *)

\* Mutant of Return: positions are counted from 0.
ReturnFromZero(c, evaluated) ==
    /\ pc' = [pc EXCEPT ![c] = "done"]
    /\ returned' = [returned EXCEPT
                       ![c] = FinalPass(rules[c], token[c], cached'[c], evaluated) - 1]

\* Process leaves with the final pass over what was evaluated.
Return(c, evaluated) ==
    /\ pc' = [pc EXCEPT ![c] = "done"]
    /\ returned' = [returned EXCEPT
                       ![c] = FinalPass(rules[c], token[c], cached'[c], evaluated)]

\* Process up to the call of evaluateMissing: read the token's cached results
\* once, classify, and finish at once when nothing is missing.
Process(c) ==
    /\ pc[c] = "idle"
    /\ \E read \in {cache[token[c]], local[token[c]], EmptyMap} :
          /\ GetMatches(token[c], read)
          /\ cached' = [cached EXCEPT ![c] = read]
          /\ IF Missing(rules[c], token[c], read) = {}
             THEN Return(c, EmptyMap)
             ELSE /\ pc' = [pc EXCEPT ![c] = "join"]
                  /\ UNCHANGED returned
    /\ UNCHANGED <<cache, flightVars, rules, token, joined, cancelled>>

\* doToken, DoChan on a key with a flight: wait on that flight's channel.
Join(c) ==
    /\ pc[c] = "join"
    /\ Coalescing
    /\ group[token[c]] # None
    /\ joined' = [joined EXCEPT ![c] = group[token[c]]]
    /\ pc' = [pc EXCEPT ![c] = "wait"]
    /\ UNCHANGED <<storeVars, flightVars, callVars, cancelled, returned>>

KeyFree(c) == Coalescing => group[token[c]] = None

\* Mutant of Register: the key is forgotten as fn begins, not when it returns.
RegisterForgotten(c) == UNCHANGED group

\* DoChan enters the flight under its key, which fn forgets on its way out.
Register(c) == group' = [group EXCEPT ![token[c]] = c]

\* doToken, DoChan on a free key: register a flight and start its goroutine.
\* The disabled coalescer runs the function on the caller's own goroutine.
Lead(c) ==
    /\ pc[c] = "join"
    /\ KeyFree(c)
    /\ joined' = [joined EXCEPT ![c] = c]
    /\ stage' = [stage EXCEPT ![c] = "match"]
    /\ IF Coalescing
       THEN /\ Register(c)
            /\ pc' = [pc EXCEPT ![c] = "wait"]
       ELSE /\ pc' = [pc EXCEPT ![c] = "inline"]
            /\ UNCHANGED group
    /\ UNCHANGED <<storeVars, results, callVars, cancelled, returned>>

\* Mutants of CtxDone: only a waiter, or only the leader, looks at its context.
CtxDoneWaiter(c) == c \in cancelled /\ joined[c] # c
CtxDoneLeader(c) == c \in cancelled /\ joined[c] = c

CtxDone(c) == c \in cancelled

\* doShared, the context is done before the result is taken: evaluateMissing
\* gets a nil map and the final pass has nothing evaluated.
WaitCancelled(c) ==
    /\ pc[c] = "wait"
    /\ CtxDone(c)
    /\ UNCHANGED cached
    /\ Return(c, EmptyMap)
    /\ UNCHANGED <<storeVars, flightVars, rules, token, joined, cancelled>>

\* Mutant of UseShared: the residual entities are not evaluated.
UseSharedOnly(c) ==
    /\ UNCHANGED <<storeVars, flightVars, callVars, joined, cancelled>>
    /\ Return(c, results[joined[c]])

\* A call has taken the shared map: it finishes when the map covers its
\* missing set and turns to the residual entities otherwise.
UseShared(c) ==
    /\ UNCHANGED <<storeVars, flightVars, callVars, joined, cancelled>>
    /\ IF Residual(rules[c], token[c], cached[c], results[joined[c]]) = {}
       THEN Return(c, results[joined[c]])
       ELSE /\ pc' = [pc EXCEPT ![c] = "residual"]
            /\ UNCHANGED returned

\* Mutant of CanReceive: the result is sent to the leader's channel only.
CanReceiveLeader(c) ==
    pc[c] \in {"wait", "inline"} /\ stage[joined[c]] = "delivered" /\ joined[c] = c

\* The flight's result is on the call's channel (or the inline fn returned).
CanReceive(c) == pc[c] \in {"wait", "inline"} /\ stage[joined[c]] = "delivered"

\* Mutant of EvaluateResidual: the outcomes are merged into the shared map.
EvaluateResidualInPlace(c) ==
    /\ pc[c] = "residual"
    /\ LET shared == results[joined[c]]
           fresh  == matchMissing(rules[c], token[c], cached[c],
                         Residual(rules[c], token[c], cached[c], shared))
       IN  /\ SaveMatches(token[c], Negatives(fresh))
           /\ results' = [results EXCEPT ![joined[c]] = Merge(shared, fresh)]
           /\ UNCHANGED <<local, group, stage, callVars, joined, cancelled>>
           /\ Return(c, Merge(shared, fresh))

\* The residual misses are evaluated inline and their negatives saved; the
\* outcomes are merged into a map of the call's own.
EvaluateResidual(c) ==
    /\ pc[c] = "residual"
    /\ LET shared == results[joined[c]]
           fresh  == matchMissing(rules[c], token[c], cached[c],
                         Residual(rules[c], token[c], cached[c], shared))
       IN  /\ SaveMatches(token[c], Negatives(fresh))
           /\ UNCHANGED <<local, flightVars, callVars, joined, cancelled>>
           /\ Return(c, Merge(shared, fresh))

\* The context a call was given is cancelled or times out.
Cancel(c) ==
    /\ pc[c] # "done"
    /\ c \notin cancelled
    /\ cancelled' = cancelled \cup {c}
    /\ UNCHANGED <<storeVars, flightVars, pc, callVars, joined, returned>>

-----------------------------------------------------------------------------
(* The end of a flight: golang.org/x/sync/singleflight around fn.          *)

\* fn has returned: doShared's deferred Forget follows, then doCall delivers.
\* Without coalescing the caller holds the result at once.
FlightReturns(l) ==
    stage' = [stage EXCEPT ![l] = IF Coalescing THEN "forget" ELSE "delivered"]

\* Mutant of Forget: the key stays registered until the result is delivered.
ForgetNothing(l) ==
    /\ stage[l] = "forget"
    /\ stage' = [stage EXCEPT ![l] = "deliver"]
    /\ UNCHANGED <<storeVars, group, results, pc, callVars, joined, cancelled, returned>>

\* defer group.Forget(key), whatever flight the key names.
Forget(l) ==
    /\ stage[l] = "forget"
    /\ group' = [group EXCEPT ![token[l]] = None]
    /\ stage' = [stage EXCEPT ![l] = "deliver"]
    /\ UNCHANGED <<storeVars, results, pc, callVars, joined, cancelled, returned>>

\* doCall, under the mutex: remove the key if it still names this flight and
\* send the result to every channel that joined.
Deliver(l) ==
    /\ stage[l] = "deliver"
    /\ group' = [group EXCEPT ![token[l]] = IF @ = l THEN None ELSE @]
    /\ stage' = [stage EXCEPT ![l] = "delivered"]
    /\ UNCHANGED <<storeVars, results, pc, callVars, joined, cancelled, returned>>

=============================================================================
