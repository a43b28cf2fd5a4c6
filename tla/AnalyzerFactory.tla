-------------------------- MODULE AnalyzerFactory ---------------------------
(***************************************************************************)
(* analyzer/factory.go: MakeByteAnalyzer and MakeStringAnalyzer build the  *)
(* cache store, the pools and the runner one after the other, return at    *)
(* the first error, and hand over the analyzer of ByteAnalyzer.  A caller  *)
(* may try again after an error.  A StringAnalyzer is a ByteAnalyzer with  *)
(* no token pool between two copies of the text.                           *)
(***************************************************************************)
EXTENDS ByteAnalyzer

CONSTANT Options   \* the options an analyzer may be asked for

\* RunnerOptions, reduced to what decides the construction, and which of the
\* two functions is called.
RunnerOptions == [make : {"byte", "string"}, cacheEnabled : BOOLEAN, pingOnConnect : BOOLEAN,
                  enabled : BOOLEAN, ruleProcessing : BOOLEAN, tokenProcessing : BOOLEAN,
                  ruleRunnerPoolSize : Int, tokenPoolSize : Int]

ASSUME OptionsTyped == Options \subseteq RunnerOptions

VARIABLES
    options,  \* of this construction
    step,     \* where the construction is
    made,     \* what it has opened: the Valkey client and the pools
    leaked    \* what failed constructions left open, out of anybody's reach

factoryVars == <<options, step, made, leaked>>
allVars == <<vars, factoryVars>>

NoPools == [token |-> 0, runner |-> 0]

FactoryInit ==
    /\ AnalyzerInit
    /\ pools = NoPools
    /\ options \in Options
    /\ step = "cache"
    /\ made = {}
    /\ leaked = {}

WantsRunnerPool(o) == o.enabled /\ o.ruleProcessing
WantsTokenPool(o) == o.make = "byte" /\ o.enabled /\ o.tokenProcessing

\* Options whose pool sizes the factory accepts.
Accepted(o) == /\ WantsRunnerPool(o) => o.ruleRunnerPoolSize > 0
               /\ WantsTokenPool(o) => o.tokenPoolSize > 0

-----------------------------------------------------------------------------
(* One action per step of the two functions.                               *)

Goto(s) == step' = s

\* An error is returned: whatever is open stays open.
Fail(open) ==
    /\ Goto("failed")
    /\ made' = {}
    /\ leaked' = leaked \cup open

\* buildCacheStore: the no-op store, or a client that NewClient connects or
\* fails to.  A store tracer is a wrapper that opens nothing.
BuildCacheStore ==
    /\ step = "cache"
    /\ \/ ~options.cacheEnabled /\ Goto("runnerPool") /\ UNCHANGED <<made, leaked>>
       \/ /\ options.cacheEnabled
          /\ \/ Goto("ping") /\ made' = {"client"} /\ UNCHANGED leaked
             \/ Fail({})
    /\ UNCHANGED <<vars, options>>

\* Mutant of PingFails: the client is not closed.
PingFailsOpen == Fail(made)

\* NewRuleMatchingCache closes the client when the ping fails.
PingFails == Fail({})

PingOnConnect ==
    /\ step = "ping"
    /\ \/ Goto("runnerPool") /\ UNCHANGED <<made, leaked>>
       \/ options.pingOnConnect /\ PingFails
    /\ UNCHANGED <<vars, options>>

\* The size is checked first; ants.NewPool does not fail on a positive size.
MakePool(wanted, size, pool, following) ==
    /\ \/ ~wanted /\ Goto(following) /\ UNCHANGED <<made, leaked>>
       \/ wanted /\ size <= 0 /\ Fail(made)
       \/ wanted /\ size > 0 /\ Goto(following) /\ made' = made \cup {pool} /\ UNCHANGED leaked
    /\ UNCHANGED <<vars, options>>

MakeRunnerPool ==
    /\ step = "runnerPool"
    /\ MakePool(WantsRunnerPool(options), options.ruleRunnerPoolSize, "runnerPool", "tokenPool")

MakeTokenPool ==
    /\ step = "tokenPool"
    /\ MakePool(WantsTokenPool(options), options.tokenPoolSize, "tokenPool", "assemble")

\* Mutant of HandedOver: ba.pool is not set.
RunnerPoolOnly(o) ==
    [token |-> 0, runner |-> IF WantsRunnerPool(o) THEN o.ruleRunnerPoolSize ELSE 0]

\* The runner is given its pool, and the analyzer the token pool.
HandedOver(o) == [token  |-> IF WantsTokenPool(o) THEN o.tokenPoolSize ELSE 0,
                  runner |-> IF WantsRunnerPool(o) THEN o.ruleRunnerPoolSize ELSE 0]

\* Pools has the sizes that Options ask for.
ASSUME PoolsCoverOptions ==
    NoPools \in Pools /\ \A o \in Options : Accepted(o) => HandedOver(o) \in Pools

Assemble ==
    /\ step = "assemble"
    /\ Goto("built")
    /\ pools' = HandedOver(options)
    /\ UNCHANGED <<doc, pc, next, wg, output, afterStop, task, actions, entities, cancelled,
                   stopVars, options, made, leaked>>

\* The caller calls again with the same options.
Retry ==
    /\ step = "failed"
    /\ Goto("cache")
    /\ UNCHANGED <<vars, options, made, leaked>>

Construct == \/ BuildCacheStore \/ PingOnConnect \/ MakeRunnerPool \/ MakeTokenPool
             \/ Assemble \/ Retry

\* A step of the analyzer that was built.
Built(A) == step = "built" /\ A /\ UNCHANGED factoryVars

FactoryNext == Construct \/ Built(Next)

FactorySpec == FactoryInit /\ [][FactoryNext]_allVars

\* As in FairSpec: goroutines and workers are scheduled.
FairFactorySpec ==
    /\ FactorySpec
    /\ \A c \in Calls : WF_allVars(Built(CallStep(c)))
    /\ \A c \in Calls, i \in 1..MaxTokens : WF_allVars(Built(TaskStep(c, i)))

-----------------------------------------------------------------------------
(* Properties.                                                             *)

\* The pools that nobody has released.
OpenPools == (made \ {"client"}) \
                 ((IF runnerClosed /\ pools.runner > 0 THEN {"runnerPool"} ELSE {})
                    \cup (IF poolClosed THEN {"tokenPool"} ELSE {}))

\* A server that cannot be reached is a transient error: however often the
\* caller tries again, nothing is left open by the attempts that failed.  Only
\* a pool size the factory refuses after it has connected leaves something
\* behind, for each attempt.
RetriesLeakNothing == Accepted(options) => leaked = {}

\* Every pool a construction made is one that Stop can reach: when Stop has
\* returned, none of them is open.  The Valkey client has no owner that could
\* close it and is not claimed.
StopReleasesPools ==
    (step = "built" /\ runnerClosed /\ (poolClosed \/ pools.token = 0)) => OpenPools = {}

=============================================================================
