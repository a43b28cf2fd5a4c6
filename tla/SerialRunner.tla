---------------------------- MODULE SerialRunner ----------------------------
(***************************************************************************)
(* SerialRulesRunner (analyzer/serial_runner.go): a flight evaluates its   *)
(* leader's missing entities in rule order and saves the negatives.        *)
(***************************************************************************)
EXTENDS RuleRunner

CONSTANT Hanging   \* calls whose flight may hang, in a matcher or in the store

ASSUME HangingAssumption == Hanging \subseteq Calls

vars == runnerVars

Init == RunnerInit

\* The flight's function, first half: evaluate the leader's missing set.
FlightMatch(l) ==
    /\ stage[l] = "match"
    /\ results' = [results EXCEPT ![l] =
           matchMissing(rules[l], token[l], cached[l],
                        Missing(rules[l], token[l], cached[l]))]
    /\ stage' = [stage EXCEPT ![l] = "save"]
    /\ UNCHANGED <<storeVars, group, pc, callVars, joined, cancelled, returned>>

\* The flight's function, second half: one save of the negatives; its error
\* travels with the results and is only logged.
FlightSave(l) ==
    /\ stage[l] = "save"
    /\ SaveMatches(token[l], Negatives(results[l]))
    /\ FlightReturns(l)
    /\ UNCHANGED <<local, group, results, pc, callVars, joined, cancelled, returned>>

\* evaluateMissing resumes with the flight's results.
Receive(c) == CanReceive(c) /\ UseShared(c)

CallStep(c) ==
    Join(c) \/ Lead(c) \/ Receive(c) \/ WaitCancelled(c) \/ EvaluateResidual(c)
FlightStep(l) == FlightMatch(l) \/ FlightSave(l) \/ Forget(l) \/ Deliver(l)

\* Every call has returned and no flight is left.
Quiescent ==
    /\ \A c \in Calls : pc[c] = "done" /\ stage[c] \in {"none", "delivered"}
    /\ UNCHANGED vars

Next ==
    \/ \E c \in Calls : Process(c) \/ CallStep(c) \/ Cancel(c)
    \/ \E l \in Calls : FlightStep(l)
    \/ \E t \in Tokens : Expire(t) \/ Invalidate(t)
    \/ Quiescent

Spec == Init /\ [][Next]_vars

\* Goroutines are scheduled: a call that can move does, and a flight that can
\* move does unless it hangs.  Nothing makes a caller call, a context end or a
\* key expire.
FairSpec ==
    /\ Spec
    /\ \A c \in Calls : WF_vars(CallStep(c))
    /\ \A l \in Calls \ Hanging : WF_vars(FlightStep(l))

-----------------------------------------------------------------------------
(* Properties.                                                             *)

\* Every variable keeps its type: result maps hold only known entities, a
\* flight is named by a call.
TypeOK == RunnerTypeOK

\* saveNegatives: whatever is in the store is a negative that some enabled
\* rule's matcher produced on that very token.  Positive matches are never
\* cached, and neither are entities of excepted or disabled rules.
CacheSound == \A t \in Tokens : NegativesOnly(cache[t], t)

\* Process "returns the first matching rule": caching, sharing another
\* caller's flight, store failures and expiry between the read and the flight
\* are invisible in the answer.  Only a caller whose own context is done may
\* miss its match, and even that caller never gets another rule.
AnswersFirstMatch ==
    \A c \in Calls : pc[c] = "done" =>
        \/ returned[c] = FirstMatch(rules[c], token[c])
        \/ c \in cancelled /\ returned[c] = 0

\* doShared: at most one evaluation of a token runs at a time, although the
\* key is forgotten before the flight delivers and a new flight may start.
OneFlightPerToken ==
    Coalescing =>
        \A l, m \in Calls :
            /\ stage[l] \in Running
            /\ stage[m] \in Running
            /\ token[l] = token[m]
            => l = m

\* evaluateMissing: "each caller issues at most one SaveMatches".  The leader's
\* save is the flight's, so a leader must never have residual misses.
OneSavePerCall == \A c \in Calls : pc[c] = "residual" => joined[c] # c

\* "The shared results map is read-only for waiters": from the moment a
\* flight has evaluated, nobody changes the map it shares.
SharedMapFrozen ==
    [][\A l \in Calls : stage[l] \notin {"none", "match"} => results'[l] = results[l]]_vars

\* "Results are shared only while the call is in flight": nobody joins a
\* flight whose function has returned and been forgotten.
JoinInFlightOnly ==
    [][\A c \in Calls : joined'[c] # joined[c] /\ Coalescing =>
          stage'[joined'[c]] \in Running]_vars

\* The runner implements the promise of RuleRunner.Process, rules in order.
Service == INSTANCE RuleService
               WITH Ordered <- TRUE,
                    excused <- cancelled,
                    done    <- {c \in Calls : pc[c] = "done"}
ImplementsService == Service!Spec

\* Every call of Process returns, leaders and waiters alike, unless the flight
\* it is in hangs.
EveryCallReturns ==
    \A c \in Calls : pc[c] = "join" ~> (pc[c] = "done" \/ joined[c] \in Hanging)

\* "A cancelled waiter unblocks with its context error": a caller is never
\* held by a flight that hangs once its own context is done.
CancelledCallReturns ==
    \A c \in Calls : (pc[c] = "wait" /\ c \in cancelled) ~> pc[c] = "done"

=============================================================================
