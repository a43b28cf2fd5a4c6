-------------------------- MODULE ConcurrentRunner --------------------------
(***************************************************************************)
(* ConcurrentRulesRunner (analyzer/concurrent_runner.go): a flight submits *)
(* one task per missing entity to a bounded worker pool that all flights   *)
(* share, collects the tasks' results and stops at the first match it      *)
(* collects.  The pool may be released at any time.                        *)
(***************************************************************************)
EXTENDS RuleRunner, FiniteSets

CONSTANT PoolSize   \* workers of the pool

ASSUME PoolAssumption == PoolSize \in Nat \ {0}
ASSUME ZeroItemAssumption == None \notin Entities

VARIABLES
    closed,     \* the pool has been released
    submitted,  \* the entities a flight has submitted
    task,       \* the task of a flight for an entity
    resultCh,   \* the flight's channel: entities evaluated, None for a zero item
    collected,  \* iterations the collector has finished
    winner,     \* position of the rule the collector matched, 0 for none
    aborted     \* the flights that returned a nil map

poolVars == <<closed, submitted, task, resultCh, collected, winner, aborted>>
vars == <<runnerVars, poolVars>>

Tasks == {"none", "accepted", "matching", "finished", "lost"}

Init ==
    /\ RunnerInit
    /\ closed = FALSE
    /\ submitted = [l \in Calls |-> {}]
    /\ task = [l \in Calls |-> [e \in Entities |-> "none"]]
    /\ resultCh = [l \in Calls |-> <<>>]
    /\ collected = [l \in Calls |-> 0]
    /\ winner = [l \in Calls |-> 0]
    /\ aborted = {}

-----------------------------------------------------------------------------
(* The pool.                                                               *)

\* A worker is taken from Submit until its task's function ends.
Busy == {p \in Calls \X Entities : task[p[1]][p[2]] \in {"accepted", "matching"}}

SetTask(l, e, s) == task' = [task EXCEPT ![l][e] = s]

\* matchCtx is done: the leader's context is, or the collector has left.
MatchCtxDone(l) == l \in cancelled \/ stage[l] # "match"

\* Mutants of Send: every item twice; no zero items; matches only.
SendTwice(l, item) == resultCh' = [resultCh EXCEPT ![l] = @ \o <<item, item>>]
SendEvaluated(l, item) ==
    resultCh' = IF item = None THEN resultCh ELSE [resultCh EXCEPT ![l] = Append(@, item)]
SendMatch(l, item) ==
    resultCh' = IF \E i \in Matching(rules[l], token[l]) : rules[l][i].entity = item
                THEN [resultCh EXCEPT ![l] = Append(@, item)] ELSE resultCh

\* The worker's send, into a buffered channel.
Send(l, item) == resultCh' = [resultCh EXCEPT ![l] = Append(@, item)]

\* A worker begins the task: it bails out with a zero item when matchCtx is
\* done and goes on to the matcher otherwise.
BeginTask(l, e) ==
    /\ task[l][e] = "accepted"
    /\ IF MatchCtxDone(l)
       THEN /\ SetTask(l, e, "finished")
            /\ Send(l, None)
       ELSE /\ SetTask(l, e, "matching")
            /\ UNCHANGED resultCh
    /\ UNCHANGED <<runnerVars, closed, submitted, collected, winner, aborted>>

\* The matcher returns and the worker sends its item.
FinishTask(l, e) ==
    /\ task[l][e] = "matching"
    /\ SetTask(l, e, "finished")
    /\ Send(l, e)
    /\ UNCHANGED <<runnerVars, closed, submitted, collected, winner, aborted>>

\* The matcher panics: the pool's handler recovers, nothing is sent.
PanicTask(l, e) ==
    /\ task[l][e] = "matching"
    /\ SetTask(l, e, "lost")
    /\ UNCHANGED <<runnerVars, closed, submitted, resultCh, collected, winner, aborted>>

\* Stop releases the pool without waiting for the tasks it runs.
Stop ==
    /\ ~closed
    /\ closed' = TRUE
    /\ UNCHANGED <<runnerVars, submitted, task, resultCh, collected, winner, aborted>>

-----------------------------------------------------------------------------
(* The flight's function, collectEvaluations.                              *)

FlightMissing(l) == Missing(rules[l], token[l], cached[l])
Claimant(l, e) == LeastIndex(Claims(rules[l], token[l], cached[l], e))

\* The next entity to submit, in rule order.
NextEntity(l) ==
    CHOOSE e \in FlightMissing(l) \ submitted[l] :
        \A f \in FlightMissing(l) \ submitted[l] : Claimant(l, e) <= Claimant(l, f)

Submitting(l) == stage[l] = "match" /\ submitted[l] # FlightMissing(l)

\* Submit blocks while every worker is taken.
Submit(l) ==
    /\ Submitting(l)
    /\ ~closed
    /\ Cardinality(Busy) < PoolSize
    /\ submitted' = [submitted EXCEPT ![l] = @ \cup {NextEntity(l)}]
    /\ SetTask(l, NextEntity(l), "accepted")
    /\ UNCHANGED <<runnerVars, closed, resultCh, collected, winner, aborted>>

\* Submit fails on a released pool, also when it was blocked: the flight is
\* aborted with a nil map, which every caller that joined gets.
SubmitFails(l) ==
    /\ Submitting(l)
    /\ closed
    /\ aborted' = aborted \cup {l}
    /\ FlightReturns(l)
    /\ UNCHANGED <<storeVars, group, results, pc, callVars, joined, cancelled, returned,
                   closed, submitted, task, resultCh, collected, winner>>

Collecting(l) ==
    stage[l] = "match" /\ submitted[l] = FlightMissing(l)

\* The outcomes of the evaluated items of a channel.
Evaluated(l, items) ==
    matchMissing(rules[l], token[l], cached[l],
                 {items[i] : i \in DOMAIN items} \cap Entities)

\* One item is taken.  A match ends the loop: the other workers are cancelled,
\* and drainCompleted takes what has been sent by then.  The last item ends it
\* too.
Collect(l) ==
    /\ Collecting(l)
    /\ resultCh[l] # <<>>
    /\ LET item  == Head(resultCh[l])
           first == Evaluated(l, <<item>>)
           match == item \in Entities /\ first[item] = "yes"
       IN  /\ results' = [results EXCEPT ![l] = Merge(@,
                  IF match THEN Evaluated(l, resultCh[l]) ELSE first)]
           /\ resultCh' = [resultCh EXCEPT ![l] = IF match THEN <<>> ELSE Tail(@)]
           /\ winner' = [winner EXCEPT ![l] = IF match THEN Claimant(l, item) ELSE 0]
           /\ collected' = [collected EXCEPT ![l] = @ + 1]
           /\ stage' = [stage EXCEPT ![l] =
                  IF match \/ collected[l] + 1 = Cardinality(submitted[l])
                  THEN "save" ELSE @]
    /\ UNCHANGED <<storeVars, group, pc, callVars, joined, cancelled, returned,
                   closed, submitted, task, aborted>>

\* The leader's context is done: the flight returns what it has collected and
\* saves nothing.
CollectCancelled(l) ==
    /\ Collecting(l)
    /\ l \in cancelled
    /\ FlightReturns(l)
    /\ UNCHANGED <<storeVars, group, results, pc, callVars, joined, cancelled, returned, poolVars>>

\* One save of the collected negatives, whether or not a match was found.
FlightSave(l) ==
    /\ stage[l] = "save"
    /\ SaveMatches(token[l], Negatives(results[l]))
    /\ FlightReturns(l)
    /\ UNCHANGED <<local, group, results, pc, callVars, joined, cancelled, returned, poolVars>>

-----------------------------------------------------------------------------
(* evaluateMissing after doToken, and the rest of Process.                 *)

\* The flight gave a nil map: the pool is closed.
ReceiveAborted(c) ==
    /\ CanReceive(c)
    /\ joined[c] \in aborted
    /\ UNCHANGED <<storeVars, flightVars, callVars, joined, cancelled, poolVars>>
    /\ Return(c, EmptyMap)

\* Mutant of OwnWinner: a waiter takes the short circuit of its leader.
JoinedWinner(c) == winner[joined[c]]

\* The winner the call's own function has captured.
OwnWinner(c) == IF joined[c] = c THEN winner[c] ELSE 0

\* The captured found and winner are those of the leader's own function, so
\* only the leader takes the short circuit.
ReceiveWinner(c) ==
    /\ CanReceive(c)
    /\ OwnWinner(c) # 0
    /\ pc' = [pc EXCEPT ![c] = "done"]
    /\ returned' = [returned EXCEPT ![c] = OwnWinner(c)]
    /\ UNCHANGED <<storeVars, flightVars, callVars, joined, cancelled, poolVars>>

Receive(c) ==
    /\ CanReceive(c)
    /\ joined[c] \notin aborted
    /\ OwnWinner(c) = 0
    /\ UNCHANGED poolVars
    /\ IF c \in cancelled
       THEN /\ UNCHANGED <<storeVars, flightVars, callVars, joined, cancelled>>
            /\ Return(c, results[joined[c]])
       ELSE UseShared(c)

CallStep(c) ==
    \/ UNCHANGED poolVars /\ (Join(c) \/ Lead(c) \/ WaitCancelled(c) \/ EvaluateResidual(c))
    \/ ReceiveAborted(c) \/ ReceiveWinner(c) \/ Receive(c)

FlightStep(l) ==
    \/ Submit(l) \/ SubmitFails(l) \/ Collect(l) \/ CollectCancelled(l) \/ FlightSave(l)
    \/ UNCHANGED poolVars /\ (Forget(l) \/ Deliver(l))

WorkerStep(l, e) == BeginTask(l, e) \/ FinishTask(l, e) \/ PanicTask(l, e)

\* Every call has returned, no flight and no task is left.
Quiescent ==
    /\ \A c \in Calls : pc[c] = "done" /\ stage[c] \in {"none", "delivered"}
    /\ Busy = {}
    /\ UNCHANGED vars

Next ==
    \/ \E c \in Calls : \/ CallStep(c)
                        \/ UNCHANGED poolVars /\ (Process(c) \/ Cancel(c))
    \/ \E l \in Calls : FlightStep(l) \/ \E e \in Entities : WorkerStep(l, e)
    \/ \E t \in Tokens : UNCHANGED poolVars /\ (Expire(t) \/ Invalidate(t))
    \/ Stop
    \/ Quiescent

Spec == Init /\ [][Next]_vars

\* Calls, flights and workers are scheduled; contexts, Stop and expiry are not.
FairSpec ==
    /\ Spec
    /\ \A c \in Calls : WF_vars(CallStep(c))
    /\ \A l \in Calls : WF_vars(FlightStep(l))
    /\ \A l \in Calls, e \in Entities : WF_vars(WorkerStep(l, e))

-----------------------------------------------------------------------------
(* Properties.                                                             *)

\* Every variable keeps its type.
TypeOK ==
    /\ RunnerTypeOK
    /\ closed \in BOOLEAN
    /\ submitted \in [Calls -> SUBSET Entities]
    /\ task \in [Calls -> [Entities -> Tasks]]
    /\ resultCh \in [Calls -> Seq(Entities \cup {None})]
    /\ collected \in [Calls -> Nat]
    /\ winner \in [Calls -> Nat]
    /\ aborted \subseteq Calls

\* saveNegatives after a first match, a drain or a cancellation: only
\* outcomes that a matcher really produced for an enabled, unexcepted rule of
\* that entity are persisted, and only negative ones.
CacheSound == \A t \in Tokens : NegativesOnly(cache[t], t)

Excused == cancelled \cup (IF closed THEN Calls ELSE {})

\* A waiter shares whatever its leader collected before a match, a
\* cancellation or nothing at all, and completes it: unless its own context is
\* done or the pool is closed it returns the first rule in order.
WaiterAnswersFirstMatch ==
    \A c \in Calls : (pc[c] = "done" /\ joined[c] # c /\ c \notin Excused) =>
        returned[c] = FirstMatch(rules[c], token[c])

\* The runner implements the promise of RuleRunner.Process, in any order.
Service == INSTANCE RuleService
               WITH Ordered <- FALSE,
                    excused <- Excused,
                    done    <- {c \in Calls : pc[c] = "done"}
ImplementsService == Service!Spec

\* resultCh is "sized to the missing set so workers never block": items that
\* wait in the channel and items still to be sent never exceed its capacity,
\* whether or not anybody collects them.
ChannelNeverBlocks ==
    \A l \in Calls : stage[l] # "none" =>
        Len(resultCh[l])
          + Cardinality({e \in Entities : task[l][e] \in {"accepted", "matching"}})
        <= Cardinality(FlightMissing(l))

\* collectEvaluations: while a flight collects, an item is on its way for
\* every iteration that is left, so the loop cannot wait for nothing; only a
\* panic takes an item away.
CollectorIsFed ==
    \A l \in Calls : Collecting(l) =>
        collected[l] + Len(resultCh[l])
          + Cardinality({e \in Entities : task[l][e] \in {"accepted", "matching", "lost"}})
        = Cardinality(submitted[l])

\* From the moment a flight has left collectEvaluations nobody changes the
\* map its waiters share, late workers included.
SharedMapFrozen ==
    [][\A l \in Calls : stage[l] \notin {"none", "match"} => results'[l] = results[l]]_vars

\* Every call of Process returns: with a pool smaller than the missing sets of
\* the flights that share it, after a match, a cancellation or Stop.  Only a
\* matcher's panic may hold the calls of its flight.
EveryCallReturns ==
    \A c \in Calls : pc[c] = "join" ~>
        \/ pc[c] = "done"
        \/ joined[c] # None /\ \E e \in Entities : task[joined[c]][e] = "lost"

\* A call whose context is done returns even if a matcher's panic has eaten an
\* item its flight is waiting for.
CancelledCallReturns ==
    \A c \in Calls : (pc[c] = "wait" /\ c \in cancelled) ~> pc[c] = "done"

\* What Process's comment promises for the leader too: "returns the first
\* matching rule".
LeaderAnswersFirstMatch ==
    \A c \in Calls : (pc[c] = "done" /\ joined[c] = c /\ c \notin Excused) =>
        returned[c] = FirstMatch(rules[c], token[c])

=============================================================================
