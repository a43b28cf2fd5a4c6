------------------------- MODULE SerialRunnerProofs -------------------------
(***************************************************************************)
(* Proofs about SerialRunner, for every set of calls, tokens, entities and *)
(* rule lists, with and without a cache, coalescing or client-side cache.  *)
(***************************************************************************)
EXTENDS SerialRunner, RuleRunnerProofs

-----------------------------------------------------------------------------
(* The inductive invariant.                                                *)

\* Once a flight has evaluated, its outcomes cover what its leader misses.
CoverInv ==
    \A l \in Calls : stage[l] \notin {"none", "match"} =>
        Covers(results[l], rules[l], token[l], cached[l])

IndInv == RunnerInv /\ CoverInv /\ OneSavePerCall

LEMMA InitInv == Init => IndInv
<1> SUFFICES ASSUME Init PROVE IndInv
  OBVIOUS
<1>1. RunnerInv
  BY RunnerInitInv DEF Init
<1>2. CoverInv /\ OneSavePerCall
  BY DEF Init, RunnerInit, CoverInv, OneSavePerCall
<1>3. QED
  BY <1>1, <1>2 DEF IndInv

\* Process takes its snapshot before the call leads a flight.
LEMMA ProcessKeeps ==
    ASSUME IndInv, NEW c \in Calls, Process(c)
    PROVE  CoverInv' /\ OneSavePerCall'
<1>1. PICK read : cached' = [cached EXCEPT ![c] = read]
  BY DEF Process
<1>2. /\ stage[c] = "none"
      /\ UNCHANGED <<stage, results, rules, token, joined>>
  BY DEF Process, IndInv, RunnerInv, CallInv, CallOK, flightVars
<1>3. \A d \in Calls : pc'[d] = "residual" => pc[d] = "residual"
  BY DEF Process, Return, IndInv, RunnerInv, RunnerTypeOK
<1>4. CoverInv'
  BY <1>1, <1>2 DEF IndInv, RunnerInv, RunnerTypeOK, CoverInv
<1>5. OneSavePerCall'
  BY <1>2, <1>3 DEF IndInv, OneSavePerCall
<1>6. QED
  BY <1>4, <1>5

\* Joining, leading and leaving touch no map of a flight that has evaluated,
\* and put no call among the residual ones.
LEMMA CallKeeps ==
    ASSUME IndInv, NEW c \in Calls,
           Join(c) \/ Lead(c) \/ WaitCancelled(c) \/ EvaluateResidual(c) \/ Cancel(c)
    PROVE  CoverInv' /\ OneSavePerCall'
<1>1. UNCHANGED <<results, rules, token, cached>>
  BY DEF Join, Lead, WaitCancelled, EvaluateResidual, Cancel, flightVars, callVars
<1>2. \A l \in Calls : stage'[l] \notin {"none", "match"} => stage[l] \notin {"none", "match"}
  BY DEF Join, Lead, WaitCancelled, EvaluateResidual, Cancel, flightVars,
         IndInv, RunnerInv, RunnerTypeOK
<1>3. \A d \in Calls : pc'[d] = "residual" => pc[d] = "residual" /\ joined'[d] = joined[d]
  BY DEF Join, Lead, WaitCancelled, EvaluateResidual, Cancel, Return,
         IndInv, RunnerInv, RunnerTypeOK
<1>4. QED
  BY <1>1, <1>2, <1>3 DEF IndInv, CoverInv, OneSavePerCall

\* A leader that takes its own flight's map has no residual misses.
LEMMA ReceiveKeeps ==
    ASSUME IndInv, NEW c \in Calls, Receive(c)
    PROVE  CoverInv' /\ OneSavePerCall'
<1>1. /\ stage[joined[c]] = "delivered"
      /\ UNCHANGED <<stage, results, rules, token, cached, joined>>
  BY DEF Receive, CanReceive, UseShared, flightVars, callVars
<1>2. CoverInv'
  BY <1>1 DEF IndInv, CoverInv
<1>3. pc'[c] = "residual" => joined[c] # c
  <2> SUFFICES ASSUME pc'[c] = "residual", joined[c] = c PROVE FALSE
    OBVIOUS
  <2>1. Covers(results[c], rules[c], token[c], cached[c])
    BY <1>1 DEF IndInv, CoverInv
  <2>2. Residual(rules[c], token[c], cached[c], results[joined[c]]) = {}
    BY <2>1 DEF Covers, Residual
  <2>3. pc'[c] = "done"
    BY <2>2 DEF Receive, UseShared, Return, IndInv, RunnerInv, RunnerTypeOK
  <2>4. QED
    BY <2>3
<1>4. \A d \in Calls : d # c => pc'[d] = pc[d]
  BY DEF Receive, UseShared, Return, IndInv, RunnerInv, RunnerTypeOK
<1>5. OneSavePerCall'
  BY <1>1, <1>3, <1>4 DEF IndInv, OneSavePerCall
<1>6. QED
  BY <1>2, <1>5

\* The flight's evaluation covers its leader's missing set, and nothing that
\* follows writes to it.
LEMMA FlightMatchInv ==
    ASSUME IndInv, NEW l \in Calls, FlightMatch(l)
    PROVE  IndInv'
<1> DEFINE m == matchMissing(rules[l], token[l], cached[l],
                             Missing(rules[l], token[l], cached[l]))
<1>1. /\ stage[l] = "match"
      /\ results' = [results EXCEPT ![l] = m]
      /\ stage' = [stage EXCEPT ![l] = "save"]
      /\ UNCHANGED <<cache, local, group, pc, rules, token, cached, joined, cancelled, returned>>
  BY DEF FlightMatch, storeVars, callVars
<1>2. /\ RunnerInv /\ rules[l] \in RuleLists /\ token[l] \in Tokens
      /\ cache \in [Tokens -> ResultMap] /\ \A t \in Tokens : NegativesOnly(cache[t], t)
  BY DEF IndInv, RunnerInv, RunnerTypeOK, StoreInv
<1>3. m \in ResultMap /\ Sound(m, token[l]) /\ Covers(m, rules[l], token[l], cached[l])
  BY <1>2, MatchMissingSound DEF Covers
<1> HIDE DEF m
<1>4. "match" \in Running /\ "save" \in Running /\ "save" \in Stages
  BY DEF Running, Stages
<1>5. RunnerInv'
  BY <1>1, <1>2, <1>3, <1>4, FlightMoves
<1>6. CoverInv'
  BY <1>1, <1>3 DEF IndInv, RunnerInv, RunnerTypeOK, CoverInv
<1>7. OneSavePerCall'
  BY <1>1 DEF IndInv, OneSavePerCall
<1>8. QED
  BY <1>5, <1>6, <1>7 DEF IndInv

LEMMA FlightSaveInv ==
    ASSUME IndInv, NEW l \in Calls, FlightSave(l)
    PROVE  IndInv'
<1>1. /\ stage[l] = "save" /\ FlightReturns(l)
      /\ SaveMatches(token[l], Negatives(results[l]))
      /\ UNCHANGED <<local, group, results, pc, rules, token, cached, joined, cancelled, returned>>
  BY DEF FlightSave, callVars
<1>2. token[l] \in Tokens /\ Sound(results[l], token[l]) /\ RunnerTypeOK /\ StoreInv /\ RunnerInv
  BY DEF IndInv, RunnerInv, RunnerTypeOK, ResultsInv
<1>3. /\ cache' \in [Tokens -> ResultMap]
      /\ \A t \in Tokens : NegativesOnly(cache'[t], t)
  BY <1>1, <1>2, SaveInv
<1>4. stage[l] \in Running
  BY <1>1 DEF Running
<1>5. RunnerInv'
  BY <1>1, <1>2, <1>3, <1>4, FlightReturnsInv
<1>6. CoverInv'
  BY <1>1 DEF FlightReturns, IndInv, RunnerInv, RunnerTypeOK, CoverInv
<1>7. OneSavePerCall'
  BY <1>1 DEF IndInv, OneSavePerCall
<1>8. QED
  BY <1>5, <1>6, <1>7 DEF IndInv

LEMMA FlightEndKeeps ==
    ASSUME IndInv, NEW l \in Calls, Forget(l) \/ Deliver(l)
    PROVE  CoverInv' /\ OneSavePerCall'
<1>1. UNCHANGED <<results, pc, rules, token, cached, joined>>
  BY DEF Forget, Deliver, callVars
<1>2. \A k \in Calls : stage'[k] \notin {"none", "match"} => stage[k] \notin {"none", "match"}
  BY DEF Forget, Deliver, IndInv, RunnerInv, RunnerTypeOK
<1>3. QED
  BY <1>1, <1>2 DEF IndInv, CoverInv, OneSavePerCall

\* The invariant is inductive.
LEMMA NextInv == IndInv /\ [Next]_vars => IndInv'
<1> SUFFICES ASSUME IndInv, [Next]_vars PROVE IndInv'
  OBVIOUS
<1>0. RunnerInv
  BY DEF IndInv
<1>1. ASSUME NEW c \in Calls, Process(c) \/ CallStep(c) \/ Cancel(c)
      PROVE  IndInv'
  <2>1. RunnerInv'
    BY <1>0, <1>1, ProcessInv, JoinInv, LeadInv, UseSharedInv, WaitCancelledInv,
       EvaluateResidualInv, CancelInv DEF CallStep, Receive
  <2>2. CoverInv' /\ OneSavePerCall'
    BY <1>1, ProcessKeeps, CallKeeps, ReceiveKeeps DEF CallStep
  <2>3. QED
    BY <2>1, <2>2 DEF IndInv
<1>2. ASSUME NEW l \in Calls, FlightStep(l)
      PROVE  IndInv'
  <2>1. CASE FlightMatch(l) \/ FlightSave(l)
    BY <2>1, FlightMatchInv, FlightSaveInv
  <2>2. CASE Forget(l) \/ Deliver(l)
    BY <1>0, <2>2, ForgetInv, DeliverInv, FlightEndKeeps DEF IndInv
  <2>3. QED
    BY <1>2, <2>1, <2>2 DEF FlightStep
<1>3. ASSUME NEW t \in Tokens, Expire(t) \/ Invalidate(t)
      PROVE  IndInv'
  <2>1. UNCHANGED <<stage, results, pc, rules, token, cached, joined>>
    BY <1>3 DEF Expire, Invalidate, flightVars, callVars
  <2>2. CoverInv' /\ OneSavePerCall'
    BY <2>1 DEF IndInv, CoverInv, OneSavePerCall
  <2>3. QED
    BY <1>0, <1>3, <2>2, StoreStepInv DEF IndInv
<1>4. CASE Quiescent \/ UNCHANGED vars
  <2>1. UNCHANGED runnerVars
    BY <1>4 DEF Quiescent, vars
  <2>2. CoverInv' /\ OneSavePerCall'
    BY <2>1 DEF runnerVars, IndInv, CoverInv, OneSavePerCall
  <2>3. QED
    BY <1>0, <2>1, <2>2, StutterInv DEF IndInv
<1>5. QED
  BY <1>1, <1>2, <1>3, <1>4 DEF Next

\* The serial runner keeps its inductive invariant.
THEOREM Invariance == Spec => []IndInv
BY InitInv, NextInv, PTL DEF Spec

-----------------------------------------------------------------------------
(* Safety.                                                                 *)

\* Every variable of the serial runner keeps its type.
THEOREM TypeCorrect == Spec => []TypeOK
<1>1. IndInv => TypeOK
  BY DEF IndInv, RunnerInv, TypeOK
<1>2. QED
  BY <1>1, Invariance, PTL

\* saveNegatives never lets a positive, or a negative no matcher produced,
\* into the store.
THEOREM StoreIsSound == Spec => []CacheSound
<1>1. IndInv => CacheSound
  BY DEF IndInv, RunnerInv, StoreInv, CacheSound
<1>2. QED
  BY <1>1, Invariance, PTL

\* doShared never runs two evaluations of one token at a time.
THEOREM FlightsAreExclusive == Spec => []OneFlightPerToken
<1>1. IndInv => OneFlightPerToken
  BY DEF IndInv, RunnerInv, GroupInv, OneFlightPerToken
<1>2. QED
  BY <1>1, Invariance, PTL

\* evaluateMissing: the leader of a flight never has residual misses, so no
\* caller saves twice.
THEOREM LeaderSavesOnce == Spec => []OneSavePerCall
<1>1. IndInv => OneSavePerCall
  BY DEF IndInv
<1>2. QED
  BY <1>1, Invariance, PTL

\* Nobody writes to a map that a flight shares.
THEOREM SharedMapIsFrozen == Spec => SharedMapFrozen
<1>1. IndInv /\ [Next]_vars =>
          [\A l \in Calls : stage[l] \notin {"none", "match"} => results'[l] = results[l]]_vars
  <2> SUFFICES ASSUME IndInv, Next, NEW l \in Calls, stage[l] \notin {"none", "match"}
               PROVE  results'[l] = results[l]
    OBVIOUS
  <2>1. ASSUME NEW k \in Calls, FlightMatch(k) PROVE results'[l] = results[l]
    BY <2>1 DEF FlightMatch, IndInv, RunnerInv, RunnerTypeOK
  <2>2. ASSUME NEW k \in Calls, FlightSave(k) PROVE results' = results
    BY <2>2 DEF FlightSave
  <2>3. CASE Quiescent
    BY <2>3 DEF Quiescent, vars, runnerVars
  <2>4. QED
    BY <2>1, <2>2, <2>3, MapsUntouched DEF Next, CallStep, FlightStep, Receive
<1>2. QED
  BY <1>1, Invariance, PTL DEF Spec, SharedMapFrozen

-----------------------------------------------------------------------------
(* The answers.                                                            *)

\* What the service allows an answer to be.
ServiceAnswer(c) ==
    \/ AnswerStep(c, FirstMatch(rules[c], token[c]))
    \/ c \in cancelled /\ AnswerStep(c, 0)

\* Every step of the runner answers one call correctly or is silent.
LEMMA NextAnswers ==
    ASSUME EntityDetermined, IndInv, IndInv', [Next]_vars
    PROVE  SilentStep \/ \E c \in Calls : ServiceAnswer(c)
<1>1. RunnerInv /\ RunnerInv' /\ cancelled \subseteq Calls
  BY DEF IndInv, RunnerInv, RunnerTypeOK
<1>2. ASSUME NEW c \in Calls, Process(c) \/ CallStep(c) \/ Cancel(c)
      PROVE  SilentStep \/ ServiceAnswer(c)
  BY <1>1, <1>2, ProcessAnswers, UseSharedAnswers, ResidualAnswers, CancelledAnswers, SilentCall
     DEF CallStep, Receive, ServiceAnswer
<1>3. ASSUME NEW l \in Calls, FlightStep(l)
      PROVE  SilentStep
  <2>1. CASE FlightMatch(l) \/ FlightSave(l)
    BY <1>1, <2>1 DEF FlightMatch, FlightSave, callVars, SilentStep
  <2>2. QED
    BY <1>1, <1>3, <2>1, SilentCall DEF FlightStep
<1>4. CASE Quiescent \/ UNCHANGED vars
  BY <1>1, <1>4 DEF Quiescent, vars, runnerVars, SilentStep
<1>5. QED
  BY <1>1, <1>2, <1>3, <1>4, SilentStore DEF Next

\* With one matcher per entity every call of Process that is not cancelled
\* returns the first rule that applies, whatever was cached, shared, expired or
\* lost in between.
THEOREM AnswersAreFirstMatches ==
    ASSUME EntityDetermined
    PROVE  Spec => []AnswersFirstMatch
<1>1. Init => AnswersFirstMatch
  BY DEF Init, RunnerInit, AnswersFirstMatch
<1>2. IndInv /\ IndInv' /\ AnswersFirstMatch /\ [Next]_vars => AnswersFirstMatch'
  <2> SUFFICES ASSUME IndInv, IndInv', AnswersFirstMatch, [Next]_vars,
                      NEW d \in Calls, pc'[d] = "done"
               PROVE  \/ returned'[d] = FirstMatch(rules'[d], token'[d])
                      \/ d \in cancelled' /\ returned'[d] = 0
    BY DEF AnswersFirstMatch
  <2>1. pc \in [Calls -> Locations] /\ returned \in [Calls -> Nat]
    BY DEF IndInv, RunnerInv, RunnerTypeOK
  <2>2. CASE SilentStep
    BY <2>2 DEF SilentStep, AnswersFirstMatch
  <2>3. ASSUME NEW c \in Calls, ServiceAnswer(c)
        PROVE  \/ returned'[d] = FirstMatch(rules'[d], token'[d])
               \/ d \in cancelled' /\ returned'[d] = 0
    <3>1. CASE d = c
      BY <2>1, <2>3, <3>1 DEF ServiceAnswer, AnswerStep
    <3>2. CASE d # c
      <4>1. pc[d] = "done" /\ returned'[d] = returned[d]
        BY <2>1, <2>3, <3>2 DEF ServiceAnswer, AnswerStep
      <4>2. QED
        BY <2>3, <4>1 DEF ServiceAnswer, AnswerStep, AnswersFirstMatch
    <3>3. QED
      BY <3>1, <3>2
  <2>4. QED
    BY <2>2, <2>3, NextAnswers
<1>3. QED
  BY <1>1, <1>2, Invariance, PTL DEF Spec

\* With one matcher per entity the serial runner implements the abstract
\* service: a call answers once, with the first rule that applies, or with
\* nothing when its context is done.
THEOREM Refinement ==
    ASSUME EntityDetermined
    PROVE  Spec => ImplementsService
<1> DEFINE done == {c \in Calls : pc[c] = "done"}
<1>1. Init => Service!Init
  BY DEF Init, RunnerInit, Service!Init
<1>2. ASSUME NEW rs, NEW t
      PROVE  Service!FirstMatch(rs, t) = FirstMatch(rs, t)
  BY DEF Service!FirstMatch, FirstMatch, Service!Matching, Matching,
         Service!LeastIndex, LeastIndex, Service!isException, isException
<1>3. IndInv /\ IndInv' /\ [Next]_vars => [Service!Next]_(Service!vars)
  <2> SUFFICES ASSUME IndInv, IndInv', [Next]_vars
               PROVE  [Service!Next]_(Service!vars)
    OBVIOUS
  <2>1. pc \in [Calls -> Locations] /\ pc' \in [Calls -> Locations] /\ cancelled \subseteq Calls
    BY DEF IndInv, RunnerInv, RunnerTypeOK
  <2>2. CASE SilentStep
    <3>1. done' = done
      BY <2>2 DEF SilentStep
    <3>2. cancelled' = cancelled \cup (cancelled' \ cancelled)
      BY <2>2 DEF SilentStep
    <3>3. (cancelled' \ cancelled) \in SUBSET Calls
      BY <2>2 DEF SilentStep
    <3>4. Service!Excuse
      BY <2>2, <3>1, <3>2, <3>3 DEF SilentStep, Service!Excuse
    <3>5. QED
      BY <3>4 DEF Service!Next
  <2>3. ASSUME NEW c \in Calls, ServiceAnswer(c)
        PROVE  Service!Answer(c)
    <3>1. c \notin done /\ done' = done \cup {c}
      BY <2>1, <2>3 DEF ServiceAnswer, AnswerStep
    <3>2. FirstMatch(rules[c], token[c]) \in Service!Answers(c)
      BY <1>2 DEF Service!Answers
    <3>3. \E a \in Service!Answers(c) \cup (IF c \in cancelled THEN {0} ELSE {}) :
              returned' = [returned EXCEPT ![c] = a]
      BY <2>3, <3>2 DEF ServiceAnswer, AnswerStep
    <3>4. QED
      BY <2>3, <3>1, <3>3 DEF ServiceAnswer, AnswerStep, Service!Answer
  <2>4. QED
    BY <2>2, <2>3, NextAnswers DEF Service!Next
<1>4. QED
  BY <1>1, <1>3, Invariance, PTL DEF Spec, ImplementsService, Service!Spec

\* Nobody joins a flight whose function has returned and been forgotten.
THEOREM JoinsAreInFlight == Spec => JoinInFlightOnly
<1>1. IndInv /\ IndInv' /\ [Next]_vars =>
          [\A c \in Calls : joined'[c] # joined[c] /\ Coalescing =>
              stage'[joined'[c]] \in Running]_vars
  <2> SUFFICES ASSUME IndInv, Next, NEW c \in Calls, joined'[c] # joined[c], Coalescing
               PROVE  stage'[joined'[c]] \in Running
    OBVIOUS
  <2>1. ASSUME NEW d \in Calls, Join(d)
        PROVE  stage'[joined'[c]] \in Running
    BY <2>1 DEF Join, flightVars, IndInv, RunnerInv, RunnerTypeOK, GroupInv
  <2>2. ASSUME NEW d \in Calls, Lead(d)
        PROVE  stage'[joined'[c]] \in Running
    BY <2>2 DEF Lead, Register, IndInv, RunnerInv, RunnerTypeOK, Running
  <2>3. ASSUME NEW d \in Calls, Process(d) \/ Cancel(d) \/ WaitCancelled(d) \/ Receive(d)
                                  \/ EvaluateResidual(d) \/ FlightStep(d)
        PROVE  joined' = joined
    BY <2>3 DEF Process, Cancel, WaitCancelled, Receive, UseShared, EvaluateResidual,
                FlightStep, FlightMatch, FlightSave, Forget, Deliver
  <2>4. ASSUME NEW t \in Tokens, Expire(t) \/ Invalidate(t)
        PROVE  joined' = joined
    BY <2>4 DEF Expire, Invalidate
  <2>5. CASE Quiescent
    BY <2>5 DEF Quiescent, vars, runnerVars
  <2>6. QED
    BY <2>1, <2>2, <2>3, <2>4, <2>5 DEF Next, CallStep
<1>2. QED
  BY <1>1, Invariance, PTL DEF Spec, JoinInFlightOnly

=============================================================================
