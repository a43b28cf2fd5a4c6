----------------------- MODULE ConcurrentRunnerProofs -----------------------
(***************************************************************************)
(* Proofs about ConcurrentRunner, for every set of calls, tokens, entities *)
(* and rule lists, every size of the pool, with and without a cache,       *)
(* coalescing or client-side cache, and with Stop and panics at any time.  *)
(***************************************************************************)
EXTENDS ConcurrentRunner, RuleRunnerProofs, FiniteSetTheorems, SequenceTheorems

-----------------------------------------------------------------------------
(* The inductive invariant.                                                *)

\* The tasks that still have an item to send, and those whose item has not
\* arrived and may never do.
Pending(l) == {e \in Entities : task[l][e] \in {"accepted", "matching"}}
Owed(l) == {e \in Entities : task[l][e] \in {"accepted", "matching", "lost"}}

\* What a flight has submitted is part of what its leader misses, every task
\* and every item in the channel belongs to it, and the items are accounted
\* for: while the flight is in its loop, exactly; afterwards, from above.
SubmittedOK(l) ==
    /\ stage[l] = "none" => submitted[l] = {} /\ resultCh[l] = <<>> /\ collected[l] = 0
    /\ submitted[l] \subseteq FlightMissing(l)
    /\ \A e \in Entities : task[l][e] # "none" <=> e \in submitted[l]
ItemsOK(l) ==
    \A i \in DOMAIN resultCh[l] : resultCh[l][i] \in submitted[l] \cup {None}
CountOK(l) ==
    /\ Len(resultCh[l]) + Cardinality(Pending(l)) <= Cardinality(submitted[l])
    /\ stage[l] = "match" =>
           collected[l] + Len(resultCh[l]) + Cardinality(Owed(l)) = Cardinality(submitted[l])
WinnerOK(l) == winner[l] # 0 => winner[l] \in Matching(rules[l], token[l])

FlightOK(l) == SubmittedOK(l) /\ ItemsOK(l) /\ CountOK(l) /\ WinnerOK(l)

PoolInv ==
    /\ \A l \in Calls : FlightOK(l)
    /\ aborted # {} => closed

IndInv == RunnerInv /\ TypeOK /\ PoolInv

-----------------------------------------------------------------------------
(* Counting.                                                               *)

\* A caller misses finitely many entities: its rule list is finite.
LEMMA MissingFinite ==
    ASSUME NEW rs \in RuleLists, NEW t, NEW cm
    PROVE  IsFiniteSet(Missing(rs, t, cm))
<1> DEFINE f == [i \in DOMAIN rs |-> rs[i].entity]
           T == {rs[i].entity : i \in DOMAIN rs}
<1>1. rs \in Seq(Rule)
  BY RuleListsAssumption
<1>2. DOMAIN rs = 1..Len(rs) /\ Len(rs) \in Nat
  BY <1>1
<1>3. IsFiniteSet(DOMAIN rs)
  BY <1>2, FS_Interval
<1>4. f \in Surjection(DOMAIN rs, T)
  BY DEF Surjection
<1>5. IsFiniteSet(T)
  BY <1>3, <1>4, FS_Surjection
<1>6. Missing(rs, t, cm) \in SUBSET T
  BY DEF Missing, Claims
<1>7. QED
  BY <1>5, <1>6, FS_Subset

\* The sets that are counted are finite.
LEMMA FlightFinite ==
    ASSUME TypeOK, NEW l \in Calls, SubmittedOK(l)
    PROVE  /\ IsFiniteSet(FlightMissing(l)) /\ IsFiniteSet(submitted[l])
           /\ IsFiniteSet(Pending(l)) /\ IsFiniteSet(Owed(l))
           /\ Cardinality(submitted[l]) \in Nat
           /\ Cardinality(Pending(l)) \in Nat /\ Cardinality(Owed(l)) \in Nat
           /\ Cardinality(submitted[l]) <= Cardinality(FlightMissing(l))
<1>1. rules[l] \in RuleLists
  BY DEF TypeOK, RunnerTypeOK
<1>2. IsFiniteSet(FlightMissing(l))
  BY <1>1, MissingFinite DEF FlightMissing
<1>3. submitted[l] \in SUBSET FlightMissing(l)
  BY DEF SubmittedOK
<1>4. IsFiniteSet(submitted[l]) /\ Cardinality(submitted[l]) <= Cardinality(FlightMissing(l))
  BY <1>2, <1>3, FS_Subset
<1>5. Pending(l) \in SUBSET submitted[l] /\ Owed(l) \in SUBSET submitted[l]
  BY DEF SubmittedOK, Pending, Owed
<1>6. IsFiniteSet(Pending(l)) /\ IsFiniteSet(Owed(l))
  BY <1>4, <1>5, FS_Subset
<1>7. QED
  BY <1>2, <1>4, <1>6, FS_CardinalityType

\* What a worker's step does to the tasks that are counted.
LEMMA TaskStep ==
    ASSUME TypeOK, NEW l \in Calls, NEW e \in Entities, NEW s \in Tasks, SetTask(l, e, s)
    PROVE  /\ task' \in [Calls -> [Entities -> Tasks]]
           /\ \A k \in Calls : k # l => task'[k] = task[k]
           /\ \A f \in Entities : task'[l][f] = IF f = e THEN s ELSE task[l][f]
           /\ Pending(l)' = IF s \in {"accepted", "matching"}
                            THEN Pending(l) \cup {e} ELSE Pending(l) \ {e}
           /\ Owed(l)' = IF s \in {"accepted", "matching", "lost"}
                         THEN Owed(l) \cup {e} ELSE Owed(l) \ {e}
<1>1. task \in [Calls -> [Entities -> Tasks]] /\ task' = [task EXCEPT ![l][e] = s]
  BY DEF TypeOK, SetTask
<1>2. \A f \in Entities : task'[l][f] = IF f = e THEN s ELSE task[l][f]
  BY <1>1
<1>3. /\ task' \in [Calls -> [Entities -> Tasks]]
      /\ \A k \in Calls : k # l => task'[k] = task[k]
  BY <1>1
<1>4. Pending(l)' = IF s \in {"accepted", "matching"}
                    THEN Pending(l) \cup {e} ELSE Pending(l) \ {e}
  BY <1>2 DEF Pending
<1>5. Owed(l)' = IF s \in {"accepted", "matching", "lost"}
                 THEN Owed(l) \cup {e} ELSE Owed(l) \ {e}
  BY <1>2 DEF Owed
<1>6. QED
  BY <1>2, <1>3, <1>4, <1>5

\* What a send does to a flight's channel.
LEMMA SendStep ==
    ASSUME TypeOK, NEW l \in Calls, NEW item \in submitted[l] \cup {None}, Send(l, item),
           ItemsOK(l), submitted'[l] = submitted[l]
    PROVE  /\ resultCh' \in [Calls -> Seq(Entities \cup {None})]
           /\ \A k \in Calls : k # l => resultCh'[k] = resultCh[k]
           /\ resultCh'[l] # <<>>
           /\ Len(resultCh[l]) \in Nat
           /\ Len(resultCh'[l]) = Len(resultCh[l]) + 1
           /\ ItemsOK(l)'
<1>1. /\ resultCh \in [Calls -> Seq(Entities \cup {None})]
      /\ resultCh' = [resultCh EXCEPT ![l] = Append(resultCh[l], item)]
  BY DEF TypeOK, Send
<1>2. item \in Entities \cup {None}
  BY DEF TypeOK
<1>3. resultCh[l] \in Seq(Entities \cup {None})
  BY <1>1
<1>4. /\ Append(resultCh[l], item) \in Seq(Entities \cup {None})
      /\ Append(resultCh[l], item) # <<>>
      /\ Len(Append(resultCh[l], item)) = Len(resultCh[l]) + 1
      /\ \A i \in 1..Len(resultCh[l]) : Append(resultCh[l], item)[i] = resultCh[l][i]
      /\ Append(resultCh[l], item)[Len(resultCh[l]) + 1] = item
  BY <1>2, <1>3, AppendProperties
<1>5. resultCh'[l] = Append(resultCh[l], item)
  BY <1>1
<1>6. Len(resultCh[l]) \in Nat /\ DOMAIN resultCh[l] = 1..Len(resultCh[l])
  BY <1>3
<1>7. DOMAIN Append(resultCh[l], item) = 1..(Len(resultCh[l]) + 1)
  BY <1>4
<1>8. ItemsOK(l)'
  <2> SUFFICES ASSUME NEW i \in 1..(Len(resultCh[l]) + 1)
               PROVE  Append(resultCh[l], item)[i] \in submitted[l] \cup {None}
    BY <1>5, <1>7 DEF ItemsOK
  <2>1. CASE i = Len(resultCh[l]) + 1
    BY <1>4, <2>1
  <2>2. CASE i \in 1..Len(resultCh[l])
    BY <1>4, <1>6, <2>2 DEF ItemsOK
  <2>3. QED
    BY <1>6, <2>1, <2>2
<1>9. QED
  BY <1>1, <1>4, <1>5, <1>6, <1>8

\* A flight whose own part of the pool's state does not change keeps its
\* invariant, when it starts and when it leaves its loop too.
LEMMA FlightKept ==
    ASSUME IndInv, NEW l \in Calls,
           submitted'[l] = submitted[l], task'[l] = task[l], resultCh'[l] = resultCh[l],
           collected'[l] = collected[l], winner'[l] = winner[l],
           rules'[l] = rules[l], token'[l] = token[l],
           stage[l] # "none" => cached'[l] = cached[l],
           stage'[l] = "none" => stage[l] = "none",
           stage'[l] = "match" => stage[l] \in {"none", "match"}
    PROVE  FlightOK(l)'
<1>1. FlightOK(l)
  BY DEF IndInv, PoolInv
<1>2. SubmittedOK(l)'
  BY <1>1 DEF FlightOK, SubmittedOK, FlightMissing
<1>3. ItemsOK(l)'
  BY <1>1 DEF FlightOK, ItemsOK
<1>4. CountOK(l)'
  <2>1. Pending(l)' = Pending(l) /\ Owed(l)' = Owed(l)
    BY DEF Pending, Owed
  <2>2. stage[l] = "none" =>
            /\ submitted[l] = {} /\ resultCh[l] = <<>> /\ collected[l] = 0 /\ Owed(l) = {}
    BY <1>1 DEF FlightOK, SubmittedOK, Owed
  <2>3. stage[l] = "none" =>
            collected[l] + Len(resultCh[l]) + Cardinality(Owed(l)) = Cardinality(submitted[l])
    <3>1. Cardinality({}) = 0 /\ Len(<<>>) = 0
      BY FS_EmptySet
    <3> SUFFICES ASSUME stage[l] = "none"
                 PROVE  collected[l] + Len(resultCh[l]) + Cardinality(Owed(l))
                            = Cardinality(submitted[l])
      OBVIOUS
    <3>2. /\ Cardinality(Owed(l)) = 0 /\ Cardinality(submitted[l]) = 0
          /\ collected[l] = 0 /\ Len(resultCh[l]) = 0
      BY <2>2, <3>1, Zenon
    <3>3. QED
      BY <3>2
  <2>4. QED
    BY <1>1, <2>1, <2>3 DEF FlightOK, CountOK
<1>5. WinnerOK(l)'
  BY <1>1 DEF FlightOK, WinnerOK
<1>6. QED
  BY <1>2, <1>3, <1>4, <1>5 DEF FlightOK

-----------------------------------------------------------------------------
(* The invariant holds initially and every action preserves it.            *)

LEMMA InitInv == Init => IndInv
<1> SUFFICES ASSUME Init PROVE IndInv
  OBVIOUS
<1>1. RunnerInv
  BY RunnerInitInv DEF Init
<1>2. TypeOK
  <2>1. <<>> \in Seq(Entities \cup {None})
    BY EmptySeq
  <2>2. QED
    BY <1>1, <2>1 DEF Init, RunnerInv, TypeOK, Tasks
<1>3. ASSUME NEW l \in Calls PROVE FlightOK(l)
  <2>1. /\ stage[l] = "none" /\ submitted[l] = {} /\ resultCh[l] = <<>> /\ collected[l] = 0
        /\ winner[l] = 0 /\ \A e \in Entities : task[l][e] = "none"
    BY DEF Init, RunnerInit
  <2>2. SubmittedOK(l) /\ ItemsOK(l) /\ WinnerOK(l)
    BY <2>1 DEF SubmittedOK, ItemsOK, WinnerOK
  <2>3. Pending(l) = {}
    BY <2>1 DEF Pending
  <2>4. Cardinality({}) = 0 /\ Len(<<>>) = 0
    BY FS_EmptySet
  <2>5. Cardinality(Pending(l)) = 0 /\ Len(resultCh[l]) = 0 /\ Cardinality(submitted[l]) = 0
    BY <2>1, <2>3, <2>4, Zenon
  <2>6. CountOK(l)
    BY <2>1, <2>5 DEF CountOK
  <2>7. QED
    BY <2>2, <2>6 DEF FlightOK
<1>4. PoolInv
  BY <1>3 DEF Init, PoolInv
<1>5. QED
  BY <1>1, <1>2, <1>4 DEF IndInv

\* A step that leaves the pool's state alone keeps the invariant when the
\* runner's part does and no flight that has left its loop goes back.
LEMMA PoolIdle ==
    ASSUME IndInv, RunnerInv', UNCHANGED poolVars, UNCHANGED <<rules, token>>,
           \A l \in Calls :
               /\ stage[l] # "none" => cached'[l] = cached[l]
               /\ stage'[l] = "none" => stage[l] = "none"
               /\ stage'[l] = "match" => stage[l] \in {"none", "match"}
    PROVE  IndInv'
<1>1. UNCHANGED <<closed, submitted, task, resultCh, collected, winner, aborted>>
  BY DEF poolVars
<1>2. TypeOK'
  BY <1>1 DEF IndInv, TypeOK, RunnerInv
<1>3. \A l \in Calls : FlightOK(l)'
  BY <1>1, FlightKept
<1>4. PoolInv'
  BY <1>1, <1>3 DEF IndInv, PoolInv
<1>5. QED
  BY <1>2, <1>4 DEF IndInv

\* The shared actions of a call, a flight and the store.
LEMMA SharedCallInv ==
    ASSUME IndInv, NEW c \in Calls, UNCHANGED poolVars,
           \/ Process(c) \/ Join(c) \/ Lead(c) \/ WaitCancelled(c) \/ EvaluateResidual(c)
           \/ Cancel(c) \/ Forget(c) \/ Deliver(c)
    PROVE  IndInv'
<1>1. RunnerInv /\ stage \in [Calls -> Stages] /\ cached \in [Calls -> ResultMap]
  BY DEF IndInv, RunnerInv, RunnerTypeOK
<1>2. RunnerInv'
  BY <1>1, ProcessInv, JoinInv, LeadInv, WaitCancelledInv, EvaluateResidualInv, CancelInv,
     ForgetInv, DeliverInv
<1>3. CASE Process(c)
  <2>1. stage[c] = "none" /\ UNCHANGED <<stage, rules, token>>
    BY <1>1, <1>3 DEF Process, flightVars, RunnerInv, CallInv, CallOK
  <2>2. \A l \in Calls : l # c => cached'[l] = cached[l]
    BY <1>1, <1>3 DEF Process
  <2>3. QED
    BY <1>2, <2>1, <2>2, PoolIdle
<1>4. CASE Join(c) \/ WaitCancelled(c) \/ EvaluateResidual(c) \/ Cancel(c)
  <2>1. UNCHANGED <<stage, rules, token, cached>>
    BY <1>4 DEF Join, WaitCancelled, EvaluateResidual, Cancel, flightVars, callVars
  <2>2. QED
    BY <1>2, <2>1, PoolIdle
<1>5. CASE Lead(c)
  <2>1. /\ stage[c] = "none" /\ stage' = [stage EXCEPT ![c] = "match"]
        /\ UNCHANGED <<rules, token, cached>>
    BY <1>1, <1>5 DEF Lead, callVars, RunnerInv, CallInv, CallOK
  <2>2. QED
    BY <1>1, <1>2, <2>1, PoolIdle
<1>6. CASE Forget(c) \/ Deliver(c)
  <2>1. /\ stage' \in {[stage EXCEPT ![c] = "deliver"], [stage EXCEPT ![c] = "delivered"]}
        /\ UNCHANGED <<rules, token, cached>>
    BY <1>6 DEF Forget, Deliver, callVars
  <2>2. QED
    BY <1>1, <1>2, <2>1, PoolIdle
<1>7. QED
  BY <1>3, <1>4, <1>5, <1>6

LEMMA StoreInvKept ==
    ASSUME IndInv, NEW t \in Tokens, UNCHANGED poolVars, Expire(t) \/ Invalidate(t)
    PROVE  IndInv'
<1>1. RunnerInv'
  BY StoreStepInv DEF IndInv
<1>2. UNCHANGED <<stage, rules, token, cached>>
  BY DEF Expire, Invalidate, flightVars, callVars
<1>3. QED
  BY <1>1, <1>2, PoolIdle

\* A call comes back from its flight: with a nil map, with its own winner, with
\* a partial map and a context that is done, or with a map to complete.
LEMMA ReceiveInv ==
    ASSUME IndInv, NEW c \in Calls, ReceiveAborted(c) \/ ReceiveWinner(c) \/ Receive(c)
    PROVE  IndInv'
<1>1. /\ UNCHANGED poolVars
      /\ UNCHANGED <<cache, local, group, stage, results, rules, token, cached, joined, cancelled>>
  BY DEF ReceiveAborted, ReceiveWinner, Receive, UseShared, storeVars, flightVars, callVars
<1>2. RunnerInv /\ cache \in [Tokens -> ResultMap] /\ \A t \in Tokens : NegativesOnly(cache[t], t)
  BY DEF IndInv, RunnerInv, RunnerTypeOK, StoreInv
<1>3. ASSUME NEW ev, Return(c, ev) PROVE RunnerInv'
  BY <1>1, <1>2, <1>3, ReturningInv
<1>4. ASSUME ReceiveWinner(c) PROVE RunnerInv'
  <2>1. OwnWinner(c) \in Nat /\ returned \in [Calls -> Nat]
    BY DEF OwnWinner, IndInv, TypeOK, RunnerTypeOK
  <2>2. /\ pc' = [pc EXCEPT ![c] = "done"]
        /\ returned' \in [Calls -> Nat]
    BY <1>4, <2>1 DEF ReceiveWinner
  <2>3. QED
    BY <1>1, <1>2, <2>2, LeavingInv
<1>5. RunnerInv'
  BY <1>2, <1>3, <1>4, UseSharedInv DEF ReceiveAborted, Receive
<1>6. QED
  BY <1>1, <1>5, PoolIdle

\* A flight leaves its loop without a winner, or saves what it collected.
LEMMA FlightLeavesInv ==
    ASSUME IndInv, NEW l \in Calls, CollectCancelled(l) \/ FlightSave(l)
    PROVE  IndInv'
<1>1. /\ UNCHANGED poolVars /\ FlightReturns(l) /\ stage[l] \in Running
      /\ UNCHANGED <<local, group, results, pc, rules, token, cached, joined, cancelled, returned>>
  BY DEF CollectCancelled, Collecting, FlightSave, storeVars, callVars, Running
<1>2. /\ RunnerInv /\ RunnerTypeOK /\ StoreInv
      /\ token[l] \in Tokens /\ Sound(results[l], token[l])
      /\ stage \in [Calls -> Stages]
  BY DEF IndInv, RunnerInv, RunnerTypeOK, ResultsInv
<1>3. /\ cache' \in [Tokens -> ResultMap]
      /\ \A t \in Tokens : NegativesOnly(cache'[t], t)
  <2>1. CASE CollectCancelled(l)
    BY <1>2, <2>1 DEF CollectCancelled, storeVars, RunnerTypeOK, StoreInv
  <2>2. CASE FlightSave(l)
    <3>1. SaveMatches(token[l], Negatives(results[l]))
      BY <2>2 DEF FlightSave
    <3>2. QED
      BY <1>2, <3>1, SaveInv
  <2>3. QED
    BY <2>1, <2>2
<1>4. RunnerInv'
  BY <1>1, <1>2, <1>3, FlightReturnsInv
<1>5. QED
  BY <1>1, <1>2, <1>4, PoolIdle DEF FlightReturns

\* The first unsubmitted entity in rule order exists while one is left.
LEMMA NextEntityMissing ==
    ASSUME TypeOK, NEW l \in Calls, SubmittedOK(l), Submitting(l)
    PROVE  NextEntity(l) \in FlightMissing(l) \ submitted[l]
<1> DEFINE S == FlightMissing(l) \ submitted[l]
           N == {Claimant(l, e) : e \in S}
<1>1. S # {}
  BY DEF SubmittedOK, Submitting
<1>2. \A e \in S : Claimant(l, e) \in Nat
  <2>1. rules[l] \in RuleLists
    BY DEF TypeOK, RunnerTypeOK
  <2>2. \A e : Claims(rules[l], token[l], cached[l], e) \in SUBSET Nat
    BY <2>1, RuleListType DEF Claims
  <2>3. QED
    BY <2>2, LeastIndexMember DEF Claimant
<1>3. N \in SUBSET Nat /\ N # {}
  BY <1>1, <1>2
<1>4. PICK m \in N : \A n \in N : m <= n
  BY <1>3, LeastExists
<1>5. PICK e \in S : Claimant(l, e) = m
  BY <1>4
<1>6. \E d \in S : \A f \in S : Claimant(l, d) <= Claimant(l, f)
  BY <1>4, <1>5
<1>7. QED
  BY <1>6 DEF NextEntity

LEMMA SubmitInv ==
    ASSUME IndInv, NEW l \in Calls, Submit(l)
    PROVE  IndInv'
<1> DEFINE e == NextEntity(l)
<1>1. /\ stage[l] = "match" /\ Submitting(l)
      /\ submitted' = [submitted EXCEPT ![l] = submitted[l] \cup {e}]
      /\ SetTask(l, e, "accepted")
      /\ UNCHANGED <<runnerVars, closed, resultCh, collected, winner, aborted>>
  BY DEF Submit, Submitting
<1>2. UNCHANGED <<stage, rules, token, cached>>
  BY <1>1 DEF runnerVars
<1>3. TypeOK /\ FlightOK(l) /\ SubmittedOK(l) /\ RunnerInv
  BY DEF IndInv, PoolInv, FlightOK
<1>4. e \in FlightMissing(l) \ submitted[l] /\ FlightMissing(l) \subseteq Entities
  BY <1>1, <1>3, NextEntityMissing DEF FlightMissing, Missing
<1> HIDE DEF e
<1>5. "accepted" \in Tasks
  BY DEF Tasks
<1>6. /\ task' \in [Calls -> [Entities -> Tasks]]
      /\ \A k \in Calls : k # l => task'[k] = task[k]
      /\ \A f \in Entities : task'[l][f] = IF f = e THEN "accepted" ELSE task[l][f]
      /\ Pending(l)' = Pending(l) \cup {e}
      /\ Owed(l)' = Owed(l) \cup {e}
  BY <1>1, <1>3, <1>4, <1>5, TaskStep
<1>7. /\ submitted \in [Calls -> SUBSET Entities]
      /\ submitted' \in [Calls -> SUBSET Entities]
      /\ submitted'[l] = submitted[l] \cup {e}
      /\ \A k \in Calls : k # l => submitted'[k] = submitted[k]
  BY <1>1, <1>3, <1>4 DEF TypeOK
<1>8. RunnerInv'
  BY <1>1, <1>3, StutterInv
<1>9. TypeOK'
  BY <1>1, <1>3, <1>6, <1>7, <1>8 DEF TypeOK, RunnerInv
<1>10. FlightOK(l)'
  <2>1. FlightMissing(l)' = FlightMissing(l)
    BY <1>2 DEF FlightMissing
  <2>2. SubmittedOK(l)'
    BY <1>1, <1>2, <1>3, <1>4, <1>6, <1>7, <2>1 DEF SubmittedOK
  <2>3. ItemsOK(l)'
    BY <1>1, <1>3, <1>7 DEF FlightOK, ItemsOK
  <2>4. WinnerOK(l)'
    BY <1>1, <1>2, <1>3 DEF FlightOK, WinnerOK
  <2>5. /\ IsFiniteSet(submitted[l]) /\ IsFiniteSet(Pending(l)) /\ IsFiniteSet(Owed(l))
        /\ Cardinality(submitted[l]) \in Nat
        /\ Cardinality(Pending(l)) \in Nat /\ Cardinality(Owed(l)) \in Nat
    BY <1>3, FlightFinite
  <2>6. e \notin submitted[l] /\ e \notin Pending(l) /\ e \notin Owed(l)
    BY <1>3, <1>4 DEF SubmittedOK, Pending, Owed
  <2>7. /\ Cardinality(submitted[l] \cup {e}) = Cardinality(submitted[l]) + 1
        /\ Cardinality(Pending(l) \cup {e}) = Cardinality(Pending(l)) + 1
        /\ Cardinality(Owed(l) \cup {e}) = Cardinality(Owed(l)) + 1
    BY <2>5, <2>6, FS_AddElement
  <2>8. Len(resultCh[l]) \in Nat /\ collected[l] \in Nat
    BY <1>3 DEF TypeOK
  <2>9. CountOK(l)'
    <3>1. /\ Cardinality(submitted'[l]) = Cardinality(submitted[l]) + 1
          /\ Cardinality(Pending(l)') = Cardinality(Pending(l)) + 1
          /\ Cardinality(Owed(l)') = Cardinality(Owed(l)) + 1
      BY <1>6, <1>7, <2>7
    <3>2. /\ Len(resultCh[l]) + Cardinality(Pending(l)) <= Cardinality(submitted[l])
          /\ collected[l] + Len(resultCh[l]) + Cardinality(Owed(l)) = Cardinality(submitted[l])
      BY <1>1, <1>3 DEF FlightOK, CountOK
    <3>3. /\ Len(resultCh'[l]) + Cardinality(Pending(l)') <= Cardinality(submitted'[l])
          /\ collected'[l] + Len(resultCh'[l]) + Cardinality(Owed(l)') = Cardinality(submitted'[l])
      BY <1>1, <2>5, <2>8, <3>1, <3>2, SMTT(30)
    <3>4. QED
      BY <3>3 DEF CountOK
  <2>10. QED
    BY <2>2, <2>3, <2>4, <2>9 DEF FlightOK
<1>11. ASSUME NEW k \in Calls, k # l PROVE FlightOK(k)'
  BY <1>1, <1>2, <1>6, <1>7, <1>11, FlightKept
<1>12. PoolInv'
  BY <1>1, <1>10, <1>11 DEF IndInv, PoolInv
<1>13. QED
  BY <1>8, <1>9, <1>12 DEF IndInv

\* A flight is aborted only on a closed pool, and its map is not touched.
LEMMA SubmitFailsInv ==
    ASSUME IndInv, NEW l \in Calls, SubmitFails(l)
    PROVE  IndInv'
<1>1. /\ stage[l] = "match" /\ closed /\ FlightReturns(l)
      /\ aborted' = aborted \cup {l}
      /\ UNCHANGED <<cache, local, group, results, pc, rules, token, cached, joined, cancelled,
                     returned, closed, submitted, task, resultCh, collected, winner>>
  BY DEF SubmitFails, Submitting, storeVars, callVars
<1>2. /\ RunnerInv /\ TypeOK /\ stage \in [Calls -> Stages] /\ stage[l] \in Running
      /\ cache \in [Tokens -> ResultMap] /\ \A t \in Tokens : NegativesOnly(cache[t], t)
  BY <1>1 DEF IndInv, RunnerInv, RunnerTypeOK, StoreInv, Running
<1>3. RunnerInv'
  BY <1>1, <1>2, FlightReturnsInv
<1>4. TypeOK'
  BY <1>1, <1>2, <1>3 DEF TypeOK, RunnerInv
<1>5. ASSUME NEW k \in Calls PROVE FlightOK(k)'
  <2>1. /\ stage'[k] = "none" => stage[k] = "none"
        /\ stage'[k] = "match" => stage[k] = "match"
    BY <1>1, <1>2 DEF FlightReturns
  <2>2. QED
    BY <1>1, <2>1, FlightKept
<1>6. QED
  BY <1>1, <1>3, <1>4, <1>5 DEF IndInv, PoolInv

\* A worker's step on task e of flight l: what it owes before and after.
LEMMA WorkerKeepsFlight ==
    ASSUME IndInv, NEW l \in Calls, NEW e \in Entities,
           task[l][e] \in {"accepted", "matching"},
           UNCHANGED <<runnerVars, closed, submitted, collected, winner, aborted>>,
           NEW s \in Tasks \ {"none"}, SetTask(l, e, s),
           \/ s = "finished" /\ \E item \in {e, None} : Send(l, item)
           \/ s \in {"matching", "lost"} /\ UNCHANGED resultCh
    PROVE  IndInv'
<1>1. TypeOK /\ RunnerInv /\ FlightOK(l) /\ SubmittedOK(l) /\ ItemsOK(l)
  BY DEF IndInv, PoolInv, FlightOK
<1>2. UNCHANGED <<stage, rules, token, cached>>
  BY DEF runnerVars
<1>3. /\ task' \in [Calls -> [Entities -> Tasks]]
      /\ \A k \in Calls : k # l => task'[k] = task[k]
      /\ \A f \in Entities : task'[l][f] = IF f = e THEN s ELSE task[l][f]
      /\ Pending(l)' = IF s \in {"accepted", "matching"}
                       THEN Pending(l) \cup {e} ELSE Pending(l) \ {e}
      /\ Owed(l)' = IF s \in {"accepted", "matching", "lost"}
                    THEN Owed(l) \cup {e} ELSE Owed(l) \ {e}
  BY <1>1, TaskStep
<1>4. e \in submitted[l] /\ e \in Pending(l) /\ e \in Owed(l)
  BY <1>1 DEF SubmittedOK, Pending, Owed
<1>5. /\ IsFiniteSet(submitted[l]) /\ IsFiniteSet(Pending(l)) /\ IsFiniteSet(Owed(l))
      /\ Cardinality(submitted[l]) \in Nat
      /\ Cardinality(Pending(l)) \in Nat /\ Cardinality(Owed(l)) \in Nat
      /\ Len(resultCh[l]) \in Nat /\ collected[l] \in Nat
  BY <1>1, FlightFinite DEF TypeOK
<1>6. /\ Cardinality(Pending(l) \ {e}) = Cardinality(Pending(l)) - 1
      /\ Cardinality(Owed(l) \ {e}) = Cardinality(Owed(l)) - 1
  BY <1>4, <1>5, FS_RemoveElement
<1>7. /\ Len(resultCh[l]) + Cardinality(Pending(l)) <= Cardinality(submitted[l])
      /\ stage[l] = "match" =>
           collected[l] + Len(resultCh[l]) + Cardinality(Owed(l)) = Cardinality(submitted[l])
  BY <1>1 DEF FlightOK, CountOK
<1>8. RunnerInv'
  BY <1>1, StutterInv
<1>9. SubmittedOK(l)'
  <2>1. stage[l] # "none"
    BY <1>1, <1>4 DEF SubmittedOK
  <2>2. QED
    BY <1>1, <1>2, <1>3, <1>4, <2>1 DEF SubmittedOK, FlightMissing
<1>10. WinnerOK(l)'
  BY <1>1, <1>2 DEF FlightOK, WinnerOK
<1>11. CASE s = "finished" /\ \E item \in {e, None} : Send(l, item)
  <2>1. PICK item \in {e, None} : Send(l, item)
    BY <1>11
  <2>2. item \in submitted[l] \cup {None}
    BY <1>4, <2>1
  <2>3. /\ resultCh' \in [Calls -> Seq(Entities \cup {None})]
        /\ \A k \in Calls : k # l => resultCh'[k] = resultCh[k]
        /\ Len(resultCh'[l]) = Len(resultCh[l]) + 1
        /\ ItemsOK(l)'
    BY <1>1, <2>1, <2>2, SendStep
  <2>4. TypeOK'
    BY <1>1, <1>3, <1>8, <2>3 DEF TypeOK, RunnerInv
  <2>5. /\ Cardinality(Pending(l)') = Cardinality(Pending(l)) - 1
        /\ Cardinality(Owed(l)') = Cardinality(Owed(l)) - 1
    BY <1>3, <1>6, <1>11
  <2>6. CountOK(l)'
    <3>1. Len(resultCh'[l]) + Cardinality(Pending(l)') <= Cardinality(submitted'[l])
      BY <1>5, <1>7, <2>3, <2>5
    <3>2. stage[l] = "match" =>
              collected'[l] + Len(resultCh'[l]) + Cardinality(Owed(l)') = Cardinality(submitted'[l])
      BY <1>5, <1>7, <2>3, <2>5, SMTT(30)
    <3>3. QED
      BY <1>2, <3>1, <3>2 DEF CountOK
  <2>7. FlightOK(l)'
    BY <1>9, <1>10, <2>3, <2>6 DEF FlightOK
  <2>8. ASSUME NEW k \in Calls, k # l PROVE FlightOK(k)'
    BY <1>2, <1>3, <2>3, <2>8, FlightKept
  <2>9. PoolInv'
    BY <2>7, <2>8 DEF IndInv, PoolInv
  <2>10. QED
    BY <1>8, <2>4, <2>9 DEF IndInv
<1>12. CASE s \in {"matching", "lost"} /\ UNCHANGED resultCh
  <2>1. TypeOK'
    BY <1>1, <1>3, <1>8, <1>12 DEF TypeOK, RunnerInv
  <2>2. /\ Cardinality(Pending(l)') <= Cardinality(Pending(l))
        /\ Cardinality(Pending(l)') \in Int
    <3>1. CASE s = "matching"
      <4>1. Pending(l)' = Pending(l)
        BY <1>3, <1>4, <3>1
      <4>2. QED
        BY <1>5, <4>1
    <3>2. CASE s = "lost"
      BY <1>3, <1>5, <1>6, <3>2
    <3>3. QED
      BY <1>12, <3>1, <3>2
  <2>3. Owed(l)' = Owed(l)
    BY <1>3, <1>4, <1>12
  <2>4. CountOK(l)'
    <3>1. Len(resultCh'[l]) + Cardinality(Pending(l)') <= Cardinality(submitted'[l])
      BY <1>5, <1>7, <1>12, <2>2
    <3>2. QED
      BY <1>2, <1>7, <1>12, <2>3, <3>1 DEF CountOK
  <2>5. ItemsOK(l)'
    BY <1>1, <1>12 DEF ItemsOK
  <2>6. FlightOK(l)'
    BY <1>9, <1>10, <2>4, <2>5 DEF FlightOK
  <2>7. ASSUME NEW k \in Calls, k # l PROVE FlightOK(k)'
    BY <1>2, <1>3, <1>12, <2>7, FlightKept
  <2>8. PoolInv'
    BY <2>6, <2>7 DEF IndInv, PoolInv
  <2>9. QED
    BY <1>8, <2>1, <2>8 DEF IndInv
<1>13. QED
  BY <1>11, <1>12

LEMMA WorkerInv ==
    ASSUME IndInv, NEW l \in Calls, NEW e \in Entities, WorkerStep(l, e)
    PROVE  IndInv'
<1>1. {"finished", "matching", "lost"} \subseteq Tasks \ {"none"}
  BY DEF Tasks
<1>2. QED
  BY <1>1, WorkerKeepsFlight DEF WorkerStep, BeginTask, FinishTask, PanicTask

LEMMA StopInv ==
    ASSUME IndInv, Stop
    PROVE  IndInv'
<1>1. RunnerInv' /\ UNCHANGED <<stage, rules, token, cached>>
  BY StutterInv DEF IndInv, Stop, runnerVars
<1>2. TypeOK'
  BY <1>1 DEF IndInv, Stop, TypeOK, RunnerInv
<1>3. \A l \in Calls : FlightOK(l)'
  BY <1>1, FlightKept DEF Stop
<1>4. QED
  BY <1>1, <1>2, <1>3 DEF Stop, IndInv, PoolInv

\* The evaluated items of a flight's channel have sound outcomes, each found by
\* the rule that claims the entity.
LEMMA EvaluatedSound ==
    ASSUME TypeOK, NEW l \in Calls, SubmittedOK(l), NEW items,
           \A i \in DOMAIN items : items[i] \in submitted[l] \cup {None}
    PROVE  /\ Evaluated(l, items) \in ResultMap
           /\ Sound(Evaluated(l, items), token[l])
           /\ \A e \in Entities : Evaluated(l, items)[e] = "yes" =>
                  Claimant(l, e) \in Matching(rules[l], token[l])
<1> DEFINE M == {items[i] : i \in DOMAIN items} \cap Entities
<1>1. rules[l] \in RuleLists /\ token[l] \in Tokens
  BY DEF TypeOK, RunnerTypeOK
<1>2. M \in SUBSET Missing(rules[l], token[l], cached[l])
  BY ZeroItemAssumption DEF SubmittedOK, FlightMissing
<1>3. Evaluated(l, items) = matchMissing(rules[l], token[l], cached[l], M)
  BY DEF Evaluated
<1> HIDE DEF M
<1>4. QED
  BY <1>1, <1>2, <1>3, MatchMissingSound, ClaimantMatches DEF Claimant

\* The channel's first item and the rest.
LEMMA ChannelHead ==
    ASSUME TypeOK, NEW l \in Calls, ItemsOK(l), resultCh[l] # <<>>
    PROVE  /\ Head(resultCh[l]) \in submitted[l] \cup {None}
           /\ Len(resultCh[l]) \in Nat
           /\ Tail(resultCh[l]) \in Seq(Entities \cup {None})
           /\ Len(Tail(resultCh[l])) = Len(resultCh[l]) - 1
           /\ \A i \in DOMAIN Tail(resultCh[l]) :
                  Tail(resultCh[l])[i] \in submitted[l] \cup {None}
<1> DEFINE ch == resultCh[l]
<1>1. ch \in Seq(Entities \cup {None}) /\ ch # <<>>
  BY DEF TypeOK
<1>2. Len(ch) \in Nat /\ DOMAIN ch = 1..Len(ch) /\ Len(ch) # 0
  BY <1>1
<1>3. /\ Tail(ch) \in Seq(Entities \cup {None})
      /\ Len(Tail(ch)) = Len(ch) - 1
      /\ \A i \in 1..Len(Tail(ch)) : Tail(ch)[i] = ch[i + 1]
  BY <1>1, HeadTailProperties
<1>4. DOMAIN Tail(ch) = 1..(Len(ch) - 1)
  BY <1>3
<1>5. Head(ch) = ch[1] /\ 1 \in DOMAIN ch
  BY <1>1, <1>2
<1>6. \A i \in 1..(Len(ch) - 1) : i + 1 \in DOMAIN ch
  BY <1>2
<1>7. \A i \in DOMAIN ch : ch[i] \in submitted[l] \cup {None}
  BY DEF ItemsOK
<1> HIDE DEF ch
<1>8. \A i \in DOMAIN Tail(ch) : Tail(ch)[i] \in submitted[l] \cup {None}
  BY <1>3, <1>4, <1>6, <1>7
<1>9. QED
  BY <1>2, <1>3, <1>5, <1>7, <1>8 DEF ch

LEMMA CollectInv ==
    ASSUME IndInv, NEW l \in Calls, Collect(l)
    PROVE  IndInv'
<1> DEFINE ch    == resultCh[l]
           item  == Head(ch)
           first == Evaluated(l, <<item>>)
           match == item \in Entities /\ first[item] = "yes"
           ev    == IF match THEN Evaluated(l, ch) ELSE first
           m     == Merge(results[l], ev)
           rest  == IF match THEN <<>> ELSE Tail(ch)
           s     == IF match \/ collected[l] + 1 = Cardinality(submitted[l])
                    THEN "save" ELSE stage[l]
           w     == IF match THEN Claimant(l, item) ELSE 0
<1>1. /\ stage[l] = "match" /\ ch # <<>>
      /\ results' = [results EXCEPT ![l] = m]
      /\ resultCh' = [resultCh EXCEPT ![l] = rest]
      /\ winner' = [winner EXCEPT ![l] = w]
      /\ collected' = [collected EXCEPT ![l] = collected[l] + 1]
      /\ stage' = [stage EXCEPT ![l] = s]
      /\ UNCHANGED <<cache, local, group, pc, rules, token, cached, joined, cancelled, returned,
                     closed, submitted, task, aborted>>
  BY DEF Collect, Collecting, storeVars, callVars
<1>2. /\ TypeOK /\ RunnerInv /\ FlightOK(l)
      /\ SubmittedOK(l) /\ ItemsOK(l) /\ CountOK(l)
  BY DEF IndInv, PoolInv, FlightOK
<1>3. /\ item \in submitted[l] \cup {None}
      /\ Len(ch) \in Nat
      /\ Tail(ch) \in Seq(Entities \cup {None})
      /\ Len(Tail(ch)) = Len(ch) - 1
      /\ \A i \in DOMAIN Tail(ch) : Tail(ch)[i] \in submitted[l] \cup {None}
  BY <1>1, <1>2, ChannelHead
<1>4. \A i \in DOMAIN <<item>> : <<item>>[i] \in submitted[l] \cup {None}
  <2> HIDE DEF item
  <2>1. QED
    BY <1>3
<1>5. /\ first \in ResultMap /\ Sound(first, token[l])
      /\ match => Claimant(l, item) \in Matching(rules[l], token[l])
  BY <1>2, <1>4, EvaluatedSound
<1>6. Evaluated(l, ch) \in ResultMap /\ Sound(Evaluated(l, ch), token[l])
  BY <1>2, EvaluatedSound DEF ItemsOK
<1>7. ev \in ResultMap /\ Sound(ev, token[l])
  BY <1>5, <1>6
<1>8. w \in Nat /\ (w # 0 => w \in Matching(rules[l], token[l]))
  <2>1. Matching(rules[l], token[l]) \subseteq Nat
    BY <1>2, RuleListType DEF Matching, TypeOK, RunnerTypeOK
  <2>2. QED
    BY <1>5, <2>1
<1>9. s \in {"match", "save"} /\ (s = "match" => ~match)
  BY <1>1
<1>10. /\ rest \in Seq(Entities \cup {None})
       /\ \A i \in DOMAIN rest : rest[i] \in submitted[l] \cup {None}
       /\ Len(rest) = IF match THEN 0 ELSE Len(ch) - 1
  <2>1. <<>> \in Seq(Entities \cup {None}) /\ Len(<<>>) = 0 /\ DOMAIN <<>> = {}
    BY EmptySeq
  <2>2. CASE match
    BY <2>1, <2>2
  <2>3. CASE ~match
    BY <1>3, <2>3
  <2>4. QED
    BY <2>2, <2>3
<1> HIDE DEF ch, first, ev, m, rest, s, w, item, match
<1>11. RunnerInv'
  <2>1. /\ results[l] \in ResultMap /\ Sound(results[l], token[l])
        /\ cache \in [Tokens -> ResultMap] /\ \A t \in Tokens : NegativesOnly(cache[t], t)
    BY <1>2 DEF RunnerInv, RunnerTypeOK, StoreInv, ResultsInv
  <2>2. m \in ResultMap /\ Sound(m, token[l])
    BY <1>7, <2>1, MergeType, MergeSound DEF m
  <2>3. stage[l] \in Running /\ s \in Running /\ s \in Stages
    BY <1>1, <1>9 DEF Running, Stages
  <2>4. QED
    BY <1>1, <1>2, <2>1, <2>2, <2>3, FlightMoves
<1>12. TypeOK'
  <2>1. collected' \in [Calls -> Nat] /\ winner' \in [Calls -> Nat]
    BY <1>1, <1>2, <1>8 DEF TypeOK
  <2>2. resultCh' \in [Calls -> Seq(Entities \cup {None})]
    BY <1>1, <1>2, <1>10 DEF TypeOK
  <2>3. QED
    BY <1>1, <1>2, <1>11, <2>1, <2>2 DEF TypeOK, RunnerInv
<1>13. /\ resultCh'[l] = rest /\ winner'[l] = w /\ collected'[l] = collected[l] + 1
       /\ stage'[l] = s
       /\ \A k \in Calls : k # l => /\ resultCh'[k] = resultCh[k] /\ winner'[k] = winner[k]
                                    /\ collected'[k] = collected[k] /\ stage'[k] = stage[k]
  BY <1>1, <1>2 DEF TypeOK, RunnerTypeOK
<1>14. FlightOK(l)'
  <2>1. SubmittedOK(l)'
    BY <1>1, <1>2, <1>9, <1>13 DEF SubmittedOK, FlightMissing
  <2>2. ItemsOK(l)'
    BY <1>1, <1>10, <1>13 DEF ItemsOK
  <2>3. WinnerOK(l)'
    BY <1>1, <1>8, <1>13 DEF WinnerOK
  <2>4. CountOK(l)'
    <3>1. Pending(l)' = Pending(l) /\ Owed(l)' = Owed(l)
      BY <1>1 DEF Pending, Owed
    <3>2. /\ Cardinality(submitted[l]) \in Nat /\ Cardinality(Pending(l)) \in Nat
          /\ Cardinality(Owed(l)) \in Nat /\ collected[l] \in Nat
      BY <1>2, FlightFinite DEF TypeOK
    <3>3. /\ Len(ch) + Cardinality(Pending(l)) <= Cardinality(submitted[l])
          /\ collected[l] + Len(ch) + Cardinality(Owed(l)) = Cardinality(submitted[l])
      BY <1>1, <1>2 DEF CountOK, ch
    <3>4. Len(rest) + Cardinality(Pending(l)) <= Cardinality(submitted[l])
      <4>1. Len(rest) \in Int /\ Len(rest) <= Len(ch)
        <5>1. Len(ch) \in Nat
          BY <1>3
        <5>2. Len(rest) = 0 \/ Len(rest) = Len(ch) - 1
          BY <1>10
        <5>3. QED
          BY <5>1, <5>2
      <4>2. QED
        BY <1>3, <3>2, <3>3, <4>1
    <3>5. ~match => (collected[l] + 1) + Len(rest) + Cardinality(Owed(l)) = Cardinality(submitted[l])
      BY <1>3, <1>10, <3>2, <3>3
    <3>6. Len(resultCh'[l]) + Cardinality(Pending(l)') <= Cardinality(submitted'[l])
      BY <1>1, <1>13, <3>1, <3>4
    <3>7. stage'[l] = "match" =>
              collected'[l] + Len(resultCh'[l]) + Cardinality(Owed(l)') = Cardinality(submitted'[l])
      BY <1>1, <1>9, <1>13, <3>1, <3>5
    <3>8. QED
      BY <3>6, <3>7 DEF CountOK
  <2>5. QED
    BY <2>1, <2>2, <2>3, <2>4 DEF FlightOK
<1>15. ASSUME NEW k \in Calls, k # l PROVE FlightOK(k)'
  BY <1>1, <1>13, <1>15, FlightKept
<1>16. PoolInv'
  BY <1>1, <1>14, <1>15 DEF IndInv, PoolInv
<1>17. QED
  BY <1>11, <1>12, <1>16 DEF IndInv

\* The invariant is inductive.
LEMMA NextInv == IndInv /\ [Next]_vars => IndInv'
<1> SUFFICES ASSUME IndInv, [Next]_vars PROVE IndInv'
  OBVIOUS
<1>1. ASSUME NEW c \in Calls, CallStep(c) \/ (UNCHANGED poolVars /\ (Process(c) \/ Cancel(c)))
      PROVE  IndInv'
  BY <1>1, SharedCallInv, ReceiveInv DEF CallStep
<1>2. ASSUME NEW l \in Calls, FlightStep(l)
      PROVE  IndInv'
  BY <1>2, SubmitInv, SubmitFailsInv, CollectInv, FlightLeavesInv, SharedCallInv DEF FlightStep
<1>3. CASE Quiescent \/ UNCHANGED vars
  <2>1. UNCHANGED runnerVars /\ UNCHANGED poolVars
    BY <1>3 DEF Quiescent, vars
  <2>2. RunnerInv' /\ UNCHANGED <<stage, rules, token, cached>>
    BY <2>1, StutterInv DEF IndInv, runnerVars
  <2>3. QED
    BY <2>1, <2>2, PoolIdle
<1>4. ASSUME NEW t \in Tokens, UNCHANGED poolVars /\ (Expire(t) \/ Invalidate(t))
      PROVE  IndInv'
  BY <1>4, StoreInvKept
<1>5. ASSUME NEW l \in Calls, NEW e \in Entities, WorkerStep(l, e)
      PROVE  IndInv'
  BY <1>5, WorkerInv
<1>6. CASE Stop
  BY <1>6, StopInv
<1>7. QED
  BY <1>1, <1>2, <1>3, <1>4, <1>5, <1>6 DEF Next

\* The concurrent runner keeps its inductive invariant.
THEOREM Invariance == Spec => []IndInv
BY InitInv, NextInv, PTL DEF Spec

-----------------------------------------------------------------------------
(* Safety.                                                                 *)

\* Every variable of the concurrent runner keeps its type.
THEOREM TypeCorrect == Spec => []TypeOK
<1>1. IndInv => TypeOK
  BY DEF IndInv
<1>2. QED
  BY <1>1, Invariance, PTL

\* Whatever a flight has collected when a match, a drain, a cancellation or
\* Stop ends it, saveNegatives never lets a positive, or a negative no matcher
\* produced, into the store.
THEOREM StoreIsSound == Spec => []CacheSound
<1>1. IndInv => CacheSound
  BY DEF IndInv, RunnerInv, StoreInv, CacheSound
<1>2. QED
  BY <1>1, Invariance, PTL

\* A channel sized to the missing set has room for every item its workers will
\* still send, whether or not the collector has left: no worker ever blocks.
THEOREM WorkersNeverBlock == Spec => []ChannelNeverBlocks
<1>1. IndInv => ChannelNeverBlocks
  <2> SUFFICES ASSUME IndInv, NEW l \in Calls
               PROVE  Len(resultCh[l]) + Cardinality(Pending(l)) <= Cardinality(FlightMissing(l))
    BY DEF ChannelNeverBlocks, Pending
  <2>1. TypeOK /\ SubmittedOK(l) /\ CountOK(l)
    BY DEF IndInv, PoolInv, FlightOK
  <2>2. IsFiniteSet(FlightMissing(l)) /\ Cardinality(submitted[l]) <= Cardinality(FlightMissing(l))
    BY <2>1, FlightFinite
  <2>3. /\ Cardinality(submitted[l]) \in Nat /\ Cardinality(Pending(l)) \in Nat
        /\ Cardinality(FlightMissing(l)) \in Nat /\ Len(resultCh[l]) \in Nat
    BY <2>1, <2>2, FlightFinite, FS_CardinalityType DEF TypeOK
  <2>4. Len(resultCh[l]) + Cardinality(Pending(l)) <= Cardinality(submitted[l])
    BY <2>1 DEF CountOK
  <2>5. QED
    BY <2>2, <2>3, <2>4
<1>2. QED
  BY <1>1, Invariance, PTL

\* While the collector waits, an item is on its way for every iteration that is
\* left, but for the tasks a panic has taken.
THEOREM CollectorsAreFed == Spec => []CollectorIsFed
<1>1. IndInv => CollectorIsFed
  BY DEF IndInv, PoolInv, FlightOK, CountOK, CollectorIsFed, Collecting, Owed
<1>2. QED
  BY <1>1, Invariance, PTL

\* Once a flight has left its loop nobody writes to the map its waiters share,
\* late workers included.
THEOREM SharedMapIsFrozen == Spec => SharedMapFrozen
<1>1. IndInv /\ [Next]_vars =>
          [\A l \in Calls : stage[l] \notin {"none", "match"} => results'[l] = results[l]]_vars
  <2> SUFFICES ASSUME IndInv, Next, NEW l \in Calls, stage[l] \notin {"none", "match"}
               PROVE  results'[l] = results[l]
    OBVIOUS
  <2>1. ASSUME NEW k \in Calls, Collect(k) PROVE results'[l] = results[l]
    <3>1. k # l /\ results \in [Calls -> ResultMap]
      BY <2>1 DEF Collect, Collecting, IndInv, RunnerInv, RunnerTypeOK
    <3>2. PICK m : results' = [results EXCEPT ![k] = m]
      BY <2>1 DEF Collect
    <3>3. QED
      BY <3>1, <3>2
  <2>2. ASSUME NEW k \in Calls, Submit(k) \/ SubmitFails(k) \/ CollectCancelled(k) \/ FlightSave(k)
        PROVE  results' = results
    BY <2>2 DEF Submit, SubmitFails, CollectCancelled, FlightSave, runnerVars
  <2>3. ASSUME NEW c \in Calls, ReceiveAborted(c) \/ ReceiveWinner(c) \/ Receive(c)
        PROVE  results' = results
    BY <2>3 DEF ReceiveAborted, ReceiveWinner, Receive, UseShared, flightVars
  <2>4. ASSUME NEW k \in Calls, NEW e \in Entities, WorkerStep(k, e)
        PROVE  results' = results
    BY <2>4 DEF WorkerStep, BeginTask, FinishTask, PanicTask, runnerVars
  <2>5. CASE Stop \/ Quiescent
    BY <2>5 DEF Stop, Quiescent, vars, runnerVars
  <2>6. QED
    BY <2>1, <2>2, <2>3, <2>4, <2>5, MapsUntouched DEF Next, CallStep, FlightStep
<1>2. QED
  BY <1>1, Invariance, PTL DEF Spec, SharedMapFrozen

-----------------------------------------------------------------------------
(* The answers.                                                            *)

\* A call answers with the first rule in order, with another rule that applies
\* if it led its flight or its context is done, or with nothing if it is
\* excused.
ServiceAnswer(c) ==
    /\ UNCHANGED <<joined, closed>>
    /\ \/ AnswerStep(c, FirstMatch(rules[c], token[c]))
       \/ /\ joined[c] = c \/ c \in cancelled
          /\ \E a \in Matching(rules[c], token[c]) : AnswerStep(c, a)
       \/ c \in Excused /\ AnswerStep(c, 0)

\* No call answers; contexts may end, the pool may be released, and a call that
\* is not done may join a flight.
QuietStep ==
    /\ SilentStep
    /\ closed => closed'
    /\ \A c \in Calls : pc[c] = "done" => joined'[c] = joined[c]

LEMMA ReceiveAnswers ==
    ASSUME EntityDetermined, IndInv, NEW c \in Calls,
           ReceiveAborted(c) \/ ReceiveWinner(c) \/ Receive(c)
    PROVE  ServiceAnswer(c) \/ QuietStep
<1>1. /\ pc[c] # "done" /\ UNCHANGED <<rules, token, cached, joined, cancelled, closed>>
      /\ CanReceive(c)
  BY DEF ReceiveAborted, ReceiveWinner, Receive, CanReceive, UseShared, callVars, poolVars
<1>2. /\ RunnerInv /\ joined[c] \in Calls /\ token[joined[c]] = token[c]
      /\ rules[c] \in RuleLists /\ token[c] \in Tokens
  BY <1>1 DEF CanReceive, IndInv, RunnerInv, RunnerTypeOK, CallInv, CallOK
<1>3. CASE ReceiveAborted(c)
  <2>1. closed /\ c \in Excused
    BY <1>3 DEF ReceiveAborted, IndInv, PoolInv, Excused
  <2>2. AnswerStep(c, 0)
    BY <1>1, <1>2, <1>3, ReturnsNothing DEF ReceiveAborted
  <2>3. QED
    BY <1>1, <2>1, <2>2 DEF ServiceAnswer
<1>4. CASE ReceiveWinner(c)
  <2>1. joined[c] = c /\ winner[c] # 0 /\ OwnWinner(c) = winner[c]
    BY <1>4 DEF ReceiveWinner, OwnWinner
  <2>2. winner[c] \in Matching(rules[c], token[c])
    BY <2>1 DEF IndInv, PoolInv, FlightOK, WinnerOK
  <2>3. AnswerStep(c, winner[c])
    BY <1>1, <1>4, <2>1 DEF ReceiveWinner, AnswerStep
  <2>4. QED
    BY <1>1, <2>1, <2>2, <2>3 DEF ServiceAnswer
<1>5. CASE Receive(c) /\ c \in cancelled
  <2> DEFINE a == FinalPass(rules[c], token[c], cached[c], results[joined[c]])
  <2>1. AnswerStep(c, a)
    BY <1>1, <1>5 DEF Receive, Return, AnswerStep
  <2>2. Sound(results[joined[c]], token[c]) /\ NegativesOnly(cached[c], token[c])
    BY <1>2 DEF RunnerInv, ResultsInv, StoreInv
  <2>3. a \in Matching(rules[c], token[c]) \cup {0}
    BY <1>2, <2>2, FinalPassSound
  <2> HIDE DEF a
  <2>4. c \in Excused
    BY <1>5 DEF Excused
  <2>5. QED
    BY <1>1, <1>5, <2>1, <2>3, <2>4 DEF ServiceAnswer
<1>6. CASE Receive(c) /\ c \notin cancelled
  <2>1. AnswerStep(c, FirstMatch(rules[c], token[c])) \/ SilentStep
    BY <1>1, <1>2, <1>6, UseSharedAnswers DEF Receive
  <2>2. QED
    BY <1>1, <2>1 DEF ServiceAnswer, QuietStep
<1>7. QED
  BY <1>3, <1>4, <1>5, <1>6

\* Every step of the runner answers one call as the service allows or answers
\* none.
LEMMA NextAnswers ==
    ASSUME EntityDetermined, IndInv, IndInv', [Next]_vars
    PROVE  QuietStep \/ \E c \in Calls : ServiceAnswer(c)
<1>1. /\ RunnerInv /\ RunnerInv' /\ cancelled \subseteq Calls
      /\ joined \in [Calls -> Calls \cup {None}]
  BY DEF IndInv, RunnerInv, RunnerTypeOK
<1>2. ASSUME NEW c \in Calls, UNCHANGED poolVars,
             \/ Process(c) \/ Join(c) \/ Lead(c) \/ WaitCancelled(c) \/ EvaluateResidual(c)
             \/ Cancel(c) \/ Forget(c) \/ Deliver(c)
      PROVE  QuietStep \/ ServiceAnswer(c)
  <2>1. UNCHANGED closed
    BY <1>2 DEF poolVars
  <2>2. CASE Process(c)
    <3>1. UNCHANGED joined
      BY <2>2 DEF Process
    <3>2. QED
      BY <1>1, <2>1, <2>2, <3>1, ProcessAnswers DEF QuietStep, ServiceAnswer
  <2>3. CASE Join(c) \/ Lead(c) \/ Cancel(c) \/ Forget(c) \/ Deliver(c)
    <3>1. \A d \in Calls : pc[d] = "done" => joined'[d] = joined[d]
      BY <1>1, <2>3 DEF Join, Lead, Cancel, Forget, Deliver
    <3>2. QED
      BY <1>1, <2>1, <2>3, <3>1, SilentCall DEF QuietStep
  <2>4. CASE WaitCancelled(c)
    <3>1. UNCHANGED joined /\ c \in cancelled /\ AnswerStep(c, 0)
      BY <1>1, <2>4, CancelledAnswers DEF WaitCancelled
    <3>2. QED
      BY <2>1, <3>1 DEF ServiceAnswer, Excused
  <2>5. CASE EvaluateResidual(c)
    <3>1. UNCHANGED joined /\ AnswerStep(c, FirstMatch(rules[c], token[c]))
      BY <1>1, <2>5, ResidualAnswers DEF EvaluateResidual
    <3>2. QED
      BY <2>1, <3>1 DEF ServiceAnswer
  <2>6. QED
    BY <1>2, <2>2, <2>3, <2>4, <2>5
<1>3. ASSUME NEW c \in Calls, CallStep(c) \/ (UNCHANGED poolVars /\ (Process(c) \/ Cancel(c)))
      PROVE  QuietStep \/ ServiceAnswer(c)
  BY <1>2, <1>3, ReceiveAnswers DEF CallStep
<1>4. ASSUME NEW l \in Calls, FlightStep(l)
      PROVE  QuietStep \/ ServiceAnswer(l)
  <2>1. CASE Submit(l) \/ SubmitFails(l) \/ Collect(l) \/ CollectCancelled(l) \/ FlightSave(l)
    BY <1>1, <2>1 DEF Submit, SubmitFails, Collect, CollectCancelled, FlightSave, runnerVars,
                      poolVars, callVars, SilentStep, QuietStep
  <2>2. QED
    BY <1>2, <1>4, <2>1 DEF FlightStep
<1>5. ASSUME NEW l \in Calls, NEW e \in Entities, WorkerStep(l, e)
      PROVE  QuietStep
  BY <1>1, <1>5 DEF WorkerStep, BeginTask, FinishTask, PanicTask, runnerVars, SilentStep, QuietStep
<1>6. ASSUME NEW t \in Tokens, UNCHANGED poolVars /\ (Expire(t) \/ Invalidate(t))
      PROVE  QuietStep
  <2>1. UNCHANGED <<joined, closed>>
    BY <1>6 DEF poolVars, Expire, Invalidate
  <2>2. QED
    BY <1>1, <1>6, <2>1, SilentStore DEF QuietStep
<1>7. CASE Stop \/ Quiescent \/ UNCHANGED vars
  BY <1>1, <1>7 DEF Stop, Quiescent, vars, runnerVars, poolVars, SilentStep, QuietStep
<1>8. QED
  BY <1>3, <1>4, <1>5, <1>6, <1>7 DEF Next

\* With one matcher per entity a waiter whose context is not done, on a pool
\* that is not closed, returns the first rule in order, whatever its leader
\* had collected when it left.
THEOREM WaitersAnswerFirstMatch ==
    ASSUME EntityDetermined
    PROVE  Spec => []WaiterAnswersFirstMatch
<1>1. Init => WaiterAnswersFirstMatch
  BY DEF Init, RunnerInit, WaiterAnswersFirstMatch
<1>2. IndInv /\ IndInv' /\ WaiterAnswersFirstMatch /\ [Next]_vars => WaiterAnswersFirstMatch'
  <2> SUFFICES ASSUME IndInv, IndInv', WaiterAnswersFirstMatch, [Next]_vars,
                      NEW d \in Calls, pc'[d] = "done", joined'[d] # d, d \notin Excused'
               PROVE  returned'[d] = FirstMatch(rules'[d], token'[d])
    BY DEF WaiterAnswersFirstMatch
  <2>1. pc \in [Calls -> Locations] /\ returned \in [Calls -> Nat]
    BY DEF IndInv, RunnerInv, RunnerTypeOK
  <2>2. CASE QuietStep
    <3>1. /\ pc[d] = "done" /\ joined'[d] = joined[d] /\ d \notin Excused
          /\ UNCHANGED <<rules, token, returned>>
      BY <2>2 DEF QuietStep, SilentStep, Excused
    <3>2. QED
      BY <3>1 DEF WaiterAnswersFirstMatch
  <2>3. ASSUME NEW c \in Calls, ServiceAnswer(c)
        PROVE  returned'[d] = FirstMatch(rules'[d], token'[d])
    <3>1. /\ UNCHANGED <<rules, token, joined, cancelled, closed>>
          /\ d \notin Excused /\ d \notin cancelled
          /\ pc' = [pc EXCEPT ![c] = "done"]
      BY <2>3 DEF ServiceAnswer, AnswerStep, Excused
    <3>2. CASE d = c
      <4>1. returned' = [returned EXCEPT ![c] = FirstMatch(rules[c], token[c])]
        BY <2>3, <3>1, <3>2 DEF ServiceAnswer, AnswerStep
      <4>2. QED
        BY <2>1, <3>1, <3>2, <4>1
    <3>3. CASE d # c
      <4>1. pc[d] = "done"
        BY <2>1, <3>1, <3>3
      <4>2. returned'[d] = returned[d]
        BY <2>1, <2>3, <3>3 DEF ServiceAnswer, AnswerStep
      <4>3. QED
        BY <3>1, <4>1, <4>2 DEF WaiterAnswersFirstMatch
    <3>4. QED
      BY <3>2, <3>3
  <2>4. QED
    BY <2>2, <2>3, NextAnswers
<1>3. QED
  BY <1>1, <1>2, Invariance, PTL DEF Spec

\* With one matcher per entity the concurrent runner implements the abstract
\* service in any order: a call answers once, with a rule that applies if one
\* does, or with nothing when its context is done or the pool is closed.
THEOREM Refinement ==
    ASSUME EntityDetermined
    PROVE  Spec => ImplementsService
<1> DEFINE done == {c \in Calls : pc[c] = "done"}
<1>1. Init => Service!Init
  BY DEF Init, RunnerInit, Service!Init, Excused
<1>2. ASSUME NEW rs, NEW t
      PROVE  /\ Service!FirstMatch(rs, t) = FirstMatch(rs, t)
             /\ Service!Matching(rs, t) = Matching(rs, t)
  BY DEF Service!FirstMatch, FirstMatch, Service!Matching, Matching,
         Service!LeastIndex, LeastIndex, Service!isException, isException
<1>3. IndInv /\ IndInv' /\ [Next]_vars => [Service!Next]_(Service!vars)
  <2> SUFFICES ASSUME IndInv, IndInv', [Next]_vars
               PROVE  [Service!Next]_(Service!vars)
    OBVIOUS
  <2>1. /\ pc \in [Calls -> Locations] /\ pc' \in [Calls -> Locations]
        /\ cancelled \subseteq Calls /\ rules \in [Calls -> RuleLists]
    BY DEF IndInv, RunnerInv, RunnerTypeOK
  <2>2. CASE QuietStep
    <3>1. done' = done
      BY <2>2 DEF QuietStep, SilentStep
    <3>2. Excused \subseteq Excused' /\ Excused' \subseteq Calls
      BY <2>2 DEF QuietStep, SilentStep, Excused
    <3>3. Excused' = Excused \cup Excused' /\ Excused' \in SUBSET Calls
      BY <3>2
    <3>4. Service!Excuse
      BY <2>2, <3>1, <3>3 DEF QuietStep, SilentStep, Service!Excuse
    <3>5. QED
      BY <3>4 DEF Service!Next
  <2>3. ASSUME NEW c \in Calls, ServiceAnswer(c)
        PROVE  Service!Answer(c)
    <3>1. /\ UNCHANGED <<rules, token, cancelled, closed>>
          /\ pc[c] # "done" /\ pc' = [pc EXCEPT ![c] = "done"]
      BY <2>3 DEF ServiceAnswer, AnswerStep
    <3>2. c \notin done /\ done' = done \cup {c}
      BY <2>1, <3>1
    <3>3. Excused' = Excused
      BY <3>1 DEF Excused
    <3>4. /\ FirstMatch(rules[c], token[c]) \in Service!Answers(c)
          /\ Matching(rules[c], token[c]) \subseteq Service!Answers(c)
      <4>1. rules[c] \in RuleLists
        BY <2>1
      <4>2. Matching(rules[c], token[c]) # {} =>
                FirstMatch(rules[c], token[c]) \in Matching(rules[c], token[c])
        BY <4>1, FirstMatchApplies
      <4>3. QED
        BY <1>2, <4>2 DEF Service!Answers
    <3>5. \E a \in Service!Answers(c) \cup (IF c \in Excused THEN {0} ELSE {}) :
              returned' = [returned EXCEPT ![c] = a]
      BY <2>3, <3>4 DEF ServiceAnswer, AnswerStep
    <3>6. QED
      BY <3>1, <3>2, <3>3, <3>5 DEF Service!Answer
  <2>4. QED
    BY <2>2, <2>3, NextAnswers DEF Service!Next
<1>4. QED
  BY <1>1, <1>3, Invariance, PTL DEF Spec, ImplementsService, Service!Spec

=============================================================================
