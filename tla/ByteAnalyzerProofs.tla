------------------------- MODULE ByteAnalyzerProofs -------------------------
(***************************************************************************)
(* Proofs about ByteAnalyzer and the factory that builds it, for every set *)
(* of calls, documents and options: any number of tokens, workers, panics, *)
(* failed constructions and retries, with Stop and cancellation at any     *)
(* time.                                                                   *)
(***************************************************************************)
EXTENDS AnalyzerFactory, FiniteSetTheorems, SequenceTheorems, Induction, TLAPS

-----------------------------------------------------------------------------
(* The analyzer's inductive invariant.                                     *)

\* The tokens of a call that a worker, or the loop, has taken up and not
\* finished.
Open(c) == {i \in 1..MaxTokens : task[c][i] \notin {"none", "finished"}}

\* The tokens before the iterator's position have been taken up, in the loop
\* one after the other, and the WaitGroup counts those a worker still has.
TasksOK(c) ==
    /\ next[c] <= Len(Tokens(c)) + 1
    /\ \A i \in 1..MaxTokens : task[c][i] = "none" <=> i >= next[c]
    /\ pools.token = 0 => \A i \in 1..MaxTokens : i + 1 < next[c] => task[c][i] = "finished"
    /\ wg[c] = IF pools.token > 0 THEN Cardinality(Open(c)) ELSE 0

\* A call that has left has no token open; it has looked at every token unless
\* it had no rules or the pool was released under it.
CallOK(c) ==
    /\ pc[c] = "idle" => next[c] = 1
    /\ pc[c] = "loop" => pools.token = 0
    /\ pc[c] \in {"submit", "wait"} => pools.token > 0
    /\ pc[c] \in {"done", "panicked"} => Open(c) = {}
    /\ pc[c] = "wait" => poolClosed \/ next[c] = Len(Tokens(c)) + 1
    /\ pc[c] = "done" =>
           ~doc[c].anyRules \/ poolClosed \/ next[c] = Len(Tokens(c)) + 1

\* The actions are matches, the entities are theirs, and unless the call is
\* excused every finished match is among them.
ActionsOK(c) ==
    /\ Range(actions[c]) \subseteq Matched(doc[c])
    /\ entities[c] = {Tokens(c)[i].rule.entity : i \in Range(actions[c])}
    /\ \/ Excused(c)
       \/ \A i \in Matched(doc[c]) : task[c][i] = "finished" => i \in Range(actions[c])

AnalyzerOK(c) == TasksOK(c) /\ CallOK(c) /\ ActionsOK(c)

\* The types without the bound on the WaitGroup, which follows.
VarTypes ==
    /\ pools \in Pools
    /\ doc \in [Calls -> Documents]
    /\ pc \in [Calls -> {"idle", "loop", "submit", "wait", "done", "panicked"}]
    /\ next \in [Calls -> 1..(MaxTokens + 1)]
    /\ task \in [Calls -> [1..MaxTokens -> TaskStates]]
    /\ wg \in [Calls -> Int]
    /\ actions \in [Calls -> Seq(1..MaxTokens)]
    /\ entities \in [Calls -> SUBSET STRING]
    /\ cancelled \subseteq Calls
    /\ runnerClosed \in BOOLEAN /\ poolClosed \in BOOLEAN
    /\ afterStop \subseteq Calls

AnalyzerInv == VarTypes /\ \A c \in Calls : AnalyzerOK(c)

\* What Append adds to what a sequence holds.
LEMMA RangeOfAppend ==
    ASSUME NEW S, NEW s \in Seq(S), NEW e \in S
    PROVE  Range(Append(s, e)) = Range(s) \cup {e}
<1>1. /\ Len(s) \in Nat /\ DOMAIN s = 1..Len(s)
      /\ DOMAIN Append(s, e) = 1..(Len(s) + 1)
      /\ \A k \in 1..Len(s) : Append(s, e)[k] = s[k]
      /\ Append(s, e)[Len(s) + 1] = e
  BY AppendProperties, LenProperties
<1>2. 1..(Len(s) + 1) = (1..Len(s)) \cup {Len(s) + 1}
  BY <1>1
<1>3. QED
  BY <1>1, <1>2 DEF Range

\* What a document's tokens are numbered by; an empty one has none.
LEMMA DocumentFacts ==
    ASSUME VarTypes, NEW c \in Calls
    PROVE  /\ Len(Tokens(c)) \in 0..MaxTokens
           /\ DOMAIN Tokens(c) = 1..Len(Tokens(c))
           /\ doc[c].len = 0 => Len(Tokens(c)) = 0
           /\ \A i \in 1..Len(Tokens(c)) : Tokens(c)[i].rule \in Settings \cup {NoRule, Panics}
           /\ Matched(doc[c]) \subseteq 1..MaxTokens
           /\ pools.token \in Nat /\ pools.runner \in Nat
<1>1. doc[c] \in Documents /\ IsDocument(doc[c])
  BY DocumentsAssumption DEF VarTypes
<1>2. Tokens(c) \in Seq(Token) /\ doc[c].len \in Nat
  BY <1>1 DEF IsDocument, Tokens
<1>3. Len(Tokens(c)) \in Nat /\ DOMAIN Tokens(c) = 1..Len(Tokens(c))
  BY <1>2
<1>4. Len(Tokens(c)) <= MaxTokens /\ MaxTokens \in Nat
  BY <1>1, LongestDocument DEF Tokens
<1>5. \A i \in 1..Len(Tokens(c)) : Tokens(c)[i] \in Token
  BY <1>2, <1>3
<1>6. \A i \in 1..Len(Tokens(c)) :
          Tokens(c)[i].rule \in Settings \cup {NoRule, Panics} /\ Tokens(c)[i].start \in Nat
            /\ Tokens(c)[i].end \in Nat
  BY <1>5 DEF Token
<1>7. \A i \in 1..Len(Tokens(c)) :
          Tokens(c)[i].start < Tokens(c)[i].end /\ Tokens(c)[i].end <= doc[c].len
  BY <1>1, <1>3 DEF IsDocument, Tokens
<1>8. doc[c].len = 0 => Len(Tokens(c)) = 0
  <2> SUFFICES ASSUME doc[c].len = 0, Len(Tokens(c)) # 0 PROVE FALSE
    OBVIOUS
  <2>1. 1 \in 1..Len(Tokens(c))
    BY <1>3
  <2>2. QED
    BY <1>6, <1>7, <2>1
<1>9. pools.token \in Nat /\ pools.runner \in Nat
  BY PoolsAssumption DEF VarTypes
<1>10. Matched(doc[c]) \subseteq 1..MaxTokens
  BY <1>3, <1>4 DEF Matched, Tokens
<1>11. QED
  BY <1>3, <1>4, <1>6, <1>8, <1>9, <1>10

\* The tokens that are open are finitely many.
LEMMA OpenFinite ==
    ASSUME NEW c \in Calls
    PROVE  /\ IsFiniteSet(Open(c))
           /\ Cardinality(Open(c)) \in 0..MaxTokens
           /\ Cardinality(Open(c)) = 0 <=> Open(c) = {}
<1>1. IsFiniteSet(1..MaxTokens) /\ Cardinality(1..MaxTokens) = MaxTokens /\ MaxTokens \in Nat
  BY LongestDocument, FS_Interval
<1>2. Open(c) \in SUBSET (1..MaxTokens)
  BY DEF Open
<1>3. IsFiniteSet(Open(c)) /\ Cardinality(Open(c)) <= MaxTokens
  BY <1>1, <1>2, FS_Subset
<1>4. Cardinality(Open(c)) \in Nat
  BY <1>3, FS_CardinalityType
<1>5. Cardinality(Open(c)) = 0 <=> Open(c) = {}
  BY <1>3, FS_EmptySet
<1>6. QED
  BY <1>1, <1>3, <1>4, <1>5

\* The invariant gives the types the analyzer states: no WaitGroup is negative.
LEMMA TypesFollow ==
    ASSUME AnalyzerInv
    PROVE  TypeOK
<1>1. wg \in [Calls -> 0..MaxTokens]
  <2> SUFFICES ASSUME NEW c \in Calls PROVE wg[c] \in 0..MaxTokens
    BY DEF AnalyzerInv, VarTypes
  <2>1. wg[c] = IF pools.token > 0 THEN Cardinality(Open(c)) ELSE 0
    BY DEF AnalyzerInv, AnalyzerOK, TasksOK
  <2>2. QED
    BY <2>1, OpenFinite, LongestDocument
<1>2. ASSUME NEW c \in Calls PROVE Range(actions[c]) \subseteq 1..MaxTokens
  <2>1. actions[c] \in Seq(1..MaxTokens)
    BY DEF AnalyzerInv, VarTypes
  <2>2. QED
    BY <2>1, RangeOfSeq
<1>3. QED
  BY <1>1, <1>2 DEF AnalyzerInv, VarTypes, TypeOK

\* A call keeps its part of the invariant in a step that leaves its own state
\* alone; contexts may end and pools be released.
LEMMA CallKept ==
    ASSUME NEW c \in Calls, AnalyzerOK(c), UNCHANGED <<pools, doc>>,
           pc'[c] = pc[c], next'[c] = next[c], task'[c] = task[c], wg'[c] = wg[c],
           actions'[c] = actions[c], entities'[c] = entities[c],
           cancelled \subseteq cancelled', runnerClosed => runnerClosed', poolClosed => poolClosed'
    PROVE  AnalyzerOK(c)'
<1>1. Open(c)' = Open(c)
  BY DEF Open
<1>2. TasksOK(c)'
  BY <1>1 DEF AnalyzerOK, TasksOK, Tokens
<1>3. CallOK(c)'
  BY <1>1 DEF AnalyzerOK, CallOK, Tokens
<1>4. ActionsOK(c)'
  BY DEF AnalyzerOK, ActionsOK, Tokens, Excused
<1>5. QED
  BY <1>2, <1>3, <1>4 DEF AnalyzerOK

\* The other calls keep theirs in a step of call c.
LEMMA OthersKept ==
    ASSUME AnalyzerInv, NEW c \in Calls, UNCHANGED <<pools, doc, cancelled, stopVars>>,
           \A b \in Calls \ {c} :
               /\ pc'[b] = pc[b] /\ next'[b] = next[b] /\ task'[b] = task[b] /\ wg'[b] = wg[b]
               /\ actions'[b] = actions[b] /\ entities'[b] = entities[b],
           VarTypes', AnalyzerOK(c)'
    PROVE  AnalyzerInv'
<1>1. ASSUME NEW b \in Calls, b # c PROVE AnalyzerOK(b)'
  <2>1. /\ pc'[b] = pc[b] /\ next'[b] = next[b] /\ task'[b] = task[b] /\ wg'[b] = wg[b]
        /\ actions'[b] = actions[b] /\ entities'[b] = entities[b]
    BY <1>1
  <2>2. UNCHANGED <<pools, doc>> /\ cancelled \subseteq cancelled'
            /\ (runnerClosed => runnerClosed') /\ (poolClosed => poolClosed')
    BY DEF stopVars
  <2>3. AnalyzerOK(b)
    BY DEF AnalyzerInv
  <2>4. QED
    BY <2>1, <2>2, <2>3, CallKept
<1>2. QED
  BY <1>1 DEF AnalyzerInv

\* A call starts: an empty document has no tokens to wait for.
LEMMA AnonymizeInv ==
    ASSUME AnalyzerInv, NEW c \in Calls, Anonymize(c)
    PROVE  AnalyzerInv'
<1> USE DEF AnalyzerInv
<1>1. VarTypes'
  BY DEF VarTypes, Anonymize, stopVars
<1>2. UNCHANGED <<pools, doc, next, wg, task, actions, entities, cancelled, runnerClosed, poolClosed>>
  BY DEF Anonymize, stopVars
<1>3. Open(c)' = Open(c) /\ Open(c) = {}
  <2>1. Open(c)' = Open(c)
    BY <1>2 DEF Open
  <2>2. \A i \in 1..MaxTokens : task[c][i] = "none"
    BY DEF AnalyzerOK, TasksOK, CallOK, Anonymize
  <2>3. QED
    BY <2>1, <2>2 DEF Open
<1>4. TasksOK(c)'
  BY <1>2, <1>3 DEF AnalyzerOK, TasksOK, Tokens
<1>5. ActionsOK(c)'
  BY <1>2 DEF AnalyzerOK, ActionsOK, Tokens, Excused
<1>6. CallOK(c)'
  <2>1. pc'[c] = IF doc[c].len = 0 \/ ~doc[c].anyRules THEN "done"
                 ELSE IF pools.token > 0 THEN "submit" ELSE "loop"
    BY DEF Anonymize, VarTypes
  <2>2. next[c] = 1
    BY DEF AnalyzerOK, CallOK, Anonymize
  <2>3. pools.token \in Nat /\ (doc[c].len = 0 => Len(Tokens(c)) = 0)
    BY DocumentFacts
  <2>4. Tokens(c)' = Tokens(c)
    BY <1>2 DEF Tokens
  <2>5. pc'[c] = "done" => ~doc[c].anyRules \/ next[c] = Len(Tokens(c)) + 1
    BY <2>1, <2>2, <2>3
  <2>6. (pc'[c] = "loop" => pools.token = 0) /\ (pc'[c] \in {"submit", "wait"} => pools.token > 0)
    BY <2>1, <2>3
  <2>7. pc'[c] \in {"done", "submit", "loop"}
    BY <2>1
  <2>8. QED
    BY <1>2, <1>3, <2>4, <2>5, <2>6, <2>7 DEF CallOK
<1>7. \A b \in Calls \ {c} :
          /\ pc'[b] = pc[b] /\ next'[b] = next[b] /\ task'[b] = task[b] /\ wg'[b] = wg[b]
          /\ actions'[b] = actions[b] /\ entities'[b] = entities[b]
  BY <1>2 DEF Anonymize, VarTypes
<1>8. AnalyzerOK(c)'
  BY <1>4, <1>5, <1>6 DEF AnalyzerOK
<1>9. QED
  BY <1>1, <1>2, <1>7, <1>8, OthersKept DEF stopVars

\* The next token is taken up, by the loop or by a worker.
LEMMA TakenUpInv ==
    ASSUME AnalyzerInv, NEW c \in Calls, NEW s \in {"process", "accepted"},
           pc[c] \in {"loop", "submit"}, next[c] <= Len(Tokens(c)),
           pools.token = 0 => (next[c] > 1 => task[c][next[c] - 1] = "finished"),
           task' = [task EXCEPT ![c][next[c]] = s],
           next' = [next EXCEPT ![c] = @ + 1],
           wg' = [wg EXCEPT ![c] = IF pools.token > 0 THEN @ + 1 ELSE @],
           UNCHANGED <<pools, doc, pc, actions, entities, cancelled, stopVars, afterStop>>
    PROVE  AnalyzerInv'
<1> DEFINE n == next[c]
<1> USE DEF AnalyzerInv
<1>1. /\ n \in 1..MaxTokens /\ n + 1 \in 1..(MaxTokens + 1) /\ MaxTokens \in Nat
      /\ Len(Tokens(c)) \in 0..MaxTokens /\ pools.token \in Nat
  BY DocumentFacts, LongestDocument DEF VarTypes
<1>2. /\ next'[c] = n + 1
      /\ task'[c] = [task[c] EXCEPT ![n] = s]
      /\ wg'[c] = IF pools.token > 0 THEN wg[c] + 1 ELSE wg[c]
      /\ \A i \in 1..MaxTokens : task'[c][i] = IF i = n THEN s ELSE task[c][i]
  BY <1>1 DEF VarTypes
<1>3. VarTypes'
  <2>1. next' \in [Calls -> 1..(MaxTokens + 1)]
    BY <1>1 DEF VarTypes
  <2>2. s \in TaskStates
    BY DEF TaskStates
  <2>3. task' \in [Calls -> [1..MaxTokens -> TaskStates]]
    BY <1>1, <2>2 DEF VarTypes
  <2>4. wg' \in [Calls -> Int]
    BY DEF VarTypes
  <2>5. QED
    BY <2>1, <2>3, <2>4 DEF VarTypes, stopVars
<1>4. /\ TasksOK(c) /\ CallOK(c) /\ ActionsOK(c)
      /\ Tokens(c)' = Tokens(c) /\ pc'[c] = pc[c]
      /\ UNCHANGED <<pools, doc, actions, entities, cancelled, runnerClosed, poolClosed>>
  BY DEF AnalyzerOK, Tokens, stopVars
<1>5. task[c][n] = "none"
  BY <1>1, <1>4 DEF TasksOK
<1> HIDE DEF n
<1>6. Open(c)' = Open(c) \cup {n} /\ n \notin Open(c)
  BY <1>1, <1>2, <1>5 DEF Open
<1>7. TasksOK(c)'
  <2>1. next'[c] <= Len(Tokens(c)) + 1
    BY <1>1, <1>2 DEF n
  <2>2. ASSUME NEW i \in 1..MaxTokens PROVE task'[c][i] = "none" <=> i >= next'[c]
    <3>1. task[c][i] = "none" <=> i >= n
      BY <1>4 DEF TasksOK, n
    <3>2. QED
      BY <3>1, <1>1, <1>2
  <2>3. ASSUME pools.token = 0, NEW i \in 1..MaxTokens, i + 1 < next'[c]
        PROVE  task'[c][i] = "finished"
    <3>1. i < n
      BY <2>3, <1>1, <1>2
    <3>2. CASE i + 1 < n
      BY <3>2, <2>3, <3>1, <1>1, <1>2, <1>4 DEF TasksOK, n
    <3>3. CASE i + 1 = n
      <4>1. i = n - 1 /\ n > 1
        BY <3>3, <1>1
      <4>2. task[c][n - 1] = "finished"
        BY <4>1, <2>3 DEF n
      <4>3. QED
        BY <4>1, <4>2, <3>1, <1>2
    <3>4. QED
      BY <3>1, <3>2, <3>3, <1>1
  <2>4. wg'[c] = IF pools.token > 0 THEN Cardinality(Open(c)') ELSE 0
    <3>1. Cardinality(Open(c) \cup {n}) = Cardinality(Open(c)) + 1
      BY <1>6, OpenFinite, FS_AddElement
    <3>2. wg[c] = IF pools.token > 0 THEN Cardinality(Open(c)) ELSE 0
      BY <1>4 DEF TasksOK
    <3>3. QED
      BY <3>1, <3>2, <1>2, <1>6
  <2>5. QED
    BY <2>1, <2>2, <2>3, <2>4, <1>4 DEF TasksOK
<1>8. CallOK(c)'
  BY <1>4 DEF CallOK
<1>9. ActionsOK(c)'
  <2>1. ASSUME NEW i \in Matched(doc[c]), task'[c][i] = "finished" PROVE task[c][i] = "finished"
    <3>1. i \in 1..MaxTokens
      BY DocumentFacts
    <3>2. QED
      BY <3>1, <2>1, <1>2
  <2>2. QED
    BY <2>1, <1>4 DEF ActionsOK, Excused
<1>10. \A b \in Calls \ {c} :
          /\ pc'[b] = pc[b] /\ next'[b] = next[b] /\ task'[b] = task[b] /\ wg'[b] = wg[b]
          /\ actions'[b] = actions[b] /\ entities'[b] = entities[b]
  BY DEF VarTypes
<1>11. QED
  BY <1>3, <1>4, <1>7, <1>8, <1>9, <1>10, OthersKept DEF AnalyzerOK, stopVars

\* A call waits, or leaves, with its tokens as they are.
LEMMA CallMovesInv ==
    ASSUME AnalyzerInv, NEW c \in Calls, NEW s \in {"wait", "done"},
           pc[c] \notin {"idle", "done", "panicked"},
           s = "wait" => pools.token > 0,
           s = "done" => Open(c) = {},
           poolClosed \/ next[c] = Len(Tokens(c)) + 1,
           pc' = [pc EXCEPT ![c] = s],
           UNCHANGED <<pools, doc, next, wg, task, actions, entities, cancelled, stopVars, afterStop>>
    PROVE  AnalyzerInv'
<1> USE DEF AnalyzerInv
<1>1. VarTypes' /\ pc'[c] = s
  BY DEF VarTypes, stopVars
<1>2. UNCHANGED <<pools, doc, next, wg, task, actions, entities, cancelled, runnerClosed, poolClosed>>
  BY DEF stopVars
<1>3. Open(c)' = Open(c) /\ Tokens(c)' = Tokens(c)
  BY <1>2 DEF Open, Tokens
<1>4. TasksOK(c)'
  BY <1>2, <1>3 DEF AnalyzerOK, TasksOK
<1>5. CallOK(c)'
  BY <1>1, <1>2, <1>3 DEF CallOK
<1>6. ActionsOK(c)'
  BY <1>2, <1>3 DEF AnalyzerOK, ActionsOK, Excused
<1>7. \A b \in Calls \ {c} :
          /\ pc'[b] = pc[b] /\ next'[b] = next[b] /\ task'[b] = task[b] /\ wg'[b] = wg[b]
          /\ actions'[b] = actions[b] /\ entities'[b] = entities[b]
  BY <1>2 DEF VarTypes
<1>8. QED
  BY <1>1, <1>2, <1>4, <1>5, <1>6, <1>7, OthersKept DEF AnalyzerOK, stopVars

\* The loop is left when its last token is finished: none is open.
LEMMA LoopDoneInv ==
    ASSUME AnalyzerInv, NEW c \in Calls, LoopDone(c)
    PROVE  AnalyzerInv'
<1> USE DEF AnalyzerInv
<1>1. TasksOK(c) /\ CallOK(c) /\ next[c] \in 1..(MaxTokens + 1) /\ MaxTokens \in Nat
  BY LongestDocument DEF AnalyzerOK, VarTypes
<1>2. pools.token = 0 /\ next[c] = Len(Tokens(c)) + 1
  BY <1>1, DocumentFacts DEF LoopDone, TasksOK, CallOK
<1>3. ASSUME NEW i \in 1..MaxTokens PROVE task[c][i] \in {"none", "finished"}
  <2>1. CASE i >= next[c]
    BY <2>1, <1>1 DEF TasksOK
  <2>2. CASE i + 1 < next[c]
    BY <2>2, <1>1, <1>2 DEF TasksOK
  <2>3. CASE i + 1 = next[c]
    <3>1. i = next[c] - 1 /\ next[c] > 1
      BY <2>3, <1>1
    <3>2. QED
      BY <3>1 DEF LoopDone
  <2>4. QED
    BY <2>1, <2>2, <2>3, <1>1
<1>4. Open(c) = {}
  BY <1>3 DEF Open
<1>5. QED
  BY <1>2, <1>4, CallMovesInv DEF LoopDone, Finish

\* wg.Wait returns only when no token is open.
LEMMA WaitDoneInv ==
    ASSUME AnalyzerInv, NEW c \in Calls, WaitDone(c)
    PROVE  AnalyzerInv'
<1>1. TasksOK(c) /\ CallOK(c) /\ wg[c] = 0 /\ pc[c] = "wait"
  BY DEF AnalyzerInv, AnalyzerOK, WaitDone, WgWait
<1>2. pools.token > 0 /\ (poolClosed \/ next[c] = Len(Tokens(c)) + 1)
  BY <1>1 DEF CallOK
<1>3. Cardinality(Open(c)) = 0
  BY <1>1, <1>2 DEF TasksOK
<1>4. Open(c) = {}
  BY <1>3, OpenFinite
<1>5. QED
  BY <1>1, <1>2, <1>4, CallMovesInv DEF WaitDone, Finish

\* Every token has been submitted, or the pool is released.
LEMMA SubmitDoneInv ==
    ASSUME AnalyzerInv, NEW c \in Calls, SubmitDone(c)
    PROVE  AnalyzerInv'
<1>1. TasksOK(c) /\ CallOK(c) /\ VarTypes
  BY DEF AnalyzerInv, AnalyzerOK
<1>2. pools.token > 0
  BY <1>1 DEF CallOK, SubmitDone
<1>3. poolClosed \/ next[c] = Len(Tokens(c)) + 1
  BY <1>1, DocumentFacts DEF TasksOK, SubmitDone, VarTypes
<1>4. QED
  BY <1>2, <1>3, CallMovesInv DEF SubmitDone

\* A token stays open: a worker begins it, the runner takes it, or its matcher
\* panics in the runner's pool.
LEMMA TaskMovesInv ==
    ASSUME AnalyzerInv, NEW c \in Calls, NEW i \in 1..MaxTokens,
           NEW s \in TaskStates \ {"none", "finished"}, task[c][i] \notin {"none", "finished"},
           task' = [task EXCEPT ![c][i] = s],
           UNCHANGED <<callVars, actions, entities, cancelled, stopVars>>
    PROVE  AnalyzerInv'
<1> USE DEF AnalyzerInv
<1>1. VarTypes'
  BY DEF VarTypes, callVars, stopVars
<1>2. UNCHANGED <<pools, doc, pc, next, wg, actions, entities, cancelled, runnerClosed, poolClosed>>
  BY DEF callVars, stopVars
<1>3. \A j \in 1..MaxTokens : task'[c][j] = IF j = i THEN s ELSE task[c][j]
  BY DEF VarTypes
<1>4. /\ \A j \in 1..MaxTokens : task'[c][j] = "none" <=> task[c][j] = "none"
      /\ \A j \in 1..MaxTokens : task'[c][j] = "finished" <=> task[c][j] = "finished"
  BY <1>3
<1>5. Open(c)' = Open(c) /\ Tokens(c)' = Tokens(c)
  BY <1>2, <1>4 DEF Open, Tokens
<1>6. TasksOK(c)'
  BY <1>2, <1>4, <1>5 DEF AnalyzerOK, TasksOK
<1>7. CallOK(c)'
  BY <1>2, <1>5 DEF AnalyzerOK, CallOK
<1>8. ActionsOK(c)'
  <2>1. Matched(doc[c]) \subseteq 1..MaxTokens
    BY DocumentFacts
  <2>2. QED
    BY <1>2, <1>4, <1>5, <2>1 DEF AnalyzerOK, ActionsOK, Excused
<1>9. \A b \in Calls \ {c} :
          /\ pc'[b] = pc[b] /\ next'[b] = next[b] /\ task'[b] = task[b] /\ wg'[b] = wg[b]
          /\ actions'[b] = actions[b] /\ entities'[b] = entities[b]
  BY <1>2 DEF VarTypes
<1>10. QED
  BY <1>1, <1>2, <1>6, <1>7, <1>8, <1>9, OthersKept DEF AnalyzerOK, stopVars

\* An open token is finished: its call has not left, and without a token pool
\* it is the last one the loop took up.
LEMMA TaskEnds ==
    ASSUME AnalyzerInv, NEW c \in Calls, NEW i \in 1..MaxTokens,
           task[c][i] \notin {"none", "finished"},
           task' = [task EXCEPT ![c][i] = "finished"]
    PROVE  /\ pc[c] \in {"loop", "submit", "wait"}
           /\ task' \in [Calls -> [1..MaxTokens -> TaskStates]]
           /\ \A j \in 1..MaxTokens : task'[c][j] = IF j = i THEN "finished" ELSE task[c][j]
           /\ \A b \in Calls \ {c} : task'[b] = task[b]
           /\ Open(c)' = Open(c) \ {i} /\ i \in Open(c)
           /\ Cardinality(Open(c)') = Cardinality(Open(c)) - 1
           /\ pools.token = 0 => Open(c) = {i}
<1> USE DEF AnalyzerInv
<1>1. TasksOK(c) /\ CallOK(c) /\ VarTypes /\ next[c] \in Nat
  BY DEF AnalyzerOK, VarTypes
<1>2. /\ task' \in [Calls -> [1..MaxTokens -> TaskStates]]
      /\ \A j \in 1..MaxTokens : task'[c][j] = IF j = i THEN "finished" ELSE task[c][j]
      /\ \A b \in Calls \ {c} : task'[b] = task[b]
  BY DEF VarTypes, TaskStates
<1>3. i \in Open(c) /\ i < next[c]
  BY <1>1 DEF Open, TasksOK
<1>4. pc[c] \in {"loop", "submit", "wait"}
  BY <1>1, <1>3 DEF CallOK, VarTypes
<1>5. Open(c)' = Open(c) \ {i}
  BY <1>2 DEF Open
<1>6. Cardinality(Open(c) \ {i}) = Cardinality(Open(c)) - 1
  BY <1>3, OpenFinite, FS_RemoveElement
<1>7. ASSUME pools.token = 0, NEW j \in Open(c) PROVE j = i
  <2>1. ASSUME NEW k \in Open(c) PROVE k \in 1..MaxTokens /\ k + 1 = next[c]
    <3>1. k \in 1..MaxTokens /\ task[c][k] # "none" /\ task[c][k] # "finished"
      BY DEF Open
    <3>2. k < next[c] /\ ~(k + 1 < next[c])
      BY <3>1, <1>1, <1>7 DEF TasksOK
    <3>3. QED
      BY <3>1, <3>2, <1>1
  <2>2. QED
    BY <2>1, <1>3, <1>1
<1>8. QED
  BY <1>2, <1>3, <1>4, <1>5, <1>6, <1>7

\* An answer is recorded.  It may be none only where no rule matches, a matcher
\* panics, or the call is excused.
LEMMA RecordInv ==
    ASSUME AnalyzerInv, NEW c \in Calls, NEW i \in 1..MaxTokens, NEW answer,
           task[c][i] \notin {"none", "finished"}, Record(c, i, answer),
           answer = NoRule => Excused(c) \/ i \notin Matched(doc[c]),
           answer # NoRule => answer = Tokens(c)[i].rule /\ answer # Panics
    PROVE  AnalyzerInv'
<1> USE DEF AnalyzerInv
<1>1. /\ pc[c] \in {"loop", "submit", "wait"}
      /\ task' \in [Calls -> [1..MaxTokens -> TaskStates]]
      /\ \A j \in 1..MaxTokens : task'[c][j] = IF j = i THEN "finished" ELSE task[c][j]
      /\ \A b \in Calls \ {c} : task'[b] = task[b]
      /\ Open(c)' = Open(c) \ {i} /\ i \in Open(c)
      /\ Cardinality(Open(c)') = Cardinality(Open(c)) - 1
  BY TaskEnds DEF Record
<1>2. UNCHANGED <<pools, doc, pc, next, cancelled, runnerClosed, poolClosed, afterStop>>
  BY DEF Record, stopVars
<1>3. TasksOK(c) /\ CallOK(c) /\ ActionsOK(c) /\ VarTypes /\ Tokens(c)' = Tokens(c)
  BY <1>2 DEF AnalyzerOK, Tokens
<1>4. /\ i \in 1..Len(Tokens(c)) /\ i \in DOMAIN doc[c].tokens
      /\ Tokens(c)[i].rule \in Settings \cup {NoRule, Panics}
  <2>1. i < next[c] /\ next[c] <= Len(Tokens(c)) + 1
    BY <1>3 DEF TasksOK, VarTypes
  <2>2. i \in 1..Len(Tokens(c))
    BY <2>1, <1>3, DocumentFacts DEF VarTypes
  <2>3. QED
    BY <2>2, <1>3, DocumentFacts DEF Tokens
<1>5. /\ wg' \in [Calls -> Int]
      /\ wg'[c] = IF pools.token > 0 THEN wg[c] - 1 ELSE wg[c]
      /\ \A b \in Calls \ {c} : wg'[b] = wg[b]
  BY <1>3 DEF Record, WgDone, VarTypes
<1>6. /\ actions' \in [Calls -> Seq(1..MaxTokens)]
      /\ entities' \in [Calls -> SUBSET STRING]
      /\ \A b \in Calls \ {c} : actions'[b] = actions[b] /\ entities'[b] = entities[b]
      /\ IF answer = NoRule
         THEN actions'[c] = actions[c] /\ entities'[c] = entities[c]
         ELSE /\ Range(actions'[c]) = Range(actions[c]) \cup {i}
              /\ entities'[c] = entities[c] \cup {Tokens(c)[i].rule.entity}
              /\ i \in Matched(doc[c])
  <2>1. CASE answer = NoRule
    BY <2>1, <1>3 DEF Record, VarTypes
  <2>2. CASE answer # NoRule
    <3>1. /\ actions' = [actions EXCEPT ![c] = Append(@, i)]
          /\ entities' = [entities EXCEPT ![c] = @ \cup {Tokens(c)[i].rule.entity}]
      BY <2>2 DEF Record, Detect
    <3>2. Tokens(c)[i].rule \in Settings /\ i \in Matched(doc[c])
      BY <2>2, <1>4 DEF Matched, Tokens
    <3>3. Tokens(c)[i].rule.entity \in STRING
      BY <3>2 DEF Settings
    <3>4. actions[c] \in Seq(1..MaxTokens) /\ actions'[c] = Append(actions[c], i)
      BY <3>1, <1>3 DEF VarTypes
    <3>5. Append(actions[c], i) \in Seq(1..MaxTokens)
      BY <3>4, AppendProperties
    <3>6. actions' \in [Calls -> Seq(1..MaxTokens)] /\ \A b \in Calls \ {c} : actions'[b] = actions[b]
      BY <3>1, <3>5, <1>3 DEF VarTypes
    <3>7. /\ entities' \in [Calls -> SUBSET STRING]
          /\ entities'[c] = entities[c] \cup {Tokens(c)[i].rule.entity}
          /\ \A b \in Calls \ {c} : entities'[b] = entities[b]
      BY <3>1, <3>3, <1>3 DEF VarTypes
    <3>8. Range(actions'[c]) = Range(actions[c]) \cup {i}
      <4> DEFINE T == 1..MaxTokens
      <4>1. actions[c] \in Seq(T) /\ i \in T
        BY <3>4
      <4> HIDE DEF T
      <4>2. Range(Append(actions[c], i)) = Range(actions[c]) \cup {i}
        BY <4>1, RangeOfAppend
      <4>3. QED
        BY <4>2, <3>4
    <3>9. QED
      BY <2>2, <3>2, <3>6, <3>7, <3>8
  <2>3. QED
    BY <2>1, <2>2
<1>7. VarTypes'
  BY <1>1, <1>2, <1>3, <1>5, <1>6 DEF VarTypes
<1>8. TasksOK(c)'
  <2>1. wg'[c] = IF pools.token > 0 THEN Cardinality(Open(c)') ELSE 0
    <3>1. wg[c] = IF pools.token > 0 THEN Cardinality(Open(c)) ELSE 0
      BY <1>3 DEF TasksOK
    <3>2. QED
      BY <3>1, <1>1, <1>5
  <2>2. \A j \in 1..MaxTokens : task'[c][j] = "none" <=> j >= next[c]
    <3>1. i < next[c]
      BY <1>3 DEF TasksOK, VarTypes
    <3>2. QED
      BY <3>1, <1>1, <1>3 DEF TasksOK
  <2>3. pools.token = 0 => \A j \in 1..MaxTokens : j + 1 < next[c] => task'[c][j] = "finished"
    BY <1>1, <1>3 DEF TasksOK
  <2>4. next[c] <= Len(Tokens(c)) + 1
    BY <1>3 DEF TasksOK
  <2>5. QED
    BY <2>1, <2>2, <2>3, <2>4, <1>2, <1>3 DEF TasksOK
<1>9. CallOK(c)'
  BY <1>1, <1>2, <1>3 DEF CallOK
<1>10. ActionsOK(c)'
  <2>1. Range(actions'[c]) \subseteq Matched(doc[c])
    BY <1>3, <1>6 DEF ActionsOK
  <2>2. entities'[c] = {Tokens(c)[j].rule.entity : j \in Range(actions'[c])}
    <3>1. entities[c] = {Tokens(c)[j].rule.entity : j \in Range(actions[c])}
      BY <1>3 DEF ActionsOK
    <3>2. CASE answer = NoRule
      BY <3>1, <3>2, <1>6
    <3>3. CASE answer # NoRule
      BY <3>1, <3>3, <1>6
    <3>4. QED
      BY <3>2, <3>3
  <2>3. \/ Excused(c)
        \/ \A j \in Matched(doc[c]) : task'[c][j] = "finished" => j \in Range(actions'[c])
    <3> SUFFICES ASSUME ~Excused(c), NEW j \in Matched(doc[c]), task'[c][j] = "finished"
                 PROVE  j \in Range(actions'[c])
      OBVIOUS
    <3>1. CASE j = i
      BY <3>1, <1>6
    <3>2. CASE j # i
      <4>1. j \in 1..MaxTokens
        BY <1>3, DocumentFacts
      <4>2. task[c][j] = "finished"
        BY <4>1, <3>2, <1>1
      <4>3. j \in Range(actions[c])
        BY <4>2, <1>3 DEF ActionsOK
      <4>4. QED
        BY <4>3, <1>6
    <3>3. QED
      BY <3>1, <3>2
  <2>4. QED
    BY <2>1, <2>2, <2>3, <1>2, <1>3 DEF ActionsOK, Excused
<1>11. QED
  BY <1>1, <1>2, <1>5, <1>6, <1>7, <1>8, <1>9, <1>10, OthersKept DEF AnalyzerOK, stopVars

\* Without a token pool a panic leaves Anonymize, with no token open.
LEMMA PanickedInv ==
    ASSUME AnalyzerInv, NEW c \in Calls, NEW i \in 1..MaxTokens,
           PanicSerially(c, i), ~(pools.token > 0)
    PROVE  AnalyzerInv'
<1> USE DEF AnalyzerInv
<1>1. /\ task[c][i] = "process" /\ Tokens(c)[i].rule = Panics
      /\ pc' = [pc EXCEPT ![c] = "panicked"]
      /\ task' = [task EXCEPT ![c][i] = "finished"]
      /\ UNCHANGED <<pools, doc, next, wg, afterStop, actions, entities, cancelled,
                     runnerClosed, poolClosed>>
  BY DEF PanicSerially, stopVars
<1>2. /\ pc[c] \in {"loop", "submit", "wait"}
      /\ task' \in [Calls -> [1..MaxTokens -> TaskStates]]
      /\ \A j \in 1..MaxTokens : task'[c][j] = IF j = i THEN "finished" ELSE task[c][j]
      /\ \A b \in Calls \ {c} : task'[b] = task[b]
      /\ Open(c)' = Open(c) \ {i} /\ i \in Open(c)
      /\ pools.token = 0 => Open(c) = {i}
  BY <1>1, TaskEnds
<1>3. TasksOK(c) /\ CallOK(c) /\ ActionsOK(c) /\ VarTypes /\ Tokens(c)' = Tokens(c)
  BY <1>1 DEF AnalyzerOK, Tokens
<1>4. pools.token = 0 /\ Open(c)' = {}
  BY <1>2, <1>3, DocumentFacts
<1>5. VarTypes' /\ pc'[c] = "panicked"
  BY <1>1, <1>2, <1>3 DEF VarTypes
<1>6. TasksOK(c)'
  <2>1. ASSUME NEW j \in 1..MaxTokens PROVE task'[c][j] = "none" <=> j >= next[c]
    <3>1. /\ task[c][j] = "none" <=> j >= next[c]
          /\ task[c][i] = "none" <=> i >= next[c]
      BY <1>3 DEF TasksOK
    <3>2. CASE j = i
      BY <3>1, <3>2, <1>1, <1>2
    <3>3. CASE j # i
      BY <3>1, <3>3, <1>2
    <3>4. QED
      BY <3>2, <3>3
  <2>2. \A j \in 1..MaxTokens : j + 1 < next[c] => task'[c][j] = "finished"
    BY <1>2, <1>3, <1>4 DEF TasksOK
  <2>3. next[c] <= Len(Tokens(c)) + 1 /\ wg[c] = 0
    BY <1>3, <1>4 DEF TasksOK
  <2>4. QED
    BY <2>1, <2>2, <2>3, <1>1, <1>3, <1>4 DEF TasksOK
<1>7. CallOK(c)'
  BY <1>4, <1>5 DEF CallOK
<1>8. ActionsOK(c)'
  <2>1. ASSUME NEW j \in Matched(doc[c]), task'[c][j] = "finished" PROVE task[c][j] = "finished"
    <3>1. j # i
      BY <1>1 DEF Matched, Tokens
    <3>2. j \in 1..MaxTokens
      BY <1>3, DocumentFacts
    <3>3. QED
      BY <3>1, <3>2, <2>1, <1>2
  <2>2. QED
    BY <2>1, <1>1, <1>3 DEF ActionsOK, Excused
<1>9. \A b \in Calls \ {c} :
          /\ pc'[b] = pc[b] /\ next'[b] = next[b] /\ task'[b] = task[b] /\ wg'[b] = wg[b]
          /\ actions'[b] = actions[b] /\ entities'[b] = entities[b]
  BY <1>1, <1>2, <1>3 DEF VarTypes
<1>10. QED
  BY <1>1, <1>5, <1>6, <1>7, <1>8, <1>9, OthersKept DEF AnalyzerOK, stopVars

\* What the runner may answer is what RecordInv needs.
LEMMA AnswersSound ==
    ASSUME AnalyzerInv, NEW c \in Calls, NEW i \in 1..MaxTokens, NEW answer \in Answers(c, i)
    PROVE  /\ answer = NoRule => Excused(c) \/ i \notin Matched(doc[c])
           /\ answer # NoRule => answer = Tokens(c)[i].rule /\ answer # Panics
<1>1. CASE answer = Tokens(c)[i].rule /\ answer # Panics
  BY <1>1 DEF Matched, Tokens
<1>2. CASE answer = NoRule /\ (c \in cancelled \/ runnerClosed)
  BY <1>2 DEF Excused
<1>3. QED
  BY <1>1, <1>2 DEF Answers

\* Whatever happens to a token.
LEMMA TaskStepInv ==
    ASSUME AnalyzerInv, NEW c \in Calls, NEW i \in 1..MaxTokens, TaskStep(c, i)
    PROVE  AnalyzerInv'
<1>1. CASE BeginTask(c, i)
  <2>1. CASE c \in cancelled
    BY <1>1, <2>1, RecordInv DEF BeginTask, Excused
  <2>2. CASE c \notin cancelled
    BY <1>1, <2>2, TaskMovesInv DEF BeginTask, TaskStates
  <2>3. QED
    BY <2>1, <2>2
<1>2. CASE ProcessSerially(c, i)
  <2>1. PICK answer \in Answers(c, i) : Record(c, i, answer)
    BY <1>2 DEF ProcessSerially
  <2>2. task[c][i] \notin {"none", "finished"}
    BY <1>2 DEF ProcessSerially
  <2>3. QED
    BY <2>1, <2>2, RecordInv, AnswersSound
<1>3. CASE PanicSerially(c, i)
  <2>1. CASE pools.token > 0
    <3>1. Record(c, i, NoRule) /\ task[c][i] = "process" /\ i \notin Matched(doc[c])
      BY <1>3, <2>1 DEF PanicSerially, Matched, Tokens
    <3>2. QED
      BY <3>1, RecordInv
  <2>2. QED
    BY <1>3, <2>1, PanickedInv
<1>4. CASE PanicInRunner(c, i)
  BY <1>4, TaskMovesInv DEF PanicInRunner, TaskStates
<1>5. CASE RunnerSubmit(c, i)
  BY <1>5, TaskMovesInv DEF RunnerSubmit, TaskStates
<1>6. CASE RunnerGivesUp(c, i)
  <2>1. Record(c, i, NoRule) /\ task[c][i] \in {"process", "orphaned"} /\ Excused(c)
    BY <1>6 DEF RunnerGivesUp, Excused
  <2>2. QED
    BY <2>1, RecordInv
<1>7. CASE RunnerAnswers(c, i)
  <2>1. PICK answer \in Answers(c, i) : Record(c, i, answer)
    BY <1>7 DEF RunnerAnswers
  <2>2. task[c][i] \notin {"none", "finished"}
    BY <1>7 DEF RunnerAnswers
  <2>3. QED
    BY <2>1, <2>2, RecordInv, AnswersSound
<1>8. QED
  BY <1>1, <1>2, <1>3, <1>4, <1>5, <1>6, <1>7 DEF TaskStep

\* Contexts end and pools are released with every call where it is.
LEMMA SignalInv ==
    ASSUME AnalyzerInv, UNCHANGED <<callVars, task, actions, entities>>,
           cancelled \subseteq cancelled', cancelled' \subseteq Calls,
           runnerClosed => runnerClosed', poolClosed => poolClosed',
           runnerClosed' \in BOOLEAN, poolClosed' \in BOOLEAN
    PROVE  AnalyzerInv'
<1>1. VarTypes'
  BY DEF AnalyzerInv, VarTypes, callVars
<1>2. ASSUME NEW c \in Calls PROVE AnalyzerOK(c)'
  <2>1. AnalyzerOK(c) /\ UNCHANGED <<pools, doc, pc, next, task, wg, actions, entities>>
    BY DEF AnalyzerInv, callVars
  <2>2. QED
    BY <2>1, CallKept
<1>3. QED
  BY <1>1, <1>2 DEF AnalyzerInv

\* Every step of the analyzer keeps the invariant.
LEMMA NextInv ==
    ASSUME AnalyzerInv, [Next]_vars
    PROVE  AnalyzerInv'
<1>1. VarTypes /\ cancelled \subseteq Calls /\ runnerClosed \in BOOLEAN /\ poolClosed \in BOOLEAN
  BY DEF AnalyzerInv, VarTypes
<1>2. ASSUME NEW c \in Calls, NextToken(c) PROVE AnalyzerInv'
  <2>1. CallOK(c) /\ VarTypes
    BY DEF AnalyzerInv, AnalyzerOK
  <2>2. pools.token = 0
    BY <1>2, <2>1 DEF CallOK, NextToken
  <2>3. wg' = [wg EXCEPT ![c] = IF pools.token > 0 THEN @ + 1 ELSE @]
    BY <1>2, <2>1, <2>2 DEF NextToken, VarTypes
  <2>4. QED
    BY <1>2, <2>3, TakenUpInv DEF NextToken
<1>3. ASSUME NEW c \in Calls, Submit(c) PROVE AnalyzerInv'
  <2>1. CallOK(c) /\ VarTypes
    BY DEF AnalyzerInv, AnalyzerOK
  <2>2. pools.token > 0 /\ pools.token \in Nat
    BY <1>3, <2>1, DocumentFacts DEF CallOK, Submit
  <2>3. wg' = [wg EXCEPT ![c] = IF pools.token > 0 THEN @ + 1 ELSE @]
    BY <1>3, <2>1, <2>2 DEF Submit, VarTypes
  <2>4. QED
    <3>1. ~(pools.token = 0)
      BY <2>2
    <3>2. QED
      BY <1>3, <3>1, <2>3, TakenUpInv DEF Submit
<1>4. ASSUME NEW c \in Calls, Cancel(c) PROVE AnalyzerInv'
  BY <1>1, <1>4, SignalInv DEF Cancel, stopVars
<1>5. CASE StopRunner
  BY <1>1, <1>5, SignalInv DEF StopRunner
<1>6. CASE StopPool
  BY <1>1, <1>6, SignalInv DEF StopPool
<1>7. CASE UNCHANGED vars
  BY <1>1, <1>7, SignalInv DEF vars, stopVars
<1>8. CASE Quiescent
  BY <1>7, <1>8 DEF Quiescent
<1>9. ASSUME NEW c \in Calls, CallStep(c) PROVE AnalyzerInv'
  BY <1>2, <1>3, <1>9, LoopDoneInv, SubmitDoneInv, WaitDoneInv DEF CallStep
<1>10. QED
  BY <1>4, <1>5, <1>6, <1>7, <1>8, <1>9, AnonymizeInv, TaskStepInv DEF Next

-----------------------------------------------------------------------------
(* The factory's inductive invariant.                                      *)

Steps == {"cache", "ping", "runnerPool", "tokenPool", "assemble", "built", "failed"}

\* What a construction has open at each step, and that a pool is open only
\* when the options ask for it.
MadeOK ==
    /\ step \in {"cache", "failed"} => made = {}
    /\ step \in {"ping", "runnerPool"} => made \subseteq {"client"}
    /\ step = "tokenPool" => made \subseteq {"client", "runnerPool"}
    /\ made \subseteq {"client", "runnerPool", "tokenPool"}
    /\ "runnerPool" \in made => WantsRunnerPool(options)
    /\ "tokenPool" \in made => WantsTokenPool(options)

\* The sizes that have been checked when a step is reached.
SizesOK ==
    /\ step \in {"tokenPool", "assemble", "built"} =>
          (WantsRunnerPool(options) => options.ruleRunnerPoolSize > 0)
    /\ step \in {"assemble", "built"} => Accepted(options)

\* Nothing runs before the analyzer is handed over with the pools that were made.
HandoverOK ==
    /\ step # "built" => /\ pools = NoPools /\ ~runnerClosed /\ ~poolClosed
                         /\ \A c \in Calls : pc[c] = "idle"
    /\ step = "built" => pools = HandedOver(options)

FactoryInv ==
    /\ options \in Options /\ step \in Steps
    /\ MadeOK /\ SizesOK /\ HandoverOK
    /\ RetriesLeakNothing

IndInv == AnalyzerInv /\ FactoryInv

\* A call that has not begun has the invariant whatever the pools are.
LEMMA IdleCall ==
    ASSUME NEW c \in Calls, VarTypes, pc[c] = "idle", next[c] = 1, wg[c] = 0,
           \A i \in 1..MaxTokens : task[c][i] = "none",
           actions[c] = <<>>, entities[c] = {}
    PROVE  AnalyzerOK(c)
<1>1. Open(c) = {}
  BY DEF Open
<1>2. Cardinality(Open(c)) = 0
  BY <1>1, OpenFinite
<1>3. TasksOK(c)
  <2>1. 1 <= Len(Tokens(c)) + 1 /\ MaxTokens \in Nat
    BY DocumentFacts, LongestDocument
  <2>2. \A i \in 1..MaxTokens : i >= 1 /\ ~(i + 1 < 1)
    BY <2>1
  <2>3. QED
    BY <1>2, <2>1, <2>2 DEF TasksOK
<1>4. CallOK(c)
  BY DEF CallOK
<1>5. Range(actions[c]) = {}
  BY DEF Range
<1>6. ActionsOK(c)
  <2>1. Matched(doc[c]) \subseteq 1..MaxTokens
    BY DocumentFacts
  <2>2. \A i \in Matched(doc[c]) : task[c][i] # "finished"
    BY <2>1
  <2>3. QED
    BY <1>5, <2>2 DEF ActionsOK
<1>7. QED
  BY <1>3, <1>4, <1>6 DEF AnalyzerOK

\* The construction begins with nothing open and no call made.
LEMMA FactoryInitInv ==
    ASSUME FactoryInit
    PROVE  IndInv
<1>1. VarTypes
  <2>1. MaxTokens \in Nat /\ pools \in Pools
    BY LongestDocument, PoolsCoverOptions DEF FactoryInit
  <2>2. <<>> \in Seq(1..MaxTokens)
    OBVIOUS
  <2>3. 1 \in 1..(MaxTokens + 1)
    BY <2>1
  <2>4. "none" \in TaskStates
    BY DEF TaskStates
  <2>5. /\ next \in [Calls -> 1..(MaxTokens + 1)]
        /\ task \in [Calls -> [1..MaxTokens -> TaskStates]]
        /\ wg \in [Calls -> Int]
    BY <2>3, <2>4 DEF FactoryInit, AnalyzerInit
  <2>6. actions \in [Calls -> Seq(1..MaxTokens)] /\ entities \in [Calls -> SUBSET STRING]
    BY <2>2 DEF FactoryInit, AnalyzerInit
  <2>7. QED
    BY <2>1, <2>5, <2>6 DEF VarTypes, FactoryInit, AnalyzerInit
<1>2. \A c \in Calls : AnalyzerOK(c)
  <2> SUFFICES ASSUME NEW c \in Calls PROVE AnalyzerOK(c)
    OBVIOUS
  <2>1. /\ pc[c] = "idle" /\ next[c] = 1 /\ wg[c] = 0
        /\ \A i \in 1..MaxTokens : task[c][i] = "none"
        /\ actions[c] = <<>> /\ entities[c] = {}
    BY DEF FactoryInit, AnalyzerInit
  <2>2. QED
    BY <1>1, <2>1, IdleCall
<1>3. FactoryInv
  BY DEF FactoryInv, MadeOK, SizesOK, HandoverOK, RetriesLeakNothing, FactoryInit, AnalyzerInit, Steps
<1>4. QED
  BY <1>1, <1>2, <1>3 DEF IndInv, AnalyzerInv

\* A step that leaves the analyzer alone.
LEMMA AnalyzerUntouched ==
    ASSUME AnalyzerInv, UNCHANGED vars
    PROVE  AnalyzerInv'
BY NextInv

\* Every step of the construction keeps the invariant.
LEMMA ConstructInv ==
    ASSUME IndInv, Construct
    PROVE  IndInv'
<1> USE DEF IndInv
<1>1. FactoryInv /\ AnalyzerInv /\ options \in RunnerOptions
  BY OptionsTyped DEF FactoryInv
<1>2. ASSUME UNCHANGED <<vars, options>>, step # "built", step' \in Steps \ {"built"},
             MadeOK', SizesOK', RetriesLeakNothing'
      PROVE  IndInv'
  <2>1. AnalyzerInv'
    BY <1>2, AnalyzerUntouched
  <2>2. HandoverOK'
    BY <1>1, <1>2 DEF FactoryInv, HandoverOK, vars, callVars, stopVars
  <2>3. QED
    BY <2>1, <2>2, <1>1, <1>2 DEF FactoryInv
<1> USE DEF Goto, Fail, Steps, MadeOK, SizesOK, RetriesLeakNothing
<1>3. CASE BuildCacheStore
  BY <1>1, <1>2, <1>3 DEF FactoryInv, BuildCacheStore
<1>4. CASE PingOnConnect
  BY <1>1, <1>2, <1>4 DEF FactoryInv, PingOnConnect, PingFails
<1>5. CASE MakeRunnerPool
  <2>1. WantsRunnerPool(options) \in BOOLEAN /\ options.ruleRunnerPoolSize \in Int
    BY <1>1 DEF WantsRunnerPool, RunnerOptions
  <2>2. step = "runnerPool" /\ made \subseteq {"client"}
    BY <1>1, <1>5 DEF FactoryInv, MakeRunnerPool
  <2>3. CASE ~WantsRunnerPool(options) \/ options.ruleRunnerPoolSize > 0
    <3>1. /\ UNCHANGED <<vars, options, leaked>> /\ step' = "tokenPool"
          /\ \/ made' = made
             \/ made' = made \cup {"runnerPool"} /\ WantsRunnerPool(options)
      BY <1>5, <2>1, <2>3 DEF MakeRunnerPool, MakePool
    <3>2. MadeOK'
      BY <1>1, <2>2, <3>1 DEF FactoryInv
    <3>3. SizesOK' /\ RetriesLeakNothing'
      BY <1>1, <2>3, <3>1 DEF FactoryInv
    <3>4. QED
      BY <1>2, <2>2, <3>1, <3>2, <3>3
  <2>4. CASE WantsRunnerPool(options) /\ ~(options.ruleRunnerPoolSize > 0)
    <3>1. ~Accepted(options)
      BY <2>4 DEF Accepted
    <3>2. QED
      BY <1>1, <1>2, <1>5, <2>1, <2>2, <2>4, <3>1 DEF FactoryInv, MakeRunnerPool, MakePool, Accepted
  <2>5. QED
    BY <2>1, <2>3, <2>4
<1>6. CASE MakeTokenPool
  <2>1. WantsTokenPool(options) \in BOOLEAN /\ options.tokenPoolSize \in Int
    BY <1>1 DEF WantsTokenPool, RunnerOptions
  <2>2. step = "tokenPool" /\ made \subseteq {"client", "runnerPool"}
    BY <1>1, <1>6 DEF FactoryInv, MakeTokenPool
  <2>3. CASE ~WantsTokenPool(options) \/ options.tokenPoolSize > 0
    <3>1. Accepted(options)
      BY <1>1, <2>2, <2>3 DEF Accepted, FactoryInv
    <3>2. QED
      <4>1. /\ UNCHANGED <<vars, options, leaked>> /\ step' = "assemble"
            /\ \/ made' = made
               \/ made' = made \cup {"tokenPool"} /\ WantsTokenPool(options)
        BY <1>6, <2>1, <2>3 DEF MakeTokenPool, MakePool
      <4>2. MadeOK'
        BY <1>1, <2>2, <4>1 DEF FactoryInv
      <4>3. SizesOK' /\ RetriesLeakNothing'
        BY <1>1, <2>2, <3>1, <4>1 DEF FactoryInv
      <4>4. QED
        BY <1>2, <2>2, <4>1, <4>2, <4>3
  <2>4. CASE WantsTokenPool(options) /\ ~(options.tokenPoolSize > 0)
    <3>1. ~Accepted(options)
      BY <2>4 DEF Accepted
    <3>2. QED
      BY <1>1, <1>2, <1>6, <2>1, <2>2, <2>4, <3>1 DEF FactoryInv, MakeTokenPool, MakePool, Accepted
  <2>5. QED
    BY <2>1, <2>3, <2>4
<1>7. CASE Assemble
  <2>1. /\ step = "assemble" /\ step' = "built" /\ pools' = HandedOver(options)
        /\ UNCHANGED <<doc, pc, next, wg, afterStop, task, actions, entities, cancelled,
                       runnerClosed, poolClosed, options, made, leaked>>
    BY <1>7 DEF Assemble, stopVars
  <2>2. VarTypes'
    BY <1>1, <2>1, PoolsCoverOptions DEF AnalyzerInv, VarTypes, FactoryInv
  <2>3. ASSUME NEW c \in Calls PROVE AnalyzerOK(c)'
    <3>1. /\ pc[c] = "idle" /\ pools.token = 0 /\ TasksOK(c) /\ CallOK(c) /\ ActionsOK(c)
          /\ VarTypes /\ ~(pools.token > 0)
      BY <1>1, <2>1 DEF FactoryInv, HandoverOK, NoPools, AnalyzerInv, AnalyzerOK
    <3>2. next[c] = 1 /\ wg[c] = 0
      BY <3>1 DEF CallOK, TasksOK
    <3>3. \A i \in 1..MaxTokens : task[c][i] = "none"
      BY <3>1, <3>2 DEF TasksOK
    <3>4. Open(c)' = {}
      BY <2>1, <3>3 DEF Open
    <3>5. Cardinality(Open(c)') = 0
      BY <3>4, FS_EmptySet, Zenon
    <3>6. TasksOK(c)'
      BY <2>1, <3>1, <3>2, <3>3, <3>5 DEF TasksOK, Tokens
    <3>7. CallOK(c)'
      BY <2>1, <3>1, <3>2 DEF CallOK
    <3>8. ActionsOK(c)'
      BY <2>1, <3>1 DEF ActionsOK, Tokens, Excused
    <3>9. QED
      BY <3>6, <3>7, <3>8 DEF AnalyzerOK
  <2>4. FactoryInv'
    BY <1>1, <2>1 DEF FactoryInv, HandoverOK
  <2>5. QED
    BY <2>2, <2>3, <2>4 DEF AnalyzerInv
<1>8. CASE Retry
  BY <1>1, <1>2, <1>8 DEF FactoryInv, Retry
<1>9. QED
  BY <1>3, <1>4, <1>5, <1>6, <1>7, <1>8 DEF Construct

\* The analyzer's steps leave the construction alone.
LEMMA BuiltInv ==
    ASSUME IndInv, Built(Next)
    PROVE  IndInv'
<1>1. AnalyzerInv'
  BY NextInv DEF IndInv, Built
<1>2. UNCHANGED <<pools, options, step, made, leaked>>
  <2>1. UNCHANGED pools
    BY DEF Built, Next, Anonymize, CallStep, NextToken, LoopDone, Submit, SubmitDone, WaitDone,
           Finish, Cancel, TaskStep, BeginTask, ProcessSerially, PanicSerially, PanicInRunner,
           RunnerSubmit, RunnerGivesUp, RunnerAnswers, Record, StopRunner, StopPool, Quiescent,
           callVars, vars
  <2>2. QED
    BY <2>1 DEF Built, factoryVars
<1>3. QED
  BY <1>1, <1>2 DEF IndInv, FactoryInv, MadeOK, SizesOK, HandoverOK, RetriesLeakNothing, Built

-----------------------------------------------------------------------------
(* The theorems.                                                           *)

\* The strengthened invariant holds in every behaviour of the factory and of
\* the analyzer it hands over.
THEOREM Invariance == FactorySpec => []IndInv
<1>1. FactoryInit => IndInv
  BY FactoryInitInv
<1>2. IndInv /\ [FactoryNext]_allVars => IndInv'
  <2> SUFFICES ASSUME IndInv, [FactoryNext]_allVars PROVE IndInv'
    OBVIOUS
  <2>1. CASE UNCHANGED allVars
    <3>1. UNCHANGED vars /\ UNCHANGED <<options, step, made, leaked>>
      BY <2>1 DEF allVars, factoryVars
    <3>2. AnalyzerInv'
      BY <3>1, AnalyzerUntouched DEF IndInv
    <3>3. QED
      BY <3>1, <3>2 DEF IndInv, FactoryInv, MadeOK, SizesOK, HandoverOK, RetriesLeakNothing,
                        vars, callVars, stopVars
  <2>2. QED
    BY <2>1, ConstructInv, BuiltInv DEF FactoryNext
<1>3. QED
  BY <1>1, <1>2, PTL DEF FactorySpec

\* TypeOK for any number of calls, tokens and workers: in particular the
\* WaitGroup of anonymizeConcurrent, which a panic, a cancelled context and a
\* released pool all leave by a different way, never goes negative.
THEOREM TypeCorrect == FactorySpec => []TypeOK
<1>1. IndInv => TypeOK
  BY TypesFollow DEF IndInv
<1>2. QED
  BY <1>1, Invariance, PTL

\* ReportExact: a call that has returned reports exactly the entities it
\* anonymized, each token was replaced by a rule that matches it, and only
\* cancellation or Stop may have left a matching token out.
THEOREM ReportsAreExact == FactorySpec => [](\A c \in Calls : pc[c] = "done" => ReportExact(c))
<1>1. ASSUME IndInv, NEW c \in Calls, pc[c] = "done" PROVE ReportExact(c)
  <2>1. AnalyzerOK(c) /\ VarTypes
    BY <1>1 DEF IndInv, AnalyzerInv
  <2>2. entities[c] = {Tokens(c)[i].rule.entity : i \in Range(actions[c])}
    BY <2>1 DEF AnalyzerOK, ActionsOK
  <2>3. Range(actions[c]) \subseteq Matched(doc[c])
    BY <2>1 DEF AnalyzerOK, ActionsOK
  <2>4. ASSUME doc[c].anyRules, ~Excused(c), NEW i \in Matched(doc[c])
        PROVE  i \in Range(actions[c])
    <3>1. next[c] = Len(Tokens(c)) + 1 /\ Open(c) = {}
      BY <1>1, <2>1, <2>4 DEF AnalyzerOK, CallOK, Excused
    <3>2. i \in 1..MaxTokens /\ i \in 1..Len(Tokens(c)) /\ Len(Tokens(c)) \in Nat
      BY <2>1, DocumentFacts DEF Matched, Tokens
    <3>3. task[c][i] # "none"
      BY <2>1, <3>1, <3>2 DEF AnalyzerOK, TasksOK
    <3>4. task[c][i] = "finished"
      BY <3>1, <3>2, <3>3 DEF Open
    <3>5. QED
      BY <2>1, <2>4, <3>4 DEF AnalyzerOK, ActionsOK
  <2>5. QED
    BY <2>2, <2>3, <2>4 DEF ReportExact, Anonymized
<1>2. IndInv => \A c \in Calls : pc[c] = "done" => ReportExact(c)
  BY <1>1
<1>3. QED
  BY <1>2, Invariance, PTL

\* RetriesLeakNothing: however many constructions fail and are tried again,
\* options whose pool sizes are accepted leave no client and no pool behind.
THEOREM NothingLeaks == FactorySpec => []RetriesLeakNothing
<1>1. IndInv => RetriesLeakNothing
  BY DEF IndInv, FactoryInv
<1>2. QED
  BY <1>1, Invariance, PTL

\* StopReleasesPools: the pools the factory opened are the ones it handed
\* over, so Stop leaves none open.
THEOREM StopReachesEveryPool == FactorySpec => []StopReleasesPools
<1>1. ASSUME IndInv PROVE StopReleasesPools
  <2> SUFFICES ASSUME step = "built", runnerClosed, poolClosed \/ pools.token = 0
               PROVE  OpenPools = {}
    BY DEF StopReleasesPools
  <2>1. /\ pools = HandedOver(options) /\ Accepted(options) /\ MadeOK
        /\ options \in RunnerOptions
    BY <1>1, OptionsTyped DEF IndInv, FactoryInv, HandoverOK, SizesOK
  <2>2. "runnerPool" \in made => pools.runner > 0
    BY <2>1 DEF MadeOK, HandedOver, Accepted
  <2>3. "tokenPool" \in made => pools.token > 0
    BY <2>1 DEF MadeOK, HandedOver, Accepted
  <2>4. "tokenPool" \in made => poolClosed
    BY <2>1, <2>3
  <2>5. QED
    BY <2>1, <2>2, <2>4 DEF OpenPools, MadeOK
<1>2. QED
  BY <1>1, Invariance, PTL

\* NoLateAction: after wg.Wait no worker is left that could still append to
\* the actions or the entities of the call, or touch its WaitGroup.
THEOREM NothingIsAppendedLate == FactorySpec => NoLateAction
<1>1. ASSUME IndInv, [FactoryNext]_allVars, NEW c \in Calls, pc[c] = "done"
      PROVE  actions'[c] = actions[c] /\ entities'[c] = entities[c] /\ wg'[c] = wg[c]
  <2>1. VarTypes /\ Open(c) = {} /\ \A i \in 1..MaxTokens : task[c][i] \in {"none", "finished"}
    BY <1>1 DEF IndInv, AnalyzerInv, AnalyzerOK, CallOK, Open
  <2>2. ASSUME UNCHANGED <<actions, entities, wg>>
        PROVE  actions'[c] = actions[c] /\ entities'[c] = entities[c] /\ wg'[c] = wg[c]
    BY <2>2
  <2>3. ASSUME NEW b \in Calls, Submit(b)
        PROVE  actions'[c] = actions[c] /\ entities'[c] = entities[c] /\ wg'[c] = wg[c]
    BY <2>1, <2>3, <1>1 DEF Submit, VarTypes
  <2>4. ASSUME NEW b \in Calls, NEW i \in 1..MaxTokens, NEW answer, b # c, Record(b, i, answer)
        PROVE  actions'[c] = actions[c] /\ entities'[c] = entities[c] /\ wg'[c] = wg[c]
    BY <2>1, <2>4 DEF Record, WgDone, Detect, VarTypes
  <2>5. ASSUME NEW b \in Calls, NEW i \in 1..MaxTokens, TaskStep(b, i)
        PROVE  actions'[c] = actions[c] /\ entities'[c] = entities[c] /\ wg'[c] = wg[c]
    <3>1. b # c
      BY <2>1, <2>5 DEF TaskStep, BeginTask, ProcessSerially, PanicSerially, PanicInRunner,
                        RunnerSubmit, RunnerGivesUp, RunnerAnswers
    <3>2. \/ \E answer : Record(b, i, answer)
          \/ UNCHANGED <<actions, entities, wg>>
      BY <2>5 DEF TaskStep, BeginTask, ProcessSerially, PanicSerially, PanicInRunner,
                  RunnerSubmit, RunnerGivesUp, RunnerAnswers, callVars
    <3>3. QED
      BY <3>1, <3>2, <2>2, <2>4
  <2>6. ASSUME Construct
        PROVE  actions'[c] = actions[c] /\ entities'[c] = entities[c] /\ wg'[c] = wg[c]
    BY <2>6 DEF Construct, BuildCacheStore, PingOnConnect, MakeRunnerPool, MakeTokenPool, MakePool,
                Assemble, Retry, vars, callVars
  <2>7. QED
    BY <1>1, <2>2, <2>3, <2>5, <2>6 DEF FactoryNext, Built, Next, Anonymize, CallStep, NextToken,
       LoopDone, SubmitDone, WaitDone, Finish, Cancel, StopRunner, StopPool, Quiescent,
       callVars, vars, allVars
<1>2. IndInv /\ [FactoryNext]_allVars =>
          [\A c \in Calls : pc[c] = "done" =>
              actions'[c] = actions[c] /\ entities'[c] = entities[c] /\ wg'[c] = wg[c]]_vars
  BY <1>1
<1>3. QED
  BY <1>2, Invariance, PTL DEF FactorySpec, NoLateAction

-----------------------------------------------------------------------------
(* What applyActions writes.                                               *)

\* What a document says of its tokens.
LEMMA TokenFacts ==
    ASSUME NEW d, IsDocument(d)
    PROVE  /\ d.len \in Nat /\ Len(d.tokens) \in Nat
           /\ DOMAIN d.tokens = 1..Len(d.tokens)
           /\ \A i \in 1..Len(d.tokens) :
                 /\ d.tokens[i] \in Token
                 /\ d.tokens[i].start \in Nat /\ d.tokens[i].end \in Nat
                 /\ d.tokens[i].start < d.tokens[i].end /\ d.tokens[i].end <= d.len
                 /\ i > 1 => d.tokens[i - 1].end < d.tokens[i].start
<1>1. d.tokens \in Seq(Token) /\ d.len \in Nat
  BY DEF IsDocument
<1>2. Len(d.tokens) \in Nat /\ DOMAIN d.tokens = 1..Len(d.tokens)
  BY <1>1
<1>3. \A i \in 1..Len(d.tokens) : d.tokens[i] \in Token
  BY <1>1, <1>2
<1>4. \A i \in 1..Len(d.tokens) : d.tokens[i].start \in Nat /\ d.tokens[i].end \in Nat
  BY <1>3 DEF Token
<1>5. QED
  BY <1>1, <1>2, <1>3, <1>4 DEF IsDocument

\* A token that a rule matches has settings.
LEMMA MatchedFacts ==
    ASSUME NEW d, IsDocument(d), NEW i \in Matched(d)
    PROVE  /\ i \in 1..Len(d.tokens)
           /\ d.tokens[i].rule.strategy \in {"REDACT", "MASK", "unknown"}
           /\ d.tokens[i].rule.maxSize \in Int
<1>1. i \in 1..Len(d.tokens) /\ d.tokens[i].rule \notin {NoRule, Panics}
  BY TokenFacts DEF Matched
<1>2. d.tokens[i].rule \in Settings
  BY <1>1, TokenFacts DEF Token
<1>3. QED
  BY <1>1, <1>2 DEF Settings

\* The tokens come one after the other.
LEMMA TokensApart ==
    ASSUME NEW d, IsDocument(d)
    PROVE  \A i, j \in 1..Len(d.tokens) : i < j => d.tokens[i].end < d.tokens[j].start
<1> DEFINE n == Len(d.tokens)
           G == {m \in 0..n : \A i, j \in 1..m : i < j => d.tokens[i].end < d.tokens[j].start}
<1>1. n \in Nat
  BY TokenFacts
<1>2. 0 \in G
  BY <1>1
<1>3. ASSUME NEW m \in 0..(n - 1), m \in G
      PROVE  m + 1 \in G
  <2>1. ASSUME NEW i \in 1..(m + 1), NEW j \in 1..(m + 1), i < j
        PROVE  d.tokens[i].end < d.tokens[j].start
    <3>1. CASE j <= m
      BY <1>1, <1>3, <2>1, <3>1
    <3>2. CASE j = m + 1
      <4>1. m \in 1..n /\ m + 1 \in 1..n /\ i \in 1..n
        BY <1>1, <2>1, <3>2
      <4>2. d.tokens[m].end < d.tokens[m + 1].start
        BY <4>1, TokenFacts
      <4>3. i = m \/ d.tokens[i].end < d.tokens[m].start
        BY <1>1, <1>3, <2>1, <3>2, <4>1
      <4>4. QED
        BY <3>2, <4>1, <4>2, <4>3, TokenFacts
    <3>3. QED
      BY <2>1, <3>1, <3>2
  <2>2. QED
    BY <1>1, <2>1
<1> HIDE DEF G, n
<1>4. n \in G
  <2>1. \A k \in 0..n : k \in G
    BY <1>1, <1>2, <1>3, UpTo
  <2>2. QED
    BY <1>1, <2>1
<1>5. QED
  BY <1>4 DEF G, n

\* Pieces of text may be put together in any order.
LEMMA Associates ==
    \A s, t, u \in Seq(Int) : (s \o t) \o u = s \o (t \o u)
<1> TAKE s, t, u \in Seq(Int)
<1>1. QED
  BY ConcatAssociative, SMTT(30)

\* content[a:b] grows by a byte at its end.
LEMMA SliceFacts ==
    ASSUME NEW a \in Nat, NEW b \in Nat
    PROVE  /\ Slice(a, b) \in Seq(Int)
           /\ b <= a => Slice(a, b) = <<>>
           /\ a <= b => Slice(a, b + 1) = Slice(a, b) \o <<b>>
<1>1. Slice(a, b) \in Seq(Int) /\ Slice(a, b + 1) \in Seq(Int)
  <2>1. ASSUME NEW e \in Nat PROVE Slice(a, e) \in Seq(Int)
    <3>1. CASE a <= e
      <4>1. e - a \in Nat /\ Slice(a, e) \in [1..(e - a) -> Int]
        BY <3>1 DEF Slice
      <4>2. QED
        BY <4>1
    <3>2. CASE e < a
      <4>1. Slice(a, e) \in [1..0 -> Int]
        BY <3>2 DEF Slice
      <4>2. QED
        BY <4>1
    <3>3. QED
      BY <3>1, <3>2
  <2>2. QED
    BY <2>1
<1>2. ASSUME b <= a PROVE Slice(a, b) = <<>>
  <2>1. DOMAIN Slice(a, b) = {}
    BY <1>2 DEF Slice
  <2>2. Len(Slice(a, b)) = 0
    BY <1>1, <2>1, LenProperties
  <2>3. QED
    BY <1>1, <2>2, EmptySeq, SeqEqual
<1>3. ASSUME a <= b PROVE Slice(a, b + 1) = Slice(a, b) \o <<b>>
  <2>1. Len(Slice(a, b)) = b - a /\ Len(Slice(a, b + 1)) = b - a + 1
    BY <1>1, <1>3, LenProperties DEF Slice
  <2>2. <<b>> \in Seq(Int) /\ Len(<<b>>) = 1 /\ <<b>>[1] = b
    OBVIOUS
  <2> DEFINE r == Slice(a, b) \o <<b>>
  <2>3. /\ r \in Seq(Int) /\ Len(r) = b - a + 1
        /\ \A i \in 1..(b - a + 1) : r[i] = IF i <= b - a THEN Slice(a, b)[i] ELSE <<b>>[i - (b - a)]
    BY <1>1, <2>1, <2>2, ConcatProperties
  <2> HIDE DEF r
  <2>4. ASSUME NEW i \in 1..(b - a + 1) PROVE Slice(a, b + 1)[i] = r[i]
    <3>1. Slice(a, b + 1)[i] = a + i - 1
      BY DEF Slice
    <3>2. CASE i <= b - a
      BY <2>3, <3>1, <3>2 DEF Slice
    <3>3. CASE i = b - a + 1
      <4>1. i - (b - a) = 1 /\ ~(i <= b - a)
        BY <1>3, <3>3
      <4>2. r[i] = <<b>>[1]
        BY <2>3, <4>1
      <4>3. QED
        BY <2>2, <3>1, <3>3, <4>2
    <3>4. QED
      BY <1>3, <3>2, <3>3
  <2>5. Slice(a, b + 1) = r
    BY <1>1, <1>3, <2>1, <2>3, <2>4, SeqEqual
  <2>6. QED
    BY <2>5 DEF r
<1>4. QED
  BY <1>1, <1>2, <1>3

\* Rendered inside the token it belongs to.
RenderedIn(tok, p) ==
    CASE tok.rule.strategy = "REDACT"  ->
            IF p = tok.start THEN <<Placeholder>> ELSE <<>>
      [] tok.rule.strategy = "MASK"    ->
            IF p = tok.start \/ p - tok.start < tok.rule.maxSize THEN <<MaskingChar>> ELSE <<p>>
      [] tok.rule.strategy = "unknown" -> <<>>

\* A byte belongs to at most one token.
LEMMA RenderedFacts ==
    ASSUME NEW d, IsDocument(d), NEW S \in SUBSET Matched(d), NEW p \in Nat
    PROVE  /\ (\A i \in S : ~(d.tokens[i].start <= p /\ p < d.tokens[i].end))
                 => Rendered(d, S, p) = <<p>>
           /\ \A i \in S : d.tokens[i].start <= p /\ p < d.tokens[i].end
                 => Rendered(d, S, p) = RenderedIn(d.tokens[i], p)
           /\ Rendered(d, S, p) \in Seq(Int)
<1> DEFINE inside == {i \in S : d.tokens[i].start <= p /\ p < d.tokens[i].end}
<1>1. ASSUME inside = {} PROVE Rendered(d, S, p) = <<p>>
  BY <1>1, Zenon DEF Rendered
<1>2. ASSUME NEW i \in inside PROVE Rendered(d, S, p) = RenderedIn(d.tokens[i], p)
  <2> DEFINE j == CHOOSE k \in inside : TRUE
  <2>1. j \in inside
    BY <1>2, Zenon
  <2>2. i \in 1..Len(d.tokens) /\ j \in 1..Len(d.tokens)
    BY <1>2, <2>1, MatchedFacts
  <2>3. i = j
    <3>1. d.tokens[i].start <= p /\ p < d.tokens[i].end /\ d.tokens[j].start <= p /\ p < d.tokens[j].end
      BY <1>2, <2>1
    <3> HIDE DEF j
    <3>2. ~(i < j) /\ ~(j < i)
      BY <2>2, <3>1, TokensApart, TokenFacts
    <3>3. QED
      BY <2>2, <3>2, TokenFacts
  <2>4. inside # {}
    BY <1>2
  <2>5. Rendered(d, S, p) = RenderedIn(d.tokens[j], p)
    BY <2>4, Zenon DEF Rendered, RenderedIn
  <2> HIDE DEF j
  <2>6. QED
    BY <2>3, <2>5
<1>3. ASSUME NEW i \in inside PROVE RenderedIn(d.tokens[i], p) \in Seq(Int)
  <2>1. d.tokens[i].rule.strategy \in {"REDACT", "MASK", "unknown"}
    BY <1>3, MatchedFacts
  <2>2. <<p>> \in Seq(Int) /\ <<Placeholder>> \in Seq(Int) /\ <<MaskingChar>> \in Seq(Int)
        /\ <<>> \in Seq(Int)
    BY DEF Placeholder, MaskingChar
  <2>3. QED
    BY <2>1, <2>2 DEF RenderedIn
<1>4. <<p>> \in Seq(Int)
  OBVIOUS
<1>5. Rendered(d, S, p) \in Seq(Int)
  BY <1>1, <1>2, <1>3, <1>4, Zenon
<1>6. QED
  BY <1>1, <1>2, <1>5

\* RenderedText is what its recursion says.
LEMMA RenderedTextDef ==
    ASSUME NEW d, IsDocument(d), NEW S \in SUBSET Matched(d)
    PROVE  /\ RenderedText(d, S)[0] = <<>>
           /\ \A p \in 0..d.len : RenderedText(d, S)[p] \in Seq(Int)
           /\ \A p \in 1..d.len :
                 RenderedText(d, S)[p] = RenderedText(d, S)[p - 1] \o Rendered(d, S, p - 1)
<1> DEFINE n == d.len
           V == Seq(Int)
           Step(q, p) == q \o Rendered(d, S, p - 1)
           F == [x \in (1..n) \X V |-> Step(x[2], x[1])]
           Def(f) == f = [p \in 0..n |-> IF p = 0 THEN <<>> ELSE Step(f[p - 1], p)]
           T == RenderedText(d, S)
<1>1. n \in Nat /\ <<>> \in V
  BY TokenFacts
<1>2. ASSUME NEW q \in V, NEW p \in 1..n PROVE Step(q, p) \in V
  <2>1. p - 1 \in Nat
    BY <1>1
  <2>2. Rendered(d, S, p - 1) \in V
    BY <2>1, RenderedFacts
  <2>3. QED
    BY <2>2, ConcatProperties
<1>3. (\E f : Def(f)) => Def(T)
  BY Zenon DEF RenderedText
<1> HIDE DEF V, n, Step, T
<1>4. F \in [(1..n) \X V -> V]
  BY <1>2
<1>5. PICK f \in [0..n -> V] : Iterates(f, n, <<>>, F)
  <2> HIDE DEF F
  <2>1. QED
    BY <1>1, <1>4, IterationExists
<1>6. \A p \in 1..n : f[p] = Step(f[p - 1], p)
  <2>1. ASSUME NEW p \in 1..n PROVE f[p] = Step(f[p - 1], p)
    <3>1. p - 1 \in 0..n
      BY <1>1
    <3>2. f[p] = F[<<p, f[p - 1]>>] /\ <<p, f[p - 1]>> \in (1..n) \X V
      BY <1>5, <3>1 DEF Iterates
    <3>3. QED
      BY <3>2
  <2>2. QED
    BY <2>1
<1>7. Def(f)
  BY <1>1, <1>5, <1>6 DEF Iterates
<1>8. Def(T)
  <2> HIDE DEF Def
  <2>1. QED
    BY <1>3, <1>7
<1>9. T[0] = <<>> /\ \A p \in 1..n : T[p] = Step(T[p - 1], p)
  BY <1>1, <1>8
<1>10. \A p \in 0..n : T[p] \in V
  <2> DEFINE G == {p \in 0..n : T[p] \in V}
  <2>1. 0 \in G
    BY <1>1, <1>9
  <2>2. ASSUME NEW p \in 0..(n - 1), p \in G PROVE p + 1 \in G
    <3>1. p + 1 \in 1..n /\ (p + 1) - 1 = p
      BY <1>1, <2>2
    <3>2. T[p + 1] = Step(T[p], p + 1)
      BY <1>9, <3>1
    <3>3. T[p + 1] \in V
      BY <1>2, <2>2, <3>1, <3>2
    <3>4. QED
      BY <1>1, <3>1, <3>3
  <2> HIDE DEF G
  <2>3. \A p \in 0..n : p \in G
    BY <1>1, <2>1, <2>2, UpTo
  <2>4. QED
    BY <2>3 DEF G
<1>11. QED
  BY <1>9, <1>10 DEF T, n, V, Step

\* No token of S has a byte from a up to b.
Clear(d, S, a, b) ==
    /\ a \in 0..d.len /\ b \in a..d.len
    /\ \A i \in S : d.tokens[i].end <= a \/ b <= d.tokens[i].start

Copied(d, S, a, b) == RenderedText(d, S)[b] = RenderedText(d, S)[a] \o Slice(a, b)

\* Outside the anonymized tokens the text is copied.
LEMMA TextOutside ==
    ASSUME NEW d, IsDocument(d), NEW S \in SUBSET Matched(d), NEW a, NEW b,
           Clear(d, S, a, b)
    PROVE  Copied(d, S, a, b)
<1> DEFINE T == RenderedText(d, S)
           G == {k \in 0..(b - a) : T[a + k] = T[a] \o Slice(a, a + k)}
<1>1. d.len \in Nat /\ a \in Nat /\ b \in Nat /\ b - a \in Nat /\ b <= d.len /\ a \in 0..d.len
  BY TokenFacts DEF Clear
<1>2. /\ \A p \in 0..d.len : T[p] \in Seq(Int)
      /\ \A p \in 1..d.len : T[p] = T[p - 1] \o Rendered(d, S, p - 1)
  BY RenderedTextDef
<1> HIDE DEF T
<1>3. 0 \in G
  <2>1. a + 0 = a /\ a <= a /\ 0 \in 0..(b - a)
    BY <1>1
  <2>2. Slice(a, a) = <<>>
    BY <1>1, <2>1, SliceFacts, Zenon
  <2>3. T[a] \o <<>> = T[a]
    BY <1>2, ConcatEmptySeq
  <2>4. QED
    BY <2>1, <2>2, <2>3, Zenon
<1>4. ASSUME NEW k \in 0..((b - a) - 1), k \in G
      PROVE  k + 1 \in G
  <2> DEFINE p == a + k
  <2>1. /\ p \in Nat /\ p + 1 \in 1..d.len /\ (p + 1) - 1 = p /\ a <= p /\ p < b
        /\ a + (k + 1) = p + 1 /\ k + 1 \in 0..(b - a)
    BY <1>1, <1>4
  <2>2. T[p] = T[a] \o Slice(a, p)
    BY <1>4
  <2> HIDE DEF p
  <2>3. T[p + 1] = T[p] \o Rendered(d, S, p)
    BY <1>2, <2>1
  <2>4. \A i \in S : ~(d.tokens[i].start <= p /\ p < d.tokens[i].end)
    <3>1. \A i \in S : d.tokens[i].start \in Nat /\ d.tokens[i].end \in Nat
      BY MatchedFacts, TokenFacts
    <3>2. QED
      BY <1>1, <2>1, <3>1 DEF Clear
  <2>5. Rendered(d, S, p) = <<p>>
    BY <2>1, <2>4, RenderedFacts
  <2>6. Slice(a, p) \in Seq(Int) /\ Slice(a, p + 1) = Slice(a, p) \o <<p>> /\ <<p>> \in Seq(Int)
    BY <1>1, <2>1, SliceFacts
  <2>7. (T[a] \o Slice(a, p)) \o <<p>> = T[a] \o (Slice(a, p) \o <<p>>)
    BY <1>1, <1>2, <2>6, Associates
  <2>8. T[p + 1] = T[a] \o Slice(a, p + 1)
    BY <2>2, <2>3, <2>5, <2>6, <2>7, Zenon
  <2>9. QED
    BY <2>1, <2>8, Zenon
<1> HIDE DEF G
<1>5. \A k \in 0..(b - a) : k \in G
  BY <1>1, <1>3, <1>4, UpTo
<1>6. b - a \in G
  BY <1>1, <1>5
<1>7. a + (b - a) = b
  BY <1>1
<1>8. QED
  BY <1>6, <1>7, Zenon DEF G, T, Copied

\* n masking characters.
Masks(n) == [i \in 1..n |-> MaskingChar]

LEMMA MaskFacts ==
    ASSUME NEW n \in Nat
    PROVE  /\ Masks(n) \in Seq(Int)
           /\ Masks(0) = <<>>
           /\ Masks(n + 1) = Masks(n) \o <<MaskingChar>>
<1>1. \A k \in Nat : Masks(k) \in Seq(Int) /\ Len(Masks(k)) = k
  BY DEF Masks, MaskingChar
<1>2. Masks(0) = <<>>
  BY <1>1, EmptySeq, SeqEqual
<1>3. Masks(n + 1) = Masks(n) \o <<MaskingChar>>
  <2> DEFINE r == Masks(n) \o <<MaskingChar>>
  <2>1. <<MaskingChar>> \in Seq(Int) /\ Len(<<MaskingChar>>) = 1 /\ <<MaskingChar>>[1] = MaskingChar
    BY DEF MaskingChar
  <2>2. /\ r \in Seq(Int) /\ Len(r) = n + 1
        /\ \A i \in 1..(n + 1) : r[i] = IF i <= n THEN Masks(n)[i] ELSE <<MaskingChar>>[i - n]
    BY <1>1, <2>1, ConcatProperties
  <2> HIDE DEF r
  <2>3. ASSUME NEW i \in 1..(n + 1) PROVE Masks(n + 1)[i] = r[i]
    <3>1. Masks(n + 1)[i] = MaskingChar
      BY DEF Masks
    <3>2. CASE i <= n
      BY <2>2, <3>1, <3>2 DEF Masks
    <3>3. CASE i = n + 1
      <4>1. i - n = 1 /\ ~(i <= n)
        BY <3>3
      <4>2. r[i] = <<MaskingChar>>[1]
        BY <2>2, <4>1
      <4>3. QED
        BY <2>1, <3>1, <4>2
    <3>4. QED
      BY <3>2, <3>3
  <2>4. Masks(n + 1) = r
    BY <1>1, <2>2, <2>3, SeqEqual
  <2>5. QED
    BY <2>4 DEF r
<1>4. QED
  BY <1>1, <1>2, <1>3

\* Of the first k bytes of a token: as many as are masked, and the rest.
PartOf(tok, k) ==
    CASE tok.rule.strategy = "REDACT"  -> IF k = 0 THEN <<>> ELSE <<Placeholder>>
      [] tok.rule.strategy = "MASK"    ->
            IF k <= MaskCount(tok) THEN Masks(k)
            ELSE Masks(MaskCount(tok)) \o Slice(tok.start + MaskCount(tok), tok.start + k)
      [] tok.rule.strategy = "unknown" -> <<>>

\* A byte more of a token.
LEMMA PartGrows ==
    ASSUME NEW d, IsDocument(d), NEW i \in Matched(d), NEW tok, tok = d.tokens[i],
           NEW k \in 0..(tok.end - tok.start - 1)
    PROVE  PartOf(tok, k) \in Seq(Int)
           /\ PartOf(tok, k + 1) = PartOf(tok, k) \o RenderedIn(tok, tok.start + k)
<1> DEFINE m == MaskCount(tok)
           p == tok.start + k
<1>1. /\ tok.start \in Nat /\ tok.end \in Nat /\ tok.start < tok.end /\ k \in Nat
      /\ tok.rule.strategy \in {"REDACT", "MASK", "unknown"} /\ tok.rule.maxSize \in Int
  BY TokenFacts, MatchedFacts
<1>2. /\ m \in 1..(tok.end - tok.start)
      /\ k < m <=> (p = tok.start \/ p - tok.start < tok.rule.maxSize)
  BY <1>1 DEF MaskCount
<1>3. CASE tok.rule.strategy = "REDACT"
  <2>1. RenderedIn(tok, p) = IF k = 0 THEN <<Placeholder>> ELSE <<>>
    BY <1>1, <1>3 DEF RenderedIn
  <2>2. PartOf(tok, k) = (IF k = 0 THEN <<>> ELSE <<Placeholder>>) /\ PartOf(tok, k + 1) = <<Placeholder>>
    BY <1>1, <1>3 DEF PartOf
  <2>3. <<Placeholder>> \in Seq(Int) /\ <<>> \in Seq(Int)
    BY DEF Placeholder
  <2>4. <<Placeholder>> \o <<>> = <<Placeholder>> /\ <<>> \o <<Placeholder>> = <<Placeholder>>
    BY <2>3, ConcatEmptySeq
  <2>5. QED
    BY <2>1, <2>2, <2>3, <2>4, Zenon
<1>4. CASE tok.rule.strategy = "unknown"
  <2>1. RenderedIn(tok, p) = <<>> /\ PartOf(tok, k) = <<>> /\ PartOf(tok, k + 1) = <<>>
    BY <1>4 DEF RenderedIn, PartOf
  <2>2. <<>> \in Seq(Int) /\ <<>> \o <<>> = <<>>
    BY ConcatEmptySeq
  <2>3. QED
    BY <2>1, <2>2, Zenon
<1>5. CASE tok.rule.strategy = "MASK"
  <2> HIDE DEF m, p
  <2>1. /\ RenderedIn(tok, p) = IF k < m THEN <<MaskingChar>> ELSE <<p>>
        /\ \A j \in Nat : PartOf(tok, j) =
              IF j <= m THEN Masks(j) ELSE Masks(m) \o Slice(tok.start + m, tok.start + j)
    <3>1. RenderedIn(tok, p) = IF p = tok.start \/ p - tok.start < tok.rule.maxSize
                               THEN <<MaskingChar>> ELSE <<p>>
      BY <1>5 DEF RenderedIn
    <3>2. QED
      BY <1>2, <1>5, <3>1 DEF PartOf, m
  <2>2. /\ Masks(k) \in Seq(Int) /\ Masks(k + 1) = Masks(k) \o <<MaskingChar>>
        /\ Masks(m) \in Seq(Int)
    <3>1. m \in Nat
      BY <1>1, <1>2
    <3>2. QED
      BY <1>1, <3>1, MaskFacts
  <2>3. CASE k < m
    <3>1. k <= m /\ k + 1 <= m /\ k + 1 \in Nat
      BY <1>1, <1>2, <2>3
    <3>2. PartOf(tok, k) = Masks(k) /\ PartOf(tok, k + 1) = Masks(k + 1)
      BY <1>1, <2>1, <3>1
    <3>3. QED
      BY <2>1, <2>2, <2>3, <3>2 DEF p
  <2>4. CASE m <= k
    <3> DEFINE a == tok.start + m
    <3>1. /\ a \in Nat /\ p \in Nat /\ a <= p /\ ~(k + 1 <= m) /\ ~(k < m) /\ k + 1 \in Nat
          /\ tok.start + (k + 1) = p + 1
      BY <1>1, <1>2, <2>4 DEF p
    <3> HIDE DEF a
    <3>2. /\ Slice(a, p) \in Seq(Int) /\ Slice(a, p + 1) = Slice(a, p) \o <<p>> /\ <<p>> \in Seq(Int)
          /\ p <= a => Slice(a, p) = <<>>
      <4>1. <<p>> \in Seq(Int)
        BY <3>1
      <4>2. QED
        BY <3>1, <4>1, SliceFacts, Zenon
    <3>3. PartOf(tok, k + 1) = Masks(m) \o Slice(a, p + 1)
      BY <2>1, <3>1 DEF a
    <3>4. PartOf(tok, k) = Masks(m) \o Slice(a, p)
      <4>1. CASE k = m
        <5>1. p = a /\ p <= a
          BY <3>1, <4>1 DEF p, a
        <5>2. Slice(a, p) = <<>>
          BY <3>2, <5>1, Zenon
        <5>3. Masks(m) \o <<>> = Masks(m)
          BY <2>2, ConcatEmptySeq
        <5>4. PartOf(tok, k) = Masks(m)
          BY <1>1, <2>1, <2>4, <4>1
        <5>5. QED
          BY <5>2, <5>3, <5>4, Zenon
      <4>2. CASE m < k
        <5>1. ~(k <= m) /\ k \in Nat
          BY <1>1, <1>2, <4>2
        <5>2. QED
          BY <2>1, <5>1 DEF p, a
      <4>3. QED
        BY <1>1, <1>2, <2>4, <4>1, <4>2
    <3>5. (Masks(m) \o Slice(a, p)) \o <<p>> = Masks(m) \o (Slice(a, p) \o <<p>>)
      BY <2>2, <3>2, Associates
    <3>6. RenderedIn(tok, p) = <<p>>
      BY <2>1, <3>1
    <3>7. PartOf(tok, k) \in Seq(Int)
      BY <2>2, <3>2, <3>4, ConcatProperties
    <3>8. QED
      BY <3>2, <3>3, <3>4, <3>5, <3>6, <3>7 DEF p
  <2>5. QED
    BY <1>1, <1>2, <2>3, <2>4
<1>6. QED
  BY <1>1, <1>3, <1>4, <1>5

\* What applyActions writes for a token is the whole of it.
LEMMA PartIsReplacement ==
    ASSUME NEW d, IsDocument(d), NEW i \in Matched(d), NEW tok, tok = d.tokens[i]
    PROVE  /\ PartOf(tok, 0) = <<>>
           /\ PartOf(tok, tok.end - tok.start) = Replacement(tok)
           /\ Replacement(tok) \in Seq(Int)
<1> DEFINE m == MaskCount(tok)
           n == tok.end - tok.start
<1>1. /\ tok.start \in Nat /\ tok.end \in Nat /\ tok.start < tok.end /\ n \in Nat /\ n # 0
      /\ tok.rule.strategy \in {"REDACT", "MASK", "unknown"} /\ tok.rule.maxSize \in Int
  BY TokenFacts, MatchedFacts
<1>2. m \in 1..n /\ m \in Nat
  BY <1>1 DEF MaskCount
<1>3. CASE tok.rule.strategy = "REDACT"
  <2>1. <<Placeholder>> \in Seq(Int)
    BY DEF Placeholder
  <2>2. QED
    BY <1>1, <1>3, <2>1 DEF PartOf, Replacement
<1>4. CASE tok.rule.strategy = "unknown"
  BY <1>1, <1>4 DEF PartOf, Replacement
<1>5. CASE tok.rule.strategy = "MASK"
  <2>1. Masks(m) \in Seq(Int) /\ Masks(0) = <<>>
    BY <1>2, MaskFacts
  <2>2. Replacement(tok) = Masks(m) \o Slice(tok.start + m, tok.end)
    BY <1>5 DEF Replacement, Masks
  <2> HIDE DEF m
  <2>3. /\ Slice(tok.start + m, tok.end) \in Seq(Int)
        /\ tok.end <= tok.start + m => Slice(tok.start + m, tok.end) = <<>>
    <3>1. tok.start + m \in Nat
      BY <1>1, <1>2
    <3>2. QED
      BY <1>1, <3>1, SliceFacts, Zenon
  <2>4. PartOf(tok, 0) = <<>>
    BY <1>2, <1>5, <2>1 DEF PartOf, m
  <2>5. Replacement(tok) \in Seq(Int)
    BY <2>1, <2>2, <2>3, ConcatProperties
  <2>6. PartOf(tok, n) = Replacement(tok)
    <3>1. tok.start + n = tok.end
      BY <1>1
    <3>2. CASE n <= m
      <4>1. n = m /\ tok.end <= tok.start + m
        BY <1>1, <1>2, <3>2
      <4>2. PartOf(tok, n) = Masks(m)
        <5>1. PartOf(tok, n) = Masks(n)
          BY <1>5, <3>2 DEF PartOf, m
        <5>2. QED
          BY <4>1, <5>1, Zenon
      <4>3. Masks(m) \o <<>> = Masks(m)
        BY <2>1, ConcatEmptySeq
      <4>4. QED
        BY <2>2, <2>3, <4>1, <4>2, <4>3, Zenon
    <3>3. CASE ~(n <= m)
      <4>1. PartOf(tok, n) = Masks(m) \o Slice(tok.start + m, tok.start + n)
        BY <1>5, <3>3 DEF PartOf, m
      <4>2. QED
        BY <2>2, <3>1, <4>1
    <3>4. QED
      BY <3>2, <3>3
  <2>7. QED
    BY <2>4, <2>5, <2>6
<1>6. QED
  BY <1>1, <1>3, <1>4, <1>5

\* An anonymized token is rendered as applyActions writes it.
LEMMA TextInside ==
    ASSUME NEW d, IsDocument(d), NEW S \in SUBSET Matched(d), NEW i \in S
    PROVE  RenderedText(d, S)[d.tokens[i].end]
               = RenderedText(d, S)[d.tokens[i].start] \o Replacement(d.tokens[i])
<1> DEFINE T == RenderedText(d, S)
           tok == d.tokens[i]
           a == tok.start
           n == tok.end - a
           G == {k \in 0..n : T[a + k] = T[a] \o PartOf(tok, k)}
<1>1. i \in Matched(d)
  OBVIOUS
<1>2. /\ d.len \in Nat /\ a \in Nat /\ tok.end \in Nat /\ n \in Nat /\ n > 0
      /\ a + n = tok.end /\ tok.end <= d.len
  BY <1>1, MatchedFacts, TokenFacts
<1>3. /\ \A p \in 0..d.len : T[p] \in Seq(Int)
      /\ \A p \in 1..d.len : T[p] = T[p - 1] \o Rendered(d, S, p - 1)
  BY RenderedTextDef
<1>4. PartOf(tok, 0) = <<>> /\ PartOf(tok, n) = Replacement(tok)
  BY <1>1, PartIsReplacement
<1>5. \A k \in 0..(n - 1) :
          PartOf(tok, k) \in Seq(Int) /\ PartOf(tok, k + 1) = PartOf(tok, k) \o RenderedIn(tok, a + k)
  BY <1>1, PartGrows
<1>6. \A p \in Nat : a <= p /\ p < a + n =>
          Rendered(d, S, p) = RenderedIn(tok, p) /\ Rendered(d, S, p) \in Seq(Int)
  BY <1>2, RenderedFacts
<1> HIDE DEF T, tok, a, n
<1>7. 0 \in G
  <2>1. a + 0 = a /\ 0 \in 0..n /\ a \in 0..d.len
    BY <1>2
  <2>2. T[a] \o <<>> = T[a]
    BY <1>3, <2>1, ConcatEmptySeq
  <2>3. QED
    BY <1>4, <2>1, <2>2, Zenon
<1>8. ASSUME NEW k \in 0..(n - 1), k \in G
      PROVE  k + 1 \in G
  <2> DEFINE p == a + k
  <2>1. /\ p \in Nat /\ a <= p /\ p < a + n /\ p + 1 \in 1..d.len /\ (p + 1) - 1 = p
        /\ a + (k + 1) = p + 1 /\ k + 1 \in 0..n /\ a \in 0..d.len
    BY <1>2, <1>8
  <2>2. T[p] = T[a] \o PartOf(tok, k)
    BY <1>8
  <2>3. PartOf(tok, k) \in Seq(Int) /\ PartOf(tok, k + 1) = PartOf(tok, k) \o RenderedIn(tok, p)
    BY <1>5
  <2> HIDE DEF p
  <2>4. T[p + 1] = T[p] \o Rendered(d, S, p)
    BY <1>3, <2>1
  <2>5. Rendered(d, S, p) = RenderedIn(tok, p) /\ RenderedIn(tok, p) \in Seq(Int)
    BY <1>6, <2>1
  <2>6. T[a] \in Seq(Int)
    BY <1>3, <2>1
  <2>7. (T[a] \o PartOf(tok, k)) \o RenderedIn(tok, p) = T[a] \o (PartOf(tok, k) \o RenderedIn(tok, p))
    BY <2>3, <2>5, <2>6, Associates
  <2>8. T[p + 1] = T[a] \o PartOf(tok, k + 1)
    BY <2>2, <2>3, <2>4, <2>5, <2>7, Zenon
  <2>9. QED
    BY <2>1, <2>8, Zenon
<1> HIDE DEF G
<1>9. \A k \in 0..n : k \in G
  BY <1>2, <1>7, <1>8, UpTo
<1>10. n \in G
  BY <1>2, <1>9
<1>11. T[a + n] = T[a] \o PartOf(tok, n)
  BY <1>10 DEF G
<1>12. QED
  BY <1>2, <1>4, <1>11, Zenon DEF T, tok, a

\* The loop of applyActions is what its recursion says.
LEMMA WrittenDef ==
    ASSUME NEW d, IsDocument(d), NEW acts \in Seq(Matched(d))
    PROVE  /\ Written(d, acts)[0] = [text |-> <<>>, lastPos |-> 0]
           /\ \A k \in 1..Len(acts) :
                 Written(d, acts)[k] =
                     [text    |-> Written(d, acts)[k - 1].text
                                     \o Slice(Written(d, acts)[k - 1].lastPos, d.tokens[acts[k]].start)
                                     \o Replacement(d.tokens[acts[k]]),
                      lastPos |-> d.tokens[acts[k]].end]
<1> DEFINE n == Len(acts)
           V == [text : Seq(Int), lastPos : Nat]
           Step(w, k) == [text    |-> w.text \o Slice(w.lastPos, d.tokens[acts[k]].start)
                                             \o Replacement(d.tokens[acts[k]]),
                          lastPos |-> d.tokens[acts[k]].end]
           a == [text |-> <<>>, lastPos |-> 0]
           F == [x \in (1..n) \X V |-> Step(x[2], x[1])]
           Def(f) == f = [k \in 0..n |-> IF k = 0 THEN a ELSE Step(f[k - 1], k)]
           T == Written(d, acts)
<1>1. n \in Nat /\ a \in V
  OBVIOUS
<1>2. ASSUME NEW w \in V, NEW k \in 1..n PROVE Step(w, k) \in V
  <2>1. acts[k] \in Matched(d)
    OBVIOUS
  <2> DEFINE tok == d.tokens[acts[k]]
  <2>2. tok.start \in Nat /\ tok.end \in Nat
    BY <2>1, MatchedFacts, TokenFacts
  <2>3. Replacement(tok) \in Seq(Int)
    BY <2>1, PartIsReplacement
  <2>4. w.text \in Seq(Int) /\ w.lastPos \in Nat
    OBVIOUS
  <2> HIDE DEF tok
  <2>5. Slice(w.lastPos, tok.start) \in Seq(Int)
    BY <2>2, <2>4, SliceFacts
  <2>6. w.text \o Slice(w.lastPos, tok.start) \in Seq(Int)
    BY <2>4, <2>5, ConcatProperties
  <2>7. w.text \o Slice(w.lastPos, tok.start) \o Replacement(tok) \in Seq(Int)
    BY <2>3, <2>6, ConcatProperties
  <2>8. QED
    BY <2>2, <2>7 DEF tok
<1>3. (\E f : Def(f)) => Def(T)
  BY Zenon DEF Written
<1> HIDE DEF V, n, Step, T, a
<1>4. F \in [(1..n) \X V -> V]
  BY <1>2
<1>5. PICK f \in [0..n -> V] : Iterates(f, n, a, F)
  <2> HIDE DEF F
  <2>1. QED
    BY <1>1, <1>4, IterationExists
<1>6. ASSUME NEW k \in 1..n PROVE f[k] = Step(f[k - 1], k)
  <2>1. k - 1 \in 0..n
    BY <1>1
  <2>2. f[k] = F[<<k, f[k - 1]>>] /\ <<k, f[k - 1]>> \in (1..n) \X V
    BY <1>5, <2>1 DEF Iterates
  <2>3. QED
    BY <2>2
<1>7. Def(f)
  BY <1>1, <1>5, <1>6 DEF Iterates
<1>8. Def(T)
  <2> HIDE DEF Def
  <2>1. QED
    BY <1>3, <1>7
<1>9. T[0] = a /\ \A k \in 1..n : T[k] = Step(T[k - 1], k)
  BY <1>1, <1>8
<1>10. QED
  BY <1>9, Zenon DEF T, n, Step, a

Increasing(s) == \A i, j \in DOMAIN s : i < j => s[i] < s[j]

\* lastPos after k actions.
LastPos(d, acts, k) == IF k = 0 THEN 0 ELSE d.tokens[acts[k]].end

\* Between lastPos and the next action, or the end, there is no action.
LEMMA NothingBetween ==
    ASSUME NEW d, IsDocument(d), NEW acts \in Seq(Matched(d)), Increasing(acts),
           NEW k \in 0..Len(acts), NEW b,
           b = IF k < Len(acts) THEN d.tokens[acts[k + 1]].start ELSE d.len
    PROVE  Clear(d, Range(acts), LastPos(d, acts, k), b)
<1> DEFINE n == Len(acts)
           t == d.tokens
           a == LastPos(d, acts, k)
<1>1. n \in Nat /\ DOMAIN acts = 1..n /\ d.len \in Nat /\ k \in Nat
  BY TokenFacts
<1>2. \A j \in 1..n : acts[j] \in 1..Len(t)
  <2>1. \A j \in 1..n : acts[j] \in Matched(d)
    BY <1>1
  <2>2. QED
    BY <2>1, MatchedFacts
<1>3. \A j \in 1..n : /\ t[acts[j]].start \in Nat /\ t[acts[j]].end \in Nat
                      /\ t[acts[j]].start < t[acts[j]].end /\ t[acts[j]].end <= d.len
  BY <1>2, TokenFacts
<1>4. \A i, j \in 1..n : i < j => t[acts[i]].end < t[acts[j]].start
  <2>1. \A i, j \in 1..n : i < j => acts[i] < acts[j]
    BY <1>1 DEF Increasing
  <2>2. QED
    BY <1>2, <2>1, TokensApart
<1>5. a \in 0..d.len
  BY <1>1, <1>3 DEF LastPos
<1>6. b \in a..d.len
  <2>1. CASE k < n
    <3>1. k + 1 \in 1..n /\ b = t[acts[k + 1]].start
      BY <1>1, <2>1
    <3>2. CASE k = 0
      BY <1>1, <1>3, <3>1, <3>2 DEF LastPos
    <3>3. CASE k # 0
      <4>1. k \in 1..n /\ k < k + 1 /\ a = t[acts[k]].end
        BY <1>1, <3>3 DEF LastPos
      <4>2. a < b
        BY <1>4, <3>1, <4>1
      <4>3. b \in Nat /\ b <= d.len
        BY <1>1, <1>3, <3>1
      <4>4. QED
        BY <1>1, <1>5, <4>2, <4>3
    <3>4. QED
      BY <3>2, <3>3
  <2>2. CASE ~(k < n)
    BY <1>1, <1>5, <2>2
  <2>3. QED
    BY <2>1, <2>2
<1>7. ASSUME NEW i \in Range(acts) PROVE t[i].end <= a \/ b <= t[i].start
  <2>1. PICK j \in 1..n : i = acts[j]
    BY <1>1 DEF Range
  <2>2. CASE j <= k
    <3>1. k \in 1..n /\ a = t[acts[k]].end
      BY <1>1, <2>2 DEF LastPos
    <3>2. j = k \/ t[acts[j]].end < t[acts[k]].start
      BY <1>1, <1>4, <2>2, <3>1
    <3>3. QED
      BY <1>3, <2>1, <3>1, <3>2
  <2>3. CASE k < j
    <3>1. k + 1 \in 1..n /\ b = t[acts[k + 1]].start
      BY <1>1, <2>3
    <3>2. j = k + 1 \/ t[acts[k + 1]].end < t[acts[j]].start
      BY <1>1, <1>4, <2>3, <3>1
    <3>3. QED
      BY <1>3, <2>1, <3>1, <3>2
  <2>4. QED
    BY <1>1, <2>2, <2>3
<1>8. QED
  BY <1>5, <1>6, <1>7 DEF Clear

\* applyActions, given the actions in the order of the text, writes every byte
\* once and in its place, the anonymized ones as their strategy says.
LEMMA AppliedIsRendered ==
    ASSUME NEW d, IsDocument(d), NEW acts \in Seq(Matched(d)), Increasing(acts)
    PROVE  applyActions(d, acts) = RenderedText(d, Range(acts))[d.len]
<1> DEFINE n == Len(acts)
           S == Range(acts)
           T == RenderedText(d, S)
           W == Written(d, acts)
           L(k) == LastPos(d, acts, k)
           G == {k \in 0..n : W[k] = [text |-> T[L(k)], lastPos |-> L(k)]}
<1>1. n \in Nat /\ DOMAIN acts = 1..n /\ d.len \in Nat /\ S \in SUBSET Matched(d)
  BY TokenFacts DEF Range
<1>2. T[0] = <<>> /\ \A p \in 0..d.len : T[p] \in Seq(Int)
  BY <1>1, RenderedTextDef
<1>3. 0 \in G
  <2>1. W[0] = [text |-> <<>>, lastPos |-> 0]
    BY WrittenDef, Zenon
  <2>2. L(0) = 0 /\ 0 \in 0..n
    BY <1>1 DEF LastPos
  <2>3. QED
    BY <1>2, <2>1, <2>2, Zenon
<1>4. ASSUME NEW k \in 0..(n - 1), k \in G
      PROVE  k + 1 \in G
  <2> DEFINE i == acts[k + 1]
             tok == d.tokens[i]
             a == L(k)
  <2>1. k + 1 \in 1..n /\ k \in 0..n /\ k < n /\ (k + 1) - 1 = k /\ k + 1 \in 0..n /\ k + 1 # 0
    BY <1>1
  <2>2. i \in S /\ i \in Matched(d)
    BY <1>1, <2>1 DEF Range
  <2>3. L(k + 1) = tok.end
    BY <2>1 DEF LastPos
  <2>4. W[k] = [text |-> T[a], lastPos |-> a]
    BY <1>4
  <2>5. W[k + 1] = [text    |-> W[k].text \o Slice(W[k].lastPos, tok.start) \o Replacement(tok),
                    lastPos |-> tok.end]
    BY <2>1, WrittenDef
  <2>6. Clear(d, S, a, tok.start)
    BY <2>1, NothingBetween
  <2>7. T[tok.end] = T[tok.start] \o Replacement(tok)
    BY <1>1, <2>2, TextInside
  <2> HIDE DEF T, W, S, tok, a, i
  <2>8. T[tok.start] = T[a] \o Slice(a, tok.start)
    <3>1. Copied(d, S, a, tok.start)
      BY <1>1, <2>6, TextOutside
    <3>2. QED
      BY <3>1, Zenon DEF Copied, T
  <2>9. W[k].text = T[a] /\ W[k].lastPos = a
    BY <2>4
  <2>10. W[k + 1] = [text |-> T[tok.end], lastPos |-> tok.end]
    BY <2>5, <2>7, <2>8, <2>9, Zenon
  <2>11. QED
    BY <2>1, <2>3, <2>10, Zenon
<1>5. n \in G
  <2> HIDE DEF G, n
  <2>1. \A k \in 0..n : k \in G
    BY <1>1, <1>3, <1>4, UpTo
  <2>2. QED
    BY <1>1, <2>1
<1>6. W[n] = [text |-> T[L(n)], lastPos |-> L(n)]
  BY <1>5
<1>7. T[d.len] = T[L(n)] \o Slice(L(n), d.len)
  <2> DEFINE a == L(n)
  <2>1. Clear(d, S, a, d.len)
    <3>1. n \in 0..n /\ ~(n < n)
      BY <1>1
    <3>2. QED
      BY <3>1, NothingBetween
  <2> HIDE DEF a, S
  <2>2. QED
    <3>1. Copied(d, S, a, d.len)
      BY <1>1, <2>1, TextOutside
    <3>2. QED
      BY <3>1, Zenon DEF Copied, a
<1>8. applyActions(d, acts) = W[n].text \o Slice(W[n].lastPos, d.len)
  BY Zenon DEF applyActions
<1> HIDE DEF T, W, L
<1>9. W[n].text = T[L(n)] /\ W[n].lastPos = L(n)
  BY <1>6
<1>10. QED
  BY <1>7, <1>8, <1>9, Zenon DEF T

\* Without actions the input is copied.
LEMMA CopyIsRendered ==
    ASSUME NEW d, IsDocument(d)
    PROVE  Slice(0, d.len) = RenderedText(d, {})[d.len]
<1> DEFINE T == RenderedText(d, {})
<1>1. d.len \in Nat /\ {} \in SUBSET Matched(d) /\ Clear(d, {}, 0, d.len)
  BY TokenFacts DEF Clear
<1>2. T[0] = <<>>
  BY <1>1, RenderedTextDef
<1>3. T[d.len] = T[0] \o Slice(0, d.len)
  <2>1. Copied(d, {}, 0, d.len)
    BY <1>1, TextOutside
  <2>2. QED
    BY <2>1, Zenon DEF Copied
<1>4. Slice(0, d.len) \in Seq(Int)
  BY <1>1, SliceFacts
<1> HIDE DEF T
<1>5. <<>> \o Slice(0, d.len) = Slice(0, d.len)
  BY <1>4, ConcatEmptySeq
<1>6. QED
  BY <1>2, <1>3, <1>5, Zenon DEF T

\* Every set of token numbers can be listed in increasing order.
LEMMA ListExists ==
    ASSUME NEW n \in Nat, NEW S \in SUBSET (1..n)
    PROVE  \E m \in Nat : \E s \in [1..m -> S] : Increasing(s) /\ Range(s) = S
<1> DEFINE Listed(k) == \E m \in Nat : \E s \in [1..m -> S \cap (1..k)] :
                            Increasing(s) /\ Range(s) = S \cap (1..k)
           G == {k \in 0..n : Listed(k)}
<1>1. 0 \in G
  <2> DEFINE e == [i \in 1..0 |-> 1]
  <2>1. S \cap (1..0) = {} /\ e \in [1..0 -> S \cap (1..0)] /\ Increasing(e) /\ Range(e) = {}
    BY DEF Increasing, Range
  <2> HIDE DEF e
  <2>2. Listed(0)
    BY <2>1
  <2>3. QED
    BY <2>2
<1>2. ASSUME NEW k \in 0..(n - 1), k \in G
      PROVE  k + 1 \in G
  <2>0. PICK m \in Nat : \E s \in [1..m -> S \cap (1..k)] :
                            Increasing(s) /\ Range(s) = S \cap (1..k)
    BY <1>2
  <2>1. PICK s \in [1..m -> S \cap (1..k)] : Increasing(s) /\ Range(s) = S \cap (1..k)
    BY <2>0
  <2>2. CASE k + 1 \notin S
    <3>1. S \cap (1..(k + 1)) = S \cap (1..k)
      BY <2>2
    <3>2. QED
      BY <2>1, <3>1
  <2>3. CASE k + 1 \in S
    <3> DEFINE t == [i \in 1..(m + 1) |-> IF i = m + 1 THEN k + 1 ELSE s[i]]
    <3>1. S \cap (1..(k + 1)) = (S \cap (1..k)) \cup {k + 1}
      BY <2>3
    <3>2. \A i \in 1..m : s[i] \in S /\ s[i] \in 1..k /\ t[i] = s[i]
      BY <2>1
    <3>3. t[m + 1] = k + 1 /\ DOMAIN t = 1..(m + 1)
      OBVIOUS
    <3>4. t \in [1..(m + 1) -> S \cap (1..(k + 1))]
      BY <2>3, <3>2
    <3> HIDE DEF t
    <3>5. Increasing(t)
      <4>1. ASSUME NEW i \in 1..(m + 1), NEW j \in 1..(m + 1), i < j PROVE t[i] < t[j]
        <5>1. CASE j = m + 1
          BY <3>2, <3>3, <4>1, <5>1
        <5>2. CASE j # m + 1
          <6>1. i \in 1..m /\ j \in 1..m
            BY <4>1, <5>2
          <6>2. s[i] < s[j]
            BY <2>1, <4>1, <6>1 DEF Increasing
          <6>3. QED
            BY <3>2, <6>1, <6>2
        <5>3. QED
          BY <5>1, <5>2
      <4>2. QED
        BY <3>3, <4>1 DEF Increasing
    <3>6. Range(t) = S \cap (1..(k + 1))
      <4>1. Range(t) = {s[i] : i \in 1..m} \cup {k + 1}
        <5>1. \A i \in 1..(m + 1) : i = m + 1 \/ i \in 1..m
          OBVIOUS
        <5>2. \A i \in 1..m : i \in 1..(m + 1)
          OBVIOUS
        <5>3. m + 1 \in 1..(m + 1)
          OBVIOUS
        <5>4. Range(t) = {t[i] : i \in 1..(m + 1)}
          BY <3>3, Zenon DEF Range
        <5>5. \A i \in 1..m : t[i] = s[i]
          BY <3>2
        <5>6. QED
          BY <3>3, <5>1, <5>2, <5>3, <5>4, <5>5, Zenon
      <4>2. {s[i] : i \in 1..m} = S \cap (1..k)
        BY <2>1 DEF Range
      <4>3. QED
        BY <3>1, <4>1, <4>2
    <3>7. QED
      BY <3>4, <3>5, <3>6
  <2>4. QED
    BY <2>2, <2>3
<1>3. n \in G
  <2> HIDE DEF G
  <2>1. \A k \in 0..n : k \in G
    BY <1>1, <1>2, UpTo
  <2>2. QED
    BY <2>1
<1>4. S \cap (1..n) = S
  OBVIOUS
<1>5. QED
  BY <1>3, <1>4

\* A list without repetitions is as long as the set of its elements.
LEMMA DistinctLength ==
    ASSUME NEW m \in Nat, NEW T, NEW s \in [1..m -> T],
           \A i, j \in 1..m : s[i] = s[j] => i = j
    PROVE  IsFiniteSet(Range(s)) /\ Cardinality(Range(s)) = m
<1>1. s \in Bijection(1..m, Range(s))
  BY DEF Bijection, Injection, Surjection, IsInjective, Range
<1>2. ExistsBijection(1..m, Range(s))
  BY <1>1 DEF ExistsBijection
<1>3. IsFiniteSet(1..m) /\ Cardinality(1..m) = m
  BY FS_Interval
<1>4. QED
  BY <1>2, <1>3, FS_Bijection

\* Sorting a list without repetitions puts it in increasing order.
LEMMA SortedIsIncreasing ==
    ASSUME NEW n \in Nat, NEW acts \in Seq(1..n),
           \A i, j \in DOMAIN acts : acts[i] = acts[j] => i = j
    PROVE  /\ SortByStart(acts) \in Seq(Range(acts))
           /\ Increasing(SortByStart(acts))
           /\ Range(SortByStart(acts)) = Range(acts)
           /\ SortByStart(acts) = <<>> <=> acts = <<>>
<1> DEFINE S == Range(acts)
           m == Len(acts)
           Sorted(s) == (\A i, j \in DOMAIN s : i < j => s[i] <= s[j]) /\ Range(s) = S
           r == SortByStart(acts)
<1>1. /\ m \in Nat /\ DOMAIN acts = 1..m /\ S \in SUBSET (1..n) /\ acts \in [1..m -> 1..n]
  BY DEF Range
<1>2. IsFiniteSet(S) /\ Cardinality(S) = m
  BY <1>1, DistinctLength
<1>3. \E s \in [1..m -> S] : Sorted(s)
  <2>0. PICK k \in Nat : \E s \in [1..k -> S] : Increasing(s) /\ Range(s) = S
    BY <1>1, ListExists
  <2>1. PICK s \in [1..k -> S] : Increasing(s) /\ Range(s) = S
    BY <2>0
  <2>2. \A i \in 1..k : s[i] \in Nat
    BY <1>1, <2>1
  <2>3. \A i, j \in 1..k : s[i] = s[j] => i = j
    BY <2>1, <2>2 DEF Increasing
  <2>4. k = m
    BY <1>2, <2>1, <2>3, DistinctLength
  <2>5. \A i, j \in DOMAIN s : i < j => s[i] <= s[j]
    BY <2>1, <2>2 DEF Increasing
  <2>6. QED
    BY <2>1, <2>4, <2>5
<1>4. r \in [1..m -> S] /\ Sorted(r)
  BY <1>3, Zenon DEF SortByStart
<1> HIDE DEF r
<1>5. r \in Injection(1..m, S)
  <2>1. r \in Surjection(1..m, S)
    BY <1>4 DEF Surjection, Range
  <2>2. IsFiniteSet(1..m) /\ Cardinality(1..m) = m
    <3> HIDE DEF m
    <3>1. QED
      BY <1>1, FS_Interval
  <2>3. QED
    BY <1>2, <2>1, <2>2, FS_SurjSameCardinalityImpliesInj
<1>6. Increasing(r)
  <2>1. ASSUME NEW i \in 1..m, NEW j \in 1..m, i < j PROVE r[i] < r[j]
    <3>1. r[i] <= r[j] /\ r[i] \in Nat /\ r[j] \in Nat
      <4> HIDE DEF m, S
      <4>1. DOMAIN r = 1..m /\ r[i] \in S /\ r[j] \in S
        BY <1>4, <2>1
      <4>2. r[i] <= r[j]
        BY <1>4, <2>1, <4>1
      <4>3. \A x \in S : x \in Nat
        BY <1>1
      <4>4. QED
        BY <4>1, <4>2, <4>3, Zenon
    <3>2. r[i] # r[j]
      BY <1>1, <1>5, <2>1 DEF Injection, IsInjective
    <3>3. QED
      BY <3>1, <3>2
  <2>2. QED
    BY <1>4, <2>1 DEF Increasing
<1>7. r \in Seq(S) /\ Len(r) = m
  <2>1. r \in [1..m -> S] /\ m \in Nat
    BY <1>1, <1>4
  <2> HIDE DEF m, S
  <2>2. QED
    BY <2>1
<1>8. r = <<>> <=> acts = <<>>
  BY <1>1, <1>7
<1>9. QED
  BY <1>4, <1>6, <1>7, <1>8 DEF r

-----------------------------------------------------------------------------
(* The invariant of the output.                                            *)

\* A token is an action once and only when it is finished, in the loop one
\* after the other; an idle call has written nothing, one that is done the
\* text with its actions rendered.
OutputOK(c) ==
    /\ \A j, k \in DOMAIN actions[c] : actions[c][j] = actions[c][k] => j = k
    /\ \A i \in Range(actions[c]) : task[c][i] = "finished"
    /\ pools.token = 0 => Increasing(actions[c])
    /\ pc[c] \in {"loop", "submit", "wait"} => doc[c].anyRules
    /\ pc[c] = "idle" => output[c] = <<>>
    /\ pc[c] = "done" => output[c] = Expected(doc[c], Anonymized(c))

OutputInv == output \in [Calls -> Seq(Int)] /\ \A c \in Calls : OutputOK(c)

\* A call keeps its part when its actions and its output stay, its finished
\* tokens stay finished and it does not go on to be done.
LEMMA OutputKept ==
    ASSUME NEW c \in Calls, OutputOK(c), doc' = doc, output'[c] = output[c],
           actions'[c] = actions[c], pools'.token = 0 => pools.token = 0,
           \A i \in Range(actions[c]) : task[c][i] = "finished" => task'[c][i] = "finished",
           pc'[c] \in {"loop", "submit", "wait"} => doc[c].anyRules,
           pc'[c] \in {"idle", "done"} => pc'[c] = pc[c]
    PROVE  OutputOK(c)'
<1>1. Anonymized(c)' = Anonymized(c)
  BY DEF Anonymized
<1>2. (\A i \in Range(actions[c]) : task[c][i] = "finished")'
  BY DEF OutputOK
<1>3. (\A j, k \in DOMAIN actions[c] : actions[c][j] = actions[c][k] => j = k)'
  BY Zenon DEF OutputOK
<1>4. (pools.token = 0 => Increasing(actions[c]))'
  BY Zenon DEF OutputOK
<1>5. (pc[c] = "done" => output[c] = Expected(doc[c], Anonymized(c)))'
  BY <1>1, Zenon DEF OutputOK
<1>6. QED
  BY <1>2, <1>3, <1>4, <1>5 DEF OutputOK

\* The other calls keep theirs in a step of call c.
LEMMA OutputOthers ==
    ASSUME OutputInv, NEW c \in Calls, UNCHANGED <<pools, doc>>,
           output' \in [Calls -> Seq(Int)],
           \A b \in Calls \ {c} : /\ pc'[b] = pc[b] /\ task'[b] = task[b]
                                  /\ actions'[b] = actions[b] /\ output'[b] = output[b],
           OutputOK(c)'
    PROVE  OutputInv'
<1>1. ASSUME NEW b \in Calls, b # c PROVE OutputOK(b)'
  <2>1. /\ pc'[b] = pc[b] /\ task'[b] = task[b]
        /\ actions'[b] = actions[b] /\ output'[b] = output[b]
    BY <1>1
  <2>2. OutputOK(b)
    BY DEF OutputInv
  <2>3. pc'[b] \in {"loop", "submit", "wait"} => doc[b].anyRules
    BY <2>1, <2>2 DEF OutputOK
  <2>4. QED
    BY <2>1, <2>2, <2>3, OutputKept
<1>2. QED
  BY <1>1 DEF OutputInv

\* A step that leaves documents, actions, output and what is finished alone.
LEMMA OutputStays ==
    ASSUME OutputInv, AnalyzerInv, UNCHANGED <<doc, pc, actions, output>>,
           pools'.token = 0 => pools.token = 0,
           \A c \in Calls, i \in 1..MaxTokens :
               task[c][i] = "finished" => task'[c][i] = "finished"
    PROVE  OutputInv'
<1>1. ASSUME NEW c \in Calls PROVE OutputOK(c)'
  <2>1. OutputOK(c) /\ Range(actions[c]) \subseteq 1..MaxTokens
    BY TypesFollow DEF OutputInv, TypeOK
  <2>2. pc'[c] \in {"loop", "submit", "wait"} => doc[c].anyRules
    BY <2>1 DEF OutputOK
  <2>3. QED
    BY <2>1, <2>2, OutputKept
<1>2. QED
  BY <1>1 DEF OutputInv

\* A call begins, or returns at once with nothing written: without data there
\* is nothing to render.
LEMMA AnonymizeOutput ==
    ASSUME OutputInv, AnalyzerInv, NEW c \in Calls, Anonymize(c)
    PROVE  OutputInv'
<1>1. /\ UNCHANGED <<pools, doc, task, actions, output>> /\ pc[c] = "idle" /\ VarTypes
      /\ OutputOK(c) /\ output \in [Calls -> Seq(Int)]
  BY DEF Anonymize, AnalyzerInv, OutputInv
<1>2. /\ pc'[c] = IF doc[c].len = 0 \/ ~doc[c].anyRules THEN "done"
                  ELSE IF pools.token > 0 THEN "submit" ELSE "loop"
      /\ \A b \in Calls \ {c} : pc'[b] = pc[b]
  BY <1>1 DEF Anonymize, VarTypes
<1>3. CASE doc[c].len = 0 \/ ~doc[c].anyRules
  <2>1. pc'[c] = "done" /\ output'[c] = <<>>
    BY <1>1, <1>2, <1>3 DEF OutputOK
  <2>2. IsDocument(doc[c]) /\ Anonymized(c) \in SUBSET Matched(doc[c])
    BY <1>1, DocumentsAssumption DEF VarTypes, AnalyzerInv, AnalyzerOK, ActionsOK, Anonymized
  <2>3. RenderedText(doc[c], Anonymized(c))[0] = <<>>
    BY <2>2, RenderedTextDef
  <2>4. Expected(doc[c], Anonymized(c)) = <<>>
    BY <1>3, <2>3 DEF Expected
  <2>5. Anonymized(c)' = Anonymized(c)
    BY <1>1 DEF Anonymized
  <2>6. (pc[c] = "done" => output[c] = Expected(doc[c], Anonymized(c)))'
    BY <1>1, <2>1, <2>4, <2>5, Zenon
  <2>7. /\ (\A j, k \in DOMAIN actions[c] : actions[c][j] = actions[c][k] => j = k)'
        /\ (\A i \in Range(actions[c]) : task[c][i] = "finished")'
        /\ (pools.token = 0 => Increasing(actions[c]))'
    BY <1>1, Zenon DEF OutputOK
  <2>8. OutputOK(c)'
    BY <2>1, <2>6, <2>7 DEF OutputOK
  <2>9. QED
    BY <1>1, <1>2, <2>8, OutputOthers
<1>4. CASE ~(doc[c].len = 0 \/ ~doc[c].anyRules)
  <2>1. pc'[c] \in {"submit", "loop"} /\ doc[c].anyRules
    BY <1>2, <1>4
  <2>2. OutputOK(c)'
    BY <1>1, <2>1, OutputKept
  <2>3. QED
    BY <1>1, <1>2, <2>2, OutputOthers
<1>5. QED
  BY <1>3, <1>4

\* What a call writes from a list of its actions in increasing order.
LEMMA FinishOutput ==
    ASSUME OutputInv, AnalyzerInv, NEW c \in Calls, NEW acts \in Seq(Matched(doc[c])),
           Increasing(acts), Range(acts) = Range(actions[c]),
           pc[c] \in {"loop", "wait"}, Finish(c, acts)
    PROVE  OutputInv'
<1> DEFINE d == doc[c]
           text == IF acts # <<>> THEN applyActions(d, acts) ELSE Slice(0, d.len)
<1>1. /\ UNCHANGED <<pools, doc, task, actions>> /\ VarTypes /\ OutputOK(c)
      /\ output \in [Calls -> Seq(Int)] /\ d.anyRules
  BY DEF Finish, AnalyzerInv, OutputInv, OutputOK
<1>2. IsDocument(d) /\ Range(acts) \in SUBSET Matched(d) /\ d.len \in Nat
  BY <1>1, DocumentsAssumption, RangeOfSeq DEF VarTypes, IsDocument
<1>3. text = RenderedText(d, Range(acts))[d.len]
  <2>1. CASE acts # <<>>
    BY <1>2, <2>1, AppliedIsRendered
  <2>2. CASE acts = <<>>
    <3>1. Range(acts) = {}
      BY <2>2 DEF Range
    <3>2. QED
      BY <1>2, <2>2, <3>1, CopyIsRendered
  <2>3. QED
    BY <2>1, <2>2
<1>4. text = Expected(d, Anonymized(c))
  BY <1>1, <1>3, Zenon DEF Expected, Anonymized
<1>5. text \in Seq(Int)
  <2>1. RenderedText(d, Range(acts))[d.len] \in Seq(Int)
    <3>1. d.len \in 0..d.len
      BY <1>2
    <3>2. QED
      BY <1>2, <3>1, RenderedTextDef
  <2>2. QED
    BY <1>3, <2>1, Zenon
<1>6. /\ output' = [output EXCEPT ![c] = text]
      /\ pc' = [pc EXCEPT ![c] = "done"]
  BY DEF Finish
<1> HIDE DEF text
<1>7. /\ output' \in [Calls -> Seq(Int)] /\ output'[c] = text /\ pc'[c] = "done"
      /\ \A b \in Calls \ {c} : pc'[b] = pc[b] /\ output'[b] = output[b]
  BY <1>1, <1>5, <1>6 DEF VarTypes
<1>8. Anonymized(c)' = Anonymized(c)
  BY <1>1 DEF Anonymized
<1>9. (output[c] = Expected(doc[c], Anonymized(c)))'
  BY <1>1, <1>4, <1>7, <1>8, Zenon
<1>10. /\ (\A j, k \in DOMAIN actions[c] : actions[c][j] = actions[c][k] => j = k)'
       /\ (\A i \in Range(actions[c]) : task[c][i] = "finished")'
       /\ (pools.token = 0 => Increasing(actions[c]))'
  BY <1>1, Zenon DEF OutputOK
<1>11. OutputOK(c)'
  BY <1>7, <1>9, <1>10 DEF OutputOK
<1>12. QED
  BY <1>1, <1>7, <1>11, OutputOthers

\* anonymizeSequential writes its actions as they are, in increasing order.
LEMMA LoopDoneOutput ==
    ASSUME OutputInv, AnalyzerInv, NEW c \in Calls, LoopDone(c)
    PROVE  OutputInv'
<1>1. /\ pc[c] = "loop" /\ pools.token = 0 /\ OutputOK(c) /\ VarTypes
      /\ Range(actions[c]) \subseteq Matched(doc[c]) /\ actions[c] \in Seq(1..MaxTokens)
  BY DEF LoopDone, AnalyzerInv, AnalyzerOK, CallOK, ActionsOK, OutputInv, VarTypes
<1>2. Increasing(actions[c])
  BY <1>1 DEF OutputOK
<1>3. actions[c] \in Seq(Matched(doc[c]))
  <2>1. \A k \in 1..Len(actions[c]) : actions[c][k] \in Matched(doc[c])
    BY <1>1 DEF Range
  <2>2. QED
    BY <1>1, <2>1, SeqDef
<1>4. QED
  BY <1>1, <1>2, <1>3, FinishOutput DEF LoopDone

\* anonymizeConcurrent sorts them first, whatever order they came in.
LEMMA WaitDoneOutput ==
    ASSUME OutputInv, AnalyzerInv, NEW c \in Calls, WaitDone(c)
    PROVE  OutputInv'
<1> DEFINE acts == SortByStart(actions[c])
<1>1. /\ pc[c] = "wait" /\ OutputOK(c) /\ MaxTokens \in Nat
      /\ Range(actions[c]) \subseteq Matched(doc[c]) /\ actions[c] \in Seq(1..MaxTokens)
  BY LongestDocument
     DEF WaitDone, AnalyzerInv, AnalyzerOK, ActionsOK, OutputInv, VarTypes
<1>2. \A j, k \in DOMAIN actions[c] : actions[c][j] = actions[c][k] => j = k
  BY <1>1, Zenon DEF OutputOK
<1>3. /\ acts \in Seq(Range(actions[c])) /\ Increasing(acts)
      /\ Range(acts) = Range(actions[c])
  BY <1>1, <1>2, SortedIsIncreasing
<1> HIDE DEF acts
<1>4. acts \in Seq(Matched(doc[c]))
  <2>1. \A k \in 1..Len(acts) : acts[k] \in Matched(doc[c])
    BY <1>1, <1>3
  <2>2. QED
    BY <1>3, <2>1, SeqDef
<1>5. QED
  BY <1>1, <1>3, <1>4, FinishOutput DEF WaitDone, acts

\* A recorded match is appended: it was open, so it is no action yet, and in
\* the loop every action is before it.
LEMMA RecordOutput ==
    ASSUME OutputInv, AnalyzerInv, NEW c \in Calls, NEW i \in 1..MaxTokens, NEW answer,
           task[c][i] \notin {"none", "finished"}, Record(c, i, answer)
    PROVE  OutputInv'
<1> DEFINE s == actions[c]
           t == actions'[c]
<1>1. /\ UNCHANGED <<pools, doc, pc, output>> /\ VarTypes /\ OutputOK(c) /\ TasksOK(c)
      /\ output \in [Calls -> Seq(Int)] /\ task' = [task EXCEPT ![c][i] = "finished"]
      /\ s \in Seq(1..MaxTokens) /\ Range(s) \subseteq 1..MaxTokens
  BY TypesFollow DEF Record, AnalyzerInv, AnalyzerOK, OutputInv, VarTypes, TypeOK
<1>2. /\ pc[c] \in {"loop", "submit", "wait"}
      /\ \A j \in 1..MaxTokens : task'[c][j] = IF j = i THEN "finished" ELSE task[c][j]
      /\ \A b \in Calls \ {c} : task'[b] = task[b]
  BY <1>1, TaskEnds
<1>3. \A b \in Calls \ {c} : /\ pc'[b] = pc[b] /\ task'[b] = task[b]
                             /\ actions'[b] = actions[b] /\ output'[b] = output[b]
  BY <1>1, <1>2 DEF Record, VarTypes
<1>4. CASE t = s
  <2>1. \A j \in Range(s) : task[c][j] = "finished" => task'[c][j] = "finished"
    BY <1>1, <1>2
  <2>2. doc[c].anyRules /\ pc'[c] = pc[c] /\ output'[c] = output[c]
    BY <1>1, <1>2 DEF OutputOK
  <2>3. OutputOK(c)'
    BY <1>1, <1>4, <2>1, <2>2, OutputKept
  <2>4. QED
    BY <1>1, <1>3, <2>3, OutputOthers
<1>5. CASE t = Append(s, i)
  <2>1. /\ Len(s) \in Nat /\ DOMAIN s = 1..Len(s)
        /\ DOMAIN t = 1..(Len(s) + 1)
        /\ \A k \in 1..Len(s) : t[k] = s[k]
        /\ t[Len(s) + 1] = i
    BY <1>1, <1>5, AppendProperties, LenProperties
  <2>2. \A k \in 1..Len(s) : s[k] \in 1..MaxTokens /\ task[c][s[k]] = "finished"
    BY <1>1, <2>1 DEF OutputOK, Range
  <2>3. \A k \in 1..Len(s) : s[k] # i
    BY <2>2
  <2>4. \A j, k \in 1..Len(s) : s[j] = s[k] => j = k
    BY <1>1, <2>1, Zenon DEF OutputOK
  <2> HIDE DEF s, t
  <2>5. \A j, k \in DOMAIN t : t[j] = t[k] => j = k
    BY <2>1, <2>3, <2>4
  <2>6. \A j \in Range(t) : task'[c][j] = "finished"
    BY <1>2, <2>1, <2>2 DEF Range
  <2>7. ASSUME pools.token = 0 PROVE Increasing(t)
    <3>1. next[c] \in Nat /\ i + 1 >= next[c] /\ MaxTokens \in Nat
      BY <1>1, <2>7, LongestDocument DEF TasksOK, VarTypes
    <3>2. \A k \in 1..Len(s) : s[k] < next[c]
      <4> SUFFICES ASSUME NEW k \in 1..Len(s) PROVE s[k] < next[c]
        OBVIOUS
      <4>1. s[k] \in 1..MaxTokens /\ task[c][s[k]] # "none"
        BY <2>2
      <4>2. ~(s[k] >= next[c])
        BY <1>1, <4>1 DEF TasksOK
      <4>3. QED
        BY <3>1, <4>1, <4>2
    <3>3. \A k \in 1..Len(s) : s[k] < i
      BY <2>2, <2>3, <3>1, <3>2
    <3>4. \A j, k \in 1..Len(s) : j < k => s[j] < s[k]
      BY <1>1, <2>1, <2>7 DEF OutputOK, Increasing, s
    <3>5. QED
      BY <2>1, <3>3, <3>4 DEF Increasing
  <2>8. doc[c].anyRules /\ pc'[c] = pc[c] /\ pc[c] \notin {"idle", "done"}
    BY <1>1, <1>2 DEF OutputOK
  <2>9. OutputOK(c)'
    BY <1>1, <2>5, <2>6, <2>7, <2>8 DEF OutputOK, t
  <2>10. QED
    BY <1>1, <1>3, <2>9, OutputOthers
<1>6. t = s \/ t = Append(s, i)
  BY <1>1 DEF Record, VarTypes
<1>7. QED
  BY <1>4, <1>5, <1>6

\* Whatever happens to a token.
LEMMA TaskStepOutput ==
    ASSUME OutputInv, AnalyzerInv, NEW c \in Calls, NEW i \in 1..MaxTokens, TaskStep(c, i)
    PROVE  OutputInv'
<1>1. /\ task[c][i] \notin {"none", "finished"}
      /\ \/ \E answer : Record(c, i, answer)
         \/ /\ \E s \in TaskStates : task' = [task EXCEPT ![c][i] = s]
            /\ UNCHANGED <<pools, doc, pc, actions, output>>
         \/ /\ task' = [task EXCEPT ![c][i] = "finished"]
            /\ pc' = [pc EXCEPT ![c] = "panicked"]
            /\ UNCHANGED <<pools, doc, actions, output>>
  BY DEF TaskStep, BeginTask, ProcessSerially, PanicSerially, PanicInRunner,
         RunnerSubmit, RunnerGivesUp, RunnerAnswers, callVars, TaskStates
<1>2. CASE \E answer : Record(c, i, answer)
  BY <1>1, <1>2, RecordOutput
<1>3. CASE /\ \E s \in TaskStates : task' = [task EXCEPT ![c][i] = s]
           /\ UNCHANGED <<pools, doc, pc, actions, output>>
  <2>1. \A b \in Calls, j \in 1..MaxTokens :
            task[b][j] = "finished" => task'[b][j] = "finished"
    BY <1>1, <1>3 DEF AnalyzerInv, VarTypes
  <2>2. QED
    BY <1>3, <2>1, OutputStays
<1>4. CASE /\ task' = [task EXCEPT ![c][i] = "finished"]
           /\ pc' = [pc EXCEPT ![c] = "panicked"]
           /\ UNCHANGED <<pools, doc, actions, output>>
  <2>1. /\ VarTypes /\ OutputOK(c) /\ output \in [Calls -> Seq(Int)]
        /\ Range(actions[c]) \subseteq 1..MaxTokens
    BY TypesFollow DEF AnalyzerInv, OutputInv, TypeOK
  <2>2. /\ pc'[c] = "panicked"
        /\ \A j \in 1..MaxTokens : task[c][j] = "finished" => task'[c][j] = "finished"
        /\ \A b \in Calls \ {c} : pc'[b] = pc[b] /\ task'[b] = task[b]
    BY <1>4, <2>1 DEF VarTypes
  <2>3. OutputOK(c)'
    BY <1>4, <2>1, <2>2, OutputKept
  <2>4. QED
    BY <1>4, <2>1, <2>2, <2>3, OutputOthers
<1>5. QED
  BY <1>1, <1>2, <1>3, <1>4

\* Every step of the analyzer keeps the invariant of the output.
LEMMA NextOutput ==
    ASSUME OutputInv, AnalyzerInv, Next
    PROVE  OutputInv'
<1>1. VarTypes /\ \A c \in Calls : TasksOK(c) /\ OutputOK(c)
  BY DEF AnalyzerInv, AnalyzerOK, OutputInv
<1>2. ASSUME UNCHANGED <<pools, doc, pc, task, actions, output>> PROVE OutputInv'
  BY <1>2, OutputStays
<1>3. ASSUME NEW c \in Calls, NextToken(c) \/ Submit(c) PROVE OutputInv'
  <2>1. next[c] \in 1..MaxTokens /\ task[c][next[c]] = "none"
    BY <1>1, <1>3, DocumentFacts, LongestDocument DEF NextToken, Submit, TasksOK, VarTypes
  <2>2. \A b \in Calls, i \in 1..MaxTokens : task[b][i] = "finished" => task'[b][i] = "finished"
    <3>1. PICK s : task' = [task EXCEPT ![c][next[c]] = s]
      BY <1>3 DEF NextToken, Submit
    <3>2. QED
      BY <1>1, <2>1, <3>1 DEF VarTypes
  <2>3. QED
    BY <1>3, <2>2, OutputStays DEF NextToken, Submit
<1>4. ASSUME NEW c \in Calls, SubmitDone(c) PROVE OutputInv'
  <2>1. /\ pc[c] = "submit" /\ pc'[c] = "wait" /\ doc[c].anyRules
        /\ \A b \in Calls \ {c} : pc'[b] = pc[b]
        /\ UNCHANGED <<pools, doc, task, actions, output>>
    BY <1>1, <1>4 DEF SubmitDone, VarTypes, OutputOK
  <2>2. OutputOK(c)'
    BY <1>1, <2>1, OutputKept
  <2>3. QED
    BY <2>1, <2>2, OutputOthers DEF OutputInv
<1>5. ASSUME NEW c \in Calls, CallStep(c) PROVE OutputInv'
  BY <1>3, <1>4, <1>5, LoopDoneOutput, WaitDoneOutput DEF CallStep
<1>6. ASSUME NEW c \in Calls, Cancel(c) PROVE OutputInv'
  BY <1>2, <1>6 DEF Cancel, callVars
<1>7. CASE StopRunner \/ StopPool \/ Quiescent
  BY <1>2, <1>7 DEF StopRunner, StopPool, Quiescent, vars, callVars
<1>8. QED
  BY <1>5, <1>6, <1>7, AnonymizeOutput, TaskStepOutput DEF Next

\* OutputExact: for every document, any number of calls and workers and every
\* order they finish in, what a call has written is the text with its actions
\* rendered and what it reports is exact.
THEOREM OutputIsExact == FactorySpec => []OutputExact
<1>1. FactoryInit => OutputInv
  <2> SUFFICES ASSUME FactoryInit PROVE OutputInv
    OBVIOUS
  <2>1. output \in [Calls -> Seq(Int)]
    BY DEF FactoryInit, AnalyzerInit
  <2>2. ASSUME NEW c \in Calls PROVE OutputOK(c)
    <3>1. pc[c] = "idle" /\ output[c] = <<>> /\ actions[c] = <<>>
      BY DEF FactoryInit, AnalyzerInit
    <3>2. DOMAIN actions[c] = {} /\ Range(actions[c]) = {}
      BY <3>1 DEF Range
    <3>3. QED
      BY <3>1, <3>2 DEF OutputOK, Increasing
  <2>3. QED
    BY <2>1, <2>2 DEF OutputInv
<1>2. IndInv /\ OutputInv /\ [FactoryNext]_allVars => OutputInv'
  <2> SUFFICES ASSUME IndInv, OutputInv, [FactoryNext]_allVars PROVE OutputInv'
    OBVIOUS
  <2>1. AnalyzerInv
    BY DEF IndInv
  <2>2. CASE UNCHANGED vars
    BY <2>1, <2>2, OutputStays DEF vars, callVars
  <2>3. CASE Built(Next)
    BY <2>1, <2>3, NextOutput DEF Built
  <2>4. CASE Assemble
    <3>1. pools.token = 0
      BY <2>4 DEF Assemble, IndInv, FactoryInv, HandoverOK, NoPools
    <3>2. QED
      BY <2>1, <2>4, <3>1, OutputStays DEF Assemble
  <2>5. QED
    BY <2>2, <2>3, <2>4 DEF FactoryNext, Construct, BuildCacheStore, PingOnConnect,
                            MakeRunnerPool, MakeTokenPool, MakePool, Retry, allVars
<1>3. OutputInv /\ (\A c \in Calls : pc[c] = "done" => ReportExact(c)) => OutputExact
  BY DEF OutputInv, OutputOK, OutputExact
<1>4. QED
  BY <1>1, <1>2, <1>3, Invariance, ReportsAreExact, PTL DEF FactorySpec

=============================================================================
