-------------------------- MODULE RuleRunnerProofs --------------------------
(***************************************************************************)
(* What both rule runners rest on: the invariant of the part of their      *)
(* state they share, and that every action RuleRunner defines preserves    *)
(* it.  It is proved once here, for every set of calls, tokens, entities   *)
(* and rule lists, with and without a cache, coalescing or client-side     *)
(* cache; SerialRunnerProofs and ConcurrentRunnerProofs add what their own *)
(* flights do.                                                             *)
(***************************************************************************)
EXTENDS RuleRunner, Induction, TLAPS

-----------------------------------------------------------------------------
(* The operators of RuleMatching: what an evaluation yields, what a save   *)
(* leaves in the store and what the final pass finds.                      *)

\* The first index of a set of naturals is a member of it, 0 if it is empty.
LEMMA LeastIndexMember ==
    ASSUME NEW S \in SUBSET Nat
    PROVE  /\ S # {} => LeastIndex(S) \in S
           /\ LeastIndex(S) \in Nat
BY LeastExists DEF LeastIndex

\* Positions of a rule list are naturals and hold rules.
LEMMA RuleListType ==
    ASSUME NEW rs \in RuleLists
    PROVE  /\ DOMAIN rs \in SUBSET Nat
           /\ \A i \in DOMAIN rs : rs[i] \in Rule
BY RuleListsAssumption

\* The rule that evaluates an entity is one of the rules that claim it.
LEMMA ClaimantClaims ==
    ASSUME NEW rs \in RuleLists, NEW t, NEW cm, NEW e, Claims(rs, t, cm, e) # {}
    PROVE  LeastIndex(Claims(rs, t, cm, e)) \in Claims(rs, t, cm, e)
<1>1. Claims(rs, t, cm, e) \in SUBSET Nat
  BY RuleListType DEF Claims
<1>2. QED
  BY <1>1, LeastIndexMember

\* The outcomes of a map come from matchers.
Sound(m, t) ==
    \A e \in Entities : /\ m[e] = "yes" => Accepted(t, e)
                        /\ m[e] = "no"  => Rejected(t, e)

\* Every entity that a caller has to evaluate has an outcome.
Covers(m, rs, t, cm) == \A e \in Missing(rs, t, cm) : m[e] # "absent"

\* matchMissing evaluates the entities it is given, no others, and every
\* outcome is that of an enabled, unexcepted rule of the entity.
LEMMA MatchMissingSound ==
    ASSUME NEW rs \in RuleLists, NEW t \in Tokens, NEW cm,
           NEW M \in SUBSET Missing(rs, t, cm)
    PROVE  /\ matchMissing(rs, t, cm, M) \in ResultMap
           /\ Sound(matchMissing(rs, t, cm, M), t)
           /\ \A e \in M : matchMissing(rs, t, cm, M)[e] # "absent"
<1> DEFINE m == matchMissing(rs, t, cm, M)
           k(e) == LeastIndex(Claims(rs, t, cm, e))
<1>1. M \subseteq Entities
  BY DEF Missing
<1>2. m \in ResultMap
  BY DEF matchMissing, ResultMap, Outcome
<1>3. \A e \in M : m[e] # "absent"
  BY <1>1 DEF matchMissing
<1>4. ASSUME NEW e \in Entities, m[e] # "absent"
      PROVE  /\ k(e) \in DOMAIN rs
             /\ ~rs[k(e)].disable
             /\ rs[k(e)].entity = e
             /\ ~isException(rs[k(e)], t)
             /\ m[e] = IF t \in rs[k(e)].matches THEN "yes" ELSE "no"
  <2>1. e \in M /\ m[e] = IF t \in rs[k(e)].matches THEN "yes" ELSE "no"
    BY <1>4 DEF matchMissing
  <2>2. Claims(rs, t, cm, e) # {}
    BY <2>1 DEF Missing
  <2>3. k(e) \in Claims(rs, t, cm, e)
    BY <2>2, ClaimantClaims
  <2>4. QED
    BY <2>1, <2>3 DEF Claims
<1>5. Sound(m, t)
  <2> SUFFICES ASSUME NEW e \in Entities
               PROVE  /\ m[e] = "yes" => Accepted(t, e)
                      /\ m[e] = "no"  => Rejected(t, e)
    BY DEF Sound
  <2> HIDE DEF m, k
  <2>1. CASE m[e] = "yes"
    <3>1. t \in rs[k(e)].matches
      BY <1>4, <2>1
    <3>2. QED
      BY <1>4, <2>1, <3>1 DEF Accepted, Witness
  <2>2. CASE m[e] = "no"
    <3>1. ~(t \in rs[k(e)].matches)
      BY <1>4, <2>2
    <3>2. QED
      BY <1>4, <2>2, <3>1 DEF Rejected, Witness
  <2>3. QED
    BY <2>1, <2>2
<1>6. QED
  BY <1>2, <1>3, <1>5

\* The final pass returns a position, or 0.
LEMMA FinalPassType ==
    ASSUME NEW rs \in RuleLists, NEW t, NEW cm, NEW ev
    PROVE  FinalPass(rs, t, cm, ev) \in Nat
<1> DEFINE S == {i \in DOMAIN rs :
                    /\ ~rs[i].disable
                    /\ IF cm[rs[i].entity] # "absent"
                       THEN cm[rs[i].entity] = "yes"
                       ELSE /\ ~isException(rs[i], t)
                            /\ ev[rs[i].entity] = "yes"}
<1>1. S \in SUBSET Nat
  BY RuleListType
<1>2. LeastIndex(S) \in Nat
  BY <1>1, LeastIndexMember
<1>3. QED
  BY <1>2 DEF FinalPass

\* With nothing but cached negatives the final pass finds no rule.
LEMMA FinalPassEmpty ==
    ASSUME NEW rs \in RuleLists, NEW t, NEW cm, NegativesOnly(cm, t)
    PROVE  FinalPass(rs, t, cm, EmptyMap) = 0
<1> DEFINE S == {i \in DOMAIN rs :
                    /\ ~rs[i].disable
                    /\ IF cm[rs[i].entity] # "absent"
                       THEN cm[rs[i].entity] = "yes"
                       ELSE /\ ~isException(rs[i], t)
                            /\ EmptyMap[rs[i].entity] = "yes"}
<1>1. ASSUME NEW i \in DOMAIN rs  PROVE i \notin S
  <2>1. rs[i].entity \in Entities
    BY RuleListType DEF Rule
  <2>2. EmptyMap[rs[i].entity] = "absent"
    BY <2>1 DEF EmptyMap
  <2>3. cm[rs[i].entity] # "absent" => cm[rs[i].entity] = "no"
    BY <2>1 DEF NegativesOnly
  <2>4. QED
    BY <2>2, <2>3
<1>2. S = {}
  BY <1>1
<1>3. QED
  BY <1>2 DEF FinalPass, LeastIndex

\* With an evaluation that is sound and covers what is missing, and with one
\* matcher per entity, the final pass finds exactly the first rule that
\* applies: what was cached, shared or evaluated for other rules of the entity
\* makes no difference.
LEMMA FinalPassExact ==
    ASSUME EntityDetermined,
           NEW rs \in RuleLists, NEW t \in Tokens, NEW cm, NEW ev \in ResultMap,
           NegativesOnly(cm, t), Sound(ev, t), Covers(ev, rs, t, cm)
    PROVE  FinalPass(rs, t, cm, ev) = FirstMatch(rs, t)
<1> DEFINE S == {i \in DOMAIN rs :
                    /\ ~rs[i].disable
                    /\ IF cm[rs[i].entity] # "absent"
                       THEN cm[rs[i].entity] = "yes"
                       ELSE /\ ~isException(rs[i], t)
                            /\ ev[rs[i].entity] = "yes"}
<1>1. ASSUME NEW i \in DOMAIN rs  PROVE rs[i].entity \in Entities
  BY RuleListType DEF Rule
<1>2. ASSUME NEW i \in DOMAIN rs, Accepted(t, rs[i].entity)
      PROVE  t \in rs[i].matches
  <2>1. PICK qs \in RuleLists : \E j \in DOMAIN qs :
            qs[j].entity = rs[i].entity /\ (t \in qs[j].matches) = TRUE
    BY <1>2 DEF Accepted, Witness
  <2>2. QED
    BY <2>1 DEF EntityDetermined
<1>3. ASSUME NEW i \in DOMAIN rs, Rejected(t, rs[i].entity)
      PROVE  t \notin rs[i].matches
  <2>1. PICK qs \in RuleLists : \E j \in DOMAIN qs :
            qs[j].entity = rs[i].entity /\ (t \in qs[j].matches) = FALSE
    BY <1>3 DEF Rejected, Witness
  <2>2. QED
    BY <2>1 DEF EntityDetermined
<1>4. ASSUME NEW i \in DOMAIN rs  PROVE i \in S <=> i \in Matching(rs, t)
  <2> DEFINE e == rs[i].entity
  <2>1. e \in Entities
    BY <1>1
  <2>2. CASE cm[e] # "absent"
    <3>1. cm[e] = "no" /\ Rejected(t, e)
      BY <2>1, <2>2 DEF NegativesOnly
    <3>2. t \notin rs[i].matches
      BY <1>3, <3>1
    <3>3. QED
      BY <2>2, <3>1, <3>2 DEF Matching
  <2>3. CASE cm[e] = "absent" /\ ~rs[i].disable /\ ~isException(rs[i], t)
    <3>1. e \in Missing(rs, t, cm)
      BY <2>1, <2>3 DEF Missing, Claims
    <3>2. ev[e] \in {"no", "yes"}
      BY <2>1, <3>1 DEF Covers, ResultMap, Outcome
    <3>3. ev[e] = "yes" => t \in rs[i].matches
      BY <1>2, <2>1 DEF Sound
    <3>4. ev[e] = "no" => t \notin rs[i].matches
      BY <1>3, <2>1 DEF Sound
    <3>5. QED
      BY <2>3, <3>2, <3>3, <3>4 DEF Matching
  <2>4. CASE cm[e] = "absent" /\ (rs[i].disable \/ isException(rs[i], t))
    BY <2>4 DEF Matching
  <2>5. QED
    BY <2>2, <2>3, <2>4
<1>5. S = Matching(rs, t)
  BY <1>4 DEF Matching
<1>6. QED
  BY <1>5 DEF FinalPass, FirstMatch

\* With a sound evaluation that need not cover what is missing the final pass
\* may find nothing, but never a rule that does not apply.
LEMMA FinalPassSound ==
    ASSUME EntityDetermined,
           NEW rs \in RuleLists, NEW t \in Tokens, NEW cm, NEW ev,
           NegativesOnly(cm, t), Sound(ev, t)
    PROVE  FinalPass(rs, t, cm, ev) \in Matching(rs, t) \cup {0}
<1> DEFINE S == {i \in DOMAIN rs :
                    /\ ~rs[i].disable
                    /\ IF cm[rs[i].entity] # "absent"
                       THEN cm[rs[i].entity] = "yes"
                       ELSE /\ ~isException(rs[i], t)
                            /\ ev[rs[i].entity] = "yes"}
<1>1. S \in SUBSET Nat
  BY RuleListType
<1>2. ASSUME NEW i \in S  PROVE i \in Matching(rs, t)
  <2>1. rs[i].entity \in Entities
    BY RuleListType DEF Rule
  <2>2. /\ ~rs[i].disable /\ ~isException(rs[i], t)
        /\ ev[rs[i].entity] = "yes"
    BY <2>1 DEF NegativesOnly
  <2>3. PICK qs \in RuleLists : \E j \in DOMAIN qs :
            qs[j].entity = rs[i].entity /\ (t \in qs[j].matches) = TRUE
    BY <2>1, <2>2 DEF Sound, Accepted, Witness
  <2>4. t \in rs[i].matches
    BY <2>3 DEF EntityDetermined
  <2>5. QED
    BY <2>2, <2>4 DEF Matching
<1>3. LeastIndex(S) \in S \cup {0}
  BY <1>1, LeastIndexMember DEF LeastIndex
<1>4. QED
  BY <1>2, <1>3 DEF FinalPass

\* The rule by whose matcher an entity was evaluated to a match applies.
LEMMA ClaimantMatches ==
    ASSUME NEW rs \in RuleLists, NEW t \in Tokens, NEW cm,
           NEW M \in SUBSET Missing(rs, t, cm), NEW e \in Entities,
           matchMissing(rs, t, cm, M)[e] = "yes"
    PROVE  LeastIndex(Claims(rs, t, cm, e)) \in Matching(rs, t)
<1>1. e \in M /\ t \in rs[LeastIndex(Claims(rs, t, cm, e))].matches
  BY DEF matchMissing
<1>2. LeastIndex(Claims(rs, t, cm, e)) \in Claims(rs, t, cm, e)
  BY <1>1, ClaimantClaims DEF Missing
<1>3. QED
  BY <1>1, <1>2 DEF Claims, Matching

\* The first rule that applies is one of those that apply, if any does.
LEMMA FirstMatchApplies ==
    ASSUME NEW rs \in RuleLists, NEW t
    PROVE  Matching(rs, t) # {} => FirstMatch(rs, t) \in Matching(rs, t)
<1>1. Matching(rs, t) \in SUBSET Nat
  BY RuleListType DEF Matching
<1>2. QED
  BY <1>1, LeastIndexMember DEF FirstMatch

\* Merging and filtering keep the type of a map and its soundness.
LEMMA MergeType ==
    ASSUME NEW a \in ResultMap, NEW b \in ResultMap
    PROVE  Merge(a, b) \in ResultMap
BY DEF Merge, ResultMap

LEMMA MergeSound ==
    ASSUME NEW a, NEW b, NEW t, Sound(a, t), Sound(b, t)
    PROVE  Sound(Merge(a, b), t)
BY DEF Merge, Sound

LEMMA NegativesType ==
    ASSUME NEW a  PROVE Negatives(a) \in ResultMap
BY DEF Negatives, ResultMap, Outcome

\* Saving the negatives of a sound evaluation leaves only sound negatives.
LEMMA SaveKeepsNegatives ==
    ASSUME NEW a, NEW m, NEW t, NegativesOnly(a, t), Sound(m, t)
    PROVE  NegativesOnly(Merge(a, Negatives(m)), t)
BY DEF Merge, Negatives, NegativesOnly, Sound

LEMMA EmptyMapFacts ==
    /\ EmptyMap \in ResultMap
    /\ \A t : NegativesOnly(EmptyMap, t) /\ Sound(EmptyMap, t)
BY DEF EmptyMap, ResultMap, Outcome, NegativesOnly, Sound

-----------------------------------------------------------------------------
(* The invariant.                                                          *)

\* The store, the client's copies and every call's snapshot hold nothing but
\* negatives that a matcher produced for the token.
StoreInv ==
    /\ \A t \in Tokens : NegativesOnly(cache[t], t) /\ NegativesOnly(local[t], t)
    /\ \A c \in Calls : NegativesOnly(cached[c], token[c])

\* The outcomes a flight shares come from matchers.
ResultsInv == \A l \in Calls : Sound(results[l], token[l])

\* The group names the flights whose function has not returned, each under the
\* token it evaluates.
GroupInv ==
    /\ ~Coalescing => \A t \in Tokens : group[t] = None
    /\ \A t \in Tokens : group[t] # None =>
           token[group[t]] = t /\ stage[group[t]] \in Running
    /\ Coalescing => \A l \in Calls : stage[l] \in Running => group[token[l]] = l

\* A call waits on a flight of its own token, and leads none before it joins.
CallOK(c) ==
    /\ pc[c] \in {"idle", "join"} => stage[c] = "none"
    /\ pc[c] \in {"wait", "inline", "residual"} =>
           joined[c] \in Calls /\ token[joined[c]] = token[c]
    /\ pc[c] = "residual" => stage[joined[c]] = "delivered"
CallInv == \A c \in Calls : CallOK(c)

RunnerInv == RunnerTypeOK /\ StoreInv /\ ResultsInv /\ GroupInv /\ CallInv

-----------------------------------------------------------------------------
(* The invariant holds initially and the shared actions preserve it.       *)

LEMMA RunnerInitInv == RunnerInit => RunnerInv
<1> SUFFICES ASSUME RunnerInit PROVE RunnerInv
  OBVIOUS
<1> USE DEF RunnerInit
<1>1. RunnerTypeOK
  BY EmptyMapFacts DEF RunnerTypeOK, Stages, Locations
<1>2. StoreInv
  BY EmptyMapFacts DEF StoreInv
<1>3. ResultsInv
  BY EmptyMapFacts DEF ResultsInv
<1>4. GroupInv
  BY DEF GroupInv, Running
<1>5. CallInv
  BY DEF CallInv, CallOK
<1>6. QED
  BY <1>1, <1>2, <1>3, <1>4, <1>5 DEF RunnerInv

\* Process leaves: its call is done and its answer is a position.
LEMMA ReturnType ==
    ASSUME RunnerTypeOK, NEW c \in Calls, NEW ev, Return(c, ev)
    PROVE  /\ pc' \in [Calls -> Locations]
           /\ returned' \in [Calls -> Nat]
           /\ pc' = [pc EXCEPT ![c] = "done"]
<1>1. rules[c] \in RuleLists
  BY DEF RunnerTypeOK
<1>2. FinalPass(rules[c], token[c], cached'[c], ev) \in Nat
  BY <1>1, FinalPassType
<1>3. QED
  BY <1>2 DEF Return, RunnerTypeOK, Locations

\* A save of the negatives of a sound evaluation, done or failed.
LEMMA SaveInv ==
    ASSUME RunnerTypeOK, StoreInv, NEW t \in Tokens, NEW m, Sound(m, t),
           SaveMatches(t, Negatives(m))
    PROVE  /\ cache' \in [Tokens -> ResultMap]
           /\ \A u \in Tokens : NegativesOnly(cache'[u], u)
<1>1. cache \in [Tokens -> ResultMap] /\ \A u \in Tokens : NegativesOnly(cache[u], u)
  BY DEF RunnerTypeOK, StoreInv
<1>2. CASE UNCHANGED cache
  BY <1>1, <1>2
<1>3. CASE cache' = [cache EXCEPT ![t] = Merge(@, Negatives(m))]
  <2>1. Merge(cache[t], Negatives(m)) \in ResultMap
    BY <1>1, MergeType, NegativesType
  <2>2. NegativesOnly(Merge(cache[t], Negatives(m)), t)
    BY <1>1, SaveKeepsNegatives
  <2>3. QED
    BY <1>1, <1>3, <2>1, <2>2
<1>4. QED
  BY <1>2, <1>3 DEF SaveMatches

LEMMA ProcessInv ==
    ASSUME RunnerInv, NEW c \in Calls, Process(c)
    PROVE  RunnerInv'
<1> USE DEF RunnerInv
<1>1. PICK read \in {cache[token[c]], local[token[c]], EmptyMap} :
          /\ GetMatches(token[c], read)
          /\ cached' = [cached EXCEPT ![c] = read]
          /\ IF Missing(rules[c], token[c], read) = {}
             THEN Return(c, EmptyMap)
             ELSE /\ pc' = [pc EXCEPT ![c] = "join"]
                  /\ UNCHANGED returned
  BY DEF Process
<1>2. /\ pc[c] = "idle" /\ stage[c] = "none"
      /\ UNCHANGED <<cache, group, stage, results, rules, token, joined, cancelled>>
  BY DEF Process, CallInv, CallOK, flightVars
<1>3. read \in ResultMap /\ NegativesOnly(read, token[c])
  BY <1>1, EmptyMapFacts DEF RunnerTypeOK, StoreInv
<1>4. /\ \A d \in Calls : d # c => pc'[d] = pc[d]
      /\ pc'[c] \in {"join", "done"}
      /\ pc' \in [Calls -> Locations]
      /\ returned' \in [Calls -> Nat]
  <2>1. CASE Return(c, EmptyMap)
    BY <2>1, ReturnType DEF RunnerTypeOK
  <2>2. CASE pc' = [pc EXCEPT ![c] = "join"] /\ UNCHANGED returned
    BY <2>2 DEF RunnerTypeOK, Locations
  <2>3. QED
    BY <1>1, <2>1, <2>2
<1>5. /\ local' \in [Tokens -> ResultMap]
      /\ \A t \in Tokens : NegativesOnly(local'[t], t)
  BY <1>1, <1>3 DEF GetMatches, RunnerTypeOK, StoreInv
<1>6. RunnerTypeOK'
  BY <1>1, <1>2, <1>3, <1>4, <1>5 DEF RunnerTypeOK
<1>7. StoreInv'
  BY <1>1, <1>2, <1>3, <1>5 DEF StoreInv, RunnerTypeOK
<1>8. ResultsInv'
  BY <1>1, <1>2 DEF ResultsInv, RunnerTypeOK
<1>9. GroupInv'
  BY <1>2 DEF GroupInv, Coalescing
<1>10. CallInv'
  <2> SUFFICES ASSUME NEW d \in Calls PROVE CallOK(d)'
    BY DEF CallInv
  <2>1. CASE d = c
    BY <1>2, <1>4, <2>1 DEF CallOK
  <2>2. CASE d # c
    <3>1. pc'[d] = pc[d] /\ cached'[d] = cached[d]
      BY <1>1, <1>4, <2>2 DEF RunnerTypeOK
    <3>2. QED
      BY <1>2, <3>1 DEF CallInv, CallOK
  <2>3. QED
    BY <2>1, <2>2
<1>11. QED
  BY <1>6, <1>7, <1>8, <1>9, <1>10

LEMMA JoinInv ==
    ASSUME RunnerInv, NEW c \in Calls, Join(c)
    PROVE  RunnerInv'
<1> USE DEF RunnerInv, Join, storeVars, flightVars, callVars
<1>1. RunnerTypeOK'
  BY DEF RunnerTypeOK, Locations
<1>2. StoreInv'
  BY DEF StoreInv
<1>3. ResultsInv'
  BY DEF ResultsInv
<1>4. GroupInv'
  BY DEF GroupInv, Coalescing
<1>5. CallInv'
  <2>1. group[token[c]] \in Calls /\ token[group[token[c]]] = token[c]
    BY DEF GroupInv, RunnerTypeOK
  <2> SUFFICES ASSUME NEW d \in Calls PROVE CallOK(d)'
    BY DEF CallInv
  <2>2. CASE d = c
    BY <2>1, <2>2 DEF CallOK, RunnerTypeOK
  <2>3. CASE d # c
    <3>1. pc'[d] = pc[d] /\ joined'[d] = joined[d]
      BY <2>3 DEF RunnerTypeOK
    <3>2. QED
      BY <3>1 DEF CallInv, CallOK
  <2>4. QED
    BY <2>2, <2>3
<1>6. QED
  BY <1>1, <1>2, <1>3, <1>4, <1>5

LEMMA LeadInv ==
    ASSUME RunnerInv, NEW c \in Calls, Lead(c)
    PROVE  RunnerInv'
<1> USE DEF RunnerInv
<1>1. /\ pc[c] = "join" /\ stage[c] = "none"
      /\ joined' = [joined EXCEPT ![c] = c]
      /\ stage' = [stage EXCEPT ![c] = "match"]
      /\ UNCHANGED <<cache, local, results, rules, token, cached, cancelled, returned>>
  BY DEF Lead, CallInv, CallOK, storeVars, callVars
<1>2. /\ pc' \in [Calls -> Locations]
      /\ \A d \in Calls : d # c => pc'[d] = pc[d]
      /\ pc'[c] \in {"wait", "inline"}
      /\ group' \in [Tokens -> Calls \cup {None}]
  BY DEF Lead, Register, RunnerTypeOK, Locations
<1>3. RunnerTypeOK'
  BY <1>1, <1>2 DEF RunnerTypeOK, Stages, Running
<1>4. StoreInv'
  BY <1>1 DEF StoreInv
<1>5. ResultsInv'
  BY <1>1 DEF ResultsInv, RunnerTypeOK
<1>6. GroupInv'
  <2>1. CASE Coalescing
    <3>1. group[token[c]] = None /\ group' = [group EXCEPT ![token[c]] = c]
      BY <2>1 DEF Lead, Register, KeyFree
    <3>2. \A l \in Calls : stage[l] \in Running => token[l] # token[c]
      BY <2>1, <3>1, CallsAssumption DEF GroupInv
    <3>3. \A t \in Tokens : group'[t] # None =>
              token'[group'[t]] = t /\ stage'[group'[t]] \in Running
      BY <1>1, <3>1 DEF GroupInv, RunnerTypeOK, Running
    <3>4. \A l \in Calls : stage'[l] \in Running => group'[token'[l]] = l
      BY <1>1, <2>1, <3>1, <3>2 DEF GroupInv, RunnerTypeOK
    <3>5. QED
      BY <2>1, <3>3, <3>4 DEF GroupInv, Coalescing
  <2>2. CASE ~Coalescing
    <3>1. UNCHANGED group
      BY <2>2 DEF Lead, Register
    <3>2. QED
      BY <2>2, <3>1 DEF GroupInv, Coalescing
  <2>3. QED
    BY <2>1, <2>2
<1>7. CallInv'
  <2>1. \A d \in Calls : pc[d] = "residual" => joined[d] # c
    BY <1>1 DEF CallInv, CallOK
  <2> SUFFICES ASSUME NEW d \in Calls PROVE CallOK(d)'
    BY DEF CallInv
  <2>2. CASE d = c
    BY <1>1, <1>2, <2>2 DEF CallOK, RunnerTypeOK
  <2>3. CASE d # c
    <3>1. pc'[d] = pc[d] /\ joined'[d] = joined[d] /\ stage'[d] = stage[d]
      BY <1>1, <1>2, <2>3 DEF RunnerTypeOK
    <3>2. pc[d] = "residual" => stage'[joined[d]] = stage[joined[d]]
      BY <1>1, <2>1 DEF CallInv, CallOK, RunnerTypeOK
    <3>3. QED
      BY <1>1, <3>1, <3>2 DEF CallInv, CallOK
  <2>4. QED
    BY <2>2, <2>3
<1>8. QED
  BY <1>3, <1>4, <1>5, <1>6, <1>7

\* A step in which a call leaves with an answer and only the store may change.
LEMMA LeavingInv ==
    ASSUME RunnerInv, NEW c \in Calls,
           pc' = [pc EXCEPT ![c] = "done"], returned' \in [Calls -> Nat],
           UNCHANGED <<local, group, stage, results, rules, token, cached, joined, cancelled>>,
           cache' \in [Tokens -> ResultMap],
           \A t \in Tokens : NegativesOnly(cache'[t], t)
    PROVE  RunnerInv'
<1> USE DEF RunnerInv
<1>1. RunnerTypeOK'
  BY DEF RunnerTypeOK, Locations
<1>2. StoreInv'
  BY DEF StoreInv
<1>3. ResultsInv'
  BY DEF ResultsInv
<1>4. GroupInv'
  BY DEF GroupInv, Coalescing
<1>5. CallInv'
  <2> SUFFICES ASSUME NEW d \in Calls PROVE CallOK(d)'
    BY DEF CallInv
  <2>1. CASE d = c
    BY <2>1 DEF CallOK, RunnerTypeOK
  <2>2. CASE d # c
    <3>1. pc'[d] = pc[d]
      BY <2>2 DEF RunnerTypeOK
    <3>2. QED
      BY <3>1 DEF CallInv, CallOK
  <2>3. QED
    BY <2>1, <2>2
<1>6. QED
  BY <1>1, <1>2, <1>3, <1>4, <1>5

\* The same for a call that leaves with the final pass.
LEMMA ReturningInv ==
    ASSUME RunnerInv, NEW c \in Calls, NEW ev, Return(c, ev),
           UNCHANGED <<local, group, stage, results, rules, token, cached, joined, cancelled>>,
           cache' \in [Tokens -> ResultMap],
           \A t \in Tokens : NegativesOnly(cache'[t], t)
    PROVE  RunnerInv'
<1>1. pc' = [pc EXCEPT ![c] = "done"] /\ returned' \in [Calls -> Nat]
  BY ReturnType DEF RunnerInv
<1>2. QED
  BY <1>1, LeavingInv

LEMMA WaitCancelledInv ==
    ASSUME RunnerInv, NEW c \in Calls, WaitCancelled(c)
    PROVE  RunnerInv'
<1>1. cache \in [Tokens -> ResultMap] /\ \A t \in Tokens : NegativesOnly(cache[t], t)
  BY DEF RunnerInv, RunnerTypeOK, StoreInv
<1>2. Return(c, EmptyMap) /\ UNCHANGED <<storeVars, flightVars, callVars, joined, cancelled>>
  BY DEF WaitCancelled, callVars
<1>3. QED
  BY <1>1, <1>2, ReturningInv DEF storeVars, flightVars, callVars

\* The inline evaluation of a call is sound; merged with the shared map it
\* covers what the call misses.
LEMMA ResidualFacts ==
    ASSUME RunnerInv, NEW c \in Calls, pc[c] = "residual",
           NEW shared, shared = results[joined[c]],
           NEW fresh,
           fresh = matchMissing(rules[c], token[c], cached[c],
                       Residual(rules[c], token[c], cached[c], shared))
    PROVE  /\ Sound(fresh, token[c])
           /\ Merge(shared, fresh) \in ResultMap
           /\ Sound(Merge(shared, fresh), token[c])
           /\ Covers(Merge(shared, fresh), rules[c], token[c], cached[c])
<1>1. /\ rules[c] \in RuleLists /\ token[c] \in Tokens
      /\ joined[c] \in Calls /\ token[joined[c]] = token[c]
  BY DEF RunnerInv, RunnerTypeOK, CallInv, CallOK
<1>2. shared \in ResultMap /\ Sound(shared, token[c])
  BY <1>1 DEF RunnerInv, RunnerTypeOK, ResultsInv
<1> DEFINE M == Residual(rules[c], token[c], cached[c], shared)
<1>3. M \in SUBSET Missing(rules[c], token[c], cached[c])
  BY DEF Residual
<1>4. /\ fresh \in ResultMap
      /\ Sound(fresh, token[c])
      /\ \A e \in M : fresh[e] # "absent"
  BY <1>1, <1>3, MatchMissingSound
<1>5. ASSUME NEW e \in Missing(rules[c], token[c], cached[c])
      PROVE  Merge(shared, fresh)[e] # "absent"
  <2>1. e \in Entities
    BY DEF Missing
  <2>2. shared[e] = "absent" => e \in M
    BY DEF Residual
  <2>3. QED
    BY <1>4, <2>1, <2>2 DEF Merge
<1>6. QED
  BY <1>2, <1>4, <1>5, MergeType, MergeSound DEF Covers

LEMMA EvaluateResidualInv ==
    ASSUME RunnerInv, NEW c \in Calls, EvaluateResidual(c)
    PROVE  RunnerInv'
<1> DEFINE shared == results[joined[c]]
           fresh  == matchMissing(rules[c], token[c], cached[c],
                         Residual(rules[c], token[c], cached[c], shared))
<1>1. /\ pc[c] = "residual"
      /\ SaveMatches(token[c], Negatives(fresh))
      /\ UNCHANGED <<local, flightVars, callVars, joined, cancelled>>
      /\ Return(c, Merge(shared, fresh))
  BY DEF EvaluateResidual
<1>2. Sound(fresh, token[c])
  BY <1>1, ResidualFacts
<1> HIDE DEF shared, fresh
<1>3. token[c] \in Tokens /\ RunnerTypeOK /\ StoreInv
  BY DEF RunnerInv, RunnerTypeOK
<1>4. /\ cache' \in [Tokens -> ResultMap]
      /\ \A t \in Tokens : NegativesOnly(cache'[t], t)
  BY <1>1, <1>2, <1>3, SaveInv
<1>5. QED
  BY <1>1, <1>4, ReturningInv DEF flightVars, callVars

LEMMA CancelInv ==
    ASSUME RunnerInv, NEW c \in Calls, Cancel(c)
    PROVE  RunnerInv'
<1> USE DEF RunnerInv, Cancel, storeVars, flightVars, callVars
<1>1. RunnerTypeOK'
  BY DEF RunnerTypeOK
<1>2. StoreInv' /\ ResultsInv'
  BY DEF StoreInv, ResultsInv
<1>3. GroupInv'
  BY DEF GroupInv, Coalescing
<1>4. CallInv'
  BY DEF CallInv, CallOK
<1>5. QED
  BY <1>1, <1>2, <1>3, <1>4

\* The shared map of the flight a residual call has joined is not that of a
\* flight that is still to move.
LEMMA ResidualIsDelivered ==
    ASSUME RunnerInv, NEW d \in Calls, pc[d] = "residual"
    PROVE  joined[d] \in Calls /\ stage[joined[d]] = "delivered"
BY DEF RunnerInv, CallInv, CallOK

\* A step of a flight l that has started and has not delivered leaves the
\* invariant of the calls alone: none of them has its map yet.
LEMMA FlightKeepsCalls ==
    ASSUME RunnerInv, NEW l \in Calls, stage[l] \notin {"none", "delivered"},
           UNCHANGED <<pc, rules, token, cached, joined>>,
           NEW s, stage' = [stage EXCEPT ![l] = s],
           \A m \in Calls : m # l => results'[m] = results[m]
    PROVE  CallInv'
<1> SUFFICES ASSUME NEW d \in Calls PROVE CallOK(d)'
  BY DEF CallInv
<1>1. stage \in [Calls -> Stages]
  BY DEF RunnerInv, RunnerTypeOK
<1>2. CallOK(d)
  BY DEF RunnerInv, CallInv
<1>3. pc[d] \in {"idle", "join"} => stage'[d] = "none"
  BY <1>1, <1>2 DEF CallOK
<1>4. pc[d] = "residual" =>
          joined[d] # l /\ stage'[joined[d]] = "delivered" /\ results'[joined[d]] = results[joined[d]]
  BY <1>1, ResidualIsDelivered
<1>5. QED
  BY <1>2, <1>3, <1>4 DEF CallOK

LEMMA ForgetInv ==
    ASSUME RunnerInv, NEW l \in Calls, Forget(l)
    PROVE  RunnerInv'
<1> USE DEF RunnerInv
<1>1. /\ stage[l] = "forget"
      /\ group' = [group EXCEPT ![token[l]] = None]
      /\ stage' = [stage EXCEPT ![l] = "deliver"]
      /\ UNCHANGED <<cache, local, results, pc, rules, token, cached, joined, cancelled, returned>>
  BY DEF Forget, storeVars, callVars
<1>2. RunnerTypeOK'
  BY <1>1 DEF RunnerTypeOK, Stages
<1>3. StoreInv'
  BY <1>1 DEF StoreInv
<1>4. ResultsInv'
  BY <1>1 DEF ResultsInv, RunnerTypeOK
<1>5. GroupInv'
  <2>1. ~Coalescing => \A t \in Tokens : group'[t] = None
    BY <1>1 DEF GroupInv, RunnerTypeOK
  <2>2. \A t \in Tokens : group'[t] # None => group[t] = group'[t] /\ group[t] # l
    BY <1>1 DEF GroupInv, RunnerTypeOK
  <2>3. \A t \in Tokens : group'[t] # None =>
            token'[group'[t]] = t /\ stage'[group'[t]] \in Running
    BY <1>1, <2>2 DEF GroupInv, RunnerTypeOK
  <2>4. Coalescing => \A m \in Calls : stage'[m] \in Running => group'[token'[m]] = m
    <3> SUFFICES ASSUME Coalescing, NEW m \in Calls, stage'[m] \in Running
                 PROVE  group'[token[m]] = m
      BY <1>1
    <3>1. m # l /\ stage[m] \in Running
      BY <1>1 DEF RunnerTypeOK, Running
    <3>2. group[token[m]] = m /\ group[token[l]] = l
      BY <1>1, <3>1 DEF GroupInv, Running
    <3>3. token[m] # token[l]
      BY <3>1, <3>2
    <3>4. QED
      BY <1>1, <3>2, <3>3 DEF RunnerTypeOK
  <2>5. QED
    BY <2>1, <2>3, <2>4 DEF GroupInv, Coalescing
<1>6. CallInv'
  BY <1>1, FlightKeepsCalls
<1>7. QED
  BY <1>2, <1>3, <1>4, <1>5, <1>6

LEMMA DeliverInv ==
    ASSUME RunnerInv, NEW l \in Calls, Deliver(l)
    PROVE  RunnerInv'
<1> USE DEF RunnerInv
<1>1. /\ stage[l] = "deliver"
      /\ group' = [group EXCEPT ![token[l]] = IF @ = l THEN None ELSE @]
      /\ stage' = [stage EXCEPT ![l] = "delivered"]
      /\ UNCHANGED <<cache, local, results, pc, rules, token, cached, joined, cancelled, returned>>
  BY DEF Deliver, storeVars, callVars
<1>2. \A t \in Tokens : group[t] # l
  BY <1>1, CallsAssumption DEF GroupInv, Running
<1>3. group' = group
  BY <1>1, <1>2 DEF RunnerTypeOK
<1>4. RunnerTypeOK'
  BY <1>1, <1>3 DEF RunnerTypeOK, Stages
<1>5. StoreInv'
  BY <1>1 DEF StoreInv
<1>6. ResultsInv'
  BY <1>1 DEF ResultsInv, RunnerTypeOK
<1>7. GroupInv'
  <2>1. \A t \in Tokens : group[t] # None => stage'[group[t]] = stage[group[t]]
    BY <1>1, <1>2 DEF RunnerTypeOK
  <2>2. \A m \in Calls : stage'[m] \in Running => stage[m] \in Running
    BY <1>1 DEF RunnerTypeOK, Running
  <2>3. QED
    BY <1>1, <1>3, <2>1, <2>2 DEF GroupInv, Coalescing
<1>8. CallInv'
  BY <1>1, FlightKeepsCalls
<1>9. QED
  BY <1>4, <1>5, <1>6, <1>7, <1>8

LEMMA StoreStepInv ==
    ASSUME RunnerInv, NEW t \in Tokens, Expire(t) \/ Invalidate(t)
    PROVE  RunnerInv'
<1> USE DEF RunnerInv
<1>1. UNCHANGED <<group, stage, results, pc, rules, token, cached, joined, cancelled, returned>>
  BY DEF Expire, Invalidate, flightVars, callVars
<1>2. /\ cache' \in [Tokens -> ResultMap] /\ local' \in [Tokens -> ResultMap]
      /\ \A u \in Tokens : NegativesOnly(cache'[u], u) /\ NegativesOnly(local'[u], u)
  BY EmptyMapFacts DEF Expire, Invalidate, RunnerTypeOK, StoreInv
<1>3. RunnerTypeOK'
  BY <1>1, <1>2 DEF RunnerTypeOK
<1>4. StoreInv' /\ ResultsInv'
  BY <1>1, <1>2 DEF StoreInv, ResultsInv
<1>5. GroupInv'
  BY <1>1 DEF GroupInv, Coalescing
<1>6. CallInv'
  BY <1>1 DEF CallInv, CallOK
<1>7. QED
  BY <1>3, <1>4, <1>5, <1>6

LEMMA StutterInv ==
    ASSUME RunnerInv, UNCHANGED runnerVars
    PROVE  RunnerInv'
<1> USE DEF runnerVars
<1>1. RunnerTypeOK' /\ StoreInv' /\ ResultsInv'
  BY DEF RunnerInv, RunnerTypeOK, StoreInv, ResultsInv
<1>2. GroupInv' /\ CallInv'
  BY DEF RunnerInv, GroupInv, Coalescing, CallInv, CallOK
<1>3. QED
  BY <1>1, <1>2 DEF RunnerInv

\* A call that takes its flight's map turns to the residual entities or leaves.
LEMMA UseSharedInv ==
    ASSUME RunnerInv, NEW c \in Calls, CanReceive(c), UseShared(c)
    PROVE  RunnerInv'
<1> USE DEF RunnerInv
<1>1. /\ pc[c] \in {"wait", "inline"}
      /\ stage[joined[c]] = "delivered"
      /\ UNCHANGED <<cache, local, group, stage, results, rules, token, cached,
                     joined, cancelled>>
  BY DEF CanReceive, UseShared, storeVars, flightVars, callVars
<1>2. CASE Return(c, results[joined[c]])
  <2>1. cache \in [Tokens -> ResultMap] /\ \A t \in Tokens : NegativesOnly(cache[t], t)
    BY DEF RunnerTypeOK, StoreInv
  <2>2. QED
    BY <1>1, <1>2, <2>1, ReturningInv
<1>3. CASE pc' = [pc EXCEPT ![c] = "residual"] /\ UNCHANGED returned
  <2>1. RunnerTypeOK'
    BY <1>1, <1>3 DEF RunnerTypeOK, Locations
  <2>2. StoreInv'
    BY <1>1 DEF StoreInv
  <2>3. ResultsInv'
    BY <1>1 DEF ResultsInv
  <2>4. GroupInv'
    BY <1>1 DEF GroupInv, Coalescing
  <2>5. CallInv'
    <3> SUFFICES ASSUME NEW d \in Calls PROVE CallOK(d)'
      BY DEF CallInv
    <3>1. CASE d = c
      <4>1. pc'[c] = "residual"
        BY <1>3 DEF RunnerTypeOK
      <4>2. joined[c] \in Calls /\ token[joined[c]] = token[c]
        BY <1>1 DEF CallInv, CallOK
      <4>3. QED
        BY <1>1, <3>1, <4>1, <4>2 DEF CallOK
    <3>2. CASE d # c
      <4>1. pc'[d] = pc[d]
        BY <1>3, <3>2 DEF RunnerTypeOK
      <4>2. QED
        BY <1>1, <4>1 DEF CallInv, CallOK
    <3>3. QED
      BY <3>1, <3>2
  <2>6. QED
    BY <2>1, <2>2, <2>3, <2>4, <2>5
<1>4. QED
  BY <1>2, <1>3 DEF UseShared

\* A flight whose function has not returned moves on, with outcomes that come
\* from matchers and a store that holds nothing but negatives.
LEMMA FlightMoves ==
    ASSUME RunnerInv, NEW l \in Calls, stage[l] \in Running, NEW s \in Stages,
           s \in Running \/ (~Coalescing /\ s = "delivered"),
           stage' = [stage EXCEPT ![l] = s],
           NEW m \in ResultMap, Sound(m, token[l]), results' = [results EXCEPT ![l] = m],
           UNCHANGED <<local, group, pc, rules, token, cached, joined, cancelled, returned>>,
           cache' \in [Tokens -> ResultMap],
           \A t \in Tokens : NegativesOnly(cache'[t], t)
    PROVE  RunnerInv'
<1> USE DEF RunnerInv
<1>1. RunnerTypeOK'
  BY DEF RunnerTypeOK
<1>2. StoreInv'
  BY DEF StoreInv
<1>3. ResultsInv'
  BY DEF ResultsInv, RunnerTypeOK
<1>4. GroupInv'
  <2>1. \A k \in Calls : k # l => stage'[k] = stage[k]
    BY DEF RunnerTypeOK
  <2>2. stage'[l] = s /\ group' = group /\ token' = token /\ Coalescing' = Coalescing
    BY DEF RunnerTypeOK, Coalescing
  <2>3. ~Coalescing => \A t \in Tokens : group'[t] = None
    BY <2>2 DEF GroupInv
  <2>4. \A t \in Tokens : group'[t] # None =>
            token'[group'[t]] = t /\ stage'[group'[t]] \in Running
    <3> SUFFICES ASSUME NEW t \in Tokens, group[t] # None
                 PROVE  token[group[t]] = t /\ stage'[group[t]] \in Running
      BY <2>2
    <3>1. group[t] \in Calls /\ token[group[t]] = t /\ stage[group[t]] \in Running /\ Coalescing
      BY DEF GroupInv, RunnerTypeOK
    <3>2. QED
      BY <2>1, <2>2, <3>1
  <2>5. Coalescing => \A k \in Calls : stage'[k] \in Running => group'[token'[k]] = k
    BY <2>1, <2>2 DEF GroupInv
  <2>6. QED
    BY <2>2, <2>3, <2>4, <2>5 DEF GroupInv
<1>5. CallInv'
  <2>1. \A k \in Calls : k # l => results'[k] = results[k]
    BY DEF RunnerTypeOK
  <2>2. stage[l] \notin {"none", "delivered"}
    BY DEF Running
  <2>3. QED
    BY <2>1, <2>2, FlightKeepsCalls
<1>6. QED
  BY <1>1, <1>2, <1>3, <1>4, <1>5

\* The function of a flight returns without touching the shared map; the store
\* may have been written.
LEMMA FlightReturnsInv ==
    ASSUME RunnerInv, NEW l \in Calls, stage[l] \in Running, FlightReturns(l),
           UNCHANGED <<local, group, results, pc, rules, token, cached, joined, cancelled,
                       returned>>,
           cache' \in [Tokens -> ResultMap],
           \A t \in Tokens : NegativesOnly(cache'[t], t)
    PROVE  RunnerInv'
<1> DEFINE s == IF Coalescing THEN "forget" ELSE "delivered"
<1>1. stage' = [stage EXCEPT ![l] = s]
  BY DEF FlightReturns
<1>2. s \in Stages /\ (s \in Running \/ (~Coalescing /\ s = "delivered"))
  BY DEF Stages, Running
<1>3. /\ results[l] \in ResultMap /\ Sound(results[l], token[l])
      /\ results' = [results EXCEPT ![l] = results[l]]
  BY DEF RunnerInv, RunnerTypeOK, ResultsInv
<1> HIDE DEF s
<1>4. QED
  BY <1>1, <1>2, <1>3, FlightMoves

-----------------------------------------------------------------------------
(* The shared map.                                                         *)

\* None of the shared actions writes to a map that a flight computed.
LEMMA MapsUntouched ==
    /\ \A c \in Calls :
           \/ Process(c) \/ Join(c) \/ Lead(c) \/ WaitCancelled(c) \/ UseShared(c)
           \/ EvaluateResidual(c) \/ Cancel(c) \/ Forget(c) \/ Deliver(c)
           => results' = results
    /\ \A t \in Tokens : Expire(t) \/ Invalidate(t) => results' = results
BY DEF Process, Join, Lead, WaitCancelled, UseShared, EvaluateResidual, Cancel, Forget,
       Deliver, Expire, Invalidate, flightVars

-----------------------------------------------------------------------------
(* The answers.                                                            *)

\* One call answers, with a.
AnswerStep(c, a) ==
    /\ pc[c] # "done"
    /\ pc' = [pc EXCEPT ![c] = "done"]
    /\ returned' = [returned EXCEPT ![c] = a]
    /\ UNCHANGED <<rules, token, cancelled>>

\* No call answers; contexts may end.
SilentStep ==
    /\ \A c \in Calls : pc'[c] = "done" <=> pc[c] = "done"
    /\ cancelled \subseteq cancelled' /\ cancelled' \subseteq Calls
    /\ UNCHANGED <<rules, token, returned>>

\* A call that leaves with a sound evaluation of what it misses answers with
\* the first rule that applies.
LEMMA ReturnAnswers ==
    ASSUME EntityDetermined, RunnerInv, NEW c \in Calls, pc[c] # "done",
           NEW ev \in ResultMap, Sound(ev, token[c]),
           Covers(ev, rules[c], token[c], cached'[c]), NegativesOnly(cached'[c], token[c]),
           Return(c, ev), UNCHANGED <<rules, token, cancelled>>
    PROVE  AnswerStep(c, FirstMatch(rules[c], token[c]))
<1>1. rules[c] \in RuleLists /\ token[c] \in Tokens
  BY DEF RunnerInv, RunnerTypeOK
<1>2. FinalPass(rules[c], token[c], cached'[c], ev) = FirstMatch(rules[c], token[c])
  BY <1>1, FinalPassExact
<1>3. QED
  BY <1>2 DEF Return, AnswerStep

\* A call that leaves with nothing evaluated answers that no rule applies.
LEMMA ReturnsNothing ==
    ASSUME RunnerInv, NEW c \in Calls, pc[c] # "done", Return(c, EmptyMap),
           UNCHANGED <<rules, token, cached, cancelled>>
    PROVE  AnswerStep(c, 0)
<1>1. FinalPass(rules[c], token[c], cached[c], EmptyMap) = 0
  BY FinalPassEmpty DEF RunnerInv, RunnerTypeOK, StoreInv
<1>2. QED
  BY <1>1 DEF Return, AnswerStep

\* A call that finds everything it needs in the cache answers at once.
LEMMA ProcessAnswers ==
    ASSUME EntityDetermined, RunnerInv, RunnerInv', NEW c \in Calls, Process(c)
    PROVE  AnswerStep(c, FirstMatch(rules[c], token[c])) \/ SilentStep
<1>1. pc \in [Calls -> Locations] /\ cancelled \subseteq Calls
  BY DEF RunnerInv, RunnerTypeOK
<1>2. PICK read \in {cache[token[c]], local[token[c]], EmptyMap} :
          /\ cached' = [cached EXCEPT ![c] = read]
          /\ IF Missing(rules[c], token[c], read) = {}
             THEN Return(c, EmptyMap)
             ELSE /\ pc' = [pc EXCEPT ![c] = "join"]
                  /\ UNCHANGED returned
  BY DEF Process
<1>3. cached'[c] = read /\ NegativesOnly(cached'[c], token'[c])
  BY <1>2 DEF RunnerInv, RunnerTypeOK, StoreInv
<1>4. pc[c] = "idle" /\ UNCHANGED <<rules, token, cancelled>>
  BY DEF Process
<1>5. CASE Missing(rules[c], token[c], read) = {}
  <2>1. Covers(EmptyMap, rules[c], token[c], cached'[c])
    BY <1>3, <1>5 DEF Covers
  <2>2. QED
    BY <1>2, <1>3, <1>4, <1>5, <2>1, EmptyMapFacts, ReturnAnswers
<1>6. CASE Missing(rules[c], token[c], read) # {}
  BY <1>1, <1>2, <1>4, <1>6 DEF SilentStep
<1>7. QED
  BY <1>5, <1>6

\* A call whose flight covers what it misses answers with the first rule that
\* applies, whoever led the flight and whatever rules that caller had.
LEMMA UseSharedAnswers ==
    ASSUME EntityDetermined, RunnerInv, NEW c \in Calls, CanReceive(c), UseShared(c)
    PROVE  AnswerStep(c, FirstMatch(rules[c], token[c])) \/ SilentStep
<1> DEFINE shared == results[joined[c]]
<1>1. pc \in [Calls -> Locations] /\ cancelled \subseteq Calls
  BY DEF RunnerInv, RunnerTypeOK
<1>2. /\ pc[c] \in {"wait", "inline"}
      /\ UNCHANGED <<rules, token, cached, cancelled>>
      /\ IF Residual(rules[c], token[c], cached[c], shared) = {}
         THEN Return(c, shared)
         ELSE /\ pc' = [pc EXCEPT ![c] = "residual"]
              /\ UNCHANGED returned
  BY DEF CanReceive, UseShared, callVars
<1>3. CASE Residual(rules[c], token[c], cached[c], shared) = {}
  <2>1. joined[c] \in Calls /\ token[joined[c]] = token[c]
    BY <1>2 DEF RunnerInv, CallInv, CallOK
  <2>2. shared \in ResultMap /\ Sound(shared, token[c]) /\ NegativesOnly(cached[c], token[c])
    BY <2>1 DEF RunnerInv, RunnerTypeOK, ResultsInv, StoreInv
  <2>3. Covers(shared, rules[c], token[c], cached[c])
    BY <1>3 DEF Covers, Residual
  <2>4. QED
    BY <1>2, <1>3, <2>2, <2>3, ReturnAnswers
<1>4. CASE Residual(rules[c], token[c], cached[c], shared) # {}
  BY <1>1, <1>2, <1>4 DEF SilentStep
<1>5. QED
  BY <1>3, <1>4

\* A call that completes a partial map inline answers with the first rule that
\* applies.
LEMMA ResidualAnswers ==
    ASSUME EntityDetermined, RunnerInv, NEW c \in Calls, EvaluateResidual(c)
    PROVE  AnswerStep(c, FirstMatch(rules[c], token[c]))
<1> DEFINE shared == results[joined[c]]
           fresh  == matchMissing(rules[c], token[c], cached[c],
                         Residual(rules[c], token[c], cached[c], shared))
<1>1. /\ pc[c] = "residual"
      /\ UNCHANGED <<rules, token, cached, cancelled>>
      /\ Return(c, Merge(shared, fresh))
  BY DEF EvaluateResidual, callVars
<1>2. /\ Merge(shared, fresh) \in ResultMap
      /\ Sound(Merge(shared, fresh), token[c])
      /\ Covers(Merge(shared, fresh), rules[c], token[c], cached[c])
  BY <1>1, ResidualFacts
<1>3. NegativesOnly(cached[c], token[c])
  BY DEF RunnerInv, StoreInv
<1> HIDE DEF fresh
<1>4. QED
  BY <1>1, <1>2, <1>3, ReturnAnswers

\* The other shared actions answer nobody, except a caller whose context is
\* done, who is told that no rule applies.
LEMMA SilentCall ==
    ASSUME RunnerInv, NEW c \in Calls, Join(c) \/ Lead(c) \/ Cancel(c) \/ Forget(c) \/ Deliver(c)
    PROVE  SilentStep
<1>1. pc \in [Calls -> Locations] /\ cancelled \subseteq Calls
  BY DEF RunnerInv, RunnerTypeOK
<1>2. QED
  BY <1>1 DEF Join, Lead, Cancel, Forget, Deliver, callVars, SilentStep

LEMMA SilentStore ==
    ASSUME RunnerInv, NEW t \in Tokens, Expire(t) \/ Invalidate(t)
    PROVE  SilentStep
<1>1. cancelled \subseteq Calls
  BY DEF RunnerInv, RunnerTypeOK
<1>2. QED
  BY <1>1 DEF Expire, Invalidate, callVars, SilentStep

LEMMA CancelledAnswers ==
    ASSUME RunnerInv, NEW c \in Calls, WaitCancelled(c)
    PROVE  c \in cancelled /\ AnswerStep(c, 0)
<1>1. /\ pc[c] = "wait" /\ c \in cancelled /\ Return(c, EmptyMap)
      /\ UNCHANGED <<rules, token, cached, cancelled>>
  BY DEF WaitCancelled, CtxDone
<1>2. QED
  BY <1>1, ReturnsNothing

=============================================================================
