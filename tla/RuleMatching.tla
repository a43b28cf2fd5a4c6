---------------------------- MODULE RuleMatching ----------------------------
(***************************************************************************)
(* The pure part of a rule runner: how one token is classified against a   *)
(* list of rules, which entities have to be evaluated, what is persisted   *)
(* and which rule wins.  analyzer/serial_runner.go and                     *)
(* analyzer/concurrent_runner.go hold the same text for these functions,   *)
(* so both runners are built from this module.                             *)
(*                                                                         *)
(* A matcher is a function of the token's bytes, so a rule is abstracted   *)
(* to the set of tokens its matcher accepts and the set of tokens one of   *)
(* its exceptions accepts.                                                 *)
(***************************************************************************)
EXTENDS Naturals, Sequences

CONSTANTS
    Tokens,     \* token contents (the []byte handed to Process)
    Entities,   \* pattern.Entity values
    RuleLists   \* the rule lists a caller may pass to Process

\* analyzer.Rule, reduced to what decides a match.
Rule == [disable    : BOOLEAN,
         entity     : Entities,
         matches    : SUBSET Tokens,
         exceptions : SUBSET Tokens]

ASSUME RuleListsAssumption == RuleLists \subseteq Seq(Rule)

\* A map[pattern.Entity]bool: a key may be absent, hold false or hold true.
Outcome == {"absent", "no", "yes"}
ResultMap == [Entities -> Outcome]
EmptyMap == [e \in Entities |-> "absent"]

\* The first index of a set of rule positions; 0 stands for (Rule{}, false).
LeastIndex(S) == IF S = {} THEN 0 ELSE CHOOSE i \in S : \A j \in S : i <= j

-----------------------------------------------------------------------------
\* isException: some exception matcher of the rule accepts the token.
isException(rule, t) == t \in rule.exceptions

\* classifyRules, the branch that queues: the positions of the enabled rules
\* of entity e that are neither answered by the cached map nor excepted.
Claims(rules, t, cached, e) ==
    {i \in DOMAIN rules : /\ ~rules[i].disable
                          /\ rules[i].entity = e
                          /\ cached[e] = "absent"
                          /\ ~isException(rules[i], t)}

\* classifyRules, its second result: the entities queued for evaluation.
Missing(rules, t, cached) ==
    {e \in Entities : Claims(rules, t, cached, e) # {}}

\* matchMissing: every entity of M is evaluated once, by the matcher of the
\* first rule that claims it.
matchMissing(rules, t, cached, M) ==
    [e \in Entities |->
        IF e \notin M THEN "absent"
        ELSE IF t \in rules[LeastIndex(Claims(rules, t, cached, e))].matches
             THEN "yes" ELSE "no"]

\* Mutant of Residual: the shared map is ignored.
ResidualAll(rules, t, cached, shared) == Missing(rules, t, cached)

\* evaluateMissing: the caller's missing entities the shared map lacks.
Residual(rules, t, cached, shared) ==
    {e \in Missing(rules, t, cached) : shared[e] = "absent"}

\* maps.Copy of b over a, into a fresh map.
Merge(a, b) == [e \in Entities |-> IF b[e] = "absent" THEN a[e] ELSE b[e]]

\* Mutant of Negatives: positives are persisted too.
NegativesAndPositives(results) == results

\* saveNegatives: what one evaluation persists, positives left out.
Negatives(results) ==
    [e \in Entities |-> IF results[e] = "no" THEN "no" ELSE "absent"]

\* Mutant of FinalPass: exceptions are not looked at again.
FinalPassExcepted(rules, t, cached, evaluated) ==
    LeastIndex({i \in DOMAIN rules :
        /\ ~rules[i].disable
        /\ IF cached[rules[i].entity] # "absent"
           THEN cached[rules[i].entity] = "yes"
           ELSE evaluated[rules[i].entity] = "yes"})

\* The final in-order pass of Process: the first rule whose cached or
\* evaluated result is true.  A cached entity is not checked for exceptions.
FinalPass(rules, t, cached, evaluated) ==
    LeastIndex({i \in DOMAIN rules :
        /\ ~rules[i].disable
        /\ IF cached[rules[i].entity] # "absent"
           THEN cached[rules[i].entity] = "yes"
           ELSE /\ ~isException(rules[i], t)
                /\ evaluated[rules[i].entity] = "yes"})

-----------------------------------------------------------------------------
\* What a caller is promised, with no cache, no sharing and no concurrency:
\* the positions of the enabled rules that accept the token and do not
\* except it, and the first of them.
Matching(rules, t) ==
    {i \in DOMAIN rules : /\ ~rules[i].disable
                          /\ t \in rules[i].matches
                          /\ ~isException(rules[i], t)}

FirstMatch(rules, t) == LeastIndex(Matching(rules, t))

\* Some enabled rule of entity e, not excepted for t, accepts (rejects) t: what
\* an entity's positive (negative) outcome on a token has to come from.
Witness(t, e, answer) ==
    \E rs \in RuleLists : \E i \in DOMAIN rs :
        /\ ~rs[i].disable
        /\ rs[i].entity = e
        /\ ~isException(rs[i], t)
        /\ (t \in rs[i].matches) = answer
Accepted(t, e) == Witness(t, e, TRUE)
Rejected(t, e) == Witness(t, e, FALSE)

\* A map that holds nothing but negatives a matcher produced for the token.
NegativesOnly(m, t) ==
    \A e \in Entities : m[e] # "absent" => m[e] = "no" /\ Rejected(t, e)

\* Rules of one entity accept the same tokens.  It holds when every entity
\* has one matcher, and is what sharing results under an entity's name needs.
EntityDetermined ==
    \A rs, qs \in RuleLists : \A i \in DOMAIN rs, j \in DOMAIN qs :
        rs[i].entity = qs[j].entity =>
            \A t \in Tokens : t \in rs[i].matches <=> t \in qs[j].matches

=============================================================================
