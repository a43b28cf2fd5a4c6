--------------------------- MODULE MCByteAnalyzer ---------------------------
(***************************************************************************)
(* Instances of ByteAnalyzer, as AnalyzerFactory builds it, for TLC.        *)
(***************************************************************************)
EXTENDS AnalyzerFactory

T(s, e, r) == [start |-> s, end |-> e, rule |-> r]
S(strategy, n, entity) == [strategy |-> strategy, maxSize |-> n, entity |-> entity]

Redact == S("REDACT", 0, "EMAIL")
Mask0 == S("MASK", 0, "IP_ADDRESS")
Mask2 == S("MASK", 2, "CPF_NUMBER")
Unknown == S("unknown", 0, "UUID")

\* Tokens at the start, in the middle and at the end; every strategy; masks
\* shorter and longer than their tokens.
Mixed == [len |-> 7, anyRules |-> TRUE,
          tokens |-> <<T(0, 2, Redact), T(3, 4, Mask2), T(5, 6, NoRule)>>]
Edges == [len |-> 6, anyRules |-> TRUE,
          tokens |-> <<T(1, 4, Mask0), T(5, 6, Panics)>>]
Odd == [len |-> 3, anyRules |-> TRUE, tokens |-> <<T(1, 3, Unknown)>>]
Short == [len |-> 4, anyRules |-> TRUE, tokens |-> <<T(1, 4, Mask2)>>]
NoRules == [len |-> 4, anyRules |-> FALSE, tokens |-> <<T(1, 3, Redact)>>]

MCDocuments == {Mixed, Edges, Odd, NoRules}
MCTwoDocuments == {Mixed, Short}

P(t, r) == [token |-> t, runner |-> r]
MCPools == {NoPools, P(2, 0), P(0, 1), P(1, 1)}
MCTokenPool == {NoPools, P(1, 0)}

O(make, cache, ping, tokens, tokenSize, rules, ruleSize) ==
    [make |-> make, cacheEnabled |-> cache, pingOnConnect |-> ping, enabled |-> TRUE,
     ruleProcessing |-> rules, tokenProcessing |-> tokens,
     ruleRunnerPoolSize |-> ruleSize, tokenPoolSize |-> tokenSize]

\* Token workers over a serial runner, with no cache; a string analyzer, which
\* ignores the token pool it is asked for, over a runner with a pool; both
\* levels with a single worker each.
TokenWorkers == O("byte", FALSE, FALSE, TRUE, 2, FALSE, 0)
StringRules == O("string", TRUE, TRUE, TRUE, 0, TRUE, 1)
BothLevels == O("byte", TRUE, TRUE, TRUE, 1, TRUE, 1)

\* Concurrency switched off, whatever else is asked for, and two sizes that
\* are refused, one of them after the other pool has been made.
Off == [BothLevels EXCEPT !.enabled = FALSE]
NoRuleWorkers == O("string", TRUE, FALSE, FALSE, 0, TRUE, 0)
NoTokenWorkers == O("byte", TRUE, FALSE, TRUE, -1, TRUE, 1)

MCOptions == {TokenWorkers, StringRules, BothLevels, Off, NoRuleWorkers, NoTokenWorkers}
MCOneTokenWorker == {O("byte", FALSE, FALSE, TRUE, 1, FALSE, 0)}

=============================================================================
