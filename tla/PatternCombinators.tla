------------------------- MODULE PatternCombinators -------------------------
(***************************************************************************)
(* The combinators of pattern/meta.go.  A pattern is reduced to its answer *)
(* on the input at hand, so a list of patterns is a sequence of Booleans;  *)
(* the evaluation loops stay, one iteration a step, with their early       *)
(* returns.                                                                *)
(***************************************************************************)
EXTENDS Integers, Sequences, FiniteSets

CONSTANTS
    MaxPatterns,   \* bound on the number of patterns combined
    MaxThreshold   \* bound on the threshold given to AtLeastN

ASSUME PatternsAssumption == MaxPatterns \in Nat /\ MaxThreshold \in Nat

VARIABLES
    kind,      \* the combinator
    patterns,  \* the answers of the combined patterns
    n,         \* AtLeastN's threshold
    i,         \* patterns evaluated so far
    passes, fails,
    verdict    \* "pending", or what Match returned

vars == <<kind, patterns, n, i, passes, fails, verdict>>

\* AtLeastN's threshold is clamped when the pattern is built.
clamp(m, len) == LET least == IF m < 1 THEN 1 ELSE m
                 IN  IF least > len THEN len ELSE least

Init ==
    /\ kind \in {"All", "Any", "AtLeastN"}
    /\ patterns \in UNION {[1..k -> BOOLEAN] : k \in 0..MaxPatterns}
    /\ n \in {clamp(m, Len(patterns)) : m \in -1..MaxThreshold}
    /\ i = 0
    /\ passes = 0
    /\ fails = 0
    /\ verdict = "pending"

Answer(b) == verdict' = IF b THEN "match" ELSE "no match"

\* An iteration of All's loop, or of Any's: the first false, or true, decides.
\* And is All of two patterns, Or is Any of two.
AllStep ==
    /\ kind = "All" /\ verdict = "pending" /\ i < Len(patterns)
    /\ i' = i + 1
    /\ IF patterns[i + 1] THEN UNCHANGED verdict ELSE Answer(FALSE)
    /\ UNCHANGED <<kind, patterns, n, passes, fails>>

AnyStep ==
    /\ kind = "Any" /\ verdict = "pending" /\ i < Len(patterns)
    /\ i' = i + 1
    /\ IF patterns[i + 1] THEN Answer(TRUE) ELSE UNCHANGED verdict
    /\ UNCHANGED <<kind, patterns, n, passes, fails>>

\* Mutant of Hopeless: it gives up one failure too early.
HopelessEarly(f) == Len(patterns) - f <= n

\* With f failures the threshold is out of reach.
Hopeless(f) == Len(patterns) - f < n

\* An iteration of AtLeastN: it gives up when the rest cannot reach the
\* threshold and answers as soon as it is reached.
AtLeastNStep ==
    /\ kind = "AtLeastN" /\ verdict = "pending" /\ i < Len(patterns)
    /\ i' = i + 1
    /\ passes' = IF patterns[i + 1] THEN passes + 1 ELSE passes
    /\ fails' = IF patterns[i + 1] THEN fails ELSE fails + 1
    /\ IF Hopeless(fails') THEN Answer(FALSE)
       ELSE IF passes' >= n THEN Answer(TRUE)
       ELSE UNCHANGED verdict
    /\ UNCHANGED <<kind, patterns, n>>

\* The loop runs out of patterns.
LoopEnds ==
    /\ verdict = "pending" /\ i = Len(patterns)
    /\ Answer(kind = "All" /\ Len(patterns) > 0)
    /\ UNCHANGED <<kind, patterns, n, i, passes, fails>>

Decided == verdict # "pending" /\ UNCHANGED vars

Next == AllStep \/ AnyStep \/ AtLeastNStep \/ LoopEnds \/ Decided

Spec == Init /\ [][Next]_vars

-----------------------------------------------------------------------------
(* Properties.                                                             *)

Matching == Cardinality({k \in DOMAIN patterns : patterns[k]})

\* Stopping early never changes an answer: each combinator agrees with a count
\* over all of its patterns.  Any and AtLeastN of no patterns "will always return
\* false", AtLeastN although its threshold is then clamped to zero.  All of no
\* patterns is not claimed: meta.go:44 says that it "will always return true",
\* while the code and its test have it return false.
VerdictIsCount ==
    (verdict # "pending" /\ ~(kind = "All" /\ patterns = <<>>)) =>
        (verdict = "match" <=>
            /\ patterns # <<>>
            /\ Matching >= CASE kind = "All"      -> Len(patterns)
                             [] kind = "Any"      -> 1
                             [] kind = "AtLeastN" -> n)

=============================================================================
