---------------------------- MODULE RuleService -----------------------------
(***************************************************************************)
(* What RuleRunner.Process promises its callers, whatever cache, flights   *)
(* or workers stand behind it: a call answers once, and it answers with a  *)
(* rule that applies to its token.  It may come back empty-handed although *)
(* a rule applies only when it is excused: its context was cancelled, or   *)
(* the runner was stopped.                                                 *)
(***************************************************************************)
EXTENDS RuleMatching

CONSTANTS
    Calls,    \* calls of Process
    Ordered   \* the answer is the first rule that applies, not just any

VARIABLES rules, token, excused, done, returned

vars == <<rules, token, excused, done, returned>>

Init ==
    /\ rules \in [Calls -> RuleLists]
    /\ token \in [Calls -> Tokens]
    /\ excused = {}
    /\ done = {}
    /\ returned = [c \in Calls |-> 0]

Answers(c) ==
    IF Ordered \/ Matching(rules[c], token[c]) = {}
    THEN {FirstMatch(rules[c], token[c])}
    ELSE Matching(rules[c], token[c])

Answer(c) ==
    /\ c \notin done
    /\ done' = done \cup {c}
    /\ \E a \in Answers(c) \cup (IF c \in excused THEN {0} ELSE {}) :
          returned' = [returned EXCEPT ![c] = a]
    /\ UNCHANGED <<rules, token, excused>>

Excuse ==
    /\ \E S \in SUBSET Calls : excused' = excused \cup S
    /\ UNCHANGED <<rules, token, done, returned>>

Next == Excuse \/ \E c \in Calls : Answer(c)

Spec == Init /\ [][Next]_vars

=============================================================================
