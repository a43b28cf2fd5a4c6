--------------------------- MODULE MCSerialRunner ---------------------------
(***************************************************************************)
(* Instances of SerialRunner for TLC.                                      *)
(***************************************************************************)
EXTENDS SerialRunner, TLC

CONSTANTS t1, t2, ea, eb, ec

R(d, e, m, x) == [disable |-> d, entity |-> e,
                  matches |-> m \cap Tokens, exceptions |-> x \cap Tokens]

\* One matcher per entity: eb and ec accept t1, ea accepts t2.  The lists
\* differ in order, in exceptions, in a disabled rule and in a repeated entity,
\* so that the missing sets of two callers of one token may each exceed the
\* other's.
A  == R(FALSE, ea, {t2}, {})
B  == R(FALSE, eb, {t1}, {})
Bx == R(FALSE, eb, {t1}, {t1})
Cd == R(TRUE,  ec, {t1}, {})
C  == R(FALSE, ec, {t1}, {})

MCRuleLists == {<<A, B, C>>, <<Bx, C, Cd>>, <<Bx, A, B>>}
MCTwoLists == {<<A, C>>, <<Bx, A, B>>}

\* IPv4Matcher and IPv6Matcher name the same entity and accept different
\* tokens.
V4 == R(FALSE, ea, {t1}, {})
V6 == R(FALSE, ea, {t2}, {})
MCIPLists == {<<V4, V6>>}

Symmetry == Permutations(Calls)

=============================================================================
