------------------------- MODULE MCConcurrentRunner -------------------------
(***************************************************************************)
(* Instances of ConcurrentRunner for TLC.                                  *)
(***************************************************************************)
EXTENDS ConcurrentRunner, TLC

CONSTANTS t1, ea, eb, ec

R(d, e, m, x) == [disable |-> d, entity |-> e, matches |-> m, exceptions |-> x]

\* eb and ec accept t1, ea does not: a negative, a first match and a later
\* match compete in one flight.
A  == R(FALSE, ea, {}, {})
B  == R(FALSE, eb, {t1}, {})
Bx == R(FALSE, eb, {t1}, {t1})
C  == R(FALSE, ec, {t1}, {})

MCRuleLists == {<<A, B>>, <<Bx, A, C>>}
MCMatches == {<<B, C>>, <<A, C>>}
MCLivenessLists == {<<A, C>>, <<A>>}

Symmetry == Permutations(Calls)

=============================================================================
