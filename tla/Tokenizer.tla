----------------------------- MODULE Tokenizer ------------------------------
(***************************************************************************)
(* TokenIterator (analyzer/tokenization.go) as a machine that reads one    *)
(* rune a step: skipDelimiters, findTokenEnd and the loop that yields.     *)
(*                                                                         *)
(* Runes are reduced to the four classes the code tells apart: the escape  *)
(* character, the control letters n, t and r, the other delimiters and     *)
(* everything else.  Positions count runes, from 0 as in the code.         *)
(***************************************************************************)
EXTENDS Naturals, Sequences, FiniteSets

CONSTANT MaxLength   \* bound on the input's length

ASSUME MaxLengthAssumption == MaxLength \in Nat

Classes == {"escape", "control", "delimiter", "other"}

VARIABLES
    s,           \* the input
    phase,       \* "loop", "skip", "find" or "end"
    start,       \* start of the token, or of what is being skipped
    end,         \* end of the token so far
    isEscaping,  \* the flag of the function that is running
    tokens       \* the tokens yielded

vars == <<s, phase, start, end, isEscaping, tokens>>

\* The backslash is one of the delimiters.
isDelimiter(r) == r \in {"delimiter", "escape"}

At(p) == s[p + 1]

Init ==
    /\ s \in UNION {[1..n -> Classes] : n \in 0..MaxLength}
    /\ phase = "loop"
    /\ start = 0
    /\ end = 0
    /\ isEscaping = FALSE
    /\ tokens = <<>>

\* Mutant of Loop: it does not leave at the end of the input.
LoopNeverEnds ==
    /\ phase = "loop"
    /\ phase' = IF start < Len(s) THEN "skip" ELSE "loop"
    /\ isEscaping' = FALSE
    /\ UNCHANGED <<s, start, end, tokens>>

\* The head of the iterator's loop: on to skipDelimiters, or out.
Loop ==
    /\ phase = "loop"
    /\ phase' = IF start < Len(s) THEN "skip" ELSE "end"
    /\ isEscaping' = FALSE
    /\ UNCHANGED <<s, start, end, tokens>>

\* Mutant of EscapedControl: no escape is needed.
AnyControl == At(start) = "control"

\* A control letter the escape before it accounts for.
EscapedControl == At(start) = "control" /\ isEscaping

\* skipDelimiters, one rune: an escape sets the flag; a control letter is
\* dropped while the flag is up, and lowers it; a delimiter is dropped and
\* leaves the flag as it is.
SkipRune ==
    /\ phase = "skip"
    /\ start < Len(s)
    /\ \/ At(start) = "escape" /\ isEscaping' = TRUE
       \/ EscapedControl /\ isEscaping' = FALSE
       \/ At(start) = "delimiter" /\ UNCHANGED isEscaping
    /\ start' = start + 1
    /\ UNCHANGED <<s, phase, end, tokens>>

\* skipDelimiters returns: at the end of the input the iterator stops, any
\* other rune begins a token.
SkipDone ==
    /\ phase = "skip"
    /\ IF start >= Len(s)
       THEN phase' = "end"
       ELSE /\ ~isDelimiter(At(start)) /\ ~EscapedControl
            /\ phase' = "find"
    /\ end' = start
    /\ isEscaping' = FALSE
    /\ UNCHANGED <<s, start, tokens>>

\* findTokenEnd, one rune.  The escape character never gets here: it is a
\* delimiter, so the flag stays down and the backtrack is not reached.
FindRune ==
    /\ phase = "find"
    /\ end < Len(s)
    /\ ~isDelimiter(At(end))
    /\ ~(isEscaping /\ At(end) = "control")
    /\ isEscaping' = (At(end) = "escape")
    /\ end' = end + 1
    /\ UNCHANGED <<s, phase, start, tokens>>

\* Mutant of Resume: the delimiter behind the token is taken for granted.
ResumeBeyond(stop) == stop + 1

\* Where the loop goes on after a token.
Resume(stop) == stop

\* findTokenEnd returns and the token is yielded.
Yield ==
    /\ phase = "find"
    /\ LET backtrack == end < Len(s) /\ isEscaping /\ At(end) = "control"
           stop == IF backtrack THEN end - 1 ELSE end
       IN  /\ IF end < Len(s) THEN isDelimiter(At(end)) \/ backtrack ELSE TRUE
           /\ tokens' = Append(tokens, [start |-> start, end |-> stop])
           /\ start' = Resume(stop)
    /\ phase' = "loop"
    /\ UNCHANGED <<s, end, isEscaping>>

\* The iterator has ended.
Ended == phase = "end" /\ UNCHANGED vars

Next == Loop \/ SkipRune \/ SkipDone \/ FindRune \/ Yield \/ Ended

Spec == Init /\ [][Next]_vars
FairSpec == Spec /\ WF_vars(Loop \/ SkipRune \/ SkipDone \/ FindRune \/ Yield)

-----------------------------------------------------------------------------
(* Properties.                                                             *)

\* Every variable keeps its type, and the positions stay inside the input.
TypeOK ==
    /\ phase \in {"loop", "skip", "find", "end"}
    /\ start \in 0..Len(s)
    /\ end \in 0..Len(s)
    /\ isEscaping \in BOOLEAN
    /\ Len(tokens) <= Len(s)

\* A run is a longest stretch of the input without delimiters.
Runs ==
    {r \in [start : 0..Len(s), end : 0..Len(s)] :
        /\ r.start < r.end
        /\ \A p \in r.start..(r.end - 1) : ~isDelimiter(At(p))
        /\ r.start > 0 => isDelimiter(At(r.start - 1))
        /\ r.end < Len(s) => isDelimiter(At(r.end))}

\* An escape occurs among the delimiters right before the run.
Escaped(r) ==
    \E p \in 0..Len(s) :
        /\ p < r.start
        /\ At(p) = "escape"
        /\ \A q \in p..(r.start - 1) : isDelimiter(At(q))

\* A run loses its first rune when that is a control letter after an escape.
Trimmed(r) ==
    IF At(r.start) = "control" /\ Escaped(r) THEN [r EXCEPT !.start = @ + 1] ELSE r

ExpectedTokens == {t \in {Trimmed(r) : r \in Runs} : t.start < t.end}

\* What the iterator yields, stated without its loop: the runs of the input,
\* each without the control letter an escape before it accounts for, all of
\* them, once, from left to right.  No run is missed but one that is nothing but
\* such a letter; the letter itself stays outside the token.
YieldsEveryRun ==
    phase = "end" =>
        /\ {tokens[i] : i \in DOMAIN tokens} = ExpectedTokens
        /\ \A i, j \in DOMAIN tokens : i < j => tokens[i].end < tokens[j].start

\* The iterator ends on every input.
Terminates == <>(phase = "end")

=============================================================================
