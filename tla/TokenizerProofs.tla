-------------------------- MODULE TokenizerProofs ---------------------------
(***************************************************************************)
(* Proofs about Tokenizer, for inputs of every length: the iterator yields *)
(* exactly the runs of the input, from left to right.                      *)
(***************************************************************************)
EXTENDS Tokenizer, SequenceTheorems, TLAPS

-----------------------------------------------------------------------------
(* The inductive invariant.                                                *)

\* An escape occurs among the delimiters right before position p.
EscapeBefore(p) ==
    \E q \in 0..Len(s) : /\ q < p
                         /\ At(q) = "escape"
                         /\ \A k \in q..(p - 1) : isDelimiter(At(k))

\* The input begins at p, or a delimiter ends there.
Boundary(p) == p = 0 \/ isDelimiter(At(p - 1))

\* The control letter before p was dropped, for an escape before it.
Dropped(p) == p > 0 /\ At(p - 1) = "control" /\ EscapeBefore(p - 1)

\* p is the first position of a token.
TokenStart(p) ==
    \/ Boundary(p) /\ ~(At(p) = "control" /\ EscapeBefore(p))
    \/ Dropped(p)

\* In the loop the rune before start belongs to a token, and the one at start
\* does not.
LoopOK ==
    /\ start = 0 \/ ~isDelimiter(At(start - 1))
    /\ start > 0 /\ start < Len(s) => isDelimiter(At(start))

\* The flag of skipDelimiters says whether an escape is among the delimiters
\* before start.
SkipOK ==
    /\ isEscaping = EscapeBefore(start)
    /\ Boundary(start) \/ Dropped(start) \/ (start < Len(s) => isDelimiter(At(start)))

\* findTokenEnd has a token from start up to end, and its flag is down.
FindOK ==
    /\ start < Len(s) /\ start <= end
    /\ TokenStart(start) /\ ~isDelimiter(At(start))
    /\ \A p \in start..(end - 1) : ~isDelimiter(At(p))
    /\ ~isEscaping

\* What has been yielded are the tokens of the input that end before start.
YieldedOK ==
    /\ \A t \in ExpectedTokens :
           t.end <= start <=> \E i \in 1..Len(tokens) : tokens[i] = t
    /\ \A i \in 1..Len(tokens) : tokens[i] \in ExpectedTokens
    /\ \A i, j \in 1..Len(tokens) : i < j => tokens[i].end < tokens[j].start
    /\ Len(tokens) <= start

Span == [start : Nat, end : Nat]

Types ==
    /\ s \in Seq(Classes)
    /\ phase \in {"loop", "skip", "find", "end"}
    /\ start \in 0..Len(s) /\ end \in 0..Len(s)
    /\ isEscaping \in BOOLEAN
    /\ tokens \in Seq(Span)

IndInv ==
    /\ Types
    /\ phase = "loop" => LoopOK
    /\ phase = "skip" => SkipOK
    /\ phase = "find" => FindOK
    /\ phase = "end" => start = Len(s)
    /\ YieldedOK

-----------------------------------------------------------------------------
(* Facts about the input.                                                  *)

LEMMA LengthFacts ==
    ASSUME Types
    PROVE  Len(s) \in Nat /\ start \in Nat /\ end \in Nat /\ Len(tokens) \in Nat
BY DEF Types

\* What is before a position decides whether an escape is.
LEMMA EscapeBeforeFacts ==
    ASSUME Len(s) \in Nat
    PROVE  /\ ~EscapeBefore(0)
           /\ \A p \in 0..Len(s) : EscapeBefore(p) => p > 0 /\ isDelimiter(At(p - 1))
           /\ \A p \in 0..(Len(s) - 1) :
                 /\ At(p) = "escape" => EscapeBefore(p + 1)
                 /\ ~isDelimiter(At(p)) => ~EscapeBefore(p + 1)
                 /\ At(p) = "delimiter" => (EscapeBefore(p + 1) <=> EscapeBefore(p))
<1>1. ~EscapeBefore(0)
  BY DEF EscapeBefore
<1>2. ASSUME NEW p \in 0..Len(s), EscapeBefore(p) PROVE p > 0 /\ isDelimiter(At(p - 1))
  <2>1. PICK q \in 0..Len(s) : q < p /\ \A k \in q..(p - 1) : isDelimiter(At(k))
    BY <1>2 DEF EscapeBefore
  <2>2. p > 0 /\ p - 1 \in q..(p - 1)
    BY <2>1
  <2>3. QED
    BY <2>1, <2>2
<1>3. ASSUME NEW p \in 0..(Len(s) - 1), At(p) = "escape" PROVE EscapeBefore(p + 1)
  <2>1. p \in 0..Len(s) /\ p < p + 1 /\ p..((p + 1) - 1) = {p}
    OBVIOUS
  <2>2. isDelimiter(At(p))
    BY <1>3 DEF isDelimiter
  <2>3. QED
    BY <1>3, <2>1, <2>2 DEF EscapeBefore
<1>4. ASSUME NEW p \in 0..(Len(s) - 1), EscapeBefore(p + 1) PROVE isDelimiter(At(p))
  <2>1. p + 1 \in 0..Len(s) /\ (p + 1) - 1 = p
    OBVIOUS
  <2>2. QED
    BY <1>2, <1>4, <2>1
<1>5. ASSUME NEW p \in 0..(Len(s) - 1), At(p) = "delimiter", EscapeBefore(p + 1)
      PROVE  EscapeBefore(p)
  <2>1. PICK q \in 0..Len(s) : /\ q < p + 1 /\ At(q) = "escape"
                               /\ \A k \in q..((p + 1) - 1) : isDelimiter(At(k))
    BY <1>5 DEF EscapeBefore
  <2>2. q # p /\ q < p
    <3>1. q # p
      BY <1>5, <2>1
    <3>2. QED
      BY <2>1, <3>1
  <2>3. \A k \in q..(p - 1) : isDelimiter(At(k))
    BY <2>1, <2>2
  <2>4. QED
    BY <2>1, <2>2, <2>3 DEF EscapeBefore
<1>6. ASSUME NEW p \in 0..(Len(s) - 1), At(p) = "delimiter", EscapeBefore(p)
      PROVE  EscapeBefore(p + 1)
  <2>1. PICK q \in 0..Len(s) : /\ q < p /\ At(q) = "escape"
                               /\ \A k \in q..(p - 1) : isDelimiter(At(k))
    BY <1>6 DEF EscapeBefore
  <2>2. isDelimiter(At(p))
    BY <1>6 DEF isDelimiter
  <2>3. ASSUME NEW k \in q..((p + 1) - 1) PROVE isDelimiter(At(k))
    <3>1. k = p \/ k \in q..(p - 1)
      OBVIOUS
    <3>2. QED
      BY <2>1, <2>2, <3>1
  <2>4. q < p + 1
    BY <2>1
  <2>5. QED
    BY <2>1, <2>3, <2>4 DEF EscapeBefore
<1>7. QED
  BY <1>1, <1>2, <1>3, <1>4, <1>5, <1>6

\* What a run is, field by field.
LEMMA RunFacts ==
    ASSUME Len(s) \in Nat, NEW r \in Runs
    PROVE  /\ r.start \in 0..Len(s) /\ r.end \in 0..Len(s) /\ r.start < r.end
           /\ r = [start |-> r.start, end |-> r.end]
           /\ \A p \in r.start..(r.end - 1) : ~isDelimiter(At(p))
           /\ Boundary(r.start)
           /\ r.end < Len(s) => isDelimiter(At(r.end))
           /\ Escaped(r) <=> EscapeBefore(r.start)
BY DEF Runs, Boundary, Escaped, EscapeBefore

\* Two runs with the same end are the same run.
LEMMA RunsUnique ==
    ASSUME Len(s) \in Nat, NEW r \in Runs, NEW q \in Runs, r.end = q.end
    PROVE  r = q
<1>1. ASSUME NEW a \in Runs, NEW b \in Runs, a.end = b.end, a.start < b.start PROVE FALSE
  <2>1. /\ a.start \in 0..Len(s) /\ a.end \in 0..Len(s)
        /\ b.start \in 0..Len(s) /\ b.start < b.end
        /\ \A p \in a.start..(a.end - 1) : ~isDelimiter(At(p))
        /\ Boundary(b.start)
    BY RunFacts
  <2>2. b.start - 1 \in a.start..(a.end - 1)
    BY <1>1, <2>1
  <2>3. isDelimiter(At(b.start - 1))
    BY <1>1, <2>1 DEF Boundary
  <2>4. QED
    BY <2>1, <2>2, <2>3
<1>2. r.start \in Int /\ q.start \in Int
  BY RunFacts
<1>3. r.start = q.start
  BY <1>1, <1>2
<1>4. QED
  BY <1>3, RunFacts

\* The run a token comes from.
LEMMA TokenFacts ==
    ASSUME Len(s) \in Nat, NEW t \in ExpectedTokens
    PROVE  \E r \in Runs :
              /\ t = Trimmed(r) /\ t.end = r.end
              /\ t = [start |-> t.start, end |-> t.end]
              /\ t.start \in {r.start, r.start + 1} /\ t.start < t.end
              /\ At(r.start) = "control" /\ EscapeBefore(r.start) => t.start = r.start + 1
<1>1. PICK r \in Runs : t = Trimmed(r)
  BY DEF ExpectedTokens
<1>2. t.start < t.end
  BY DEF ExpectedTokens
<1>3. /\ r = [start |-> r.start, end |-> r.end]
      /\ Escaped(r) <=> EscapeBefore(r.start)
  BY RunFacts
<1>4. CASE At(r.start) = "control" /\ Escaped(r)
  <2>1. t = [start |-> r.start + 1, end |-> r.end]
    BY <1>1, <1>3, <1>4 DEF Trimmed
  <2>2. t.start = r.start + 1 /\ t.end = r.end
    BY <2>1
  <2>3. t = [start |-> t.start, end |-> t.end]
    BY <2>1, <2>2
  <2>4. QED
    BY <1>1, <1>2, <2>2, <2>3
<1>5. CASE ~(At(r.start) = "control" /\ Escaped(r))
  <2>1. t = r
    BY <1>1, <1>5 DEF Trimmed
  <2>2. QED
    BY <1>1, <1>2, <1>3, <1>5, <2>1
<1>6. QED
  BY <1>4, <1>5

\* A token is behind a delimiter or the end of the input.
LEMMA TokenEnds ==
    ASSUME Len(s) \in Nat, NEW t \in ExpectedTokens
    PROVE  /\ t \in Span /\ t.end \in 0..Len(s) /\ t.start < t.end
           /\ t.end < Len(s) => isDelimiter(At(t.end))
<1>1. PICK r \in Runs :
         /\ t.end = r.end /\ t = [start |-> t.start, end |-> t.end]
         /\ t.start \in {r.start, r.start + 1} /\ t.start < t.end
  BY TokenFacts
<1>2. /\ r.start \in 0..Len(s) /\ r.end \in 0..Len(s)
      /\ r.end < Len(s) => isDelimiter(At(r.end))
  BY RunFacts
<1>3. t.start \in Nat /\ t.end \in Nat
  BY <1>1, <1>2
<1>4. QED
  BY <1>1, <1>2, <1>3 DEF Span

\* Skipping a rune skips no token.
LEMMA NothingSkipped ==
    ASSUME Len(s) \in Nat, NEW p \in 0..(Len(s) - 1),
           isDelimiter(At(p)) \/ (At(p) = "control" /\ EscapeBefore(p)),
           NEW t \in ExpectedTokens
    PROVE  t.end # p + 1
<1> SUFFICES ASSUME t.end = p + 1 PROVE FALSE
  OBVIOUS
<1>1. PICK r \in Runs :
         /\ t.end = r.end /\ t.start \in {r.start, r.start + 1} /\ t.start < t.end
         /\ At(r.start) = "control" /\ EscapeBefore(r.start) => t.start = r.start + 1
  BY TokenFacts
<1>2. /\ r.start \in 0..Len(s) /\ r.end \in 0..Len(s) /\ r.start < r.end
      /\ \A k \in r.start..(r.end - 1) : ~isDelimiter(At(k))
  BY RunFacts
<1>3. r.start <= p /\ p \in r.start..(r.end - 1)
  BY <1>1, <1>2
<1>4. At(p) = "control" /\ EscapeBefore(p)
  BY <1>2, <1>3
<1>5. p > 0 /\ isDelimiter(At(p - 1))
  BY <1>4, EscapeBeforeFacts
<1>6. r.start = p
  <2>1. ~(p - 1 \in r.start..(r.end - 1))
    BY <1>2, <1>5
  <2>2. QED
    BY <2>1, <1>2, <1>3
<1>7. QED
  BY <1>1, <1>2, <1>4, <1>6

\* The token that findTokenEnd has found is the next one of the input.
LEMMA TokenFound ==
    ASSUME Types, FindOK, end < Len(s) => isDelimiter(At(end))
    PROVE  /\ start < end
           /\ [start |-> start, end |-> end] \in ExpectedTokens
           /\ \A t \in ExpectedTokens :
                 start < t.end /\ t.end <= end => t = [start |-> start, end |-> end]
<1> DEFINE tok == [start |-> start, end |-> end]
<1>1. Len(s) \in Nat /\ start \in Nat /\ end \in Nat /\ start \in 0..Len(s) /\ end \in 0..Len(s)
  BY LengthFacts DEF Types
<1>2. start < end
  <2>1. start # end
    BY DEF FindOK
  <2>2. QED
    BY <2>1, <1>1 DEF FindOK
<1>3. \E r \in Runs : r.end = end /\ Trimmed(r) = tok
  <2>1. CASE Boundary(start) /\ ~(At(start) = "control" /\ EscapeBefore(start))
    <3>1. tok \in Runs
      BY <1>1, <1>2, <2>1 DEF Runs, FindOK, Boundary
    <3>2. ~(At(tok.start) = "control" /\ Escaped(tok))
      BY <2>1 DEF Escaped, EscapeBefore
    <3>3. Trimmed(tok) = tok
      BY <3>2 DEF Trimmed
    <3>4. QED
      BY <3>1, <3>3
  <2>2. CASE Dropped(start)
    <3> DEFINE r == [start |-> start - 1, end |-> end]
    <3>1. start > 0 /\ At(start - 1) = "control" /\ EscapeBefore(start - 1)
      BY <2>2 DEF Dropped
    <3>2. start - 1 \in 0..Len(s) /\ start - 1 < end
      BY <1>1, <1>2, <3>1
    <3>3. Boundary(start - 1)
      BY <1>1, <3>1, <3>2, EscapeBeforeFacts DEF Boundary
    <3>4. ASSUME NEW p \in (start - 1)..(end - 1) PROVE ~isDelimiter(At(p))
      <4>1. p = start - 1 \/ p \in start..(end - 1)
        BY <1>1, <3>1
      <4>2. ~isDelimiter(At(start - 1))
        BY <3>1 DEF isDelimiter
      <4>3. QED
        BY <4>1, <4>2 DEF FindOK
    <3>5. r \in Runs
      BY <1>1, <3>2, <3>3, <3>4 DEF Runs, Boundary
    <3>6. At(r.start) = "control" /\ Escaped(r)
      BY <3>1 DEF Escaped, EscapeBefore
    <3>7. Trimmed(r) = [start |-> (start - 1) + 1, end |-> end]
      BY <3>6 DEF Trimmed
    <3>8. QED
      BY <1>1, <3>5, <3>7
  <2>3. QED
    BY <2>1, <2>2 DEF FindOK, TokenStart
<1>4. PICK r \in Runs : r.end = end /\ Trimmed(r) = tok
  BY <1>3
<1>5. tok \in ExpectedTokens
  BY <1>2, <1>4 DEF ExpectedTokens
<1>6. ASSUME NEW t \in ExpectedTokens, start < t.end, t.end <= end PROVE t = tok
  <2>1. t.end \in 0..Len(s) /\ (t.end < Len(s) => isDelimiter(At(t.end)))
    BY <1>1, TokenEnds
  <2>2. t.end = end
    <3>1. ~(t.end \in start..(end - 1))
      <4> SUFFICES ASSUME t.end \in start..(end - 1) PROVE FALSE
        OBVIOUS
      <4>1. t.end < Len(s) /\ ~isDelimiter(At(t.end))
        BY <1>1, <2>1 DEF FindOK
      <4>2. QED
        BY <2>1, <4>1
    <3>2. QED
      BY <3>1, <2>1, <1>1, <1>6
  <2>3. PICK q \in Runs : t = Trimmed(q) /\ t.end = q.end
    BY <1>1, TokenFacts
  <2>4. q = r
    BY <1>1, <1>4, <2>2, <2>3, RunsUnique
  <2>5. QED
    BY <1>4, <2>3, <2>4
<1>7. QED
  BY <1>2, <1>5, <1>6

-----------------------------------------------------------------------------
(* One lemma for each action.                                              *)

\* The tokens of the input are those of the input.
LEMMA ExpectedKept ==
    ASSUME s' = s
    PROVE  ExpectedTokens' = ExpectedTokens
BY DEF ExpectedTokens, Runs, Trimmed, Escaped, At

\* Nothing is yielded: only start may have moved, and past no token.
LEMMA YieldedKept ==
    ASSUME Types, YieldedOK, s' = s, tokens' = tokens, start' \in Nat, start <= start',
           \A t \in ExpectedTokens : t.end <= start' => t.end <= start
    PROVE  YieldedOK'
<1>1. ExpectedTokens' = ExpectedTokens
  BY ExpectedKept
<1>2. \A t \in ExpectedTokens : t.end <= start' <=> t.end <= start
  <2>1. \A t \in ExpectedTokens : t.end \in Int
    BY TokenEnds, LengthFacts
  <2>2. QED
    BY <2>1, LengthFacts
<1>3. Len(tokens) <= start'
  BY LengthFacts DEF YieldedOK
<1>4. QED
  BY <1>1, <1>2, <1>3 DEF YieldedOK

LEMMA InitInv ==
    ASSUME Init
    PROVE  IndInv
<1>1. s \in Seq(Classes)
  <2>1. PICK n \in 0..MaxLength : s \in [1..n -> Classes]
    BY DEF Init
  <2>2. n \in Nat
    BY MaxLengthAssumption
  <2>3. QED
    BY <2>1, <2>2
<1>2. Len(s) \in Nat /\ tokens \in Seq(Span) /\ Len(tokens) = 0
  BY <1>1 DEF Init
<1>3. Types
  <2>1. start = 0 /\ end = 0 /\ 0 \in 0..Len(s)
    BY <1>2 DEF Init
  <2>2. phase = "loop" /\ isEscaping = FALSE
    BY DEF Init
  <2>3. start \in 0..Len(s) /\ end \in 0..Len(s)
    BY <2>1, Zenon
  <2>4. QED
    BY <1>1, <1>2, <2>2, <2>3 DEF Types
<1>4. YieldedOK
  <2>1. \A t \in ExpectedTokens : ~(t.end <= 0)
    BY <1>2, TokenEnds DEF Span
  <2>2. 1..Len(tokens) = {}
    BY <1>2
  <2>3. QED
    BY <1>2, <2>1, <2>2 DEF YieldedOK, Init
<1>5. LoopOK
  BY DEF Init, LoopOK
<1>6. QED
  BY <1>3, <1>4, <1>5 DEF IndInv, Init

LEMMA LoopInv ==
    ASSUME IndInv, Loop
    PROVE  IndInv'
<1> USE DEF IndInv
<1>1. /\ s' = s /\ start' = start /\ end' = end /\ tokens' = tokens /\ isEscaping' = FALSE
      /\ phase = "loop" /\ phase' = IF start < Len(s) THEN "skip" ELSE "end"
  BY DEF Loop
<1>2. Len(s) \in Nat /\ start \in Nat /\ start \in 0..Len(s)
  BY LengthFacts DEF Types
<1>3. Types'
  BY <1>1 DEF Types
<1>4. YieldedOK'
  BY <1>1, <1>2, YieldedKept
<1>5. ASSUME phase' = "skip" PROVE SkipOK'
  <2>1. ~EscapeBefore(start)
    BY <1>1, <1>2, EscapeBeforeFacts DEF LoopOK
  <2>2. Boundary(start) \/ (start < Len(s) => isDelimiter(At(start)))
    BY <1>1, <1>2 DEF LoopOK, Boundary
  <2>3. QED
    BY <1>1, <2>1, <2>2 DEF SkipOK, EscapeBefore, Boundary, At
<1>6. phase' = "end" => start' = Len(s')
  BY <1>1, <1>2
<1>7. QED
  BY <1>1, <1>3, <1>4, <1>5, <1>6

LEMMA SkipRuneInv ==
    ASSUME IndInv, SkipRune
    PROVE  IndInv'
<1> USE DEF IndInv
<1>1. /\ s' = s /\ start' = start + 1 /\ end' = end /\ tokens' = tokens
      /\ phase = "skip" /\ phase' = phase /\ start < Len(s) /\ SkipOK
      /\ \/ At(start) = "escape" /\ isEscaping' = TRUE
         \/ At(start) = "control" /\ isEscaping /\ isEscaping' = FALSE
         \/ At(start) = "delimiter" /\ isEscaping' = isEscaping
  BY DEF SkipRune, EscapedControl
<1>2. /\ Len(s) \in Nat /\ start \in 0..Len(s) /\ start \in 0..(Len(s) - 1)
      /\ start' \in 0..Len(s) /\ start' \in Nat
  BY <1>1, LengthFacts DEF Types
<1>3. isEscaping = EscapeBefore(start)
  BY <1>1 DEF SkipOK
<1>4. Types'
  BY <1>1, <1>2 DEF Types
<1>5. isDelimiter(At(start)) \/ (At(start) = "control" /\ EscapeBefore(start))
  BY <1>1, <1>3 DEF isDelimiter
<1>6. YieldedOK'
  <2>1. \A t \in ExpectedTokens : t.end # start + 1 /\ t.end \in Int
    BY <1>2, <1>5, NothingSkipped, TokenEnds
  <2>2. \A t \in ExpectedTokens : t.end <= start + 1 => t.end <= start
    BY <1>2, <2>1
  <2>3. start <= start'
    BY <1>1, <1>2
  <2>4. QED
    BY <1>1, <1>2, <2>2, <2>3, YieldedKept
<1>7. isEscaping' = EscapeBefore(start + 1)
  <2>1. CASE At(start) = "escape" /\ isEscaping' = TRUE
    BY <1>2, <2>1, EscapeBeforeFacts
  <2>2. CASE At(start) = "control" /\ isEscaping' = FALSE
    <3>1. ~isDelimiter(At(start))
      BY <2>2 DEF isDelimiter
    <3>2. ~EscapeBefore(start + 1)
      BY <1>2, <3>1, EscapeBeforeFacts
    <3>3. EscapeBefore(start + 1) = FALSE
      BY <3>2 DEF EscapeBefore
    <3>4. QED
      BY <2>2, <3>3, Zenon
  <2>3. CASE At(start) = "delimiter" /\ isEscaping' = isEscaping
    <3>1. EscapeBefore(start + 1) <=> EscapeBefore(start)
      BY <1>2, <2>3, EscapeBeforeFacts
    <3>2. EscapeBefore(start + 1) \in BOOLEAN /\ EscapeBefore(start) \in BOOLEAN
      BY DEF EscapeBefore
    <3>3. QED
      BY <1>3, <2>3, <3>1, <3>2
  <2>4. QED
    BY <1>1, <2>1, <2>2, <2>3
<1>8. Boundary(start + 1) \/ Dropped(start + 1)
  <2>1. (start + 1) - 1 = start /\ start + 1 > 0
    BY <1>2
  <2>2. QED
    BY <1>5, <2>1 DEF Boundary, Dropped
<1>9. SkipOK'
  BY <1>1, <1>7, <1>8 DEF SkipOK, Boundary, Dropped, EscapeBefore, At
<1>10. QED
  BY <1>1, <1>4, <1>6, <1>9

LEMMA SkipDoneInv ==
    ASSUME IndInv, SkipDone
    PROVE  IndInv'
<1> USE DEF IndInv
<1>1. /\ s' = s /\ start' = start /\ end' = start /\ tokens' = tokens /\ isEscaping' = FALSE
      /\ phase = "skip" /\ SkipOK
      /\ IF start >= Len(s) THEN phase' = "end"
         ELSE phase' = "find" /\ ~isDelimiter(At(start)) /\ ~(At(start) = "control" /\ isEscaping)
  BY DEF SkipDone, EscapedControl
<1>2. Len(s) \in Nat /\ start \in Nat /\ start \in 0..Len(s)
  BY LengthFacts DEF Types
<1>3. Types'
  BY <1>1 DEF Types
<1>4. YieldedOK'
  BY <1>1, <1>2, YieldedKept
<1>5. ASSUME phase' = "find" PROVE FindOK'
  <2>1. start < Len(s) /\ ~isDelimiter(At(start)) /\ ~(At(start) = "control" /\ EscapeBefore(start))
    BY <1>1, <1>2, <1>5 DEF SkipOK
  <2>2. TokenStart(start)
    BY <1>1, <2>1 DEF SkipOK, TokenStart
  <2>3. TokenStart(start)'
    BY <1>1, <2>2 DEF TokenStart, Boundary, Dropped, EscapeBefore, At
  <2>4. start..(start - 1) = {}
    BY <1>2
  <2>5. QED
    BY <1>1, <1>2, <2>1, <2>3, <2>4 DEF FindOK, At
<1>6. phase' = "end" => start' = Len(s')
  BY <1>1, <1>2
<1>7. QED
  BY <1>1, <1>3, <1>4, <1>5, <1>6

LEMMA FindRuneInv ==
    ASSUME IndInv, FindRune
    PROVE  IndInv'
<1> USE DEF IndInv
<1>1. /\ s' = s /\ start' = start /\ end' = end + 1 /\ tokens' = tokens
      /\ isEscaping' = (At(end) = "escape")
      /\ phase = "find" /\ phase' = phase /\ end < Len(s) /\ ~isDelimiter(At(end)) /\ FindOK
  BY DEF FindRune
<1>2. Len(s) \in Nat /\ start \in Nat /\ end \in Nat /\ end + 1 \in 0..Len(s)
  BY <1>1, LengthFacts DEF Types
<1>3. isEscaping' = FALSE
  BY <1>1 DEF isDelimiter
<1>4. Types'
  BY <1>1, <1>2, <1>3 DEF Types
<1>5. YieldedOK'
  BY <1>1, <1>2, YieldedKept
<1>6. FindOK'
  <2>1. TokenStart(start)'
    BY <1>1 DEF FindOK, TokenStart, Boundary, Dropped, EscapeBefore, At
  <2>2. ASSUME NEW p \in start..((end + 1) - 1) PROVE ~isDelimiter(At(p))
    <3>1. p = end \/ p \in start..(end - 1)
      BY <1>2
    <3>2. QED
      BY <1>1, <3>1 DEF FindOK
  <2>3. start <= end + 1
    BY <1>1, <1>2 DEF FindOK
  <2>4. QED
    BY <1>1, <1>3, <2>1, <2>2, <2>3 DEF FindOK, At
<1>7. QED
  BY <1>1, <1>4, <1>5, <1>6

LEMMA YieldInv ==
    ASSUME IndInv, Yield
    PROVE  IndInv'
<1> DEFINE tok == [start |-> start, end |-> end]
<1> USE DEF IndInv
<1>1. /\ s' = s /\ end' = end /\ isEscaping' = isEscaping /\ phase = "find" /\ phase' = "loop"
      /\ FindOK /\ ~isEscaping /\ (end < Len(s) => isDelimiter(At(end)))
      /\ tokens' = Append(tokens, tok) /\ start' = end
  BY DEF Yield, FindOK, Resume
<1>2. /\ Len(s) \in Nat /\ start \in Nat /\ end \in Nat /\ end \in 0..Len(s)
      /\ tokens \in Seq(Span) /\ Len(tokens) \in Nat
  BY LengthFacts DEF Types
<1>3. /\ start < end /\ tok \in ExpectedTokens
      /\ \A t \in ExpectedTokens : start < t.end /\ t.end <= end => t = tok
  BY <1>1, TokenFound
<1>4. tok \in Span /\ tok.start = start /\ tok.end = end
  BY <1>2 DEF Span
<1> HIDE DEF tok
<1>5. /\ tokens' \in Seq(Span) /\ Len(tokens') = Len(tokens) + 1
      /\ \A i \in 1..Len(tokens) : tokens'[i] = tokens[i]
      /\ tokens'[Len(tokens) + 1] = tok
  BY <1>1, <1>2, <1>4, AppendProperties
<1>6. Types'
  BY <1>1, <1>2, <1>5 DEF Types
<1>7. LoopOK'
  <2>1. ~isDelimiter(At(end - 1))
    <3>1. end - 1 \in start..(end - 1)
      BY <1>2, <1>3
    <3>2. QED
      BY <1>1, <3>1 DEF FindOK
  <2>2. QED
    BY <1>1, <2>1 DEF LoopOK, At
<1>8. YieldedOK'
  <2>1. ExpectedTokens' = ExpectedTokens
    BY <1>1, ExpectedKept
  <2>2. \A t \in ExpectedTokens : t.end \in Int /\ (t.end < Len(s) => isDelimiter(At(t.end)))
    BY <1>2, TokenEnds
  <2>3. ASSUME NEW t \in ExpectedTokens
        PROVE  t.end <= end <=> \E i \in 1..(Len(tokens) + 1) : tokens'[i] = t
    <3>1. t.end <= start <=> \E i \in 1..Len(tokens) : tokens[i] = t
      BY DEF YieldedOK
    <3>2. t.end <= end <=> t.end <= start \/ t = tok
      BY <1>2, <1>3, <1>4, <2>2
    <3>3. (\E i \in 1..(Len(tokens) + 1) : tokens'[i] = t)
            <=> (\E i \in 1..Len(tokens) : tokens[i] = t) \/ t = tok
      <4>1. \A i \in 1..(Len(tokens) + 1) : i \in 1..Len(tokens) \/ i = Len(tokens) + 1
        BY <1>2
      <4>2. Len(tokens) + 1 \in 1..(Len(tokens) + 1) /\ 1..Len(tokens) \subseteq 1..(Len(tokens) + 1)
        BY <1>2
      <4>3. QED
        BY <4>1, <4>2, <1>5
    <3>4. QED
      BY <3>1, <3>2, <3>3
  <2>4. ASSUME NEW i \in 1..(Len(tokens) + 1) PROVE tokens'[i] \in ExpectedTokens
    <3>1. i \in 1..Len(tokens) \/ i = Len(tokens) + 1
      BY <1>2
    <3>2. QED
      BY <3>1, <1>3, <1>5 DEF YieldedOK
  <2>5. ASSUME NEW i \in 1..(Len(tokens) + 1), NEW j \in 1..(Len(tokens) + 1), i < j
        PROVE  tokens'[i].end < tokens'[j].start
    <3>1. i \in 1..Len(tokens) /\ tokens'[i] = tokens[i]
      BY <1>2, <1>5, <2>5
    <3>2. CASE j \in 1..Len(tokens)
      BY <3>1, <3>2, <1>5, <2>5 DEF YieldedOK
    <3>3. CASE j = Len(tokens) + 1
      <4>1. tokens[i] \in ExpectedTokens
        BY <3>1 DEF YieldedOK
      <4>2. tokens[i].end <= start
        BY <3>1, <4>1 DEF YieldedOK
      <4>3. tokens[i].end # start
        BY <1>1, <2>2, <4>1 DEF FindOK
      <4>4. tokens[i].end < start
        BY <1>2, <2>2, <4>1, <4>2, <4>3
      <4>5. QED
        BY <3>1, <3>3, <4>4, <1>4, <1>5
    <3>4. QED
      BY <3>2, <3>3, <1>2
  <2>6. Len(tokens) + 1 <= end
    BY <1>2, <1>3 DEF YieldedOK
  <2>7. QED
    BY <1>1, <1>5, <2>1, <2>3, <2>4, <2>5, <2>6 DEF YieldedOK
<1>9. QED
  BY <1>1, <1>6, <1>7, <1>8

LEMMA UnchangedInv ==
    ASSUME IndInv, UNCHANGED vars
    PROVE  IndInv'
<1>1. UNCHANGED <<s, phase, start, end, isEscaping, tokens>>
  BY DEF vars
<1>2. YieldedOK' /\ Types'
  BY <1>1, ExpectedKept DEF IndInv, YieldedOK, Types
<1>3. QED
  BY <1>1, <1>2 DEF IndInv, LoopOK, SkipOK, FindOK, TokenStart, Boundary, Dropped, EscapeBefore, At

-----------------------------------------------------------------------------
(* The theorems.                                                           *)

\* The strengthened invariant holds on inputs of every length.
THEOREM Invariance == Spec => []IndInv
<1>1. Init => IndInv
  BY InitInv
<1>2. IndInv /\ [Next]_vars => IndInv'
  BY LoopInv, SkipRuneInv, SkipDoneInv, FindRuneInv, YieldInv, UnchangedInv DEF Next, Ended
<1>3. QED
  BY <1>1, <1>2, PTL DEF Spec

\* TypeOK: the iterator's positions never leave the input, and it yields no
\* more tokens than the input has runes.
THEOREM TypeCorrect == Spec => []TypeOK
<1>1. ASSUME IndInv PROVE TypeOK
  <2>1. Len(tokens) <= start /\ start \in 0..Len(s) /\ Len(s) \in Nat /\ Len(tokens) \in Nat
    BY <1>1, LengthFacts DEF IndInv, YieldedOK, Types
  <2>2. QED
    BY <1>1, <2>1 DEF IndInv, Types, TypeOK
<1>2. IndInv => TypeOK
  BY <1>1
<1>3. QED
  BY <1>2, Invariance, PTL

\* YieldsEveryRun, on every input: TokenIterator yields the runs between
\* delimiters, each without an escaped control letter in front, all of them, once
\* and in order; no run of the input goes unanalysed.
THEOREM EveryRunIsYielded == Spec => []YieldsEveryRun
<1>1. ASSUME IndInv, phase = "end"
      PROVE  /\ {tokens[i] : i \in DOMAIN tokens} = ExpectedTokens
             /\ \A i, j \in DOMAIN tokens : i < j => tokens[i].end < tokens[j].start
  <2>1. Len(s) \in Nat /\ start = Len(s) /\ DOMAIN tokens = 1..Len(tokens)
    BY <1>1, LengthFacts DEF IndInv, Types
  <2>2. \A t \in ExpectedTokens : t.end <= start
    BY <2>1, TokenEnds
  <2>3. QED
    BY <1>1, <2>1, <2>2 DEF IndInv, YieldedOK
<1>2. IndInv => YieldsEveryRun
  BY <1>1 DEF YieldsEveryRun
<1>3. QED
  BY <1>2, Invariance, PTL

=============================================================================
