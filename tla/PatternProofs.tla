--------------------------- MODULE PatternProofs ----------------------------
(***************************************************************************)
(* Proofs about pattern/: the arithmetic of the check digits, what the     *)
(* combinators answer on lists of patterns of every length, with every     *)
(* threshold, and what the matchers answer on every text.  The loops over  *)
(* a text, the regular expressions and the sums are recursive functions:   *)
(* each is first shown to be what its definition says it is, by the lemmas *)
(* of Induction, and from then on known by its steps.                      *)
(***************************************************************************)
EXTENDS MCPatterns, FiniteSetTheorems, SequenceTheorems, Induction, TLAPS

-----------------------------------------------------------------------------
(* Check digits.                                                           *)

\* validateCPFCheckDigits and checksum derive a check digit from a weighted
\* sum with different arithmetic; they agree on every sum, and what they
\* return is a digit.
THEOREM CheckDigitsAgree ==
    ASSUME NEW sum \in Nat
    PROVE  cpfDigit(sum) = cnpjDigit(sum) /\ cpfDigit(sum) \in 0..9
<1>1. PICK q \in Nat, r \in 0..10 : sum = 11 * q + r
  <2>1. sum = 11 * (sum \div 11) + (sum % 11) /\ sum \div 11 \in Nat /\ sum % 11 \in 0..10
    OBVIOUS
  <2>2. QED
    BY <2>1
<1>2. sum % 11 = r
  BY <1>1
<1>3. (sum * 10) % 11 = IF r = 0 THEN 0 ELSE 11 - r
  <2>1. sum * 10 = 11 * (10 * q + r - 1) + (11 - r)
    BY <1>1
  <2>2. CASE r = 0
    BY <1>1, <2>2
  <2>3. CASE r # 0
    BY <2>1, <2>3
  <2>4. QED
    BY <2>2, <2>3
<1>4. QED
  BY <1>2, <1>3 DEF cpfDigit, cnpjDigit

-----------------------------------------------------------------------------
(* The combinators' inductive invariant.                                   *)

\* Of the first k patterns, those that match and those that do not.
Matches(k) == {j \in 1..k : patterns[j]}
Misses(k) == {j \in 1..k : ~patterns[j]}

Types ==
    /\ kind \in {"All", "Any", "AtLeastN"}
    /\ patterns \in Seq(BOOLEAN)
    /\ n \in Nat /\ n <= Len(patterns) /\ (Len(patterns) > 0 => n > 0)
    /\ i \in 0..Len(patterns)
    /\ passes \in Nat /\ fails \in Nat
    /\ verdict \in {"pending", "match", "no match"}

\* While the loop runs, what it has seen decides nothing.
LoopOK ==
    verdict = "pending" =>
        /\ kind = "All" => Misses(i) = {}
        /\ kind = "Any" => Matches(i) = {}
        /\ kind = "AtLeastN" =>
              /\ passes = Cardinality(Matches(i)) /\ fails = Cardinality(Misses(i))
              /\ passes < n \/ Len(patterns) = 0

\* What a verdict says, with no exception: no combinator of no patterns matches.
VerdictExact ==
    verdict # "pending" =>
        (verdict = "match" <=>
            /\ patterns # <<>>
            /\ Matching >= CASE kind = "All"      -> Len(patterns)
                             [] kind = "Any"      -> 1
                             [] kind = "AtLeastN" -> n)

IndInv == Types /\ LoopOK /\ VerdictExact

\* The size of an interval.
LEMMA IntervalCount ==
    ASSUME NEW m \in Nat
    PROVE  IsFiniteSet(1..m) /\ Cardinality(1..m) = m
BY FS_Interval

\* The patterns are numbered from one.
LEMMA LengthFacts ==
    ASSUME patterns \in Seq(BOOLEAN)
    PROVE  Len(patterns) \in Nat /\ DOMAIN patterns = 1..Len(patterns)
BY LenProperties, Zenon

\* The two counts on the way, and at the end of the list.
LEMMA CountFacts ==
    ASSUME Types
    PROVE  /\ \A k \in 0..Len(patterns) :
                 /\ IsFiniteSet(Matches(k)) /\ Cardinality(Matches(k)) \in Nat
                 /\ IsFiniteSet(Misses(k)) /\ Cardinality(Misses(k)) \in Nat
                 /\ Cardinality(Matches(k)) <= Matching
                 /\ Matching <= Len(patterns) - Cardinality(Misses(k))
           /\ Matching \in Nat /\ Matching = Cardinality(Matches(Len(patterns)))
           /\ Matches(0) = {} /\ Misses(0) = {}
<1> DEFINE N == Len(patterns)
<1>1. N \in Nat /\ DOMAIN patterns = 1..N
  BY LengthFacts, Zenon DEF Types
<1> HIDE DEF N
<1>2. IsFiniteSet(1..N) /\ Cardinality(1..N) = N
  BY <1>1, IntervalCount
<1>3. ASSUME NEW k \in 0..N
      PROVE  /\ IsFiniteSet(Matches(k)) /\ Cardinality(Matches(k)) \in Nat
             /\ IsFiniteSet(Misses(k)) /\ Cardinality(Misses(k)) \in Nat
             /\ Cardinality(Matches(k)) <= Cardinality(Matches(N))
             /\ Cardinality(Misses(k)) <= Cardinality(Misses(N))
  <2>1. /\ Matches(k) \in SUBSET Matches(N) /\ Matches(N) \in SUBSET (1..N)
        /\ Misses(k) \in SUBSET Misses(N) /\ Misses(N) \in SUBSET (1..N)
    BY <1>1 DEF Matches, Misses
  <2>2. IsFiniteSet(Matches(N)) /\ IsFiniteSet(Misses(N))
    BY <1>2, <2>1, FS_Subset
  <2>3. /\ IsFiniteSet(Matches(k)) /\ Cardinality(Matches(k)) <= Cardinality(Matches(N))
        /\ IsFiniteSet(Misses(k)) /\ Cardinality(Misses(k)) <= Cardinality(Misses(N))
    BY <2>1, <2>2, FS_Subset
  <2>4. QED
    BY <2>3, FS_CardinalityType
<1>4. Matching = Cardinality(Matches(N))
  BY <1>1 DEF Matching, Matches
<1>5. Matching = N - Cardinality(Misses(N))
  <2>1. Matches(N) = (1..N) \ Misses(N) /\ (1..N) \cap Misses(N) = Misses(N)
    BY DEF Matches, Misses
  <2>2. IsFiniteSet(Misses(N))
    BY <1>1, <1>3
  <2>3. Cardinality((1..N) \ Misses(N)) = Cardinality(1..N) - Cardinality((1..N) \cap Misses(N))
    BY <1>2, <2>2, FS_Difference
  <2>4. QED
    BY <1>2, <1>4, <2>1, <2>3
<1>6. N \in 0..N /\ Matches(0) = {} /\ Misses(0) = {}
  BY <1>1 DEF Matches, Misses
<1>7. Matching \in Nat /\ Cardinality(Misses(N)) \in Nat
  BY <1>3, <1>4, <1>6
<1>8. ASSUME NEW k \in 0..N
      PROVE  Cardinality(Matches(k)) <= Matching /\ Matching <= N - Cardinality(Misses(k))
  <2>1. /\ Cardinality(Misses(k)) \in Nat /\ Cardinality(Misses(k)) <= Cardinality(Misses(N))
        /\ Cardinality(Matches(k)) <= Cardinality(Matches(N))
    BY <1>3
  <2>2. QED
    BY <1>1, <1>4, <1>5, <1>7, <2>1
<1>9. QED
  BY <1>3, <1>4, <1>6, <1>7, <1>8 DEF N

\* One more pattern is evaluated.
LEMMA CountStep ==
    ASSUME Types, NEW k \in 0..(Len(patterns) - 1)
    PROVE  IF patterns[k + 1]
           THEN /\ Matches(k + 1) = Matches(k) \cup {k + 1} /\ Misses(k + 1) = Misses(k)
                /\ Cardinality(Matches(k + 1)) = Cardinality(Matches(k)) + 1
           ELSE /\ Matches(k + 1) = Matches(k) /\ Misses(k + 1) = Misses(k) \cup {k + 1}
                /\ Cardinality(Misses(k + 1)) = Cardinality(Misses(k)) + 1
<1>0. Len(patterns) \in Nat
  BY LengthFacts, Zenon DEF Types
<1>1. k \in Nat /\ k \in 0..Len(patterns) /\ 1..(k + 1) = (1..k) \cup {k + 1} /\ k + 1 \notin 1..k
  BY <1>0
<1>2. IsFiniteSet(Matches(k)) /\ IsFiniteSet(Misses(k))
  BY <1>1, CountFacts
<1>3. k + 1 \notin Matches(k) /\ k + 1 \notin Misses(k)
  BY <1>1 DEF Matches, Misses
<1>4. CASE patterns[k + 1]
  <2>1. Matches(k + 1) = Matches(k) \cup {k + 1} /\ Misses(k + 1) = Misses(k)
    BY <1>1, <1>4 DEF Matches, Misses
  <2>2. QED
    BY <1>2, <1>3, <1>4, <2>1, FS_AddElement
<1>5. CASE ~patterns[k + 1]
  <2>1. Matches(k + 1) = Matches(k) /\ Misses(k + 1) = Misses(k) \cup {k + 1}
    BY <1>1, <1>5 DEF Matches, Misses
  <2>2. QED
    BY <1>2, <1>3, <1>5, <2>1, FS_AddElement
<1>6. QED
  BY <1>4, <1>5

-----------------------------------------------------------------------------
(* One lemma for each action.                                              *)

LEMMA InitInv ==
    ASSUME Init
    PROVE  IndInv
<1>1. patterns \in Seq(BOOLEAN)
  <2>1. PICK k \in 0..MaxPatterns : patterns \in [1..k -> BOOLEAN]
    BY DEF Init
  <2>2. k \in Nat
    BY PatternsAssumption
  <2>3. QED
    BY <2>1, <2>2, IsASeq
<1>2. Len(patterns) \in Nat
  BY <1>1, LengthFacts
<1>3. n \in Nat /\ n <= Len(patterns) /\ (Len(patterns) > 0 => n > 0)
  <2>1. PICK m \in -1..MaxThreshold : n = clamp(m, Len(patterns))
    BY DEF Init
  <2>2. m \in Int
    BY PatternsAssumption
  <2>3. QED
    BY <1>2, <2>1, <2>2 DEF clamp
<1>4. Types
  <2>1. i \in 0..Len(patterns)
    BY <1>2 DEF Init
  <2>2. passes \in Nat /\ fails \in Nat /\ kind \in {"All", "Any", "AtLeastN"}
          /\ verdict \in {"pending", "match", "no match"}
    BY DEF Init
  <2>3. QED
    BY <1>1, <1>3, <2>1, <2>2, Zenon DEF Types
<1>5. i = 0 /\ passes = 0 /\ fails = 0 /\ verdict = "pending"
  BY DEF Init
<1>6. Matches(i) = {} /\ Misses(i) = {}
  BY <1>4, <1>5, CountFacts, Zenon
<1>7. Cardinality(Matches(i)) = 0 /\ Cardinality(Misses(i)) = 0
  BY <1>6, FS_EmptySet, Zenon
<1>8. passes < n \/ Len(patterns) = 0
  BY <1>2, <1>3, <1>5
<1>9. LoopOK
  BY <1>5, <1>6, <1>7, <1>8 DEF LoopOK
<1>10. QED
  BY <1>4, <1>5, <1>9 DEF IndInv, VerdictExact

\* What a verdict is compared with.
LEMMA VerdictMeans ==
    ASSUME NEW b \in BOOLEAN, Types, Answer(b), UNCHANGED <<kind, patterns, n>>,
           b <=> /\ Len(patterns) > 0
                 /\ kind = "All" => Matching >= Len(patterns)
                 /\ kind = "Any" => Matching >= 1
                 /\ kind = "AtLeastN" => Matching >= n
    PROVE  /\ VerdictExact' /\ LoopOK'
           /\ verdict' \in {"match", "no match"}
<1>1. verdict' = (IF b THEN "match" ELSE "no match")
  BY DEF Answer
<1>2. verdict' \in {"match", "no match"} /\ (verdict' = "match" <=> b)
  BY <1>1
<1>3. Len(patterns) \in Nat /\ patterns \in Seq(BOOLEAN)
  BY LengthFacts, Zenon DEF Types
<1>4. patterns # <<>> <=> Len(patterns) > 0
  BY <1>3, EmptySeq
<1>5. Matching' = Matching
  BY DEF Matching
<1>6. kind \in {"All", "Any", "AtLeastN"}
  BY DEF Types
<1>7. b <=> /\ patterns # <<>>
            /\ Matching >= CASE kind = "All"      -> Len(patterns)
                             [] kind = "Any"      -> 1
                             [] kind = "AtLeastN" -> n
  BY <1>4, <1>6
<1>8. VerdictExact'
  BY <1>2, <1>5, <1>7 DEF VerdictExact
<1>9. LoopOK'
  BY <1>2 DEF LoopOK
<1>10. QED
  BY <1>2, <1>8, <1>9

\* The variables a step of a loop may change keep their types.
LEMMA TypesKept ==
    ASSUME Types, UNCHANGED <<kind, patterns, n>>, i' \in 0..Len(patterns),
           passes' \in Nat, fails' \in Nat, verdict' \in {"pending", "match", "no match"}
    PROVE  Types'
BY Zenon DEF Types

LEMMA AllStepInv ==
    ASSUME IndInv, AllStep
    PROVE  IndInv'
<1> USE DEF IndInv
<1>1. /\ kind = "All" /\ verdict = "pending" /\ i < Len(patterns) /\ i' = i + 1
      /\ UNCHANGED <<kind, patterns, n, passes, fails>>
      /\ IF patterns[i + 1] THEN verdict' = verdict ELSE Answer(FALSE)
  BY DEF AllStep
<1>2. Len(patterns) \in Nat /\ i \in Nat /\ i \in 0..(Len(patterns) - 1) /\ i + 1 \in 0..Len(patterns)
  <2>1. Len(patterns) \in Nat /\ i \in 0..Len(patterns)
    BY LengthFacts, Zenon DEF Types
  <2>2. QED
    BY <1>1, <2>1
<1>3. passes' \in Nat /\ fails' \in Nat /\ Misses(i) = {}
  BY <1>1 DEF Types, LoopOK
<1>4. CASE patterns[i + 1]
  <2>1. Misses(i + 1) = {}
    BY <1>2, <1>3, <1>4, CountStep
  <2>2. LoopOK'
    BY <1>1, <1>4, <2>1 DEF LoopOK, Misses
  <2>3. VerdictExact'
    BY <1>1, <1>4 DEF VerdictExact
  <2>4. Types'
    BY <1>1, <1>2, <1>3, <1>4, TypesKept
  <2>5. QED
    BY <2>2, <2>3, <2>4
<1>5. CASE ~patterns[i + 1]
  <2>1. Cardinality(Misses(i + 1)) = Cardinality(Misses(i)) + 1 /\ Cardinality(Misses(i)) \in Nat
    BY <1>2, <1>5, CountStep, CountFacts
  <2>2. Matching <= Len(patterns) - Cardinality(Misses(i + 1)) /\ Matching \in Nat
    BY <1>2, CountFacts
  <2>3. ~(Matching >= Len(patterns))
    BY <1>2, <2>1, <2>2
  <2>4. VerdictExact' /\ LoopOK' /\ verdict' \in {"match", "no match"}
    BY <1>1, <1>5, <2>3, VerdictMeans
  <2>5. QED
    BY <1>1, <1>2, <1>3, <2>4, TypesKept
<1>6. QED
  BY <1>4, <1>5

LEMMA AnyStepInv ==
    ASSUME IndInv, AnyStep
    PROVE  IndInv'
<1> USE DEF IndInv
<1>1. /\ kind = "Any" /\ verdict = "pending" /\ i < Len(patterns) /\ i' = i + 1
      /\ UNCHANGED <<kind, patterns, n, passes, fails>>
      /\ IF patterns[i + 1] THEN Answer(TRUE) ELSE verdict' = verdict
  BY DEF AnyStep
<1>2. Len(patterns) \in Nat /\ i \in Nat /\ i \in 0..(Len(patterns) - 1) /\ i + 1 \in 0..Len(patterns)
  <2>1. Len(patterns) \in Nat /\ i \in 0..Len(patterns)
    BY LengthFacts, Zenon DEF Types
  <2>2. QED
    BY <1>1, <2>1
<1>3. passes' \in Nat /\ fails' \in Nat /\ Matches(i) = {}
  BY <1>1 DEF Types, LoopOK
<1>4. CASE ~patterns[i + 1]
  <2>1. Matches(i + 1) = {}
    BY <1>2, <1>3, <1>4, CountStep
  <2>2. LoopOK'
    BY <1>1, <1>4, <2>1 DEF LoopOK, Matches
  <2>3. VerdictExact'
    BY <1>1, <1>4 DEF VerdictExact
  <2>4. Types'
    BY <1>1, <1>2, <1>3, <1>4, TypesKept
  <2>5. QED
    BY <2>2, <2>3, <2>4
<1>5. CASE patterns[i + 1]
  <2>1. Cardinality(Matches(i + 1)) = Cardinality(Matches(i)) + 1 /\ Cardinality(Matches(i)) \in Nat
    BY <1>2, <1>5, CountStep, CountFacts, SMTT(20)
  <2>2. Cardinality(Matches(i + 1)) <= Matching /\ Matching \in Nat
    BY <1>2, CountFacts
  <2>3. Matching >= 1 /\ Len(patterns) > 0
    BY <1>1, <1>2, <2>1, <2>2
  <2>4. VerdictExact' /\ LoopOK' /\ verdict' \in {"match", "no match"}
    BY <1>1, <1>5, <2>3, VerdictMeans
  <2>5. QED
    BY <1>1, <1>2, <1>3, <2>4, TypesKept
<1>6. QED
  BY <1>4, <1>5

LEMMA AtLeastNStepInv ==
    ASSUME IndInv, AtLeastNStep
    PROVE  IndInv'
<1> USE DEF IndInv
<1>1. /\ kind = "AtLeastN" /\ verdict = "pending" /\ i < Len(patterns) /\ i' = i + 1
      /\ UNCHANGED <<kind, patterns, n>>
      /\ passes' = IF patterns[i + 1] THEN passes + 1 ELSE passes
      /\ fails' = IF patterns[i + 1] THEN fails ELSE fails + 1
      /\ IF Len(patterns) - fails' < n THEN Answer(FALSE)
         ELSE IF passes' >= n THEN Answer(TRUE) ELSE verdict' = verdict
  BY DEF AtLeastNStep, Hopeless
<1>2. Len(patterns) \in Nat /\ i \in Nat /\ i \in 0..(Len(patterns) - 1) /\ i + 1 \in 0..Len(patterns)
  <2>1. Len(patterns) \in Nat /\ i \in 0..Len(patterns)
    BY LengthFacts, Zenon DEF Types
  <2>2. QED
    BY <1>1, <2>1
<1>3. n \in Nat /\ passes \in Nat /\ fails \in Nat
  BY DEF Types
<1>4. passes = Cardinality(Matches(i)) /\ fails = Cardinality(Misses(i))
  BY <1>1 DEF LoopOK
<1>5. passes' = Cardinality(Matches(i + 1)) /\ fails' = Cardinality(Misses(i + 1))
  BY <1>1, <1>2, <1>4, CountStep
<1>6. /\ passes' \in Nat /\ fails' \in Nat /\ Matching \in Nat
      /\ passes' <= Matching /\ Matching <= Len(patterns) - fails'
  BY <1>2, <1>5, CountFacts
<1>7. CASE Len(patterns) - fails' < n
  <2>1. ~(Matching >= n)
    BY <1>2, <1>3, <1>6, <1>7
  <2>2. VerdictExact' /\ LoopOK' /\ verdict' \in {"match", "no match"}
    BY <1>1, <1>7, <2>1, VerdictMeans
  <2>3. QED
    BY <1>1, <1>2, <1>6, <2>2, TypesKept
<1>8. CASE ~(Len(patterns) - fails' < n) /\ passes' >= n
  <2>1. Matching >= n /\ Len(patterns) > 0
    BY <1>1, <1>2, <1>3, <1>6, <1>8
  <2>2. VerdictExact' /\ LoopOK' /\ verdict' \in {"match", "no match"}
    BY <1>1, <1>8, <2>1, VerdictMeans
  <2>3. QED
    BY <1>1, <1>2, <1>6, <2>2, TypesKept
<1>9. CASE ~(Len(patterns) - fails' < n) /\ ~(passes' >= n)
  <2>1. verdict' = verdict /\ passes' < n
    <3>1. verdict' = verdict
      BY <1>1, <1>9, Zenon
    <3>2. passes' < n
      BY <1>3, <1>6, <1>9
    <3>3. QED
      BY <3>1, <3>2
  <2>2. Matches(i)' = Matches(i + 1) /\ Misses(i)' = Misses(i + 1)
    BY <1>1 DEF Matches, Misses
  <2>3. LoopOK'
    BY <1>1, <1>5, <2>1, <2>2 DEF LoopOK
  <2>4. VerdictExact'
    BY <1>1, <2>1 DEF VerdictExact
  <2>5. Types'
    BY <1>1, <1>2, <1>6, <2>1, TypesKept
  <2>6. QED
    BY <2>3, <2>4, <2>5
<1>10. QED
  BY <1>7, <1>8, <1>9

LEMMA LoopEndsInv ==
    ASSUME IndInv, LoopEnds
    PROVE  IndInv'
<1> USE DEF IndInv
<1> DEFINE b == kind = "All" /\ Len(patterns) > 0
<1>1. /\ verdict = "pending" /\ i = Len(patterns) /\ Answer(b)
      /\ UNCHANGED <<kind, patterns, n, i, passes, fails>>
  BY DEF LoopEnds
<1>2. Len(patterns) \in Nat /\ Len(patterns) \in 0..Len(patterns)
  <2>1. Len(patterns) \in Nat
    BY LengthFacts, Zenon DEF Types
  <2>2. QED
    BY <2>1
<1>3. Matching \in Nat /\ Matching = Cardinality(Matches(i))
  BY <1>1, CountFacts
<1>4. b <=> /\ Len(patterns) > 0
            /\ kind = "All" => Matching >= Len(patterns)
            /\ kind = "Any" => Matching >= 1
            /\ kind = "AtLeastN" => Matching >= n
  <2>1. CASE kind = "All"
    <3>1. Misses(i) = {}
      BY <1>1, <2>1 DEF LoopOK
    <3>2. Matches(i) = 1..i
      BY <3>1 DEF Matches, Misses
    <3>3. Cardinality(1..Len(patterns)) = Len(patterns)
      BY <1>2, IntervalCount
    <3>4. Matching = Len(patterns)
      BY <1>1, <1>3, <3>2, <3>3
    <3>5. QED
      BY <1>2, <2>1, <3>4
  <2>2. CASE kind = "Any"
    <3>1. Matches(i) = {}
      BY <1>1, <2>2 DEF LoopOK
    <3>2. Cardinality(Matches(i)) = 0
      BY <3>1, FS_EmptySet, Zenon
    <3>3. QED
      BY <1>3, <2>2, <3>2
  <2>3. CASE kind = "AtLeastN"
    <3>1. n \in Nat /\ passes = Cardinality(Matches(i)) /\ (passes < n \/ Len(patterns) = 0)
      BY <1>1, <2>3 DEF LoopOK, Types
    <3>2. QED
      BY <1>2, <1>3, <2>3, <3>1
  <2>4. QED
    BY <2>1, <2>2, <2>3 DEF Types
<1>5. b \in BOOLEAN
  OBVIOUS
<1> HIDE DEF b
<1>6. VerdictExact' /\ LoopOK' /\ verdict' \in {"match", "no match"}
  BY <1>1, <1>4, <1>5, VerdictMeans
<1>7. i' \in 0..Len(patterns) /\ passes' \in Nat /\ fails' \in Nat
  BY <1>1, <1>2 DEF Types
<1>8. QED
  BY <1>1, <1>6, <1>7, TypesKept

-----------------------------------------------------------------------------
(* The theorems.                                                           *)

\* The strengthened invariant holds in every evaluation.
THEOREM Invariance == Spec => []IndInv
<1>1. Init => IndInv
  BY InitInv
<1>2. IndInv /\ [Next]_vars => IndInv'
  <2> SUFFICES ASSUME IndInv, [Next]_vars PROVE IndInv'
    OBVIOUS
  <2>1. CASE UNCHANGED vars
    <3>1. UNCHANGED <<kind, patterns, n, i, passes, fails, verdict>>
      BY <2>1 DEF vars
    <3>2. Types'
      BY <3>1, Zenon DEF IndInv, Types
    <3>3. Matches(i)' = Matches(i) /\ Misses(i)' = Misses(i) /\ Matching' = Matching
      BY <3>1 DEF Matches, Misses, Matching
    <3>4. LoopOK' /\ VerdictExact'
      BY <3>1, <3>3 DEF IndInv, LoopOK, VerdictExact
    <3>5. QED
      BY <3>2, <3>4 DEF IndInv
  <2>2. QED
    BY <2>1, AllStepInv, AnyStepInv, AtLeastNStepInv, LoopEndsInv DEF Next, Decided
<1>3. QED
  BY <1>1, <1>2, PTL DEF Spec

\* VerdictIsCount for lists of every length and every threshold: the early
\* returns of All, Any and AtLeastN, its "cannot be reached any more" included,
\* never change the answer that counting all of the patterns would give.
THEOREM EarlyReturnsAreSound == Spec => []VerdictIsCount
<1>1. IndInv => VerdictIsCount
  BY DEF IndInv, VerdictExact, VerdictIsCount
<1>2. QED
  BY <1>1, Invariance, PTL

-----------------------------------------------------------------------------
(* The loops over a text.                                                  *)

\* Appending a rune to a text.
LEMMA Appended ==
    ASSUME NEW q \in Seq(Int), NEW r \in Int
    PROVE  /\ Append(q, r) \in Seq(Int) /\ Append(q, r) # <<>>
           /\ Len(q) \in Nat /\ Len(Append(q, r)) = Len(q) + 1
           /\ \A j \in 1..Len(q) : Append(q, r)[j] = q[j] /\ q[j] \in Int
           /\ Append(q, r)[Len(q) + 1] = r
<1>1. Len(q) \in Nat /\ DOMAIN q = 1..Len(q)
  OBVIOUS
<1>2. QED
  BY <1>1

\* What the loop that keeps runes has copied after each rune.
LEMMA KeptDef ==
    ASSUME NEW s \in Seq(Int), NEW S
    PROVE  /\ Kept(s, S)[0] = <<>>
           /\ \A k \in 0..Len(s) : Kept(s, S)[k] \in Seq(Int)
           /\ \A k \in 1..Len(s) :
                 Kept(s, S)[k] = IF s[k] \in S THEN Append(Kept(s, S)[k - 1], s[k])
                                 ELSE Kept(s, S)[k - 1]
<1> DEFINE m == Len(s)
           V == Seq(Int)
           Step(q, k) == IF s[k] \in S THEN Append(q, s[k]) ELSE q
           F == [x \in (1..m) \X V |-> Step(x[2], x[1])]
           Def(f) == f = [k \in 0..m |-> IF k = 0 THEN <<>> ELSE Step(f[k - 1], k)]
           T == Kept(s, S)
<1>1. m \in Nat /\ <<>> \in V
  OBVIOUS
<1>2. ASSUME NEW q \in V, NEW k \in 1..m PROVE Step(q, k) \in V
  <2>1. s[k] \in Int
    OBVIOUS
  <2>2. QED
    BY <2>1
<1>3. (\E f : Def(f)) => Def(T)
  BY Zenon DEF Kept
<1> HIDE DEF V, m, Step, T
<1>4. F \in [(1..m) \X V -> V]
  BY <1>2
<1>5. PICK f \in [0..m -> V] : Iterates(f, m, <<>>, F)
  <2> HIDE DEF F
  <2>1. QED
    BY <1>1, <1>4, IterationExists
<1>6. ASSUME NEW k \in 1..m PROVE f[k] = Step(f[k - 1], k)
  <2>1. k - 1 \in 0..m
    BY <1>1
  <2>2. f[k] = F[<<k, f[k - 1]>>] /\ <<k, f[k - 1]>> \in (1..m) \X V
    BY <1>5, <2>1 DEF Iterates
  <2>3. QED
    BY <2>2
<1>7. Def(f)
  BY <1>1, <1>5, <1>6 DEF Iterates
<1>8. Def(T)
  <2> HIDE DEF Def
  <2>1. QED
    BY <1>3, <1>7
<1>9. T[0] = <<>> /\ \A k \in 1..m : T[k] = Step(T[k - 1], k)
  BY <1>1, <1>8
<1>10. \A k \in 0..m : T[k] \in V
  <2> DEFINE G == {k \in 0..m : T[k] \in V}
  <2>1. 0 \in G
    BY <1>1, <1>9
  <2>2. ASSUME NEW k \in 0..(m - 1), k \in G PROVE k + 1 \in G
    <3>1. k + 1 \in 1..m /\ (k + 1) - 1 = k
      BY <1>1, <2>2
    <3>2. T[k + 1] = Step(T[k], k + 1)
      BY <1>9, <3>1
    <3>3. T[k + 1] \in V
      BY <1>2, <2>2, <3>1, <3>2
    <3>4. QED
      BY <1>1, <3>1, <3>3
  <2> HIDE DEF G
  <2>3. \A k \in 0..m : k \in G
    BY <1>1, <2>1, <2>2, UpTo
  <2>4. QED
    BY <2>3 DEF G
<1>11. QED
  BY <1>9, <1>10 DEF T, m, V, Step

\* What is kept of the first m runes goes on from what is kept of the first k.
Grown(s, S, k, m) ==
    /\ Len(Kept(s, S)[k]) \in Nat /\ Len(Kept(s, S)[m]) \in Nat
    /\ Len(Kept(s, S)[k]) <= Len(Kept(s, S)[m])
    /\ Len(Kept(s, S)[m]) - Len(Kept(s, S)[k]) <= m - k
    /\ \A j \in 1..Len(Kept(s, S)[k]) : Kept(s, S)[m][j] = Kept(s, S)[k][j]

\* What is kept stays, and a rune that is kept comes after what was kept
\* before it.
LEMMA KeptGrows ==
    ASSUME NEW s \in Seq(Int), NEW S, NEW k \in 0..Len(s), NEW m \in 0..Len(s), k <= m
    PROVE  Grown(s, S, k, m)
<1> DEFINE T == Kept(s, S)
           Good(p) == /\ Len(T[k]) <= Len(T[p]) /\ Len(T[p]) - Len(T[k]) <= p - k
                      /\ \A j \in 1..Len(T[k]) : T[p][j] = T[k][j]
           G == {p \in 0..Len(s) : p >= k => Good(p)}
<1>1. Len(s) \in Nat /\ \A p \in 0..Len(s) : T[p] \in Seq(Int) /\ Len(T[p]) \in Nat
  BY KeptDef
<1>2. \A p \in 1..Len(s) : T[p] = IF s[p] \in S THEN Append(T[p - 1], s[p]) ELSE T[p - 1]
  BY KeptDef
<1> HIDE DEF T
<1>3. Good(k)
  BY <1>1
<1>4. 0 \in G
  BY <1>1, <1>3
<1>5. ASSUME NEW p \in 0..(Len(s) - 1), p \in G PROVE p + 1 \in G
  <2>1. CASE p + 1 = k
    BY <1>3, <2>1
  <2>2. CASE p >= k
    <3>1. Good(p) /\ p + 1 \in 1..Len(s) /\ (p + 1) - 1 = p
      BY <1>1, <1>5, <2>2
    <3>2. T[p + 1] = IF s[p + 1] \in S THEN Append(T[p], s[p + 1]) ELSE T[p]
      BY <1>2, <3>1
    <3>3. s[p + 1] \in Int /\ T[p] \in Seq(Int) /\ Len(T[p]) \in Nat
      BY <1>1, <3>1
    <3>4. \A j \in 1..Len(T[p]) : Append(T[p], s[p + 1])[j] = T[p][j]
      BY <3>3, Appended
    <3>5. Len(Append(T[p], s[p + 1])) = Len(T[p]) + 1
      BY <3>3, Appended
    <3>6. Good(p + 1)
      <4> DEFINE u == T[p + 1]
                 v == T[k]
      <4>1. /\ Len(v) \in Nat /\ Len(v) <= Len(T[p]) /\ Len(T[p]) - Len(v) <= p - k
            /\ \A j \in 1..Len(v) : T[p][j] = v[j]
        BY <1>1, <3>1
      <4>2. /\ Len(u) \in {Len(T[p]), Len(T[p]) + 1}
            /\ \A j \in 1..Len(T[p]) : u[j] = T[p][j]
        <5>1. CASE s[p + 1] \in S
          BY <3>2, <3>4, <3>5, <5>1
        <5>2. CASE s[p + 1] \notin S
          BY <3>2, <5>2
        <5>3. QED
          BY <5>1, <5>2
      <4> HIDE DEF u, v
      <4>3. Len(v) <= Len(u) /\ Len(u) - Len(v) <= (p + 1) - k
        <5> DEFINE x == Len(v)
                   y == Len(T[p])
                   z == Len(u)
        <5>1. x \in Nat /\ y \in Nat /\ x <= y /\ y - x <= p - k /\ z \in {y, y + 1}
          BY <3>3, <4>1, <4>2
        <5> HIDE DEF x, y, z
        <5>2. x <= z /\ z - x <= (p + 1) - k
          BY <5>1
        <5>3. QED
          BY <5>2 DEF x, z
      <4>4. \A j \in 1..Len(v) : u[j] = v[j]
        BY <3>3, <4>1, <4>2
      <4>5. QED
        BY <4>3, <4>4 DEF u, v
    <3> HIDE DEF Good
    <3>7. QED
      BY <3>1, <3>6
  <2>3. CASE p + 1 < k
    BY <1>1, <2>3
  <2>4. QED
    BY <1>1, <2>1, <2>2, <2>3
<1>6. m \in G
  <2> HIDE DEF G
  <2>1. \A p \in 0..Len(s) : p \in G
    BY <1>1, <1>4, <1>5, UpTo
  <2>2. QED
    BY <2>1
<1>7. Good(m)
  BY <1>1, <1>6
<1>8. QED
  BY <1>1, <1>7 DEF T, Grown

\* The text that is kept.
LEMMA KeepFacts ==
    ASSUME NEW s \in Seq(Int), NEW S
    PROVE  Keep(s, S) \in Seq(Int) /\ Len(Keep(s, S)) \in 0..Len(s)
<1>1. Len(s) \in Nat /\ Keep(s, S) \in Seq(Int) /\ Kept(s, S)[0] = <<>>
  BY KeptDef DEF Keep
<1>2. Len(Keep(s, S)) \in Nat /\ Len(Kept(s, S)[0]) = 0
  BY <1>1
<1>3. 0 \in 0..Len(s) /\ Len(s) \in 0..Len(s) /\ 0 <= Len(s)
  BY <1>1
<1>4. Len(Kept(s, S)[Len(s)]) - Len(Kept(s, S)[0]) <= Len(s) - 0
  BY <1>3, KeptGrows DEF Grown
<1>5. QED
  BY <1>1, <1>2, <1>4 DEF Keep

\* The runes after position p up to q are in S.
RunIn(s, p, q, S) == \A j \in (p + 1)..q : s[j] \in S

\* What stands after position p up to q is kept, rune by rune.
Copied(s, S, p, q) ==
    /\ Len(Kept(s, S)[p]) \in Nat
    /\ Len(Kept(s, S)[q]) = Len(Kept(s, S)[p]) + (q - p)
    /\ Len(Kept(s, S)[q]) <= Len(Keep(s, S))
    /\ \A j \in 1..(q - p) : Keep(s, S)[Len(Kept(s, S)[p]) + j] = s[p + j]

\* Runes in a row that are all kept stay in a row.
LEMMA RunKept ==
    ASSUME NEW s \in Seq(Int), NEW S, NEW p \in 0..Len(s), NEW q \in 0..Len(s), p <= q,
           RunIn(s, p, q, S)
    PROVE  Copied(s, S, p, q)
<1> DEFINE T == Kept(s, S)
           L == Len(T[p])
           Good(k) == /\ Len(T[k]) = L + (k - p)
                      /\ \A j \in 1..(k - p) : T[k][L + j] = s[p + j]
           G == {k \in 0..Len(s) : k \in p..q => Good(k)}
<1>1. Len(s) \in Nat /\ \A k \in 0..Len(s) : T[k] \in Seq(Int) /\ Len(T[k]) \in Nat
  BY KeptDef
<1>2. \A k \in 1..Len(s) : s[k] \in S => T[k] = Append(T[k - 1], s[k])
  BY KeptDef
<1> HIDE DEF T
<1>3. Good(p)
  BY <1>1
<1>4. 0 \in G
  BY <1>1, <1>3
<1>5. ASSUME NEW k \in 0..(Len(s) - 1), k \in G PROVE k + 1 \in G
  <2>1. CASE k + 1 = p
    BY <1>3, <2>1
  <2>2. CASE k >= p /\ k + 1 <= q
    <3>1. Good(k) /\ k + 1 \in 1..Len(s) /\ (k + 1) - 1 = k /\ k + 1 \in (p + 1)..q
      BY <1>1, <1>5, <2>2
    <3>2. /\ T[k + 1] = Append(T[k], s[k + 1])
          /\ s[k + 1] \in Int /\ T[k] \in Seq(Int) /\ L \in Nat
      <4>1. s[k + 1] \in S
        BY <3>1 DEF RunIn
      <4>2. T[k + 1] = Append(T[k], s[k + 1])
        BY <1>2, <3>1, <4>1
      <4>3. s[k + 1] \in Int
        BY <3>1
      <4>4. QED
        BY <1>1, <4>2, <4>3
    <3>3. /\ Len(T[k + 1]) = Len(T[k]) + 1
          /\ \A j \in 1..Len(T[k]) : T[k + 1][j] = T[k][j]
          /\ T[k + 1][Len(T[k]) + 1] = s[k + 1]
      BY <3>2, Appended
    <3> HIDE DEF L
    <3>4. Len(T[k + 1]) = L + ((k + 1) - p)
      BY <3>1, <3>2, <3>3
    <3>5. ASSUME NEW j \in 1..((k + 1) - p) PROVE T[k + 1][L + j] = s[p + j]
      <4>1. CASE j \in 1..(k - p)
        <5>1. L + j \in 1..Len(T[k])
          <6> DEFINE l == Len(T[k])
          <6>1. L \in Nat /\ l = L + (k - p)
            BY <3>1, <3>2
          <6> HIDE DEF l
          <6>2. L + j \in 1..l
            BY <4>1, <6>1
          <6>3. QED
            BY <6>2 DEF l
        <5>2. QED
          BY <3>1, <3>3, <4>1, <5>1
      <4>2. CASE j = (k + 1) - p
        <5>1. L + j = Len(T[k]) + 1 /\ p + j = k + 1
          BY <3>1, <3>2, <4>2
        <5>2. QED
          BY <3>3, <5>1
      <4>3. QED
        BY <2>2, <4>1, <4>2, SMTT(20)
    <3>6. Good(k + 1)
      BY <3>4, <3>5
    <3> HIDE DEF Good
    <3>7. QED
      BY <3>1, <3>6
  <2>3. CASE k + 1 < p \/ k + 1 > q
    BY <1>1, <2>3
  <2>4. QED
    BY <1>1, <2>1, <2>2, <2>3
<1>6. Good(q)
  <2>1. q \in G
    <3> HIDE DEF G
    <3>1. \A k \in 0..Len(s) : k \in G
      BY <1>1, <1>4, <1>5, UpTo
    <3>2. QED
      BY <3>1
  <2>2. QED
    BY <1>1, <2>1
<1>7. /\ Len(T[q]) <= Len(T[Len(s)])
      /\ \A j \in 1..Len(T[q]) : T[Len(s)][j] = T[q][j]
  <2> DEFINE e == Len(s)
  <2>1. e \in 0..Len(s) /\ q <= e
    BY <1>1
  <2> HIDE DEF e
  <2>2. Grown(s, S, q, e)
    BY <2>1, KeptGrows
  <2>3. QED
    BY <2>2, Zenon DEF Grown, T, e
<1>8. ASSUME NEW j \in 1..(q - p) PROVE T[Len(s)][L + j] = s[p + j]
  <2>1. L + j \in 1..Len(T[q])
    BY <1>1, <1>6
  <2>2. QED
    BY <1>6, <1>7, <2>1
<1>9. QED
  BY <1>1, <1>6, <1>7, <1>8 DEF T, Keep, Copied

\* Runes in a row that are all dropped leave nothing.
LEMMA RunDropped ==
    ASSUME NEW s \in Seq(Int), NEW S, NEW p \in 0..Len(s), NEW q \in 0..Len(s), p <= q,
           \A j \in (p + 1)..q : s[j] \notin S
    PROVE  Kept(s, S)[q] = Kept(s, S)[p]
<1> DEFINE T == Kept(s, S)
           G == {k \in 0..Len(s) : k \in p..q => T[k] = T[p]}
<1>1. Len(s) \in Nat /\ \A k \in 1..Len(s) : s[k] \notin S => T[k] = T[k - 1]
  BY KeptDef
<1> HIDE DEF T
<1>2. 0 \in G
  BY <1>1
<1>3. ASSUME NEW k \in 0..(Len(s) - 1), k \in G PROVE k + 1 \in G
  <2>1. CASE k >= p /\ k + 1 <= q
    <3>1. T[k + 1] = T[k] /\ T[k] = T[p]
      BY <1>1, <1>3, <2>1
    <3>2. QED
      BY <1>1, <3>1
  <2>2. QED
    BY <1>1, <2>1
<1>4. q \in G
  <2> HIDE DEF G
  <2>1. \A k \in 0..Len(s) : k \in G
    BY <1>1, <1>2, <1>3, UpTo
  <2>2. QED
    BY <2>1
<1>5. QED
  BY <1>1, <1>4 DEF T

\* Nothing is dropped of a text whose runes are all kept, and only then.
LEMMA AllKept ==
    ASSUME NEW s \in Seq(Int), NEW S
    PROVE  /\ (\A k \in 1..Len(s) : s[k] \in S) => Keep(s, S) = s
           /\ Len(Keep(s, S)) = Len(s) => \A k \in 1..Len(s) : s[k] \in S
<1>1. /\ Len(s) \in Nat /\ Keep(s, S) \in Seq(Int)
      /\ 0 \in 0..Len(s) /\ Len(s) \in 0..Len(s) /\ 0 <= Len(s)
  BY KeepFacts
<1>2. ASSUME \A k \in 1..Len(s) : s[k] \in S PROVE Keep(s, S) = s
  <2>1. Kept(s, S)[0] = <<>> /\ Len(Kept(s, S)[0]) = 0
    BY KeptDef
  <2>2. /\ Len(Kept(s, S)[Len(s)]) = Len(s)
        /\ \A j \in 1..Len(s) : Keep(s, S)[j] = s[j]
    <3> DEFINE z == 0
               e == Len(s)
    <3>1. z \in 0..Len(s) /\ e \in 0..Len(s) /\ z <= e /\ RunIn(s, z, e, S)
      BY <1>1, <1>2 DEF RunIn
    <3>2. Len(Kept(s, S)[z]) = 0
      BY <2>1
    <3> HIDE DEF z, e
    <3>3. Copied(s, S, z, e)
      BY <3>1, RunKept
    <3>4. /\ Len(Kept(s, S)[e]) = Len(Kept(s, S)[z]) + (e - z)
          /\ \A j \in 1..(e - z) : Keep(s, S)[Len(Kept(s, S)[z]) + j] = s[z + j]
      BY <3>3, Zenon DEF Copied
    <3>5. QED
      BY <1>1, <3>2, <3>4 DEF z, e
  <2>3. Len(Keep(s, S)) = Len(s)
    BY <2>2 DEF Keep
  <2>4. QED
    BY <1>1, <2>2, <2>3, SMTT(20)
<1>3. ASSUME NEW k \in 1..Len(s), s[k] \notin S PROVE Len(Keep(s, S)) # Len(s)
  <2>1. /\ k \in 0..Len(s) /\ k - 1 \in 0..Len(s) /\ 0 <= k - 1 /\ k <= Len(s)
        /\ Kept(s, S)[k] = Kept(s, S)[k - 1]
    BY <1>1, <1>3, KeptDef
  <2>2. /\ Len(Kept(s, S)[k - 1]) - Len(Kept(s, S)[0]) <= (k - 1) - 0
        /\ Len(Kept(s, S)[k - 1]) \in Nat
    BY <1>1, <2>1, KeptGrows DEF Grown
  <2>3. /\ Len(Kept(s, S)[Len(s)]) - Len(Kept(s, S)[k]) <= Len(s) - k
        /\ Len(Kept(s, S)[Len(s)]) \in Nat
    BY <1>1, <2>1, KeptGrows DEF Grown
  <2>4. Len(Kept(s, S)[0]) = 0
    BY KeptDef
  <2>5. QED
    BY <1>1, <2>1, <2>2, <2>3, <2>4 DEF Keep
<1>4. QED
  BY <1>2, <1>3

\* What is kept was in the text, and a rune of the text that is kept is found
\* again.
LEMMA KeptRunes ==
    ASSUME NEW s \in Seq(Int), NEW S
    PROVE  /\ \A j \in 1..Len(Keep(s, S)) :
                 Keep(s, S)[j] \in S /\ \E k \in 1..Len(s) : Keep(s, S)[j] = s[k]
           /\ \A k \in 1..Len(s) : s[k] \in S =>
                 \E j \in 1..Len(Keep(s, S)) : Keep(s, S)[j] = s[k]
<1> DEFINE T == Kept(s, S)
           Good(m) == \A j \in 1..Len(T[m]) : T[m][j] \in S /\ \E k \in 1..Len(s) : T[m][j] = s[k]
           G == {m \in 0..Len(s) : Good(m)}
<1>1. Len(s) \in Nat /\ \A k \in 0..Len(s) : T[k] \in Seq(Int) /\ Len(T[k]) \in Nat
  BY KeptDef
<1>2. /\ T[0] = <<>>
      /\ \A k \in 1..Len(s) : T[k] = IF s[k] \in S THEN Append(T[k - 1], s[k]) ELSE T[k - 1]
  BY KeptDef
<1>3. ASSUME NEW k \in 1..Len(s), s[k] \in S
      PROVE  \E j \in 1..Len(Keep(s, S)) : Keep(s, S)[j] = s[k]
  <2>1. k - 1 \in 0..Len(s) /\ k \in 0..Len(s) /\ k - 1 <= k /\ RunIn(s, k - 1, k, S)
    BY <1>1, <1>3 DEF RunIn
  <2>2. /\ Len(T[k - 1]) \in Nat /\ Len(T[k]) = Len(T[k - 1]) + (k - (k - 1))
        /\ Len(T[k]) <= Len(Keep(s, S))
        /\ \A j \in 1..(k - (k - 1)) : Keep(s, S)[Len(T[k - 1]) + j] = s[(k - 1) + j]
    <3>1. Copied(s, S, k - 1, k)
      BY <2>1, RunKept
    <3>2. QED
      BY <3>1, Zenon DEF Copied
  <2>3. Len(Keep(s, S)) \in Nat
    BY KeepFacts
  <2> HIDE DEF T
  <2>4. Len(T[k - 1]) + 1 \in 1..Len(Keep(s, S)) /\ Keep(s, S)[Len(T[k - 1]) + 1] = s[k]
    BY <1>1, <2>2, <2>3
  <2>5. QED
    BY <2>4
<1> HIDE DEF T
<1>4. 0 \in G
  BY <1>1, <1>2
<1>5. ASSUME NEW m \in 0..(Len(s) - 1), m \in G PROVE m + 1 \in G
  <2>1. /\ m \in 0..Len(s) /\ m + 1 \in 1..Len(s) /\ (m + 1) - 1 = m
        /\ T[m] \in Seq(Int) /\ Len(T[m]) \in Nat /\ Good(m)
    BY <1>1, <1>5
  <2>2. s[m + 1] \in Int /\ T[m + 1] = IF s[m + 1] \in S THEN Append(T[m], s[m + 1]) ELSE T[m]
    BY <1>2, <2>1
  <2>3. CASE s[m + 1] \in S
    <3>1. /\ Len(T[m + 1]) = Len(T[m]) + 1
          /\ \A j \in 1..Len(T[m]) : T[m + 1][j] = T[m][j]
          /\ T[m + 1][Len(T[m]) + 1] = s[m + 1]
      BY <2>1, <2>2, <2>3, Appended
    <3>2. ASSUME NEW j \in 1..Len(T[m + 1])
          PROVE  T[m + 1][j] \in S /\ \E k \in 1..Len(s) : T[m + 1][j] = s[k]
      <4>1. CASE j = Len(T[m]) + 1
        BY <2>1, <2>3, <3>1, <4>1
      <4>2. CASE j \in 1..Len(T[m])
        BY <2>1, <3>1, <4>2
      <4> DEFINE l == Len(T[m])
      <4>3. l \in Nat /\ j \in 1..(l + 1)
        BY <2>1, <3>1
      <4> HIDE DEF l
      <4>4. j = l + 1 \/ j \in 1..l
        BY <4>3
      <4>5. QED
        BY <4>1, <4>2, <4>4, Zenon DEF l
    <3>3. Good(m + 1)
      BY <3>2
    <3> HIDE DEF Good
    <3>4. QED
      BY <2>1, <3>3
  <2>4. CASE s[m + 1] \notin S
    <3>1. T[m + 1] = T[m]
      BY <2>2, <2>4
    <3>2. Good(m + 1)
      BY <2>1, <3>1, Zenon
    <3> HIDE DEF Good
    <3>3. QED
      BY <2>1, <3>2
  <2>5. QED
    BY <2>3, <2>4
<1>6. Good(Len(s))
  <2> HIDE DEF Good
  <2>1. \A m \in 0..Len(s) : m \in G
    <3> HIDE DEF G
    <3>1. QED
      BY <1>1, <1>4, <1>5, UpTo
  <2>2. QED
    BY <1>1, <2>1
<1>7. QED
  BY <1>3, <1>6 DEF T, Keep

\* Keeping the runes of an extended text.
LEMMA KeepAppend ==
    ASSUME NEW q \in Seq(Int), NEW r \in Int, NEW S
    PROVE  Keep(Append(q, r), S) = IF r \in S THEN Append(Keep(q, S), r) ELSE Keep(q, S)
<1> DEFINE a == Append(q, r)
           T == Kept(q, S)
           U == Kept(a, S)
           G == {k \in 0..Len(q) : U[k] = T[k]}
<1>1. /\ a \in Seq(Int) /\ Len(q) \in Nat /\ Len(a) = Len(q) + 1
      /\ \A j \in 1..Len(q) : a[j] = q[j]
      /\ a[Len(q) + 1] = r
  BY Appended
<1> HIDE DEF a
<1>2. /\ T[0] = <<>>
      /\ \A k \in 1..Len(q) : T[k] = IF q[k] \in S THEN Append(T[k - 1], q[k]) ELSE T[k - 1]
  BY KeptDef
<1>3. /\ U[0] = <<>>
      /\ \A k \in 1..Len(a) : U[k] = IF a[k] \in S THEN Append(U[k - 1], a[k]) ELSE U[k - 1]
  BY <1>1, KeptDef
<1> HIDE DEF T, U
<1>4. 0 \in G
  BY <1>1, <1>2, <1>3
<1>5. ASSUME NEW k \in 0..(Len(q) - 1), k \in G PROVE k + 1 \in G
  <2>1. k + 1 \in 1..Len(q) /\ k + 1 \in 1..Len(a) /\ (k + 1) - 1 = k /\ U[k] = T[k]
    BY <1>1, <1>5
  <2>2. U[k + 1] = T[k + 1]
    BY <1>1, <1>2, <1>3, <2>1
  <2>3. QED
    BY <1>1, <2>1, <2>2
<1>6. U[Len(q)] = T[Len(q)]
  <2> HIDE DEF G
  <2>1. \A k \in 0..Len(q) : k \in G
    BY <1>1, <1>4, <1>5, UpTo
  <2>2. QED
    BY <1>1, <2>1 DEF G
<1>7. U[Len(a)] = IF r \in S THEN Append(U[Len(q)], r) ELSE U[Len(q)]
  <2>1. Len(a) \in 1..Len(a) /\ Len(a) - 1 = Len(q) /\ a[Len(a)] = r
    BY <1>1
  <2>2. QED
    BY <1>3, <2>1
<1>8. QED
  BY <1>6, <1>7 DEF T, U, Keep, a

\* Keeping twice is keeping what both keep.
LEMMA KeepTwice ==
    ASSUME NEW s \in Seq(Int), NEW A, NEW B, NEW C, \A r \in Int : r \in C <=> r \in A /\ r \in B
    PROVE  Keep(Keep(s, B), A) = Keep(s, C)
<1> DEFINE T == Kept(s, B)
           U == Kept(s, C)
           G == {k \in 0..Len(s) : Keep(T[k], A) = U[k]}
<1>1. /\ Len(s) \in Nat /\ T[0] = <<>> /\ U[0] = <<>>
      /\ \A k \in 0..Len(s) : T[k] \in Seq(Int)
      /\ \A k \in 1..Len(s) : T[k] = IF s[k] \in B THEN Append(T[k - 1], s[k]) ELSE T[k - 1]
      /\ \A k \in 1..Len(s) : U[k] = IF s[k] \in C THEN Append(U[k - 1], s[k]) ELSE U[k - 1]
  BY KeptDef
<1>2. Keep(<<>>, A) = <<>>
  <2>1. <<>> \in Seq(Int) /\ Len(<<>>) = 0
    OBVIOUS
  <2>2. QED
    BY <2>1, KeptDef DEF Keep
<1> HIDE DEF T, U
<1>3. 0 \in G
  BY <1>1, <1>2
<1>4. ASSUME NEW k \in 0..(Len(s) - 1), k \in G PROVE k + 1 \in G
  <2>1. /\ k \in 0..Len(s) /\ k + 1 \in 1..Len(s) /\ (k + 1) - 1 = k
        /\ Keep(T[k], A) = U[k] /\ T[k] \in Seq(Int)
    BY <1>1, <1>4, SMTT(20)
  <2>2. s[k + 1] \in Int
    BY <2>1
  <2>3. Keep(Append(T[k], s[k + 1]), A)
            = IF s[k + 1] \in A THEN Append(Keep(T[k], A), s[k + 1]) ELSE Keep(T[k], A)
    <3> DEFINE q == T[k]
               r == s[k + 1]
    <3>1. q \in Seq(Int) /\ r \in Int
      BY <2>1, <2>2
    <3> HIDE DEF q, r
    <3>2. Keep(Append(q, r), A) = IF r \in A THEN Append(Keep(q, A), r) ELSE Keep(q, A)
      BY <3>1, KeepAppend
    <3>3. QED
      BY <3>2 DEF q, r
  <2>4. /\ T[k + 1] = IF s[k + 1] \in B THEN Append(T[k], s[k + 1]) ELSE T[k]
        /\ U[k + 1] = IF s[k + 1] \in C THEN Append(U[k], s[k + 1]) ELSE U[k]
    BY <1>1, <2>1
  <2>5. Keep(T[k + 1], A) = U[k + 1]
    BY <2>1, <2>2, <2>3, <2>4
  <2>6. QED
    BY <1>1, <2>1, <2>5
<1>5. Keep(T[Len(s)], A) = U[Len(s)]
  <2> HIDE DEF G
  <2>1. \A k \in 0..Len(s) : k \in G
    BY <1>1, <1>3, <1>4, UpTo
  <2>2. QED
    BY <1>1, <2>1 DEF G
<1>6. QED
  BY <1>5 DEF T, U, Keep

-----------------------------------------------------------------------------
(* Shapes.                                                                 *)

\* The bounds of every item are naturals.
IsShape(shape) ==
    /\ Len(shape) \in Nat
    /\ \A k \in 1..Len(shape) : shape[k][2] \in Nat /\ shape[k][3] \in Nat

\* Where the next item of a shape can end.
After(s, item, P) ==
    UNION { { q \in (p + item[2])..(p + item[3]) :
                q <= Len(s) /\ \A j \in (p + 1)..q : s[j] \in item[1] } : p \in P }

\* The positions after each item, one from the other.
LEMMA EndsDef ==
    ASSUME NEW s \in Seq(Int), NEW shape, IsShape(shape), NEW from \in SUBSET (0..Len(s))
    PROVE  /\ Ends(s, shape, from)[0] = from
           /\ \A k \in 0..Len(shape) : Ends(s, shape, from)[k] \in SUBSET (0..Len(s))
           /\ \A k \in 1..Len(shape) :
                 Ends(s, shape, from)[k] = After(s, shape[k], Ends(s, shape, from)[k - 1])
<1> DEFINE m == Len(shape)
           V == SUBSET (0..Len(s))
           Step(P, k) == After(s, shape[k], P)
           F == [x \in (1..m) \X V |-> Step(x[2], x[1])]
           Def(f) == f = [k \in 0..m |-> IF k = 0 THEN from ELSE Step(f[k - 1], k)]
           T == Ends(s, shape, from)
<1>1. m \in Nat /\ from \in V
  BY DEF IsShape
<1>2. ASSUME NEW P \in V, NEW k \in 1..m PROVE Step(P, k) \in V
  <2>1. Len(s) \in Nat /\ shape[k][2] \in Nat /\ shape[k][3] \in Nat
    BY DEF IsShape
  <2>2. ASSUME NEW q \in Step(P, k) PROVE q \in 0..Len(s)
    <3>1. PICK p \in P : q \in (p + shape[k][2])..(p + shape[k][3]) /\ q <= Len(s)
      BY <2>2 DEF After
    <3>2. QED
      BY <2>1, <3>1
  <2>3. QED
    BY <2>2
<1>3. (\E f : Def(f)) => Def(T)
  BY Zenon DEF Ends, After
<1> HIDE DEF V, m, Step, T
<1>4. F \in [(1..m) \X V -> V]
  BY <1>2
<1>5. PICK f \in [0..m -> V] : Iterates(f, m, from, F)
  <2> HIDE DEF F
  <2>1. QED
    BY <1>1, <1>4, IterationExists
<1>6. ASSUME NEW k \in 1..m PROVE f[k] = Step(f[k - 1], k)
  <2>1. k - 1 \in 0..m
    BY <1>1
  <2>2. f[k] = F[<<k, f[k - 1]>>] /\ <<k, f[k - 1]>> \in (1..m) \X V
    BY <1>5, <2>1 DEF Iterates
  <2>3. QED
    BY <2>2
<1>7. Def(f)
  BY <1>1, <1>5, <1>6 DEF Iterates
<1>8. Def(T)
  <2> HIDE DEF Def
  <2>1. QED
    BY <1>3, <1>7
<1>9. T[0] = from /\ \A k \in 1..m : T[k] = Step(T[k - 1], k)
  BY <1>1, <1>8
<1>10. \A k \in 0..m : T[k] \in V
  <2> DEFINE G == {k \in 0..m : T[k] \in V}
  <2>1. 0 \in G
    BY <1>1, <1>9
  <2>2. ASSUME NEW k \in 0..(m - 1), k \in G PROVE k + 1 \in G
    <3>1. k + 1 \in 1..m /\ (k + 1) - 1 = k
      BY <1>1, <2>2
    <3>2. T[k + 1] = Step(T[k], k + 1)
      BY <1>9, <3>1
    <3>3. T[k + 1] \in V
      BY <1>2, <2>2, <3>1, <3>2
    <3>4. QED
      BY <1>1, <3>1, <3>3
  <2> HIDE DEF G
  <2>3. \A k \in 0..m : k \in G
    BY <1>1, <2>1, <2>2, UpTo
  <2>4. QED
    BY <2>3 DEF G
<1>11. QED
  BY <1>9, <1>10 DEF T, m, V, Step

\* Positions that cut a stretch of the text into the first m items of a shape.
Cuts(s, shape, c, m) ==
    \A k \in 1..m : /\ c[k - 1] + shape[k][2] <= c[k] /\ c[k] <= c[k - 1] + shape[k][3]
                    /\ RunIn(s, c[k - 1], c[k], shape[k][1])

\* A match that begins at one of "from" and ends at e, with its cuts.
CutTo(s, shape, from, e) ==
    \E c \in [0..Len(shape) -> 0..Len(s)] :
        c[0] \in from /\ c[Len(shape)] = e /\ Cuts(s, shape, c, Len(shape))

\* A shape ends where it can be cut to.
LEMMA EndsAreCuts ==
    ASSUME NEW s \in Seq(Int), NEW shape, IsShape(shape), NEW from \in SUBSET (0..Len(s))
    PROVE  \A e \in EndsFrom(s, shape, from) : CutTo(s, shape, from, e)
<1> DEFINE m == Len(shape)
           V == 0..Len(s)
           T == Ends(s, shape, from)
           Good(k) == \A e \in T[k] : \E c \in [0..k -> V] :
                          c[0] \in from /\ c[k] = e /\ Cuts(s, shape, c, k)
           G == {k \in 0..m : Good(k)}
<1>1. /\ m \in Nat /\ Len(s) \in Nat /\ T[0] = from
      /\ \A k \in 0..m : T[k] \in SUBSET V
      /\ \A k \in 1..m : T[k] = After(s, shape[k], T[k - 1])
  BY EndsDef DEF IsShape
<1> HIDE DEF T, m
<1>2. 0 \in G
  <2>1. ASSUME NEW e \in T[0]
        PROVE  \E c \in [0..0 -> V] : c[0] \in from /\ c[0] = e /\ Cuts(s, shape, c, 0)
    <3>1. e \in V /\ e \in from
      BY <1>1
    <3>2. [p \in 0..0 |-> e] \in [0..0 -> V] /\ [p \in 0..0 |-> e][0] = e
      BY <3>1
    <3>3. Cuts(s, shape, [p \in 0..0 |-> e], 0)
      BY DEF Cuts
    <3>4. QED
      BY <3>1, <3>2, <3>3
  <2>2. Good(0)
    BY <2>1
  <2> HIDE DEF Good
  <2>3. QED
    BY <1>1, <2>2
<1>3. ASSUME NEW k \in 0..(m - 1), k \in G PROVE k + 1 \in G
  <2>1. k + 1 \in 1..m /\ (k + 1) - 1 = k /\ k \in 0..m /\ Good(k)
    <3> HIDE DEF Good
    <3>1. QED
      BY <1>1, <1>3
  <2>2. ASSUME NEW e \in T[k + 1]
        PROVE  \E c \in [0..(k + 1) -> V] :
                   c[0] \in from /\ c[k + 1] = e /\ Cuts(s, shape, c, k + 1)
    <3> DEFINE lo == shape[k + 1][2]
               hi == shape[k + 1][3]
    <3>1. e \in After(s, shape[k + 1], T[k]) /\ lo \in Nat /\ hi \in Nat
      BY <1>1, <2>1 DEF IsShape, m
    <3>2. PICK p \in T[k] : /\ e \in (p + lo)..(p + hi) /\ e <= Len(s)
                            /\ \A j \in (p + 1)..e : s[j] \in shape[k + 1][1]
      BY <3>1 DEF After
    <3>3. p \in V /\ T[k] \in SUBSET V
      BY <1>1, <2>1
    <3>4. PICK c \in [0..k -> V] : c[0] \in from /\ c[k] = p /\ Cuts(s, shape, c, k)
      BY <2>1, <3>2
    <3> DEFINE d == [x \in 0..(k + 1) |-> IF x = k + 1 THEN e ELSE c[x]]
    <3>5. e \in V /\ d \in [0..(k + 1) -> V] /\ d[k + 1] = e /\ \A x \in 0..k : d[x] = c[x]
      <4>1. e \in V
        BY <1>1, <3>1, <3>2, <3>3, SMTT(20)
      <4>2. \A x \in 0..(k + 1) : x = k + 1 \/ x \in 0..k
        OBVIOUS
      <4>3. \A x \in 0..k : x \in 0..(k + 1) /\ x # k + 1 /\ c[x] \in V
        OBVIOUS
      <4>4. d \in [0..(k + 1) -> V]
        BY <4>1, <4>2, <4>3
      <4>5. \A x \in 0..k : d[x] = c[x]
        BY <4>3
      <4>6. k + 1 \in 0..(k + 1)
        OBVIOUS
      <4>7. QED
        BY <4>1, <4>4, <4>5, <4>6
    <3>6. RunIn(s, p, e, shape[k + 1][1]) /\ p + lo <= e /\ e <= p + hi
      BY <3>1, <3>2, <3>3 DEF RunIn
    <3> HIDE DEF d
    <3>7. ASSUME NEW x \in 1..(k + 1)
          PROVE  /\ d[x - 1] + shape[x][2] <= d[x] /\ d[x] <= d[x - 1] + shape[x][3]
                 /\ RunIn(s, d[x - 1], d[x], shape[x][1])
      <4>1. CASE x = k + 1
        <5>1. d[x] = e /\ d[x - 1] = p /\ x - 1 = k
          BY <3>4, <3>5, <4>1
        <5>2. QED
          BY <3>6, <4>1, <5>1
      <4>2. CASE x \in 1..k
        <5>1. d[x] = c[x] /\ d[x - 1] = c[x - 1]
          BY <3>5, <4>2
        <5>2. QED
          BY <3>4, <4>2, <5>1 DEF Cuts
      <4>3. QED
        BY <4>1, <4>2
    <3>8. Cuts(s, shape, d, k + 1)
      BY <3>7 DEF Cuts
    <3>9. d[0] \in from
      <4>1. 0 \in 0..k
        OBVIOUS
      <4>2. d[0] = c[0]
        BY <3>5, <4>1, Zenon
      <4>3. QED
        BY <3>4, <4>2, Zenon
    <3>10. QED
      BY <3>5, <3>8, <3>9
  <2>3. Good(k + 1)
    BY <2>2
  <2> HIDE DEF Good
  <2>4. QED
    BY <2>1, <2>3
<1>4. Good(m)
  <2> HIDE DEF Good
  <2>1. \A k \in 0..m : k \in G
    <3> HIDE DEF G
    <3>1. QED
      BY <1>1, <1>2, <1>3, UpTo
  <2>2. QED
    BY <1>1, <2>1
<1>5. QED
  BY <1>4 DEF EndsFrom, CutTo, T, m

\* And it can be cut to no other place.
LEMMA CutsAreEnds ==
    ASSUME NEW s \in Seq(Int), NEW shape, IsShape(shape), NEW from \in SUBSET (0..Len(s)),
           NEW e, CutTo(s, shape, from, e)
    PROVE  e \in EndsFrom(s, shape, from)
<1> DEFINE m == Len(shape)
           T == Ends(s, shape, from)
<1>1. /\ m \in Nat /\ Len(s) \in Nat /\ T[0] = from
      /\ \A k \in 1..m : T[k] = After(s, shape[k], T[k - 1])
  BY EndsDef DEF IsShape
<1>2. PICK c \in [0..m -> 0..Len(s)] : c[0] \in from /\ c[m] = e /\ Cuts(s, shape, c, m)
  BY DEF CutTo
<1> HIDE DEF T, m
<1> DEFINE G == {k \in 0..m : c[k] \in T[k]}
<1>3. 0 \in G
  BY <1>1, <1>2
<1>4. ASSUME NEW k \in 0..(m - 1), k \in G PROVE k + 1 \in G
  <2> DEFINE item == shape[k + 1]
             p == c[k]
             q == c[k + 1]
  <2>1. k + 1 \in 1..m /\ (k + 1) - 1 = k /\ k \in 0..m /\ k + 1 \in 0..m /\ p \in T[k]
    BY <1>1, <1>4
  <2>2. /\ T[k + 1] = After(s, item, T[k]) /\ item[2] \in Nat /\ item[3] \in Nat
    BY <1>1, <2>1 DEF IsShape, m
  <2>3. p + item[2] <= q /\ q <= p + item[3] /\ RunIn(s, p, q, item[1])
    BY <1>2, <2>1 DEF Cuts
  <2>4. p \in 0..Len(s) /\ q \in 0..Len(s)
    BY <1>2, <2>1
  <2> HIDE DEF item, p, q
  <2>5. q \in (p + item[2])..(p + item[3]) /\ q <= Len(s)
    BY <1>1, <2>2, <2>3, <2>4
  <2>6. q \in After(s, item, T[k])
    BY <2>1, <2>3, <2>5 DEF After, RunIn
  <2>7. QED
    BY <2>1, <2>2, <2>6 DEF q
<1>5. c[m] \in T[m]
  <2> HIDE DEF G
  <2>1. \A k \in 0..m : k \in G
    BY <1>1, <1>3, <1>4, UpTo
  <2>2. QED
    BY <1>1, <2>1 DEF G
<1>6. QED
  BY <1>2, <1>5 DEF EndsFrom, T, m

\* A shape that allows as much as another, from as many places, ends wherever
\* the other does.
LEMMA WiderShape ==
    ASSUME NEW s \in Seq(Int), NEW a, IsShape(a), NEW b, IsShape(b), Len(a) = Len(b),
           NEW from \in SUBSET (0..Len(s)), NEW to \in SUBSET (0..Len(s)), from \subseteq to,
           \A k \in 1..Len(a) : /\ \A r \in a[k][1] : r \in b[k][1]
                                /\ b[k][2] <= a[k][2] /\ a[k][3] <= b[k][3]
    PROVE  EndsFrom(s, a, from) \subseteq EndsFrom(s, b, to)
<1> SUFFICES ASSUME NEW e \in EndsFrom(s, a, from) PROVE e \in EndsFrom(s, b, to)
  OBVIOUS
<1>1. CutTo(s, a, from, e)
  BY EndsAreCuts
<1>2. PICK c \in [0..Len(a) -> 0..Len(s)] :
          c[0] \in from /\ c[Len(a)] = e /\ Cuts(s, a, c, Len(a))
  BY <1>1 DEF CutTo
<1>3. Len(a) \in Nat /\ Len(s) \in Nat
  BY DEF IsShape
<1>4. ASSUME NEW k \in 1..Len(a)
      PROVE  /\ c[k - 1] + b[k][2] <= c[k] /\ c[k] <= c[k - 1] + b[k][3]
             /\ RunIn(s, c[k - 1], c[k], b[k][1])
  <2>1. /\ c[k - 1] + a[k][2] <= c[k] /\ c[k] <= c[k - 1] + a[k][3]
        /\ RunIn(s, c[k - 1], c[k], a[k][1])
    BY <1>2 DEF Cuts
  <2>2. RunIn(s, c[k - 1], c[k], b[k][1])
    BY <2>1 DEF RunIn
  <2>3. a[k][2] \in Nat /\ a[k][3] \in Nat /\ b[k][2] \in Nat /\ b[k][3] \in Nat
    BY DEF IsShape
  <2>4. c[k - 1] \in 0..Len(s) /\ c[k] \in 0..Len(s)
    <3>1. k - 1 \in 0..Len(a) /\ k \in 0..Len(a)
      BY <1>3
    <3>2. QED
      BY <1>2, <3>1
  <2>5. b[k][2] <= a[k][2] /\ a[k][3] <= b[k][3]
    OBVIOUS
  <2>6. c[k - 1] \in Nat /\ c[k] \in Nat
    BY <1>3, <2>4
  <2> DEFINE x == c[k - 1]
             y == c[k]
             la == a[k][2]
             ha == a[k][3]
             lb == b[k][2]
             hb == b[k][3]
  <2>7. /\ x \in Nat /\ y \in Nat /\ la \in Nat /\ ha \in Nat /\ lb \in Nat /\ hb \in Nat
        /\ x + la <= y /\ y <= x + ha /\ lb <= la /\ ha <= hb
    BY <2>1, <2>3, <2>5, <2>6
  <2> HIDE DEF x, y, la, ha, lb, hb
  <2>8. x + lb <= y /\ y <= x + hb
    BY <2>7
  <2>9. QED
    BY <2>2, <2>8 DEF x, y, lb, hb
<1>5. Cuts(s, b, c, Len(b))
  BY <1>4 DEF Cuts
<1>6. CutTo(s, b, to, e)
  BY <1>2, <1>5 DEF CutTo
<1>7. QED
  BY <1>6, CutsAreEnds

\* A text with an UUID of any version holds a GUID.
LEMMA UUIDsAreGUIDs ==
    ASSUME NEW s \in Seq(Int), MatchUUID(s) \/ MatchUUIDV3(s) \/ MatchUUIDV4(s) \/ MatchUUIDV5(s)
    PROVE  Matchguid(s)
<1> DEFINE all == 0..Len(s)
           guid == uuidShape(Opt({Dash}), HexDigits, HexDigits)
<1>1. ASSUME NEW version \in SUBSET HexDigits, NEW variant \in SUBSET HexDigits,
             NEW from \in SUBSET all, EndsFrom(s, uuidShape(One({Dash}), version, variant), from) # {}
      PROVE  Matchguid(s)
  <2> DEFINE a == uuidShape(One({Dash}), version, variant)
  <2>1. Len(a) = 11 /\ Len(guid) = 11
    BY DEF uuidShape
  <2>2. IsShape(a) /\ IsShape(guid)
    <3>1. IsShape(a)
      BY <2>1, SMTT(30) DEF IsShape, uuidShape, One, Many
    <3>2. IsShape(guid)
      BY <2>1, SMTT(30) DEF IsShape, uuidShape, One, Opt, Many
    <3>3. QED
      BY <3>1, <3>2
  <2>3. \A k \in 1..11 : /\ \A r \in a[k][1] : r \in guid[k][1]
                         /\ guid[k][2] <= a[k][2] /\ a[k][3] <= guid[k][3]
    BY DEF uuidShape, One, Opt, Many
  <2> HIDE DEF a, guid
  <2>4. EndsFrom(s, a, from) \subseteq EndsFrom(s, guid, all)
    BY <2>1, <2>2, <2>3, WiderShape
  <2>5. QED
    BY <1>1, <2>4 DEF Matchguid, Contains, guid, a
<1>2. {0} \in SUBSET all /\ all \in SUBSET all
  OBVIOUS
<1>3. /\ HexDigits \in SUBSET HexDigits /\ rfcVariant \in SUBSET HexDigits
      /\ {3} \in SUBSET HexDigits /\ {4} \in SUBSET HexDigits /\ {5} \in SUBSET HexDigits
  BY DEF HexDigits, Digits, rfcVariant
<1>4. QED
  BY <1>1, <1>2, <1>3 DEF MatchUUID, MatchUUIDV3, MatchUUIDV4, MatchUUIDV5, Contains, Whole

-----------------------------------------------------------------------------
(* Dotted octets.                                                          *)

\* Where an octet, and a dot, that begin at one of P end.
OctetsFrom(s, P, leadingZeros) ==
    UNION { { q \in (p + 1)..(p + 3) :
                q <= Len(s) /\ isOctet(SubSeq(s, p + 1, q), leadingZeros) } : p \in P }
DotsFrom(s, P) == EndsFrom(s, <<One({Dot})>>, P)

\* Where an octet ends: one to three digits after where it starts.
LEMMA OctetFacts ==
    ASSUME NEW s \in Seq(Int), NEW P \in SUBSET (0..Len(s)), NEW z \in BOOLEAN
    PROVE  /\ OctetsFrom(s, P, z) \in SUBSET (0..Len(s))
           /\ \A q \in OctetsFrom(s, P, z) :
                 \E p \in P : p < q /\ q <= p + 3 /\ RunIn(s, p, q, Digits)
<1>1. Len(s) \in Nat
  OBVIOUS
<1>2. ASSUME NEW q \in OctetsFrom(s, P, z)
      PROVE  q \in 0..Len(s) /\ \E p \in P : p < q /\ q <= p + 3 /\ RunIn(s, p, q, Digits)
  <2>1. PICK p \in P : /\ q \in (p + 1)..(p + 3) /\ q <= Len(s)
                       /\ isOctet(SubSeq(s, p + 1, q), z)
    BY <1>2 DEF OctetsFrom
  <2>2. p \in 0..Len(s) /\ q \in 0..Len(s) /\ p < q /\ q <= p + 3
    BY <1>1, <2>1
  <2>3. ASSUME NEW j \in (p + 1)..q PROVE s[j] \in Digits
    <3> DEFINE o == SubSeq(s, p + 1, q)
    <3>1. o = [k \in 1..(q - p) |-> s[k + p]]
      BY <1>1, <2>2
    <3>2. j - p \in DOMAIN o /\ o[j - p] = s[j]
      BY <2>2, <3>1
    <3>3. isDigit(o[j - p])
      BY <2>1, <3>2 DEF isOctet, isAllDigits
    <3>4. QED
      BY <3>2, <3>3 DEF isDigit
  <2>4. QED
    BY <2>2, <2>3 DEF RunIn
<1>3. QED
  BY <1>2

\* With leading zeros, and from more places, there are more octets.
LEMMA MoreOctets ==
    ASSUME NEW s \in Seq(Int), NEW P, NEW Q, P \subseteq Q
    PROVE  OctetsFrom(s, P, FALSE) \subseteq OctetsFrom(s, Q, TRUE)
<1> SUFFICES ASSUME NEW q \in OctetsFrom(s, P, FALSE) PROVE q \in OctetsFrom(s, Q, TRUE)
  OBVIOUS
<1>1. PICK p \in P : /\ q \in (p + 1)..(p + 3) /\ q <= Len(s)
                     /\ isOctet(SubSeq(s, p + 1, q), FALSE)
  BY DEF OctetsFrom
<1>2. isOctet(SubSeq(s, p + 1, q), TRUE)
  BY <1>1, Zenon DEF isOctet
<1> DEFINE inner(x) == { y \in (x + 1)..(x + 3) :
                           y <= Len(s) /\ isOctet(SubSeq(s, x + 1, y), TRUE) }
<1>3. p \in Q /\ q \in inner(p)
  BY <1>1, <1>2, Zenon
<1>4. OctetsFrom(s, Q, TRUE) = UNION {inner(x) : x \in Q}
  BY Zenon DEF OctetsFrom
<1> HIDE DEF inner
<1>5. QED
  BY <1>3, <1>4

\* Where a dot ends: on the dot, one rune after where it starts.
LEMMA DotFacts ==
    ASSUME NEW s \in Seq(Int), NEW P \in SUBSET (0..Len(s))
    PROVE  /\ DotsFrom(s, P) \in SUBSET (0..Len(s))
           /\ \A q \in DotsFrom(s, P) : q - 1 \in P /\ q \in 1..Len(s) /\ s[q] = Dot
           /\ \A Q \in SUBSET (0..Len(s)) : P \subseteq Q => DotsFrom(s, P) \subseteq DotsFrom(s, Q)
<1> DEFINE shape == <<One({Dot})>>
<1>1. Len(shape) = 1 /\ shape[1][1] = {Dot} /\ shape[1][2] = 1 /\ shape[1][3] = 1
  BY DEF One
<1>2. IsShape(shape) /\ Len(s) \in Nat
  BY <1>1 DEF IsShape
<1> HIDE DEF shape
<1>3. ASSUME NEW R \in SUBSET (0..Len(s))
      PROVE  /\ EndsFrom(s, shape, R) \in SUBSET (0..Len(s))
             /\ EndsFrom(s, shape, R) = After(s, shape[1], R)
  <2>1. /\ Ends(s, shape, R)[0] = R
        /\ \A k \in 0..Len(shape) : Ends(s, shape, R)[k] \in SUBSET (0..Len(s))
        /\ \A k \in 1..Len(shape) :
              Ends(s, shape, R)[k] = After(s, shape[k], Ends(s, shape, R)[k - 1])
    BY <1>2, EndsDef
  <2>2. Ends(s, shape, R)[1] = After(s, shape[1], Ends(s, shape, R)[1 - 1])
    <3>1. 1 \in 1..Len(shape)
      BY <1>1
    <3>2. QED
      BY <2>1, <3>1
  <2>3. 1 \in 0..Len(shape) /\ 1 - 1 = 0
    BY <1>1
  <2>4. QED
    BY <1>1, <2>1, <2>2, <2>3 DEF EndsFrom
<1>4. ASSUME NEW R \in SUBSET (0..Len(s)), NEW q \in After(s, shape[1], R)
      PROVE  q - 1 \in R /\ q \in 1..Len(s) /\ s[q] = Dot
  <2>1. PICK p \in R : /\ q \in (p + 1)..(p + 1) /\ q <= Len(s)
                       /\ \A j \in (p + 1)..q : s[j] \in {Dot}
    BY <1>1, <1>4 DEF After
  <2>2. p \in 0..Len(s) /\ q = p + 1 /\ q - 1 = p /\ q \in (p + 1)..q
    BY <1>2, <2>1
  <2>3. QED
    BY <1>2, <2>1, <2>2
<1>5. ASSUME NEW Q \in SUBSET (0..Len(s)), P \subseteq Q
      PROVE  After(s, shape[1], P) \subseteq After(s, shape[1], Q)
  BY <1>5, Zenon DEF After
<1>6. ASSUME NEW R \in SUBSET (0..Len(s))
      PROVE  DotsFrom(s, R) = After(s, shape[1], R) /\ DotsFrom(s, R) \in SUBSET (0..Len(s))
  BY <1>3 DEF DotsFrom, shape
<1>7. \A q \in DotsFrom(s, P) : q - 1 \in P /\ q \in 1..Len(s) /\ s[q] = Dot
  BY <1>4, <1>6
<1>8. \A Q \in SUBSET (0..Len(s)) : P \subseteq Q => DotsFrom(s, P) \subseteq DotsFrom(s, Q)
  BY <1>5, <1>6
<1>9. QED
  BY <1>6, <1>7, <1>8

\* DottedEnds, step by step.
LEMMA DottedSteps ==
    ASSUME NEW s \in Seq(Int), NEW P \in SUBSET (0..Len(s)), NEW z \in BOOLEAN
    PROVE  \E A, B, C, D, E, F \in SUBSET (0..Len(s)) :
               /\ A = OctetsFrom(s, P, z) /\ B = DotsFrom(s, A)
               /\ C = OctetsFrom(s, B, z) /\ D = DotsFrom(s, C)
               /\ E = OctetsFrom(s, D, z) /\ F = DotsFrom(s, E)
               /\ DottedEnds(s, P, z) = OctetsFrom(s, F, z)
<1> DEFINE A == OctetsFrom(s, P, z)
           B == DotsFrom(s, A)
           C == OctetsFrom(s, B, z)
           D == DotsFrom(s, C)
           E == OctetsFrom(s, D, z)
           F == DotsFrom(s, E)
<1>1. DottedEnds(s, P, z) = OctetsFrom(s, F, z)
  BY Zenon DEF DottedEnds, OctetsFrom, DotsFrom
<1> DEFINE V == SUBSET (0..Len(s))
<1>2. A \in V
  BY OctetFacts
<1> HIDE DEF A
<1>3. B \in V
  BY <1>2, DotFacts
<1> HIDE DEF B
<1>4. C \in V
  BY <1>3, OctetFacts
<1> HIDE DEF C
<1>5. D \in V
  BY <1>4, DotFacts
<1> HIDE DEF D
<1>6. E \in V
  BY <1>5, OctetFacts
<1> HIDE DEF E
<1>7. F \in V
  BY <1>6, DotFacts
<1> HIDE DEF F
<1>8. QED
  BY <1>1, <1>2, <1>3, <1>4, <1>5, <1>6, <1>7, Zenon DEF A, B, C, D, E, F

\* What ParseIP accepts, ipv4Pattern finds.
LEMMA ParsedIsFound ==
    ASSUME NEW s \in Seq(Int), ParseIP(s)
    PROVE  ipv4Match(s)
<1> DEFINE V == SUBSET (0..Len(s))
<1>1. Len(s) \in Nat /\ {0} \in V /\ WordStarts(s) \in V /\ {0} \subseteq WordStarts(s)
  BY DEF WordStarts
<1>2. PICK A, B, C, D, E, F \in V :
               /\ A = OctetsFrom(s, {0}, FALSE) /\ B = DotsFrom(s, A)
               /\ C = OctetsFrom(s, B, FALSE) /\ D = DotsFrom(s, C)
               /\ E = OctetsFrom(s, D, FALSE) /\ F = DotsFrom(s, E)
               /\ DottedEnds(s, {0}, FALSE) = OctetsFrom(s, F, FALSE)
  BY <1>1, DottedSteps
<1>3. PICK A2, B2, C2, D2, E2, F2 \in V :
               /\ A2 = OctetsFrom(s, WordStarts(s), TRUE) /\ B2 = DotsFrom(s, A2)
               /\ C2 = OctetsFrom(s, B2, TRUE) /\ D2 = DotsFrom(s, C2)
               /\ E2 = OctetsFrom(s, D2, TRUE) /\ F2 = DotsFrom(s, E2)
               /\ DottedEnds(s, WordStarts(s), TRUE) = OctetsFrom(s, F2, TRUE)
  BY <1>1, DottedSteps
<1>4. A \subseteq A2
  BY <1>1, <1>2, <1>3, MoreOctets
<1>5. B \subseteq B2
  BY <1>2, <1>3, <1>4, DotFacts
<1>6. C \subseteq C2
  BY <1>2, <1>3, <1>5, MoreOctets
<1>7. D \subseteq D2
  BY <1>2, <1>3, <1>6, DotFacts
<1>8. E \subseteq E2
  BY <1>2, <1>3, <1>7, MoreOctets
<1>9. F \subseteq F2
  BY <1>2, <1>3, <1>8, DotFacts
<1>10. DottedEnds(s, {0}, FALSE) \subseteq DottedEnds(s, WordStarts(s), TRUE)
  <2>1. OctetsFrom(s, F, FALSE) \subseteq OctetsFrom(s, F2, TRUE)
    BY <1>9, MoreOctets
  <2>2. QED
    BY <1>2, <1>3, <2>1, Zenon
<1>11. QED
  BY <1>10 DEF ParseIP, ipv4Match

\* The three dots of an address: at most three digits stand before, between
\* and after them, and nothing else.
LEMMA ParsedFacts ==
    ASSUME NEW s \in Seq(Int), ParseIP(s)
    PROVE  \E x, y, z \in 1..Len(s) :
               /\ s[x] = Dot /\ s[y] = Dot /\ s[z] = Dot
               /\ x <= 4 /\ x < y /\ y <= x + 4 /\ y < z /\ z <= y + 4 /\ Len(s) <= z + 3
               /\ \A k \in 1..Len(s) : k \notin {x, y, z} => s[k] \in Digits
<1> DEFINE V == SUBSET (0..Len(s))
<1>1. Len(s) \in Nat /\ {0} \in V
  OBVIOUS
<1>2. PICK A, B, C, D, E, F \in V :
               /\ A = OctetsFrom(s, {0}, FALSE) /\ B = DotsFrom(s, A)
               /\ C = OctetsFrom(s, B, FALSE) /\ D = DotsFrom(s, C)
               /\ E = OctetsFrom(s, D, FALSE) /\ F = DotsFrom(s, E)
               /\ DottedEnds(s, {0}, FALSE) = OctetsFrom(s, F, FALSE)
  BY <1>1, DottedSteps
<1>3. ASSUME NEW P \in V, NEW q \in OctetsFrom(s, P, FALSE)
      PROVE  \E p \in P : p \in 0..Len(s) /\ p < q /\ q <= p + 3 /\ RunIn(s, p, q, Digits)
  BY <1>3, OctetFacts
<1>4. ASSUME NEW P \in V, NEW q \in DotsFrom(s, P)
      PROVE  q - 1 \in P /\ q \in 1..Len(s) /\ s[q] = Dot
  BY <1>4, DotFacts
<1> HIDE DEF V
<1>5. PICK z \in F : z < Len(s) /\ Len(s) <= z + 3 /\ RunIn(s, z, Len(s), Digits)
  <2>1. Len(s) \in OctetsFrom(s, F, FALSE)
    BY <1>2, Zenon DEF ParseIP
  <2>2. QED
    BY <1>3, <2>1
<1>6. z - 1 \in E /\ z \in 1..Len(s) /\ s[z] = Dot
  BY <1>2, <1>4, <1>5
<1>7. PICK y \in D : y < z - 1 /\ z - 1 <= y + 3 /\ RunIn(s, y, z - 1, Digits)
  BY <1>2, <1>3, <1>6
<1>8. y - 1 \in C /\ y \in 1..Len(s) /\ s[y] = Dot
  BY <1>2, <1>4, <1>7
<1>9. PICK x \in B : x < y - 1 /\ y - 1 <= x + 3 /\ RunIn(s, x, y - 1, Digits)
  BY <1>2, <1>3, <1>8
<1>10. x - 1 \in A /\ x \in 1..Len(s) /\ s[x] = Dot
  BY <1>2, <1>4, <1>9
<1>11. 0 < x - 1 /\ x - 1 <= 3 /\ RunIn(s, 0, x - 1, Digits)
  <2>1. {0} \in V /\ x - 1 \in OctetsFrom(s, {0}, FALSE)
    BY <1>1, <1>2, <1>10, Zenon
  <2>2. PICK p \in {0} : p < x - 1 /\ x - 1 <= p + 3 /\ RunIn(s, p, x - 1, Digits)
    BY <1>3, <2>1
  <2>3. p = 0
    OBVIOUS
  <2>4. RunIn(s, 0, x - 1, Digits)
    BY <2>2, <2>3, Zenon
  <2>5. QED
    BY <2>2, <2>3, <2>4
<1>12. ASSUME NEW k \in 1..Len(s), k \notin {x, y, z} PROVE s[k] \in Digits
  <2>1. \/ k \in (0 + 1)..(x - 1) \/ k \in (x + 1)..(y - 1)
        \/ k \in (y + 1)..(z - 1) \/ k \in (z + 1)..Len(s)
    BY <1>1, <1>6, <1>8, <1>10, <1>12
  <2>2. QED
    BY <1>5, <1>7, <1>9, <1>11, <2>1 DEF RunIn
<1>13. /\ x <= 4 /\ x < y /\ y <= x + 4 /\ y < z /\ z <= y + 4 /\ Len(s) <= z + 3
  BY <1>1, <1>5, <1>6, <1>7, <1>8, <1>9, <1>10, <1>11
<1>14. QED
  BY <1>6, <1>8, <1>10, <1>12, <1>13

\* No four digits in a row.
LEMMA NoFourDigits ==
    ASSUME NEW s \in Seq(Int), ParseIP(s), NEW p \in 0..Len(s), p + 4 <= Len(s)
    PROVE  ~RunIn(s, p, p + 4, Digits)
<1>1. PICK x, y, z \in 1..Len(s) :
               /\ s[x] = Dot /\ s[y] = Dot /\ s[z] = Dot
               /\ x <= 4 /\ x < y /\ y <= x + 4 /\ y < z /\ z <= y + 4 /\ Len(s) <= z + 3
  BY ParsedFacts
<1>2. Len(s) \in Nat /\ Dot \notin Digits
  BY DEF Dot, Digits
<1>3. x \in (p + 1)..(p + 4) \/ y \in (p + 1)..(p + 4) \/ z \in (p + 1)..(p + 4)
  BY <1>1, <1>2
<1>4. QED
  BY <1>1, <1>2, <1>3 DEF RunIn

\* One item of a shape that fills the text from p to q.
Item(s, p, q, D, least, most) ==
    /\ p \in 0..Len(s) /\ q \in 0..Len(s) /\ p + least <= q /\ q <= p + most
    /\ RunIn(s, p, q, D)

ItemOf(s, p, q, item) == Item(s, p, q, item[1], item[2], item[3])

\* A shape that is the whole text cuts it into its items.
LEMMA WholeItems ==
    ASSUME NEW s \in Seq(Int), NEW shape, IsShape(shape), Whole(s, shape)
    PROVE  \E c \in [0..Len(shape) -> 0..Len(s)] :
               /\ c[0] = 0 /\ c[Len(shape)] = Len(s)
               /\ \A k \in 1..Len(shape) : ItemOf(s, c[k - 1], c[k], shape[k])
<1> DEFINE from == {0}
<1>1. from \in SUBSET (0..Len(s)) /\ Len(s) \in Nat /\ Len(shape) \in Nat
  BY DEF IsShape
<1>2. Len(s) \in EndsFrom(s, shape, from)
  BY DEF Whole
<1>3. \A x \in from : x = 0
  OBVIOUS
<1> HIDE DEF from
<1>4. CutTo(s, shape, from, Len(s))
  BY <1>1, <1>2, EndsAreCuts
<1>5. PICK c \in [0..Len(shape) -> 0..Len(s)] :
          c[0] \in from /\ c[Len(shape)] = Len(s) /\ Cuts(s, shape, c, Len(shape))
  BY <1>4 DEF CutTo
<1>6. ASSUME NEW k \in 1..Len(shape)
      PROVE  ItemOf(s, c[k - 1], c[k], shape[k])
  <2>1. k - 1 \in 0..Len(shape) /\ k \in 0..Len(shape)
    BY <1>1
  <2>2. c[k - 1] \in 0..Len(s) /\ c[k] \in 0..Len(s)
    BY <1>5, <2>1
  <2>3. QED
    BY <1>5, <2>2 DEF Cuts, Item, ItemOf
<1>7. QED
  BY <1>3, <1>5, <1>6

\* The runes that an item allows are all kept, or all dropped.
Within(D, S) == \A r \in D : r \in S
Apart(D, S) == \A r \in D : r \notin S

\* A run of runes that are dropped.
LEMMA RunAddsNothing ==
    ASSUME NEW s \in Seq(Int), NEW S, NEW D, NEW p \in 0..Len(s), NEW q \in 0..Len(s), p <= q,
           RunIn(s, p, q, D), Apart(D, S)
    PROVE  Kept(s, S)[q] = Kept(s, S)[p]
<1>1. \A j \in (p + 1)..q : s[j] \notin S
  BY DEF RunIn, Apart
<1>2. QED
  BY <1>1, RunDropped

-----------------------------------------------------------------------------
(* The two layouts of a phone.                                             *)

\* What stays of a phone once its spaces and its separators are gone.
PhoneRunes == Int \ (SpaceRunes \cup phoneFormat1Separators)

\* Digits and the plus stay; parentheses and spaces do not.
LEMMA PhoneRuneFacts ==
    /\ Within(Digits, PhoneRunes) /\ Within({Plus}, PhoneRunes)
    /\ Apart({LParen}, PhoneRunes) /\ Apart({RParen}, PhoneRunes)
    /\ Apart({Space}, PhoneRunes) /\ Apart(SpaceRunes, PhoneRunes)
BY DEF Within, Apart, PhoneRunes, SpaceRunes, Blanks, phoneFormat1Separators, Digits, Plus,
       LParen, RParen, Space, Dash, Dot

\* What an item of kept runes adds to the text, and what one of dropped runes
\* leaves.
LEMMA ItemKept ==
    ASSUME NEW s \in Seq(Int), NEW S, NEW p, NEW q, NEW D, NEW w \in Nat, NEW L \in Nat,
           Item(s, p, q, D, w, w), Within(D, S), Len(Kept(s, S)[p]) = L
    PROVE  /\ Len(Kept(s, S)[q]) = L + w
           /\ \A j \in (L + 1)..(L + w) : Keep(s, S)[j] \in D
<1>1. Len(s) \in Nat
  OBVIOUS
<1>2. p \in 0..Len(s) /\ q \in 0..Len(s) /\ p <= q /\ q - p = w /\ RunIn(s, p, q, D)
  BY <1>1 DEF Item
<1>3. RunIn(s, p, q, S)
  BY <1>2 DEF RunIn, Within
<1>4. /\ Len(Kept(s, S)[q]) = L + (q - p)
      /\ \A j \in 1..(q - p) : Keep(s, S)[L + j] = s[p + j]
  <2>1. Copied(s, S, p, q)
    BY <1>2, <1>3, RunKept
  <2>2. QED
    BY <2>1, Zenon DEF Copied
<1>5. ASSUME NEW j \in (L + 1)..(L + w) PROVE Keep(s, S)[j] \in D
  <2>1. j - L \in 1..(q - p) /\ L + (j - L) = j /\ p + (j - L) \in (p + 1)..q
    BY <1>1, <1>2
  <2>2. Keep(s, S)[L + (j - L)] = s[p + (j - L)]
    BY <1>4, <2>1
  <2>3. s[p + (j - L)] \in D
    BY <1>2, <2>1 DEF RunIn
  <2>4. QED
    BY <2>1, <2>2, <2>3
<1>6. QED
  BY <1>2, <1>4, <1>5

\* An item of dropped runes adds nothing.
LEMMA ItemDropped ==
    ASSUME NEW s \in Seq(Int), NEW S, NEW p, NEW q, NEW D, NEW lo \in Nat, NEW hi \in Nat,
           Item(s, p, q, D, lo, hi), Apart(D, S)
    PROVE  Kept(s, S)[q] = Kept(s, S)[p]
<1>1. Len(s) \in Nat
  OBVIOUS
<1>2. p \in 0..Len(s) /\ q \in 0..Len(s) /\ p <= q /\ RunIn(s, p, q, D)
  BY <1>1 DEF Item
<1>3. QED
  BY <1>2, RunAddsNothing

\* The items of a phone.
LEMMA SignDropped ==
    ASSUME NEW s \in Seq(Int), NEW p, NEW q, NEW r \in {Space, LParen, RParen},
           Item(s, p, q, {r}, 1, 1)
    PROVE  Kept(s, PhoneRunes)[q] = Kept(s, PhoneRunes)[p]
<1>1. Apart({r}, PhoneRunes)
  BY PhoneRuneFacts
<1>2. QED
  BY <1>1, ItemDropped

\* So a space between its groups adds nothing,
LEMMA SpaceDropped ==
    ASSUME NEW s \in Seq(Int), NEW p, NEW q, Item(s, p, q, {Space}, 1, 1)
    PROVE  Kept(s, PhoneRunes)[q] = Kept(s, PhoneRunes)[p]
BY SignDropped

\* the spaces around a phone add nothing,
LEMMA SpacesDropped ==
    ASSUME NEW s \in Seq(Int), NEW p, NEW q, Item(s, p, q, SpaceRunes, 0, Len(s))
    PROVE  Kept(s, PhoneRunes)[q] = Kept(s, PhoneRunes)[p]
<1>1. Apart(SpaceRunes, PhoneRunes) /\ Len(s) \in Nat /\ 0 \in Nat
  BY PhoneRuneFacts
<1>2. QED
  BY <1>1, ItemDropped

\* a group of its digits adds all of them,
LEMMA DigitsKept ==
    ASSUME NEW s \in Seq(Int), NEW p, NEW q, NEW w \in Nat, NEW L \in Nat,
           Item(s, p, q, Digits, w, w), Len(Kept(s, PhoneRunes)[p]) = L
    PROVE  /\ Len(Kept(s, PhoneRunes)[q]) = L + w
           /\ \A j \in (L + 1)..(L + w) : Keep(s, PhoneRunes)[j] \in Digits
<1>1. Within(Digits, PhoneRunes)
  BY PhoneRuneFacts
<1>2. QED
  BY <1>1, ItemKept

\* its parentheses add nothing,
LEMMA OpenDropped ==
    ASSUME NEW s \in Seq(Int), NEW p, NEW q, Item(s, p, q, {LParen}, 1, 1)
    PROVE  Kept(s, PhoneRunes)[q] = Kept(s, PhoneRunes)[p]
BY SignDropped

LEMMA CloseDropped ==
    ASSUME NEW s \in Seq(Int), NEW p, NEW q, Item(s, p, q, {RParen}, 1, 1)
    PROVE  Kept(s, PhoneRunes)[q] = Kept(s, PhoneRunes)[p]
BY SignDropped

\* and its plus comes first.
LEMMA PlusKept ==
    ASSUME NEW s \in Seq(Int), NEW p, NEW q, Item(s, p, q, {Plus}, 1, 1),
           Len(Kept(s, PhoneRunes)[p]) = 0
    PROVE  Len(Kept(s, PhoneRunes)[q]) = 1 /\ Keep(s, PhoneRunes)[1] = Plus
<1> DEFINE S == PhoneRunes
           D == {Plus}
<1>1. Within(D, S) /\ Item(s, p, q, D, 1, 1) /\ Len(Kept(s, S)[p]) = 0
  BY PhoneRuneFacts
<1>2. \A r \in D : r = Plus
  OBVIOUS
<1> HIDE DEF D, S
<1>3. Len(Kept(s, S)[q]) = 0 + 1 /\ \A j \in (0 + 1)..(0 + 1) : Keep(s, S)[j] \in D
  BY <1>1, ItemKept
<1>4. QED
  BY <1>2, <1>3 DEF S

\* The last three groups of digits.
LEMMA TailKept ==
    ASSUME NEW s \in Seq(Int), NEW a, NEW b, NEW c, NEW d, NEW e, NEW f, NEW g,
           Item(s, a, b, {Space}, 1, 1), Item(s, b, c, Digits, 2, 2),
           Item(s, c, d, {Space}, 1, 1), Item(s, d, e, Digits, 3, 3),
           Item(s, e, f, {Space}, 1, 1), Item(s, f, g, Digits, 4, 4),
           Item(s, g, Len(s), SpaceRunes, 0, Len(s)),
           Len(Kept(s, PhoneRunes)[a]) = 3
    PROVE  /\ Len(Keep(s, PhoneRunes)) = 12
           /\ \A j \in 4..12 : Keep(s, PhoneRunes)[j] \in Digits
<1> DEFINE L(k) == Len(Kept(s, PhoneRunes)[k])
           K == Keep(s, PhoneRunes)
<1>1. /\ Kept(s, PhoneRunes)[b] = Kept(s, PhoneRunes)[a]
      /\ Kept(s, PhoneRunes)[d] = Kept(s, PhoneRunes)[c]
      /\ Kept(s, PhoneRunes)[f] = Kept(s, PhoneRunes)[e]
  <2>1. Kept(s, PhoneRunes)[b] = Kept(s, PhoneRunes)[a]
    BY SpaceDropped
  <2>2. Kept(s, PhoneRunes)[d] = Kept(s, PhoneRunes)[c]
    BY SpaceDropped
  <2>3. Kept(s, PhoneRunes)[f] = Kept(s, PhoneRunes)[e]
    BY SpaceDropped
  <2>4. QED
    BY <2>1, <2>2, <2>3
<1>2. Kept(s, PhoneRunes)[Len(s)] = Kept(s, PhoneRunes)[g]
  BY SpacesDropped
<1>3. L(c) = 3 + 2 /\ \A j \in (3 + 1)..(3 + 2) : K[j] \in Digits
  BY <1>1, DigitsKept
<1>4. L(e) = 5 + 3 /\ \A j \in (5 + 1)..(5 + 3) : K[j] \in Digits
  <2>1. L(d) = 5
    BY <1>1, <1>3
  <2>2. QED
    BY <2>1, DigitsKept
<1>5. L(g) = 8 + 4 /\ \A j \in (8 + 1)..(8 + 4) : K[j] \in Digits
  <2>1. L(f) = 8
    BY <1>1, <1>4
  <2>2. QED
    BY <2>1, DigitsKept
<1>6. \A j \in 4..12 : j \in 4..5 \/ j \in 6..8 \/ j \in 9..12
  OBVIOUS
<1>7. \A j \in 4..12 : K[j] \in Digits
  BY <1>3, <1>4, <1>5, <1>6
<1>8. Len(K) = 12
  BY <1>2, <1>5 DEF Keep
<1>9. QED
  BY <1>7, <1>8

\* A text that keeps a plus and eleven digits is a phone in the flexible layout.
LEMMA FlexiblePhone ==
    ASSUME NEW s \in Seq(Int), Len(Keep(s, PhoneRunes)) = 12, Keep(s, PhoneRunes)[1] = Plus,
           \A j \in 2..12 : Keep(s, PhoneRunes)[j] \in Digits
    PROVE  matchPhoneFormat1(stripChars(SpaceRunes, s))
<1> DEFINE K == Keep(s, PhoneRunes)
<1>1. stripChars(phoneFormat1Separators, stripChars(SpaceRunes, s)) = K
  <2> DEFINE A == Int \ phoneFormat1Separators
             B == Int \ SpaceRunes
             C == PhoneRunes
  <2>1. \A r \in Int : r \in C <=> r \in A /\ r \in B
    BY DEF PhoneRunes
  <2> HIDE DEF A, B, C
  <2>2. Keep(Keep(s, B), A) = Keep(s, C)
    BY <2>1, KeepTwice
  <2>3. QED
    BY <2>2 DEF A, B, C, stripChars
<1>2. K \in Seq(Int)
  BY KeepFacts
<1> HIDE DEF K
<1>3. Len(K) = 12 /\ K[1] = Plus /\ \A j \in 2..12 : K[j] \in Digits
  BY DEF K
<1>4. K # <<>> /\ Tail(K) \in Seq(Int) /\ Len(Tail(K)) = 11 /\ \A j \in 1..11 : Tail(K)[j] = K[j + 1]
  <2>1. K # <<>>
    <3>1. Len(K) = 12
      BY <1>3
    <3>2. Len(<<>>) = 0 /\ 12 # 0
      OBVIOUS
    <3>3. QED
      BY <3>1, <3>2, Zenon
  <2>2. Tail(K) \in Seq(Int) /\ Len(Tail(K)) = Len(K) - 1 /\ 12 - 1 = 11
    BY <1>2, <2>1, HeadTailProperties
  <2>3. \A j \in 1..Len(Tail(K)) : Tail(K)[j] = K[j + 1]
    BY <1>2, <2>1, HeadTailProperties
  <2>4. QED
    BY <1>3, <2>1, <2>2, <2>3, Zenon
<1>5. isAllDigits(Tail(K))
  <2>1. DOMAIN Tail(K) = 1..11
    BY <1>4, LenProperties
  <2>2. \A j \in 1..11 : j + 1 \in 2..12
    OBVIOUS
  <2>3. QED
    BY <1>3, <1>4, <2>1, <2>2 DEF isAllDigits, isDigit
<1>6. Len(Tail(K)) \in 10..13
  BY <1>4
<1>7. QED
  BY <1>1, <1>3, <1>4, <1>5, <1>6 DEF matchPhoneFormat1

\* A shape made of a front and a tail between two items w.
Frames(T, shape, w, front, tail) ==
    /\ shape \in Seq(T) /\ Len(shape) = Len(front) + Len(tail) + 2
    /\ shape[1] = w /\ shape[Len(front) + Len(tail) + 2] = w
    /\ \A k \in 1..Len(front) : shape[k + 1] = front[k]
    /\ \A k \in 1..Len(tail) : shape[Len(front) + k + 1] = tail[k]

\* The items of a shape between spaces.
LEMMA Framed ==
    ASSUME NEW T, NEW w \in T, NEW front \in Seq(T), NEW tail \in Seq(T),
           NEW shape, shape = <<w>> \o (front \o tail) \o <<w>>
    PROVE  Frames(T, shape, w, front, tail)
<1> DEFINE x == <<w>>
           y == front \o tail
           z == x \o y
<1>1. /\ y \in Seq(T) /\ Len(y) = Len(front) + Len(tail) /\ Len(front) \in Nat /\ Len(tail) \in Nat
      /\ \A k \in 1..(Len(front) + Len(tail)) :
            y[k] = IF k <= Len(front) THEN front[k] ELSE tail[k - Len(front)]
  BY ConcatProperties, LenProperties
<1>2. x \in Seq(T) /\ Len(x) = 1 /\ x[1] = w
  OBVIOUS
<1>3. x \in Seq(T) /\ y \in Seq(T)
  BY <1>1, <1>2
<1> HIDE DEF x, y
<1>4. /\ z \in Seq(T) /\ Len(z) = Len(x) + Len(y)
      /\ \A k \in 1..(Len(x) + Len(y)) : z[k] = IF k <= Len(x) THEN x[k] ELSE y[k - Len(x)]
  BY <1>3, ConcatProperties
<1>5. z \in Seq(T)
  BY <1>4
<1>6. shape = z \o x
  BY DEF x, y
<1> HIDE DEF z
<1>7. /\ shape \in Seq(T) /\ Len(shape) = Len(z) + Len(x)
      /\ \A k \in 1..(Len(z) + Len(x)) : shape[k] = IF k <= Len(z) THEN z[k] ELSE x[k - Len(z)]
  <2>1. /\ z \o x \in Seq(T) /\ Len(z \o x) = Len(z) + Len(x)
        /\ \A k \in 1..(Len(z) + Len(x)) : (z \o x)[k] = IF k <= Len(z) THEN z[k] ELSE x[k - Len(z)]
    BY <1>3, <1>5, ConcatProperties
  <2>2. QED
    BY <1>6, <2>1, Zenon
<1> HIDE <1>6
<1>8. Len(shape) = Len(front) + Len(tail) + 2
  BY <1>1, <1>2, <1>4, <1>7
<1>9. shape[1] = w /\ shape[Len(front) + Len(tail) + 2] = w
  BY <1>1, <1>2, <1>4, <1>7
<1>10. ASSUME NEW k \in 1..(Len(front) + Len(tail)) PROVE shape[k + 1] = y[k]
  BY <1>1, <1>2, <1>4, <1>7
<1>11. \A k \in 1..Len(front) : shape[k + 1] = front[k]
  BY <1>1, <1>10
<1>12. ASSUME NEW k \in 1..Len(tail) PROVE shape[Len(front) + k + 1] = tail[k]
  <2>1. /\ Len(front) + k \in 1..(Len(front) + Len(tail)) /\ ~(Len(front) + k <= Len(front))
        /\ (Len(front) + k) - Len(front) = k
    BY <1>1
  <2>2. QED
    BY <1>1, <1>10, <2>1
<1>13. QED
  BY <1>7, <1>8, <1>9, <1>11, <1>12 DEF Frames

\* The items of regular expressions.
Items == (SUBSET Int) \X Nat \X Nat

\* The components of an item, and the shapes made of items.
LEMMA ItemFacts ==
    /\ \A D, m : /\ One(D)[1] = D /\ One(D)[2] = 1 /\ One(D)[3] = 1
                 /\ Many(D, m)[1] = D /\ Many(D, m)[2] = m /\ Many(D, m)[3] = m
    /\ \A D \in SUBSET Int : One(D) \in Items /\ \A m \in Nat : Many(D, m) \in Items
    /\ \A shape \in Seq(Items) : IsShape(shape)
<1>1. \A D, m : /\ One(D)[1] = D /\ One(D)[2] = 1 /\ One(D)[3] = 1
                /\ Many(D, m)[1] = D /\ Many(D, m)[2] = m /\ Many(D, m)[3] = m
  BY DEF One, Many
<1>2. \A D \in SUBSET Int : One(D) \in Items /\ \A m \in Nat : Many(D, m) \in Items
  BY DEF One, Many, Items
<1>3. ASSUME NEW shape \in Seq(Items) PROVE IsShape(shape)
  <2>1. ASSUME NEW k \in 1..Len(shape) PROVE shape[k][2] \in Nat /\ shape[k][3] \in Nat
    <3>1. shape[k] \in Items
      OBVIOUS
    <3>2. QED
      BY <3>1 DEF Items
  <2>2. Len(shape) \in Nat
    OBVIOUS
  <2>3. QED
    BY <2>1, <2>2 DEF IsShape
<1>4. QED
  BY <1>1, <1>2, <1>3

\* An item that has a fixed number of runes.
LEMMA ItemAs ==
    ASSUME NEW s, NEW p, NEW q, NEW D
    PROVE  /\ ItemOf(s, p, q, One(D)) <=> Item(s, p, q, D, 1, 1)
           /\ \A m : ItemOf(s, p, q, Many(D, m)) <=> Item(s, p, q, D, m, m)
<1>1. /\ One(D)[1] = D /\ One(D)[2] = 1 /\ One(D)[3] = 1
      /\ \A m : Many(D, m)[1] = D /\ Many(D, m)[2] = m /\ Many(D, m)[3] = m
  BY ItemFacts
<1>2. QED
  BY <1>1, Zenon DEF ItemOf

\* A phone whose groups but the first follow the European layout.
LEMMA EuropeanCuts ==
    ASSUME NEW s \in Seq(Int), NEW front \in Seq(Items), TrimmedIs(s, front \o europeanTail)
    PROVE  \E c \in [0..(Len(front) + 1) -> 0..Len(s)] :
               /\ c[0] = 0 /\ Item(s, 0, c[1], SpaceRunes, 0, Len(s))
               /\ \A k \in 1..Len(front) : ItemOf(s, c[k], c[k + 1], front[k])
               /\ Len(Kept(s, PhoneRunes)[c[Len(front) + 1]]) = 3 =>
                     /\ Len(Keep(s, PhoneRunes)) = 12
                     /\ \A j \in 4..12 : Keep(s, PhoneRunes)[j] \in Digits
<1> DEFINE w == <<SpaceRunes, 0, Len(s)>>
           tail == europeanTail
           shape == <<w>> \o (front \o tail) \o <<w>>
           f == Len(front)
<1>1. Len(s) \in Nat /\ f \in Nat /\ w[1] = SpaceRunes /\ w[2] = 0 /\ w[3] = Len(s)
  OBVIOUS
<1>2. w \in Items /\ tail \in Seq(Items) /\ Len(tail) = 6
  <2>1. SpaceRunes \in SUBSET Int /\ Digits \in SUBSET Int /\ {Space} \in SUBSET Int
    <3>1. Blanks \cup {-37} \in SUBSET Int
      BY DEF Blanks, Space
    <3>2. \A c \in {133, 160, 5760, 8232, 8233, 8239, 8287, 12288} \cup (8192..8202) : c - 48 \in Int
      OBVIOUS
    <3>3. ASSUME NEW r \in SpaceRunes PROVE r \in Int
      BY <3>1, <3>2 DEF SpaceRunes
    <3>4. QED
      BY <3>3 DEF Digits, Space
  <2>2. One({Space}) \in Items /\ Many(Digits, 2) \in Items /\ Many(Digits, 3) \in Items
        /\ Many(Digits, 4) \in Items
    BY <2>1, ItemFacts
  <2>3. w \in Items
    BY <1>1, <2>1 DEF Items
  <2>4. QED
    BY <2>2, <2>3 DEF europeanTail
<1>3. /\ tail[1] = One({Space}) /\ tail[2] = Many(Digits, 2) /\ tail[3] = One({Space})
      /\ tail[4] = Many(Digits, 3) /\ tail[5] = One({Space}) /\ tail[6] = Many(Digits, 4)
  BY DEF europeanTail
<1>4. Whole(s, shape)
  BY Zenon DEF TrimmedIs
<1>5. shape = <<w>> \o (front \o tail) \o <<w>>
  OBVIOUS
<1> HIDE DEF w, tail, shape
<1>6. /\ shape \in Seq(Items) /\ Len(shape) = Len(front) + Len(tail) + 2
      /\ shape[1] = w /\ shape[Len(front) + Len(tail) + 2] = w
      /\ \A k \in 1..Len(front) : shape[k + 1] = front[k]
      /\ \A k \in 1..Len(tail) : shape[Len(front) + k + 1] = tail[k]
  <2>1. w \in Items /\ front \in Seq(Items) /\ tail \in Seq(Items)
    BY <1>2
  <2>2. Frames(Items, shape, w, front, tail)
    BY <1>5, <2>1, Framed
  <2>3. QED
    BY <2>2, Zenon DEF Frames
<1>7. PICK c \in [0..Len(shape) -> 0..Len(s)] :
               /\ c[0] = 0 /\ c[Len(shape)] = Len(s)
               /\ \A k \in 1..Len(shape) : ItemOf(s, c[k - 1], c[k], shape[k])
  <2>1. IsShape(shape)
    BY <1>6, ItemFacts
  <2>2. QED
    BY <1>4, <2>1, WholeItems
<1> HIDE DEF f
<1>8. /\ Len(shape) = f + 8 /\ shape[1] = w /\ shape[f + 8] = w
      /\ \A k \in 1..f : shape[k + 1] = front[k]
      /\ \A k \in 1..6 : shape[f + k + 1] = tail[k]
  BY <1>1, <1>2, <1>6 DEF f
<1>9. ASSUME NEW p, NEW q
      PROVE  /\ ItemOf(s, p, q, w) <=> Item(s, p, q, SpaceRunes, 0, Len(s))
             /\ ItemOf(s, p, q, One({Space})) <=> Item(s, p, q, {Space}, 1, 1)
             /\ \A m : ItemOf(s, p, q, Many(Digits, m)) <=> Item(s, p, q, Digits, m, m)
  BY <1>1, ItemFacts, Zenon DEF ItemOf
<1>10. Item(s, 0, c[1], SpaceRunes, 0, Len(s))
  <2>1. ItemOf(s, c[1 - 1], c[1], shape[1])
    BY <1>1, <1>7, <1>8
  <2>2. c[1 - 1] = 0
    BY <1>7
  <2>3. QED
    BY <1>8, <1>9, <2>1, <2>2, Zenon
<1>11. ASSUME NEW k \in 1..(f + 7) PROVE ItemOf(s, c[k], c[k + 1], shape[k + 1])
  <2>1. k + 1 \in 1..Len(shape) /\ (k + 1) - 1 = k
    BY <1>1, <1>8
  <2>2. QED
    BY <1>7, <2>1
<1>12. \A k \in 1..f : ItemOf(s, c[k], c[k + 1], front[k])
  BY <1>1, <1>8, <1>11
<1>13. ASSUME NEW k \in 1..6 PROVE ItemOf(s, c[f + k], c[f + k + 1], tail[k])
  <2>1. f + k \in 1..(f + 7)
    BY <1>1
  <2>2. QED
    BY <1>8, <1>11, <2>1
<1>14. ItemOf(s, c[f + 7], Len(s), w)
  <2>1. f + 7 \in 1..(f + 7) /\ (f + 7) + 1 = f + 8
    BY <1>1
  <2>2. QED
    BY <1>7, <1>8, <1>11, <2>1
<1>15. /\ ItemOf(s, c[f + 1], c[f + 2], tail[1]) /\ ItemOf(s, c[f + 2], c[f + 3], tail[2])
       /\ ItemOf(s, c[f + 3], c[f + 4], tail[3]) /\ ItemOf(s, c[f + 4], c[f + 5], tail[4])
       /\ ItemOf(s, c[f + 5], c[f + 6], tail[5]) /\ ItemOf(s, c[f + 6], c[f + 7], tail[6])
  <2>1. /\ f + 1 + 1 = f + 2 /\ f + 2 + 1 = f + 3 /\ f + 3 + 1 = f + 4 /\ f + 4 + 1 = f + 5
        /\ f + 5 + 1 = f + 6 /\ f + 6 + 1 = f + 7
        /\ 1 \in 1..6 /\ 2 \in 1..6 /\ 3 \in 1..6 /\ 4 \in 1..6 /\ 5 \in 1..6 /\ 6 \in 1..6
    BY <1>1
  <2>2. QED
    BY <1>13, <2>1, Zenon
<1>16. Len(Kept(s, PhoneRunes)[c[f + 1]]) = 3 =>
           Len(Keep(s, PhoneRunes)) = 12 /\ \A j \in 4..12 : Keep(s, PhoneRunes)[j] \in Digits
  <2>1. /\ Item(s, c[f + 1], c[f + 2], {Space}, 1, 1) /\ Item(s, c[f + 2], c[f + 3], Digits, 2, 2)
        /\ Item(s, c[f + 3], c[f + 4], {Space}, 1, 1) /\ Item(s, c[f + 4], c[f + 5], Digits, 3, 3)
        /\ Item(s, c[f + 5], c[f + 6], {Space}, 1, 1) /\ Item(s, c[f + 6], c[f + 7], Digits, 4, 4)
        /\ Item(s, c[f + 7], Len(s), SpaceRunes, 0, Len(s))
    BY <1>3, <1>9, <1>14, <1>15, Zenon
  <2>2. QED
    BY <2>1, TailKept, Zenon
<1>17. QED
  <2> DEFINE d == [k \in 0..(f + 1) |-> c[k]]
  <2>1. d \in [0..(f + 1) -> 0..Len(s)]
    BY <1>1, <1>7, <1>8
  <2>2. d[0] = 0 /\ d[1] = c[1] /\ d[f + 1] = c[f + 1]
    BY <1>1, <1>7
  <2>3. \A k \in 1..f : d[k] = c[k] /\ d[k + 1] = c[k + 1]
    BY <1>1
  <2> HIDE DEF d
  <2>4. \A k \in 1..f : ItemOf(s, d[k], d[k + 1], front[k])
    BY <1>12, <2>3
  <2>5. QED
    BY <1>10, <1>16, <2>1, <2>2, <2>4 DEF f

\* A phone in the European layout, with its country code in parentheses or not,
\* is one in the flexible layout once its spaces are gone.
LEMMA EuropeanIsFlexible ==
    ASSUME NEW s \in Seq(Int), matchPhoneFormat2(s)
    PROVE  matchPhoneFormat1(stripChars(SpaceRunes, s))
<1> DEFINE P == PhoneRunes
<1>1. Kept(s, P)[0] = <<>> /\ Len(<<>>) = 0
  BY KeptDef
<1>2. /\ One({LParen}) \in Items /\ One({Plus}) \in Items /\ One({RParen}) \in Items
      /\ Many(Digits, 2) \in Items
  <2>1. /\ {LParen} \in SUBSET Int /\ {Plus} \in SUBSET Int /\ {RParen} \in SUBSET Int
        /\ Digits \in SUBSET Int
    BY DEF LParen, Plus, RParen, Digits
  <2>2. QED
    BY <2>1, ItemFacts
<1>3. Within({Plus}, P)
  BY PhoneRuneFacts
<1>4. ASSUME NEW p, NEW q, NEW z, Len(Kept(s, P)[p]) = 0,
             ItemOf(s, p, q, One({Plus})), ItemOf(s, q, z, Many(Digits, 2))
      PROVE  /\ Len(Kept(s, P)[z]) = 3 /\ Keep(s, P)[1] = Plus
             /\ \A j \in 2..3 : Keep(s, P)[j] \in Digits
  <2>1. Item(s, p, q, {Plus}, 1, 1) /\ Item(s, q, z, Digits, 2, 2)
    BY <1>4, ItemAs, Zenon
  <2>2. Len(Kept(s, P)[q]) = 1 /\ Keep(s, P)[1] = Plus
    BY <1>4, <2>1, PlusKept
  <2>3. Len(Kept(s, P)[z]) = 1 + 2 /\ \A j \in (1 + 1)..(1 + 2) : Keep(s, P)[j] \in Digits
    BY <2>1, <2>2, DigitsKept
  <2>4. QED
    BY <2>2, <2>3
<1>5. ASSUME Len(Keep(s, P)) = 12, Keep(s, P)[1] = Plus,
             \A j \in 2..3 : Keep(s, P)[j] \in Digits, \A j \in 4..12 : Keep(s, P)[j] \in Digits
      PROVE  matchPhoneFormat1(stripChars(SpaceRunes, s))
  <2>1. \A j \in 2..12 : j \in 2..3 \/ j \in 4..12
    OBVIOUS
  <2>2. \A j \in 2..12 : Keep(s, P)[j] \in Digits
    BY <1>5, <2>1
  <2>3. QED
    BY <1>5, <2>2, FlexiblePhone
<1>6. CASE validatePhoneFormat2Plus(s)
  <2> DEFINE front == <<One({Plus}), Many(Digits, 2)>>
  <2>1. front \in Seq(Items) /\ Len(front) = 2 /\ front[1] = One({Plus}) /\ front[2] = Many(Digits, 2)
    BY <1>2
  <2>2. TrimmedIs(s, front \o europeanTail)
    BY <1>6 DEF validatePhoneFormat2Plus
  <2> HIDE DEF front
  <2>3. PICK c \in [0..(Len(front) + 1) -> 0..Len(s)] :
               /\ c[0] = 0 /\ Item(s, 0, c[1], SpaceRunes, 0, Len(s))
               /\ \A k \in 1..Len(front) : ItemOf(s, c[k], c[k + 1], front[k])
               /\ Len(Kept(s, P)[c[Len(front) + 1]]) = 3 =>
                     /\ Len(Keep(s, P)) = 12
                     /\ \A j \in 4..12 : Keep(s, P)[j] \in Digits
    BY <2>1, <2>2, EuropeanCuts
  <2>4. 1 \in 1..Len(front) /\ 2 \in 1..Len(front) /\ 1 + 1 = 2 /\ 2 + 1 = 3 /\ Len(front) + 1 = 3
    BY <2>1
  <2>5. ItemOf(s, c[1], c[2], One({Plus})) /\ ItemOf(s, c[2], c[3], Many(Digits, 2))
    BY <2>1, <2>3, <2>4, Zenon
  <2>6. Kept(s, P)[c[1]] = Kept(s, P)[0]
    BY <2>3, SpacesDropped
  <2>7. Len(Kept(s, P)[c[1]]) = 0
    BY <1>1, <2>6, Zenon
  <2>8. QED
    BY <1>4, <1>5, <2>3, <2>4, <2>5, <2>7, Zenon
<1>7. CASE validatePhoneFormat2Parenthetical(s)
  <2> DEFINE front == <<One({LParen}), One({Plus}), Many(Digits, 2), One({RParen})>>
  <2>1. /\ front \in Seq(Items) /\ Len(front) = 4 /\ front[1] = One({LParen})
        /\ front[2] = One({Plus}) /\ front[3] = Many(Digits, 2) /\ front[4] = One({RParen})
    BY <1>2
  <2>2. TrimmedIs(s, front \o europeanTail)
    BY <1>7 DEF validatePhoneFormat2Parenthetical
  <2> HIDE DEF front
  <2>3. PICK c \in [0..(Len(front) + 1) -> 0..Len(s)] :
               /\ c[0] = 0 /\ Item(s, 0, c[1], SpaceRunes, 0, Len(s))
               /\ \A k \in 1..Len(front) : ItemOf(s, c[k], c[k + 1], front[k])
               /\ Len(Kept(s, P)[c[Len(front) + 1]]) = 3 =>
                     /\ Len(Keep(s, P)) = 12
                     /\ \A j \in 4..12 : Keep(s, P)[j] \in Digits
    BY <2>1, <2>2, EuropeanCuts
  <2>4. /\ 1 \in 1..Len(front) /\ 2 \in 1..Len(front) /\ 3 \in 1..Len(front) /\ 4 \in 1..Len(front)
        /\ 1 + 1 = 2 /\ 2 + 1 = 3 /\ 3 + 1 = 4 /\ 4 + 1 = 5 /\ Len(front) + 1 = 5
    BY <2>1
  <2>5. /\ ItemOf(s, c[1], c[2], One({LParen})) /\ ItemOf(s, c[2], c[3], One({Plus}))
        /\ ItemOf(s, c[3], c[4], Many(Digits, 2)) /\ ItemOf(s, c[4], c[5], One({RParen}))
    BY <2>1, <2>3, <2>4, Zenon
  <2>6. Kept(s, P)[c[1]] = Kept(s, P)[0]
    BY <2>3, SpacesDropped
  <2>7. Item(s, c[1], c[2], {LParen}, 1, 1) /\ Item(s, c[4], c[5], {RParen}, 1, 1)
    BY <2>5, ItemAs, Zenon
  <2>8. Kept(s, P)[c[2]] = Kept(s, P)[c[1]] /\ Kept(s, P)[c[5]] = Kept(s, P)[c[4]]
    <3>1. Kept(s, P)[c[2]] = Kept(s, P)[c[1]]
      <4> DEFINE p == c[1]
                 q == c[2]
      <4>1. Item(s, p, q, {LParen}, 1, 1)
        BY <2>7
      <4> HIDE DEF p, q
      <4>2. Kept(s, P)[q] = Kept(s, P)[p]
        BY <4>1, OpenDropped
      <4>3. QED
        BY <4>2 DEF p, q
    <3>2. Kept(s, P)[c[5]] = Kept(s, P)[c[4]]
      <4> DEFINE p == c[4]
                 q == c[5]
      <4>1. Item(s, p, q, {RParen}, 1, 1)
        BY <2>7
      <4> HIDE DEF p, q
      <4>2. Kept(s, P)[q] = Kept(s, P)[p]
        BY <4>1, CloseDropped
      <4>3. QED
        BY <4>2 DEF p, q
    <3>3. QED
      BY <3>1, <3>2
  <2>9. Len(Kept(s, P)[c[2]]) = 0
    BY <1>1, <2>6, <2>8, Zenon
  <2>10. QED
    <3>1. /\ Len(Kept(s, P)[c[4]]) = 3 /\ Keep(s, P)[1] = Plus
          /\ \A j \in 2..3 : Keep(s, P)[j] \in Digits
      BY <1>4, <2>5, <2>9, Zenon
    <3>2. Len(Kept(s, P)[c[Len(front) + 1]]) = 3
      BY <2>4, <2>8, <3>1, Zenon
    <3>3. Len(Keep(s, P)) = 12 /\ \A j \in 4..12 : Keep(s, P)[j] \in Digits
      BY <2>3, <3>2, Zenon
    <3>4. QED
      BY <1>5, <3>1, <3>3, Zenon
<1>8. QED
  BY <1>6, <1>7 DEF matchPhoneFormat2

\* The functions of regex.go that look for the same thing agree.
LEMMA TextVersionsAgree ==
    ASSUME NEW s \in Seq(Int)
    PROVE  /\ (MatchUUID(s) \/ MatchUUIDV3(s) \/ MatchUUIDV4(s) \/ MatchUUIDV5(s)) => Matchguid(s)
           /\ matchPhoneFormat2(s) => matchPhoneFormat1(stripChars(SpaceRunes, s))
           /\ IPMatcher(s) <=> IPv4Matcher(s)
           /\ BrazilianPIIMatcher(s) <=> (CPFMatcher(s) \/ CNPJMatcher(s))
<1>1. stripChars(especialChars, s) \in Seq(Int)
  BY KeepFacts DEF stripChars
<1>2. ParseIP(stripChars(especialChars, s)) => ipv4Match(stripChars(especialChars, s))
  BY <1>1, ParsedIsFound
<1>3. IPMatcher(s) <=> IPv4Matcher(s)
  BY <1>2 DEF IPMatcher, IPv4Matcher, MatchIP, MatchIPV4
<1>4. BrazilianPIIMatcher(s) <=> (CPFMatcher(s) \/ CNPJMatcher(s))
  BY DEF BrazilianPIIMatcher, CPFMatcher, CNPJMatcher
<1>5. QED
  BY <1>3, <1>4, UUIDsAreGUIDs, EuropeanIsFlexible

-----------------------------------------------------------------------------
(* The length in bytes.                                                    *)

\* The length in bytes is the one its recursive definition describes.
LEMMA BytesDef ==
    ASSUME NEW s \in Seq(Int)
    PROVE  /\ Bytes(s)[0] = 0
           /\ \A k \in 0..Len(s) : Bytes(s)[k] \in Nat
           /\ \A k \in 1..Len(s) : Bytes(s)[k] = Bytes(s)[k - 1] + RuneBytes(s[k])
<1> DEFINE m == Len(s)
           Step(q, k) == q + RuneBytes(s[k])
           F == [x \in (1..m) \X Nat |-> Step(x[2], x[1])]
           Def(f) == f = [k \in 0..m |-> IF k = 0 THEN 0 ELSE Step(f[k - 1], k)]
           T == Bytes(s)
<1>1. m \in Nat
  OBVIOUS
<1>2. ASSUME NEW q \in Nat, NEW k \in 1..m PROVE Step(q, k) \in Nat
  BY DEF RuneBytes
<1>3. (\E f : Def(f)) => Def(T)
  BY Zenon DEF Bytes
<1> HIDE DEF m, Step, T
<1>4. F \in [(1..m) \X Nat -> Nat]
  BY <1>2
<1>5. PICK f \in [0..m -> Nat] : Iterates(f, m, 0, F)
  <2>1. 0 \in Nat
    OBVIOUS
  <2> HIDE DEF F
  <2>2. QED
    BY <1>1, <1>4, <2>1, IterationExists
<1>6. ASSUME NEW k \in 1..m PROVE f[k] = Step(f[k - 1], k)
  <2>1. k - 1 \in 0..m
    BY <1>1
  <2>2. f[k] = F[<<k, f[k - 1]>>] /\ <<k, f[k - 1]>> \in (1..m) \X Nat
    BY <1>5, <2>1 DEF Iterates
  <2>3. QED
    BY <2>2
<1>7. Def(f)
  BY <1>1, <1>5, <1>6 DEF Iterates
<1>8. Def(T)
  <2> HIDE DEF Def
  <2>1. QED
    BY <1>3, <1>7
<1>9. T[0] = 0 /\ \A k \in 1..m : T[k] = Step(T[k - 1], k)
  BY <1>1, <1>8
<1>10. \A k \in 0..m : T[k] \in Nat
  <2> DEFINE G == {k \in 0..m : T[k] \in Nat}
  <2>1. 0 \in G
    BY <1>1, <1>9
  <2>2. ASSUME NEW k \in 0..(m - 1), k \in G PROVE k + 1 \in G
    <3>1. k + 1 \in 1..m /\ (k + 1) - 1 = k /\ T[k] \in Nat
      BY <1>1, <2>2
    <3>2. T[k + 1] = Step(T[k], k + 1)
      BY <1>9, <3>1
    <3>3. T[k + 1] \in Nat
      BY <1>2, <3>1, <3>2
    <3>4. QED
      BY <1>1, <3>1, <3>3
  <2> HIDE DEF G
  <2>3. \A k \in 0..m : k \in G
    BY <1>1, <2>1, <2>2, UpTo
  <2>4. QED
    BY <2>3 DEF G
<1>11. QED
  BY <1>9, <1>10 DEF T, m, Step

\* A text has at least as many bytes as runes, and no more when they are ASCII.
LEMMA ByteLenFacts ==
    ASSUME NEW s \in Seq(Int)
    PROVE  /\ byteLen(s) \in Nat /\ Len(s) <= byteLen(s)
           /\ (\A k \in 1..Len(s) : RuneBytes(s[k]) = 1) => byteLen(s) = Len(s)
<1> DEFINE T == Bytes(s)
           m == Len(s)
           ascii == \A k \in 1..m : RuneBytes(s[k]) = 1
           G == {k \in 0..m : k <= T[k] /\ (ascii => T[k] = k)}
<1>1. /\ m \in Nat /\ T[0] = 0 /\ \A k \in 0..m : T[k] \in Nat
      /\ \A k \in 1..m : T[k] = T[k - 1] + RuneBytes(s[k])
  BY BytesDef
<1>2. \A k \in 1..m : RuneBytes(s[k]) \in 1..4
  BY DEF RuneBytes
<1>3. \A k \in 1..m : ascii => RuneBytes(s[k]) = 1
  OBVIOUS
<1> HIDE DEF T, ascii, m
<1>4. 0 \in G
  BY <1>1
<1>5. ASSUME NEW k \in 0..(m - 1), k \in G PROVE k + 1 \in G
  <2>1. /\ k + 1 \in 1..m /\ (k + 1) - 1 = k /\ k \in 0..m /\ T[k] \in Nat
        /\ k <= T[k] /\ (ascii => T[k] = k)
    BY <1>1, <1>5
  <2>2. T[k + 1] = T[k] + RuneBytes(s[k + 1]) /\ RuneBytes(s[k + 1]) \in 1..4
    BY <1>1, <1>2, <2>1
  <2>3. k + 1 <= T[k + 1]
    BY <2>1, <2>2
  <2>4. ascii => T[k + 1] = k + 1
    BY <1>3, <2>1, <2>2
  <2>5. QED
    BY <1>1, <2>1, <2>3, <2>4
<1>6. m <= T[m] /\ (ascii => T[m] = m)
  <2> HIDE DEF G
  <2>1. \A k \in 0..m : k \in G
    BY <1>1, <1>4, <1>5, UpTo
  <2>2. QED
    BY <1>1, <2>1 DEF G
<1>7. T[m] \in Nat
  BY <1>1
<1>8. QED
  BY <1>6, <1>7 DEF T, m, ascii, byteLen

\* Upper case keeps the number of runes, and does not touch a digit or a space
\* or a dash.
LEMMA UpperFacts ==
    ASSUME NEW s \in Seq(Int)
    PROVE  /\ ToUpper(s) \in Seq(Int) /\ Len(ToUpper(s)) = Len(s)
           /\ \A k \in 1..Len(s) : ToUpper(s)[k] = UpperRune(s[k])
<1>1. DOMAIN s = 1..Len(s) /\ Len(s) \in Nat
  OBVIOUS
<1>2. \A k \in 1..Len(s) : UpperRune(s[k]) \in Int
  <2>1. \A k \in 1..Len(s) : s[k] \in Int
    OBVIOUS
  <2>2. \A r \in Int : UpperRune(r) \in Int
    BY DEF UpperRune, TurnedAUpper, isLower
  <2>3. QED
    BY <2>1, <2>2
<1>3. ToUpper(s) = [k \in 1..Len(s) |-> UpperRune(s[k])]
  BY <1>1 DEF ToUpper
<1>4. ToUpper(s) \in [1..Len(s) -> Int]
  BY <1>2, <1>3
<1>5. QED
  BY <1>1, <1>3, <1>4

\* The texts that reach cnpjAlphaToNumeric.
LEMMA CandidateFacts ==
    ASSUME NEW s \in Seq(Int), NEW u \in alphaCandidates(s)
    PROVE  /\ cleanCNPJFormat(s) \in Seq(Int) /\ Len(cleanCNPJFormat(s)) = 14
           /\ u = ToUpper(cleanCNPJFormat(s)) /\ hasLetters(u)
           /\ u \in Seq(Int) /\ Len(u) = 14
           /\ \A k \in 1..14 : isDigit(u[k]) \/ isUpper(u[k])
<1> DEFINE c == cleanCNPJFormat(s)
<1>1. c \in Seq(Int)
  BY KeepFacts DEF cleanCNPJFormat
<1>2. /\ u = ToUpper(c) /\ byteLen(c) = 14 /\ hasLetters(u) /\ AlphanumRun(u, 14)
  BY DEF alphaCandidates, cnpjAlphanumMatch
<1> HIDE DEF c
<1>3. Len(c) \in Nat /\ Len(c) <= 14
  BY <1>1, <1>2, ByteLenFacts
<1>4. u \in Seq(Int) /\ Len(u) = Len(c)
  BY <1>1, <1>2, UpperFacts
<1> DEFINE Good(j) == isDigit(u[j]) \/ isUpper(u[j])
<1>5. \E k \in 1..(Len(u) - 14 + 1) : \A j \in k..(k + 14 - 1) : Good(j)
  BY <1>2 DEF AlphanumRun
<1> HIDE DEF Good
<1>6. PICK k \in 1..(Len(u) - 14 + 1) : \A j \in k..(k + 14 - 1) : Good(j)
  BY <1>5
<1>7. Len(c) = 14 /\ k = 1
  <2>1. k \in Int /\ 1 <= k /\ k <= Len(c) - 14 + 1
    BY <1>3, <1>4
  <2>2. \A m \in Nat : m <= 14 /\ 1 <= k /\ k <= m - 14 + 1 => m = 14 /\ k = 1
    BY <2>1
  <2>3. QED
    BY <1>3, <2>1, <2>2, Zenon
<1>8. \A j \in 1..14 : isDigit(u[j]) \/ isUpper(u[j])
  <2>1. 1 + 14 - 1 = 14
    OBVIOUS
  <2>2. \A j \in 1..14 : Good(j)
    BY <1>6, <1>7, <2>1, Zenon
  <2>3. QED
    BY <2>2 DEF Good
<1>9. QED
  BY <1>1, <1>2, <1>4, <1>7, <1>8 DEF c

\* Fourteen digits and capitals are fourteen bytes.
LEMMA SliceFits ==
    ASSUME NEW s \in Seq(Int), NEW u \in alphaCandidates(s)
    PROVE  byteLen(u) = 14
<1>1. u \in Seq(Int) /\ Len(u) = 14 /\ \A k \in 1..14 : isDigit(u[k]) \/ isUpper(u[k])
  BY CandidateFacts
<1>2. \A k \in 1..Len(u) : RuneBytes(u[k]) = 1
  <2>1. ASSUME NEW r, isDigit(r) \/ isUpper(r) PROVE RuneBytes(r) = 1
    <3>1. r \in 0..9 \/ r \in 17..42
      BY <2>1, Zenon DEF isDigit, isUpper, Digits
    <3>2. CASE r \in 0..9
      BY <3>2 DEF RuneBytes
    <3>3. CASE r \in 17..42
      BY <3>3 DEF RuneBytes
    <3>4. QED
      BY <3>1, <3>2, <3>3
  <2>2. QED
    BY <1>1, <2>1, Zenon
<1>3. QED
  BY <1>1, <1>2, ByteLenFacts

-----------------------------------------------------------------------------
(* The weighted sums.                                                      *)

\* The weighted sum is the one its recursive definition describes.
LEMMA SumsDef ==
    ASSUME NEW m \in Nat, NEW ds, NEW ref, Len(ref) = m,
           \A k \in 1..m : ref[k] \in Int /\ ds[k] \in Int
    PROVE  /\ Sums(ds, ref)[0] = 0
           /\ \A k \in 1..m : Sums(ds, ref)[k] = Sums(ds, ref)[k - 1] + ref[k] * ds[k]
<1> DEFINE Step(q, k) == q + ref[k] * ds[k]
           F == [x \in (1..m) \X Int |-> Step(x[2], x[1])]
           Def(f) == f = [k \in 0..m |-> IF k = 0 THEN 0 ELSE Step(f[k - 1], k)]
           T == Sums(ds, ref)
<1>1. ASSUME NEW q \in Int, NEW k \in 1..m PROVE Step(q, k) \in Int
  OBVIOUS
<1>2. (\E f : Def(f)) => Def(T)
  BY Zenon DEF Sums
<1> HIDE DEF Step, T
<1>3. F \in [(1..m) \X Int -> Int]
  BY <1>1
<1>4. PICK f \in [0..m -> Int] : Iterates(f, m, 0, F)
  <2>1. 0 \in Int
    OBVIOUS
  <2> HIDE DEF F
  <2>2. QED
    BY <1>3, <2>1, IterationExists
<1>5. ASSUME NEW k \in 1..m PROVE f[k] = Step(f[k - 1], k)
  <2>1. k - 1 \in 0..m
    OBVIOUS
  <2>2. f[k] = F[<<k, f[k - 1]>>] /\ <<k, f[k - 1]>> \in (1..m) \X Int
    BY <1>4, <2>1 DEF Iterates
  <2>3. QED
    BY <2>2
<1>6. Def(f)
  BY <1>4, <1>5 DEF Iterates
<1>7. Def(T)
  <2> HIDE DEF Def
  <2>1. QED
    BY <1>2, <1>6
<1>8. T[0] = 0 /\ \A k \in 1..m : T[k] = Step(T[k - 1], k)
  BY <1>7
<1>9. QED
  BY <1>8 DEF T, Step

\* The sum depends only on the digits that have a weight.
Agree(ds, es, ref, m) == \A k \in 1..m : ref[k] \in Int /\ ds[k] \in Int /\ es[k] = ds[k]

\* Digits that agree where there is a weight have the same sum.
LEMMA SameSum ==
    ASSUME NEW m \in Nat, NEW ds, NEW es, NEW ref, Len(ref) = m, Agree(ds, es, ref, m)
    PROVE  WeightedSum(ds, ref) = WeightedSum(es, ref)
<1> DEFINE T == Sums(ds, ref)
           U == Sums(es, ref)
           G == {k \in 0..m : T[k] = U[k]}
<1>1. \A k \in 1..m : ref[k] \in Int /\ ds[k] \in Int /\ es[k] = ds[k]
  BY DEF Agree
<1>2. T[0] = 0 /\ \A k \in 1..m : T[k] = T[k - 1] + ref[k] * ds[k]
  <2>1. \A k \in 1..m : ref[k] \in Int /\ ds[k] \in Int
    BY <1>1
  <2>2. QED
    BY <2>1, SumsDef, Zenon
<1>3. U[0] = 0 /\ \A k \in 1..m : U[k] = U[k - 1] + ref[k] * es[k]
  <2>1. \A k \in 1..m : ref[k] \in Int /\ es[k] \in Int
    BY <1>1
  <2>2. QED
    BY <2>1, SumsDef, Zenon
<1> HIDE DEF T, U
<1>4. 0 \in G
  BY <1>2, <1>3
<1>5. ASSUME NEW k \in 0..(m - 1), k \in G PROVE k + 1 \in G
  <2>1. k + 1 \in 1..m /\ (k + 1) - 1 = k /\ T[k] = U[k]
    BY <1>5
  <2>2. T[k + 1] = U[k + 1]
    BY <1>2, <1>3, <1>1, <2>1
  <2>3. QED
    BY <2>1, <2>2
<1>6. T[m] = U[m]
  <2> HIDE DEF G
  <2>1. \A k \in 0..m : k \in G
    BY <1>4, <1>5, UpTo
  <2>2. QED
    BY <2>1 DEF G
<1>7. QED
  BY <1>6 DEF T, U, WeightedSum

\* Two digits written after a text come after the digits it has.
LEMMA Completed ==
    ASSUME NEW s \in Seq(Int), NEW a \in Digits, NEW b \in Digits
    PROVE  Keep(s \o <<a, b>>, Digits) = Append(Append(Keep(s, Digits), a), b)
<1>1. a \in Int /\ b \in Int
  BY DEF Digits
<1>2. s \o <<a, b>> = Append(Append(s, a), b)
  BY <1>1
<1>3. Append(s, a) \in Seq(Int)
  BY <1>1, Appended
<1>4. Keep(Append(s, a), Digits) = Append(Keep(s, Digits), a)
  BY <1>1, KeepAppend
<1>5. Keep(Append(Append(s, a), b), Digits) = Append(Keep(Append(s, a), Digits), b)
  BY <1>1, <1>3, KeepAppend
<1>6. QED
  BY <1>2, <1>4, <1>5

\* t is the m digits of q, a and b.
Completes(t, q, m, a, b) ==
    /\ Len(t) = m + 2 /\ t[m + 1] = a /\ t[m + 2] = b
    /\ \A k \in 1..m : t[k] = q[k] /\ q[k] \in Digits

\* The digits of a text that is completed.
LEMMA CompletedDigits ==
    ASSUME NEW s \in Seq(Int), NEW a \in Digits, NEW b \in Digits, NEW m \in Nat,
           Len(Keep(s, Digits)) = m
    PROVE  Completes(Keep(s \o <<a, b>>, Digits), Keep(s, Digits), m, a, b)
<1> DEFINE q == Keep(s, Digits)
           r == Append(q, a)
<1>1. a \in Int /\ b \in Int /\ q \in Seq(Int)
  BY KeepFacts DEF Digits
<1>2. \A k \in 1..m : q[k] \in Digits
  BY KeptRunes
<1>3. Keep(s \o <<a, b>>, Digits) = Append(r, b)
  BY Completed
<1>4. Len(q) = m
  OBVIOUS
<1> HIDE DEF q
<1>5. /\ r \in Seq(Int) /\ Len(r) = m + 1 /\ r[m + 1] = a
      /\ \A k \in 1..m : r[k] = q[k]
  BY <1>1, <1>4, Appended
<1> HIDE DEF r
<1>6. /\ Len(Append(r, b)) = m + 2 /\ Append(r, b)[m + 2] = b
      /\ \A k \in 1..(m + 1) : Append(r, b)[k] = r[k]
  <2>1. /\ Len(Append(r, b)) = Len(r) + 1 /\ Append(r, b)[Len(r) + 1] = b
        /\ \A k \in 1..Len(r) : Append(r, b)[k] = r[k]
    BY <1>1, <1>5, Appended
  <2>2. Len(r) + 1 = m + 2
    BY <1>5
  <2>3. QED
    BY <1>5, <2>1, <2>2
<1>7. m + 1 \in 1..(m + 1) /\ \A k \in 1..m : k \in 1..(m + 1)
  OBVIOUS
<1>8. QED
  BY <1>2, <1>3, <1>5, <1>6, <1>7 DEF q, Completes

\* A sum of digits with natural weights is a natural number.
LEMMA SumNat ==
    ASSUME NEW m \in Nat, NEW ds, NEW ref, Len(ref) = m,
           \A k \in 1..m : ref[k] \in Nat /\ ds[k] \in Digits
    PROVE  WeightedSum(ds, ref) \in Nat
<1> DEFINE T == Sums(ds, ref)
           G == {k \in 0..m : T[k] \in Nat}
<1>1. \A k \in 1..m : ref[k] \in Nat /\ ds[k] \in Nat
  <2>1. \A x \in Digits : x \in Nat
    BY DEF Digits
  <2>2. QED
    BY <2>1, Zenon
<1>2. T[0] = 0 /\ \A k \in 1..m : T[k] = T[k - 1] + ref[k] * ds[k]
  <2>1. \A k \in 1..m : ref[k] \in Int /\ ds[k] \in Int
    BY <1>1
  <2>2. QED
    BY <2>1, SumsDef, ZenonT(30)
<1> HIDE DEF T
<1>3. 0 \in G
  BY <1>2
<1>4. ASSUME NEW k \in 0..(m - 1), k \in G PROVE k + 1 \in G
  <2>1. k + 1 \in 1..m /\ (k + 1) - 1 = k /\ T[k] \in Nat
    BY <1>4
  <2>2. T[k + 1] = T[k] + ref[k + 1] * ds[k + 1]
    BY <1>2, <2>1
  <2>3. ref[k + 1] * ds[k + 1] \in Nat
    BY <1>1, <2>1
  <2>4. QED
    BY <2>1, <2>2, <2>3
<1>5. T[m] \in Nat
  <2> HIDE DEF G
  <2>1. \A k \in 0..m : k \in G
    BY <1>3, <1>4, UpTo
  <2>2. QED
    BY <2>1 DEF G
<1>6. QED
  BY <1>5 DEF T, WeightedSum

\* When exactly the pair <<c, d>> is accepted, one pair is.
LEMMA OnePair ==
    ASSUME NEW S, NEW c \in Digits, NEW d \in Digits, S \subseteq Digits \X Digits,
           \A a, b \in Digits : <<a, b>> \in S <=> a = c /\ b = d
    PROVE  Cardinality(S) = 1
<1>1. ASSUME NEW p \in Digits \X Digits PROVE p \in S <=> p = <<c, d>>
  <2>1. PICK a \in Digits, b \in Digits : p = <<a, b>>
    OBVIOUS
  <2>2. QED
    BY <2>1
<1>2. S = {<<c, d>>}
  <2>1. <<c, d>> \in Digits \X Digits
    OBVIOUS
  <2>2. QED
    BY <1>1, <2>1, Zenon
<1>3. QED
  BY <1>2, FS_Singleton, Zenon

\* Nine digits become a CPF by exactly one pair.
LEMMA OneCPF ==
    ASSUME NEW s \in Seq(Int), Len(Keep(s, Digits)) = 9
    PROVE  Cardinality({p \in Digits \X Digits : MatchCPF(s \o p)}) = 1
<1> DEFINE q == Keep(s, Digits)
           first == WeightedSum(q, cpfFirstTable)
           second == WeightedSum(q, cpfSecondTable)
           c == cpfDigit(first)
           d == cpfDigit(second + c * 2)
           S == {p \in Digits \X Digits : MatchCPF(s \o p)}
           m == 9
<1>1. /\ m \in Nat /\ Len(q) = m /\ Len(cpfFirstTable) = m /\ Len(cpfSecondTable) = m
      /\ \A k \in 1..m : cpfFirstTable[k] \in Nat /\ cpfSecondTable[k] \in Nat
  BY DEF cpfFirstTable, cpfSecondTable
<1>2. m + 1 = 10 /\ m + 2 = 11
  OBVIOUS
<1> HIDE DEF m
<1>3. \A x \in Digits : x \in Int
  BY DEF Digits
<1>4. \A k \in 1..m : q[k] \in Digits
  BY <1>1, KeptRunes
<1>5. first \in Nat /\ second \in Nat
  BY <1>1, <1>4, SumNat
<1>6. c \in Digits /\ second + c * 2 \in Nat
  <2>1. c \in 0..9
    BY <1>5, CheckDigitsAgree
  <2>2. QED
    BY <1>5, <2>1 DEF Digits
<1>7. d \in Digits
  BY <1>6, CheckDigitsAgree DEF Digits
<1>8. ASSUME NEW a \in Digits, NEW b \in Digits
      PROVE  <<a, b>> \in S <=> a = c /\ b = d
  <2> DEFINE t == Keep(s \o <<a, b>>, Digits)
  <2>1. /\ Len(t) = m + 2 /\ t[m + 1] = a /\ t[m + 2] = b
        /\ \A k \in 1..m : t[k] = q[k]
    <3>1. Len(Keep(s, Digits)) = m /\ m \in Nat
      BY <1>1
    <3>2. Completes(Keep(s \o <<a, b>>, Digits), Keep(s, Digits), m, a, b)
      BY <3>1, CompletedDigits
    <3>3. QED
      BY <3>2, Zenon DEF Completes
  <2>2. MatchCPF(s \o <<a, b>>) <=> Len(t) = 11 /\ validateCPFCheckDigits(t)
    BY DEF MatchCPF
  <2> HIDE DEF t, q
  <2>3. Agree(q, t, cpfFirstTable, m) /\ Agree(q, t, cpfSecondTable, m)
    <3>1. \A k \in 1..m : /\ cpfFirstTable[k] \in Int /\ cpfSecondTable[k] \in Int
                          /\ q[k] \in Int /\ t[k] = q[k]
      <4>1. \A x \in Nat : x \in Int
        OBVIOUS
      <4>2. QED
        BY <1>1, <1>3, <1>4, <2>1, <4>1, Zenon
    <3>2. QED
      BY <3>1, Zenon DEF Agree
  <2>4. WeightedSum(t, cpfFirstTable) = first /\ WeightedSum(t, cpfSecondTable) = second
    BY <1>1, <2>3, SameSum
  <2> HIDE DEF first, second
  <2>5. validateCPFCheckDigits(t) <=> t[10] = c /\ t[11] = d
    BY <2>4, Zenon DEF validateCPFCheckDigits
  <2>6. MatchCPF(s \o <<a, b>>) <=> a = c /\ b = d
    BY <1>2, <2>1, <2>2, <2>5
  <2>7. QED
    BY <2>6
<1> HIDE DEF c, d
<1>9. S \subseteq Digits \X Digits
  OBVIOUS
<1> HIDE DEF S
<1>10. Cardinality(S) = 1
  BY <1>6, <1>7, <1>8, <1>9, OnePair
<1>11. QED
  BY <1>10 DEF S

\* Twelve digits become a CNPJ by exactly one pair.
LEMMA OneCNPJ ==
    ASSUME NEW s \in Seq(Int), Len(Keep(s, Digits)) = 12
    PROVE  Cardinality({p \in Digits \X Digits : MatchCNPJ(s \o p)}) = 1
<1> DEFINE q == Keep(s, Digits)
           c == checksum(q, cnpjFirstDigitTable)
           r == Append(q, c)
           d == checksum(r, cnpjSecondDigitTable)
           S == {p \in Digits \X Digits : MatchCNPJ(s \o p)}
           m == 12
<1>1. /\ m \in Nat /\ Len(q) = m
      /\ Len(cnpjFirstDigitTable) = m /\ Len(cnpjSecondDigitTable) = m + 1
      /\ \A k \in 1..m : cnpjFirstDigitTable[k] \in Nat
      /\ \A k \in 1..(m + 1) : cnpjSecondDigitTable[k] \in Nat
  <2>1. \A k \in 1..12 : cnpjFirstDigitTable[k] \in Nat
    BY DEF cnpjFirstDigitTable
  <2>2. \A k \in 1..13 : cnpjSecondDigitTable[k] \in Nat
    BY DEF cnpjSecondDigitTable
  <2>3. Len(cnpjFirstDigitTable) = 12 /\ Len(cnpjSecondDigitTable) = 13
    BY DEF cnpjFirstDigitTable, cnpjSecondDigitTable
  <2>4. QED
    BY <2>1, <2>2, <2>3
<1>2. m + 1 = 13 /\ m + 2 = 14
  OBVIOUS
<1> HIDE DEF m
<1>3. \A x \in Digits : x \in Int
  BY DEF Digits
<1>4. q \in Seq(Int) /\ \A k \in 1..m : q[k] \in Digits
  BY <1>1, KeptRunes, KeepFacts
<1>5. ASSUME NEW sum \in Nat PROVE cnpjDigit(sum) \in Digits
  BY <1>5, CheckDigitsAgree DEF Digits
<1>6. c \in Digits
  BY <1>1, <1>4, <1>5, SumNat DEF checksum
<1> HIDE DEF q
<1>7. ASSUME NEW x, NEW y, NEW k \in Nat, NEW ref, Len(ref) = k,
             \A j \in 1..k : ref[j] \in Nat /\ x[j] \in Digits /\ y[j] = x[j]
      PROVE  checksum(x, ref) = checksum(y, ref)
  <2>1. Agree(x, y, ref, k)
    <3>1. \A z \in Nat : z \in Int
      OBVIOUS
    <3>2. QED
      BY <1>3, <1>7, <3>1, Zenon DEF Agree
  <2>2. QED
    BY <1>7, <2>1, SameSum DEF checksum
<1>8. /\ r[m + 1] = c /\ \A k \in 1..m : r[k] = q[k]
  <2> HIDE DEF c
  <2>1. QED
    BY <1>1, <1>3, <1>4, <1>6, Appended
<1>9. \A k \in 1..(m + 1) : r[k] \in Digits
  <2> HIDE DEF c, r
  <2>1. \A k \in 1..(m + 1) : k \in 1..m \/ k = m + 1
    BY <1>1
  <2>2. QED
    BY <1>4, <1>6, <1>8, <2>1
<1> HIDE DEF r
<1>10. d \in Digits
  <2>1. m + 1 \in Nat
    BY <1>1
  <2>2. WeightedSum(r, cnpjSecondDigitTable) \in Nat
    BY <1>1, <1>9, <2>1, SumNat
  <2>3. QED
    BY <1>5, <2>2 DEF checksum
<1>11. ASSUME NEW a \in Digits, NEW b \in Digits
       PROVE  <<a, b>> \in S <=> a = c /\ b = d
  <2> DEFINE t == Keep(s \o <<a, b>>, Digits)
  <2>1. /\ Len(t) = m + 2 /\ t[m + 1] = a /\ t[m + 2] = b
        /\ \A k \in 1..m : t[k] = q[k]
    <3>1. Len(Keep(s, Digits)) = m /\ m \in Nat
      BY <1>1 DEF q
    <3>2. Completes(Keep(s \o <<a, b>>, Digits), Keep(s, Digits), m, a, b)
      BY <3>1, CompletedDigits
    <3>3. QED
      BY <3>2, Zenon DEF Completes, q
  <2>2. MatchCNPJ(s \o <<a, b>>) <=> Len(t) = 14 /\ cnpjCheckDigits(t)
    BY DEF MatchCNPJ
  <2> HIDE DEF t
  <2>3. checksum(t, cnpjFirstDigitTable) = c
    BY <1>1, <1>4, <1>7, <2>1
  <2> HIDE DEF c
  <2>4. ASSUME a = c PROVE checksum(t, cnpjSecondDigitTable) = d
    <3>1. m + 1 \in Nat /\ \A k \in 1..(m + 1) : k \in 1..m \/ k = m + 1
      BY <1>1
    <3>2. \A k \in 1..(m + 1) : t[k] = r[k]
      BY <1>8, <2>1, <2>4, <3>1
    <3>3. \A k \in 1..(m + 1) :
             cnpjSecondDigitTable[k] \in Nat /\ r[k] \in Digits /\ t[k] = r[k]
      BY <1>1, <1>9, <3>2, Zenon
    <3> DEFINE l == m + 1
    <3>4. l \in Nat /\ Len(cnpjSecondDigitTable) = l
      BY <1>1
    <3>5. Agree(r, t, cnpjSecondDigitTable, l)
      <4>1. \A z \in Nat : z \in Int
        OBVIOUS
      <4>2. QED
        BY <1>3, <3>3, <4>1, Zenon DEF Agree
    <3> HIDE DEF l
    <3>6. WeightedSum(r, cnpjSecondDigitTable) = WeightedSum(t, cnpjSecondDigitTable)
      BY <3>4, <3>5, SameSum
    <3>7. QED
      BY <3>6, Zenon DEF checksum
  <2> HIDE DEF d
  <2>5. cnpjCheckDigits(t) <=> t[13] = c /\ t[14] = checksum(t, cnpjSecondDigitTable)
    BY <2>3, Zenon DEF cnpjCheckDigits
  <2>6. MatchCNPJ(s \o <<a, b>>) <=> a = c /\ b = d
    BY <1>2, <2>1, <2>2, <2>4, <2>5
  <2>7. QED
    BY <2>6
<1> HIDE DEF c, d
<1>12. S \subseteq Digits \X Digits
  OBVIOUS
<1> HIDE DEF S
<1>13. Cardinality(S) = 1
  BY <1>6, <1>10, <1>11, <1>12, OnePair
<1>14. QED
  BY <1>13 DEF S

\* What keeps less sees no difference in what is dropped anyway.
LEMMA SameKept ==
    ASSUME NEW s \in Seq(Int), NEW t \in Seq(Int), NEW A, NEW B, \A r \in Int : r \in A => r \in B,
           Keep(s, B) = Keep(t, B)
    PROVE  Keep(s, A) = Keep(t, A)
<1>1. \A r \in Int : r \in A <=> r \in A /\ r \in B
  OBVIOUS
<1>2. Keep(Keep(s, B), A) = Keep(s, A)
  BY <1>1, KeepTwice
<1>3. Keep(Keep(t, B), A) = Keep(t, A)
  BY <1>1, KeepTwice
<1>4. QED
  BY <1>2, <1>3, Zenon

\* A separator makes no difference to the matcher that drops it.
LEMMA SameVerdicts ==
    ASSUME NEW s \in Seq(Int), NEW t \in Seq(Int)
    PROVE  /\ stripChars({Space, Dash}, s) = stripChars({Space, Dash}, t) =>
                 /\ MatchVisaCreditCard(s) <=> MatchVisaCreditCard(t)
                 /\ MatchMasterCardCreditCard(s) <=> MatchMasterCardCreditCard(t)
           /\ stripChars({Space, Dash, Dot, LParen, RParen}, s)
                 = stripChars({Space, Dash, Dot, LParen, RParen}, t) =>
                 (matchPhoneFormat1(s) <=> matchPhoneFormat1(t))
           /\ stripChars({Dash}, s) = stripChars({Dash}, t) => (IPMatcher(s) <=> IPMatcher(t))
           /\ stripChars(Formatting, s) = stripChars(Formatting, t) =>
                 (CNPJMatcher(s) <=> CNPJMatcher(t))
<1>1. ASSUME stripChars({Space, Dash}, s) = stripChars({Space, Dash}, t)
      PROVE  /\ MatchVisaCreditCard(s) <=> MatchVisaCreditCard(t)
             /\ MatchMasterCardCreditCard(s) <=> MatchMasterCardCreditCard(t)
  <2>1. cardNumber(s) = cardNumber(t)
    BY <1>1, Zenon DEF cardNumber
  <2>2. QED
    BY <2>1, Zenon DEF MatchVisaCreditCard, MatchMasterCardCreditCard
<1>2. ASSUME NEW S, NEW T, S \subseteq T, stripChars(S, s) = stripChars(S, t)
      PROVE  stripChars(T, s) = stripChars(T, t)
  <2> DEFINE A == Int \ T
             B == Int \ S
  <2>1. Keep(s, B) = Keep(t, B) /\ \A r \in Int : r \in A => r \in B
    BY <1>2 DEF stripChars
  <2> HIDE DEF A, B
  <2>2. Keep(s, A) = Keep(t, A)
    BY <2>1, SameKept
  <2>3. QED
    BY <2>2 DEF A, stripChars
<1>3. ASSUME stripChars({Space, Dash, Dot, LParen, RParen}, s)
                 = stripChars({Space, Dash, Dot, LParen, RParen}, t)
      PROVE  matchPhoneFormat1(s) <=> matchPhoneFormat1(t)
  <2>1. {Space, Dash, Dot, LParen, RParen} \subseteq phoneFormat1Separators
    BY DEF phoneFormat1Separators
  <2>2. stripChars(phoneFormat1Separators, s) = stripChars(phoneFormat1Separators, t)
    BY <1>2, <1>3, <2>1, Zenon
  <2>3. QED
    BY <2>2, Zenon DEF matchPhoneFormat1
<1>4. ASSUME stripChars({Dash}, s) = stripChars({Dash}, t)
      PROVE  IPMatcher(s) <=> IPMatcher(t)
  <2>1. {Dash} \subseteq especialChars
    BY DEF especialChars
  <2>2. stripChars(especialChars, s) = stripChars(especialChars, t)
    BY <1>2, <1>4, <2>1, Zenon
  <2>3. QED
    BY <2>2, Zenon DEF IPMatcher, MatchIP
<1>5. ASSUME stripChars(Formatting, s) = stripChars(Formatting, t)
      PROVE  CNPJMatcher(s) <=> CNPJMatcher(t)
  <2>1. cleanCNPJFormat(s) = cleanCNPJFormat(t)
    BY <1>5, Zenon DEF stripChars, cleanCNPJFormat
  <2>2. Keep(s, Digits) = Keep(t, Digits)
    <3> DEFINE A == Digits
               B == Int \ Formatting
    <3>1. \A r \in Int : r \in A => r \in B
      BY DEF Digits, Formatting
    <3>2. Keep(s, B) = Keep(t, B)
      BY <1>5 DEF stripChars
    <3> HIDE DEF A, B
    <3>3. Keep(s, A) = Keep(t, A)
      BY <3>1, <3>2, SameKept
    <3>4. QED
      BY <3>3 DEF A
  <2>3. alphaCandidates(s) = alphaCandidates(t)
    BY <2>1, Zenon DEF alphaCandidates
  <2>4. QED
    BY <2>2, <2>3, Zenon DEF CNPJMatcher, MatchCNPJ, MatchCNPJV2
<1>6. QED
  BY <1>1, <1>3, <1>4, <1>5

-----------------------------------------------------------------------------
(* What a match says of the text.                                          *)

\* Somewhere in the text, w runes of D in a row.
HasRun(s, D, w) == \E p \in 0..Len(s) : p + w <= Len(s) /\ RunIn(s, p, p + w, D)

\* The cuts of a match that need not be the whole text.
LEMMA FoundItems ==
    ASSUME NEW s \in Seq(Int), NEW shape \in Seq(Items), NEW from \in SUBSET (0..Len(s)),
           EndsFrom(s, shape, from) # {}
    PROVE  \E c \in [0..Len(shape) -> 0..Len(s)] :
               \A k \in 1..Len(shape) : ItemOf(s, c[k - 1], c[k], shape[k])
<1>1. IsShape(shape) /\ Len(shape) \in Nat
  BY ItemFacts
<1>2. PICK e \in EndsFrom(s, shape, from) : TRUE
  OBVIOUS
<1>3. CutTo(s, shape, from, e)
  BY <1>1, <1>2, EndsAreCuts
<1>4. PICK c \in [0..Len(shape) -> 0..Len(s)] : Cuts(s, shape, c, Len(shape))
  BY <1>3 DEF CutTo
<1>5. ASSUME NEW k \in 1..Len(shape) PROVE ItemOf(s, c[k - 1], c[k], shape[k])
  <2>1. k - 1 \in 0..Len(shape) /\ k \in 0..Len(shape)
    BY <1>1
  <2>2. c[k - 1] \in 0..Len(s) /\ c[k] \in 0..Len(s)
    BY <1>4, <2>1
  <2>3. QED
    BY <1>4, <2>2 DEF Cuts, Item, ItemOf
<1>6. QED
  BY <1>5

\* An item of w runes is a run.
LEMMA ItemRun ==
    ASSUME NEW s \in Seq(Int), NEW p, NEW q, NEW D, NEW w \in Nat, ItemOf(s, p, q, Many(D, w))
    PROVE  /\ p \in 0..Len(s) /\ q \in 0..Len(s) /\ q = p + w /\ RunIn(s, p, q, D)
           /\ HasRun(s, D, w)
<1>1. Item(s, p, q, D, w, w)
  BY ItemAs, Zenon
<1>2. Len(s) \in Nat
  OBVIOUS
<1>3. p \in 0..Len(s) /\ q \in 0..Len(s) /\ q = p + w /\ RunIn(s, p, q, D)
  BY <1>1, <1>2 DEF Item
<1>4. p + w <= Len(s) /\ RunIn(s, p, p + w, D)
  BY <1>2, <1>3
<1>5. QED
  BY <1>3, <1>4 DEF HasRun

\* A match has the run of every item of a fixed number of runes.
LEMMA FoundRun ==
    ASSUME NEW s \in Seq(Int), NEW shape \in Seq(Items), NEW from \in SUBSET (0..Len(s)),
           EndsFrom(s, shape, from) # {}, NEW k \in 1..Len(shape), NEW D, NEW w \in Nat,
           shape[k] = Many(D, w)
    PROVE  HasRun(s, D, w)
<1>1. PICK c \in [0..Len(shape) -> 0..Len(s)] :
               \A j \in 1..Len(shape) : ItemOf(s, c[j - 1], c[j], shape[j])
  BY FoundItems
<1>2. ItemOf(s, c[k - 1], c[k], Many(D, w))
  BY <1>1
<1> HIDE <1>1
<1>3. QED
  BY <1>2, ItemRun

\* The sets of runes of the matchers.
LEMMA RuneSets ==
    /\ Digits \in SUBSET Int /\ HexDigits \in SUBSET Int /\ Blanks \in SUBSET Int
    /\ phoneSeparator \in SUBSET Int /\ FoldedLetters \in SUBSET Int
    /\ {Dash} \in SUBSET Int /\ {Dash, Space} \in SUBSET Int
    /\ {LParen} \in SUBSET Int /\ {RParen} \in SUBSET Int /\ {Plus} \in SUBSET Int
    /\ {-39, -36, Space} \in SUBSET Int
BY DEF Digits, HexDigits, Blanks, phoneSeparator, FoldedLetters, Letters, LongS, Dash, Space,
       LParen, RParen, Plus, Dot

\* The ways to write an item.
LEMMA ItemTypes ==
    ASSUME NEW D \in SUBSET Int, NEW m \in Nat
    PROVE  One(D) \in Items /\ Opt(D) \in Items /\ Many(D, m) \in Items /\ <<D, 0, m>> \in Items
BY DEF One, Opt, Many, Items

\* A phone has four digits in a row.
LEMMA PhoneRun ==
    ASSUME NEW s \in Seq(Int), MatchPhone(s)
    PROVE  HasRun(s, Digits, 4)
<1> DEFINE all == 0..Len(s)
           last == Many(Digits, 4)
<1>1. /\ Len(s) \in Nat /\ all \in SUBSET all /\ 2 \in Nat /\ 3 \in Nat /\ 4 \in Nat
  OBVIOUS
<1>2. /\ last \in Items /\ Many(Digits, 3) \in Items /\ Many(Digits, 2) \in Items
      /\ Opt(phoneSeparator) \in Items /\ blanks(s) \in Items
      /\ One({LParen}) \in Items /\ Opt({Plus}) \in Items /\ One({RParen}) \in Items
  BY <1>1, RuneSets, ItemTypes DEF blanks
<1>3. phoneTail(s) \in Seq(Items) /\ Len(phoneTail(s)) = 6 /\ phoneTail(s)[6] = last
  BY <1>2 DEF phoneTail
<1>4. ASSUME NEW shape \in Seq(Items), Contains(s, shape), NEW k \in 1..Len(shape), shape[k] = last
      PROVE  HasRun(s, Digits, 4)
  BY <1>1, <1>4, FoundRun DEF Contains
<1>5. ASSUME NEW front \in Seq(Items), Contains(s, front \o phoneTail(s))
      PROVE  HasRun(s, Digits, 4)
  <2> DEFINE tail == phoneTail(s)
             shape == front \o tail
  <2>1. tail \in Seq(Items) /\ Len(tail) = 6 /\ tail[6] = last
    BY <1>3
  <2> HIDE DEF tail
  <2>2. /\ shape \in Seq(Items) /\ Len(shape) = Len(front) + Len(tail) /\ Len(front) \in Nat
        /\ \A k \in 1..(Len(front) + Len(tail)) :
              shape[k] = IF k <= Len(front) THEN front[k] ELSE tail[k - Len(front)]
    BY <2>1, ConcatProperties, LenProperties
  <2>3. Contains(s, shape)
    BY <1>5 DEF tail
  <2> HIDE DEF shape, last
  <2>4. Len(front) + 6 \in 1..Len(shape) /\ shape[Len(front) + 6] = last
    BY <2>1, <2>2
  <2>5. QED
    BY <1>4, <2>2, <2>3, <2>4
<1>6. CASE Contains(s, <<Many(Digits, 3), Opt(phoneSeparator), Many(Digits, 4)>>)
  <2> DEFINE shape == <<Many(Digits, 3), Opt(phoneSeparator), Many(Digits, 4)>>
  <2>1. shape \in Seq(Items) /\ 3 \in 1..Len(shape) /\ shape[3] = last
    BY <1>2
  <2>2. Contains(s, shape)
    BY <1>6
  <2> HIDE DEF shape, last
  <2>3. QED
    BY <1>4, <2>1, <2>2
<1>7. <<Many(Digits, 2)>> \in Seq(Items)
  BY <1>2
<1>8. <<One({LParen}), Opt({Plus}), Many(Digits, 2), One({RParen})>> \in Seq(Items)
  BY <1>2
<1>9. QED
  BY <1>5, <1>6, <1>7, <1>8 DEF MatchPhone

\* An SSN has four digits in a row, and a dash or a space.
LEMMA SSNRuns ==
    ASSUME NEW s \in Seq(Int), MatchSSN(s)
    PROVE  HasRun(s, Digits, 4) /\ HasRun(s, {Dash, Space}, 1)
<1> DEFINE D == {Dash, Space}
           shape == <<Many(Digits, 3), One(D), Many(Digits, 2), One(D), Many(Digits, 4)>>
           from == WordStarts(s)
<1>1. EndsFrom(s, shape, from) # {} /\ from \in SUBSET (0..Len(s))
  BY DEF MatchSSN, WordStarts
<1>2. One(D) = Many(D, 1)
  BY DEF One, Many
<1>3. /\ Many(Digits, 3) \in Items /\ Many(Digits, 2) \in Items /\ Many(Digits, 4) \in Items
      /\ One(D) \in Items
  BY RuneSets, ItemTypes
<1>4. /\ shape \in Seq(Items) /\ 2 \in 1..Len(shape) /\ 5 \in 1..Len(shape)
      /\ shape[2] = One(D) /\ shape[5] = Many(Digits, 4)
  BY <1>3
<1> HIDE DEF shape, from, D
<1>5. HasRun(s, Digits, 4)
  BY <1>1, <1>4, FoundRun
<1>6. HasRun(s, D, 1)
  BY <1>1, <1>2, <1>4, FoundRun
<1>7. QED
  BY <1>5, <1>6 DEF D

\* An IBAN has two letters and four digits in a row.
LEMMA IBANRuns ==
    ASSUME NEW s \in Seq(Int), MatchIBAN(s)
    PROVE  HasRun(s, Digits, 4) /\ HasRun(s, FoldedLetters, 2)
<1> DEFINE gap == Opt({-39, -36, Space})
           shape == << Many(FoldedLetters, 2), Many(Digits, 2), gap,
                       Many(FoldedLetters \cup Digits, 4), gap, Many(Digits, 4), gap,
                       Many(Digits, 3) >>
           from == 0..Len(s)
<1>1. EndsFrom(s, shape, from) # {} /\ from \in SUBSET (0..Len(s))
  BY DEF MatchIBAN, Contains
<1>2. FoldedLetters \cup Digits \in SUBSET Int
  BY RuneSets
<1>3. /\ Many(Digits, 3) \in Items /\ Many(Digits, 2) \in Items /\ Many(Digits, 4) \in Items
      /\ gap \in Items /\ Many(FoldedLetters, 2) \in Items
      /\ Many(FoldedLetters \cup Digits, 4) \in Items
  BY <1>2, RuneSets, ItemTypes
<1> HIDE DEF gap
<1>4. /\ shape \in Seq(Items) /\ 1 \in 1..Len(shape) /\ 6 \in 1..Len(shape)
      /\ shape[1] = Many(FoldedLetters, 2) /\ shape[6] = Many(Digits, 4)
  BY <1>3
<1> HIDE DEF shape, from
<1>5. HasRun(s, Digits, 4)
  BY <1>1, <1>4, FoundRun
<1>6. HasRun(s, FoldedLetters, 2)
  BY <1>1, <1>4, FoundRun
<1>7. QED
  BY <1>5, <1>6
\* A GUID has eight and, after these, twelve hexadecimal digits in a row.
TwoRuns(s) ==
    \E p, q \in 0..Len(s) : /\ p + 8 <= q /\ q + 12 <= Len(s)
                            /\ RunIn(s, p, p + 8, HexDigits) /\ RunIn(s, q, q + 12, HexDigits)

\* A GUID has a run of eight and, after it, a run of twelve.
LEMMA GUIDRuns ==
    ASSUME NEW s \in Seq(Int), Matchguid(s)
    PROVE  TwoRuns(s) /\ HasRun(s, HexDigits, 8)
<1> DEFINE dash == Opt({Dash})
           shape == uuidShape(dash, HexDigits, HexDigits)
           from == 0..Len(s)
<1>1. EndsFrom(s, shape, from) # {} /\ from \in SUBSET (0..Len(s)) /\ Len(s) \in Nat
  <2>1. EndsFrom(s, shape, from) # {}
    BY Zenon DEF Matchguid, Contains
  <2>2. from \in SUBSET (0..Len(s)) /\ Len(s) \in Nat
    OBVIOUS
  <2>3. QED
    BY <2>1, <2>2, Zenon
<1>2. /\ dash \in Items /\ One(HexDigits) \in Items /\ Many(HexDigits, 8) \in Items
      /\ Many(HexDigits, 4) \in Items /\ Many(HexDigits, 3) \in Items
      /\ Many(HexDigits, 12) \in Items
  <2>1. /\ HexDigits \in SUBSET Int /\ {Dash} \in SUBSET Int
        /\ 3 \in Nat /\ 4 \in Nat /\ 8 \in Nat /\ 12 \in Nat
    BY RuneSets
  <2>2. dash \in Items /\ One(HexDigits) \in Items
    BY <2>1, ItemTypes, Zenon
  <2>3. /\ Many(HexDigits, 8) \in Items /\ Many(HexDigits, 4) \in Items
        /\ Many(HexDigits, 3) \in Items /\ Many(HexDigits, 12) \in Items
    BY <2>1, ItemTypes, Zenon
  <2>4. QED
    BY <2>2, <2>3
<1> HIDE DEF dash
<1>3. /\ shape \in Seq(Items) /\ Len(shape) = 11
      /\ shape[1] = Many(HexDigits, 8) /\ shape[11] = Many(HexDigits, 12)
  BY <1>2 DEF uuidShape
<1> HIDE DEF shape, from
<1>4. PICK c \in [0..Len(shape) -> 0..Len(s)] :
               \A k \in 1..Len(shape) : ItemOf(s, c[k - 1], c[k], shape[k])
  BY <1>1, <1>3, FoundItems
<1>5. ASSUME NEW k \in 0..10
      PROVE  ItemOf(s, c[k], c[k + 1], shape[k + 1]) /\ c[k] \in Nat /\ c[k + 1] \in Nat
             /\ c[k] <= c[k + 1]
  <2>1. Len(shape) = 11
    BY <1>3, Zenon
  <2>2. k + 1 \in 1..Len(shape) /\ (k + 1) - 1 = k /\ k \in 0..Len(shape) /\ k + 1 \in 0..Len(shape)
    <3>1. k + 1 \in 1..11 /\ (k + 1) - 1 = k /\ k \in 0..11 /\ k + 1 \in 0..11
      OBVIOUS
    <3>2. QED
      BY <2>1, <3>1, Zenon
  <2>3. ItemOf(s, c[k], c[k + 1], shape[k + 1]) /\ c[k] \in Nat /\ c[k + 1] \in Nat
    BY <1>1, <1>4, <2>2
  <2>4. shape[k + 1][2] \in Nat
    <3>1. IsShape(shape)
      BY <1>3, ItemFacts
    <3>2. QED
      BY <2>2, <3>1 DEF IsShape
  <2>5. c[k] + shape[k + 1][2] <= c[k + 1]
    BY <2>3 DEF ItemOf, Item
  <2>6. QED
    BY <2>3, <2>4, <2>5
<1> HIDE <1>4
<1>6. c[1] <= c[10]
  <2> DEFINE G == {k \in 0..9 : c[1] <= c[k + 1]}
             m == 9
  <2>1. 0 \in G
    <3>1. 0 + 1 = 1 /\ c[0 + 1] \in Nat /\ 0 \in 0..10
      BY <1>5
    <3>2. QED
      BY <3>1
  <2>2. ASSUME NEW k \in 0..(m - 1), k \in G PROVE k + 1 \in G
    <3>1. k + 1 \in 0..10 /\ k \in 0..10 /\ 0 \in 0..10 /\ c[1] <= c[k + 1] /\ k + 1 \in 0..9
      BY <2>2
    <3>2. c[k + 1] <= c[(k + 1) + 1] /\ c[(k + 1) + 1] \in Nat /\ c[k + 1] \in Nat
      BY <1>5, <3>1
    <3>3. c[1] \in Nat
      BY <1>5, <3>1
    <3>4. c[1] <= c[(k + 1) + 1]
      BY <3>1, <3>2, <3>3
    <3>5. QED
      BY <3>1, <3>4
  <2>3. m \in Nat
    OBVIOUS
  <2> HIDE DEF G, m
  <2>4. \A k \in 0..m : k \in G
    BY <2>1, <2>2, <2>3, UpTo
  <2>5. 9 \in G /\ 9 + 1 = 10
    BY <2>4 DEF m
  <2>6. QED
    BY <2>5 DEF G
<1>7. ItemOf(s, c[0], c[1], Many(HexDigits, 8)) /\ ItemOf(s, c[10], c[11], Many(HexDigits, 12))
  <2>1. 0 \in 0..10 /\ 10 \in 0..10 /\ 0 + 1 = 1 /\ 10 + 1 = 11
    OBVIOUS
  <2>2. ItemOf(s, c[0], c[0 + 1], shape[0 + 1])
    BY <1>5, <2>1
  <2>3. ItemOf(s, c[10], c[10 + 1], shape[10 + 1])
    BY <1>5, <2>1
  <2>4. QED
    BY <1>3, <2>1, <2>2, <2>3, Zenon
<1> DEFINE p == c[0]
           q == c[10]
           p1 == c[1]
           q1 == c[11]
<1>8. ItemOf(s, p, p1, Many(HexDigits, 8)) /\ ItemOf(s, q, q1, Many(HexDigits, 12)) /\ p1 <= q
  BY <1>6, <1>7
<1> HIDE DEF p, q, p1, q1
<1>9. /\ p \in 0..Len(s) /\ p1 = p + 8 /\ RunIn(s, p, p1, HexDigits)
      /\ HasRun(s, HexDigits, 8)
  BY <1>8, ItemRun
<1>10. q \in 0..Len(s) /\ q1 = q + 12 /\ RunIn(s, q, q1, HexDigits) /\ q1 \in 0..Len(s)
  BY <1>8, ItemRun
<1>11. /\ p + 8 <= q /\ q + 12 <= Len(s)
       /\ RunIn(s, p, p + 8, HexDigits) /\ RunIn(s, q, q + 12, HexDigits)
  BY <1>1, <1>8, <1>9, <1>10
<1>12. QED
  BY <1>9, <1>10, <1>11 DEF TwoRuns

\* A shorter run of a longer one, and the rune it begins with.
LEMMA ShorterRun ==
    ASSUME NEW s \in Seq(Int), NEW D, NEW w \in Nat, NEW v \in Nat, v <= w, HasRun(s, D, w)
    PROVE  HasRun(s, D, v) /\ (w >= 1 => \E k \in 1..Len(s) : s[k] \in D)
<1>1. PICK p \in 0..Len(s) : p + w <= Len(s) /\ RunIn(s, p, p + w, D)
  BY DEF HasRun
<1>2. Len(s) \in Nat
  OBVIOUS
<1>3. p + v <= Len(s) /\ RunIn(s, p, p + v, D)
  BY <1>1, <1>2 DEF RunIn
<1>4. w >= 1 => p + 1 \in 1..Len(s) /\ s[p + 1] \in D
  BY <1>1, <1>2 DEF RunIn
<1>5. QED
  BY <1>3, <1>4 DEF HasRun

-----------------------------------------------------------------------------
(* The entities.                                                           *)

\* An IP address has digits, dots and the signs MatchIP drops, at least one
\* dot, and no four digits in a row.
LEMMA IPText ==
    ASSUME NEW s \in Seq(Int), MatchIP(s)
    PROVE  /\ \A k \in 1..Len(s) : s[k] \in Digits \/ s[k] = Dot \/ s[k] \in especialChars
           /\ \E k \in 1..Len(s) : s[k] = Dot
           /\ ~HasRun(s, Digits, 4)
<1> DEFINE S == Int \ especialChars
           c == Keep(s, S)
<1>1. c \in Seq(Int) /\ ParseIP(c)
  BY KeepFacts DEF MatchIP, stripChars
<1>2. \A r \in Digits : r \in S
  BY DEF Digits, especialChars, Dash
<1>3. ASSUME NEW k \in 1..Len(s)
      PROVE  s[k] \in S \/ s[k] \in especialChars
  BY DEF S
<1> HIDE DEF S
<1>4. /\ \A j \in 1..Len(c) : c[j] \in S /\ \E k \in 1..Len(s) : c[j] = s[k]
      /\ \A k \in 1..Len(s) : s[k] \in S => \E j \in 1..Len(c) : c[j] = s[k]
  BY KeptRunes
<1>5. PICK x, y, z \in 1..Len(c) :
               /\ c[x] = Dot /\ c[y] = Dot /\ c[z] = Dot
               /\ \A k \in 1..Len(c) : k \notin {x, y, z} => c[k] \in Digits
  BY <1>1, ParsedFacts
<1>6. \A j \in 1..Len(c) : c[j] \in Digits \/ c[j] = Dot
  BY <1>5
<1>7. \A k \in 1..Len(s) : s[k] \in Digits \/ s[k] = Dot \/ s[k] \in especialChars
  BY <1>3, <1>4, <1>6
<1>8. \E k \in 1..Len(s) : s[k] = Dot
  BY <1>4, <1>5
<1>9. ASSUME HasRun(s, Digits, 4) PROVE FALSE
  <2>1. PICK p \in 0..Len(s) : p + 4 <= Len(s) /\ RunIn(s, p, p + 4, Digits)
    BY <1>9 DEF HasRun
  <2> DEFINE q == p + 4
             L == Len(Kept(s, S)[p])
  <2>2. Len(s) \in Nat /\ q \in 0..Len(s) /\ p <= q /\ RunIn(s, p, q, S)
    <3>1. Len(s) \in Nat /\ q \in 0..Len(s) /\ p <= q
      BY <2>1
    <3>2. \A j \in (p + 1)..(p + 4) : s[j] \in Digits
      BY <2>1 DEF RunIn
    <3>3. RunIn(s, p, q, S)
      BY <1>2, <3>2 DEF RunIn
    <3>4. QED
      BY <3>1, <3>3
  <2>3. q - p = 4 /\ \A j \in 1..4 : s[p + j] \in Digits
    BY <2>1 DEF RunIn
  <2> HIDE DEF q
  <2>4. /\ L \in Nat /\ Len(Kept(s, S)[q]) = L + (q - p) /\ Len(Kept(s, S)[q]) <= Len(c)
        /\ \A j \in 1..(q - p) : c[L + j] = s[p + j]
    <3>1. Copied(s, S, p, q)
      BY <2>2, RunKept
    <3>2. QED
      BY <3>1, Zenon DEF Copied
  <2> HIDE DEF L
  <2>5. L + 4 <= Len(c) /\ \A j \in 1..4 : c[L + j] \in Digits
    BY <2>3, <2>4
  <2> HIDE DEF c
  <2>6. Len(c) \in Nat /\ L \in 0..Len(c)
    <3>1. Len(c) \in Nat
      BY <1>1
    <3>2. L \in Nat /\ L + 4 <= Len(c)
      BY <2>4, <2>5
    <3>3. QED
      BY <3>1, <3>2
  <2>7. RunIn(c, L, L + 4, Digits)
    <3>1. ASSUME NEW j \in (L + 1)..(L + 4) PROVE c[j] \in Digits
      <4>1. j - L \in 1..4 /\ L + (j - L) = j
        BY <2>4
      <4>2. QED
        BY <2>5, <4>1
    <3>2. QED
      BY <3>1 DEF RunIn
  <2>8. QED
    BY <1>1, <2>5, <2>6, <2>7, NoFourDigits
<1>10. QED
  BY <1>7, <1>8, <1>9

\* The two layouts of a card: sixteen digits.
LEMMA VisaDigits ==
    ASSUME NEW s \in Seq(Int), Whole(s, <<One({4}), Many(Digits, 15)>>)
    PROVE  Len(s) = 16 /\ \A k \in 1..16 : s[k] \in Digits
<1> DEFINE shape == <<One({4}), Many(Digits, 15)>>
<1>1. /\ One({4}) = Many({4}, 1) /\ Many({4}, 1) \in Items /\ Many(Digits, 15) \in Items
  <2>1. {4} \in SUBSET Int /\ Digits \in SUBSET Int /\ 1 \in Nat /\ 15 \in Nat
    BY RuneSets
  <2>2. One({4}) = Many({4}, 1)
    BY DEF One, Many
  <2>3. Many({4}, 1) \in Items /\ Many(Digits, 15) \in Items
    BY <2>1, ItemTypes, Zenon
  <2>4. QED
    BY <2>2, <2>3
<1>2. /\ shape \in Seq(Items) /\ Len(shape) = 2 /\ shape[1] = Many({4}, 1)
      /\ shape[2] = Many(Digits, 15)
  BY <1>1
<1>3. Whole(s, shape)
  OBVIOUS
<1> HIDE DEF shape
<1>4. IsShape(shape)
  BY <1>2, ItemFacts
<1>5. PICK c \in [0..Len(shape) -> 0..Len(s)] :
               /\ c[0] = 0 /\ c[Len(shape)] = Len(s)
               /\ \A k \in 1..Len(shape) : ItemOf(s, c[k - 1], c[k], shape[k])
  BY <1>3, <1>4, WholeItems
<1>6. /\ 1 \in 1..2 /\ 2 \in 1..2 /\ 1 - 1 = 0 /\ 2 - 1 = 1
      /\ 1 \in Nat /\ 15 \in Nat
  OBVIOUS
<1>7. ItemOf(s, 0, c[1], Many({4}, 1)) /\ ItemOf(s, c[1], Len(s), Many(Digits, 15))
  BY <1>2, <1>5, <1>6, Zenon
<1> HIDE <1>5
<1> DEFINE p == c[1]
<1>8. ItemOf(s, 0, p, Many({4}, 1)) /\ ItemOf(s, p, Len(s), Many(Digits, 15))
  BY <1>7
<1> HIDE DEF p
<1>9. p = 0 + 1 /\ RunIn(s, 0, p, {4})
  BY <1>6, <1>8, ItemRun
<1>10. Len(s) = p + 15 /\ RunIn(s, p, Len(s), Digits)
  BY <1>6, <1>8, ItemRun
<1>11. Len(s) = 16 /\ p = 1
  BY <1>9, <1>10
<1>12. ASSUME NEW k \in 1..16 PROVE s[k] \in Digits
  <2>1. CASE k = 1
    BY <1>9, <1>11, <2>1 DEF RunIn, Digits
  <2>2. CASE k \in 2..16
    BY <1>10, <1>11, <2>2 DEF RunIn
  <2>3. QED
    BY <2>1, <2>2
<1>13. QED
  BY <1>11, <1>12

LEMMA MasterCardDigits ==
    ASSUME NEW s \in Seq(Int), Whole(s, <<One({5}), One(1..5), Many(Digits, 14)>>)
    PROVE  Len(s) = 16 /\ \A k \in 1..16 : s[k] \in Digits
<1> DEFINE shape == <<One({5}), One(1..5), Many(Digits, 14)>>
<1>1. /\ One({5}) = Many({5}, 1) /\ Many({5}, 1) \in Items /\ Many(Digits, 14) \in Items
      /\ One(1..5) = Many(1..5, 1) /\ Many(1..5, 1) \in Items
  <2>1. {5} \in SUBSET Int /\ 1..5 \in SUBSET Int /\ Digits \in SUBSET Int /\ 1 \in Nat /\ 14 \in Nat
    BY RuneSets
  <2>2. One({5}) = Many({5}, 1) /\ One(1..5) = Many(1..5, 1)
    BY DEF One, Many
  <2>3. Many({5}, 1) \in Items /\ Many(1..5, 1) \in Items /\ Many(Digits, 14) \in Items
    BY <2>1, ItemTypes, Zenon
  <2>4. QED
    BY <2>2, <2>3
<1>2. /\ shape \in Seq(Items) /\ Len(shape) = 3 /\ shape[1] = Many({5}, 1)
      /\ shape[2] = Many(1..5, 1) /\ shape[3] = Many(Digits, 14)
  BY <1>1
<1>3. Whole(s, shape)
  OBVIOUS
<1> HIDE DEF shape
<1>4. IsShape(shape)
  BY <1>2, ItemFacts
<1>5. PICK c \in [0..Len(shape) -> 0..Len(s)] :
               /\ c[0] = 0 /\ c[Len(shape)] = Len(s)
               /\ \A k \in 1..Len(shape) : ItemOf(s, c[k - 1], c[k], shape[k])
  BY <1>3, <1>4, WholeItems
<1>6. /\ 1 \in 1..3 /\ 2 \in 1..3 /\ 3 \in 1..3 /\ 1 - 1 = 0 /\ 2 - 1 = 1 /\ 3 - 1 = 2
      /\ 1 \in Nat /\ 14 \in Nat
  OBVIOUS
<1>7. /\ ItemOf(s, 0, c[1], Many({5}, 1)) /\ ItemOf(s, c[1], c[2], Many(1..5, 1))
      /\ ItemOf(s, c[2], Len(s), Many(Digits, 14))
  BY <1>2, <1>5, <1>6, Zenon
<1> HIDE <1>5
<1> DEFINE p == c[1]
           q == c[2]
           D == 1..5
<1>8. /\ ItemOf(s, 0, p, Many({5}, 1)) /\ ItemOf(s, p, q, Many(D, 1))
      /\ ItemOf(s, q, Len(s), Many(Digits, 14))
  BY <1>7
<1> HIDE DEF p, q, D
<1>9. p = 0 + 1 /\ RunIn(s, 0, p, {5})
  BY <1>6, <1>8, ItemRun
<1>10. q = p + 1 /\ RunIn(s, p, q, D)
  BY <1>6, <1>8, ItemRun
<1>11. Len(s) = q + 14 /\ RunIn(s, q, Len(s), Digits)
  BY <1>6, <1>8, ItemRun
<1>12. Len(s) = 16 /\ p = 1 /\ q = 2
  BY <1>9, <1>10, <1>11
<1>13. ASSUME NEW k \in 1..16 PROVE s[k] \in Digits
  <2>1. CASE k = 1
    BY <1>9, <1>12, <2>1 DEF RunIn, Digits
  <2>2. CASE k = 2
    BY <1>10, <1>12, <2>2 DEF RunIn, Digits, D
  <2>3. CASE k \in 3..16
    BY <1>11, <1>12, <2>3 DEF RunIn
  <2>4. QED
    BY <2>1, <2>2, <2>3
<1>14. QED
  BY <1>12, <1>13

\* A card has sixteen digits, spaces and dashes.
LEMMA CardText ==
    ASSUME NEW s \in Seq(Int), CreditCardMatcher(s)
    PROVE  /\ Len(cardNumber(s)) = 16 /\ Len(Keep(s, Digits)) = 16
           /\ \A k \in 1..Len(s) : s[k] \in Digits \/ s[k] \in {Space, Dash}
<1> DEFINE S == Int \ {Space, Dash}
           D == Digits
           c == Keep(s, S)
<1>1. c \in Seq(Int) /\ cardNumber(s) = c
  BY KeepFacts DEF cardNumber, stripChars
<1>2. Len(c) = 16 /\ \A k \in 1..16 : c[k] \in D
  BY <1>1, VisaDigits, MasterCardDigits
     DEF CreditCardMatcher, MatchVisaCreditCard, MatchMasterCardCreditCard
<1>3. \A r \in Int : r \in D <=> r \in D /\ r \in S
  BY DEF Digits, Space, Dash
<1>4. \A k \in 1..Len(s) : s[k] \in S \/ s[k] \in {Space, Dash}
  OBVIOUS
<1> HIDE DEF S, D
<1>5. \A k \in 1..Len(s) : s[k] \in S => \E j \in 1..Len(c) : c[j] = s[k]
  BY KeptRunes
<1>6. \A k \in 1..Len(s) : s[k] \in D \/ s[k] \in {Space, Dash}
  BY <1>2, <1>4, <1>5
<1>7. Keep(c, D) = Keep(s, D)
  BY <1>3, KeepTwice
<1> HIDE DEF c
<1>8. Keep(c, D) = c
  BY <1>1, <1>2, AllKept
<1>9. QED
  BY <1>1, <1>2, <1>6, <1>7, <1>8 DEF D

\* What each of the others says.
LEMMA VINText ==
    ASSUME NEW s \in Seq(Int), MatchVIN(s)
    PROVE  Len(s) = 17 /\ \A k \in 1..Len(s) : s[k] \in Digits \cup Letters
<1>1. DOMAIN s = 1..Len(s)
  OBVIOUS
<1>2. QED
  BY <1>1 DEF MatchVIN, isValidVINChar

\* An e-mail has an '@'.
LEMMA EmailText ==
    ASSUME NEW s \in Seq(Int), MatchEmailV2(s)
    PROVE  \E k \in 1..Len(s) : s[k] = At
<1>1. DOMAIN s = 1..Len(s)
  OBVIOUS
<1>2. QED
  BY <1>1 DEF MatchEmailV2

\* A digit, a space or a dash has no upper case.
LEMMA PlainRunes ==
    \A r : r \in Digits \/ r \in {Space, Dash} => ~isUpper(UpperRune(r))
<1> SUFFICES ASSUME NEW r, r \in Digits \/ r \in {Space, Dash} PROVE ~isUpper(UpperRune(r))
  OBVIOUS
<1>1. r \in -16..9
  BY DEF Digits, Space, Dash
<1>2. UpperRune(r) = r
  <2>1. ~isLower(r) /\ r # DotlessI /\ r # LongS /\ r # TurnedA
    BY <1>1 DEF isLower, DotlessI, LongS, TurnedA
  <2>2. QED
    BY <2>1 DEF UpperRune
<1>3. QED
  BY <1>1, <1>2 DEF isUpper

\* An alphanumeric CNPJ has a letter, and is no numeric one: the letter is one
\* of the fourteen runes MatchCNPJ would have to find digits.
LEMMA CNPJV2Text ==
    ASSUME NEW s \in Seq(Int), MatchCNPJV2(s)
    PROVE  /\ \E k \in 1..Len(s) : isUpper(UpperRune(s[k]))
           /\ ~MatchCNPJ(s)
<1> DEFINE B == Int \ Formatting
           D == Digits
           c == Keep(s, B)
<1>1. PICK u \in alphaCandidates(s) : TRUE
  BY DEF MatchCNPJV2
<1>2. /\ c \in Seq(Int) /\ Len(c) = 14 /\ u = ToUpper(c) /\ hasLetters(u)
      /\ u \in Seq(Int) /\ Len(u) = 14
  BY CandidateFacts DEF cleanCNPJFormat
<1>3. \A r \in Int : r \in D <=> r \in D /\ r \in B
  BY DEF Digits, Formatting
<1> HIDE DEF B, D
<1>4. \A j \in 1..Len(c) : c[j] \in B /\ \E k \in 1..Len(s) : c[j] = s[k]
  BY KeptRunes
<1>5. Keep(c, D) = Keep(s, D)
  BY <1>3, KeepTwice
<1> HIDE DEF c
<1>6. PICK j \in 1..14 : isUpper(u[j])
  <2>1. DOMAIN u = 1..14
    BY <1>2
  <2>2. QED
    BY <1>2, <2>1 DEF hasLetters
<1>7. u[j] = UpperRune(c[j])
  BY <1>2, <1>6, UpperFacts
<1>8. \E k \in 1..Len(s) : isUpper(UpperRune(s[k]))
  BY <1>2, <1>4, <1>6, <1>7
<1>9. ASSUME MatchCNPJ(s) PROVE FALSE
  <2>1. Len(Keep(s, D)) = 14
    BY <1>9 DEF MatchCNPJ, D
  <2>2. Len(Keep(c, D)) = Len(c)
    BY <1>2, <1>5, <2>1
  <2>3. \A k \in 1..Len(c) : c[k] \in D
    BY <1>2, <2>2, AllKept
  <2>4. c[j] \in D
    BY <1>2, <1>6, <2>3
  <2>5. ~isUpper(UpperRune(c[j]))
    BY <2>4, PlainRunes DEF D
  <2>6. QED
    BY <1>6, <1>7, <2>5
<1>10. QED
  BY <1>8, <1>9

\* An e-mail address is none of the others the table leaves out.
LEMMA EmailAlone ==
    ASSUME NEW s \in Seq(Int), EmailMatcher(s)
    PROVE  ~IPMatcher(s) /\ ~CreditCardMatcher(s) /\ ~VINMatcher(s) /\ ~PhoneMatcher(s)
<1>1. PICK k \in 1..Len(s) : s[k] = At
  BY EmailText DEF EmailMatcher
<1>2. /\ At \notin Digits /\ At # Dot /\ At \notin especialChars /\ At \notin {Space, Dash}
      /\ At \notin Digits \cup Letters
  BY DEF At, Digits, Dot, Dash, especialChars, Space, Letters
<1>3. ~IPMatcher(s)
  BY <1>1, <1>2, IPText DEF IPMatcher
<1>4. ~CreditCardMatcher(s)
  BY <1>1, <1>2, CardText
<1>5. ~VINMatcher(s)
  BY <1>1, <1>2, VINText DEF VINMatcher
<1>6. ~PhoneMatcher(s)
  BY DEF EmailMatcher, PhoneMatcher
<1>7. QED
  BY <1>3, <1>4, <1>5, <1>6

\* An UUID of any version is a GUID.
LEMMA UUIDText ==
    ASSUME NEW s \in Seq(Int), UUIDMatcher(s)
    PROVE  TwoRuns(s) /\ HasRun(s, HexDigits, 8)
<1>1. Matchguid(s)
  BY UUIDsAreGUIDs DEF UUIDMatcher
<1>2. QED
  BY <1>1, GUIDRuns

\* An IP address has a dot, and no four digits in a row.
LEMMA IPAlone ==
    ASSUME NEW s \in Seq(Int), IPMatcher(s)
    PROVE  /\ ~CreditCardMatcher(s) /\ ~VINMatcher(s) /\ ~PhoneMatcher(s) /\ ~SSNMatcher(s)
           /\ ~BankInfoMatcher(s) /\ ~UUIDMatcher(s)
<1>1. /\ \A k \in 1..Len(s) : s[k] \in Digits \/ s[k] = Dot \/ s[k] \in especialChars
      /\ \E k \in 1..Len(s) : s[k] = Dot
      /\ ~HasRun(s, Digits, 4)
  BY IPText DEF IPMatcher
<1>2. /\ Dot \notin Digits /\ Dot \notin {Space, Dash} /\ Dot \notin Digits \cup Letters
      /\ Dot \notin HexDigits
  BY DEF Digits, Dot, Dash, Space, Letters, HexDigits
<1>3. ~CreditCardMatcher(s)
  BY <1>1, <1>2, CardText
<1>4. ~VINMatcher(s)
  BY <1>1, <1>2, VINText DEF VINMatcher
<1>5. ~PhoneMatcher(s)
  BY <1>1, PhoneRun DEF PhoneMatcher
<1>6. ~SSNMatcher(s)
  BY <1>1, SSNRuns DEF SSNMatcher
<1>7. ~BankInfoMatcher(s)
  BY <1>1, IBANRuns DEF BankInfoMatcher
<1>8. ~UUIDMatcher(s)
  <2>1. \A r \in HexDigits : r \notin especialChars
    BY DEF HexDigits, Digits, especialChars, Dash
  <2>2. ASSUME HasRun(s, HexDigits, 8) PROVE HasRun(s, Digits, 8)
    <3>1. PICK p \in 0..Len(s) : p + 8 <= Len(s) /\ RunIn(s, p, p + 8, HexDigits)
      BY <2>2 DEF HasRun
    <3>2. ASSUME NEW j \in (p + 1)..(p + 8) PROVE s[j] \in Digits
      <4>1. j \in 1..Len(s)
        BY <3>1
      <4>2. s[j] \in HexDigits
        BY <3>1 DEF RunIn
      <4>3. QED
        BY <1>1, <1>2, <2>1, <4>1, <4>2
    <3>3. RunIn(s, p, p + 8, Digits)
      BY <3>2 DEF RunIn
    <3>4. QED
      BY <3>1, <3>3 DEF HasRun
  <2>3. HasRun(s, Digits, 8) => HasRun(s, Digits, 4)
    BY ShorterRun
  <2>4. QED
    BY <1>1, <2>2, <2>3, UUIDText
<1>9. QED
  BY <1>3, <1>4, <1>5, <1>6, <1>7, <1>8

\* Two runs that are kept are as long as that together.
LEMMA TwoRunsKept ==
    ASSUME NEW s \in Seq(Int), NEW S, TwoRuns(s), Within(HexDigits, S)
    PROVE  Len(Keep(s, S)) >= 20
<1>1. PICK p, q \in 0..Len(s) : /\ p + 8 <= q /\ q + 12 <= Len(s)
                                /\ RunIn(s, p, p + 8, HexDigits)
                                /\ RunIn(s, q, q + 12, HexDigits)
  BY DEF TwoRuns
<1> DEFINE p1 == p + 8
           q1 == q + 12
           T == Kept(s, S)
<1>2. /\ Len(s) \in Nat /\ p1 \in 0..Len(s) /\ q1 \in 0..Len(s) /\ p <= p1 /\ q <= q1 /\ p1 <= q
      /\ p1 - p = 8 /\ q1 - q = 12
  BY <1>1
<1>3. RunIn(s, p, p1, HexDigits) /\ RunIn(s, q, q1, HexDigits)
  BY <1>1
<1> HIDE <1>1
<1> HIDE DEF p1, q1
<1>4. RunIn(s, p, p1, S) /\ RunIn(s, q, q1, S)
  BY <1>3 DEF RunIn, Within
<1>5. Len(T[p]) \in Nat /\ Len(T[p1]) = Len(T[p]) + (p1 - p)
  <2>1. Copied(s, S, p, p1)
    BY <1>2, <1>4, RunKept
  <2>2. QED
    BY <2>1, Zenon DEF Copied
<1>6. Len(T[q]) \in Nat /\ Len(T[q1]) = Len(T[q]) + (q1 - q) /\ Len(T[q1]) <= Len(Keep(s, S))
  <2>1. Copied(s, S, q, q1)
    BY <1>2, <1>4, RunKept
  <2>2. QED
    BY <2>1, Zenon DEF Copied
<1>7. Len(T[p1]) <= Len(T[q])
  BY <1>2, KeptGrows DEF Grown
<1>8. Len(Keep(s, S)) \in Nat
  BY KeepFacts
<1> DEFINE a == Len(T[p])
           b == Len(T[p1])
           c == Len(T[q])
           d == Len(T[q1])
           l == Len(Keep(s, S))
<1>9. b = a + 8
  BY <1>2, <1>5
<1>10. d = c + 12
  BY <1>2, <1>6
<1>11. a \in Nat /\ c \in Nat /\ l \in Nat /\ b <= c /\ d <= l
  BY <1>5, <1>6, <1>7, <1>8
<1> HIDE DEF a, b, c, d, l
<1>12. l >= 20
  BY <1>9, <1>10, <1>11
<1>13. QED
  BY <1>12 DEF l

\* A card has sixteen digits, and nothing else but spaces and dashes.
LEMMA CardAlone ==
    ASSUME NEW s \in Seq(Int), CreditCardMatcher(s)
    PROVE  /\ ~VINMatcher(s) /\ ~BankInfoMatcher(s) /\ ~UUIDMatcher(s)
           /\ ~CPFMatcher(s) /\ ~CNPJMatcher(s)
<1>1. /\ Len(cardNumber(s)) = 16 /\ Len(Keep(s, Digits)) = 16
      /\ \A k \in 1..Len(s) : s[k] \in Digits \/ s[k] \in {Space, Dash}
  BY CardText
<1> DEFINE S == Int \ {Space, Dash}
<1>2. cardNumber(s) = Keep(s, S)
  BY DEF cardNumber, stripChars
<1>3. ~VINMatcher(s)
  <2>1. SUFFICES ASSUME VINMatcher(s) PROVE FALSE
    OBVIOUS
  <2>2. Len(s) = 17 /\ \A k \in 1..Len(s) : s[k] \in Digits \cup Letters
    BY <2>1, VINText DEF VINMatcher
  <2>3. \A r \in Digits \cup Letters : r \in S
    BY DEF Digits, Letters, Space, Dash
  <2> HIDE DEF S
  <2>4. \A k \in 1..Len(s) : s[k] \in S
    BY <2>2, <2>3
  <2>5. Keep(s, S) = s
    BY <2>4, AllKept
  <2>6. Len(Keep(s, S)) = 16
    BY <1>1, <1>2, Zenon
  <2>7. Len(s) = 16
    BY <2>5, <2>6, Zenon
  <2>8. Len(s) = 17
    BY <2>2, Zenon
  <2>9. 16 # 17
    OBVIOUS
  <2>10. QED
    BY <2>7, <2>8, <2>9, Zenon
<1>4. ~BankInfoMatcher(s)
  <2>1. SUFFICES ASSUME BankInfoMatcher(s) PROVE FALSE
    OBVIOUS
  <2>2. HasRun(s, FoldedLetters, 2)
    BY <2>1, IBANRuns DEF BankInfoMatcher
  <2>3. \E k \in 1..Len(s) : s[k] \in FoldedLetters
    BY <2>2, ShorterRun
  <2>4. \A r \in FoldedLetters : r \notin Digits /\ r \notin {Space, Dash}
    BY DEF FoldedLetters, Letters, LongS, Digits, Space, Dash
  <2>5. QED
    BY <1>1, <2>3, <2>4
<1>5. ~UUIDMatcher(s)
  <2>1. SUFFICES ASSUME UUIDMatcher(s) PROVE FALSE
    OBVIOUS
  <2>2. TwoRuns(s)
    BY <2>1, UUIDText
  <2>3. Within(HexDigits, S)
    BY DEF Within, HexDigits, Digits, Space, Dash
  <2> HIDE DEF S
  <2>4. Len(Keep(s, S)) >= 20
    BY <2>2, <2>3, TwoRunsKept
  <2>5. Len(Keep(s, S)) = 16
    BY <1>1, <1>2, Zenon
  <2>6. QED
    BY <2>4, <2>5
<1>6. ~CPFMatcher(s)
  BY <1>1 DEF CPFMatcher, MatchCPF
<1>7. ~MatchCNPJ(s)
  BY <1>1 DEF MatchCNPJ
<1>8. ~MatchCNPJV2(s)
  BY <1>1, CNPJV2Text, PlainRunes
<1>9. QED
  BY <1>3, <1>4, <1>5, <1>6, <1>7, <1>8 DEF CNPJMatcher

\* A VIN has seventeen digits and letters, and no separator.
LEMMA VINAlone ==
    ASSUME NEW s \in Seq(Int), VINMatcher(s)
    PROVE  ~SSNMatcher(s) /\ ~UUIDMatcher(s)
<1>1. Len(s) = 17 /\ \A k \in 1..Len(s) : s[k] \in Digits \cup Letters
  BY VINText DEF VINMatcher
<1>2. ~SSNMatcher(s)
  <2>1. SUFFICES ASSUME SSNMatcher(s) PROVE FALSE
    OBVIOUS
  <2>2. HasRun(s, {Dash, Space}, 1)
    BY <2>1, SSNRuns DEF SSNMatcher
  <2>3. \E k \in 1..Len(s) : s[k] \in {Dash, Space}
    BY <2>2, ShorterRun
  <2>4. \A r \in Digits \cup Letters : r \notin {Dash, Space}
    BY DEF Letters, Digits, Space, Dash
  <2>5. QED
    BY <1>1, <2>3, <2>4
<1>3. ~UUIDMatcher(s)
  <2>1. SUFFICES ASSUME UUIDMatcher(s) PROVE FALSE
    OBVIOUS
  <2>2. PICK p, q \in 0..Len(s) : p + 8 <= q /\ q + 12 <= Len(s)
    BY <2>1, UUIDText DEF TwoRuns
  <2>3. QED
    BY <1>1, <2>2
<1>4. QED
  BY <1>2, <1>3

\* Who claims a text.
Claimed(s, x) ==
    \/ x = "EMAIL" /\ EmailMatcher(s)
    \/ x = "IP_ADDRESS" /\ IPMatcher(s)
    \/ x = "CREDIT_CARD" /\ CreditCardMatcher(s)
    \/ x = "VIN" /\ VINMatcher(s)
    \/ x = "PHONE" /\ PhoneMatcher(s)
    \/ x = "SSN" /\ SSNMatcher(s)
    \/ x = "BANK_INFO" /\ BankInfoMatcher(s)
    \/ x = "UUID" /\ UUIDMatcher(s)
    \/ x = "CPF" /\ CPFMatcher(s)
    \/ x = "CNPJ" /\ CNPJMatcher(s)

\* A pair of a table of claims, whose second component holds.
LEMMA PairHolds ==
    ASSUME NEW a, NEW b, NEW d, d = <<a, b>>, d[2]
    PROVE  d[1] = a /\ b
BY Zenon

\* The claims, one by one.
LEMMA ClaimsAre ==
    ASSUME NEW s, NEW x \in Claims(s)
    PROVE  Claimed(s, x)
<1> DEFINE D == { <<"EMAIL", EmailMatcher(s)>>, <<"IP_ADDRESS", IPMatcher(s)>>,
                  <<"CREDIT_CARD", CreditCardMatcher(s)>>, <<"VIN", VINMatcher(s)>>,
                  <<"PHONE", PhoneMatcher(s)>>, <<"SSN", SSNMatcher(s)>>,
                  <<"BANK_INFO", BankInfoMatcher(s)>>, <<"UUID", UUIDMatcher(s)>>,
                  <<"CPF", CPFMatcher(s)>>, <<"CNPJ", CNPJMatcher(s)>> }
<1>1. PICK d \in D : d[2] /\ x = d[1]
  BY Zenon DEF Claims
<1>2. CASE d = <<"EMAIL", EmailMatcher(s)>>
  BY <1>1, <1>2, PairHolds, Zenon DEF Claimed
<1>3. CASE d = <<"IP_ADDRESS", IPMatcher(s)>>
  BY <1>1, <1>3, PairHolds, Zenon DEF Claimed
<1>4. CASE d = <<"CREDIT_CARD", CreditCardMatcher(s)>>
  BY <1>1, <1>4, PairHolds, Zenon DEF Claimed
<1>5. CASE d = <<"VIN", VINMatcher(s)>>
  BY <1>1, <1>5, PairHolds, Zenon DEF Claimed
<1>6. CASE d = <<"PHONE", PhoneMatcher(s)>>
  BY <1>1, <1>6, PairHolds, Zenon DEF Claimed
<1>7. CASE d = <<"SSN", SSNMatcher(s)>>
  BY <1>1, <1>7, PairHolds, Zenon DEF Claimed
<1>8. CASE d = <<"BANK_INFO", BankInfoMatcher(s)>>
  BY <1>1, <1>8, PairHolds, Zenon DEF Claimed
<1>9. CASE d = <<"UUID", UUIDMatcher(s)>>
  BY <1>1, <1>9, PairHolds, Zenon DEF Claimed
<1>10. CASE d = <<"CPF", CPFMatcher(s)>>
  BY <1>1, <1>10, PairHolds, Zenon DEF Claimed
<1>11. CASE d = <<"CNPJ", CNPJMatcher(s)>>
  BY <1>1, <1>11, PairHolds, Zenon DEF Claimed
<1>12. QED
  BY <1>1, <1>2, <1>3, <1>4, <1>5, <1>6, <1>7, <1>8, <1>9, <1>10, <1>11, Zenon

\* What EntitiesDisjoint says of a text.
LEMMA TextEntitiesDisjoint ==
    ASSUME NEW s \in Seq(Int)
    PROVE  /\ \A e \in Claims(s) \cap DOMAIN Reported : Claims(s) \subseteq Reported[e] \cup {e}
           /\ ~(MatchCNPJ(s) /\ MatchCNPJV2(s))
<1>1. ASSUME NEW e \in Claims(s), e \in DOMAIN Reported, NEW x \in Claims(s)
      PROVE  x \in Reported[e] \cup {e}
  <2>1. Claimed(s, e) /\ Claimed(s, x)
    BY ClaimsAre
  <2>2. e \in {"EMAIL", "IP_ADDRESS", "CREDIT_CARD", "VIN"}
    BY <1>1 DEF Reported
  <2>3. CASE e = "EMAIL"
    <3>1. EmailMatcher(s)
      BY <2>1, <2>3 DEF Claimed
    <3>2. x \in {"EMAIL", "SSN", "UUID", "BANK_INFO", "CPF", "CNPJ"}
      BY <2>1, <3>1, EmailAlone DEF Claimed
    <3>3. QED
      BY <2>3, <3>2 DEF Reported
  <2>4. CASE e = "IP_ADDRESS"
    <3>1. IPMatcher(s)
      BY <2>1, <2>4 DEF Claimed
    <3>2. x \in {"IP_ADDRESS", "CPF", "CNPJ"}
      BY <2>1, <3>1, EmailAlone, IPAlone DEF Claimed
    <3>3. QED
      BY <2>4, <3>2 DEF Reported
  <2>5. CASE e = "CREDIT_CARD"
    <3>1. CreditCardMatcher(s)
      BY <2>1, <2>5 DEF Claimed
    <3>2. x \in {"CREDIT_CARD", "PHONE", "SSN"}
      BY <2>1, <3>1, EmailAlone, IPAlone, CardAlone DEF Claimed
    <3>3. QED
      BY <2>5, <3>2 DEF Reported
  <2>6. CASE e = "VIN"
    <3>1. VINMatcher(s)
      BY <2>1, <2>6 DEF Claimed
    <3>2. x \in {"VIN", "PHONE", "BANK_INFO", "CPF", "CNPJ"}
      BY <2>1, <3>1, EmailAlone, IPAlone, CardAlone, VINAlone DEF Claimed
    <3>3. QED
      BY <2>6, <3>2 DEF Reported
  <2>7. QED
    BY <2>2, <2>3, <2>4, <2>5, <2>6
<1>2. ~(MatchCNPJ(s) /\ MatchCNPJV2(s))
  BY CNPJV2Text
<1>3. QED
  BY <1>1, <1>2, Zenon

-----------------------------------------------------------------------------
(* The specification.                                                      *)

\* The text at hand is a sequence of runes.
TextOK == text \in Seq(Int)

\* A text of runes is one of integers.
LEMMA TextsArePlain ==
    ASSUME NEW s \in Seq(Runes)
    PROVE  s \in Seq(Int)
<1>1. \A r \in Runes : r \in Int
  BY DEF Runes
<1> HIDE DEF Runes
<1>2. s \in [1..Len(s) -> Runes] /\ Len(s) \in Nat
  BY LenProperties
<1>3. s = [k \in 1..Len(s) |-> s[k]] /\ \A k \in 1..Len(s) : s[k] \in Int
  BY <1>1, <1>2
<1>4. QED
  BY <1>2, <1>3

\* An edit of a text is a text.
LEMMA TextInv == MCSpec => []TextOK
<1>1. MCInit => TextOK
  <2>1. MCInit => text = <<>> \/ text \in Seeds
    BY Zenon DEF MCInit
  <2>2. <<>> \in Seq(Int)
    BY EmptySeq
  <2>3. text \in Seeds => text \in Seq(Int)
    BY TextsArePlain, TextsAssumption
  <2>4. QED
    BY <2>1, <2>2, <2>3, Zenon DEF TextOK
<1>2. TextOK /\ [MCNext]_allVars => TextOK'
  <2> SUFFICES ASSUME TextOK, [MCNext]_allVars PROVE text' \in Seq(Int)
    BY DEF TextOK
  <2>1. CASE UNCHANGED text
    BY <2>1 DEF TextOK
  <2>2. text \in Seq(Int) /\ Len(text) \in Nat /\ DOMAIN text = 1..Len(text)
    BY DEF TextOK
  <2>3. ASSUME NEW k \in DOMAIN text, NEW r \in Alphabet, Replace(k, r)
        PROVE  text' \in Seq(Int)
    <3>1. r \in Int /\ text' = [text EXCEPT ![k] = r]
      BY <2>3, TextsAssumption DEF Runes, Replace, Edit
    <3>2. QED
      BY <2>2, <3>1, ExceptSeq
  <2>4. ASSUME NEW a \in Nat, NEW b \in Nat, b <= Len(text)
        PROVE  SubSeq(text, a + 1, b) \in Seq(Int)
    <3> DEFINE a1 == a + 1
    <3>1. a1 \in Int /\ b \in Int /\ \A j \in a1..b : text[j] \in Int
      BY <2>2, <2>4
    <3> HIDE DEF a1
    <3>2. SubSeq(text, a1, b) \in Seq(Int)
      BY <3>1, SubSeqProperties
    <3>3. QED
      BY <3>2 DEF a1
  <2>5. ASSUME NEW k \in 0..Len(text), NEW r \in Alphabet, Insert(k, r)
        PROVE  text' \in Seq(Int)
    <3> DEFINE x == SubSeq(text, 1, k)
               y == <<r>>
               z == SubSeq(text, k + 1, Len(text))
    <3>1. text' = x \o y \o z
      BY <2>5 DEF Insert, Edit
    <3>2. x \in Seq(Int)
      <4>1. SubSeq(text, 0 + 1, k) \in Seq(Int)
        BY <2>2, <2>4
      <4>2. QED
        BY <4>1
    <3>3. z \in Seq(Int)
      BY <2>2, <2>4
    <3>4. y \in Seq(Int)
      BY TextsAssumption DEF Runes
    <3> HIDE DEF x, y, z
    <3>5. x \o y \in Seq(Int)
      BY <3>2, <3>4, ConcatProperties
    <3>6. (x \o y) \o z \in Seq(Int)
      BY <3>3, <3>5, ConcatProperties
    <3>7. QED
      BY <3>1, <3>6
  <2>6. ASSUME NEW k \in DOMAIN text, Delete(k)
        PROVE  text' \in Seq(Int)
    <3> DEFINE x == SubSeq(text, 1, k - 1)
               z == SubSeq(text, k + 1, Len(text))
    <3>1. text' = x \o z
      BY <2>6 DEF Delete, Edit
    <3>2. x \in Seq(Int)
      <4>1. k - 1 \in Nat /\ k - 1 <= Len(text)
        BY <2>2
      <4>2. SubSeq(text, 0 + 1, k - 1) \in Seq(Int)
        BY <2>4, <4>1
      <4>3. QED
        BY <4>2
    <3>3. z \in Seq(Int)
      BY <2>2, <2>4
    <3> HIDE DEF x, z
    <3>4. QED
      BY <3>1, <3>2, <3>3, ConcatProperties
  <2>7. QED
    BY <2>1, <2>3, <2>5, <2>6 DEF MCNext, EditText, allVars, textVars
<1>3. QED
  BY <1>1, <1>2, PTL DEF MCSpec

\* cnpjAlphaToNumeric never indexes its slice of fourteen out of range: of
\* whatever text, what bytes.ToUpper makes of the fourteen runes that were
\* counted before it and validateAlphaFormat lets through is fourteen bytes.
THEOREM SliceAlwaysFits == MCSpec => []NumericSliceFits
<1>1. TextOK => NumericSliceFits
  BY SliceFits DEF TextOK, NumericSliceFits
<1>2. QED
  BY <1>1, TextInv, PTL

\* The matchers of matcher.go, on whatever text: an e-mail, an IP address, a
\* card or a VIN is claimed by none of the rules that Reported leaves out, and
\* MatchCNPJ and MatchCNPJV2 never accept the same text.
THEOREM EntitiesAreDisjoint == MCSpec => []EntitiesDisjoint
<1>1. TextOK => EntitiesDisjoint
  BY TextEntitiesDisjoint DEF TextOK, EntitiesDisjoint
<1>2. QED
  BY <1>1, TextInv, PTL

\* The functions of regex.go that look for the same thing agree on whatever
\* text: the UUID patterns with Matchguid, matchPhoneFormat2 with
\* matchPhoneFormat1, MatchIP with MatchIPV4, BrazilianPIIMatcher with the CPF
\* and the CNPJ matcher.
THEOREM AllVersionsAgree == MCSpec => []VersionsAgree
<1>1. TextOK => VersionsAgree
  BY TextVersionsAgree DEF TextOK, VersionsAgree
<1>2. QED
  BY <1>1, TextInv, PTL

\* OneCompletion in whatever text: validateCPFCheckDigits and the checksums of
\* MatchCNPJ leave no number without check digits and none with a choice.
THEOREM CheckDigitsComplete == MCSpec => []OneCompletion
<1>1. TextOK => OneCompletion
  BY OneCPF, OneCNPJ DEF TextOK, OneCompletion
<1>2. QED
  BY <1>1, TextInv, PTL

\* The signs stripChars and its like drop never change the verdict of the matcher
\* that drops them, in whatever text and wherever they stand.
THEOREM SeparatorsAreInvisible == MCSpec => SeparatorsInvisible
<1> DEFINE A ==
        /\ DifferBy({Space, Dash}) =>
             /\ MatchVisaCreditCard(text) <=> MatchVisaCreditCard(text')
             /\ MatchMasterCardCreditCard(text) <=> MatchMasterCardCreditCard(text')
        /\ DifferBy({Space, Dash, Dot, LParen, RParen}) =>
             (matchPhoneFormat1(text) <=> matchPhoneFormat1(text'))
        /\ DifferBy({Dash}) => (IPMatcher(text) <=> IPMatcher(text'))
        /\ DifferBy(Formatting) => (CNPJMatcher(text) <=> CNPJMatcher(text'))
<1>1. TextOK /\ TextOK' => A
  BY SameVerdicts, Zenon DEF TextOK, DifferBy
<1>2. TextOK /\ TextOK' => [A]_allVars
  BY <1>1
<1>3. QED
  BY <1>2, TextInv, PTL DEF SeparatorsInvisible
=============================================================================
