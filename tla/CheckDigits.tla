---------------------------- MODULE CheckDigits -----------------------------
(***************************************************************************)
(* The Brazilian identification numbers of pattern/regex.go: MatchCPF,     *)
(* MatchCNPJ and MatchCNPJV2.  A text is a sequence of runes, each written *)
(* as its code point minus 48, the offset the code itself subtracts: the   *)
(* digits are 0..9, 'A'..'Z' are 17..42 and 'a'..'z' are 49..74.           *)
(***************************************************************************)
EXTENDS Integers, Sequences

Digits == 0..9
isDigit(r)  == r \in Digits
isUpper(r)  == r \in 17..42
isLower(r)  == r \in 49..74

\* The runes cleanCNPJFormat removes: . / - " ] }
Formatting == {-2, -1, -3, -14, 45, 77}

\* Runes outside ASCII, of two bytes each, whose upper case has another number
\* of bytes: U+0131 becomes 'I', U+017F becomes 'S', and U+0250 becomes the
\* three bytes of U+2C6F.
DotlessI == 305 - 48
LongS == 383 - 48
TurnedA == 592 - 48
TurnedAUpper == 11375 - 48

\* UTF-8: the bytes of a rune, of the first k runes of a text for every k, and
\* of the text (len of the byte slice).
RuneBytes(r) == IF r + 48 < 128 THEN 1 ELSE IF r + 48 < 2048 THEN 2
                ELSE IF r + 48 < 65536 THEN 3 ELSE 4
Bytes(s) == LET bytes[k \in 0..Len(s)] == IF k = 0 THEN 0 ELSE bytes[k-1] + RuneBytes(s[k])
            IN  bytes
byteLen(s) == Bytes(s)[Len(s)]

\* bytes.ToUpper.  The other runes outside ASCII have an upper case outside
\* ASCII, which is neither a digit nor a capital and which nothing below tells
\* from the rune itself.
UpperRune(r) == CASE isLower(r)   -> r - 32
                  [] r = DotlessI -> 25
                  [] r = LongS    -> 35
                  [] r = TurnedA  -> TurnedAUpper
                  [] OTHER        -> r
ToUpper(s) == [k \in DOMAIN s |-> UpperRune(s[k])]

\* The loops that copy the runes to keep: what they have copied of the first k
\* runes of s, for every k, when they keep the members of S.
Kept(s, S) ==
    LET kept[k \in 0..Len(s)] ==
            IF k = 0 THEN <<>>
            ELSE IF s[k] \in S THEN Append(kept[k - 1], s[k]) ELSE kept[k - 1]
    IN  kept
Keep(s, S) == Kept(s, S)[Len(s)]

-----------------------------------------------------------------------------
(* Check digits.  A weighted sum of the first digits decides each.         *)

\* The sum on the way, after each weight, and at the end of the loop.
Sums(ds, ref) ==
    LET sum[k \in 0..Len(ref)] == IF k = 0 THEN 0 ELSE sum[k-1] + ref[k] * ds[k]
    IN  sum
WeightedSum(ds, ref) == Sums(ds, ref)[Len(ref)]

\* Mutant of cpfDigit: the remainder 10 stays.
cpfRemainder(sum) == (sum * 10) % 11

\* A CPF's digit from its sum: (sum * 10) % 11, where 10 becomes 0.
cpfDigit(sum) == IF (sum * 10) % 11 = 10 THEN 0 ELSE (sum * 10) % 11

\* A CNPJ's digit from its sum: the end of checksum.
cnpjDigit(sum) == IF sum % 11 < 2 THEN 0 ELSE 11 - (sum % 11)
checksum(ds, ref) == cnpjDigit(WeightedSum(ds, ref))

\* The weights the two loops of validateCPFCheckDigits compute; the second
\* digit's sum ends with the first computed digit times two.
cpfFirstTable  == [i \in 1..9 |-> 11 - i]
cpfSecondTable == [i \in 1..9 |-> 12 - i]

validateCPFCheckDigits(cpf) ==
    LET result1 == cpfDigit(WeightedSum(cpf, cpfFirstTable))
        result2 == cpfDigit(WeightedSum(cpf, cpfSecondTable) + result1 * 2)
    IN  cpf[10] = result1 /\ cpf[11] = result2

MatchCPF(s) == LET cpf == Keep(s, Digits)
               IN  Len(cpf) = 11 /\ validateCPFCheckDigits(cpf)

cnpjFirstDigitTable  == <<5, 4, 3, 2, 9, 8, 7, 6, 5, 4, 3, 2>>
cnpjSecondDigitTable == <<6, 5, 4, 3, 2, 9, 8, 7, 6, 5, 4, 3, 2>>

cnpjCheckDigits(ds) == /\ ds[13] = checksum(ds, cnpjFirstDigitTable)
                       /\ ds[14] = checksum(ds, cnpjSecondDigitTable)

MatchCNPJ(s) == LET cnpj == Keep(s, Digits)
                IN  Len(cnpj) = 14 /\ cnpjCheckDigits(cnpj)

-----------------------------------------------------------------------------
(* The alphanumeric CNPJ.                                                  *)

cleanCNPJFormat(s) == Keep(s, Int \ Formatting)

\* cnpjAlphanumRegexp, which is not anchored, on a text without formatting:
\* its two alternatives both ask for fourteen letters or digits in a row.
AlphanumRun(s, n) == \E k \in 1..(Len(s) - n + 1) :
                        \A j \in k..(k + n - 1) : isDigit(s[j]) \/ isUpper(s[j])

\* Mutant of cnpjAlphanumMatch: the two check digits are left out of the run.
cnpjAlphanumBody(s) == AlphanumRun(s, 12)

cnpjAlphanumMatch(s) == AlphanumRun(s, 14)

hasLetters(s) == \E k \in DOMAIN s : isUpper(s[k])

\* The texts that reach cnpjAlphaToNumeric, upper-cased: it fills a slice of
\* fourteen numbers from their bytes.
alphaCandidates(s) ==
    LET cnpj == cleanCNPJFormat(s)
    IN  IF /\ byteLen(cnpj) = 14
           /\ hasLetters(ToUpper(cnpj))
           /\ cnpjAlphanumMatch(ToUpper(cnpj))
        THEN {ToUpper(cnpj)} ELSE {}

\* int(b - 48) of the bytes; the bytes of a text of one-byte runes are its runes.
cnpjAlphaToNumeric(s) == [k \in 1..14 |-> IF k \in DOMAIN s THEN s[k] ELSE 0]

MatchCNPJV2(s) == \E cnpjUpper \in alphaCandidates(s) :
                     cnpjCheckDigits(cnpjAlphaToNumeric(cnpjUpper))

CNPJMatcher(s) == MatchCNPJ(s) \/ MatchCNPJV2(s)

=============================================================================
