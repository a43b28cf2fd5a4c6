---------------------------- MODULE TextMatchers ----------------------------
(***************************************************************************)
(* The other matchers of pattern/regex.go and the composed matchers of     *)
(* pattern/matcher.go, on texts written as in CheckDigits.  What the code  *)
(* compares byte by byte is compared rune by rune: no byte of a rune       *)
(* outside ASCII is a digit, an ASCII letter or a punctuation sign, so     *)
(* where every byte is asked to be ASCII the length in bytes is Len.       *)
(***************************************************************************)
EXTENDS CheckDigits

Space == -16
Dash == -3
Dot == -2
Colon == 10
At == 16
Plus == -5
LParen == -8
RParen == -7

Letters == (17..42) \cup (49..74)
HexDigits == Digits \cup (17..22) \cup (49..54)
WordRunes == Digits \cup Letters \cup {47}       \* \w: also the underscore
Blanks == {-39, -38, -36, -35, Space}            \* \s: \t \n \f \r and space

\* (?i)[a-z] also takes the two runes that fold to an ASCII letter: U+017F
\* and the Kelvin sign.
FoldedLetters == Letters \cup {LongS, 8490 - 48}

-----------------------------------------------------------------------------
(* Regular expressions.  A shape is a sequence of items <<runes, least,    *)
(* most>>; package regexp is external.  Alternatives are several shapes,   *)
(* and an optional group at an end of a pattern that is not anchored is    *)
(* left out: it never decides whether there is a match.                    *)

One(S) == <<S, 1, 1>>
Opt(S) == <<S, 0, 1>>
Many(S, n) == <<S, n, n>>

\* The positions a match that starts at one of "from" can be at after each item.
Ends(s, shape, from) ==
    LET ends[k \in 0..Len(shape)] ==
          IF k = 0 THEN from
          ELSE UNION { { q \in (p + shape[k][2])..(p + shape[k][3]) :
                           q <= Len(s) /\ \A j \in (p + 1)..q : s[j] \in shape[k][1] }
                       : p \in ends[k-1] }
    IN  ends
EndsFrom(s, shape, from) == Ends(s, shape, from)[Len(shape)]

Contains(s, shape) == EndsFrom(s, shape, 0..Len(s)) # {}
Whole(s, shape) == Len(s) \in EndsFrom(s, shape, {0})

\* Where \b holds in front of a digit.
WordStarts(s) == {p \in 0..Len(s) : p = 0 \/ s[p] \notin WordRunes}

-----------------------------------------------------------------------------
(* Numbers that are not personal, and filenames.                           *)

\* The table of test cards, digit by digit.
testCreditCardNumbers ==
    { <<4,2,4,2,4,2,4,2,4,2,4,2,4,2,4,2>>,
      <<4,0,1,2,8,8,8,8,8,8,8,8,1,8,8,1>>,
      <<4,0,0,0,0,5,6,6,5,5,6,6,5,5,5,6>>,
      <<5,5,5,5,5,5,5,5,5,5,5,5,4,4,4,4>>,
      <<5,2,0,0,8,2,8,2,8,2,8,2,8,2,1,0>>,
      <<5,1,0,5,1,0,5,1,0,5,1,0,5,1,0,0>>,
      <<3,7,8,2,8,2,2,4,6,3,1,0,0,0,5>>,
      <<3,7,1,4,4,9,6,3,5,3,9,8,4,3,1>>,
      <<6,0,1,1,1,1,1,1,1,1,1,1,1,1,1,7>>,
      <<6,0,1,1,0,0,0,9,9,0,1,3,9,4,2,4>>,
      <<3,0,5,6,9,3,0,9,0,2,5,9,0,4>>,
      <<3,8,5,2,0,0,0,0,0,2,3,2,3,7>>,
      <<3,5,3,0,1,1,1,3,3,3,3,0,0,0,0,0>>,
      <<3,5,6,6,0,0,2,0,2,0,3,6,0,5,0,5>> }

MatchTestCreditCard(s) == s \in testCreditCardNumbers

MatchRepeatingNumber(s) == \E d \in Digits : Contains(s, <<Many({d}, 5)>>)

isValidFilenameChar(r) == r \in Digits \cup Letters \cup {Dash, 47, Dot, Plus}

\* Of the extensions, those a text at hand can end in: b, c, d, h, o, p, t,
\* 7z and 323.
validFileExtensions == {<<50>>, <<51>>, <<52>>, <<56>>, <<63>>, <<64>>, <<68>>,
                        <<7, 74>>, <<3, 2, 3>>}

ToLower(s) == [k \in DOMAIN s |-> IF isUpper(s[k]) THEN s[k] + 32 ELSE s[k]]

MatchFilename(s) ==
    \E dotIdx \in 2..(Len(s) - 1) :
        /\ s[dotIdx] = Dot
        /\ \A j \in (dotIdx + 1)..Len(s) : s[j] # Dot
        /\ \A j \in 1..(dotIdx - 1) : isValidFilenameChar(s[j])
        /\ ToLower(SubSeq(s, dotIdx + 1, Len(s))) \in validFileExtensions

-----------------------------------------------------------------------------
(* Phone numbers.                                                          *)

\* phonePattern: what precedes the last seven digits is optional in the first
\* alternative; the second starts with two digits, after an optional plus, and
\* differs where these are in parentheses.
phoneSeparator == {Dash, Dot, -6} \cup Blanks
blanks(s) == <<Blanks, 0, Len(s)>>
phoneTail(s) == << blanks(s), Many(Digits, 2), blanks(s), Many(Digits, 3),
                   blanks(s), Many(Digits, 4) >>

MatchPhone(s) ==
    \/ Contains(s, <<Many(Digits, 3), Opt(phoneSeparator), Many(Digits, 4)>>)
    \/ Contains(s, <<Many(Digits, 2)>> \o phoneTail(s))
    \/ Contains(s, <<One({LParen}), Opt({Plus}), Many(Digits, 2), One({RParen})>> \o phoneTail(s))

stripChars(removalSet, s) == Keep(s, Int \ removalSet)

isAllDigits(s) == \A k \in DOMAIN s : isDigit(s[k])

phoneFormat1Separators == {Space, Dash, Dot, -6, LParen, RParen}

matchPhoneFormat1(s) ==
    LET sanitized == stripChars(phoneFormat1Separators, s)
    IN  /\ sanitized # <<>>
        /\ IF sanitized[1] = Plus
           THEN isAllDigits(Tail(sanitized)) /\ Len(Tail(sanitized)) \in 10..13
           ELSE isAllDigits(sanitized) /\ Len(sanitized) = 10

\* The runes TrimSpace removes: \s, \v and the spaces outside ASCII.
SpaceRunes == Blanks \cup {-37} \cup
    {c - 48 : c \in {133, 160, 5760, 8232, 8233, 8239, 8287, 12288} \cup (8192..8202)}

\* The trimmed text has the shape, which starts and ends with no space.
TrimmedIs(s, shape) ==
    LET spaces == <<SpaceRunes, 0, Len(s)>>
    IN  Whole(s, <<spaces>> \o shape \o <<spaces>>)

\* xx xxx xxxx: the parts of bytes.Split, each with its number of digits.
europeanTail == << One({Space}), Many(Digits, 2), One({Space}), Many(Digits, 3),
                   One({Space}), Many(Digits, 4) >>

validatePhoneFormat2Parenthetical(s) ==
    TrimmedIs(s, <<One({LParen}), One({Plus}), Many(Digits, 2), One({RParen})>> \o europeanTail)

validatePhoneFormat2Plus(s) == TrimmedIs(s, <<One({Plus}), Many(Digits, 2)>> \o europeanTail)

matchPhoneFormat2(s) == validatePhoneFormat2Parenthetical(s) \/ validatePhoneFormat2Plus(s)

MatchPhoneV2(s) == matchPhoneFormat1(s) \/ matchPhoneFormat2(s)

-----------------------------------------------------------------------------
(* E-mail and IP addresses.                                                *)

isDomainAllNumeric(s) ==
    \E k \in 0..Len(s) : /\ k = 0 \/ s[k] = At
                         /\ \A j \in (k + 1)..Len(s) : isDigit(s[j]) \/ s[j] = Dot

\* Exactly one '@', not at an end, then a last dot that is not at an end of
\* the domain.
MatchEmailV2(s) ==
    \E at \in 2..(Len(s) - 1) :
        /\ {k \in DOMAIN s : s[k] = At} = {at}
        /\ \E dot \in (at + 2)..(Len(s) - 1) : s[dot] = Dot
        /\ s[Len(s)] # Dot
        /\ ~isDomainAllNumeric(s)

\* The runes MatchIP and MatchIPV4 drop: " , [ ] { } - ; ? ! ` '
especialChars == {-14, -4, 43, 45, 75, 77, Dash, 11, 15, -15, 48, -9}

\* An octet: one to three digits, at most 255; ipv4Pattern allows it leading
\* zeros.
isOctet(o, leadingZeros) ==
    /\ Len(o) \in 1..3 /\ isAllDigits(o)
    /\ Len(o) = 3 => 100 * o[1] + 10 * o[2] + o[3] <= 255
    /\ leadingZeros \/ Len(o) = 1 \/ o[1] # 0

\* The positions where four octets with dots between them can end.
DottedEnds(s, from, leadingZeros) ==
    LET Octets(P) == UNION { { q \in (p + 1)..(p + 3) :
                                q <= Len(s) /\ isOctet(SubSeq(s, p + 1, q), leadingZeros) } : p \in P }
        Dots(P)   == EndsFrom(s, <<One({Dot})>>, P)
    IN  Octets(Dots(Octets(Dots(Octets(Dots(Octets(from)))))))

\* net.ParseIP, external, of a text with no colon: four octets with no leading
\* zero.
ParseIP(s) == Len(s) \in DottedEnds(s, {0}, FALSE)

MatchIP(s) == ParseIP(stripChars(especialChars, s))

ipv4Match(s) == DottedEnds(s, WordStarts(s), TRUE) # {}

\* Mutant of MatchIPV4: the dash is missing from its own list of signs.
MatchIPV4KeepsDash(s) == LET clean == stripChars(especialChars \ {Dash}, s)
                         IN  ipv4Match(clean) /\ ParseIP(clean)

MatchIPV4(s) == LET clean == stripChars(especialChars, s)
                IN  ipv4Match(clean) /\ ParseIP(clean)

-----------------------------------------------------------------------------
(* Cards and the other identifiers.                                        *)

\* Mutant of cardNumber: every rune but the digits is dropped.
digitsOnly(s) == Keep(s, Digits)

\* Mutant of cardNumber: the dashes stay.
spacesDropped(s) == stripChars({Space}, s)

\* The text without ccStripSet.
cardNumber(s) == stripChars({Space, Dash}, s)

MatchVisaCreditCard(s) == Whole(cardNumber(s), <<One({4}), Many(Digits, 15)>>)

MatchMasterCardCreditCard(s) == Whole(cardNumber(s), <<One({5}), One(1..5), Many(Digits, 14)>>)

\* Neither I, nor O, nor Q.
isValidVINChar(r) == r \in (Digits \cup Letters) \ {25, 31, 33, 57, 63, 65}
MatchVIN(s) == Len(s) = 17 /\ \A k \in DOMAIN s : isValidVINChar(s[k])

MatchSSN(s) ==
    EndsFrom(s, <<Many(Digits, 3), One({Dash, Space}), Many(Digits, 2),
                  One({Dash, Space}), Many(Digits, 4)>>, WordStarts(s)) # {}

\* [\t\f ]? stands between the groups of ibanPattern.
MatchIBAN(s) ==
    LET gap == Opt({-39, -36, Space})
    IN  Contains(s, << Many(FoldedLetters, 2), Many(Digits, 2), gap,
                       Many(FoldedLetters \cup Digits, 4), gap, Many(Digits, 4), gap,
                       Many(Digits, 3) >>)

\* 8-4-4-4-12 hexadecimal digits; the first of the third and of the fourth
\* group is one of "version" and of "variant".
uuidShape(dash, version, variant) ==
    << Many(HexDigits, 8), dash, Many(HexDigits, 4), dash, One(version), Many(HexDigits, 3),
       dash, One(variant), Many(HexDigits, 3), dash, Many(HexDigits, 12) >>
rfcVariant == {8, 9, 17, 18, 49, 50}

Matchguid(s)   == Contains(s, uuidShape(Opt({Dash}), HexDigits, HexDigits))
MatchUUID(s)   == Whole(s, uuidShape(One({Dash}), HexDigits, HexDigits))
MatchUUIDV3(s) == Contains(s, uuidShape(One({Dash}), {3}, HexDigits))
MatchUUIDV4(s) == Contains(s, uuidShape(One({Dash}), {4}, rfcVariant))
MatchUUIDV5(s) == Contains(s, uuidShape(One({Dash}), {5}, rfcVariant))

-----------------------------------------------------------------------------
(* The composed matchers.                                                  *)

PhoneMatcher(s) ==
    /\ ~(MatchEmailV2(s) \/ MatchFilename(s) \/ MatchRepeatingNumber(s))
    /\ MatchPhone(s)

SSNMatcher(s) == /\ MatchSSN(s)
                 /\ ~MatchPhoneV2(s) /\ ~MatchFilename(s) /\ ~MatchRepeatingNumber(s)

EmailMatcher(s) == MatchEmailV2(s)

IPMatcher(s) == MatchIP(s)

IPv4Matcher(s) == MatchIPV4(s)

CreditCardMatcher(s) == /\ MatchMasterCardCreditCard(s) \/ MatchVisaCreditCard(s)
                        /\ ~MatchUUID(s) /\ ~MatchTestCreditCard(s)

BankInfoMatcher(s) == MatchIBAN(s) /\ ~MatchRepeatingNumber(s)

VINMatcher(s) == MatchVIN(s)

UUIDMatcher(s) == /\ \/ Matchguid(s) \/ MatchUUID(s)
                     \/ MatchUUIDV3(s) \/ MatchUUIDV4(s) \/ MatchUUIDV5(s)
                  /\ ~MatchFilename(s)

CPFMatcher(s) == MatchCPF(s)

BrazilianPIIMatcher(s) == MatchCPF(s) \/ MatchCNPJ(s) \/ MatchCNPJV2(s)

=============================================================================
