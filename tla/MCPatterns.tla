---------------------------- MODULE MCPatterns ------------------------------
(***************************************************************************)
(* The pure algorithms of pattern/ for TLC: the combinators on every list  *)
(* of answers, and the matchers on the texts a few edits away from those    *)
(* that pattern/regex_test.go and pattern/matcher_test.go accept.  The two  *)
(* do not interact: a behaviour runs one of them.                          *)
(***************************************************************************)
EXTENDS PatternCombinators, TextMatchers

CONSTANTS
    Seeds,      \* the texts to start from
    Alphabet,   \* the runes an edit may write
    MaxEdits,   \* bound on the number of edits of one of the ShortSeeds
    ShortSeeds  \* the seeds that may be edited more than once

\* The code points but the colon: TextMatchers leaves IPv6 addresses, which
\* have one, to net.ParseIP.
Runes == {r \in Int : r + 48 >= 0 /\ r # Colon}

ASSUME TextsAssumption == Seeds \subseteq Seq(Runes) /\ Alphabet \subseteq Runes

VARIABLES
    text,    \* the text at hand, empty in a behaviour of the combinators
    edits    \* edits that are left

textVars == <<text, edits>>
allVars == <<vars, textVars>>

\* A behaviour of the combinators, or one that edits a seed and leaves the
\* combinator with no patterns undecided.
MCInit ==
    \/ Init /\ text = <<>> /\ edits = 0
    \/ /\ text \in Seeds /\ edits = IF text \in ShortSeeds THEN MaxEdits ELSE 1
       /\ kind = "All" /\ patterns = <<>> /\ n = 0 /\ i = 0
       /\ passes = 0 /\ fails = 0 /\ verdict = "pending"

Edit(t) == edits > 0 /\ edits' = edits - 1 /\ text' = t /\ UNCHANGED vars

Replace(k, r) == Edit([text EXCEPT ![k] = r])
Insert(k, r)  == Edit(SubSeq(text, 1, k) \o <<r>> \o SubSeq(text, k + 1, Len(text)))
Delete(k)     == Edit(SubSeq(text, 1, k - 1) \o SubSeq(text, k + 1, Len(text)))

EditText ==
    \/ \E k \in DOMAIN text, r \in Alphabet : Replace(k, r)
    \/ \E k \in 0..Len(text), r \in Alphabet : Insert(k, r)
    \/ \E k \in DOMAIN text : Delete(k)

MCNext ==
    \/ text = <<>> /\ Next /\ UNCHANGED textVars
    \/ text # <<>> /\ EditText

MCSpec == MCInit /\ [][MCNext]_allVars

\* Values for the constants.  123.456.789-09, 12345678000195 and
\* 12ABC34501DE35 are edited twice.
MCShortSeeds == { <<1,2,3,-2,4,5,6,-2,7,8,9,-3,0,9>>,
                  <<1,2,3,4,5,6,7,8,0,0,0,1,9,5>>,
                  <<1,2,17,18,19,3,4,5,0,1,20,21,3,5>> }

\* Edited once: the Visa card 4539578763621486, the test card 4242424242424242
\* and 5105-1051-0510-5100, the phones +33 20 345 6789, (+33) 20 345 6789,
\* +1(555)123-4567 and 5551234.323, the SSN 123-45-6789, the addresses
\* 192.168.10.255 and a@b.co, the IBAN GB82WEST12345698765432, the VIN
\* 1HGBH41JXMN109186, and the UUIDs 6ba7b810-9dad-3fd1-80b4-00c04fd430c8
\* and 123e4567-e89b-42d3-a456-426614174000.
MCSeeds == MCShortSeeds \cup
    { <<4,5,3,9,5,7,8,7,6,3,6,2,1,4,8,6>>,
      <<4,2,4,2,4,2,4,2,4,2,4,2,4,2,4,2>>,
      <<5,1,0,5,-3,1,0,5,1,-3,0,5,1,0,-3,5,1,0,0>>,
      <<-5,3,3,-16,2,0,-16,3,4,5,-16,6,7,8,9>>,
      <<-8,-5,3,3,-7,-16,2,0,-16,3,4,5,-16,6,7,8,9>>,
      <<-5,1,-8,5,5,5,-7,1,2,3,-3,4,5,6,7>>,
      <<5,5,5,1,2,3,4,-2,3,2,3>>,
      <<1,2,3,-3,4,5,-3,6,7,8,9>>,
      <<1,9,2,-2,1,6,8,-2,1,0,-2,2,5,5>>,
      <<49,16,50,-2,51,63>>,
      <<23,18,8,2,39,21,35,36,1,2,3,4,5,6,9,8,7,6,5,4,3,2>>,
      <<1,24,23,18,24,4,1,26,40,29,30,1,0,9,1,8,6>>,
      <<6,50,49,7,50,8,1,0,-3,9,52,49,52,-3,3,54,52,1,-3,8,0,50,4,-3,0,0,51,0,4,54,52,4,3,0,51,8>>,
      <<1,2,3,53,4,5,6,7,-3,53,8,9,50,-3,4,2,52,3,-3,49,4,5,6,-3,4,2,6,6,1,4,1,7,4,0,0,0>> }

\* 0, 1, 9, 'Z', 'z', '-', the runes whose upper case has another length, and
\* the signs the matchers look for: ' ', '.', '@', '+'.
MCAlphabet == {0, 1, 9, 42, 74, -3, DotlessI, LongS, TurnedA, -16, -2, 16, -5}

-----------------------------------------------------------------------------
\* cnpjAlphaToNumeric indexes a slice of fourteen with every byte it is given.
\* The length was checked before bytes.ToUpper, which may lengthen or shorten
\* the text: no text of another length gets that far.
NumericSliceFits == \A s \in alphaCandidates(text) : byteLen(s) = 14

\* Check digits always exist and leave no choice: a text with nine digits becomes
\* a CPF by exactly one pair of digits written after it, and one with twelve a
\* CNPJ.  A remainder that stands for no digit would leave some numbers without
\* a pair, a digit that is not compared would give them ten.
OneCompletion ==
    LET Pairs == Digits \X Digits
    IN  /\ Len(Keep(text, Digits)) = 9 =>
              Cardinality({p \in Pairs : MatchCPF(text \o p)}) = 1
        /\ Len(Keep(text, Digits)) = 12 =>
              Cardinality({p \in Pairs : MatchCNPJ(text \o p)}) = 1

\* Rules compete for a token: with a parallel runner the first matcher that
\* answers wins.  The entities a text can be reported as beside each other.
Reported == [ EMAIL         |-> {"SSN", "UUID", "BANK_INFO", "CPF", "CNPJ"},
              IP_ADDRESS    |-> {"CPF", "CNPJ"},
              CREDIT_CARD   |-> {"PHONE", "SSN"},
              VIN           |-> {"PHONE", "BANK_INFO", "CPF", "CNPJ"} ]

Claims(s) ==
    {c[1] : c \in {d \in { <<"EMAIL", EmailMatcher(s)>>, <<"IP_ADDRESS", IPMatcher(s)>>,
                           <<"CREDIT_CARD", CreditCardMatcher(s)>>, <<"VIN", VINMatcher(s)>>,
                           <<"PHONE", PhoneMatcher(s)>>, <<"SSN", SSNMatcher(s)>>,
                           <<"BANK_INFO", BankInfoMatcher(s)>>, <<"UUID", UUIDMatcher(s)>>,
                           <<"CPF", CPFMatcher(s)>>, <<"CNPJ", CNPJMatcher(s)>> } : d[2]}}

\* A text that is an e-mail, an IP address, a card or a VIN is claimed by no
\* matcher but the ones the table allows, whatever signs each of them drops:
\* a card is never also a CPF, a CNPJ, a VIN or a UUID.  And MatchCNPJ is for the
\* "legacy numeric format only", MatchCNPJV2 "for the new alphanumeric format
\* only": no text is both, although one drops every letter and the other only
\* some punctuation.
EntitiesDisjoint ==
    LET claims == Claims(text)
    IN  /\ \A e \in claims \cap DOMAIN Reported : claims \subseteq Reported[e] \cup {e}
        /\ ~(MatchCNPJ(text) /\ MatchCNPJV2(text))

\* Functions of regex.go that look for the same thing agree where they should.
\* What any of the UUID patterns accepts is a GUID, although some are anchored
\* and some fold case.  A phone in the European layout is one in the flexible
\* layout, once the spaces that TrimSpace drops and the other keeps are gone.
\* On a text with no colon MatchIP, which only parses, and MatchIPV4, which asks
\* a regular expression first and has a list of signs of its own, give the same
\* answer.  BrazilianPIIMatcher, which has a list of patterns of its own, claims
\* what the two matchers it stands for claim.
VersionsAgree ==
    /\ (MatchUUID(text) \/ MatchUUIDV3(text) \/ MatchUUIDV4(text) \/ MatchUUIDV5(text))
          => Matchguid(text)
    /\ matchPhoneFormat2(text) => matchPhoneFormat1(stripChars(SpaceRunes, text))
    /\ IPMatcher(text) <=> IPv4Matcher(text)
    /\ BrazilianPIIMatcher(text) <=> (CPFMatcher(text) \/ CNPJMatcher(text))

\* The texts differ by a sign of S that was inserted or deleted.
DifferBy(S) == stripChars(S, text) = stripChars(S, text') /\ text # text'

\* A separator is invisible to the matcher that drops it, wherever it stands:
\* writing one into a text or taking one out never changes the verdict.
SeparatorsInvisible ==
    [][ /\ DifferBy({Space, Dash}) =>
             /\ MatchVisaCreditCard(text) <=> MatchVisaCreditCard(text')
             /\ MatchMasterCardCreditCard(text) <=> MatchMasterCardCreditCard(text')
        /\ DifferBy({Space, Dash, Dot, LParen, RParen}) =>
             (matchPhoneFormat1(text) <=> matchPhoneFormat1(text'))
        /\ DifferBy({Dash}) => (IPMatcher(text) <=> IPMatcher(text'))
        /\ DifferBy(Formatting) => (CNPJMatcher(text) <=> CNPJMatcher(text'))
      ]_allVars

\* The Luhn sum: every second digit from the right is doubled, and its own
\* digits are added.
Luhn(ds) ==
    LET digit(k) == IF (Len(ds) - k) % 2 = 0 THEN ds[k]
                    ELSE IF ds[k] < 5 THEN 2 * ds[k] ELSE 2 * ds[k] - 9
        sum[k \in 0..Len(ds)] == IF k = 0 THEN 0 ELSE sum[k-1] + digit(k)
    IN  sum[Len(ds)] % 10 = 0

\* README.md:216 describes CREDIT_CARD as "Visa and MasterCard with Luhn
\* check".
CardsPassLuhn == CreditCardMatcher(text) => Luhn(Keep(text, Digits))

=============================================================================
