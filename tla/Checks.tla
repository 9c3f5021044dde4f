------------------------------- MODULE Checks -------------------------------
(***************************************************************************)
(* The rules that decide whether a value really is what its shape says:    *)
(* pkg/pii/checksum.go and strength.go, against the numbers an issuer gives *)
(* out and against the stand-ins of fake mode (generators.go, patterns_*.go). *)
(*                                                                         *)
(* Somebody writes a value: a number that was issued, perhaps with one     *)
(* digit wrong or two exchanged, perhaps in groups, perhaps run into the   *)
(* next word; a stand-in minted by the agent; a date; a line of a listing; *)
(* a password, between quotes, bare, or behind the scheme of a header.     *)
(* A value is a sequence of characters, and a character is a number; a     *)
(* domain and a postcode with its town are sequences of words.             *)
(***************************************************************************)
EXTENDS Integers, Sequences, SequencesExt, FiniteSets, Filters

CONSTANTS
  Bodies,        \* kind -> the digits (and letters) an issuer assigns
  Indices,       \* the indexes stand-ins are minted for
  Tails,         \* what follows an account with no end in between
  Today,         \* <<year, month, day>>
  Dates,         \* dates people write
  Keys,          \* the characters a password is typed with
  MaxTyped,      \* bound on its length
  SegmentMax,    \* how long a name in a chain of names may be
  Generated      \* generatedLength: nobody types a value as long as this

ASSUME BoundsAssumption == MaxTyped \in Nat /\ SegmentMax \in Nat /\ Generated \in Nat

-----------------------------------------------------------------------------
(* Characters: 0..9 are the digits and 10..35 the capitals, as ISO 13616     *)
(* numbers them; 50..75 are the small letters.                               *)

Digits == 0..9
Capitals == 10..35
Small == 50..75
Space == 36
Dot == 37
Dash == 38
Star == 39
Question == 40
Opener == 41       \* ( and ), and so on: a closer comes after its opener
Closer == 42
Dollar == 43
SquareOpener == 44
SquareCloser == 45
CurlyOpener == 46
CurlyCloser == 47
AngleOpener == 48
AngleCloser == 49
Percent == 93
Ampersand == 94
Underscore == 95
Secret == 90       \* a word like "password" or "token", in small letters
Reserved == 91     \* a word of a language, like "string"
Auth == 92         \* a word with "auth" in it, like "oauth"

Capital(text) == [i \in DOMAIN text |-> IF text[i] \in Small THEN text[i] - 40 ELSE text[i]]

Total(numbers) ==
  LET sum[n \in 0..Len(numbers)] == IF n = 0 THEN 0 ELSE sum[n - 1] + numbers[n]
  IN  sum[Len(numbers)]

Has(text, chars) == \E i \in DOMAIN text : text[i] \in chars
Within(text, chars) == \A i \in DOMAIN text : text[i] \in chars

Without(text, separators) == Keep(text, Nat \ separators)

Tens == <<1, 10, 100, 1000, 10000, 100000, 1000000, 10000000, 100000000, 1000000000>>

\* fmt's %0<width>d.
Padded(n, width) ==
  [k \in 1..width |-> IF width - k > 9 THEN 0 ELSE (n \div Tens[width - k + 1]) % 10]

\* onlyDigits: the digits, when there are as many as wanted and nothing but the
\* separators of print between them.
OnlyDigits(text, want) ==
  LET digits == Keep(text, Digits)
  IN  IF Within(text, Digits \union {Space, Dot, Dash}) /\ Len(digits) = want
      THEN digits ELSE <<>>

-----------------------------------------------------------------------------
(* The checks. *)

Doubled(d) == IF 2 * d > 9 THEN 2 * d - 9 ELSE 2 * d

\* The sum of luhn and luhnCheckDigit: every second digit from the right doubled,
\* beginning with the last (odd = 0) or the one before it (odd = 1).
LuhnSum(digits, odd) ==
  Total([i \in DOMAIN digits |->
           IF (Len(digits) - i) % 2 = odd THEN Doubled(digits[i]) ELSE digits[i]])

Luhn(digits) == digits # <<>> /\ Within(digits, Digits) /\ LuhnSum(digits, 1) % 10 = 0

LuhnCheck(text) ==
  LET number == Without(text, {Space, Dash})
  IN  Len(number) \in 13..19 /\ Luhn(number)

SIRENCheck(text) == Luhn(OnlyDigits(text, 9))
SIRETCheck(text) == Luhn(OnlyDigits(text, 14))

\* A remainder taken digit by digit, as the loops take it; a letter is two digits.
Scale(c) == IF c \in Digits THEN 10 ELSE 100

Mod97(text) ==
  LET rem[n \in 0..Len(text)] ==
        IF n = 0 THEN 0 ELSE (rem[n - 1] * Scale(text[n]) + text[n]) % 97
  IN  rem[Len(text)]

Million == 1000000

\* Corsica's A and B are read as a zero, and their million or two taken off.
NIRCheck(text) ==
  LET A == 10
      B == 11
      written == Without(text, {Space, Dot})
      digits == [i \in DOMAIN written |-> IF written[i] \in {A, B} THEN 0 ELSE written[i]]
      corsica == IF Has(written, {B}) THEN 2 * Million ELSE IF Has(written, {A}) THEN Million ELSE 0
      body == (Mod97(SubSeq(digits, 1, 13)) + 97 - (corsica % 97)) % 97
  IN  /\ Within(written, Digits \union {A, B})
      /\ Len(written) = 15
      /\ 97 - body = 10 * digits[14] + digits[15]

\* ibanLengths, for the countries of the model: FR, DE, BE, NO.
IbanLength(country) ==
  CASE country = <<15, 27>> -> {27}
    [] country = <<13, 14>> -> {22}
    [] country = <<11, 14>> -> {16}
    [] country = <<23, 24>> -> {15}
    [] OTHER -> 15..34

\* Mutant: the keys the standard cannot produce are not refused.
ImpossibleNone == {}

\* The check digits 00, 01 and 99, which no account has.
ImpossibleKeys == {<<0, 0>>, <<0, 1>>, <<9, 9>>}

\* hasUpper and hasLower.
MixedCase(text) == Has(text, Capitals) /\ Has(text, Small)

IBANCheck(text) ==
  LET s == Without(Capital(text), {Space})
  IN  /\ Within(s, Digits \union Capitals)
      /\ ~MixedCase(text)
      /\ Len(s) \in 15..34
      /\ Len(s) \in IbanLength(SubSeq(s, 1, 2))
      /\ SubSeq(s, 3, 4) \notin ImpossibleKeys
      /\ Mod97(SubSeq(s, 5, Len(s)) \o SubSeq(s, 1, 4)) = 1

\* Mutant: the account is looked for at the ends of groups alone.
TrimToGroups(text) ==
  LET cuts == {k \in 0..Len(text) :
                 /\ k = Len(text) \/ text[k + 1] = Space
                 /\ IBANCheck(SubSeq(text, 1, k))}
  IN  IF cuts = {} THEN Len(text) ELSE CHOOSE k \in cuts : \A j \in cuts : j <= k

\* trimToIBAN: the longest account at the beginning of a span, at the ends of whole
\* groups first, then anywhere; the whole span when there is none.
TrimToIBAN(text) ==
  LET valid == {k \in 1..Len(text) : IBANCheck(SubSeq(text, 1, k))}
      groups == {k \in valid : k = Len(text) \/ text[k + 1] = Space}
      ends == IF groups # {} THEN groups ELSE {k \in valid : k >= 15}
  IN  IF ends = {} THEN Len(text) ELSE CHOOSE k \in ends : \A j \in ends : j <= k

NHSSum(digits) == Total([i \in 1..9 |-> digits[i] * (11 - i)])

NHSNumberCheck(text) ==
  LET d == OnlyDigits(text, 10)
      check == 11 - (NHSSum(d) % 11)
  IN  d # <<>> /\ check # 10 /\ d[10] = (IF check = 11 THEN 0 ELSE check)

NINOUnissued == {<<11, 16>>, <<16, 11>>, <<20, 23>>, <<23, 20>>, <<23, 29>>, <<29, 23>>, <<35, 35>>}

NINOCheck(text) ==
  LET v == Without(Capital(text), {Space, Dash})
      never == {13, 15, 18, 26, 30, 31}      \* D F I Q U V
      O == 24
  IN  /\ Len(v) \in {8, 9}
      /\ v[1] \in Capitals \ never /\ v[2] \in Capitals \ (never \union {O})
      /\ SubSeq(v, 1, 2) \notin NINOUnissued
      /\ \A i \in 3..8 : v[i] \in Digits
      /\ Len(v) = 9 => v[9] \in 10..13       \* A to D

SSNCheck(text) ==
  LET d == OnlyDigits(text, 9)
  IN  /\ d # <<>>
      /\ SubSeq(d, 1, 3) \notin {<<0, 0, 0>>, <<6, 6, 6>>} /\ d[1] # 9
      /\ SubSeq(d, 4, 5) # <<0, 0>>
      /\ SubSeq(d, 6, 9) # <<0, 0, 0, 0>>

RoutingNumberCheck(text) ==
  LET d == OnlyDigits(text, 9)
      district == 10 * d[1] + d[2]
  IN  /\ d # <<>>
      /\ district \in 0..12 \union 21..32 \union 61..72 \union {80}
      /\ (3 * (d[1] + d[4] + d[7]) + 7 * (d[2] + d[5] + d[8]) + (d[3] + d[6] + d[9])) % 10 = 0

-----------------------------------------------------------------------------
(* Dates.  ISO is <<2001, 4, 3>>, the others <<4, 3, 2001>>; a month spelt out *)
(* is 100 above its number.                                                    *)

\* time.Date lets a day past the end of its month run into the next one.
MonthLength(y, m) ==
  IF m = 2 THEN IF y % 4 = 0 /\ (y % 100 # 0 \/ y % 400 = 0) THEN 29 ELSE 28
  ELSE IF m \in {4, 6, 9, 11} THEN 30 ELSE 31

Normal(y, m, d) ==
  IF d <= MonthLength(y, m) THEN <<y, m, d>>
  ELSE IF m = 12 THEN <<y + 1, 1, d - 31>> ELSE <<y, m + 1, d - MonthLength(y, m)>>

Before(a, b) ==
  a[1] < b[1] \/ (a[1] = b[1] /\ (a[2] < b[2] \/ (a[2] = b[2] /\ a[3] < b[3])))

Cutoff == Normal(Today[1] - 1, Today[2], Today[3])

NotAfter(y, m, d) == m \in 1..12 /\ ~Before(Cutoff, Normal(y, m, d))

\* dobCheckAt: a numeric date is old enough when either reading of it is.
DOBCheck(date) ==
  CASE date[1] >= 1000 -> NotAfter(date[1], date[2], date[3])
    [] date[2] > 100 -> NotAfter(date[3], date[2] - 100, date[1])
    [] OTHER -> NotAfter(date[3], date[2], date[1]) \/ NotAfter(date[3], date[1], date[2])

\* reservedAddress, for the four numbers of an IPv4 address.
IPAddressCheck(ip) ==
  /\ ip[1] \notin {127} \union 224..239 /\ ip # <<0, 0, 0, 0>>
  /\ SubSeq(ip, 1, 2) \notin {<<169, 254>>, <<198, 18>>, <<198, 19>>}
  /\ SubSeq(ip, 1, 3) \notin {<<192, 0, 2>>, <<198, 51, 100>>, <<203, 0, 113>>, <<192, 0, 0>>}

-----------------------------------------------------------------------------
(* Words: of a domain, and of a postcode with its town (0 is the code).  A word *)
(* is written in small letters, or with a capital 1000 above.                   *)

Example == 200
SecondLevel == 201..203                    \* com, net, org
DocumentationTLDs == {Example} \union 204..206   \* test, invalid, localhost
Months == 211..222                         \* jan to dec, never spelt out

Lowered(word) == word % 1000

DocumentationEmailCheck(domain) ==
  LET words == [i \in DOMAIN domain |-> Lowered(domain[i])]
  IN  /\ words \notin {<<Example, tld>> : tld \in SecondLevel}
      /\ Len(words) >= 2 => Last(words) \notin DocumentationTLDs

PostcodeCheck(words) == Len(words) >= 2 => Lowered(words[2]) \notin Months

-----------------------------------------------------------------------------
(* Secrets in an assignment. *)

Lower == Small \union {Secret, Reserved, Auth}
Letters == Capitals \union Lower
NameStart == Letters \union {Dollar, Underscore}
NameChars == NameStart \union Digits
Hyphens == {Dash, Underscore}
Stars == {Star, Ampersand}

\* strings.TrimLeft(value, "*&"): what a star or an address points at.
WithoutStars(v) ==
  LET plain == {i \in DOMAIN v : v[i] \notin Stars}
  IN  IF plain = {} THEN <<>>
      ELSE SubSeq(v, CHOOSE i \in plain : \A j \in plain : i <= j, Len(v))

\* strings.Trim(value, "."), of the end: no name begins with a dot.
WithoutLastDots(v) ==
  LET solid == {i \in DOMAIN v : v[i] # Dot}
  IN  IF solid = {} THEN <<>>
      ELSE SubSeq(v, 1, CHOOSE i \in solid : \A j \in solid : j <= i)

Next2(v, first, second) ==
  \E i \in 1..(Len(v) - 1) : v[i] \in first /\ v[i + 1] \in second

SlugNamingItself(v) == Within(v, Lower \union Hyphens) /\ Has(v, {Secret})

ReservedWord(v) == v = <<Reserved>>

AllDigits(v) == v # <<>> /\ Within(v, Digits)

\* ${name}, {{ name }}, $(command), and %(name)s with its s or without.
References ==
  LET curly == {CurlyOpener, CurlyCloser}
      round == {Opener, Closer}
      s == 68
  IN  {[opens |-> <<Dollar, CurlyOpener>>, closes |-> <<CurlyCloser>>, apart |-> curly],
       [opens |-> <<CurlyOpener, CurlyOpener>>, closes |-> <<CurlyCloser, CurlyCloser>>, apart |-> curly],
       [opens |-> <<Dollar, Opener>>, closes |-> <<Closer>>, apart |-> round],
       [opens |-> <<Percent, Opener>>, closes |-> <<Closer>>, apart |-> round],
       [opens |-> <<Percent, Opener>>, closes |-> <<Closer, s>>, apart |-> round]}

\* The whole value is one reference, with none of its own brackets inside.
Interpolation(v) ==
  \E form \in References :
    LET last == Len(v) - Len(form.closes)
    IN  /\ last >= 2
        /\ SubSeq(v, 1, 2) = form.opens /\ SubSeq(v, last + 1, Len(v)) = form.closes
        /\ \A i \in 3..last : v[i] \notin form.apart

IdentifierOnly(v) == v # <<>> /\ v[1] \in NameStart /\ Within(v, NameChars \union {Dot})

HasInteriorDot(v) == Has(WithoutLastDots(v), {Dot})
HasCamelCaseJoin(v) == Next2(v, Lower, Capitals)

\* propertyPathRe: two names or more, each of the size and the shape of a name.
PropertyPath(v) ==
  LET chain == WithoutLastDots(v)
      cuts == {0, Len(chain) + 1} \union {i \in DOMAIN chain : chain[i] = Dot}
  IN  /\ Has(chain, {Dot}) /\ Within(chain, NameChars \union {Dot})
      /\ \A a \in cuts \ {Len(chain) + 1} :
           /\ a + 1 \notin cuts /\ chain[a + 1] \in NameStart
           /\ \E b \in cuts : b > a /\ b - a - 1 <= SegmentMax

HasInteriorCapital(v) == \E i \in 2..Len(v) : v[i] \in Capitals

ReadsACredential(v) == Last(WithoutLastDots(v)) = Secret \/ HasInteriorCapital(v)

\* Mutant: a value is a name whenever it is shaped like one and ends in a dot.
NameByShapeAnyDot(v) == Has(v, {Dot}) \/ (HasCamelCaseJoin(v) /\ ~Has(v, Digits))

\* The last rules of GenericSecretCheck, for a value shaped like a name: code, not
\* a credential.
NameByShape(v) ==
  IF ~HasInteriorDot(v) /\ ~HasCamelCaseJoin(v) /\ Last(v) # Dot THEN FALSE
  ELSE IF PropertyPath(v) THEN ReadsACredential(v) ELSE ~Has(v, Digits)

GenericSecretCheck(value) ==
  LET v == WithoutStars(value)
  IN  /\ ~Next2(v, {Question}, {Dot})
      /\ ~SlugNamingItself(v)
      /\ ~ReservedWord(v)
      /\ ~Interpolation(v)
      /\ ~AllDigits(v)
      /\ IdentifierOnly(v) => ~NameByShape(v)

CloserFor == [o \in {Opener, SquareOpener, CurlyOpener, AngleOpener} |-> o + 1]

\* A closer takes the last bracket opened, or nothing.
OpenAfter(open, c) ==
  IF c \in DOMAIN CloserFor THEN Append(open, c)
  ELSE IF open # <<>> /\ CloserFor[Last(open)] = c THEN Front(open) ELSE open

\* hasUnclosedBracket.
UnclosedBracketCheck(v) ==
  LET open[n \in 0..Len(v)] == IF n = 0 THEN <<>> ELSE OpenAfter(open[n - 1], v[n])
  IN  open[Len(v)] = <<>>

AuthHeaderCheck(v) ==
  UnclosedBracketCheck(v) /\ ~(Within(v, Lower \union Hyphens) /\ Has(v, {Auth}))

\* 0 is weak, 1 medium, 2 strong; what separates words counts for nothing.
SecretStrength(v) ==
  LET plain == Lower \union Capitals \union Digits \union Hyphens \union {Dot}
      classes == Cardinality({k \in {Lower, Capitals, Digits} : Has(v, k)})
                 + (IF Within(v, plain) THEN 0 ELSE 1)
  IN  IF classes >= 3 \/ (classes >= 2 /\ Len(v) >= Generated) THEN 2
      ELSE IF classes = 2 THEN 1 ELSE 0

-----------------------------------------------------------------------------
(* What the issuers do: the reference the checks are held against. *)

\* What one counts for at each place, from the right: a letter takes two.
Weights(text) ==
  LET weight[k \in 0..Len(text)] ==
        IF k = 0 THEN 1 ELSE (weight[k - 1] * Scale(text[Len(text) - k + 1])) % 97
  IN  weight

\* A number modulo 97, by the weight of each of its characters.
Remainder(text) ==
  LET weight == Weights(text)
  IN  Total([i \in DOMAIN text |-> text[i] * weight[Len(text) - i]]) % 97

LuhnCheckDigit(body) == (10 - (LuhnSum(body, 0) % 10)) % 10

\* 2A and 2B are departments 19 and 18 to the key.
NIRKey(body) ==
  97 - Remainder([i \in 1..13 |-> IF i = 6 /\ body[7] \in {10, 11} THEN 1
                                  ELSE IF i = 7 /\ body[7] = 10 THEN 9
                                  ELSE IF i = 7 /\ body[7] = 11 THEN 8 ELSE body[i]])

IBANKey(country, account) == 98 - Remainder(account \o country \o <<0, 0>>)

NHSDigit(body) == (11 - (NHSSum(body) % 11)) % 11

\* Nothing is assigned where the check digit cannot be written.
Assigned(kind, body) ==
  CASE kind = "nhs" -> NHSDigit(body) # 10
    [] OTHER -> TRUE

Issued(kind, body) ==
  CASE kind \in {"card", "siren", "siret"} -> Append(body, LuhnCheckDigit(body))
    [] kind = "nir" -> body \o Padded(NIRKey(body), 2)
    [] kind = "iban" -> LET country == SubSeq(body, 1, 2)
                            account == SubSeq(body, 3, Len(body))
                        IN  country \o Padded(IBANKey(country, account), 2) \o account
    [] kind = "nhs" -> Append(body, NHSDigit(body))
    [] OTHER -> body

-----------------------------------------------------------------------------
(* What fake mode mints: fakeGenerators and the tables of the countries. *)

InvalidCheckDigit(digit) == (digit + 1) % 10

InvalidNHSCheckDigit(body) ==
  LET check == 11 - (NHSSum(body) % 11)
  IN  CASE check = 10 -> 0
        [] check = 11 -> 1
        [] OTHER -> InvalidCheckDigit(check)

StandIn(kind, i) ==
  LET card == <<4, 0, 0, 0, 0, 0>> \o Padded(i, 9)
      nir == <<1, 9, 0, 0, 1, 9, 9>> \o Padded(i, 6)
      blocks == <<<<192, 0, 2>>, <<198, 51, 100>>, <<203, 0, 113>>>>
  IN  CASE kind = "card" -> Append(card, InvalidCheckDigit(LuhnCheckDigit(card)))
        [] kind = "siren" -> Append(Padded(i, 8), InvalidCheckDigit(LuhnCheckDigit(Padded(i, 8))))
        [] kind = "siret" -> Append(Padded(i, 13), InvalidCheckDigit(LuhnCheckDigit(Padded(i, 13))))
        [] kind = "nir" -> nir \o Padded(((97 - Mod97(nir)) % 97) + 1, 2)
        [] kind = "iban" -> <<15, 27, 0, 0>> \o Padded(i, 23)
        [] kind = "nhs" -> Append(Padded(i, 9), InvalidNHSCheckDigit(Padded(i, 9)))
        [] kind = "nino" -> <<35, 35>> \o Padded(i, 6) \o <<10>>
        [] kind = "ssn" -> <<0, 0, 0>> \o Padded((i \div 10000) % 100, 2) \o Padded(i % 10000, 4)
        [] kind = "routing" -> <<9, 9>> \o Padded(i, 7)
        [] kind = "email" -> <<Example, 203>>
        [] kind = "ip" -> Append(blocks[((i - 1) \div 256) + 1], (i - 1) % 256)

\* How many each generator can make.
Capacity(kind) ==
  CASE kind = "card" -> 999999999 [] kind = "siren" -> 99999999 [] kind = "siret" -> 9999999
    [] kind = "nir" -> 999999     [] kind = "iban" -> 99999999  [] kind = "nhs" -> 999999999
    [] kind = "nino" -> 999999    [] kind = "ssn" -> 999999     [] kind = "routing" -> 9999999
    [] kind = "ip" -> 768         [] kind = "email" -> 999999

-----------------------------------------------------------------------------
VARIABLES
  kind,     \* what the value is meant to be
  origin,   \* how it came about
  value,    \* as it is written
  whole     \* how much of it is the value, and not what it was run into

vars == <<kind, origin, value, whole>>

Mintable == {"card", "siren", "siret", "nir", "iban", "nhs", "nino", "ssn", "routing", "ip", "email"}
Assignable == Mintable \union {"postcode"}
Typed == {"secret", "bare", "header"}     \* between quotes, without, behind a scheme

\* The rule of the pattern and the rule of its category decide.
Reads(k, v) ==
  CASE k = "card" -> LuhnCheck(v)   [] k = "siren" -> SIRENCheck(v) [] k = "siret" -> SIRETCheck(v)
    [] k = "nir" -> NIRCheck(v)     [] k = "iban" -> IBANCheck(v)   [] k = "nhs" -> NHSNumberCheck(v)
    [] k = "nino" -> NINOCheck(v)   [] k = "ssn" -> SSNCheck(v)
    [] k = "routing" -> RoutingNumberCheck(v)
    [] k = "ip" -> IPAddressCheck(v) [] k = "date" -> DOBCheck(v)
    [] k = "email" -> DocumentationEmailCheck(v) [] k = "postcode" -> PostcodeCheck(v)
    [] k = "secret" -> GenericSecretCheck(v)
    [] k = "bare" -> UnclosedBracketCheck(v) /\ GenericSecretCheck(v)
    [] k = "header" -> AuthHeaderCheck(v) /\ GenericSecretCheck(v)

\* What an issuer makes a number of.  Where no digit checks the others, it is whatever
\* the rule of the kind takes.
Body(k, body) ==
  CASE k = "card" -> body \in Seq(Digits) /\ Len(body) \in 12..18
    [] k = "siren" -> body \in Seq(Digits) /\ Len(body) = 8
    [] k = "siret" -> body \in Seq(Digits) /\ Len(body) = 13
    [] k = "nhs" -> body \in Seq(Digits) /\ Len(body) = 9
    [] k = "nir" ->
         /\ body \in Seq(Digits \union Capitals) /\ Len(body) = 13
         /\ \A i \in 1..13 : body[i] \in Digits \/ (i = 7 /\ body[6] = 2 /\ body[7] \in {10, 11})
    [] k = "iban" ->
         /\ body \in Seq(Digits \union Capitals) /\ Len(body) >= 2
         /\ body[1] \in Capitals /\ body[2] \in Capitals
         /\ IbanLength(SubSeq(body, 1, 2)) = {Len(body) + 2}
    [] k = "nino" -> body \in Seq(Digits \union Capitals) /\ Reads(k, body)
    [] k \in {"ssn", "routing"} -> body \in Seq(Digits) /\ Reads(k, body)
    [] OTHER -> body \in Seq(Nat) /\ Reads(k, body)

ASSUME BodiesAssumption == \A k \in DOMAIN Bodies : \A body \in Bodies[k] : Body(k, body)

ASSUME IndicesAssumption == Indices \subseteq Nat \ {0}

\* The expression of an account takes one space at a time.
ASSUME TailsAssumption ==
  \A tail \in Tails :
    /\ tail \in Seq(Nat) /\ tail # <<>>
    /\ tail[1] = Space => Len(tail) >= 2 /\ tail[2] # Space

\* Dates of the calendar, their years in four figures.
ASSUME DatesAssumption ==
  \A date \in Dates :
    /\ date[1] \in Nat /\ date[1] >= 1000 /\ date[2] \in 1..12
    /\ date[3] \in Nat /\ 1 <= date[3] /\ date[3] <= MonthLength(date[1], date[2])

Init ==
  /\ kind \in Assignable \union Typed \union {"date"}
  /\ origin = "blank" /\ value = <<>> /\ whole = 0

\* A number an issuer gave out.
Issue(body) ==
  /\ origin = "blank" /\ kind \in Assignable /\ Assigned(kind, body)
  /\ value' = Issued(kind, body)
  /\ whole' = Len(value')
  /\ origin' = "issued"
  /\ UNCHANGED kind

\* A stand-in of the agent.
Mint(i) ==
  /\ origin = "blank" /\ kind \in Mintable /\ i <= Capacity(kind)
  /\ value' = StandIn(kind, i)
  /\ whole' = Len(value')
  /\ origin' = "stand-in"
  /\ UNCHANGED kind

\* The kinds whose check finds a single wrong digit, and any two exchanged.
Checked == {"card", "siren", "siret", "nir", "iban", "nhs", "routing"}
FindsExchange(a, b) ==
  \/ kind \in {"nir", "iban", "nhs"}
  \/ kind \in {"card", "siren", "siret"} /\ {a, b} # {0, 9}

Mistype(i, d) ==
  /\ origin = "issued" /\ kind \in Checked
  /\ i \in DOMAIN value /\ value[i] \in Digits /\ value[i] # d
  /\ value' = [value EXCEPT ![i] = d]
  /\ origin' = "mistyped"
  /\ UNCHANGED <<kind, whole>>

Exchange(i) ==
  /\ origin = "issued" /\ kind \in Checked /\ {i, i + 1} \subseteq DOMAIN value
  /\ {value[i], value[i + 1]} \subseteq Digits /\ value[i] # value[i + 1]
  /\ FindsExchange(value[i], value[i + 1])
  /\ value' = [value EXCEPT ![i] = value[i + 1], ![i + 1] = value[i]]
  /\ origin' = "exchanged"
  /\ UNCHANGED <<kind, whole>>

\* The separators a kind is printed with.
Separators(k) ==
  CASE k = "card" -> {Space, Dash} [] k = "iban" -> {Space} [] k = "nir" -> {Space, Dot}
    [] k \in {"siren", "siret"} -> {Space, Dot} [] k \in {"nhs", "nino", "ssn"} -> {Space, Dash}
    [] OTHER -> {}

InGroups(text, size, separator) ==
  [n \in 1..(Len(text) + (Len(text) - 1) \div size) |->
     IF n % (size + 1) = 0 THEN separator ELSE text[n - n \div (size + 1)]]

\* Written in groups.
Group(size, separator) ==
  /\ origin \in {"issued", "stand-in"} /\ separator \in Separators(kind)
  /\ ~Has(value, {Space, Dot, Dash})
  /\ value' = InGroups(value, size, separator)
  /\ whole' = Len(value')
  /\ UNCHANGED <<kind, origin>>

\* Pasted in front of another word: the expression takes both.
RunInto(tail) ==
  /\ origin = "issued" /\ kind = "iban"
  /\ value' = value \o tail
  /\ origin' = "run on"
  /\ UNCHANGED <<kind, whole>>

\* A date, in one of the notations of the patterns.
WriteDate(y, m, d, notation) ==
  /\ origin = "blank" /\ kind = "date"
  /\ value' = CASE notation = "iso" -> <<y, m, d>>
                [] notation = "day first" -> <<d, m, y>>
                [] notation = "month first" -> <<m, d, y>>
                [] notation = "in words" -> <<d, 100 + m, y>>
  /\ whole' = Len(value')
  /\ origin' = IF ~Before(Cutoff, <<y, m, d>>) THEN "issued"
               ELSE IF notation \in {"iso", "in words"} THEN "too late" ELSE "either way"
  /\ UNCHANGED kind

\* A number of five digits in a listing, the month of its line after it.
List(month) ==
  /\ origin = "blank" /\ kind = "postcode"
  /\ value' = <<0, month>>
  /\ whole' = Len(value')
  /\ origin' = "listing"
  /\ UNCHANGED kind

\* A password, typed.
Type(c) ==
  /\ kind \in Typed /\ Len(value) < MaxTyped
  /\ value' = Append(value, c)
  /\ whole' = whole + 1
  /\ origin' = "typed"
  /\ UNCHANGED kind

Next ==
  \/ \E body \in IF kind \in DOMAIN Bodies THEN Bodies[kind] ELSE {} : Issue(body)
  \/ \E i \in Indices : Mint(i)
  \/ \E i \in 1..34, d \in Digits : Mistype(i, d)
  \/ \E i \in 1..34 : Exchange(i)
  \/ \E size \in 2..4, separator \in {Space, Dot, Dash} : Group(size, separator)
  \/ \E tail \in Tails : RunInto(tail)
  \/ \E date \in Dates, notation \in {"iso", "day first", "month first", "in words"} :
       WriteDate(date[1], date[2], date[3], notation)
  \/ \E month \in Months : List(month) \/ List(month + 1000)
  \/ \E c \in Keys : Type(c)

Spec == Init /\ [][Next]_vars

-----------------------------------------------------------------------------
(* Properties. *)

\* A number its issuer assigned is read in every grouping it is printed in, an
\* account also where it runs into the next word, and a date of birth a year old
\* in every notation, whichever country's pattern found it.
IssuedIsRead ==
  /\ origin = "issued" => Reads(kind, value)
  /\ origin = "run on" => TrimToIBAN(value) = whole

\* A number with a wrong digit or two exchanged, a stand-in of the agent in any
\* grouping, a date to come and a line of a listing are refused by the rules of their
\* own kind.  The rules of another kind may still take them: nine digits in a row are
\* read both as a SIREN and as a routing number where both countries are loaded, and
\* a stand-in of either may pass the check of the other.
NobodysIsRefused ==
  origin \in {"mistyped", "exchanged", "stand-in", "too late", "listing"} => ~Reads(kind, value)

\* A bracket that is open at the end: wherever one stops reading after it, more of
\* its kind were opened than closed.
LeftOpen(v) ==
  \E o \in DOMAIN CloserFor : \E i \in DOMAIN v :
    /\ v[i] = o
    /\ \A j \in i..Len(v) : Cardinality({n \in i..j : v[n] = o})
                            > Cardinality({n \in i..j : v[n] = CloserFor[o]})

\* Brackets of more than one kind.
Crossed(v) == \E o, p \in DOMAIN CloserFor : o # p /\ Has(v, {o}) /\ Has(v, {p})

\* A password with a digit in it is a credential, unless it is a number or a
\* reference or has the dots of a chain of names; a last dot changes nothing; and a
\* word of small letters is one, unless it is a word of the language or names
\* itself.  Without quotes, an expression cut short is refused, and brackets that
\* close where they should refuse nothing.  Nobody weakens a password by typing on.
PasswordIsKept ==
  origin = "typed" =>
    LET v == WithoutStars(value)
        cut == kind # "secret" /\ LeftOpen(value)
        crossed == kind # "secret" /\ Crossed(value)
    IN  /\ Has(v, Digits) /\ ~Within(v, Digits) /\ ~Interpolation(v) /\ ~Has(v, {Dot})
             /\ ~cut /\ ~crossed
             => Reads(kind, value)
        /\ Has(value, Digits) /\ Last(value) = Dot /\ value[1] \notin Stars \union {Dot}
             /\ ~Within(Front(value), Digits) /\ ~Next2(value, {Question}, {Dot})
             /\ ~Interpolation(Front(value)) /\ Reads(kind, Front(value))
             => Reads(kind, value)
        /\ Within(value, Small \union Hyphens \union {Reserved}) /\ value # <<Reserved>> => Reads(kind, value)
        /\ cut => ~Reads(kind, value)
        /\ SecretStrength(Front(value)) <= SecretStrength(value)
=============================================================================
