-------------------------------- MODULE Money --------------------------------
(***************************************************************************)
(* Amounts between text, exact decimals and NUMERIC columns.  A decimal is *)
(* what shopspring/decimal keeps: coef * 10^exp, so that one number has    *)
(* several decimals.  Text is a sequence of digits and marks, with the     *)
(* code or the symbol of a currency as one element of it.  Exponents       *)
(* ("1e3") spell no other numbers and are left out.                        *)
(***************************************************************************)
EXTENDS Integers, Sequences, SequencesExt

CONSTANTS
    MaxIntegerDigits,  \* maxIntegerDigits, 18 in the code
    ColumnDigits,      \* digits before the point of a NUMERIC column, 18
    ColumnScale        \* digits behind it, 6

\* A column has room for the digits that are read, and for the decimals of every
\* currency below.
ASSUME ScaleAssumption == /\ MaxIntegerDigits \in 1..ColumnDigits
                          /\ ColumnDigits \in Nat /\ ColumnScale \in 3..6

Digits == <<"0", "1", "2", "3", "4", "5", "6", "7", "8", "9">>
DigitOf == [x \in ToSet(Digits) |-> CHOOSE i \in 0..9 : Digits[i + 1] = x]

Currency(code, symbol, scale) == [code |-> code, symbol |-> symbol, scale |-> scale]

defaultScale == 2

currencies ==
    {Currency("NGN", "naira", 2), Currency("USD", "$", 2), Currency("EUR", "euro", 2),
     Currency("GBP", "pound", 2), Currency("KES", "KSh", 2), Currency("GHS", "cedi", 2),
     Currency("ZAR", "R", 2), Currency("JPY", "yen", 0), Currency("KWD", "KD", 3),
     Currency("TND", "DT", 3)}

\* The currency of a code in upper case, without blanks around it.
Lookup(code) ==
    IF \E c \in currencies : c.code = code
    THEN CHOOSE c \in currencies : c.code = code
    ELSE Currency(code, "", defaultScale)

-----------------------------------------------------------------------------
(***************************************************************************)
(* Decimals.                                                               *)
(***************************************************************************)
Decimal(coef, exp) == [coef |-> coef, exp |-> exp]

\* A decimal with no more than s places, in units of 10^-s.
Units(a, s) == a.coef * 10^(s + a.exp)

\* Enough places for two decimals, and no fewer than a column has.
Places(a, b) == Max({ColumnScale, -a.exp, -b.exp})

Equal(a, b) == Units(a, Places(a, b)) = Units(b, Places(a, b))

AtLeast(a, b) == Units(a, Places(a, b)) >= Units(b, Places(a, b))

Plus(a, b) == Decimal(Units(a, Places(a, b)) + Units(b, Places(a, b)), -Places(a, b))

\* The digits of n >= 0; 0 has one.
DigitsOf(n) ==
    LET upTo[i \in 0..n] ==
            IF i < 10 THEN <<Digits[i + 1]>>
            ELSE Append(upTo[i \div 10], Digits[(i % 10) + 1])
    IN  upTo[n]

\* Truncate(0).Abs(): the whole units.
Whole(a) == LET n == IF a.coef < 0 THEN -a.coef ELSE a.coef
            IN  IF a.exp < 0 THEN n \div 10^(-a.exp) ELSE n * 10^a.exp

\* String(), which JSON and the database driver use, has no trailing zeros.
Plain(a) ==
    LET drop == CHOOSE k \in 0..(-a.exp) :
                    /\ a.coef % 10^k = 0
                    /\ k = -a.exp \/ a.coef % 10^(k + 1) # 0
    IN  IF a.exp < 0 THEN Decimal(a.coef \div 10^drop, a.exp + drop) ELSE a

\* What a NUMERIC column holds for a decimal, if it can.
Column(a) == Decimal(Units(a, ColumnScale), -ColumnScale)

FitsColumn(a) == Len(DigitsOf(Whole(a))) <= ColumnDigits

-----------------------------------------------------------------------------
(***************************************************************************)
(* Text.                                                                   *)
(***************************************************************************)
\* ReplaceAll: the text without some marks.
Without(raw, marks) ==
    LET kept[i \in 0..Len(raw)] ==
            IF i = 0 THEN <<>>
            ELSE IF raw[i] \in marks THEN kept[i - 1] ELSE Append(kept[i - 1], raw[i])
    IN  kept[Len(raw)]

TrimPrefix(text, prefix) ==
    IF text # <<>> /\ prefix # "" /\ Head(text) = prefix THEN Tail(text) ELSE text

\* Where a sign may be: in front, or right behind a point in front (".+5").
SignPlace(text) == IF text[1] = "." THEN 2 ELSE 1

\* decimal.NewFromString: digits, at most one point, and without that an optional
\* sign in front.
IsNumber(text) ==
    /\ \E i \in 1..Len(text) : text[i] \in ToSet(Digits)
    /\ \A i \in 1..Len(text) :
          \/ text[i] \in ToSet(Digits) \cup {"."}
          \/ i = SignPlace(text) /\ text[i] \in {"-", "+"}
    /\ \A i, j \in 1..Len(text) : text[i] = "." /\ text[j] = "." => i = j

\* The number the digits of a text spell.
Spelled(text) ==
    LET upTo[i \in 0..Len(text)] ==
            IF i = 0 THEN 0
            ELSE IF text[i] \in DOMAIN DigitOf THEN 10 * upTo[i - 1] + DigitOf[text[i]]
            ELSE upTo[i - 1]
    IN  upTo[Len(text)]

\* A sign behind the point counts as a decimal: ".+5" is 0.05.
NewFromString(text) ==
    LET size   == Spelled(text)
        behind == IF "." \in ToSet(text)
                  THEN Len(text) - CHOOSE i \in 1..Len(text) : text[i] = "."
                  ELSE 0
    IN  Decimal(IF text[SignPlace(text)] = "-" THEN -size ELSE size, -behind)

Nothing == Decimal(0, 0)

Failed(error) == [error |-> error, amount |-> Nothing]

\* Mutant of TooLarge: a digit more than a column holds.
TooLargeLate(amount) == Len(DigitsOf(Whole(amount))) > MaxIntegerDigits + 1

TooLarge(amount) == Len(DigitsOf(Whole(amount))) > MaxIntegerDigits

\* Mutant of TooPrecise: off by one.
TooPreciseEarly(amount, currency) == -amount.exp >= currency.scale

TooPrecise(amount, currency) == -amount.exp > currency.scale

\* The order of the steps is the code's: separators, code, symbol, digits.
Parse(raw, currency) ==
    LET bare   == Without(raw, {",", " "})
        text   == TrimPrefix(TrimPrefix(bare, currency.code), currency.symbol)
        amount == NewFromString(text)
    IN  IF ~IsNumber(text) THEN Failed("invalid")
        ELSE IF TooLarge(amount) THEN Failed("too large")
        ELSE IF TooPrecise(amount, currency) THEN Failed("too precise")
        ELSE [error |-> "none", amount |-> amount]

\* Mutant of ParsePositive: zero passes.
ParseNonNegative(raw, currency) ==
    LET parsed == Parse(raw, currency)
    IN  IF parsed.error = "none" /\ parsed.amount.coef < 0
        THEN Failed("negative") ELSE parsed

ParsePositive(raw, currency) ==
    LET parsed == Parse(raw, currency)
    IN  IF parsed.error = "none" /\ parsed.amount.coef <= 0
        THEN Failed("negative") ELSE parsed

\* a >= 0 in units of 10^-scale, a half away from zero.
Rounded(a, scale) ==
    IF -a.exp <= scale THEN Units(a, scale)
    ELSE LET unit == 10^(-a.exp - scale) IN (2 * a.coef + unit) \div (2 * unit)

\* The last scale digits of n.
Behind(n, scale) == [i \in 1..scale |-> Digits[((n \div 10^(scale - i)) % 10) + 1]]

\* Mutant of Format: two decimals, whatever the currency.
FormatTwoPlaces(a, currency) ==
    LET n == Rounded(a, 2)
    IN  Append(DigitsOf(n \div 100), ".") \o Behind(n, 2)

\* StringFixed: at least one digit before the point and scale behind it.
Format(a, currency) ==
    LET n     == Rounded(a, currency.scale)
        whole == DigitsOf(n \div 10^currency.scale)
    IN  IF currency.scale = 0 THEN whole
        ELSE Append(whole, ".") \o Behind(n, currency.scale)
==============================================================================
