----------------------------- MODULE MoneyProofs -----------------------------
(***************************************************************************)
(* What Money does to an amount on its way in: what is read from any text  *)
(* as a positive amount is a credit, and neither the JSON of the queue nor *)
(* a column nor the addition to a balance makes another amount of it.  On  *)
(* its way out: what is printed in the currency it was read in reads back. *)
(*                                                                         *)
(* A text is read by recursion over its places.  The provers know nothing  *)
(* of a recursive function, not even that there is one: StepByStep builds  *)
(* it.  Of powers they know those with a literal exponent, which is why    *)
(* the exponents are taken apart here, see PowerIs.                        *)
(***************************************************************************)
EXTENDS Money, SumTheorems

-----------------------------------------------------------------------------
(***************************************************************************)
(* Recursion along a text.                                                 *)
(***************************************************************************)

\* What holds at the first place and passes from each to the next, holds at all.
LEMMA AllPlaces ==
    ASSUME NEW n \in Nat, NEW P, 0 \in P, \A i \in 1..n : i - 1 \in P => i \in P
    PROVE  0..n \subseteq P
<1> DEFINE T == {i \in Nat : i <= n => i \in P}
<1>1. 0 \in T
  OBVIOUS
<1>2. ASSUME NEW i \in T PROVE i + 1 \in T
  <2> SUFFICES ASSUME i + 1 <= n PROVE i + 1 \in P
    OBVIOUS
  <2>1. i + 1 \in 1..n /\ (i + 1) - 1 = i
    OBVIOUS
  <2> QED
    BY <2>1
<1>3. T = Nat
  <2>1. T \subseteq Nat
    OBVIOUS
  <2> HIDE DEF T
  <2> QED
    BY <1>1, <1>2, <2>1, AllNumbers
<1> QED
  BY <1>3

\* So do the values of a function.
LEMMA Along ==
    ASSUME NEW n \in Nat, NEW V, NEW f, f[0] \in V,
           \A i \in 1..n : f[i - 1] \in V => f[i] \in V
    PROVE  \A i \in 0..n : f[i] \in V
<1> DEFINE P == {i \in 0..n : f[i] \in V}
<1>1. 0 \in P /\ \A i \in 1..n : i - 1 \in P => i \in P
  OBVIOUS
<1> HIDE DEF P
<1>2. 0..n \subseteq P
  BY <1>1, AllPlaces
<1> QED
  BY <1>2 DEF P

\* f starts with b and goes on with F, n times.
Runs(f, b, F, n) == f[0] = b /\ \A i \in 1..n : f[i] = F[<<i, f[i - 1]>>]

\* There is such an f.
LEMMA StepByStep ==
    ASSUME NEW V, NEW b \in V, NEW F \in [Nat \X V -> V], NEW n \in Nat
    PROVE  \E f \in [0..n -> V] : Runs(f, b, F, n)
<1> DEFINE T == {m \in Nat : \E f \in [0..m -> V] : Runs(f, b, F, m)}
<1>1. 0 \in T
  <2>1. [i \in 0..0 |-> b] \in [0..0 -> V] /\ Runs([i \in 0..0 |-> b], b, F, 0)
    BY DEF Runs
  <2> QED
    BY <2>1
<1>2. ASSUME NEW m \in T PROVE m + 1 \in T
  <2>1. PICK f \in [0..m -> V] : Runs(f, b, F, m)
    OBVIOUS
  <2> DEFINE h == [i \in 0..(m + 1) |-> IF i = m + 1 THEN F[<<i, f[m]>>] ELSE f[i]]
  <2>2. h \in [0..(m + 1) -> V]
    <3>1. F[<<m + 1, f[m]>>] \in V
      OBVIOUS
    <3> QED
      BY <3>1
  <2>3. h[0] = b
    BY <2>1 DEF Runs
  <2>4. ASSUME NEW i \in 1..(m + 1)
        PROVE  h[i] = F[<<i, h[i - 1]>>]
    <3>1. i - 1 \in 0..m /\ i - 1 # m + 1 /\ h[i - 1] = f[i - 1]
      OBVIOUS
    <3>2. CASE i = m + 1
      BY <3>1, <3>2
    <3>3. CASE i # m + 1
      <4>1. i \in 1..m /\ h[i] = f[i]
        BY <3>3
      <4> QED
        BY <2>1, <3>1, <4>1 DEF Runs
    <3> QED
      BY <3>2, <3>3
  <2> HIDE DEF h
  <2>5. Runs(h, b, F, m + 1)
    BY <2>3, <2>4 DEF Runs
  <2> QED
    BY <2>2, <2>5
<1>3. T = Nat
  <2>1. T \subseteq Nat
    OBVIOUS
  <2> HIDE DEF T
  <2> QED
    BY <1>1, <1>2, <2>1, AllNumbers
<1> QED
  BY <1>3

\* A digit stands for a natural number.
LEMMA DigitValue ==
    ASSUME NEW x \in DOMAIN DigitOf
    PROVE  DigitOf[x] \in Nat
<1>1. x \in ToSet(Digits) /\ DigitOf[x] = CHOOSE i \in 0..9 : Digits[i + 1] = x
  BY DEF DigitOf
<1>2. PICK j \in DOMAIN Digits : Digits[j] = x
  BY <1>1 DEF ToSet
<1>3. j \in 1..10
  BY DEF Digits
<1>4. j - 1 \in 0..9 /\ Digits[(j - 1) + 1] = x
  BY <1>2, <1>3
<1>5. \E i \in 0..9 : Digits[i + 1] = x
  BY <1>4
<1>6. DigitOf[x] \in 0..9
  BY <1>1, <1>5
<1> QED
  BY <1>6

\* One place of a text goes on with what the places before it spell.
ReadOn(x, v) == IF x \in DOMAIN DigitOf THEN 10 * v + DigitOf[x] ELSE v

\* What a text spells is reached place by place.
LEMMA SpelledSteps ==
    ASSUME NEW text, NEW n \in Nat, n = Len(text)
    PROVE  \E f : /\ f[0] = 0 /\ f[n] = Spelled(text)
                  /\ \A i \in 1..n : f[i] = ReadOn(text[i], f[i - 1])
                  /\ \A i \in 0..n : f[i] \in Nat
<1> DEFINE Step(i, v) == ReadOn(text[i], v)
           Is(f) == f = [i \in 0..Len(text) |-> IF i = 0 THEN 0 ELSE Step(i, f[i - 1])]
           upTo == CHOOSE f : Is(f)
           V == Nat
           b == 0
<1>1. Spelled(text) = upTo[n]
  BY DEF Spelled, ReadOn
<1>2. b \in V
  OBVIOUS
<1>3. ASSUME NEW i \in 1..n, NEW v \in V
      PROVE  Step(i, v) \in V
  BY DigitValue DEF ReadOn
<1> HIDE DEF V, b, Step
<1>4. \E f : Is(f)
  <2> DEFINE F == [p \in Nat \X V |-> IF p[1] \in 1..n THEN Step(p[1], p[2]) ELSE b]
  <2>1. F \in [Nat \X V -> V]
    BY <1>2, <1>3
  <2>2. ASSUME NEW i \in 1..n, NEW v \in V
        PROVE  F[<<i, v>>] = Step(i, v)
    OBVIOUS
  <2> HIDE DEF F
  <2>3. PICK f \in [0..n -> V] : Runs(f, b, F, n)
    BY <1>2, <2>1, StepByStep
  <2>4. ASSUME NEW i \in 1..n
        PROVE  f[i] = Step(i, f[i - 1])
    <3>1. i - 1 \in 0..n /\ f[i - 1] \in V
      OBVIOUS
    <3> QED
      BY <2>2, <2>3, <3>1 DEF Runs
  <2>5. f = [i \in 0..n |-> IF i = 0 THEN 0 ELSE Step(i, f[i - 1])]
    BY <2>3, <2>4 DEF Runs, b
  <2> QED
    BY <2>5
<1>5. Is(upTo)
  BY <1>4
<1> HIDE DEF upTo
<1>6. upTo[0] = b /\ \A i \in 1..n : upTo[i] = Step(i, upTo[i - 1])
  BY <1>5 DEF b
<1>7. \A i \in 0..n : upTo[i] \in V
  <2>1. \A i \in 1..n : upTo[i - 1] \in V => upTo[i] \in V
    BY <1>3, <1>6
  <2> QED
    BY <1>2, <1>6, <2>1, Along
<1> QED
  BY <1>1, <1>6, <1>7 DEF V, b, Step

\* So do the digits of a text, whatever else is in it.
LEMMA SpelledType ==
    ASSUME NEW text, Len(text) \in Nat
    PROVE  Spelled(text) \in Nat
BY SpelledSteps

\* A text spells no more and no less for what comes behind it.
LEMMA SpelledAppend ==
    ASSUME NEW S, NEW text \in Seq(S), NEW x \in S
    PROVE  Spelled(Append(text, x)) = ReadOn(x, Spelled(text))
<1> DEFINE n == Len(text)
           more == Append(text, x)
<1>1. n \in Nat /\ Len(more) = n + 1 /\ more[n + 1] = x /\ \A i \in 1..n : more[i] = text[i]
  OBVIOUS
<1> HIDE DEF more, n
<1>2. PICK f : /\ f[0] = 0 /\ f[n] = Spelled(text)
               /\ \A i \in 1..n : f[i] = ReadOn(text[i], f[i - 1])
  BY <1>1, SpelledSteps DEF n
<1>3. PICK g : /\ g[0] = 0 /\ g[n + 1] = Spelled(more)
               /\ \A i \in 1..(n + 1) : g[i] = ReadOn(more[i], g[i - 1])
  <2>1. n + 1 \in Nat /\ n + 1 = Len(more)
    BY <1>1
  <2> QED
    BY <2>1, SpelledSteps
<1> DEFINE P == {i \in 0..n : f[i] = g[i]}
<1>4. 0..n \subseteq P
  <2>1. 0 \in P
    BY <1>1, <1>2, <1>3
  <2>2. ASSUME NEW i \in 1..n, i - 1 \in P
        PROVE  i \in P
    <3>1. i - 1 \in 0..n /\ i \in 0..n /\ i \in 1..(n + 1) /\ f[i - 1] = g[i - 1]
      BY <1>1, <2>2
    <3>2. f[i] = g[i]
      BY <1>1, <1>2, <1>3, <3>1
    <3> QED
      BY <3>1, <3>2
  <2> HIDE DEF P
  <2> QED
    BY <1>1, <2>1, <2>2, AllPlaces
<1>5. g[n + 1] = ReadOn(x, g[n])
  <2>1. n + 1 \in 1..(n + 1) /\ (n + 1) - 1 = n
    BY <1>1
  <2> QED
    BY <1>1, <1>3, <2>1
<1>6. g[n] = f[n]
  <2>1. n \in 0..n
    BY <1>1
  <2> QED
    BY <1>4, <2>1
<1> QED
  BY <1>2, <1>3, <1>5, <1>6 DEF more

\* A text without some of its marks is a text, and the same if it has none.
LEMMA WithoutType ==
    ASSUME NEW S, NEW raw \in Seq(S), NEW marks
    PROVE  /\ Without(raw, marks) \in Seq(S)
           /\ S \cap marks = {} => Without(raw, marks) = raw
<1> DEFINE Step(i, v) == IF raw[i] \in marks THEN v ELSE Append(v, raw[i])
           Goes(f) == f = [i \in 0..Len(raw) |-> IF i = 0 THEN <<>> ELSE Step(i, f[i - 1])]
           kept == CHOOSE f : Goes(f)
           V == Seq(S)
           b == <<>>
<1>1. Without(raw, marks) = kept[Len(raw)]
  BY DEF Without
<1>2. PICK n \in Nat : n = Len(raw)
  OBVIOUS
<1>3. b \in V
  OBVIOUS
<1>4. ASSUME NEW i \in 1..n, NEW v \in V
      PROVE  Step(i, v) \in V
  BY <1>2
<1> HIDE DEF V, b, Step
<1>5. \E f : Goes(f)
  <2> DEFINE F == [p \in Nat \X V |-> IF p[1] \in 1..n THEN Step(p[1], p[2]) ELSE b]
  <2>1. F \in [Nat \X V -> V]
    BY <1>3, <1>4
  <2>2. ASSUME NEW i \in 1..n, NEW v \in V
        PROVE  F[<<i, v>>] = Step(i, v)
    OBVIOUS
  <2> HIDE DEF F
  <2>3. PICK f \in [0..n -> V] : Runs(f, b, F, n)
    BY <1>3, <2>1, StepByStep
  <2>4. ASSUME NEW i \in 1..n
        PROVE  f[i] = Step(i, f[i - 1])
    <3>1. i - 1 \in 0..n /\ f[i - 1] \in V
      OBVIOUS
    <3> QED
      BY <2>2, <2>3, <3>1 DEF Runs
  <2>5. f = [i \in 0..n |-> IF i = 0 THEN <<>> ELSE Step(i, f[i - 1])]
    BY <2>3, <2>4 DEF Runs, b
  <2> QED
    BY <1>2, <2>5
<1>6. Goes(kept)
  BY <1>5
<1> HIDE DEF kept
<1>7. kept[0] = b /\ \A i \in 1..n : kept[i] = Step(i, kept[i - 1])
  BY <1>2, <1>6 DEF b
<1>8. \A i \in 0..n : kept[i] \in V
  <2>1. \A i \in 1..n : kept[i - 1] \in V => kept[i] \in V
    BY <1>4, <1>7
  <2> QED
    BY <1>3, <1>7, <2>1, Along
<1>9. ASSUME S \cap marks = {}
      PROVE  kept[n] = raw
  <2> DEFINE P == {i \in 0..n : kept[i] = SubSeq(raw, 1, i)}
  <2>1. 0 \in P
    <3>1. SubSeq(raw, 1, 0) = <<>> /\ 0 \in 0..n
      OBVIOUS
    <3>2. kept[0] = <<>>
      BY <1>7 DEF b
    <3> QED
      BY <3>1, <3>2
  <2>2. ASSUME NEW i \in 1..n, i - 1 \in P
        PROVE  i \in P
    <3>1. i - 1 \in 0..n /\ i \in 0..n /\ kept[i - 1] = SubSeq(raw, 1, i - 1)
      BY <1>2, <2>2
    <3>2. raw[i] \in S /\ raw[i] \notin marks
      BY <1>2, <1>9
    <3>3. kept[i] = Append(SubSeq(raw, 1, i - 1), raw[i])
      BY <1>7, <3>1, <3>2 DEF Step
    <3>4. Append(SubSeq(raw, 1, i - 1), raw[i]) = SubSeq(raw, 1, i)
      BY <1>2, <3>2
    <3> QED
      BY <3>1, <3>3, <3>4
  <2>3. 0..n \subseteq P
    <3> HIDE DEF P
    <3> QED
      BY <1>2, <2>1, <2>2, AllPlaces
  <2>4. n \in 0..n /\ SubSeq(raw, 1, n) = raw
    BY <1>2
  <2> QED
    BY <2>3, <2>4
<1> QED
  BY <1>1, <1>2, <1>8, <1>9 DEF V

\* And so is one without its prefix.
LEMMA TrimPrefixType ==
    ASSUME NEW S, NEW text \in Seq(S), NEW prefix
    PROVE  TrimPrefix(text, prefix) \in Seq(S)
<1>1. text # <<>> => Tail(text) \in Seq(S)
  OBVIOUS
<1> QED
  BY <1>1 DEF TrimPrefix

\* What is read has an exact coefficient, and no exponent above 0.
LEMMA NewFromStringType ==
    ASSUME NEW S, NEW text \in Seq(S)
    PROVE  /\ NewFromString(text).coef \in Int
           /\ NewFromString(text).exp \in Int
           /\ NewFromString(text).exp <= 0
<1> DEFINE behind == IF "." \in ToSet(text)
                     THEN Len(text) - CHOOSE i \in 1..Len(text) : text[i] = "."
                     ELSE 0
<1>1. Spelled(text) \in Nat
  BY SpelledType
<1>2. behind \in Nat
  <2>1. CASE "." \in ToSet(text)
    <3>1. \E i \in 1..Len(text) : text[i] = "."
      BY <2>1 DEF ToSet
    <3>2. (CHOOSE i \in 1..Len(text) : text[i] = ".") \in 1..Len(text)
      BY <3>1
    <3> QED
      BY <2>1, <3>2
  <2>2. CASE "." \notin ToSet(text)
    BY <2>2
  <2> QED
    BY <2>1, <2>2
<1>3. NewFromString(text) =
        [coef |-> IF text[SignPlace(text)] = "-" THEN -Spelled(text) ELSE Spelled(text), exp |-> -behind]
  BY DEF NewFromString, Decimal
<1> HIDE DEF behind
<1> QED
  BY <1>1, <1>2, <1>3

-----------------------------------------------------------------------------
(***************************************************************************)
(* What is read is a credit.                                               *)
(***************************************************************************)

\* Known or not, a currency has three decimals at most.
LEMMA LookupScale ==
    ASSUME NEW code
    PROVE  Lookup(code).scale \in 0..3
<1>1. \A c \in currencies : c.scale \in 0..3
  BY DEF currencies, Currency
<1>2. CASE \E c \in currencies : c.code = code
  <2>1. Lookup(code) \in currencies
    BY <1>2 DEF Lookup
  <2> QED
    BY <1>1, <2>1
<1>3. CASE ~\E c \in currencies : c.code = code
  BY <1>3 DEF Lookup, Currency, defaultScale
<1> QED
  BY <1>2, <1>3

\* A positive amount, in decimals that fit a column.
Credit(a) == a.coef \in Nat \ {0} /\ a.exp \in -3..0

\* Whatever text ParsePositive takes, it reads a positive amount with no more
\* decimals than the currency has, nor digits before them than are allowed.
THEOREM CreditRead ==
    ASSUME NEW S, NEW raw \in Seq(S), NEW currency, currency.scale \in 0..3,
           ParsePositive(raw, currency).error = "none"
    PROVE  /\ Credit(ParsePositive(raw, currency).amount)
           /\ ~TooLarge(ParsePositive(raw, currency).amount)
           /\ ~TooPrecise(ParsePositive(raw, currency).amount, currency)
<1> DEFINE parsed == Parse(raw, currency)
           bare   == Without(raw, {",", " "})
           text   == TrimPrefix(TrimPrefix(bare, currency.code), currency.symbol)
           amount == NewFromString(text)
<1>1. text \in Seq(S)
  <2>1. bare \in Seq(S)
    BY WithoutType
  <2> HIDE DEF bare
  <2> QED
    BY <2>1, TrimPrefixType
<1>2. amount.coef \in Int /\ amount.exp \in Int /\ amount.exp <= 0
  <2> HIDE DEF text
  <2> QED
    BY <1>1, NewFromStringType
<1>3. parsed = (IF ~IsNumber(text) THEN Failed("invalid")
                ELSE IF TooLarge(amount) THEN Failed("too large")
                ELSE IF TooPrecise(amount, currency) THEN Failed("too precise")
                ELSE [error |-> "none", amount |-> amount])
  BY DEF Parse
<1> HIDE DEF amount, text, parsed
<1>4. parsed.error = "none" => /\ ~TooLarge(amount) /\ ~TooPrecise(amount, currency)
                              /\ parsed.amount = amount
  BY <1>3 DEF Failed
<1>5. parsed.error = "none" /\ ~(parsed.amount.coef <= 0) /\ ParsePositive(raw, currency) = parsed
  BY DEF ParsePositive, Failed, parsed
<1>6. ~(-amount.exp > currency.scale) /\ ~(amount.coef <= 0)
  BY <1>4, <1>5 DEF TooPrecise
<1>7. amount.coef \in Nat \ {0} /\ amount.exp \in -3..0
  BY <1>2, <1>6
<1> QED
  BY <1>4, <1>5, <1>7 DEF Credit

-----------------------------------------------------------------------------
(***************************************************************************)
(* Powers of ten.                                                          *)
(***************************************************************************)

\* p is the k-th power of ten, for the exponents that columns have.
IsPower(p, k) ==
    \/ k = 0 /\ p = 1
    \/ k = 1 /\ p = 10
    \/ k = 2 /\ p = 100
    \/ k = 3 /\ p = 1000
    \/ k = 4 /\ p = 10000
    \/ k = 5 /\ p = 100000
    \/ k = 6 /\ p = 1000000

\* The provers evaluate a power once its exponent is a literal.
LEMMA PowerIs ==
    ASSUME NEW k \in 0..6, NEW p, p = 10^k
    PROVE  IsPower(p, k)
<1>1. k = 0 => p = 1
  OBVIOUS
<1>2. k = 1 => p = 10
  OBVIOUS
<1>3. k = 2 => p = 100
  OBVIOUS
<1>4. k = 3 => p = 1000
  OBVIOUS
<1>5. k = 4 => p = 10000
  OBVIOUS
<1>6. k = 5 => p = 100000
  OBVIOUS
<1>7. k = 6 => p = 1000000
  OBVIOUS
<1> QED
  BY <1>1, <1>2, <1>3, <1>4, <1>5, <1>6, <1>7 DEF IsPower

\* A power of ten is positive.
LEMMA PowerType ==
    ASSUME NEW k \in 0..6
    PROVE  10^k \in Nat \ {0}
<1>1. PICK p : p = 10^k
  OBVIOUS
<1>2. IsPower(p, k)
  BY <1>1, PowerIs, Zenon
<1>3. p \in Nat \ {0}
  BY <1>2 DEF IsPower
<1> QED
  BY <1>1, <1>3, Zenon

\* Powers multiply by adding their exponents.
LEMMA PowerSum ==
    ASSUME NEW j \in 0..6, NEW k \in 0..6, NEW i \in 0..6, i = j + k
    PROVE  10^i = 10^j * 10^k
<1>1. PICK p : p = 10^j
  OBVIOUS
<1>2. PICK q : q = 10^k
  OBVIOUS
<1>3. PICK r : r = 10^i
  OBVIOUS
<1>4. IsPower(p, j) /\ IsPower(q, k) /\ IsPower(r, i)
  BY <1>1, <1>2, <1>3, PowerIs, Zenon
<1>5. r = p * q
  BY <1>4 DEF IsPower
<1> QED
  BY <1>1, <1>2, <1>3, <1>5, Zenon

-----------------------------------------------------------------------------
(***************************************************************************)
(* A credit stays the amount it is.                                        *)
(***************************************************************************)

\* Two decimals with no more places than a column are compared in its units.
LEMMA PlacesOfColumn ==
    ASSUME NEW a, NEW b, a.exp \in -ColumnScale..0, b.exp \in -ColumnScale..0
    PROVE  Places(a, b) = ColumnScale
<1> DEFINE T == {ColumnScale, -a.exp, -b.exp}
<1>1. ColumnScale \in T /\ \A y \in T : ColumnScale >= y /\ y \in Int
  BY ScaleAssumption
<1>2. \A x \in T : (\A y \in T : x >= y) => x = ColumnScale
  BY <1>1, ScaleAssumption
<1>3. Max(T) = ColumnScale
  <2> HIDE DEF T
  <2> QED
    BY <1>1, <1>2 DEF Max
<1> QED
  BY <1>3 DEF Places

\* A credit is a positive number of the units of a column.
LEMMA CreditUnits ==
    ASSUME NEW a, Credit(a)
    PROVE  Units(a, ColumnScale) \in Nat \ {0}
<1>1. PICK k \in 0..6 : k = ColumnScale + a.exp
  BY ScaleAssumption DEF Credit
<1>2. PICK p \in Nat \ {0} : p = 10^k
  BY PowerType
<1>3. Units(a, ColumnScale) = a.coef * p
  BY <1>1, <1>2 DEF Units
<1>4. a.coef \in Nat \ {0}
  BY DEF Credit
<1>5. \A x, y \in Nat \ {0} : x * y \in Nat \ {0}
  OBVIOUS
<1> QED
  BY <1>2, <1>3, <1>4, <1>5

\* What is in a column already is in its units.
LEMMA ColumnUnits ==
    ASSUME NEW a, a.exp = -ColumnScale, a.coef \in Int
    PROVE  Units(a, ColumnScale) = a.coef
<1>1. PICK k : k = ColumnScale + a.exp
  OBVIOUS
<1>2. k = 0
  BY <1>1, ScaleAssumption
<1>3. 10^k = 1
  BY <1>2
<1> QED
  BY <1>1, <1>3 DEF Units

\* A NUMERIC(24,6) column holds the amount of a credit unchanged, and positive:
\* RowOf may store it, and sameRequest compare it.
THEOREM ColumnOfCredit ==
    ASSUME NEW a, Credit(a)
    PROVE  /\ Column(a).coef \in Nat \ {0}
           /\ Column(a).exp = -ColumnScale
           /\ Equal(Column(a), a)
<1> DEFINE c == Column(a)
<1>1. c.coef = Units(a, ColumnScale) /\ c.exp = -ColumnScale
  BY DEF Column, Decimal
<1>2. c.coef \in Nat \ {0}
  BY <1>1, CreditUnits
<1> HIDE DEF c
<1>3. Places(c, a) = ColumnScale
  BY <1>1, ScaleAssumption, PlacesOfColumn DEF Credit
<1>4. Units(c, ColumnScale) = c.coef
  BY <1>1, <1>2, ColumnUnits
<1>5. Equal(c, a)
  BY <1>1, <1>3, <1>4 DEF Equal
<1> QED
  BY <1>1, <1>2, <1>5 DEF c

\* Adding a credit to a balance moves the column by what the credit's own column
\* holds: amount_paid + $1 loses nothing against the sum of the rows.
THEOREM BalanceWithCredit ==
    ASSUME NEW b, b.exp = -ColumnScale, b.coef \in Nat, NEW a, Credit(a)
    PROVE  /\ Column(Plus(b, a)).coef = b.coef + Column(a).coef
           /\ Column(Plus(b, a)).exp = -ColumnScale
<1> DEFINE s == Plus(b, a)
<1>1. Places(b, a) = ColumnScale
  BY ScaleAssumption, PlacesOfColumn DEF Credit
<1>2. Column(a).coef = Units(a, ColumnScale)
  BY DEF Column, Decimal
<1>3. s.coef = b.coef + Column(a).coef /\ s.exp = -ColumnScale
  BY <1>1, <1>2, ColumnUnits DEF Plus, Decimal
<1>4. Column(a).coef \in Nat
  BY ColumnOfCredit
<1> HIDE DEF s
<1>5. Units(s, ColumnScale) = s.coef
  BY <1>3, <1>4, ColumnUnits
<1>6. Column(s).coef = s.coef /\ Column(s).exp = -ColumnScale
  BY <1>5 DEF Column, Decimal
<1> QED
  BY <1>3, <1>6 DEF s

\* n ends in k zeros, and in no more up to e.
Drops(n, e, k) == n % 10^k = 0 /\ (k = e \/ n % 10^(k + 1) # 0)

\* Dropping one zero after the other ends.
LEMMA ZerosDropped ==
    ASSUME NEW n \in Nat \ {0}, NEW e \in 0..3
    PROVE  \E k \in 0..e : Drops(n, e, k)
<1> DEFINE Good(k) == n % 10^k = 0
<1>1. Good(0)
  OBVIOUS
<1>2. ASSUME NEW k \in Nat
      PROVE  k + 1 = 1 => Good(k + 1) = Good(1)
  OBVIOUS
<1> HIDE DEF Good
<1>3. \E k \in 0..e : Good(k) /\ (k = e \/ ~Good(k + 1))
  <2>1. CASE e = 0
    BY <1>1, <2>1
  <2>2. CASE e = 1
    BY <1>1, <2>2
  <2>3. CASE e = 2
    BY <1>1, <2>3
  <2>4. CASE e = 3
    BY <1>1, <2>4
  <2> QED
    BY <2>1, <2>2, <2>3, <2>4
<1> QED
  BY <1>3 DEF Good, Drops

\* The queue's JSON, which drops trailing zeros, carries a credit of the same
\* amount: Enqueue and decode change its spelling only.
THEOREM PlainOfCredit ==
    ASSUME NEW a, Credit(a)
    PROVE  Credit(Plain(a)) /\ Equal(Plain(a), a)
<1>1. a.coef \in Nat \ {0} /\ a.exp \in -3..0
  BY DEF Credit
<1>2. CASE a.exp = 0
  <2>1. Plain(a) = a
    BY <1>2 DEF Plain
  <2> QED
    BY <2>1 DEF Equal
<1>3. CASE a.exp # 0
  <2>1. PICK e \in 1..3 : e = -a.exp /\ a.exp = -e
    BY <1>1, <1>3
  <2>2. PICK n \in Nat \ {0} : n = a.coef
    BY <1>1
  <2> DEFINE drop == CHOOSE k \in 0..e : Drops(n, e, k)
  <2>3. drop \in 0..6 /\ drop \in 0..e /\ Drops(n, e, drop)
    <3>1. e \in 0..3
      OBVIOUS
    <3>2. \E k \in 0..e : Drops(n, e, k)
      BY <3>1, ZerosDropped
    <3>3. drop \in 0..e /\ Drops(n, e, drop)
      BY <3>2
    <3> QED
      BY <3>1, <3>3
  <2>4. Plain(a) = [coef |-> a.coef \div 10^drop, exp |-> a.exp + drop]
    BY <1>1, <1>3, <2>1, <2>2 DEF Plain, Decimal, Drops
  <2> HIDE DEF drop
  <2>5. PICK p \in Nat \ {0} : p = 10^drop
    BY <2>3, PowerType
  <2>6. n % p = 0
    BY <2>3, <2>5 DEF Drops
  <2>7. PICK q \in Nat \ {0} : a.coef = p * q /\ a.coef \div p = q
    BY <2>2, <2>6
  <2>8. Plain(a).coef = q /\ Plain(a).exp = a.exp + drop
    BY <2>4, <2>5, <2>7
  <2>9. Credit(Plain(a))
    BY <1>1, <2>1, <2>3, <2>7, <2>8 DEF Credit
  <2>10. Equal(Plain(a), a)
    <3>1. Places(Plain(a), a) = ColumnScale
      BY <2>9, ScaleAssumption, PlacesOfColumn DEF Credit
    <3>2. PICK j \in 0..6, k \in 0..6 : j = ColumnScale + a.exp /\ k = j + drop
      BY <1>1, <2>1, <2>3, ScaleAssumption
    <3>3. 10^k = 10^j * 10^drop
      BY <2>3, <3>2, PowerSum
    <3>4. PICK r \in Nat \ {0} : r = 10^j
      BY PowerType
    <3>5. Units(a, ColumnScale) = (p * q) * r
      BY <2>7, <3>2, <3>4 DEF Units
    <3>6. ColumnScale + Plain(a).exp = k
      BY <1>1, <2>3, <2>8, <3>2, ScaleAssumption
    <3>7. Units(Plain(a), ColumnScale) = q * (r * p)
      BY <2>5, <2>8, <3>3, <3>4, <3>6 DEF Units
    <3>8. (p * q) * r = q * (r * p)
      OBVIOUS
    <3> QED
      BY <3>1, <3>5, <3>7, <3>8 DEF Equal
  <2> QED
    BY <2>9, <2>10
<1> QED
  BY <1>2, <1>3

-----------------------------------------------------------------------------
(***************************************************************************)
(* What is printed reads back.                                             *)
(***************************************************************************)

\* The characters of digits are digits, tell their values, and are no marks.
LEMMA DigitMarks ==
    /\ \A k \in 0..9 : Digits[k + 1] \in ToSet(Digits) /\ DigitOf[Digits[k + 1]] = k
    /\ DOMAIN DigitOf = ToSet(Digits)
    /\ \A x \in ToSet(Digits) : x \notin {",", " ", "+", "-", "."}
<1>1. DOMAIN DigitOf = ToSet(Digits)
  BY DEF DigitOf
<1>2. DOMAIN Digits = 1..10
  BY DEF Digits
<1>3. \A i, j \in 1..10 : Digits[i] = Digits[j] => i = j
  BY DEF Digits
<1>4. ASSUME NEW k \in 0..9
      PROVE  Digits[k + 1] \in ToSet(Digits) /\ DigitOf[Digits[k + 1]] = k
  <2>1. k + 1 \in 1..10 /\ \A i \in 0..9 : Digits[i + 1] = Digits[k + 1] => i = k
    BY <1>3
  <2>2. Digits[k + 1] \in ToSet(Digits)
    BY <1>2, <2>1 DEF ToSet
  <2>3. DigitOf[Digits[k + 1]] = CHOOSE i \in 0..9 : Digits[i + 1] = Digits[k + 1]
    BY <2>2 DEF DigitOf
  <2> QED
    BY <2>1, <2>2, <2>3
<1>5. \A i \in 1..10 : Digits[i] \notin {",", " ", "+", "-", "."}
  <2>1. \A i \in 1..10 : Digits[i] \in {"0", "1", "2", "3", "4", "5", "6", "7", "8", "9"}
    BY DEF Digits
  <2>2. \A x \in {"0", "1", "2", "3", "4", "5", "6", "7", "8", "9"} :
           x \notin {",", " ", "+", "-", "."}
    OBVIOUS
  <2> QED
    BY <2>1, <2>2
<1>6. \A x \in ToSet(Digits) : x \notin {",", " ", "+", "-", "."}
  BY <1>2, <1>5 DEF ToSet
<1> QED
  BY <1>1, <1>4, <1>6

\* One more digit.
LEMMA DigitAppended ==
    ASSUME NEW S, NEW text \in Seq(S), NEW k \in 0..9, Digits[k + 1] \in S
    PROVE  Spelled(Append(text, Digits[k + 1])) = 10 * Spelled(text) + k
<1>1. Spelled(Append(text, Digits[k + 1])) = ReadOn(Digits[k + 1], Spelled(text))
  BY SpelledAppend
<1> QED
  BY <1>1, DigitMarks DEF ReadOn

\* Text is the digits of n.
Digital(text, n) == text \in Seq(ToSet(Digits)) /\ text # <<>> /\ Spelled(text) = n

\* DigitsOf spells its number.
LEMMA DigitsOfIs ==
    ASSUME NEW n \in Nat
    PROVE  Digital(DigitsOf(n), n)
<1> DEFINE Body(f, i) == IF i < 10 THEN <<Digits[i + 1]>>
                         ELSE Append(f[i \div 10], Digits[(i % 10) + 1])
           Is(f, m) == f = [i \in 0..m |-> Body(f, i)]
           upTo == CHOOSE f : Is(f, n)
           T == {m \in Nat : \E f : Is(f, m)}
           P == {i \in 0..n : \A j \in 0..i : Digital(upTo[j], j)}
<1>1. DigitsOf(n) = upTo[n]
  BY DEF DigitsOf
<1>2. ASSUME NEW f, NEW g, NEW i \in Nat, i >= 10 => f[i \div 10] = g[i \div 10]
      PROVE  Body(f, i) = Body(g, i)
  BY <1>2
<1>3. 0 \in T
  <2> DEFINE f == [i \in 0..0 |-> <<Digits[i + 1]>>]
  <2>1. \A i \in 0..0 : f[i] = Body(f, i)
    OBVIOUS
  <2>2. Is(f, 0)
    BY <2>1
  <2> QED
    BY <2>2
<1>4. ASSUME NEW m \in T
      PROVE  m + 1 \in T
  <2>1. PICK f : Is(f, m)
    OBVIOUS
  <2> DEFINE h == [i \in 0..(m + 1) |-> IF i = m + 1 THEN Body(f, m + 1) ELSE f[i]]
  <2>2. ASSUME NEW i \in 0..(m + 1)
        PROVE  h[i] = Body(h, i)
    <3>1. i >= 10 => i \div 10 \in 0..m
      OBVIOUS
    <3>2. i >= 10 => f[i \div 10] = h[i \div 10]
      BY <3>1
    <3>3. Body(f, i) = Body(h, i)
      BY <1>2, <3>2
    <3>4. h[i] = Body(f, i)
      <4>1. CASE i = m + 1
        BY <4>1
      <4>2. CASE i # m + 1
        <5>1. i \in 0..m /\ h[i] = f[i]
          BY <4>2
        <5> HIDE DEF h, Body
        <5> QED
          BY <2>1, <5>1
      <4> QED
        BY <4>1, <4>2
    <3> QED
      BY <3>3, <3>4
  <2>3. h = [i \in 0..(m + 1) |-> h[i]]
    OBVIOUS
  <2> HIDE DEF h, Body
  <2>4. Is(h, m + 1)
    BY <2>2, <2>3
  <2> QED
    BY <2>4
<1>5. T = Nat
  <2>1. T \subseteq Nat
    OBVIOUS
  <2> HIDE DEF T
  <2> QED
    BY <1>3, <1>4, <2>1, AllNumbers
<1>6. Is(upTo, n)
  BY <1>5
<1> HIDE DEF upTo
<1>7. ASSUME NEW i \in 0..n, i < 10
      PROVE  Digital(upTo[i], i)
  <2>1. i \in 0..9 /\ upTo[i] = <<Digits[i + 1]>>
    BY <1>6, <1>7
  <2>2. Digits[i + 1] \in ToSet(Digits)
    BY <2>1, DigitMarks
  <2>3. <<>> \in Seq(ToSet(Digits)) /\ upTo[i] = Append(<<>>, Digits[i + 1])
        /\ upTo[i] \in Seq(ToSet(Digits)) /\ upTo[i] # <<>>
    BY <2>1, <2>2
  <2>4. Spelled(<<>>) = 0
    BY SpelledSteps, Len(<<>>) = 0
  <2>5. Spelled(upTo[i]) = 10 * 0 + i
    BY <2>1, <2>2, <2>3, <2>4, DigitAppended
  <2> QED
    BY <2>3, <2>5 DEF Digital
<1>8. ASSUME NEW i \in 0..n, i >= 10, Digital(upTo[i \div 10], i \div 10)
      PROVE  Digital(upTo[i], i)
  <2>1. PICK k \in 0..9, q \in Nat : k = i % 10 /\ q = i \div 10 /\ i = 10 * q + k
    OBVIOUS
  <2>2. upTo[i] = Append(upTo[q], Digits[k + 1])
    <3>1. upTo[i] = Body(upTo, i)
      <4> HIDE DEF Body
      <4> QED
        BY <1>6
    <3>2. ~(i < 10)
      BY <1>8
    <3> QED
      BY <2>1, <3>1, <3>2
  <2>3. Digits[k + 1] \in ToSet(Digits)
    BY DigitMarks
  <2>4. upTo[i] \in Seq(ToSet(Digits)) /\ upTo[i] # <<>>
    BY <1>8, <2>1, <2>2, <2>3 DEF Digital
  <2>5. Spelled(upTo[i]) = 10 * q + k
    BY <1>8, <2>1, <2>2, <2>3, DigitAppended DEF Digital
  <2> QED
    BY <2>1, <2>4, <2>5 DEF Digital
<1>9. 0 \in P
  BY <1>7
<1>10. ASSUME NEW i \in 1..n, i - 1 \in P
       PROVE  i \in P
  <2>1. i \in 0..n /\ \A j \in 0..(i - 1) : Digital(upTo[j], j)
    BY <1>10
  <2>2. i >= 10 => i \div 10 \in 0..(i - 1)
    OBVIOUS
  <2>3. Digital(upTo[i], i)
    BY <1>7, <1>8, <2>1, <2>2
  <2> QED
    BY <2>1, <2>3
<1>11. 0..n \subseteq P
  <2> HIDE DEF P
  <2> QED
    BY <1>9, <1>10, AllPlaces
<1>12. n \in P
  BY <1>11
<1> QED
  BY <1>1, <1>12

\* Text is the digits of n, the last d of them behind a point.
Dotted(text, n, d) ==
    /\ text \in Seq(ToSet(Digits) \cup {"."}) /\ Spelled(text) = n
    /\ Len(text) - d \in 2..Len(text) /\ Head(text) \in ToSet(Digits)
    /\ \A i \in 1..Len(text) : text[i] = "." <=> i = Len(text) - d

\* The point comes behind some digits.
LEMMA PointAppended ==
    ASSUME NEW n \in Nat, NEW text, Digital(text, n)
    PROVE  Dotted(Append(text, "."), n, 0)
<1> DEFINE D == ToSet(Digits)
           S == D \cup {"."}
           more == Append(text, ".")
<1>1. text \in Seq(D) /\ text # <<>> /\ Spelled(text) = n
  BY DEF Digital
<1>2. "." \notin D
  BY DigitMarks
<1> HIDE DEF D
<1>3. text \in Seq(S) /\ more \in Seq(S) /\ Len(more) = Len(text) + 1 /\ Len(text) \in Nat \ {0}
  BY <1>1
<1>4. Spelled(more) = n
  <2>1. Spelled(more) = ReadOn(".", Spelled(text))
    BY <1>3, SpelledAppend
  <2> QED
    BY <1>1, <1>2, <2>1, DigitMarks DEF ReadOn, D
<1>5. \A i \in 1..Len(more) : more[i] = "." <=> i = Len(more) - 0
  BY <1>1, <1>2, <1>3
<1>6. Head(more) \in D
  BY <1>1, <1>3
<1> QED
  BY <1>3, <1>4, <1>5, <1>6 DEF Dotted, D

\* And more digits behind it.
LEMMA DecimalAppended ==
    ASSUME NEW n \in Nat, NEW d \in Nat, NEW text, Dotted(text, n, d), NEW k \in 0..9
    PROVE  Dotted(Append(text, Digits[k + 1]), 10 * n + k, d + 1)
<1> DEFINE D == ToSet(Digits)
           S == D \cup {"."}
           more == Append(text, Digits[k + 1])
<1>1. /\ text \in Seq(S) /\ Spelled(text) = n
      /\ Len(text) - d \in 2..Len(text) /\ Head(text) \in D
      /\ \A i \in 1..Len(text) : text[i] = "." <=> i = Len(text) - d
  BY DEF Dotted
<1>2. Digits[k + 1] \in D /\ Digits[k + 1] # "."
  BY DigitMarks
<1> HIDE DEF D
<1>3. /\ more \in Seq(S) /\ Len(more) = Len(text) + 1 /\ Len(text) \in Nat \ {0}
      /\ more[Len(text) + 1] = Digits[k + 1] /\ \A i \in 1..Len(text) : more[i] = text[i]
  BY <1>1, <1>2
<1>4. Spelled(more) = 10 * n + k
  BY <1>1, <1>2, DigitAppended
<1> HIDE DEF more
<1>5. ASSUME NEW i \in 1..Len(more)
      PROVE  more[i] = "." <=> i = Len(more) - (d + 1)
  <2>1. CASE i = Len(more)
    <3>1. more[i] = Digits[k + 1]
      BY <1>3, <2>1
    <3> QED
      BY <1>2, <1>3, <2>1, <3>1
  <2>2. CASE i # Len(more)
    <3>1. i \in 1..Len(text) /\ more[i] = text[i]
      BY <1>3, <2>2
    <3>2. Len(more) - (d + 1) = Len(text) - d
      BY <1>3
    <3> QED
      BY <1>1, <3>1, <3>2
  <2> QED
    BY <2>1, <2>2
<1>6. Head(more) \in D /\ Len(more) - (d + 1) \in 2..Len(more)
  BY <1>1, <1>3
<1> QED
  BY <1>3, <1>4, <1>5, <1>6 DEF Dotted, D, more

\* Dividing by ten once more.
LEMMA TenTimes ==
    ASSUME NEW n \in Nat, NEW k \in 0..2
    PROVE  (n \div 10) \div 10^k = n \div 10^(k + 1)
<1>1. PICK j \in 1..3 : j = k + 1
  OBVIOUS
<1>2. PICK p : p = 10^k
  OBVIOUS
<1>3. PICK r : r = 10^j
  OBVIOUS
<1>4. k \in 0..6 /\ j \in 0..6
  OBVIOUS
<1>5. IsPower(p, k) /\ IsPower(r, j)
  BY <1>2, <1>3, <1>4, PowerIs, Zenon
<1>6. (n \div 10) \div p = n \div r
  <2>1. CASE k = 0
    BY <1>1, <1>5, <2>1 DEF IsPower
  <2>2. CASE k = 1
    BY <1>1, <1>5, <2>2 DEF IsPower
  <2>3. CASE k = 2
    BY <1>1, <1>5, <2>3 DEF IsPower
  <2> QED
    BY <2>1, <2>2, <2>3
<1> QED
  BY <1>1, <1>2, <1>3, <1>6

\* n with its last d digits behind a point.
Pointed(n, d) == Append(DigitsOf(n \div 10^d), ".") \o Behind(n, d)

\* It is so by construction.
LEMMA PointedIs ==
    ASSUME NEW d \in 0..3
    PROVE  \A n \in Nat : Dotted(Pointed(n, d), n, d)
<1> DEFINE Good(e) == \A n \in Nat : Dotted(Pointed(n, e), n, e)
<1>1. Good(0)
  <2> SUFFICES ASSUME NEW n \in Nat PROVE Dotted(Pointed(n, 0), n, 0)
    OBVIOUS
  <2> DEFINE whole == Append(DigitsOf(n), ".")
  <2>1. Dotted(whole, n, 0)
    BY DigitsOfIs, PointAppended
  <2>2. Behind(n, 0) = <<>>
    BY DEF Behind
  <2>3. n \div 10^0 = n
    OBVIOUS
  <2>4. Pointed(n, 0) = whole \o <<>>
    BY <2>2, <2>3 DEF Pointed
  <2> HIDE DEF whole
  <2>5. whole \o <<>> = whole
    BY <2>1 DEF Dotted
  <2> QED
    BY <2>1, <2>4, <2>5
<1>2. ASSUME NEW e \in 0..2, Good(e)
      PROVE  Good(e + 1)
  <2> SUFFICES ASSUME NEW n \in Nat PROVE Dotted(Pointed(n, e + 1), n, e + 1)
    OBVIOUS
  <2>1. PICK q \in Nat, k \in 0..9 : q = n \div 10 /\ k = n % 10 /\ n = 10 * q + k
    OBVIOUS
  <2>2. Dotted(Pointed(q, e), q, e)
    BY <1>2
  <2>3. Dotted(Append(Pointed(q, e), Digits[k + 1]), 10 * q + k, e + 1)
    <3>1. PICK text : text = Pointed(q, e)
      OBVIOUS
    <3>2. e \in Nat /\ Dotted(text, q, e)
      BY <2>2, <3>1
    <3>3. Dotted(Append(text, Digits[k + 1]), 10 * q + k, e + 1)
      BY <3>2, DecimalAppended
    <3> QED
      BY <3>1, <3>3
  <2>4. Pointed(n, e + 1) = Append(Pointed(q, e), Digits[k + 1])
    <3> DEFINE whole == Append(DigitsOf(q \div 10^e), ".")
    <3>1. q \div 10^e = n \div 10^(e + 1)
      BY <2>1, TenTimes
    <3>2. Behind(n, e + 1) = Append(Behind(q, e), Digits[k + 1])
      <4> DEFINE F(i) == Digits[((n \div 10^((e + 1) - i)) % 10) + 1]
                 G(i) == Digits[((q \div 10^(e - i)) % 10) + 1]
      <4>1. ASSUME NEW i \in 1..e
            PROVE  F(i) = G(i)
        <5>1. e - i \in 0..2 /\ (e + 1) - i = (e - i) + 1
          OBVIOUS
        <5> QED
          BY <2>1, <5>1, TenTimes
      <4>2. F(e + 1) = Digits[k + 1]
        <5>1. (e + 1) - (e + 1) = 0 /\ n \div 10^0 = n
          OBVIOUS
        <5> QED
          BY <2>1, <5>1
      <4>3. Behind(n, e + 1) = [i \in 1..(e + 1) |-> F(i)] /\ Behind(q, e) = [i \in 1..e |-> G(i)]
        BY DEF Behind
      <4> HIDE DEF F, G
      <4> QED
        BY <4>1, <4>2, <4>3
    <3>3. whole \in Seq(ToSet(Digits) \cup {"."})
      <4>1. PICK p \in Nat \ {0} : p = 10^e
        <5>1. e \in 0..6
          OBVIOUS
        <5> QED
          BY <5>1, PowerType
      <4>2. q \div p \in Nat
        OBVIOUS
      <4> QED
        <5>1. PICK m \in Nat : m = q \div 10^e
          BY <4>1, <4>2
        <5>2. Dotted(Append(DigitsOf(m), "."), m, 0)
          BY DigitsOfIs, PointAppended
        <5> QED
          BY <5>1, <5>2 DEF Dotted
    <3> HIDE DEF whole
    <3>4. whole \o Append(Behind(q, e), Digits[k + 1]) = Append(whole \o Behind(q, e), Digits[k + 1])
      OBVIOUS
    <3> QED
      BY <3>1, <3>2, <3>4 DEF Pointed, whole
  <2> QED
    BY <2>1, <2>3, <2>4
<1> HIDE DEF Good
<1>3. Good(1) /\ Good(2) /\ Good(3)
  <2>1. Good(0 + 1)
    BY <1>1, <1>2
  <2>2. Good(1 + 1)
    BY <1>2, <2>1
  <2>3. Good(2 + 1)
    BY <1>2, <2>2
  <2> QED
    BY <2>1, <2>2, <2>3
<1>4. d = 0 \/ d = 1 \/ d = 2 \/ d = 3
  OBVIOUS
<1> QED
  BY <1>1, <1>3, <1>4 DEF Good

\* What Format makes of n units of the last place.
LEMMA FormatIs ==
    ASSUME NEW a, NEW currency, NEW d \in 0..3, d = currency.scale,
           NEW n \in Nat, n = Rounded(a, d)
    PROVE  IF d = 0 THEN Digital(Format(a, currency), n) ELSE Dotted(Format(a, currency), n, d)
<1>1. CASE d = 0
  <2>1. n \div 10^0 = n
    OBVIOUS
  <2>2. Format(a, currency) = DigitsOf(n)
    BY <1>1, <2>1 DEF Format
  <2> QED
    BY <1>1, <2>2, DigitsOfIs
<1>2. CASE d # 0
  <2>1. Format(a, currency) = Pointed(n, d)
    BY <1>2 DEF Format, Pointed
  <2> QED
    BY <1>2, <2>1, PointedIs
<1> QED
  BY <1>1, <1>2

\* NewFromString takes such a text, and reads n units of its last place.
LEMMA TextIsRead ==
    ASSUME NEW n \in Nat, NEW d \in Nat, NEW text,
           IF d = 0 THEN Digital(text, n) ELSE Dotted(text, n, d)
    PROVE  /\ text \in Seq(ToSet(Digits) \cup {"."}) /\ text # <<>>
           /\ Head(text) \in ToSet(Digits)
           /\ IsNumber(text) /\ NewFromString(text) = Decimal(n, -d)
<1> DEFINE D == ToSet(Digits)
           S == D \cup {"."}
           points == {i \in 1..Len(text) : text[i] = "."}
<1>1. "." \notin D /\ "-" \notin D /\ "+" \notin D
  BY DigitMarks
<1>2. /\ text \in Seq(S) /\ Spelled(text) = n /\ Len(text) \in Nat \ {0}
      /\ text[1] \in D /\ Head(text) = text[1] /\ text # <<>>
      /\ points = IF d = 0 THEN {} ELSE {Len(text) - d}
  <2>1. CASE d = 0
    <3>1. text \in Seq(D) /\ Spelled(text) = n /\ text # <<>>
      BY <2>1 DEF Digital
    <3> HIDE DEF D
    <3>2. Len(text) \in Nat \ {0} /\ \A i \in 1..Len(text) : text[i] \in D
      BY <3>1
    <3>3. text \in Seq(S) /\ Head(text) = text[1] /\ 1 \in 1..Len(text)
      BY <3>1, <3>2
    <3> QED
      BY <1>1, <2>1, <3>1, <3>2, <3>3
  <2>2. CASE d # 0
    <3>1. /\ text \in Seq(S) /\ Spelled(text) = n
          /\ Len(text) - d \in 2..Len(text) /\ Head(text) \in D
          /\ \A i \in 1..Len(text) : text[i] = "." <=> i = Len(text) - d
      BY <2>2 DEF Dotted
    <3> HIDE DEF D
    <3>2. Len(text) \in Nat \ {0} /\ Head(text) = text[1] /\ text # <<>>
      BY <3>1
    <3>3. points = {Len(text) - d}
      <4>1. PICK m \in 1..Len(text) : m = Len(text) - d
        <5>1. PICK l \in Nat \ {0} : l = Len(text)
          BY <3>2
        <5>2. l - d \in 1..l
          BY <3>1, <5>1
        <5> QED
          BY <5>1, <5>2
      <4>2. \A i \in 1..Len(text) : i \in points <=> i = m
        BY <3>1, <4>1
      <4>3. points \subseteq 1..Len(text)
        OBVIOUS
      <4> HIDE DEF points
      <4>4. points = {m}
        BY <4>2, <4>3
      <4> QED
        BY <4>1, <4>4
    <3> QED
      BY <2>2, <3>1, <3>2, <3>3
  <2> QED
    BY <2>1, <2>2
<1>3. ToSet(text) \subseteq S /\ text[1] \in ToSet(text)
  <2>1. \A i \in 1..Len(text) : text[i] \in S
    BY <1>2
  <2>2. DOMAIN text = 1..Len(text) /\ 1 \in 1..Len(text)
    BY <1>2
  <2> QED
    BY <2>1, <2>2 DEF ToSet
<1>4. text[SignPlace(text)] # "-"
  BY <1>1, <1>2 DEF SignPlace
<1>5. \A i, j \in points : i = j
  BY <1>2
<1>6. IsNumber(text)
  <2>1. 1 \in 1..Len(text) /\ \A i \in 1..Len(text) : text[i] \in S
    BY <1>2
  <2> QED
    BY <1>2, <1>5, <2>1 DEF IsNumber
<1>7. ("." \in ToSet(text)) <=> points # {}
  BY <1>2 DEF ToSet
<1>8. NewFromString(text) = Decimal(n, -d)
  <2>1. CASE d = 0
    BY <1>2, <1>4, <1>7, <2>1 DEF NewFromString
  <2>2. CASE d # 0
    <3>1. points = {Len(text) - d} /\ Len(text) - d \in Int
      BY <1>2, <2>2
    <3>2. (CHOOSE i \in 1..Len(text) : text[i] = ".") = Len(text) - d
      <4>1. \E i \in 1..Len(text) : text[i] = "."
        BY <3>1
      <4>2. \A i \in 1..Len(text) : text[i] = "." => i = Len(text) - d
        BY <3>1
      <4> QED
        BY <4>1, <4>2
    <3>3. Len(text) - (Len(text) - d) = d
      BY <1>2
    <3>4. "." \in ToSet(text)
      BY <1>7, <3>1
    <3> QED
      BY <1>2, <1>4, <3>2, <3>3, <3>4 DEF NewFromString
  <2> QED
    BY <2>1, <2>2
<1> QED
  BY <1>2, <1>6, <1>8

\* A currency keeps its code, and no symbol is a digit.
LEMMA LookupCode ==
    ASSUME NEW code
    PROVE  /\ Lookup(code).code = code
           /\ Lookup(code).symbol \notin ToSet(Digits)
<1>1. \A x \in ToSet(Digits) : x \in {"0", "1", "2", "3", "4", "5", "6", "7", "8", "9"}
  BY DEF ToSet, Digits
<1>2. \A c \in currencies : c.symbol \notin ToSet(Digits)
  BY <1>1 DEF currencies, Currency
<1>3. CASE \E c \in currencies : c.code = code
  <2>1. Lookup(code) \in currencies /\ Lookup(code).code = code
    BY <1>3 DEF Lookup
  <2> QED
    BY <1>2, <2>1
<1>4. CASE ~\E c \in currencies : c.code = code
  <2>1. PICK none, scale : none = "" /\ scale = defaultScale
    OBVIOUS
  <2>2. Lookup(code) = [code |-> code, symbol |-> none, scale |-> scale]
    BY <1>4, <2>1, Zenon DEF Lookup, Currency
  <2>3. none \notin ToSet(Digits)
    BY <1>1, <2>1
  <2>4. Lookup(code).code = code /\ Lookup(code).symbol = none
    BY <2>2
  <2> QED
    BY <2>3, <2>4
<1> QED
  BY <1>3, <1>4

\* Such a text, parsed, has nothing to trim.
LEMMA TextIsParsed ==
    ASSUME NEW n \in Nat, NEW d \in 0..3, NEW text, NEW code, code \notin ToSet(Digits),
           IF d = 0 THEN Digital(text, n) ELSE Dotted(text, n, d),
           Lookup(code).scale = d, ~TooLarge(Decimal(n, -d))
    PROVE  Parse(text, Lookup(code)) = [error |-> "none", amount |-> Decimal(n, -d)]
<1> DEFINE S == ToSet(Digits) \cup {"."}
           currency == Lookup(code)
<1>1. /\ text \in Seq(S) /\ text # <<>> /\ Head(text) \in ToSet(Digits)
      /\ IsNumber(text) /\ NewFromString(text) = Decimal(n, -d)
  BY TextIsRead
<1>2. Without(text, {",", " "}) = text
  <2>1. S \cap {",", " "} = {}
    BY DigitMarks
  <2> QED
    BY <1>1, <2>1, WithoutType
<1>3. TrimPrefix(TrimPrefix(text, currency.code), currency.symbol) = text
  BY <1>1, LookupCode DEF TrimPrefix
<1>4. ~TooPrecise(Decimal(n, -d), currency)
  BY DEF TooPrecise, Decimal
<1> HIDE DEF currency
<1> QED
  BY <1>1, <1>2, <1>3, <1>4 DEF Parse, currency

\* A decimal that is no longer than a column.
Kept(a) == a.coef \in Nat /\ a.exp \in -ColumnScale..0

\* Division undoes a common factor.
LEMMA CommonFactor ==
    ASSUME NEW c \in Nat, NEW p \in Nat \ {0}, NEW r \in Nat \ {0}
    PROVE  (c * r) \div (p * r) = c \div p
<1>1. PICK q \in Nat, m \in 0..(p - 1) : c = p * q + m /\ q = c \div p
  <2>1. c = p * (c \div p) + (c % p) /\ (c % p) \in 0..(p - 1) /\ c \div p \in Nat
    OBVIOUS
  <2> QED
    BY <2>1
<1>2. PICK y \in Nat \ {0} : y = p * r
  <2>1. \A i, j \in Nat \ {0} : i * j \in Nat \ {0}
    OBVIOUS
  <2> QED
    BY <2>1
<1>3. PICK x \in Nat : x = m * r
  <2>1. \A i, j \in Nat : i * j \in Nat
    OBVIOUS
  <2> QED
    BY <2>1
<1>4. x < y
  <2>1. \A i \in Nat, j, k \in Nat \ {0} : i < k => i * j < k * j
    OBVIOUS
  <2> QED
    BY <1>2, <1>3, <2>1
<1>5. c * r = y * q + x
  <2>1. c * r = (p * q + m) * r
    BY <1>1
  <2>2. (p * q + m) * r = (p * r) * q + m * r
    OBVIOUS
  <2> QED
    BY <1>2, <1>3, <2>1, <2>2
<1>6. (y * q + x) \div y = q
  BY <1>4
<1> QED
  BY <1>1, <1>2, <1>5, <1>6

\* What a column holds determines the whole units.
LEMMA WholeUnits ==
    ASSUME NEW a, Kept(a)
    PROVE  Whole(a) = Units(a, ColumnScale) \div 10^ColumnScale
<1>1. PICK e \in 0..6, j \in 0..6, c \in Nat :
         /\ e = -a.exp /\ a.exp = -e /\ j = ColumnScale + a.exp /\ ColumnScale = e + j
         /\ c = a.coef
  BY ScaleAssumption DEF Kept
<1>2. PICK p \in Nat \ {0}, r \in Nat \ {0} : p = 10^e /\ r = 10^j
  BY PowerType
<1>3. 10^ColumnScale = p * r
  <2>1. ColumnScale \in 0..6
    BY ScaleAssumption
  <2> QED
    BY <1>1, <1>2, <2>1, PowerSum
<1>4. Units(a, ColumnScale) = c * r
  BY <1>1, <1>2 DEF Units
<1>5. Whole(a) = c \div p
  <2>1. CASE e = 0
    <3>1. 10^0 = 1
      OBVIOUS
    <3>2. a.exp = 0 /\ ~(a.exp < 0) /\ ~(a.coef < 0)
      BY <1>1, <2>1
    <3>3. Whole(a) = c * 10^a.exp
      BY <1>1, <3>2 DEF Whole
    <3>4. p = 1 /\ 10^a.exp = 1
      BY <1>2, <2>1, <3>1, <3>2
    <3> QED
      BY <3>3, <3>4
  <2>2. CASE e # 0
    <3>1. a.exp < 0 /\ ~(a.coef < 0)
      BY <1>1, <2>2
    <3> QED
      BY <1>1, <1>2, <3>1 DEF Whole
  <2> QED
    BY <2>1, <2>2
<1> QED
  BY <1>3, <1>4, <1>5, CommonFactor

\* Rounding to d decimals changes nothing where there are no more.
LEMMA RoundedIs ==
    ASSUME NEW a, Kept(a), NEW d \in 0..3, NEW n \in Nat,
           Units(a, ColumnScale) = n * 10^(ColumnScale - d)
    PROVE  Rounded(a, d) = n
<1>1. PICK e \in 0..6, j \in 0..6, c \in Nat :
         /\ e = -a.exp /\ a.exp = -e /\ j = ColumnScale + a.exp /\ ColumnScale = e + j
         /\ c = a.coef
  BY ScaleAssumption DEF Kept
<1>2. PICK r \in Nat \ {0} : r = 10^j
  BY PowerType
<1>3. PICK i \in 0..6 : i = ColumnScale - d
  BY ScaleAssumption
<1>4. c * r = n * 10^i
  BY <1>1, <1>2, <1>3 DEF Units
<1>5. CASE e <= d
  <2>1. PICK k \in 0..6 : k = d + a.exp
    <3>1. d - e \in 0..6 /\ d - e = d + (-e)
      BY <1>5
    <3> QED
      BY <1>1, <3>1
  <2>2. PICK s \in Nat \ {0}, t \in Nat \ {0} : s = 10^k /\ t = 10^i
    BY PowerType
  <2>3. r = s * t
    <3>1. j = k + i
      BY <1>1, <1>3, <2>1, ScaleAssumption
    <3> QED
      BY <1>2, <2>2, <3>1, PowerSum
  <2>4. (c * s) * t = n * t
    <3>1. c * (s * t) = (c * s) * t
      OBVIOUS
    <3> QED
      BY <1>4, <2>2, <2>3, <3>1
  <2>5. c * s = n
    <3>1. \A x, y \in Nat, z \in Nat \ {0} : x * z = y * z => x = y
      OBVIOUS
    <3>2. c * s \in Nat
      OBVIOUS
    <3> QED
      BY <2>4, <3>1, <3>2
  <2> QED
    BY <1>1, <1>5, <2>1, <2>2, <2>5 DEF Rounded, Units
<1>6. CASE ~(e <= d)
  <2>1. PICK k \in 0..6 : k = -a.exp - d
    BY <1>1, <1>6
  <2>2. PICK u \in Nat \ {0} : u = 10^k
    BY PowerType
  <2>3. 10^i = u * r
    <3>1. i = k + j
      BY <1>1, <1>3, <2>1, ScaleAssumption
    <3> QED
      BY <1>2, <2>2, <3>1, PowerSum
  <2>4. c = n * u
    <3>1. (n * u) * r = n * (u * r)
      OBVIOUS
    <3>2. \A x, y \in Nat, z \in Nat \ {0} : x * z = y * z => x = y
      OBVIOUS
    <3>3. n * u \in Nat
      OBVIOUS
    <3> QED
      BY <1>4, <2>3, <3>1, <3>2, <3>3
  <2>5. (2 * c + u) \div (2 * u) = n
    <3>1. PICK w \in Nat : w = 2 * u /\ u < w
      OBVIOUS
    <3>2. 2 * (n * u) = w * n
      BY <3>1
    <3>3. (w * n + u) \div w = n
      BY <3>1
    <3> QED
      BY <2>4, <3>1, <3>2, <3>3
  <2>6. Rounded(a, d) = (2 * a.coef + 10^k) \div (2 * 10^k)
    BY <1>1, <1>6, <2>1 DEF Rounded
  <2> QED
    BY <1>1, <2>2, <2>5, <2>6
<1> QED
  BY <1>5, <1>6

\* An amount that was read with the decimals of a currency, stored or not, is
\* printed in that currency so that it reads back: Format(Parse(...)) loses
\* nothing, and Parse takes what Format prints.
THEOREM PrintedIsRead ==
    ASSUME NEW a, Kept(a), NEW b, Credit(b), Equal(a, b), ~TooLarge(b),
           NEW code, code \notin ToSet(Digits), ~TooPrecise(b, Lookup(code))
    PROVE  LET read == Parse(Format(a, Lookup(code)), Lookup(code))
           IN  read.error = "none" /\ Equal(read.amount, b)
<1>1. PICK d \in 0..3 : d = Lookup(code).scale
  BY LookupScale
<1>2. PICK e \in 0..d, c \in Nat \ {0} : e = -b.exp /\ b.exp = -e /\ c = b.coef
  <2>1. -b.exp \in 0..3 /\ ~(-b.exp > d) /\ b.exp = -(-b.exp)
    BY <1>1 DEF Credit, TooPrecise
  <2> QED
    BY <2>1 DEF Credit
<1>3. PICK i \in 0..6, j \in 0..6, k \in 0..6 :
         i = d - e /\ j = ColumnScale - d /\ k = ColumnScale + b.exp /\ k = i + j
  BY <1>2, ScaleAssumption
<1>4. PICK p \in Nat \ {0}, q \in Nat \ {0} : p = 10^i /\ q = 10^j
  BY PowerType
<1>5. 10^k = p * q
  BY <1>3, <1>4, PowerSum
<1>6. PICK n \in Nat : n = c * p
  <2>1. \A x, y \in Nat : x * y \in Nat
    OBVIOUS
  <2> QED
    BY <2>1
<1> DEFINE r == Decimal(n, -d)
<1>7. Units(b, ColumnScale) = n * q
  <2>1. Units(b, ColumnScale) = c * (p * q)
    BY <1>2, <1>3, <1>5 DEF Units
  <2>2. c * (p * q) = (c * p) * q
    OBVIOUS
  <2> QED
    BY <1>6, <2>1, <2>2
<1>8. Units(r, ColumnScale) = n * q
  <2>1. r.coef = n /\ r.exp = -d /\ ColumnScale + r.exp = j
    BY <1>3, ScaleAssumption DEF Decimal
  <2> QED
    BY <1>4, <2>1 DEF Units
<1>9. Kept(b) /\ Kept(r)
  BY ScaleAssumption DEF Kept, Credit, Decimal
<1> HIDE DEF r
<1>10. Units(a, ColumnScale) = n * 10^(ColumnScale - d)
  <2>1. Places(a, b) = ColumnScale
    BY <1>9, PlacesOfColumn DEF Kept
  <2> QED
    BY <1>3, <1>4, <1>7, <2>1 DEF Equal
<1>11. n = Rounded(a, d)
  BY <1>10, RoundedIs
<1>12. IF d = 0 THEN Digital(Format(a, Lookup(code)), n) ELSE Dotted(Format(a, Lookup(code)), n, d)
  BY <1>1, <1>11, FormatIs
<1>13. Whole(r) = Whole(b)
  BY <1>7, <1>8, <1>9, WholeUnits
<1>14. ~TooLarge(r)
  BY <1>13 DEF TooLarge
<1>15. Parse(Format(a, Lookup(code)), Lookup(code)) = [error |-> "none", amount |-> r]
  BY <1>1, <1>12, <1>14, TextIsParsed DEF r
<1>16. Equal(r, b)
  <2>1. Places(r, b) = ColumnScale
    BY <1>9, PlacesOfColumn DEF Kept
  <2> QED
    BY <1>7, <1>8, <2>1 DEF Equal
<1> QED
  BY <1>15, <1>16

\* Amounts that fit a column are compared, and added, by what it holds.
LEMMA KeptAgree ==
    ASSUME NEW a, NEW b, a.exp \in -ColumnScale..0, b.exp \in -ColumnScale..0
    PROVE  /\ Equal(a, b) <=> Units(a, ColumnScale) = Units(b, ColumnScale)
           /\ Plus(a, b) = Decimal(Units(a, ColumnScale) + Units(b, ColumnScale), -ColumnScale)
BY PlacesOfColumn DEF Equal, Plus

\* An amount that was read has room in a column.
LEMMA ReadFits ==
    ASSUME NEW a, Kept(a), NEW b, Kept(b), Equal(a, b), ~TooLarge(b)
    PROVE  FitsColumn(a)
<1>1. Whole(a) = Whole(b)
  BY KeptAgree, WholeUnits DEF Kept
<1>2. PICK w \in Nat : w = Whole(b)
  <2>1. PICK p \in Nat \ {0} : p = 10^ColumnScale
    <3>1. ColumnScale \in 0..6
      BY ScaleAssumption
    <3> QED
      BY <3>1, PowerType
  <2>2. Units(b, ColumnScale) \in Nat
    <3>1. PICK k \in 0..6, c \in Nat : k = ColumnScale + b.exp /\ c = b.coef
      BY ScaleAssumption DEF Kept
    <3>2. PICK q \in Nat \ {0} : q = 10^k
      BY PowerType
    <3>3. \A x, y \in Nat : x * y \in Nat
      OBVIOUS
    <3> QED
      BY <3>1, <3>2, <3>3 DEF Units
  <2>3. \A u \in Nat : u \div p \in Nat
    OBVIOUS
  <2> QED
    BY <2>1, <2>2, <2>3, WholeUnits
<1>3. DigitsOf(w) \in Seq(ToSet(Digits))
  BY DigitsOfIs DEF Digital
<1>4. Len(DigitsOf(w)) \in Nat
  BY <1>3
<1>5. ~(Len(DigitsOf(w)) > MaxIntegerDigits)
  BY <1>2 DEF TooLarge
<1> QED
  BY <1>1, <1>2, <1>4, <1>5, ScaleAssumption DEF FitsColumn
==============================================================================
