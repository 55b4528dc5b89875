--------------------------- MODULE RepaymentProofs ---------------------------
(***************************************************************************)
(* Proofs about Repayment, for every principal, term, amount and day, and  *)
(* any number of payments.                                                 *)
(*                                                                         *)
(* The figures are quotients that were rounded, of products of variables.  *)
(* What the proofs need of them is in the lemmas on division: a quotient   *)
(* is bounded by what its numerator is bounded by, grows with it, and is   *)
(* exact for a multiple.                                                   *)
(***************************************************************************)
EXTENDS Repayment, TLAPS

-----------------------------------------------------------------------------
(***************************************************************************)
(* Products.                                                               *)
(***************************************************************************)

LEMMA ProductType ==
    ASSUME NEW a \in Int, NEW b \in Int
    PROVE  a * b \in Int /\ a * b = b * a
OBVIOUS

LEMMA NaturalProduct ==
    ASSUME NEW a \in Nat, NEW b \in Nat
    PROVE  a * b \in Nat
OBVIOUS

LEMMA ProductGrows ==
    ASSUME NEW d \in Nat, NEW a \in Int, NEW b \in Int, a <= b
    PROVE  d * a <= d * b
OBVIOUS

LEMMA FactorGrows ==
    ASSUME NEW d \in Nat \ {0}, NEW a \in Int, NEW b \in Int, d * a < d * b
    PROVE  a < b
OBVIOUS

LEMMA Distributes ==
    ASSUME NEW d \in Int, NEW a \in Int, NEW b \in Int
    PROVE  d * (a + b) = d * a + d * b /\ d * (a - b) = d * a - d * b
OBVIOUS

-----------------------------------------------------------------------------
(***************************************************************************)
(* Quotients.                                                              *)
(***************************************************************************)

LEMMA DivBounds ==
    ASSUME NEW n \in Int, NEW d \in Nat \ {0}
    PROVE  /\ n \div d \in Int
           /\ d * (n \div d) <= n
           /\ n < d * (n \div d) + d
OBVIOUS

\* A quotient is at least any number whose product the numerator reaches.
LEMMA DivAtLeast ==
    ASSUME NEW n \in Int, NEW d \in Nat \ {0}, NEW q \in Int, d * q <= n
    PROVE  q <= n \div d
<1> DEFINE x == n \div d
<1>1. x \in Int /\ n < d * x + d
  BY DivBounds
<1> HIDE DEF x
<1>2. d * q < d * (x + 1)
  <2>1. d * (x + 1) = d * x + d * 1 /\ d * x \in Int /\ d * q \in Int
    BY <1>1, Distributes, ProductType
  <2> QED
    BY <1>1, <2>1
<1>3. q < x + 1
  BY <1>1, <1>2, FactorGrows
<1> QED
  BY <1>1, <1>3 DEF x

\* And at most any number the numerator does not pass by a whole divisor.
LEMMA DivAtMost ==
    ASSUME NEW n \in Int, NEW d \in Nat \ {0}, NEW q \in Int, n < d * q + d
    PROVE  n \div d <= q
<1> DEFINE x == n \div d
<1>1. x \in Int /\ d * x <= n
  BY DivBounds
<1> HIDE DEF x
<1>2. d * x < d * (q + 1)
  <2>1. d * (q + 1) = d * q + d * 1 /\ d * x \in Int /\ d * q \in Int
    BY <1>1, Distributes, ProductType
  <2> QED
    BY <1>1, <2>1
<1>3. x < q + 1
  BY <1>1, <1>2, FactorGrows
<1> QED
  BY <1>1, <1>3 DEF x

LEMMA DivGrows ==
    ASSUME NEW a \in Int, NEW b \in Int, a <= b, NEW d \in Nat \ {0}
    PROVE  a \div d <= b \div d
<1> DEFINE x == a \div d
<1>1. x \in Int /\ d * x <= a /\ d * x \in Int
  BY DivBounds, ProductType
<1> HIDE DEF x
<1>2. d * x <= b
  BY <1>1
<1>3. x <= b \div d
  BY <1>1, <1>2, DivAtLeast
<1> QED
  BY <1>3 DEF x

\* The ceiling of n over p: enough, and one less is not.
LEMMA Ceiling ==
    ASSUME NEW n \in Nat, NEW p \in Nat \ {0}
    PROVE  LET q == -((-n) \div p)
           IN  /\ q \in Nat
               /\ p * q >= n
               /\ p * (q - 1) < n
<1> DEFINE x == (-n) \div p
<1>1. x \in Int /\ p * x <= -n /\ -n < p * x + p
  BY DivBounds
<1>2. x <= 0
  BY DivAtMost
<1> HIDE DEF x
<1>3. p * x \in Int /\ p * (0 - x) = p * 0 - p * x
      /\ p * ((0 - x) - 1) = p * (0 - x) - p * 1
  BY <1>1, Distributes, ProductType
<1>4. -x = 0 - x /\ -x \in Nat
  BY <1>1, <1>2
<1>5. p * (-x) >= n /\ p * (-x - 1) < n
  BY <1>1, <1>3, <1>4
<1> QED
  BY <1>4, <1>5 DEF x

\* The least number that is enough for a smaller need, or at a higher rate, is
\* no greater.
LEMMA CeilingShrinks ==
    ASSUME NEW m \in Nat, NEW n \in Nat, m <= n,
           NEW p \in Nat \ {0}, NEW r \in Nat, p <= r
    PROVE  -((-m) \div r) <= -((-n) \div p)
<1> DEFINE x == -((-m) \div r)
           y == -((-n) \div p)
<1>0. r \in Nat \ {0}
  OBVIOUS
<1>1. x \in Nat /\ r * (x - 1) < m
  BY <1>0, Ceiling
<1>2. y \in Nat /\ p * y >= n
  BY Ceiling
<1> HIDE DEF x, y
<1>3. p * y <= r * y
  BY <1>2, ProductGrows, ProductType
<1>4. p * y \in Int /\ r * y \in Int /\ r * (x - 1) \in Int
  BY <1>1, <1>2, ProductType
<1>5. r * (x - 1) < r * y
  BY <1>1, <1>2, <1>3, <1>4
<1>6. x - 1 < y
  BY <1>0, <1>1, <1>2, <1>5, FactorGrows
<1>7. x <= y
  BY <1>1, <1>2, <1>6
<1> QED
  BY <1>7 DEF x, y

-----------------------------------------------------------------------------
(***************************************************************************)
(* Rounded quotients.                                                      *)
(***************************************************************************)

LEMMA RoundType ==
    ASSUME NEW n \in Int, NEW d \in Nat \ {0}
    PROVE  /\ DivRound(n, d) \in Int
           /\ n >= 0 => DivRound(n, d) >= 0
           /\ n < 0 => DivRound(n, d) <= 0
<1>1. 2 * d \in Nat \ {0} /\ d - 2 * n \in Int /\ 2 * n + d \in Int
  OBVIOUS
<1>2. CASE n < 0
  <2>1. (2 * d) * 0 <= d - 2 * n
    BY <1>2
  <2>2. (d - 2 * n) \div (2 * d) \in Int /\ 0 <= (d - 2 * n) \div (2 * d)
    BY <1>1, <2>1, DivBounds, DivAtLeast
  <2> QED
    BY <1>2, <2>2 DEF DivRound
<1>3. CASE n >= 0
  <2>1. (2 * d) * 0 <= 2 * n + d
    BY <1>3
  <2>2. (2 * n + d) \div (2 * d) \in Int /\ 0 <= (2 * n + d) \div (2 * d)
    BY <1>1, <2>1, DivBounds, DivAtLeast
  <2> QED
    BY <1>3, <2>2 DEF DivRound
<1> QED
  BY <1>2, <1>3

LEMMA RoundGrows ==
    ASSUME NEW a \in Int, NEW b \in Int, a <= b, NEW d \in Nat \ {0}
    PROVE  DivRound(a, d) <= DivRound(b, d)
<1>1. 2 * d \in Nat \ {0}
  OBVIOUS
<1>2. CASE a < 0 /\ b >= 0
  BY <1>2, RoundType
<1>3. CASE b < 0
  <2>1. d - 2 * a \in Int /\ d - 2 * b \in Int /\ d - 2 * b <= d - 2 * a
    OBVIOUS
  <2>2. (d - 2 * b) \div (2 * d) <= (d - 2 * a) \div (2 * d)
    BY <1>1, <2>1, DivGrows
  <2>3. (d - 2 * b) \div (2 * d) \in Int /\ (d - 2 * a) \div (2 * d) \in Int
    BY <1>1, <2>1, DivBounds
  <2> QED
    BY <1>3, <2>2, <2>3 DEF DivRound
<1>4. CASE a >= 0
  <2>1. 2 * a + d \in Int /\ 2 * b + d \in Int /\ 2 * a + d <= 2 * b + d
    OBVIOUS
  <2>2. (2 * a + d) \div (2 * d) <= (2 * b + d) \div (2 * d)
    BY <1>1, <2>1, DivGrows
  <2> QED
    BY <1>4, <2>2 DEF DivRound
<1> QED
  BY <1>2, <1>3, <1>4

LEMMA RoundWhole ==
    ASSUME NEW q \in Int, NEW d \in Nat \ {0}
    PROVE  DivRound(d * q, d) = q
<1>1. 2 * d \in Nat \ {0} /\ d * q \in Int /\ (d * q < 0 <=> q < 0)
  <2>1. d * q < d * 0 => q < 0
    BY FactorGrows
  <2>2. q < 0 => d * q <= d * (-1)
    BY ProductGrows
  <2>3. d * 0 = 0 /\ d * (-1) = -d
    OBVIOUS
  <2> QED
    BY <2>1, <2>2, <2>3, ProductType
<1>2. CASE q < 0
  <2> DEFINE n == d - 2 * (d * q)
  <2>1. n \in Int /\ -q \in Int /\ (2 * d) * (-q) = -(2 * (d * q))
    BY <1>1
  <2>2. n \div (2 * d) = -q
    <3>1. (2 * d) * (-q) <= n /\ n < (2 * d) * (-q) + 2 * d
      BY <1>1, <2>1
    <3> HIDE DEF n
    <3>2. -q <= n \div (2 * d) /\ n \div (2 * d) <= -q /\ n \div (2 * d) \in Int
      BY <1>1, <2>1, <3>1, DivAtLeast, DivAtMost, DivBounds
    <3> QED
      BY <2>1, <3>2
  <2> QED
    BY <1>1, <1>2, <2>2 DEF DivRound
<1>3. CASE q >= 0
  <2> DEFINE n == 2 * (d * q) + d
  <2>1. n \in Int /\ (2 * d) * q = 2 * (d * q)
    BY <1>1
  <2>2. n \div (2 * d) = q
    <3>1. (2 * d) * q <= n /\ n < (2 * d) * q + 2 * d
      BY <1>1, <2>1
    <3> HIDE DEF n
    <3>2. q <= n \div (2 * d) /\ n \div (2 * d) <= q /\ n \div (2 * d) \in Int
      BY <1>1, <2>1, <3>1, DivAtLeast, DivAtMost, DivBounds
    <3> QED
      BY <3>2
  <2> QED
    BY <1>1, <1>3, <2>2 DEF DivRound
<1> QED
  BY <1>2, <1>3

\* A sum is rounded to one more than the rounded parts, at most.
LEMMA RoundSum ==
    ASSUME NEW a \in Nat, NEW b \in Nat, NEW d \in Nat \ {0}
    PROVE  DivRound(a + b, d) <= DivRound(a, d) + DivRound(b, d) + 1
<1> DEFINE x == (2 * a + d) \div (2 * d)
           y == (2 * b + d) \div (2 * d)
           n == 2 * (a + b) + d
<1>1. 2 * d \in Nat \ {0} /\ 2 * a + d \in Int /\ 2 * b + d \in Int /\ n \in Int
  OBVIOUS
<1>2. x \in Int /\ y \in Int
      /\ 2 * a + d < (2 * d) * x + 2 * d /\ 2 * b + d < (2 * d) * y + 2 * d
  BY <1>1, DivBounds
<1>3. DivRound(a, d) = x /\ DivRound(b, d) = y /\ DivRound(a + b, d) = n \div (2 * d)
  BY DEF DivRound
<1>4. n = (2 * a + d) + (2 * b + d) - d
  OBVIOUS
<1> HIDE DEF x, y, n
<1>5. /\ (2 * d) * x \in Int /\ (2 * d) * y \in Int
      /\ (2 * d) * (x + y + 1) = (2 * d) * x + (2 * d) * y + 2 * d
  BY <1>1, <1>2
<1>6. n < (2 * d) * (x + y + 1) + 2 * d
  BY <1>1, <1>2, <1>4, <1>5
<1>7. x + y + 1 \in Int
  BY <1>2
<1>8. n \div (2 * d) <= x + y + 1
  BY <1>1, <1>6, <1>7, DivAtMost
<1> QED
  BY <1>3, <1>8

-----------------------------------------------------------------------------
(***************************************************************************)
(* The inductive invariant: the two sums are functions of the balance, and *)
(* the status says whether it has reached the principal.                   *)
(***************************************************************************)

Shape == /\ principal \in Nat \ {0} /\ term \in Nat \ {0}
         /\ day \in Int /\ paid \in Nat /\ payments \in Nat
         /\ status \in {"active", "completed"}
         /\ applied \in Nat /\ excess \in Nat

IInv == /\ Shape
        /\ status = "completed" <=> paid >= principal
        /\ applied = Least(paid, principal)
        /\ excess = paid - applied

LEMMA InitInv == Init => IInv
BY RepaymentAssumption DEF Init, IInv, Shape, Least, NonNegative

LEMMA NextInv == IInv /\ [Next]_vars => IInv'
<1> SUFFICES ASSUME IInv, [Next]_vars PROVE IInv'
  OBVIOUS
<1>1. ASSUME NEW a \in Amount, Pay(a)
      PROVE  IInv'
  <2>1. a \in Nat \ {0}
    BY RepaymentAssumption
  <2>2. SplitApplied(a) = Least(a, NonNegative(principal - paid))
    BY DEF SplitApplied
  <2>3. SplitApplied(a) \in 0..a
        /\ applied + SplitApplied(a) = Least(paid + a, principal)
        /\ excess + a - SplitApplied(a) = paid + a - (applied + SplitApplied(a))
    BY <2>1, <2>2 DEF IInv, Shape, Least, NonNegative
  <2>4. Shape'
    BY <1>1, <2>1, <2>3 DEF IInv, Shape, Pay, terms
  <2>5. (status = "completed" <=> paid >= principal)'
    BY <1>1, <2>1 DEF IInv, Shape, Pay, terms
  <2>6. applied' = Least(paid, principal)' /\ excess' = paid' - applied'
    <3>1. /\ paid' = paid + a /\ principal' = principal
          /\ applied' = applied + SplitApplied(a)
          /\ excess' = excess + a - SplitApplied(a)
      BY <1>1 DEF Pay, terms
    <3>2. Least(paid, principal)' = Least(paid + a, principal)
      BY <3>1 DEF Least
    <3>3. applied' = Least(paid, principal)'
      BY <2>3, <3>1, <3>2
    <3>4. excess' = paid' - applied'
      BY <2>1, <2>3, <3>1 DEF IInv, Shape
    <3> QED
      BY <3>3, <3>4
  <2> QED
    BY <2>4, <2>5, <2>6 DEF IInv
<1>2. CASE Tomorrow
  BY <1>2 DEF Tomorrow, IInv, Shape, terms, sums
<1>3. CASE UNCHANGED vars
  BY <1>3 DEF vars, IInv, Shape, terms, sums
<1> QED
  BY <1>1, <1>2, <1>3 DEF Next

\* The cached status and split agree with the balance in every behaviour, whatever
\* is paid and however many days pass.
THEOREM RepaymentInvariant == Spec => []IInv
BY InitInv, NextInv, PTL DEF Spec

\* What the position shows is what the splits in the ledger add up to, although
\* neither is computed from the other.
THEOREM LedgerInvariant == Spec => []PositionRepeatsLedger
<1>1. IInv => PositionRepeatsLedger
  BY DEF IInv, Shape, PositionRepeatsLedger, Outstanding, Excess, Least, NonNegative
<1> QED
  BY <1>1, RepaymentInvariant, PTL

-----------------------------------------------------------------------------
(***************************************************************************)
(* The schedule.                                                           *)
(***************************************************************************)

LEMMA WeeksType ==
    ASSUME Shape
    PROVE  /\ WeeksElapsed \in 0..term
           /\ day >= 7 * term => WeeksElapsed = term
<1>1. day \div 7 \in Int /\ 7 * (day \div 7) <= day /\ day < 7 * (day \div 7) + 7
  BY DEF Shape
<1> QED
  BY <1>1 DEF WeeksElapsed, Least, Shape

\* What is due after w weeks, as the code prorates it.
Due(P, T, w) == DivRound(P * w, T)

LEMMA DueBounds ==
    ASSUME NEW P \in Nat \ {0}, NEW T \in Nat \ {0}, NEW w \in 0..T
    PROVE  /\ Due(P, T, w) \in 0..P
           /\ Due(P, T, T) = P
<1>1. Due(P, T, T) = P
  BY RoundWhole, ProductType DEF Due
<1> DEFINE a == P * w
           b == P * T
<1>2. a \in Nat /\ b \in Nat /\ a <= b
  BY NaturalProduct, ProductGrows
<1> HIDE DEF a, b
<1>3. DivRound(a, T) \in Int /\ DivRound(a, T) >= 0
  BY <1>2, RoundType
<1>4. DivRound(a, T) <= DivRound(b, T)
  BY <1>2, RoundGrows
<1> QED
  BY <1>1, <1>3, <1>4 DEF Due, a, b

\* From a week to a later one it grows, and by about an instalment a week.
LEMMA DueGrows ==
    ASSUME NEW P \in Nat \ {0}, NEW T \in Nat \ {0}, NEW w \in 0..T, NEW v \in 0..T,
           w <= v, v <= w + 1
    PROVE  /\ Due(P, T, w) <= Due(P, T, v)
           /\ Due(P, T, v) <= Due(P, T, w) + Due(P, T, 1) + 1
<1>1. P * w \in Nat /\ P * v \in Nat /\ P * w <= P * v /\ P * 1 = P
  BY NaturalProduct, ProductGrows
<1>2. P * v <= P * w + P
  BY <1>1, Distributes
<1>3. DivRound(P * w, T) <= DivRound(P * v, T)
  BY <1>1, RoundGrows
<1>4. DivRound(P * v, T) <= DivRound(P * w + P, T)
  BY <1>1, <1>2, RoundGrows
<1>5. DivRound(P * w + P, T) <= DivRound(P * w, T) + DivRound(P, T) + 1
  BY <1>1, RoundSum
<1>6. /\ DivRound(P * v, T) \in Int /\ DivRound(P * w, T) \in Int
      /\ DivRound(P * w + P, T) \in Int /\ DivRound(P, T) \in Int
  BY <1>1, RoundType
<1> QED
  BY <1>1, <1>3, <1>4, <1>5, <1>6 DEF Due

LEMMA ScheduleIsDue ==
    ASSUME Shape
    PROVE  /\ ExpectedPaidToDate = Due(principal, term, WeeksElapsed)
           /\ WeeklyDue = Due(principal, term, 1)
           /\ ExpectedPaidToDate \in 0..principal
           /\ WeeklyDue \in 0..principal
<1>1. /\ ExpectedPaidToDate = Due(principal, term, WeeksElapsed)
      /\ WeeklyDue = Due(principal, term, 1)
  BY DEF ExpectedPaidToDate, WeeklyDue, Prorate, Due, Shape
<1>2. WeeksElapsed \in 0..term /\ 1 \in 0..term
  BY WeeksType DEF Shape
<1> QED
  BY <1>1, <1>2, DueBounds DEF Shape

\* Day by day the expectation grows by an instalment at most, give or take one
\* minor unit, to the whole principal at the end of the term and no more.
THEOREM DueGrowth == Spec => DueGrowsToPrincipal
<1> DEFINE Grows == /\ ExpectedPaidToDate' >= ExpectedPaidToDate
                    /\ ExpectedPaidToDate' - ExpectedPaidToDate <= WeeklyDue + 1
                    /\ ExpectedPaidToDate' <= principal
                    /\ day' >= 7 * term => ExpectedPaidToDate' = principal
<1>1. IInv /\ IInv' /\ [Next]_vars => [Grows]_day
  <2> SUFFICES ASSUME IInv, Shape', Tomorrow PROVE Grows
    BY DEF Next, Pay, vars, IInv
  <2> DEFINE w == WeeksElapsed
             v == WeeksElapsed'
  <2>1. Shape /\ principal' = principal /\ term' = term /\ day' = day + 1
    BY DEF IInv, Tomorrow, terms
  <2>2. w \in 0..term /\ v \in 0..term /\ w <= v /\ v <= w + 1
        /\ (day' >= 7 * term => v = term)
    BY <2>1 DEF WeeksElapsed, Least, Shape
  <2>3. /\ ExpectedPaidToDate = Due(principal, term, w)
        /\ ExpectedPaidToDate' = Due(principal, term, v)
        /\ WeeklyDue = Due(principal, term, 1)
    BY <2>1, ScheduleIsDue DEF ExpectedPaidToDate, Prorate, Due, Shape
  <2> HIDE DEF w, v
  <2>4. /\ Due(principal, term, w) <= Due(principal, term, v)
        /\ Due(principal, term, v) <= Due(principal, term, w) + Due(principal, term, 1) + 1
    BY <2>1, <2>2, DueGrows DEF Shape
  <2>5. /\ Due(principal, term, w) \in 0..principal
        /\ Due(principal, term, v) \in 0..principal
        /\ Due(principal, term, 1) \in 0..principal
        /\ Due(principal, term, term) = principal
    BY <2>1, <2>2, DueBounds DEF Shape
  <2> QED
    BY <2>2, <2>3, <2>4, <2>5
<1> QED
  BY <1>1, RepaymentInvariant, PTL DEF Spec, DueGrowsToPrincipal

-----------------------------------------------------------------------------
(***************************************************************************)
(* One position.                                                           *)
(***************************************************************************)

\* Bounds in whole instalments carry over to the coverage.
LEMMA RoundBounds ==
    ASSUME NEW n \in Int, NEW d \in Nat \ {0}, NEW q \in Int
    PROVE  /\ n <= d * q => DivRound(n, d) <= q
           /\ n >= d * q => DivRound(n, d) >= q
<1>1. d * q \in Int /\ DivRound(d * q, d) = q
  BY ProductType, RoundWhole
<1>2. n <= d * q => DivRound(n, d) <= DivRound(d * q, d)
  BY <1>1, RoundGrows
<1>3. d * q <= n => DivRound(d * q, d) <= DivRound(n, d)
  BY <1>1, RoundGrows
<1>4. DivRound(n, d) \in Int
  BY RoundType
<1> QED
  BY <1>1, <1>2, <1>3, <1>4

LEMMA PercentBounds ==
    ASSUME NEW p \in Nat, NEW P \in Nat \ {0}, p >= P
    PROVE  DivRound(10000 * Least(p, P), P) = 10000
<1>1. Least(p, P) = P /\ 10000 * P = P * 10000
  BY DEF Least
<1> QED
  BY <1>1, RoundWhole

\* Whatever the roundings do, the status and the figures of a position agree.
THEOREM StatusInvariant == Spec => []StatusFitsFigures
<1>1. IInv => StatusFitsFigures
  <2> SUFFICES ASSUME IInv PROVE StatusFitsFigures
    OBVIOUS
  <2> DEFINE e == ExpectedPaidToDate
             k == WeeklyDue
             n == 100 * CreditedToSchedule
  <2>1. e \in 0..principal /\ k \in Nat
    BY ScheduleIsDue DEF IInv, Shape
  <2>2. /\ CreditedToSchedule = Least(paid, principal) - e
        /\ AheadBy = NonNegative(Least(paid, principal) - e)
        /\ Arrears = IF status = "active" THEN NonNegative(e - paid) ELSE 0
        /\ WeeksOfCoverage = IF k = 0 THEN 0 ELSE DivRound(n, k)
    BY DEF CreditedToSchedule, AheadBy, Arrears, IsOpen, WeeksOfCoverage
  <2>3. (status = "active" <=> paid < principal) /\ (status = "completed" <=> paid >= principal)
        /\ paid \in Nat /\ principal \in Nat \ {0}
    BY DEF IInv, Shape
  <2> HIDE DEF e, k
  <2>4. /\ ScheduleStatus = "settled" <=> paid >= principal
        /\ ScheduleStatus = "behind" => paid < principal /\ Arrears > k
        /\ ScheduleStatus = "ahead" => paid < principal /\ ~(Arrears > k) /\ AheadBy > 0
        /\ ScheduleStatus = "on_track" => paid < principal /\ ~(Arrears > k) /\ ~(AheadBy > 0)
        /\ ScheduleStatus \in {"settled", "behind", "ahead", "on_track"}
    BY <2>3 DEF ScheduleStatus, IsOpen, Outstanding, NonNegative, k
  <2>5. n \in Int
    BY <2>1, <2>2, <2>3 DEF Least
  <2>6. k # 0 => /\ n <= k * (-100) => DivRound(n, k) <= -100
                 /\ n >= k * (-100) => DivRound(n, k) >= -100
                 /\ n <= k * 0 => DivRound(n, k) <= 0
                 /\ n >= k * 0 => DivRound(n, k) >= 0
    <3> HIDE DEF n
    <3> QED
      BY <2>1, <2>5, RoundBounds
  <2>7. k * (-100) = -(100 * k) /\ k * 0 = 0
    BY <2>1
  <2>8. k # 0 => DivRound(n, k) \in Int
    BY <2>1, <2>5, RoundType
  <2>9. CASE ScheduleStatus = "settled"
    <3>1. PercentRepaid = 10000
      BY <2>3, <2>4, <2>9, PercentBounds DEF PercentRepaid
    <3>2. status = "completed" /\ Arrears = 0
      BY <2>2, <2>3, <2>4, <2>9
    <3> QED
      BY <2>9, <3>1, <3>2 DEF StatusFitsFigures
  <2>10. CASE ScheduleStatus = "behind"
    <3>1. paid < principal /\ e - paid > k
      BY <2>1, <2>2, <2>3, <2>4, <2>10 DEF NonNegative
    <3>2. AheadBy = 0 /\ n <= -(100 * k)
      BY <2>1, <2>2, <2>3, <3>1 DEF NonNegative, Least
    <3>3. k > 0 => WeeksOfCoverage <= -100
      BY <2>1, <2>2, <2>6, <2>7, <3>2
    <3> QED
      BY <2>3, <2>10, <3>1, <3>2, <3>3 DEF StatusFitsFigures, k
  <2>11. CASE ScheduleStatus = "ahead"
    <3>1. paid < principal /\ Least(paid, principal) - e > 0 /\ Least(paid, principal) = paid
      BY <2>1, <2>2, <2>3, <2>4, <2>11 DEF NonNegative, Least
    <3>2. Arrears = 0 /\ n >= 0
      BY <2>1, <2>2, <2>3, <3>1 DEF NonNegative
    <3>3. WeeksOfCoverage >= 0
      BY <2>1, <2>2, <2>6, <2>7, <3>2
    <3> QED
      BY <2>3, <2>11, <3>1, <3>2, <3>3 DEF StatusFitsFigures
  <2>12. CASE ScheduleStatus = "on_track"
    <3>1. paid < principal /\ ~(e - paid > k) /\ ~(paid - e > 0) /\ Least(paid, principal) = paid
      BY <2>1, <2>2, <2>3, <2>4, <2>12 DEF NonNegative, Least
    <3>2. n <= 0 /\ n >= -(100 * k)
      BY <2>1, <2>2, <2>3, <3>1
    <3>3. WeeksOfCoverage \in -100..0
      BY <2>1, <2>2, <2>6, <2>7, <2>8, <3>2
    <3> QED
      BY <2>3, <2>12, <3>1, <3>3 DEF StatusFitsFigures
  <2> QED
    BY <2>4, <2>9, <2>10, <2>11, <2>12
<1> QED
  BY <1>1, RepaymentInvariant, PTL

\* The weeks that remain, where there is a run-rate to tell.
LEMMA WeeksRemainingBounds ==
    ASSUME Shape, paid > 0
    PROVE  LET weeks == -((-(Outstanding * WeeksElapsed)) \div paid)
           IN  /\ Outstanding * WeeksElapsed \in Nat
               /\ weeks \in Nat
               /\ paid * weeks >= Outstanding * WeeksElapsed
               /\ paid * (weeks - 1) < Outstanding * WeeksElapsed
               /\ WeeksRemaining \subseteq {weeks, weeks + 1}
               /\ weeks \in WeeksRemaining
               /\ FastRate => WeeksRemaining = {weeks}
<1> DEFINE owed == Outstanding * WeeksElapsed
           weeks == -((-owed) \div paid)
<1>1. Outstanding \in Nat /\ WeeksElapsed \in Nat
  BY WeeksType DEF Outstanding, NonNegative, Shape
<1>2. owed \in Nat /\ paid \in Nat \ {0}
  BY <1>1, NaturalProduct DEF Shape
<1>3. WeeksRemaining = IF ~FastRate /\ owed = weeks * paid THEN {weeks, weeks + 1}
                       ELSE {weeks}
  BY DEF WeeksRemaining
<1> HIDE DEF owed
<1>4. weeks \in Nat /\ paid * weeks >= owed /\ paid * (weeks - 1) < owed
  BY <1>2, Ceiling
<1> HIDE DEF weeks
<1>5. /\ WeeksRemaining \subseteq {weeks, weeks + 1}
      /\ weeks \in WeeksRemaining
      /\ FastRate => WeeksRemaining = {weeks}
  BY <1>3
<1> QED
  BY <1>2, <1>4, <1>5 DEF owed, weeks

\* At the rate of the past the principal is cleared by the projected day, and not
\* a week before.
THEOREM ProjectionInvariant == Spec => []ProjectionClears
<1>1. IInv => ProjectionClears
  <2> SUFFICES ASSUME IInv, NEW d \in ProjectedCompletion
               PROVE  LET weeks == (d - day) \div 7
                      IN  /\ paid * weeks >= Outstanding * WeeksElapsed
                          /\ FastRate => paid * (weeks - 1) < Outstanding * WeeksElapsed
    BY DEF ProjectionClears
  <2> DEFINE owed == Outstanding * WeeksElapsed
             least == -((-owed) \div paid)
  <2>1. PICK w \in WeeksRemaining : d = day + 7 * w
    BY DEF ProjectedCompletion
  <2>2. paid > 0 /\ paid \in Nat /\ day \in Int /\ Shape
    BY DEF ProjectedCompletion, IInv, Shape
  <2>3. /\ owed \in Nat /\ least \in Nat /\ paid * least >= owed
        /\ paid * (least - 1) < owed
        /\ w = least \/ w = least + 1
        /\ FastRate => w = least
    BY <2>1, <2>2, WeeksRemainingBounds
  <2> HIDE DEF owed, least
  <2>4. w \in Nat
    BY <2>3
  <2>5. (d - day) \div 7 = w
    BY <2>1, <2>2, <2>4
  <2>6. paid * least <= paid * w /\ paid * w \in Int /\ paid * least \in Int
    BY <2>2, <2>3, <2>4, ProductGrows, ProductType
  <2>7. paid * w >= owed
    BY <2>3, <2>6
  <2>8. FastRate => paid * (w - 1) < owed
    BY <2>3
  <2> QED
    BY <2>5, <2>7, <2>8 DEF owed
<1> QED
  BY <1>1, RepaymentInvariant, PTL

-----------------------------------------------------------------------------
(***************************************************************************)
(* A position as a function of the balance p, the principal P, the amount  *)
(* e due so far, the instalment k, the weeks w elapsed, the term T and     *)
(* the day t; and two positions of one day, before a payment and after it. *)
(***************************************************************************)

LateBy(p, P, e) == IF p < P THEN NonNegative(e - p) ELSE 0

Credited(p, P, e) == Least(p, P) - e

Coverage(p, P, e, k) == IF k = 0 THEN 0 ELSE DivRound(100 * Credited(p, P, e), k)

Percent(p, P) == DivRound(10000 * Least(p, P), P)

StatusOf(p, P, e, k) ==
    IF p >= P THEN "settled"
    ELSE IF LateBy(p, P, e) > k THEN "behind"
    ELSE IF Credited(p, P, e) > 0 THEN "ahead" ELSE "on_track"

WeeksLeft(p, P, w) == -((-(NonNegative(P - p) * w)) \div p)

\* What is projected from a unit a week or more.
Projection(p, P, T, w, t) ==
    IF p >= P \/ w < 1 \/ p = 0 \/ WeeksLeft(p, P, w) > 10 * T THEN {}
    ELSE {t + 7 * WeeksLeft(p, P, w)}

\* The position is the one of these numbers.
PositionOf(p, P, e, k, T, w, t) ==
    /\ p = paid /\ P = principal /\ e = ExpectedPaidToDate /\ k = WeeklyDue
    /\ T = term /\ w = WeeksElapsed /\ t = day
    /\ Arrears = LateBy(p, P, e)
    /\ WeeksOfCoverage = Coverage(p, P, e, k)
    /\ PercentRepaid = Percent(p, P)
    /\ ScheduleStatus = StatusOf(p, P, e, k)
    /\ FastRate <=> p >= Unit * w
    /\ FastRate => ProjectedCompletion = Projection(p, P, T, w, t)

LEMMA PositionIsOf ==
    IInv => \E p, e, k, w \in Nat, P, T \in Nat \ {0}, t \in Int :
                PositionOf(p, P, e, k, T, w, t)
<1> SUFFICES ASSUME IInv
             PROVE  \E p, e, k, w \in Nat, P, T \in Nat \ {0}, t \in Int :
                        PositionOf(p, P, e, k, T, w, t)
  OBVIOUS
<1>1. PICK p \in Nat, P \in Nat \ {0}, T \in Nat \ {0}, t \in Int :
          p = paid /\ P = principal /\ T = term /\ t = day
  BY DEF IInv, Shape
<1>2. PICK e \in Nat, k \in Nat, w \in Nat :
          e = ExpectedPaidToDate /\ k = WeeklyDue /\ w = WeeksElapsed
  BY ScheduleIsDue, WeeksType DEF IInv, Shape
<1>3. status = "active" <=> p < P
  BY <1>1 DEF IInv, Shape
<1>4. Arrears = LateBy(p, P, e)
  BY <1>1, <1>2, <1>3 DEF Arrears, IsOpen, LateBy
<1>5. CreditedToSchedule = Credited(p, P, e)
  BY <1>1, <1>2 DEF CreditedToSchedule, Credited
<1>6. WeeksOfCoverage = Coverage(p, P, e, k)
  BY <1>2, <1>5 DEF WeeksOfCoverage, Coverage
<1>7. PercentRepaid = Percent(p, P)
  BY <1>1 DEF PercentRepaid, Percent
<1>8. ScheduleStatus = StatusOf(p, P, e, k)
  <2>1. ~IsOpen \/ Outstanding = 0 <=> p >= P
    BY <1>1, <1>3 DEF IsOpen, Outstanding, NonNegative
  <2>2. Credited(p, P, e) \in Int
    BY DEF Credited, Least
  <2>3. AheadBy > 0 <=> Credited(p, P, e) > 0
    BY <1>5, <2>2 DEF AheadBy, NonNegative
  <2> QED
    BY <1>2, <1>4, <2>1, <2>3 DEF ScheduleStatus, StatusOf
<1>9. FastRate <=> p >= Unit * w
  BY <1>1, <1>2 DEF FastRate
<1>10. ASSUME FastRate
       PROVE  ProjectedCompletion = Projection(p, P, T, w, t)
  <2>1. Outstanding = 0 \/ ~IsOpen <=> p >= P
    BY <1>1, <1>3 DEF IsOpen, Outstanding, NonNegative
  <2>2. CASE p >= P \/ w < 1 \/ p = 0
    BY <1>1, <1>2, <2>1, <2>2 DEF ProjectedCompletion, Projection
  <2>3. CASE ~(p >= P \/ w < 1 \/ p = 0)
    <3>1. WeeksRemaining = {WeeksLeft(p, P, w)} /\ WeeksLeft(p, P, w) \in Nat
      BY <1>1, <1>2, <1>10, <2>3, WeeksRemainingBounds
         DEF WeeksLeft, Outstanding, IInv
    <3>2. ProjectedCompletion = {t + 7 * x : x \in {x \in WeeksRemaining : x <= 10 * T}}
      BY <1>1, <1>2, <2>1, <2>3 DEF ProjectedCompletion
    <3>3. Projection(p, P, T, w, t) =
              IF WeeksLeft(p, P, w) > 10 * T THEN {} ELSE {t + 7 * WeeksLeft(p, P, w)}
      BY <2>3 DEF Projection
    <3> QED
      BY <3>1, <3>2, <3>3
  <2> QED
    BY <2>2, <2>3
<1> QED
  BY <1>1, <1>2, <1>4, <1>6, <1>7, <1>8, <1>9, <1>10 DEF PositionOf

\* With a higher balance no figure is worse.
LEMMA FiguresImprove ==
    ASSUME NEW p \in Nat, NEW q \in Nat, p < q, NEW P \in Nat \ {0}, NEW e \in Nat, NEW k \in Nat
    PROVE  /\ Rank(StatusOf(q, P, e, k)) >= Rank(StatusOf(p, P, e, k))
           /\ LateBy(q, P, e) <= LateBy(p, P, e)
           /\ Coverage(q, P, e, k) >= Coverage(p, P, e, k)
           /\ Percent(q, P) >= Percent(p, P)
<1>1. LateBy(p, P, e) \in Nat /\ LateBy(q, P, e) \in Nat /\ LateBy(q, P, e) <= LateBy(p, P, e)
  BY DEF LateBy, NonNegative
<1>2. /\ Least(p, P) \in Nat /\ Least(q, P) \in Nat /\ Least(p, P) <= Least(q, P)
      /\ Credited(p, P, e) \in Int /\ Credited(q, P, e) \in Int
      /\ Credited(p, P, e) <= Credited(q, P, e)
  BY DEF Least, Credited
<1>3. Rank(StatusOf(q, P, e, k)) >= Rank(StatusOf(p, P, e, k))
  BY <1>1, <1>2 DEF StatusOf, Rank
<1>4. Coverage(q, P, e, k) >= Coverage(p, P, e, k)
  <2> DEFINE a == 100 * Credited(p, P, e)
             b == 100 * Credited(q, P, e)
  <2>1. a \in Int /\ b \in Int /\ a <= b
    BY <1>2
  <2>2. /\ Coverage(p, P, e, k) = IF k = 0 THEN 0 ELSE DivRound(a, k)
        /\ Coverage(q, P, e, k) = IF k = 0 THEN 0 ELSE DivRound(b, k)
    BY DEF Coverage
  <2> HIDE DEF a, b
  <2>3. k # 0 => DivRound(a, k) <= DivRound(b, k) /\ DivRound(a, k) \in Int
                 /\ DivRound(b, k) \in Int
    BY <2>1, RoundGrows, RoundType
  <2> QED
    BY <2>2, <2>3
<1>5. Percent(q, P) >= Percent(p, P)
  <2> DEFINE a == 10000 * Least(p, P)
             b == 10000 * Least(q, P)
  <2>1. a \in Int /\ b \in Int /\ a <= b
    BY <1>2
  <2>2. Percent(p, P) = DivRound(a, P) /\ Percent(q, P) = DivRound(b, P)
    BY DEF Percent
  <2> HIDE DEF a, b
  <2>3. DivRound(a, P) <= DivRound(b, P) /\ DivRound(a, P) \in Int /\ DivRound(b, P) \in Int
    BY <2>1, RoundGrows, RoundType
  <2> QED
    BY <2>2, <2>3
<1> QED
  BY <1>1, <1>3, <1>4, <1>5

\* What is projected stays projected, for no later day.
LEMMA ProjectionImproves ==
    ASSUME NEW p \in Nat, NEW q \in Nat, p < q, NEW P \in Nat \ {0}, NEW T \in Nat \ {0},
           NEW w \in Nat, NEW t \in Int, NEW d \in Projection(p, P, T, w, t), q < P
    PROVE  /\ Projection(q, P, T, w, t) # {}
           /\ \A x \in Projection(q, P, T, w, t) : x <= d
<1> DEFINE m == NonNegative(P - q) * w
           n == NonNegative(P - p) * w
           left  == WeeksLeft(p, P, w)
           after == WeeksLeft(q, P, w)
<1>1. p > 0 /\ w >= 1 /\ left <= 10 * T /\ d = t + 7 * left
  <2>1. ~(p >= P \/ w < 1 \/ p = 0 \/ left > 10 * T) /\ d = t + 7 * left
    BY DEF Projection
  <2>2. left \in Int
    <3>1. NonNegative(P - p) \in Nat
      BY DEF NonNegative
    <3>2. n \in Nat
      BY <3>1, NaturalProduct
    <3> HIDE DEF n
    <3>3. -((-n) \div p) \in Nat
      BY <2>1, <3>2, Ceiling
    <3> QED
      BY <3>3 DEF WeeksLeft, n
  <2> QED
    BY <2>1, <2>2
<1>2. m \in Nat /\ n \in Nat /\ m <= n
  <2>1. NonNegative(P - q) \in Nat /\ NonNegative(P - p) \in Nat
        /\ NonNegative(P - q) <= NonNegative(P - p)
    BY DEF NonNegative
  <2> QED
    BY <2>1, NaturalProduct, ProductGrows, ProductType
<1>3. left = -((-n) \div p) /\ after = -((-m) \div q)
  BY DEF WeeksLeft
<1> HIDE DEF m, n, left, after
<1>4. left \in Nat /\ after \in Nat /\ after <= left
  <2>1. p \in Nat \ {0} /\ q \in Nat \ {0} /\ p <= q
    BY <1>1
  <2>2. -((-n) \div p) \in Nat /\ -((-m) \div q) \in Nat
    BY <1>2, <2>1, Ceiling
  <2>3. -((-m) \div q) <= -((-n) \div p)
    BY <1>2, <2>1, CeilingShrinks
  <2> QED
    BY <1>3, <2>2, <2>3
<1>5. Projection(q, P, T, w, t) = {t + 7 * after}
  BY <1>1, <1>4 DEF Projection, after
<1> QED
  BY <1>1, <1>4, <1>5

\* However the position is rounded, a payment never makes it look worse.
THEOREM PaymentsImprove == Spec => PayingNeverHurts
<1> DEFINE Better ==
      /\ Rank(ScheduleStatus') >= Rank(ScheduleStatus)
      /\ Arrears' <= Arrears
      /\ WeeksOfCoverage' >= WeeksOfCoverage
      /\ PercentRepaid' >= PercentRepaid
      /\ FastRate => \A d \in ProjectedCompletion :
            \/ ScheduleStatus' = "settled"
            \/ ProjectedCompletion' # {} /\ \A e \in ProjectedCompletion' : e <= d
           Before == \E p, e, k, w \in Nat, P, T \in Nat \ {0}, t \in Int :
                        PositionOf(p, P, e, k, T, w, t)
<1>1. IInv => Before
  BY PositionIsOf
<1>2. Before /\ Before' /\ [Next]_vars => [Better]_payments
  <2> SUFFICES ASSUME Before, Before', NEW a \in Amount, Pay(a) PROVE Better
    BY DEF Next, Tomorrow, vars
  <2>1. PICK p \in Nat, e \in Nat, k \in Nat, w \in Nat,
             P \in Nat \ {0}, T \in Nat \ {0}, t \in Int :
          PositionOf(p, P, e, k, T, w, t)
    OBVIOUS
  <2>2. PICK q \in Nat : q = paid' /\ q > p
    <3>1. paid' = paid + a /\ a \in Nat \ {0} /\ p = paid
      BY <2>1, RepaymentAssumption DEF Pay, PositionOf
    <3> QED
      BY <3>1
  <2>3. /\ principal' = P /\ term' = T /\ day' = t
        /\ WeeksElapsed' = w /\ ExpectedPaidToDate' = e /\ WeeklyDue' = k
    <3>1. principal' = principal /\ term' = term /\ day' = day
      BY DEF Pay, terms
    <3>2. WeeksElapsed' = WeeksElapsed
      BY <3>1 DEF WeeksElapsed
    <3> QED
      BY <2>1, <3>1, <3>2 DEF ExpectedPaidToDate, WeeklyDue, PositionOf
  <2>4. PositionOf(q, P, e, k, T, w, t)'
    <3>1. PICK p1 \in Nat, e1 \in Nat, k1 \in Nat, w1 \in Nat,
               P1 \in Nat \ {0}, T1 \in Nat \ {0}, t1 \in Int :
            PositionOf(p1, P1, e1, k1, T1, w1, t1)'
      OBVIOUS
    <3>2. p1 = q /\ e1 = e /\ k1 = k /\ w1 = w /\ P1 = P /\ T1 = T /\ t1 = t
      BY <2>2, <2>3, <3>1 DEF PositionOf
    <3> QED
      BY <3>1, <3>2
  <2>5. FastRate => FastRate'
    <3>1. Unit * w \in Nat
      BY RepaymentAssumption, NaturalProduct
    <3> QED
      BY <2>1, <2>2, <2>4, <3>1 DEF PositionOf
  <2>6. /\ Rank(ScheduleStatus') >= Rank(ScheduleStatus)
        /\ Arrears' <= Arrears
        /\ WeeksOfCoverage' >= WeeksOfCoverage
        /\ PercentRepaid' >= PercentRepaid
    BY <2>1, <2>2, <2>4, FiguresImprove DEF PositionOf
  <2>7. ASSUME FastRate, NEW d \in ProjectedCompletion, ScheduleStatus' # "settled"
        PROVE  ProjectedCompletion' # {} /\ \A x \in ProjectedCompletion' : x <= d
    <3>1. d \in Projection(p, P, T, w, t)
          /\ ProjectedCompletion' = Projection(q, P, T, w, t)
      BY <2>1, <2>4, <2>5, <2>7 DEF PositionOf
    <3>2. q < P
      BY <2>4, <2>7 DEF PositionOf, StatusOf
    <3> QED
      BY <2>2, <3>1, <3>2, ProjectionImproves
  <2> QED
    BY <2>6, <2>7
<1> QED
  BY <1>1, <1>2, RepaymentInvariant, PTL DEF Spec, PayingNeverHurts
=============================================================================
