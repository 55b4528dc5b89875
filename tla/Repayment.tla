------------------------------ MODULE Repayment ------------------------------
(***************************************************************************)
(* The repayment position of one deployment: what a customer is told after *)
(* every payment, computed from the balance the ledger moves and from the  *)
(* day it is asked for.  Money is counted in minor units of the            *)
(* deployment's currency and time in days since the start date, negative   *)
(* when that is still to come.                                             *)
(*                                                                         *)
(* Nothing in the code makes a deployment delinquent or writes one off, so *)
(* it is active until its principal is paid.                               *)
(***************************************************************************)
EXTENDS Integers

CONSTANTS
    Principals,   \* principals a deployment may have
    Terms,        \* terms, in weeks
    Amount,       \* amounts a customer may pay
    Unit,         \* minor units in one unit of the currency
    FirstDay,     \* the day the deployment is registered
    LastDay,      \* bound: days looked at
    MaxPayments   \* bound: payments made

ASSUME RepaymentAssumption ==
    /\ Principals \subseteq Nat \ {0}
    /\ Terms \subseteq 1..520
    /\ Amount \subseteq Nat \ {0}
    /\ Unit \in Nat \ {0}
    /\ FirstDay \in Int /\ LastDay \in Int
    /\ MaxPayments \in Nat

VARIABLES
    principal, term,   \* the terms of the deployment
    day,               \* asOf
    paid, payments,    \* amount_paid, payment_count
    status,
    applied, excess    \* sums of applied_amount and excess_amount in its rows

terms == <<principal, term>>
sums  == <<applied, excess>>
vars  == <<terms, day, paid, payments, status, sums>>

-----------------------------------------------------------------------------
(***************************************************************************)
(* Money.                                                                  *)
(***************************************************************************)
Least(a, b) == IF a < b THEN a ELSE b

NonNegative(a) == IF a < 0 THEN 0 ELSE a

\* Half a unit is rounded away from zero.
DivRound(n, d) == IF n < 0 THEN -((d - 2 * n) \div (2 * d))
                  ELSE (2 * n + d) \div (2 * d)

\* Mutant of Prorate: divides first.
ProrateDividedFirst(amount, num, den) == DivRound(amount, den) * num

Prorate(amount, num, den) == IF den = 0 THEN 0 ELSE DivRound(amount * num, den)

-----------------------------------------------------------------------------
(***************************************************************************)
(* The position of today.                                                  *)
(***************************************************************************)
IsOpen == status = "active"

Outstanding == NonNegative(principal - paid)

Excess == NonNegative(paid - principal)

WeeklyDue == Prorate(principal, 1, term)

WeeksElapsed == IF day < 0 THEN 0 ELSE Least(day \div 7, term)

ExpectedPaidToDate == Prorate(principal, WeeksElapsed, term)

Arrears == IF IsOpen THEN NonNegative(ExpectedPaidToDate - paid) ELSE 0

\* Mutant of CreditedToSchedule: the wrong way round.
CreditedToScheduleSwapped == ExpectedPaidToDate - Least(paid, principal)

CreditedToSchedule == Least(paid, principal) - ExpectedPaidToDate

AheadBy == NonNegative(CreditedToSchedule)

\* In hundredths of a week.  (The code rounds a float64: exactly half a hundredth may
\* go either way there, here and in PercentRepaid.)
WeeksOfCoverage ==
    IF WeeklyDue = 0 THEN 0 ELSE DivRound(100 * CreditedToSchedule, WeeklyDue)

\* Mutant of ScheduleStatus: who overpays is ahead for ever.
ScheduleStatusUnsettled ==
    IF Arrears > WeeklyDue THEN "behind"
    ELSE IF AheadBy > 0 THEN "ahead" ELSE "on_track"

ScheduleStatus ==
    IF ~IsOpen \/ Outstanding = 0 THEN "settled"
    ELSE IF Arrears > WeeklyDue THEN "behind"
    ELSE IF AheadBy > 0 THEN "ahead" ELSE "on_track"

\* In hundredths of a percent.
PercentRepaid == DivRound(10000 * Least(paid, principal), principal)

\* Mutant of WeeksRemaining: rounded down.
WeeksRemainingFloored == {(Outstanding * WeeksElapsed) \div paid}

FastRate == paid >= Unit * WeeksElapsed

\* Outstanding over the weekly run-rate paid / WeeksElapsed, rounded up.  The
\* run-rate has 16 decimals and the quotient is rounded up as a float64: when it
\* should be a whole number of weeks and the run-rate is below one currency unit
\* a week, it may come out one week longer.
WeeksRemaining ==
    LET owed  == Outstanding * WeeksElapsed
        weeks == -((-owed) \div paid)
    IN  IF ~FastRate /\ owed = weeks * paid THEN {weeks, weeks + 1} ELSE {weeks}

\* The projected days the computation may come to; none when it returns nil.
ProjectedCompletion ==
    IF Outstanding = 0 \/ ~IsOpen \/ WeeksElapsed < 1 \/ paid = 0 THEN {}
    ELSE {day + 7 * w : w \in {w \in WeeksRemaining : w <= 10 * term}}

-----------------------------------------------------------------------------
(***************************************************************************)
(* What moves it.                                                          *)
(***************************************************************************)
Init ==
    /\ principal \in Principals /\ term \in Terms
    /\ day = FirstDay
    /\ paid = 0 /\ payments = 0 /\ status = "active"
    /\ applied = 0 /\ excess = 0

\* Mutant of SplitApplied: the room left is taken after the payment.
SplitAppliedAfter(a) == Least(a, NonNegative(principal - (paid + a)))

\* SplitPayment, which the SQL statement repeats.
SplitApplied(a) == Least(a, NonNegative(principal - paid))

Pay(a) ==
    /\ payments < MaxPayments
    /\ paid' = paid + a
    /\ payments' = payments + 1
    /\ status' = IF paid + a >= principal THEN "completed" ELSE status
    /\ applied' = applied + SplitApplied(a)
    /\ excess' = excess + a - SplitApplied(a)
    /\ UNCHANGED <<terms, day>>

Tomorrow ==
    /\ day < LastDay
    /\ day' = day + 1
    /\ UNCHANGED <<terms, paid, payments, status, sums>>

Next == (\E a \in Amount : Pay(a)) \/ Tomorrow

Spec == Init /\ [][Next]_vars

-----------------------------------------------------------------------------
(***************************************************************************)
(* Properties.                                                             *)
(***************************************************************************)

\* The position, computed from the balance, says what the rows of the ledger
\* add up to, each split when it was written.
PositionRepeatsLedger ==
    /\ Outstanding = principal - applied
    /\ Excess = excess

\* The figures of one position never contradict its schedule status.
StatusFitsFigures ==
    LET coverage == WeeksOfCoverage IN
    CASE ScheduleStatus = "settled" ->
            status = "completed" /\ Arrears = 0 /\ PercentRepaid = 10000
      [] ScheduleStatus = "behind" ->
            /\ status = "active" /\ AheadBy = 0
            /\ WeeklyDue > 0 => coverage <= -100
      [] ScheduleStatus = "ahead" ->
            /\ status = "active" /\ Arrears = 0 /\ coverage >= 0
      [] ScheduleStatus = "on_track" ->
            status = "active" /\ coverage \in -100..0

\* As weeks pass the expectation only grows, by an instalment at a time give or
\* take one minor unit of rounding; whatever the term, the whole principal is
\* due at its end and not more.
DueGrowsToPrincipal ==
    [][ /\ ExpectedPaidToDate' >= ExpectedPaidToDate
        /\ ExpectedPaidToDate' - ExpectedPaidToDate <= WeeklyDue + 1
        /\ ExpectedPaidToDate' <= principal
        /\ day' >= 7 * term => ExpectedPaidToDate' = principal ]_day

Rank(s) == CASE s = "behind" -> 0 [] s = "on_track" -> 1
             [] s = "ahead" -> 2 [] s = "settled" -> 3

\* A payment never makes a position look worse: not its status, arrears,
\* coverage or percentage, and what was projected stays projected, not for a
\* later day, until nothing is left to project.  (A projection from less than a
\* unit a week is exempt.)
PayingNeverHurts ==
    [][ /\ Rank(ScheduleStatus') >= Rank(ScheduleStatus)
        /\ Arrears' <= Arrears
        /\ WeeksOfCoverage' >= WeeksOfCoverage
        /\ PercentRepaid' >= PercentRepaid
        /\ FastRate => \A d \in ProjectedCompletion :
              \/ ScheduleStatus' = "settled"
              \/ ProjectedCompletion' # {} /\ \A e \in ProjectedCompletion' : e <= d
      ]_payments

\* At the run-rate observed so far the principal is cleared by the projected
\* day; and not a week before it, unless that is less than a unit a week.
ProjectionClears ==
    \A d \in ProjectedCompletion :
        LET weeks == (d - day) \div 7
        IN  /\ paid * weeks >= Outstanding * WeeksElapsed
            /\ FastRate => paid * (weeks - 1) < Outstanding * WeeksElapsed
=============================================================================
