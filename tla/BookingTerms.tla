----------------------------- MODULE BookingTerms -----------------------------
(***************************************************************************)
(* The arithmetic of a booking: BookingPolicy.Calculate and                *)
(* NewBookingTerms, in cents.  The service's total is the only input; the  *)
(* platform's fee and the deposit's rate are constants of the code.        *)
(***************************************************************************)
EXTENDS Integers

CONSTANT MaxInt64  \* math.MaxInt64; a smaller limit for TLC

BasisPoints      == 10000   \* percentageBasisPointsDenominator
DepositRate      == 2000    \* bookingDepositRateBasisPoints
PlatformFeeTotal == 500000  \* bookingPlatformFeeTotalCents

\* The fee fits, and so do the products of percentageOf.
ASSUME WidthAssumption ==
  MaxInt64 \in Nat /\ MaxInt64 >= BasisPoints * BasisPoints /\ MaxInt64 > PlatformFeeTotal

\* The share at DepositRate, to the nearest cent, computed without the product
\* of the whole amount, which would not fit.
PercentageOf(amount) ==
  (amount \div BasisPoints) * DepositRate
    + ((amount % BasisPoints) * DepositRate + BasisPoints \div 2) \div BasisPoints

PlatformFeeDueNow == PercentageOf(PlatformFeeTotal)

\* The bounds Calculate checks, and then what validate refuses.
Calculable(total) == total > 0 /\ total <= MaxInt64 - PlatformFeeTotal
Valid(total, deposit) ==
  /\ total > 0
  /\ deposit > 0 /\ deposit <= total
  /\ total <= MaxInt64 - PlatformFeeTotal
  /\ PlatformFeeDueNow >= 0 /\ PlatformFeeDueNow <= PlatformFeeTotal
Accepts(total) == Calculable(total) /\ Valid(total, PercentageOf(total))

\* NewBookingTerms.
Terms(total) ==
  LET deposit == PercentageOf(total) IN
  [serviceTotal         |-> total,
   deposit              |-> deposit,
   remainingService     |-> total - deposit,
   remainingPlatformFee |-> PlatformFeeTotal - PlatformFeeDueNow,
   amountDueNow         |-> deposit + PlatformFeeDueNow,
   remainingAmountDue   |-> (total - deposit) + (PlatformFeeTotal - PlatformFeeDueNow),
   contractTotal        |-> total + PlatformFeeTotal]
=============================================================================
