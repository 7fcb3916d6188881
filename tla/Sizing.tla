------------------------------- MODULE Sizing -------------------------------
(***************************************************************************)
(* How many executors a LeasedExecutorManager wants for a number of units  *)
(* (manager.py, _unit_count_locked and _desired_executor_count_locked).    *)
(*                                                                         *)
(* The code divides two ints into a float and takes math.ceil of it.  The  *)
(* quotient is modelled as the nearest binary float with Precision bits of *)
(* significand, ties to even, which is what int / int gives in Python with *)
(* Precision = 53; small precisions make the rounding visible to TLC.      *)
(***************************************************************************)
EXTENDS Integers

\* _unit_count_locked: no provider, a provider that raises and a negative count
\* all give 0. A reading is an integer; any negative one also stands for a raise.
UnitCount(reading) == IF reading < 0 THEN 0 ELSE reading

\* The ceiling of n / d over the integers, for d > 0.
CeilDiv(n, d) == -((-n) \div d)

\* math.ceil of the exact quotient, clamped to [minPools, maxPools].
DesiredCount(reading, minPools, maxPools, unitsPerPool) ==
    LET unitBased == CeilDiv(UnitCount(reading), unitsPerPool)
        desired   == IF unitBased > minPools THEN unitBased ELSE minPools
    IN  IF desired < maxPools THEN desired ELSE maxPools

-----------------------------------------------------------------------------
\* Nearest integer to n / d, ties to even.
RoundHalfEven(n, d) ==
    LET low == n \div d
        rem == n % d
    IN  IF 2 * rem < d \/ (2 * rem = d /\ low % 2 = 0) THEN low ELSE low + 1

\* Mutants of CeilFloatDiv: floor division; round() for math.ceil().
FloorQuotient(n, d, precision)   == n \div d
RoundedQuotient(n, d, precision) == RoundHalfEven(n, d)

\* The float nearest to n / d is a significand of precision bits times 2^exp, where
\* 2^exp scales the quotient into the range of these significands.
PowerOfTwo(k) == 2^k
Scaled(n, d, exp) ==
    IF exp >= 0 THEN <<n, d * PowerOfTwo(exp)>> ELSE <<n * PowerOfTwo(-exp), d>>
IsNormal(n, d, precision, exp) ==
    LET q == Scaled(n, d, exp)
    IN  /\ q[1] >= PowerOfTwo(precision - 1) * q[2]
        /\ q[1] < PowerOfTwo(precision) * q[2]
Exponent(n, d, precision) ==
    CHOOSE exp \in -(precision + d) .. n : IsNormal(n, d, precision, exp)

\* math.ceil(n / d), the quotient rounded to a float of the given precision.
CeilFloatDiv(n, d, precision) ==
    IF n = 0 THEN 0
    ELSE LET exp == Exponent(n, d, precision)
             q   == Scaled(n, d, exp)
             sig == RoundHalfEven(q[1], q[2])
         IN  IF exp >= 0 THEN sig * PowerOfTwo(exp) ELSE CeilDiv(sig, PowerOfTwo(-exp))

\* The desired count as the code computes it, through the float.
DesiredCountFloat(reading, minPools, maxPools, unitsPerPool, precision) ==
    LET unitBased == CeilFloatDiv(UnitCount(reading), unitsPerPool, precision)
        desired   == IF unitBased > minPools THEN unitBased ELSE minPools
    IN  IF desired < maxPools THEN desired ELSE maxPools
=============================================================================
