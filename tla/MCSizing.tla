------------------------------ MODULE MCSizing ------------------------------
(* Every input of the sizing rule within the bounds, one state each, against *)
(* a reference that does not divide.                                         *)
EXTENDS Sizing

CONSTANTS
    MaxUnits,   \* readings from -2 (negative, or raising) to MaxUnits
    MaxPer,     \* units_per_pool from 1 to MaxPer
    PoolBound,  \* 1 <= min_pools <= max_pools <= PoolBound
    Precision   \* significand bits of the float the quotient is rounded to

ASSUME SizingAssumption ==
    /\ MaxUnits \in Nat /\ MaxPer \in Nat /\ PoolBound \in Nat
    /\ Precision \in Nat \ {0}

VARIABLES reading, minPools, maxPools, unitsPerPool

vars == <<reading, minPools, maxPools, unitsPerPool>>

Readings == (-2) .. MaxUnits

Init ==
    /\ reading = -2
    /\ minPools \in 1 .. PoolBound
    /\ maxPools \in minPools .. PoolBound
    /\ unitsPerPool \in 1 .. MaxPer

\* The provider answers with another reading.
Next ==
    /\ reading' \in Readings
    /\ UNCHANGED <<minPools, maxPools, unitsPerPool>>

Spec == Init /\ [][Next]_vars

Desired == DesiredCountFloat(reading, minPools, maxPools, unitsPerPool, Precision)

(* The float path gives the least pool count that covers the units, held in  *)
(* [min_pools, max_pools]: no unit is left uncovered below the cap and no    *)
(* executor is there that the units do not need.                             *)
LeastCoveringCount ==
    LET units == UnitCount(reading)
        Covers(n) == n * unitsPerPool >= units
    IN  /\ Desired \in minPools .. maxPools
        /\ Covers(Desired) \/ Desired = maxPools
        /\ Desired > minPools => ~Covers(Desired - 1)

(* Rounding the quotient to a float never changes the count while the units  *)
(* fit the significand (2^53 in CPython).                                    *)
FloatIsExact ==
    UnitCount(reading) < 2 ^ Precision =>
        Desired = DesiredCount(reading, minPools, maxPools, unitsPerPool)
=============================================================================
