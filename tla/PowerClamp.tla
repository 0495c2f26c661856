----------------------------- MODULE PowerClamp -----------------------------
(***************************************************************************)
(* charge_discharge_workflow.py: the arithmetic of a charge/discharge      *)
(* workflow.  Powers are integers in a unit of which UnitsPerKw make one   *)
(* kW; the sign of a power is the sign of the PCS setpoint.                *)
(***************************************************************************)
EXTENDS Quotients

CONSTANTS
    UnitsPerKw,     \* 10 when powers are tenths of a kW
    Placeholders    \* Placeholders[i]: the values of the i-th limit that stand for
                    \* the readings 255, 65535, ..., "not available"
ASSUME UnitAssumption == UnitsPerKw \in Nat \ {0}
ASSUME PlaceholdersAssumption == Placeholders \in [1..3 -> SUBSET Nat]

Abs(x) == IF x >= 0 THEN x ELSE -x

\* _positive_number; None is 0, which is not a result otherwise.
NoNumber == 0
PositiveNumber(limits, i) ==
    IF limits[i] > 0 /\ limits[i] \notin Placeholders[i] THEN limits[i] ELSE NoNumber

\* _read_bms_allowed_power_kw with a clamp margin of 1: limits holds the power
\* limit of the operation, its current limit and the system voltage (in units of
\* power per unit of current).
AllowedPower(limits) ==
    LET power == PositiveNumber(limits, 1)
        current == PositiveNumber(limits, 2) * PositiveNumber(limits, 3)
    IN  IF power = NoNumber THEN current
        ELSE IF current = NoNumber \/ power <= current THEN power
        ELSE current

\* _apply_bms_power_clamp with use_bms_limit_clamp; follow is the mode
\* "follow_bms_max".
Clamp(requested, allowed, follow) ==
    IF allowed = NoNumber THEN requested
    ELSE LET final == IF follow \/ allowed < Abs(requested) THEN allowed
                      ELSE Abs(requested)
         IN  IF requested >= 0 THEN final ELSE -final

\* int(round(power_kw)): a PCS is given whole kW.
WholeKw(power) == RoundedQuotient(power, UnitsPerKw)

\* The next setpoint of a ramp from current to target.
MutTowards(current, target, step) ==
    IF target > current THEN current + step ELSE current - step
Towards(current, target, step) ==
    IF target > current
    THEN IF current + step > target THEN target ELSE current + step
    ELSE IF current - step < target THEN target ELSE current - step

\* _target_signed_power.
SignedTarget(mode, target, positiveMeans) ==
    IF mode = "signed" THEN target
    ELSE IF mode = positiveMeans THEN Abs(target) ELSE -Abs(target)

\* _operation_from_signed_power.
Operation(mode, power, positiveMeans) ==
    IF mode \in {"charge", "discharge"} THEN mode
    ELSE IF power >= 0 THEN positiveMeans
    ELSE IF positiveMeans = "discharge" THEN "charge" ELSE "discharge"
=============================================================================
