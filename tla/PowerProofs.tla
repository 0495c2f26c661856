----------------------------- MODULE PowerProofs -----------------------------
(***************************************************************************)
(* Proofs about the power of a PCS: the ramps and the clamp of a workflow  *)
(* (PowerClamp, ChargeDischarge), the dispatch and the stop of the panel   *)
(* (PcsPanel) and the registers (Registers, PcsPoint), for any settings,   *)
(* limits, clusters, ratings and word size.                                *)
(***************************************************************************)
EXTENDS ChargeDischarge, PcsPanel, PcsPoint, FiniteSetTheorems, FunctionTheorems,
        SequenceTheorems, WellFoundedInduction, TLAPS

-----------------------------------------------------------------------------
(* The arithmetic.                                                         *)

\* The signed target of a charge or a discharge workflow means that operation
\* in the sign convention of the PCS, and is not larger than what was asked for.
THEOREM SignConvention ==
    ASSUME NEW said \in {"charge", "discharge"},
           NEW positiveMeans \in {"charge", "discharge"},
           NEW target \in Int, target # 0
    PROVE  /\ Operation("signed", SignedTarget(said, target, positiveMeans), positiveMeans) = said
           /\ Abs(SignedTarget(said, target, positiveMeans)) = Abs(target)
  BY DEF Operation, SignedTarget, Abs

\* Quotient and remainder are the only ones.
LEMMA DivMod ==
    ASSUME NEW a \in Int, NEW b \in Nat, b > 0
    PROVE  /\ a \div b \in Int /\ a % b \in Int
           /\ a = b * (a \div b) + (a % b)
           /\ 0 <= a % b /\ a % b < b
  OBVIOUS

LEMMA DivModUnique ==
    ASSUME NEW b \in Nat, b > 0, NEW q \in Int, NEW r \in Int, 0 <= r, r < b
    PROVE  (b * q + r) \div b = q /\ (b * q + r) % b = r
<1> DEFINE a == b * q + r
           d == a \div b
           m == a % b
<1>1. a \in Int /\ d \in Int /\ m \in Int
  BY DivMod
<1>2. a = b * d + m /\ 0 <= m /\ m < b
  BY <1>1, DivMod
<1> HIDE DEF d, m
<1>3. b * (q - d) = m - r
  BY <1>1, <1>2
<1>4. ~(q - d >= 1)
  <2> SUFFICES ASSUME q - d >= 1 PROVE FALSE
    OBVIOUS
  <2>1. b * (q - d) >= b
    BY <1>1
  <2> QED
    BY <1>1, <1>2, <1>3, <2>1
<1>5. ~(q - d <= -1)
  <2> SUFFICES ASSUME q - d <= -1 PROVE FALSE
    OBVIOUS
  <2>1. b * (q - d) <= -b
    BY <1>1
  <2> QED
    BY <1>1, <1>2, <1>3, <2>1
<1>6. q = d
  BY <1>1, <1>4, <1>5
<1> QED
  BY <1>1, <1>2, <1>6 DEF d, m, a

\* A quotient is rounded by half a divisor at most, and keeps its sign.
LEMMA Rounding ==
    ASSUME NEW a \in Int, NEW b \in Nat \ {0}
    PROVE  LET q == RoundedQuotient(a, b)
           IN  /\ q \in Int
               /\ -b <= 2 * (b * q - a) /\ 2 * (b * q - a) <= b
               /\ a >= 0 => q >= 0
               /\ a <= 0 => q <= 0
<1> DEFINE d == a \div b
           m == a % b
           q == RoundedQuotient(a, b)
<1>1. d \in Int /\ m \in Int /\ a = b * d + m /\ 0 <= m /\ m < b
  BY DivMod
<1>2. \/ q = d /\ 2 * m <= b
      \/ q = d + 1 /\ b <= 2 * m
  BY <1>1 DEF RoundedQuotient
<1> HIDE DEF d, m, q
<1>3. q \in Int
  BY <1>1, <1>2
<1>4. b * (d + 1) = b * d + b
  BY <1>1
<1>5. -b <= 2 * (b * q - a) /\ 2 * (b * q - a) <= b
  BY <1>1, <1>2, <1>4
<1>6. ASSUME a >= 0 PROVE q >= 0
  <2>1. d >= 0
    <3> SUFFICES ASSUME d <= -1 PROVE FALSE
      BY <1>1
    <3>1. b * d <= -b
      BY <1>1
    <3> QED
      BY <1>1, <1>6, <3>1
  <2> QED
    BY <1>1, <1>2, <2>1
<1>7. ASSUME a <= 0 PROVE q <= 0
  <2>1. d <= 0
    <3> SUFFICES ASSUME d >= 1 PROVE FALSE
      BY <1>1
    <3>1. b * d >= b
      BY <1>1
    <3> QED
      BY <1>1, <1>7, <3>1
  <2>2. d = 0 => m = 0
    BY <1>1, <1>7
  <2> QED
    BY <1>1, <1>2, <2>1, <2>2
<1> QED
  BY <1>3, <1>5, <1>6, <1>7 DEF q

\* Rounding keeps the order.
LEMMA RoundingMonotone ==
    ASSUME NEW a \in Int, NEW b \in Int, NEW n \in Nat \ {0}, a <= b
    PROVE  RoundedQuotient(a, n) <= RoundedQuotient(b, n)
<1> DEFINE p == RoundedQuotient(a, n)
           q == RoundedQuotient(b, n)
<1>1. p \in Int /\ q \in Int /\ 2 * (n * p - a) <= n /\ -n <= 2 * (n * q - b)
  BY Rounding
<1>2. a = b => p = q
  OBVIOUS
<1> HIDE DEF p, q
<1>3. ~(p - q >= 1)
  <2> SUFFICES ASSUME p - q >= 1 PROVE FALSE
    OBVIOUS
  <2>1. n * (p - q) >= n
    BY <1>1
  <2>2. n * (p - q) = n * p - n * q
    BY <1>1
  <2>3. n * p \in Int /\ n * q \in Int
    BY <1>1
  <2>4. a = b
    BY <1>1, <2>1, <2>2, <2>3
  <2> QED
    BY <1>1, <1>2, <2>4
<1>4. p <= q
  BY <1>1, <1>3
<1> QED
  BY <1>4 DEF p, q

\* The whole kW of a power: next to it, and zero for zero.
LEMMA WholeFacts ==
    ASSUME NEW x \in Int
    PROVE  /\ WholeKw(x) \in Int
           /\ 2 * UnitsPerKw * Abs(WholeKw(x)) <= 2 * Abs(x) + UnitsPerKw
           /\ WholeKw(0) = 0
<1> DEFINE q == WholeKw(x)
<1>1. UnitsPerKw \in Nat \ {0}
  BY UnitAssumption
<1>2. /\ q \in Int
      /\ -UnitsPerKw <= 2 * (UnitsPerKw * q - x)
      /\ 2 * (UnitsPerKw * q - x) <= UnitsPerKw
      /\ x >= 0 => q >= 0
      /\ x <= 0 => q <= 0
  BY <1>1, Rounding DEF WholeKw
<1>3. WholeKw(0) = 0
  <2>1. WholeKw(0) \in Int /\ WholeKw(0) >= 0 /\ WholeKw(0) <= 0
    BY <1>1, Rounding DEF WholeKw
  <2> QED
    BY <2>1
<1> HIDE DEF q
<1>4. UnitsPerKw * q \in Int /\ UnitsPerKw * (-q) = -(UnitsPerKw * q)
      /\ 2 * UnitsPerKw * q = 2 * (UnitsPerKw * q)
      /\ 2 * UnitsPerKw * (-q) = 2 * (UnitsPerKw * (-q))
  BY <1>1, <1>2
<1>5. CASE q >= 0
  <2>1. Abs(q) = q /\ (x < 0 => q = 0)
    BY <1>2, <1>5 DEF Abs
  <2>2. q = 0 => UnitsPerKw * q = 0
    BY <1>1
  <2>3. Abs(x) \in Int /\ Abs(x) >= x /\ Abs(x) >= 0
    BY DEF Abs
  <2>4. 2 * UnitsPerKw * Abs(q) <= 2 * Abs(x) + UnitsPerKw
    BY <1>1, <1>2, <1>4, <2>1, <2>2, <2>3
  <2> QED
    BY <1>2, <1>3, <2>4 DEF q
<1>6. CASE q < 0
  <2>1. Abs(q) = -q /\ x <= 0 /\ Abs(x) = -x
    BY <1>2, <1>6 DEF Abs
  <2>2. 2 * UnitsPerKw * Abs(q) <= 2 * Abs(x) + UnitsPerKw
    BY <1>1, <1>2, <1>4, <2>1
  <2> QED
    BY <1>2, <1>3, <2>2 DEF q
<1> QED
  BY <1>2, <1>5, <1>6

LEMMA WholeWithin ==
    ASSUME NEW x \in Int, NEW bound \in Int, Within(x, bound)
    PROVE  Within(WholeKw(x), WholeKw(bound))
<1>1. UnitsPerKw \in Nat \ {0}
  BY UnitAssumption
<1>2. WholeKw(x) \in Int /\ WholeKw(bound) \in Int /\ WholeKw(0) = 0
  BY WholeFacts
<1>3. CASE bound >= 0
  <2>1. 0 <= WholeKw(x) /\ WholeKw(x) <= WholeKw(bound)
    <3>1. 0 <= x /\ x <= bound
      BY <1>3 DEF Within
    <3>2. WholeKw(0) <= WholeKw(x) /\ WholeKw(x) <= WholeKw(bound)
      BY <1>1, <3>1, RoundingMonotone DEF WholeKw
    <3> QED
      BY <1>2, <3>2
  <2> QED
    BY <1>2, <2>1 DEF Within
<1>4. CASE bound < 0
  <2>1. WholeKw(bound) <= WholeKw(x) /\ WholeKw(x) <= 0
    <3>1. bound <= x /\ x <= 0
      BY <1>4 DEF Within
    <3>2. WholeKw(bound) <= WholeKw(x) /\ WholeKw(x) <= WholeKw(0)
      BY <1>1, <3>1, RoundingMonotone DEF WholeKw
    <3> QED
      BY <1>2, <3>2
  <2> QED
    BY <1>2, <2>1 DEF Within
<1> QED
  BY <1>3, <1>4

LEMMA AllowedIsNat ==
    ASSUME NEW shown \in Int \X Int \X Int
    PROVE  AllowedPower(shown) \in Nat
<1>1. \A i \in 1..3 : PositiveNumber(shown, i) \in Nat
  BY DEF PositiveNumber, NoNumber
<1>2. \A a, b \in Nat : a * b \in Nat
  OBVIOUS
<1>3. PositiveNumber(shown, 2) * PositiveNumber(shown, 3) \in Nat
  BY <1>1, <1>2
<1> QED
  BY <1>1, <1>3 DEF AllowedPower

LEMMA ClampType ==
    ASSUME NEW requested \in Int, NEW allowed \in Nat, NEW follow \in BOOLEAN
    PROVE  Clamp(requested, allowed, follow) \in Int
  BY DEF Clamp, NoNumber, Abs

\* In the mode "target_with_clamp" the clamp keeps the sign and only reduces.
THEOREM ClampOnlyReduces ==
    ASSUME NEW requested \in Int, NEW allowed \in Nat
    PROVE  /\ Within(Clamp(requested, allowed, FALSE), requested)
           /\ allowed # NoNumber => Abs(Clamp(requested, allowed, FALSE)) <= allowed
  BY DEF Clamp, NoNumber, Abs, Within

LEMMA WithinTransitive ==
    ASSUME NEW x \in Int, NEW y \in Int, NEW z \in Int, Within(x, y), Within(y, z)
    PROVE  Within(x, z)
  BY DEF Within

LEMMA TowardsType ==
    ASSUME NEW from \in Int, NEW target \in Int, NEW step \in Nat \ {0}
    PROVE  Towards(from, target, step) \in Int
  BY DEF Towards

\* A ramp from a power between zero and the bound to another one stays there.
LEMMA TowardsStays ==
    ASSUME NEW from \in Int, NEW target \in Int, NEW step \in Nat \ {0}, NEW bound \in Int,
           Within(from, bound), Within(target, bound)
    PROVE  Within(Towards(from, target, step), bound)
  BY DEF Within, Towards
-----------------------------------------------------------------------------
(* Types.                                                                  *)

LEMMA SettingsTyped ==
    ASSUME TypeOK
    PROVE  /\ S \in Settings /\ settings["stop"] \in Settings
           /\ S.target \in Int /\ S.step \in Nat \ {0} /\ settings["stop"].step \in Nat \ {0}
           /\ S.follow \in BOOLEAN /\ limits \in Int \X Int \X Int
  BY SettingsAssumption, LimitsAssumption
     DEF TypeOK, SettingsType, DeviceType, AllSettings, Workers, S, Settings

LEMMA PowersTyped ==
    ASSUME TypeOK
    PROVE  /\ Effective \in Int /\ Adjusted \in Int
           /\ Towards(ramp.current, Effective, S.step) \in Int
           /\ Towards(down, 0, settings["stop"].step) \in Int
           /\ WholeKw(0) = 0 /\ WholeKw(Adjusted) \in Int /\ WholeKw(ramp.next) \in Int
           /\ WholeKw(Towards(down, 0, settings["stop"].step)) \in Int
<1>1. AllowedPower(limits) \in Nat
  BY SettingsTyped, AllowedIsNat
<1>2. ramp.current \in Int /\ ramp.next \in Int /\ down \in Int /\ last \in Int
  BY DEF TypeOK, PowerType
<1>3. Effective \in Int
  BY <1>1, SettingsTyped, ClampType DEF Effective
<1>4. Adjusted \in Int
  BY <1>1, <1>2, SettingsTyped, ClampType DEF Adjusted
<1>5. Towards(ramp.current, Effective, S.step) \in Int
  BY <1>2, <1>3, SettingsTyped, TowardsType
<1>6. Towards(down, 0, settings["stop"].step) \in Int
  <2>1. settings["stop"].step \in Nat \ {0}
    BY SettingsTyped
  <2> QED
    BY <1>2, <2>1 DEF Towards
<1>7. WholeKw(0) = 0
  BY WholeFacts
<1> QED
  BY <1>2, <1>3, <1>4, <1>5, <1>6, <1>7, WholeFacts

\* A thread goes on, or ends.
LEMMA GotoTyping ==
    ASSUME ThreadType, NEW a \in Workers, NEW label, Goto(a, label), UNCHANGED <<stop, met>>,
           lost' \in [Workers -> BOOLEAN],
           label \in (IF a = "start" THEN StartLabels ELSE StopLabels) \cup {"idle"}
    PROVE  ThreadType'
  BY DEF ThreadType, Goto, Workers, StartLabels, StopLabels

LEMMA ReturnTyping ==
    ASSUME ThreadType, NEW a \in Workers, NEW res \in {"ok", "fail"}, Return(a, res),
           UNCHANGED met, lost' \in [Workers -> BOOLEAN]
    PROVE  ThreadType'
  BY DEF ThreadType, Return, Workers, StartLabels, StopLabels

\* What a step of either worker does to where the threads are.
LEMMA ThreadTyping ==
    ASSUME ThreadType, StartStep \/ StopStep
    PROVE  ThreadType'
<1>0. "start" \in Workers /\ "stop" \in Workers /\ lost \in [Workers -> BOOLEAN]
  BY DEF Workers, ThreadType
<1>1. CASE StartPrechecks \/ HvOn \/ HvWait \/ HvStay \/ PcsStart \/ PcsWait \/ RampSleep
  BY <1>1 DEF StartPrechecks, HvOn, HvWait, HvStay, PcsStart, PcsWait, RampSleep, RampFails, locals,
              ThreadType, Goto, Fail, Workers, StartLabels, StopLabels
<1>2. CASE RampBegin \/ RampTop \/ RampSafety \/ RampWrite
  BY <1>2 DEF RampBegin, RampTop, RampSafety, Reduced, RampFails, RampWrite,
              ThreadType, Goto, Fail, Workers, StartLabels, StopLabels
<1>3. CASE Monitor \/ StartDone
  <2>1. CASE StartDone
    BY <1>0, <2>1, ReturnTyping DEF StartDone
  <2>2. CASE Monitor
    <3>1. UNCHANGED <<stop, met, lost>> /\ (Goto("start", "emZero") \/ Goto("start", "monitored"))
      BY <2>2 DEF Monitor, Reduced, Fail
    <3> QED
      BY <1>0, <3>1, GotoTyping DEF StartLabels
  <2> QED
    BY <1>3, <2>1, <2>2
<1>4. CASE EmergencyZero
  BY <1>4 DEF EmergencyZero, Lose, ThreadType, Goto, Workers, StartLabels, StopLabels
<1>5. CASE EmergencyStop
  <2>1. lost' \in [Workers -> BOOLEAN]
    BY <1>0, <1>5 DEF EmergencyStop, Lose
  <2> QED
    BY <1>0, <1>5, <2>1, ReturnTyping DEF EmergencyStop
<1>6. CASE StopConnect
  <2>1. CASE Return("stop", "fail")
    BY <1>0, <1>6, <2>1, ReturnTyping DEF StopConnect
  <2>2. CASE ~Return("stop", "fail")
    BY <1>0, <1>6, <2>2, GotoTyping DEF StopConnect, StopLabels, locals
  <2> QED
    BY <2>1, <2>2
<1>7. CASE DownRead \/ DownWrite \/ DownZero
  <2>1. lost' \in [Workers -> BOOLEAN] /\ UNCHANGED <<stop, met>>
    BY <1>0, <1>7 DEF DownRead, DownWrite, DownZero, Lose
  <2>2. \E label \in {"downZero", "downWrite", "downStop"} : Goto("stop", label)
    BY <1>7 DEF DownRead, DownWrite, DownZero
  <2> QED
    BY <1>0, <2>1, <2>2, GotoTyping DEF StopLabels
<1>8. CASE DownStop
  <2>1. lost' \in [Workers -> BOOLEAN] /\ UNCHANGED met
    BY <1>0, <1>8 DEF DownStop, Lose
  <2>2. CASE Return("stop", "ok")
    BY <1>0, <2>1, <2>2, ReturnTyping
  <2>3. CASE ~Return("stop", "ok")
    BY <1>0, <1>8, <2>1, <2>3, GotoTyping DEF DownStop, StopLabels, locals
  <2> QED
    BY <2>2, <2>3
<1>9. CASE HvOff \/ HvOffStay
  <2>1. UNCHANGED <<met, lost>>
    BY <1>9 DEF HvOff, HvOffStay
  <2>2. CASE Return("stop", "ok")
    BY <1>0, <2>1, <2>2, ReturnTyping
  <2>3. CASE ~Return("stop", "ok")
    BY <1>0, <1>9, <2>1, <2>3, GotoTyping DEF HvOff, HvOffStay, StopLabels, locals
  <2> QED
    BY <2>2, <2>3
<1> QED
  BY <1>1, <1>2, <1>3, <1>4, <1>5, <1>6, <1>7, <1>8, <1>9 DEF StartStep, StopStep

LEMMA DeviceTyping ==
    ASSUME DeviceType, StartStep \/ StopStep
    PROVE  DeviceType'
<1> USE DEF DeviceType, bms, device, locals
<1>1. CASE StartStep
  BY <1>1 DEF StartStep, StartPrechecks, HvOn, HvWait, HvStay, PcsStart, PcsWait, Raised,
              RampBegin, RampTop, RampSafety, RampWrite, RampSleep, Monitor, StartDone, Return,
              EmergencyZero, EmergencyStop
<1>2. CASE StopStep
  BY <1>2 DEF StopStep, StopConnect, DownRead, DownWrite, DownZero, DownStop, HvOff,
              HvOffStay, Return
<1> QED
  BY <1>1, <1>2

LEMMA PowerTyping ==
    ASSUME TypeOK, StartStep \/ StopStep
    PROVE  PowerType'
<1> USE DEF PowerType
<1>0. PowerType
  BY DEF TypeOK
<1>1. CASE StartPrechecks \/ HvOn \/ HvWait \/ HvStay \/ PcsStart \/ PcsWait \/ RampSleep
  BY <1>0, <1>1 DEF locals, device, StartPrechecks, HvOn, HvWait, HvStay, PcsStart,
                    PcsWait, RampSleep, RampFails, NoRamp
<1>2. CASE RampBegin
  BY <1>0, <1>2, PowersTyped DEF RampBegin, SetPower, SetPowerFails
<1>3. CASE RampTop
  <2>1. ramp' = NoRamp
        \/ ramp' = [ramp EXCEPT !.effective = Effective,
                                !.next = Towards(ramp.current, Effective, S.step)]
    BY <1>3 DEF RampTop, RampFails
  <2>2. UNCHANGED <<last, down, setpoint>>
    BY <1>3 DEF RampTop, device
  <2>3. ramp' \in [current : Int, effective : Int, next : Int]
    <3>1. Effective \in Int /\ Towards(ramp.current, Effective, S.step) \in Int
      BY PowersTyped
    <3>2. NoRamp \in [current : Int, effective : Int, next : Int]
      BY DEF NoRamp
    <3> QED
      BY <1>0, <2>1, <3>1, <3>2
  <2> QED
    BY <1>0, <2>2, <2>3
<1>4. CASE RampSafety
  BY <1>0, <1>4, PowersTyped
     DEF RampSafety, Reduced, RampFails, NoRamp, SetPower, SetPowerFails
<1>5. CASE RampWrite
  BY <1>0, <1>5, PowersTyped DEF RampWrite, SetPower, SetPowerFails, RampFails, NoRamp
<1>6. CASE Monitor \/ StartDone
  BY <1>0, <1>6, PowersTyped
     DEF Monitor, StartDone, Reduced, Return, SetPower, SetPowerFails, device, NoRamp
<1>7. CASE EmergencyZero
  BY <1>0, <1>7, PowersTyped DEF EmergencyZero, SetPower, SetPowerFails
<1>8. CASE EmergencyStop
  BY <1>0, <1>8 DEF EmergencyStop, Return, NoRamp
<1>9. CASE StopConnect
  BY <1>0, <1>9 DEF StopConnect, Return, locals, device
<1>10. CASE DownRead
  BY <1>0, <1>10, PowersAssumption DEF DownRead, device
<1>11. CASE DownWrite
  BY <1>0, <1>11, PowersTyped DEF DownWrite
<1>12. CASE DownZero
  BY <1>0, <1>12 DEF DownZero
<1>13. CASE DownStop \/ HvOff \/ HvOffStay
  BY <1>0, <1>13 DEF DownStop, HvOff, HvOffStay, Return, locals
<1> QED
  BY <1>1, <1>2, <1>3, <1>4, <1>5, <1>6, <1>7, <1>8, <1>9, <1>10, <1>11, <1>12, <1>13
     DEF StartStep, StopStep

LEMMA SettingsKept == StartStep \/ StopStep => UNCHANGED <<settings, met>>
<1>1. StartStep => UNCHANGED <<settings, met>>
  BY DEF StartStep, StartPrechecks, HvOn, HvWait, HvStay, PcsStart, PcsWait, RampBegin,
         RampTop, RampSafety, RampWrite, RampSleep, Monitor, StartDone, EmergencyZero, EmergencyStop
<1>2. StopStep => UNCHANGED <<settings, met>>
  BY DEF StopStep, StopConnect, DownRead, DownWrite, DownZero, DownStop, HvOff, HvOffStay
<1> QED
  BY <1>1, <1>2

\* Every variable keeps its type.
THEOREM Typing == Spec => []TypeOK
<1>1. Init => TypeOK
  <2> SUFFICES ASSUME Init PROVE TypeOK
    OBVIOUS
  <2>1. SettingsType /\ PowerType
    BY DEF Init, SettingsType, PowerType, NoRamp
  <2>2. ThreadType
    BY DEF Init, ThreadType, StartLabels, StopLabels, Workers
  <2>3. DeviceType
    BY LimitsAssumption DEF Init, DeviceType
  <2> QED
    BY <2>1, <2>2, <2>3 DEF TypeOK
<1>2. TypeOK /\ [Next]_vars => TypeOK'
  <2> SUFFICES ASSUME TypeOK, [Next]_vars PROVE TypeOK'
    OBVIOUS
  <2>1. ASSUME NEW a \in Workers, NEW s \in AllSettings[a], Launch(a, s)
        PROVE  TypeOK'
    <3>1. SettingsType'
      BY <2>1 DEF Launch, TypeOK, SettingsType, AllSettings, Workers
    <3>2. ThreadType'
      BY <2>1 DEF Launch, Live, Other, TypeOK, ThreadType, Workers, StartLabels,
                  StopLabels, locals
    <3>3. PowerType' /\ DeviceType'
      BY <2>1, LimitsAssumption
         DEF Launch, TypeOK, PowerType, DeviceType, locals, device
    <3> QED
      BY <3>1, <3>2, <3>3 DEF TypeOK
  <2>2. CASE Cancel
    <3>1. ThreadType'
      BY <2>2 DEF Cancel, Live, TypeOK, ThreadType, Workers
    <3>2. SettingsType' /\ PowerType' /\ DeviceType'
      BY <2>2 DEF Cancel, TypeOK, SettingsType, PowerType, DeviceType, device, bms
    <3> QED
      BY <3>1, <3>2 DEF TypeOK
  <2>3. CASE LimitsChange
    <3>1. DeviceType'
      BY <2>3, LimitsAssumption DEF LimitsChange, TypeOK, DeviceType, locals, device
    <3>2. SettingsType' /\ PowerType' /\ ThreadType'
      BY <2>3 DEF LimitsChange, TypeOK, SettingsType, PowerType, ThreadType, locals, device
    <3> QED
      BY <3>1, <3>2 DEF TypeOK
  <2>4. CASE StartStep \/ StopStep
    <3>1. SettingsType'
      BY <2>4, SettingsKept DEF TypeOK, SettingsType
    <3>2. ThreadType' /\ DeviceType' /\ PowerType'
      BY <2>4, ThreadTyping, DeviceTyping, PowerTyping DEF TypeOK
    <3> QED
      BY <3>1, <3>2 DEF TypeOK
  <2>5. CASE UNCHANGED vars
    BY <2>5 DEF vars, TypeOK, SettingsType, ThreadType, PowerType, DeviceType,
                locals, device, bms
  <2> QED
    BY <2>1, <2>2, <2>3, <2>4, <2>5 DEF Next
<1> QED
  BY <1>1, <1>2, PTL DEF Spec
-----------------------------------------------------------------------------
(* The ramp stays between zero and the target: so do its three locals and  *)
(* the power commanded last, and a new workflow begins with all of them 0. *)

AtRest == pc["start"] = "idle" => ramp = NoRamp /\ last = 0 /\ told = 0
RampWithin == ~S.follow => /\ Within(last, S.target)
                           /\ Within(ramp.current, S.target)
                           /\ Within(ramp.effective, S.target)
                           /\ Within(ramp.next, S.target)

LEMMA ZeroWithin == \A x \in Int : Within(0, x)
  BY DEF Within

LEMMA ClampsWithin ==
    ASSUME TypeOK, RampWithin, ~S.follow
    PROVE  /\ Within(Effective, S.target)
           /\ Within(Adjusted, S.target)
           /\ Within(Towards(ramp.current, Effective, S.step), S.target)
<1>1. AllowedPower(limits) \in Nat
  BY SettingsTyped, AllowedIsNat
<1>2. S.follow = FALSE /\ S.target \in Int /\ last \in Int /\ ramp.current \in Int
      /\ S.step \in Nat \ {0}
  BY SettingsTyped DEF TypeOK, PowerType
<1>3. Within(S.target, S.target)
  BY <1>2 DEF Within
<1>4. Within(Effective, S.target)
  BY <1>1, <1>2, <1>3, ClampOnlyReduces DEF Effective
<1>5. Within(Adjusted, last)
  BY <1>1, <1>2, ClampOnlyReduces DEF Adjusted
<1>6. Within(Adjusted, S.target)
  BY <1>2, <1>5, PowersTyped, WithinTransitive DEF RampWithin
<1>7. Within(Towards(ramp.current, Effective, S.step), S.target)
  BY <1>2, <1>4, PowersTyped, TowardsStays DEF RampWithin
<1> QED
  BY <1>4, <1>6, <1>7

LEMMA RampStart ==
    ASSUME TypeOK, AtRest, RampWithin, StartStep
    PROVE  AtRest' /\ RampWithin'
<1>1. UNCHANGED S
  BY SettingsKept DEF S
<1>2. pc \in [Workers -> {"idle", "connect"} \cup StartLabels \cup StopLabels]
      /\ ramp \in [current : Int, effective : Int, next : Int]
      /\ "start" \in Workers
  BY DEF TypeOK, ThreadType, PowerType, Workers
<1>3. Within(0, S.target)
  BY SettingsTyped, ZeroWithin
<1>4. AtRest'
  BY <1>2 DEF NoRamp, AtRest, StartStep, StartPrechecks, HvOn, HvWait, HvStay, PcsStart, PcsWait,
          RampBegin, RampTop, RampSafety, Reduced, RampFails, RampWrite, RampSleep, Monitor, StartDone, Return,
          EmergencyZero, EmergencyStop, Goto, Fail, locals
<1>5. CASE S.follow
  BY <1>1, <1>4, <1>5 DEF RampWithin
<1>6. CASE ~S.follow
  <2>1. /\ Within(last, S.target) /\ Within(ramp.current, S.target)
        /\ Within(ramp.effective, S.target) /\ Within(ramp.next, S.target)
        /\ Within(Effective, S.target) /\ Within(Adjusted, S.target)
        /\ Within(Towards(ramp.current, Effective, S.step), S.target)
    BY <1>6, ClampsWithin DEF RampWithin
  <2>2. Within(last', S.target)
    <3>1. last' \in {last, 0, Adjusted, ramp.next}
      BY DEF StartStep, StartPrechecks, HvOn, HvWait, HvStay, PcsStart, PcsWait,
             RampBegin, RampTop, RampSafety, Reduced, RampFails, RampWrite, RampSleep, Monitor, StartDone, Return,
             EmergencyZero, EmergencyStop, SetPower, SetPowerFails, locals
    <3> QED
      BY <3>1, <2>1, <1>3
  <2>3. /\ Within(ramp.current', S.target) /\ Within(ramp.effective', S.target)
        /\ Within(ramp.next', S.target)
    <3>0. ramp' = NoRamp => /\ Within(ramp.current', S.target)
                           /\ Within(ramp.effective', S.target)
                           /\ Within(ramp.next', S.target)
      BY <1>3 DEF NoRamp
    <3>1. CASE RampTop
      <4>1. ramp' = NoRamp
            \/ ramp' = [ramp EXCEPT !.effective = Effective,
                                    !.next = Towards(ramp.current, Effective, S.step)]
        BY <3>1 DEF RampTop, RampFails
      <4> QED
        BY <1>2, <2>1, <3>0, <4>1
    <3>2. CASE RampWrite
      <4>1. ramp' = NoRamp \/ ramp' = [ramp EXCEPT !.current = ramp.next]
        BY <3>2 DEF RampWrite, RampFails
      <4> QED
        BY <1>2, <2>1, <3>0, <4>1
    <3>3. CASE ~RampTop /\ ~RampWrite
      <4>1. ramp' = ramp \/ ramp' = NoRamp
        BY <3>3 DEF StartStep, StartPrechecks, HvOn, HvWait, HvStay, PcsStart, PcsWait,
               RampBegin, RampSafety, RampFails, RampSleep, Monitor, StartDone, Return, EmergencyZero,
               EmergencyStop, locals
      <4> QED
        BY <4>1, <2>1, <3>0
    <3> QED
      BY <3>1, <3>2, <3>3
  <2> QED
    BY <1>1, <1>4, <2>2, <2>3 DEF RampWithin
<1> QED
  BY <1>5, <1>6

LEMMA RampInvariance == Spec => [](AtRest /\ RampWithin)
<1>1. Init => AtRest /\ RampWithin
  <2> SUFFICES ASSUME Init PROVE AtRest /\ RampWithin
    OBVIOUS
  <2>1. S.target \in Int
    BY SettingsAssumption DEF Init, S, AllSettings, Workers, Settings
  <2> QED
    BY <2>1, ZeroWithin DEF Init, AtRest, RampWithin, NoRamp
<1>2. TypeOK /\ AtRest /\ RampWithin /\ [Next]_vars => (AtRest /\ RampWithin)'
  <2> SUFFICES ASSUME TypeOK, AtRest, RampWithin, [Next]_vars
               PROVE  (AtRest /\ RampWithin)'
    OBVIOUS
  <2>0. pc \in [Workers -> {"idle", "connect"} \cup StartLabels \cup StopLabels]
        /\ settings \in [Workers -> StartSettings \cup StopSettings]
    BY DEF TypeOK, ThreadType, SettingsType
  <2>1. ASSUME NEW s \in AllSettings["start"], Launch("start", s)
        PROVE  (AtRest /\ RampWithin)'
    <3>1. ramp' = NoRamp /\ last' = 0 /\ told' = 0
      BY <2>1 DEF Launch, Live, AtRest, locals
    <3>2. S' = s /\ s.target \in Int
      BY <2>0, <2>1, SettingsAssumption DEF Launch, S, AllSettings, Settings, Workers
    <3> QED
      BY <3>1, <3>2, ZeroWithin DEF AtRest, RampWithin, NoRamp
  <2>2. ASSUME NEW s \in AllSettings["stop"], Launch("stop", s)
        PROVE  (AtRest /\ RampWithin)'
    BY <2>0, <2>2 DEF Launch, AtRest, RampWithin, S, Workers, locals
  <2>3. CASE Cancel \/ LimitsChange
    BY <2>3 DEF Cancel, LimitsChange, AtRest, RampWithin, S, locals
  <2>4. CASE StopStep
    <3>1. pc["start"]' = pc["start"] /\ UNCHANGED <<settings, ramp, last, told>>
      BY <2>0, <2>4 DEF StopStep, StopConnect, DownRead, DownWrite, DownZero, DownStop,
             HvOff, HvOffStay, Return, Goto, locals, Workers
    <3> QED
      BY <3>1 DEF AtRest, RampWithin, S
  <2>5. CASE UNCHANGED vars
    BY <2>5 DEF vars, locals, AtRest, RampWithin, S
  <2> QED
    BY <2>1, <2>2, <2>3, <2>4, <2>5, RampStart DEF Next, Workers
<1> QED
  BY <1>1, <1>2, Typing, PTL DEF Spec

\* In the mode "target_with_clamp" no setpoint beyond the whole kW next to the
\* target is written, and none of the other sign.
THEOREM TargetIsBound == Spec => NeverBeyondTarget
<1>1. ASSUME TypeOK, RampWithin, setpoint' # setpoint, ~S.follow, StartStep
      PROVE  Within(setpoint', WholeKw(S.target))
  <2>1. setpoint' \in {WholeKw(0), WholeKw(Adjusted), WholeKw(ramp.next)}
    BY <1>1 DEF StartStep, StartPrechecks, HvOn, HvWait, HvStay, PcsStart, PcsWait,
           RampBegin, RampTop, RampSafety, Reduced, RampWrite, RampSleep, Monitor, StartDone,
           EmergencyZero, EmergencyStop, SetPower, SetPowerFails, device
  <2>2. S.target \in Int /\ Adjusted \in Int /\ ramp.next \in Int
    BY <1>1, SettingsTyped, PowersTyped DEF TypeOK, PowerType
  <2>3. Within(0, S.target) /\ Within(Adjusted, S.target) /\ Within(ramp.next, S.target)
    BY <1>1, <2>2, ZeroWithin, ClampsWithin DEF RampWithin
  <2> QED
    BY <2>1, <2>2, <2>3, WholeWithin
<1>2. TypeOK /\ RampWithin /\ [Next]_vars
        => [setpoint' # setpoint /\ ~S.follow /\ StartStep
              => Within(setpoint', WholeKw(S.target))]_vars
  BY <1>1
<1> QED
  BY <1>2, Typing, RampInvariance, PTL DEF Spec, NeverBeyondTarget
-----------------------------------------------------------------------------
(* Cancelling: once a command has been sent with the flag set, the start   *)
(* worker is in front of a stop check it cannot pass, or in its clean-up.  *)

Blocked == {"hvWait", "pcsWait", "rampSleep", "rampTop", "monitor", "monitored",
            "emZero", "emStop"}
CancelInv == told = 0 \/ (told = 1 /\ stop["start"] /\ pc["start"] \in Blocked)

LEMMA CancelStart ==
    ASSUME ThreadType, CancelInv, StartStep
    PROVE  CancelInv'
<1> USE DEF CancelInv, Blocked, Goto, Fail
<1>0. pc \in [Workers -> {"idle", "connect"} \cup StartLabels \cup StopLabels]
      /\ "start" \in Workers
  BY DEF ThreadType, Workers
<1>1. CASE StartPrechecks \/ HvWait \/ HvStay \/ PcsWait \/ RampSleep
  BY <1>0, <1>1 DEF StartPrechecks, HvWait, HvStay, PcsWait, RampSleep, RampFails, locals
<1>2. CASE HvOn \/ PcsStart \/ RampWrite
  BY <1>0, <1>2 DEF HvOn, PcsStart, RampWrite, RampFails, Raised
<1>3. CASE RampBegin \/ RampTop \/ RampSafety \/ EmergencyZero
  BY <1>0, <1>3 DEF RampBegin, RampTop, RampSafety, Reduced, RampFails, EmergencyZero
<1>4. CASE Monitor \/ StartDone \/ EmergencyStop
  BY <1>0, <1>4 DEF Monitor, StartDone, Reduced, EmergencyStop, Return, locals
<1> QED
  BY <1>1, <1>2, <1>3, <1>4 DEF StartStep

\* After a cancel at most one more command that raises power is sent.
THEOREM Cancellation == Spec => []CancelTakesEffect
<1>1. Init => CancelInv
  BY DEF Init, CancelInv
<1>2. TypeOK /\ AtRest /\ CancelInv /\ [Next]_vars => CancelInv'
  <2> SUFFICES ASSUME TypeOK, AtRest, CancelInv, [Next]_vars PROVE CancelInv'
    OBVIOUS
  <2>0. /\ pc \in [Workers -> {"idle", "connect"} \cup StartLabels \cup StopLabels]
        /\ stop \in [Workers -> BOOLEAN]
    BY DEF TypeOK, ThreadType
  <2>1. ASSUME NEW a \in Workers, NEW s \in AllSettings[a], Launch(a, s)
        PROVE  CancelInv'
    BY <2>0, <2>1 DEF Launch, Live, AtRest, CancelInv, Blocked, Workers, locals
  <2>2. CASE Cancel \/ LimitsChange
    BY <2>0, <2>2 DEF Cancel, LimitsChange, Live, CancelInv, Blocked, Workers, locals
  <2>3. CASE StopStep
    <3>1. /\ pc["start"]' = pc["start"] /\ stop["start"]' = stop["start"]
          /\ UNCHANGED told
      BY <2>0, <2>3 DEF StopStep, StopConnect, DownRead, DownWrite, DownZero, DownStop,
             HvOff, HvOffStay, Return, Goto, locals, Workers
    <3> QED
      BY <3>1 DEF CancelInv
  <2>4. CASE UNCHANGED vars
    BY <2>4 DEF vars, locals, CancelInv
  <2> QED
    BY <2>1, <2>2, <2>3, <2>4, CancelStart DEF Next, TypeOK
<1>3. CancelInv => CancelTakesEffect
  BY DEF CancelInv, CancelTakesEffect
<1> QED
  BY <1>1, <1>2, <1>3, Typing, RampInvariance, PTL DEF Spec
-----------------------------------------------------------------------------
(* The closing sequences.  A worker that has not met the other one is      *)
(* alone, so nothing disturbs what its last writes leave in the PCS.       *)

Alone == /\ ~met["start"] => pc["stop"] = "idle"
         /\ ~met["stop"] => pc["start"] = "idle"

StartLeaves ==
    ~lost["start"] /\ ~met["start"] =>
       /\ pc["start"] = "emStop" => setpoint = 0
       /\ pc["start"] = "idle" /\ outcome["start"] = "fail" =>
             setpoint = 0 /\ ordered = "stop"

StopLeaves ==
    ~lost["stop"] /\ ~met["stop"] =>
       /\ pc["stop"] \in {"downStop", "hvOff", "hvOffStay"} => setpoint = 0
       /\ pc["stop"] \in {"hvOff", "hvOffStay"} /\ settings["stop"].autoStop => ordered = "stop"
       /\ pc["stop"] = "idle" /\ outcome["stop"] = "ok" =>
             setpoint = 0 /\ (settings["stop"].autoStop => ordered = "stop")

ClosingInv == Alone /\ StartLeaves /\ StopLeaves

\* A step of one worker leaves the other one's thread alone.
LEMMA StartKeeps ==
    ASSUME ThreadType, StartStep
    PROVE  /\ pc["stop"]' = pc["stop"] /\ outcome["stop"]' = outcome["stop"]
           /\ lost["stop"]' = lost["stop"] /\ pc["start"] # "idle"
           /\ UNCHANGED <<met, settings>>
<1>1. pc["stop"]' = pc["stop"] /\ outcome["stop"]' = outcome["stop"] /\ pc["start"] # "idle"
  BY DEF ThreadType, Workers, StartStep, StartPrechecks, HvOn, HvWait, HvStay, PcsStart,
         PcsWait, RampBegin, RampTop, RampSafety, Reduced, RampFails, RampWrite, RampSleep, Monitor, StartDone,
         Return, EmergencyZero, EmergencyStop, Goto, Fail
<1>2. lost["stop"]' = lost["stop"]
  BY DEF ThreadType, Workers, StartStep, StartPrechecks, HvOn, HvWait, HvStay, PcsStart,
         PcsWait, RampBegin, RampTop, RampSafety, RampWrite, RampSleep, Monitor, StartDone,
         EmergencyZero, EmergencyStop, Lose
<1> QED
  BY <1>1, <1>2, SettingsKept

LEMMA StopKeeps ==
    ASSUME ThreadType, StopStep
    PROVE  /\ pc["start"]' = pc["start"] /\ outcome["start"]' = outcome["start"]
           /\ lost["start"]' = lost["start"] /\ pc["stop"] # "idle"
           /\ UNCHANGED <<met, settings>>
<1>1. pc["start"]' = pc["start"] /\ outcome["start"]' = outcome["start"] /\ pc["stop"] # "idle"
  BY DEF ThreadType, Workers, StopStep, StopConnect, DownRead, DownWrite, DownZero, DownStop,
         HvOff, HvOffStay, Return, Goto
<1>2. lost["start"]' = lost["start"]
  BY DEF ThreadType, Workers, StopStep, StopConnect, DownRead, DownWrite, DownZero, DownStop,
         HvOff, HvOffStay, Lose
<1> QED
  BY <1>1, <1>2, SettingsKept

LEMMA ClosingStart ==
    ASSUME ThreadType, ClosingInv, StartStep
    PROVE  ClosingInv'
<1>1. Alone'
  BY StartKeeps DEF ClosingInv, Alone
<1>2. StopLeaves'
  BY StartKeeps DEF ClosingInv, Alone, StopLeaves
<1>3. StartLeaves'
  <2>0. /\ pc \in [Workers -> {"idle", "connect"} \cup StartLabels \cup StopLabels]
        /\ outcome \in [Workers -> {"none", "ok", "fail"}]
        /\ lost \in [Workers -> BOOLEAN] /\ "start" \in Workers
    BY DEF ThreadType, Workers
  <2>1. CASE EmergencyZero
    BY <2>0, <2>1, WholeFacts DEF EmergencyZero, Goto, SetPower, Lose, StartLeaves
  <2>2. CASE EmergencyStop
    BY <2>0, <2>2, StartKeeps DEF EmergencyStop, Return, Lose, StartLeaves, ClosingInv
  <2>3. CASE ~EmergencyZero /\ ~EmergencyStop
    <3>1. pc["start"]' # "emStop"
          /\ (pc["start"]' = "idle" => outcome["start"]' = "ok")
      BY <2>0, <2>3 DEF StartStep, StartPrechecks, HvOn, HvWait, HvStay, PcsStart,
         PcsWait, RampBegin, RampTop, RampSafety, Reduced, RampFails, RampWrite, RampSleep, Monitor, StartDone,
         Return, Goto, Fail
    <3> QED
      BY <3>1 DEF StartLeaves
  <2> QED
    BY <2>1, <2>2, <2>3
<1> QED
  BY <1>1, <1>2, <1>3 DEF ClosingInv

LEMMA ClosingStop ==
    ASSUME ThreadType, ClosingInv, StopStep
    PROVE  ClosingInv'
<1>1. Alone'
  BY StopKeeps DEF ClosingInv, Alone
<1>2. StartLeaves'
  BY StopKeeps DEF ClosingInv, Alone, StartLeaves
<1>3. StopLeaves'
  <2>0. /\ pc \in [Workers -> {"idle", "connect"} \cup StartLabels \cup StopLabels]
        /\ outcome \in [Workers -> {"none", "ok", "fail"}]
        /\ lost \in [Workers -> BOOLEAN] /\ "stop" \in Workers
        /\ UNCHANGED <<met, settings>>
    BY StopKeeps DEF ThreadType, Workers
  <2>1. CASE StopConnect \/ DownRead \/ DownWrite
    <3>1. pc["stop"]' \notin {"downStop", "hvOff", "hvOffStay"}
          /\ (pc["stop"]' = "idle" => outcome["stop"]' = "fail")
      BY <2>0, <2>1 DEF StopConnect, DownRead, DownWrite, Goto, Return
    <3> QED
      BY <3>1 DEF StopLeaves
  <2>2. CASE DownZero
    BY <2>0, <2>2 DEF DownZero, Goto, Lose, StopLeaves
  <2>3. CASE DownStop
    <3>1. pc["stop"] = "downStop" /\ UNCHANGED setpoint
      BY <2>3 DEF DownStop
    <3>2. lost["stop"]' \/ (~lost["stop"]' /\ ~lost["stop"]
                            /\ (settings["stop"].autoStop => ordered' = "stop"))
      BY <2>0, <2>3 DEF DownStop, Lose
    <3> QED
      BY <2>0, <3>1, <3>2 DEF StopLeaves, ClosingInv
  <2>4. CASE HvOff \/ HvOffStay
    <3>1. /\ pc["stop"] \in {"hvOff", "hvOffStay"} /\ UNCHANGED <<setpoint, ordered, lost>>
      BY <2>4 DEF HvOff, HvOffStay
    <3> QED
      BY <2>0, <3>1 DEF StopLeaves, ClosingInv
  <2> QED
    BY <2>1, <2>2, <2>3, <2>4 DEF StopStep
<1> QED
  BY <1>1, <1>2, <1>3 DEF ClosingInv

LEMMA ClosingInvariance == Spec => []ClosingInv
<1>1. Init => ClosingInv
  BY DEF Init, ClosingInv, Alone, StartLeaves, StopLeaves, Workers
<1>2. TypeOK /\ ClosingInv /\ [Next]_vars => ClosingInv'
  <2> SUFFICES ASSUME TypeOK, ClosingInv, [Next]_vars PROVE ClosingInv'
    OBVIOUS
  <2>0. /\ pc \in [Workers -> {"idle", "connect"} \cup StartLabels \cup StopLabels]
        /\ outcome \in [Workers -> {"none", "ok", "fail"}]
        /\ lost \in [Workers -> BOOLEAN] /\ ThreadType
    BY DEF TypeOK, ThreadType
  <2>1. ASSUME NEW s, Launch("start", s) PROVE ClosingInv'
    BY <2>0, <2>1 DEF Launch, Live, Other, ClosingInv, Alone, StartLeaves, StopLeaves, Workers
  <2>2. ASSUME NEW s, Launch("stop", s) PROVE ClosingInv'
    BY <2>0, <2>2 DEF Launch, Live, Other, ClosingInv, Alone, StartLeaves, StopLeaves, Workers
  <2>3. CASE Cancel \/ LimitsChange
    BY <2>3 DEF Cancel, LimitsChange, device, ClosingInv, Alone, StartLeaves, StopLeaves
  <2>4. CASE UNCHANGED vars
    BY <2>4 DEF vars, device, ClosingInv, Alone, StartLeaves, StopLeaves
  <2> QED
    BY <2>0, <2>1, <2>2, <2>3, <2>4, ClosingStart, ClosingStop DEF Next, Workers
<1> QED
  BY <1>1, <1>2, Typing, PTL DEF Spec

\* A start workflow that failed leaves the PCS at zero and stopped.
THEOREM FailedStart == Spec => []FailedStartIsSafe
<1>1. ClosingInv => FailedStartIsSafe
  BY DEF ClosingInv, StartLeaves, FailedStartIsSafe
<1> QED
  BY <1>1, ClosingInvariance, PTL

\* A stop workflow that succeeded leaves the PCS at zero and stopped.
THEOREM SuccessfulStop == Spec => []StoppedMeansStopped
<1>1. ClosingInv => StoppedMeansStopped
  BY DEF ClosingInv, StopLeaves, StoppedMeansStopped
<1> QED
  BY <1>1, ClosingInvariance, PTL

\* While it monitors, the PCS holds what the start workflow recorded last.
HoldsLast == pc["start"] \in {"monitor", "monitored"} /\ ~met["start"] => setpoint = WholeKw(last)

LEMMA HeldByStart ==
    ASSUME ThreadType, HoldsLast, StartStep
    PROVE  HoldsLast'
<1>0. pc \in [Workers -> {"idle", "connect"} \cup StartLabels \cup StopLabels]
      /\ "start" \in Workers /\ met' = met
  BY SettingsKept DEF ThreadType, Workers
<1>1. CASE RampBegin \/ RampWrite \/ Monitor
  BY <1>0, <1>1 DEF RampBegin, RampWrite, RampFails, Monitor, Reduced, Goto, Fail, SetPower,
                    HoldsLast
<1>2. CASE ~(RampBegin \/ RampWrite \/ Monitor)
  <2>1. pc["start"]' \notin {"monitor", "monitored"}
    BY <1>0, <1>2 DEF StartStep, StartPrechecks, HvOn, HvWait, HvStay, PcsStart, PcsWait,
       RampTop, RampSafety, Reduced, RampFails, RampSleep, StartDone, Return, EmergencyZero,
       EmergencyStop, Goto, Fail
  <2> QED
    BY <2>1 DEF HoldsLast
<1> QED
  BY <1>1, <1>2

LEMMA Held == Spec => []HoldsLast
<1>1. Init => HoldsLast
  BY DEF Init, HoldsLast, Workers
<1>2. TypeOK /\ ClosingInv /\ HoldsLast /\ [Next]_vars => HoldsLast'
  <2> SUFFICES ASSUME TypeOK, ClosingInv, HoldsLast, [Next]_vars PROVE HoldsLast'
    OBVIOUS
  <2>0. /\ pc \in [Workers -> {"idle", "connect"} \cup StartLabels \cup StopLabels]
        /\ ThreadType
    BY DEF TypeOK, ThreadType
  <2>1. ASSUME NEW a \in Workers, NEW s, Launch(a, s) PROVE HoldsLast'
    BY <2>0, <2>1 DEF Launch, Live, Other, HoldsLast, Workers, locals, device
  <2>2. CASE Cancel \/ LimitsChange
    BY <2>2 DEF Cancel, LimitsChange, locals, device, HoldsLast
  <2>3. CASE StopStep
    BY <2>0, <2>3, StopKeeps DEF HoldsLast, ClosingInv, Alone
  <2>4. CASE UNCHANGED vars
    BY <2>4 DEF vars, locals, device, HoldsLast
  <2> QED
    BY <2>0, <2>1, <2>2, <2>3, <2>4, HeldByStart DEF Next
<1> QED
  BY <1>1, <1>2, Typing, ClosingInvariance, PTL DEF Spec

\* What a safety check does to the power commanded last.
LEMMA CheckReduces ==
    ASSUME NEW before \in Int, NEW allowed \in Nat, allowed # NoNumber, NEW follow \in BOOLEAN
    PROVE  LET after == Clamp(before, allowed, follow)
           IN  /\ Abs(after) <= allowed
               /\ 2 * Abs(after) >= 2 * Abs(before) - UnitsPerKw
                     => 2 * Abs(before) <= 2 * allowed + UnitsPerKw
  BY UnitAssumption DEF Clamp, Abs, NoNumber

\* A safety check of the monitoring leaves the PCS within the limit it has read.
THEOREM LimitKept == Spec => LimitIsKept
<1>1. ASSUME TypeOK, HoldsLast, pc'["start"] = "monitored", StartStep, S.clamp, ~met["start"],
             AllowedPower(limits) # NoNumber
      PROVE  UnitsPerKw * Abs(setpoint') <= AllowedPower(limits) + UnitsPerKw
  <2> DEFINE allowed == AllowedPower(limits)
  <2>0. /\ allowed \in Nat /\ last \in Int /\ Adjusted \in Int /\ S.follow \in BOOLEAN
        /\ UnitsPerKw \in Nat \ {0} /\ allowed # NoNumber
    BY <1>1, AllowedIsNat, SettingsTyped, PowersTyped, UnitAssumption DEF TypeOK, PowerType
  <2>1. Monitor
    BY <1>1 DEF TypeOK, ThreadType, Workers, StartStep, StartPrechecks, HvOn, HvWait, HvStay,
       PcsStart, PcsWait, RampBegin, RampTop, RampSafety, Reduced, RampFails, RampWrite,
       RampSleep, StartDone, Return, EmergencyZero, EmergencyStop, Goto, Fail
  <2>2. setpoint = WholeKw(last)
    BY <1>1, <2>1 DEF HoldsLast, Monitor
  <2>3. \/ setpoint' = WholeKw(Adjusted)
        \/ ~MustReduce /\ setpoint' = setpoint
    BY <1>1, <2>1 DEF Monitor, Reduced, SetPower, Goto, Fail, TypeOK, ThreadType, Workers
  <2>4. /\ Abs(Adjusted) <= allowed
        /\ 2 * Abs(Adjusted) >= 2 * Abs(last) - UnitsPerKw
              => 2 * Abs(last) <= 2 * allowed + UnitsPerKw
    <3> HIDE DEF allowed
    <3>1. Adjusted = Clamp(last, allowed, S.follow)
      BY DEF Adjusted, allowed
    <3> QED
      BY <2>0, <3>1, CheckReduces
  <2>5. \E x \in Int : setpoint' = WholeKw(x) /\ 2 * Abs(x) <= 2 * allowed + UnitsPerKw
    <3> HIDE DEF allowed
    <3>0. Abs(Adjusted) \in Int /\ Abs(last) \in Int
      BY <2>0 DEF Abs
    <3>1. CASE setpoint' = WholeKw(Adjusted)
      BY <2>0, <2>4, <3>0, <3>1
    <3>2. CASE ~MustReduce /\ setpoint' = setpoint
      <4>1. 2 * Abs(last) <= 2 * allowed + UnitsPerKw
        <5>1. CASE Negligible(last)
          BY <2>0, <3>0, <5>1 DEF Negligible
        <5>2. CASE ~Negligible(last)
          BY <1>1, <2>0, <2>4, <3>0, <3>2, <5>2 DEF MustReduce
        <5> QED
          BY <5>1, <5>2
      <4> QED
        BY <2>0, <2>2, <3>2, <4>1
    <3> QED
      BY <2>3, <3>1, <3>2
  <2>6. PICK x \in Int : setpoint' = WholeKw(x) /\ 2 * Abs(x) <= 2 * allowed + UnitsPerKw
    BY <2>5
  <2>7. 2 * UnitsPerKw * Abs(WholeKw(x)) <= 2 * Abs(x) + UnitsPerKw /\ WholeKw(x) \in Int
    BY WholeFacts
  <2> DEFINE n == Abs(WholeKw(x))
  <2>8. n \in Nat /\ Abs(x) \in Nat /\ 2 * UnitsPerKw * n = 2 * (UnitsPerKw * n)
        /\ UnitsPerKw * n \in Int
    <3>1. n \in Nat /\ Abs(x) \in Nat
      BY <2>7 DEF Abs
    <3> HIDE DEF n
    <3> QED
      BY <2>0, <3>1
  <2> HIDE DEF allowed
  <2>9. UnitsPerKw * n <= allowed + UnitsPerKw
    <3>1. 2 * (UnitsPerKw * n) <= 2 * Abs(x) + UnitsPerKw
      BY <2>7, <2>8
    <3> HIDE DEF n
    <3> QED
      BY <2>0, <2>6, <2>8, <3>1
  <2> QED
    BY <2>6, <2>9 DEF allowed
<1>2. TypeOK /\ HoldsLast /\ [Next]_vars
        => [pc'["start"] = "monitored" /\ StartStep /\ S.clamp /\ ~met["start"]
              /\ AllowedPower(limits) # NoNumber
            => UnitsPerKw * Abs(setpoint') <= AllowedPower(limits) + UnitsPerKw]_vars
  BY <1>1
<1> QED
  BY <1>2, Typing, Held, PTL DEF Spec, LimitIsKept
-----------------------------------------------------------------------------
LEMMA Smallest ==
    ASSUME NEW T \in SUBSET Nat, T # {}
    PROVE  \E i \in T : \A j \in T : i <= j
<1>1. \E x \in T : \A y \in T : ~ (<<y, x>> \in OpToRel(<, Nat))
  BY NatLessThanWellFounded, WFMin
<1>2. PICK x \in T : \A y \in T : ~ (<<y, x>> \in OpToRel(<, Nat))
  BY <1>1
<1>3. ASSUME NEW y \in T PROVE x <= y
  <2>1. x \in Nat /\ y \in Nat
    OBVIOUS
  <2>2. ~(y < x)
    BY <1>2, <2>1 DEF OpToRel
  <2> QED
    BY <2>1, <2>2
<1> QED
  BY <1>3

\* Induction, said of a set of numbers.
LEMMA Induction ==
    ASSUME NEW T \in SUBSET Nat, 0 \in T, \A n \in T : n + 1 \in T
    PROVE  T = Nat
<1> SUFFICES ASSUME Nat \ T # {} PROVE FALSE
  OBVIOUS
<1>1. PICK n \in Nat \ T : \A j \in Nat \ T : n <= j
  BY Smallest
<1>2. n # 0 /\ n - 1 \in Nat
  BY <1>1
<1>3. n - 1 \in T
  BY <1>1, <1>2
<1> QED
  BY <1>1, <1>2, <1>3

\* The PCS that a loop takes next is one it has not taken yet.
LEMMA FirstIsLeft ==
    ASSUME NEW todo \in SUBSET Pcs, todo # {}
    PROVE  First(todo) \in todo
<1> DEFINE I == {i \in DOMAIN Cluster : Cluster[i] \in todo}
<1>1. I # {} /\ I \in SUBSET DOMAIN Cluster
  BY DEF Pcs, Range
<1>2. I \in SUBSET Nat
  BY <1>1, ClusterAssumption
<1>3. Min(I) \in I
  <2>1. \E i \in I : \A j \in I : i <= j
    BY <1>1, <1>2, Smallest
  <2> HIDE DEF I
  <2> QED
    BY <2>1 DEF Min
<1> QED
  BY <1>3 DEF First

LEMMA PcsFinite == IsFiniteSet(Pcs) /\ Pcs # {}
<1> DEFINE n == Len(Cluster)
<1>1. n \in Nat /\ Cluster \in [1..n -> Pcs] /\ Cluster # <<>>
  BY ClusterAssumption
<1>2. n # 0
  BY ClusterAssumption, <1>1, EmptySeq
<1>3. IsFiniteSet(1..n)
  BY <1>1, FS_Interval
<1>4. \A p \in Pcs : \E i \in 1..n : Cluster[i] = p
  <2>1. DOMAIN Cluster = 1..n
    BY <1>1
  <2> QED
    BY <2>1 DEF Pcs, Range
<1>5. Cluster \in Surjection(1..n, Pcs)
  BY <1>1, <1>4, Fun_IsSurj
<1>6. 1 \in 1..n
  BY <1>1, <1>2
<1>7. Cluster[1] \in Pcs
  BY <1>1, <1>6
<1> QED
  BY <1>3, <1>5, <1>7, FS_Surjection
-----------------------------------------------------------------------------
\* A sum over a set takes its elements in some order, one after the other.
OneOf(s) == CHOOSE x \in s : TRUE
Sums(it, f, A) ==
    \A s \in SUBSET A : it[s] = IF s = {} THEN 0 ELSE f[OneOf(s)] + it[s \ {OneOf(s)}]

LEMMA OneOfIn == ASSUME NEW s, s # {} PROVE OneOf(s) \in s
<1>1. \E x \in s : TRUE
  OBVIOUS
<1> QED
  BY <1>1 DEF OneOf

\* Induction on the subsets of a finite set.
LEMMA AllSubsets ==
    ASSUME NEW A, IsFiniteSet(A), NEW T \in SUBSET SUBSET A, {} \in T,
           \A s \in SUBSET A : s # {} /\ (\A x \in s : s \ {x} \in T) => s \in T
    PROVE  T = SUBSET A
<1> DEFINE N == {n \in Nat : \A s \in SUBSET A : Cardinality(s) <= n => s \in T}
<1>1. \A s \in SUBSET A : IsFiniteSet(s) /\ Cardinality(s) \in Nat
  BY FS_Subset, FS_CardinalityType
<1>2. 0 \in N
  <2> SUFFICES ASSUME NEW s \in SUBSET A, Cardinality(s) <= 0 PROVE s \in T
    OBVIOUS
  <2>1. Cardinality(s) = 0
    BY <1>1
  <2>2. s = {}
    BY <1>1, <2>1, FS_EmptySet
  <2>3. {} \in T
    OBVIOUS
  <2> QED
    BY <2>2, <2>3
<1>3. ASSUME NEW n \in N PROVE n + 1 \in N
  <2> SUFFICES ASSUME NEW s \in SUBSET A, Cardinality(s) <= n + 1 PROVE s \in T
    OBVIOUS
  <2>1. ASSUME NEW x \in s PROVE s \ {x} \in T
    <3>1. Cardinality(s \ {x}) = Cardinality(s) - 1
      BY <1>1, FS_RemoveElement
    <3>2. s \ {x} \in SUBSET A /\ Cardinality(s \ {x}) <= n
      BY <1>1, <3>1
    <3> QED
      BY <3>2
  <2>2. CASE s = {}
    <3>1. {} \in T
      OBVIOUS
    <3> QED
      BY <2>2, <3>1
  <2>3. CASE s # {}
    BY <2>1, <2>3
  <2> QED
    BY <2>2, <2>3
<1>4. N = Nat
  <2>1. N \in SUBSET Nat
    OBVIOUS
  <2> HIDE DEF N
  <2> QED
    BY <1>2, <1>3, <2>1, Induction
<1>5. ASSUME NEW s \in SUBSET A PROVE s \in T
  <2>1. Cardinality(s) \in N
    BY <1>1, <1>4
  <2> QED
    BY <1>1, <2>1
<1> QED
  BY <1>5

LEMMA SubsetInduction ==
    ASSUME NEW A, IsFiniteSet(A), NEW T \in SUBSET SUBSET A, {} \in T,
           \A s \in SUBSET A : s # {} /\ s \ {OneOf(s)} \in T => s \in T
    PROVE  T = SUBSET A
<1>1. \A s \in SUBSET A : s # {} /\ (\A x \in s : s \ {x} \in T) => s \in T
  BY OneOfIn
<1> QED
  BY <1>1, AllSubsets

LEMMA SumsExist ==
    ASSUME NEW A, IsFiniteSet(A), NEW f, \A p \in A : f[p] \in Int
    PROVE  \E it \in [SUBSET A -> Int] : Sums(it, f, A)
<1> DEFINE D(n) == {s \in SUBSET A : Cardinality(s) <= n}
           Eq(it, s) == IF s = {} THEN 0 ELSE f[OneOf(s)] + it[s \ {OneOf(s)}]
           T == {n \in Nat : \E it \in [D(n) -> Int] : \A s \in D(n) : it[s] = Eq(it, s)}
<1>1. \A s \in SUBSET A : IsFiniteSet(s) /\ Cardinality(s) \in Nat
  BY FS_Subset, FS_CardinalityType
<1>2. ASSUME NEW s \in SUBSET A, s # {}
      PROVE  /\ OneOf(s) \in A /\ s \ {OneOf(s)} \in SUBSET A
             /\ Cardinality(s \ {OneOf(s)}) = Cardinality(s) - 1
  <2>1. OneOf(s) \in s
    BY <1>2, OneOfIn
  <2>2. Cardinality(s \ {OneOf(s)}) = Cardinality(s) - 1
    BY <1>1, <2>1, FS_RemoveElement
  <2> QED
    BY <2>1, <2>2
<1>3. 0 \in T
  <2> DEFINE it == [s \in D(0) |-> 0]
  <2>1. \A s \in D(0) : s = {}
    <3> TAKE s \in D(0)
    <3>1. Cardinality(s) = 0
      BY <1>1
    <3> QED
      BY <1>1, <3>1, FS_EmptySet
  <2>2. \A s \in D(0) : it[s] = Eq(it, s)
    BY <2>1
  <2>3. it \in [D(0) -> Int]
    OBVIOUS
  <2> HIDE DEF it, D, Eq
  <2> QED
    BY <2>2, <2>3
<1>4. ASSUME NEW n \in T PROVE n + 1 \in T
  <2>1. PICK old \in [D(n) -> Int] : \A s \in D(n) : old[s] = Eq(old, s)
    OBVIOUS
  <2> DEFINE it == [s \in D(n + 1) |-> Eq(old, s)]
  <2>2. ASSUME NEW s \in D(n + 1), s # {} PROVE s \ {OneOf(s)} \in D(n)
    <3>1. s \in SUBSET A /\ Cardinality(s) <= n + 1 /\ Cardinality(s) \in Nat
      BY <1>1
    <3> QED
      BY <1>2, <2>2, <3>1
  <2>3. it \in [D(n + 1) -> Int]
    <3> SUFFICES ASSUME NEW s \in D(n + 1) PROVE Eq(old, s) \in Int
      OBVIOUS
    <3>1. CASE s = {}
      BY <3>1
    <3>2. CASE s # {}
      <4>1. f[OneOf(s)] \in Int /\ old[s \ {OneOf(s)}] \in Int
        BY <1>2, <2>2, <3>2
      <4> QED
        BY <3>2, <4>1
    <3> QED
      BY <3>1, <3>2
  <2>4. \A s \in D(n) : s \in D(n + 1)
    <3> TAKE s \in D(n)
    <3>1. Cardinality(s) \in Nat
      BY <1>1
    <3> QED
      BY <3>1
  <2>5. ASSUME NEW s \in D(n + 1) PROVE it[s] = Eq(it, s)
    <3>1. CASE s = {}
      BY <3>1
    <3>2. CASE s # {}
      <4> DEFINE r == s \ {OneOf(s)}
      <4>1. r \in D(n)
        BY <2>2, <3>2
      <4>2. it[r] = Eq(old, r) /\ old[r] = Eq(old, r)
        BY <2>1, <2>4, <4>1
      <4> HIDE DEF r, D
      <4>3. it[s] = f[OneOf(s)] + old[r]
        BY <3>2 DEF r
      <4> QED
        BY <3>2, <4>2, <4>3 DEF r
    <3> QED
      BY <3>1, <3>2
  <2> HIDE DEF it, D, Eq
  <2>6. n + 1 \in Nat
    OBVIOUS
  <2> QED
    BY <2>3, <2>5, <2>6
<1>5. T = Nat
  <2> HIDE DEF T
  <2>1. T \in SUBSET Nat
    BY DEF T
  <2> QED
    BY <1>3, <1>4, <2>1, Induction
<1>6. Cardinality(A) \in Nat
  BY FS_CardinalityType
<1>7. D(Cardinality(A)) = SUBSET A
  <2>1. \A s \in SUBSET A : Cardinality(s) <= Cardinality(A)
    BY FS_Subset
  <2> QED
    BY <2>1
<1>8. PICK it \in [D(Cardinality(A)) -> Int] : \A s \in D(Cardinality(A)) : it[s] = Eq(it, s)
  <2>1. Cardinality(A) \in T
    BY <1>5, <1>6
  <2> HIDE DEF D, Eq
  <2> QED
    BY <2>1
<1>9. it \in [SUBSET A -> Int] /\ \A s \in SUBSET A : it[s] = Eq(it, s)
  <2> HIDE DEF D, Eq
  <2> QED
    BY <1>7, <1>8
<1> QED
  BY <1>9 DEF Sums

LEMMA SumsGive ==
    ASSUME NEW A, IsFiniteSet(A), NEW f, \A p \in A : f[p] \in Int
    PROVE  \E it \in [SUBSET A -> Int] : Sums(it, f, A) /\ SumOf(f, A) = it[A]
<1> DEFINE Eq(it) == [s \in SUBSET A |-> IF s = {} THEN 0 ELSE f[OneOf(s)] + it[s \ {OneOf(s)}]]
           iter == CHOOSE it : it = Eq(it)
<1>1. PICK some \in [SUBSET A -> Int] : Sums(some, f, A)
  BY SumsExist
<1>2. some = Eq(some)
  BY <1>1 DEF Sums
<1>3. iter = Eq(iter)
  <2>1. \E it : it = Eq(it)
    BY <1>2
  <2> QED
    BY <2>1
<1>4. SumOf(f, A) = iter[A]
  BY DEF SumOf, MapThenSumSet, MapThenFoldSet, OneOf
<1> HIDE DEF iter
<1> DEFINE T == {s \in SUBSET A : iter[s] = some[s]}
<1>5. ASSUME NEW s \in SUBSET A, s # {}, s \ {OneOf(s)} \in T PROVE s \in T
  <2>1. iter[s] = f[OneOf(s)] + iter[s \ {OneOf(s)}]
    BY <1>3, <1>5
  <2>2. some[s] = f[OneOf(s)] + some[s \ {OneOf(s)}]
    BY <1>1, <1>5 DEF Sums
  <2> QED
    BY <1>5, <2>1, <2>2
<1>6. {} \in T
  <2>1. {} \in SUBSET A
    OBVIOUS
  <2> QED
    BY <1>1, <1>3, <2>1 DEF Sums
<1>7. T = SUBSET A
  <2> HIDE DEF T
  <2>1. T \in SUBSET SUBSET A
    BY DEF T
  <2> QED
    BY <1>5, <1>6, <2>1, SubsetInduction
<1>8. iter[A] = some[A]
  BY <1>7
<1> QED
  BY <1>1, <1>4, <1>8

\* Two sums whose terms stand in a proportion stand in it themselves, but for
\* what each term may be off.
LEMMA SumsClose ==
    ASSUME NEW A, IsFiniteSet(A), NEW f, NEW g, \A p \in A : f[p] \in Int /\ g[p] \in Int,
           NEW a \in Int, NEW t \in Int, NEW lo \in Int, NEW hi \in Int,
           \A p \in A : lo <= a * f[p] - t * g[p] /\ a * f[p] - t * g[p] <= hi
    PROVE  /\ SumOf(f, A) \in Int /\ SumOf(g, A) \in Int
           /\ lo * Cardinality(A) <= a * SumOf(f, A) - t * SumOf(g, A)
           /\ a * SumOf(f, A) - t * SumOf(g, A) <= hi * Cardinality(A)
<1>1. PICK u \in [SUBSET A -> Int] : Sums(u, f, A) /\ SumOf(f, A) = u[A]
  BY SumsGive
<1>2. PICK v \in [SUBSET A -> Int] : Sums(v, g, A) /\ SumOf(g, A) = v[A]
  BY SumsGive
<1> DEFINE Close(s) == /\ lo * Cardinality(s) <= a * u[s] - t * v[s]
                       /\ a * u[s] - t * v[s] <= hi * Cardinality(s)
           T == {s \in SUBSET A : Close(s)}
<1>3. \A s \in SUBSET A : IsFiniteSet(s) /\ Cardinality(s) \in Nat
  BY FS_Subset, FS_CardinalityType
<1>4. {} \in T
  <2>1. u[{}] = 0 /\ v[{}] = 0
    BY <1>1, <1>2 DEF Sums
  <2>2. Cardinality({}) = 0
    BY FS_EmptySet
  <2> QED
    BY <2>1, <2>2
<1>5. ASSUME NEW s \in SUBSET A, s # {}, s \ {OneOf(s)} \in T PROVE s \in T
  <2> DEFINE p == OneOf(s)
             r == s \ {p}
  <2>1. p \in s /\ r \in SUBSET A
    BY <1>5, OneOfIn
  <2>2. u[s] = f[p] + u[r] /\ v[s] = g[p] + v[r]
    BY <1>1, <1>2, <1>5 DEF Sums
  <2>3. Cardinality(s) = Cardinality(r) + 1 /\ Cardinality(r) \in Nat
    BY <1>3, <2>1, FS_RemoveElement
  <2>4. lo <= a * f[p] - t * g[p] /\ a * f[p] - t * g[p] <= hi
    BY <2>1
  <2>5. Close(r)
    BY <1>5
  <2>6. f[p] \in Int /\ g[p] \in Int /\ u[r] \in Int /\ v[r] \in Int
    BY <2>1
  <2> HIDE DEF p, r
  <2>7. a * u[s] = a * f[p] + a * u[r] /\ t * v[s] = t * g[p] + t * v[r]
    BY <2>2, <2>6
  <2>8. lo * Cardinality(s) = lo * Cardinality(r) + lo
        /\ hi * Cardinality(s) = hi * Cardinality(r) + hi
    <3> DEFINE n == Cardinality(r)
    <3>1. n \in Nat /\ Cardinality(s) = n + 1
      BY <2>3
    <3> HIDE DEF n
    <3>2. lo * (n + 1) = lo * n + lo /\ hi * (n + 1) = hi * n + hi
      BY <3>1
    <3> QED
      BY <3>1, <3>2 DEF n
  <2>9. Close(s)
    <3> DEFINE x1 == a * f[p]
               x2 == a * u[r]
               x3 == t * g[p]
               x4 == t * v[r]
               x5 == lo * Cardinality(r)
               x6 == hi * Cardinality(r)
    <3>1. x1 \in Int /\ x2 \in Int /\ x3 \in Int /\ x4 \in Int /\ x5 \in Int /\ x6 \in Int
      BY <2>3, <2>6
    <3>2. x5 <= x2 - x4 /\ x2 - x4 <= x6 /\ lo <= x1 - x3 /\ x1 - x3 <= hi
      BY <2>4, <2>5
    <3>3. a * u[s] = x1 + x2 /\ t * v[s] = x3 + x4
         /\ lo * Cardinality(s) = x5 + lo
         /\ hi * Cardinality(s) = x6 + hi
      BY <2>7, <2>8
    <3> HIDE DEF x1, x2, x3, x4, x5, x6
    <3> QED
      BY <3>1, <3>2, <3>3
  <2> QED
    BY <2>9
<1>6. T = SUBSET A
  <2> HIDE DEF T
  <2>1. T \in SUBSET SUBSET A
    BY DEF T
  <2> QED
    BY <1>4, <1>5, <2>1, SubsetInduction
<1>7. Close(A)
  <2>1. A \in SUBSET A
    OBVIOUS
  <2> QED
    BY <1>6, <2>1
<1>8. u[A] \in Int /\ v[A] \in Int
  OBVIOUS
<1> QED
  BY <1>1, <1>2, <1>7, <1>8

LEMMA SumOfNaturals ==
    ASSUME NEW A, IsFiniteSet(A), NEW f, \A p \in A : f[p] \in Nat
    PROVE  SumOf(f, A) \in Nat /\ \A p \in A : f[p] <= SumOf(f, A)
<1>0. \A p \in A : f[p] \in Int
  OBVIOUS
<1>1. PICK u \in [SUBSET A -> Int] : Sums(u, f, A) /\ SumOf(f, A) = u[A]
  BY <1>0, SumsGive
<1> DEFINE Covers(s) == u[s] \in Nat /\ \A p \in s : f[p] <= u[s]
           T == {s \in SUBSET A : Covers(s)}
<1>2. {} \in T
  <2>1. u[{}] = 0
    BY <1>1 DEF Sums
  <2> QED
    BY <2>1
<1>3. ASSUME NEW s \in SUBSET A, s # {}, s \ {OneOf(s)} \in T PROVE s \in T
  <2> DEFINE p == OneOf(s)
             r == s \ {p}
  <2>1. p \in s /\ r \in SUBSET A
    BY <1>3, OneOfIn
  <2>2. u[s] = f[p] + u[r]
    BY <1>1, <1>3 DEF Sums
  <2>3. Covers(r)
    BY <1>3
  <2>4. f[p] \in Nat /\ u[r] \in Nat
    BY <2>1, <2>3
  <2>5. \A q \in s : f[q] <= u[s]
    <3> TAKE q \in s
    <3>1. f[q] \in Nat
      OBVIOUS
    <3>2. CASE q = p
      <4> HIDE DEF p, r
      <4> QED
        BY <2>2, <2>4, <3>2
    <3>3. CASE q # p
      <4>1. f[q] <= u[r]
        BY <2>3, <3>3
      <4> HIDE DEF p, r
      <4> QED
        BY <2>2, <2>4, <3>1, <4>1
    <3> QED
      BY <3>2, <3>3
  <2>6. u[s] \in Nat
    <3> HIDE DEF p, r
    <3> QED
      BY <2>2, <2>4
  <2> QED
    BY <2>5, <2>6
<1>4. T = SUBSET A
  <2> HIDE DEF T
  <2>1. T \in SUBSET SUBSET A
    BY DEF T
  <2> QED
    BY <1>2, <1>3, <2>1, SubsetInduction
<1>5. Covers(A)
  BY <1>4
<1> QED
  BY <1>1, <1>5

\* The elements may be taken in any order.
Unordered(it, f, A) == \A s \in SUBSET A : \A x \in s : it[s] = f[x] + it[s \ {x}]

LEMMA AnyOrder ==
    ASSUME NEW A, IsFiniteSet(A), NEW f, \A p \in A : f[p] \in Int
    PROVE  \E it \in [SUBSET A -> Int] :
              Sums(it, f, A) /\ SumOf(f, A) = it[A] /\ Unordered(it, f, A)
<1>0. PICK u \in [SUBSET A -> Int] : Sums(u, f, A) /\ SumOf(f, A) = u[A]
  BY SumsGive
<1> DEFINE Any(s) == \A x \in s : u[s] = f[x] + u[s \ {x}]
           T == {s \in SUBSET A : Any(s)}
<1>1. {} \in T
  OBVIOUS
<1>2. ASSUME NEW s \in SUBSET A, s # {}, \A x \in s : s \ {x} \in T PROVE Any(s)
  <2> SUFFICES ASSUME NEW x \in s PROVE u[s] = f[x] + u[s \ {x}]
    OBVIOUS
  <2> DEFINE o == OneOf(s)
             both == s \ {o, x}
  <2>1. o \in s
    BY <1>2, OneOfIn
  <2>2. u[s] = f[o] + u[s \ {o}]
    BY <1>0, <1>2 DEF Sums
  <2> HIDE DEF o
  <2>3. CASE o = x
    BY <2>2, <2>3
  <2>4. CASE o # x
    <3>1. s \ {o} \in T /\ s \ {x} \in T
      BY <1>2, <2>1
    <3>2. (s \ {o}) \ {x} = both /\ (s \ {x}) \ {o} = both /\ both \in SUBSET A
      OBVIOUS
    <3>3. u[s \ {o}] = f[x] + u[both]
      BY <2>4, <3>1, <3>2
    <3>4. u[s \ {x}] = f[o] + u[both]
      BY <2>1, <2>4, <3>1, <3>2
    <3>5. f[o] \in Int /\ f[x] \in Int /\ u[both] \in Int
      BY <2>1, <3>2
    <3> HIDE DEF both
    <3> QED
      BY <2>2, <3>3, <3>4, <3>5
  <2> QED
    BY <2>3, <2>4
<1>3. T = SUBSET A
  <2>1. T \in SUBSET SUBSET A
    OBVIOUS
  <2>2. \A s \in SUBSET A : s # {} /\ (\A x \in s : s \ {x} \in T) => s \in T
    BY <1>2
  <2> HIDE DEF T
  <2> QED
    BY <1>1, <2>1, <2>2, AllSubsets
<1>4. Unordered(u, f, A)
  BY ZenonT(60), <1>3 DEF Unordered
<1> QED
  BY <1>0, <1>4

\* A part of a sum of naturals is not more than the sum.
LEMMA SumOfPart ==
    ASSUME NEW A, IsFiniteSet(A), NEW f, \A p \in A : f[p] \in Nat, NEW B \in SUBSET A
    PROVE  SumOf(f, B) \in Nat /\ SumOf(f, B) <= SumOf(f, A)
<1>1. \A p \in A : f[p] \in Int
  OBVIOUS
<1>2. IsFiniteSet(B) /\ \A p \in B : f[p] \in Int
  BY <1>1, FS_Subset
<1>3. PICK u \in [SUBSET A -> Int] :
        Sums(u, f, A) /\ SumOf(f, A) = u[A] /\ Unordered(u, f, A)
  BY <1>1, AnyOrder
<1>4. PICK v \in [SUBSET B -> Int] : Sums(v, f, B) /\ SumOf(f, B) = v[B]
  BY <1>2, SumsGive
<1>5. v[B] = u[B]
  <2> DEFINE T == {s \in SUBSET B : v[s] = u[s]}
  <2>1. {} \in T
    <3>1. {} \in SUBSET A /\ {} \in SUBSET B
      OBVIOUS
    <3> QED
      BY <1>3, <1>4, <3>1 DEF Sums
  <2>2. ASSUME NEW s \in SUBSET B, s # {}, s \ {OneOf(s)} \in T PROVE s \in T
    <3>1. v[s] = f[OneOf(s)] + v[s \ {OneOf(s)}]
      BY <1>4, <2>2 DEF Sums
    <3>2. u[s] = f[OneOf(s)] + u[s \ {OneOf(s)}]
      BY <1>3, <2>2 DEF Sums
    <3> QED
      BY <2>2, <3>1, <3>2
  <2>3. T = SUBSET B
    <3> HIDE DEF T
    <3>1. T \in SUBSET SUBSET B
      BY DEF T
    <3> QED
      BY <1>2, <2>1, <2>2, <3>1, SubsetInduction
  <2>4. B \in SUBSET B
    OBVIOUS
  <2> QED
    BY <2>3, <2>4
<1> DEFINE Q(s) == u[s] \in Nat /\ \A r \in SUBSET s : u[r] <= u[s]
           T == {s \in SUBSET A : Q(s)}
<1>6. {} \in T
  <2>1. {} \in SUBSET A
    OBVIOUS
  <2>2. u[{}] = 0
    BY <1>3, <2>1 DEF Sums
  <2>3. ASSUME NEW r \in SUBSET {} PROVE u[r] <= u[{}]
    <3>1. r = {}
      OBVIOUS
    <3> QED
      BY <2>2, <3>1
  <2> QED
    BY <2>1, <2>2, <2>3
<1>7. ASSUME NEW s \in SUBSET A, s # {}, s \ {OneOf(s)} \in T PROVE s \in T
  <2> DEFINE o == OneOf(s)
             rest == s \ {o}
  <2>1. o \in s /\ f[o] \in Nat
    BY <1>7, OneOfIn
  <2>2. u[s] = f[o] + u[rest]
    BY <1>3, <1>7 DEF Sums
  <2>3. Q(rest)
    BY <1>7
  <2>4. u[s] \in Nat
    <3> HIDE DEF o, rest
    <3> QED
      BY <2>1, <2>2, <2>3
  <2> HIDE DEF o
  <2>5. ASSUME NEW r \in SUBSET s PROVE u[r] <= u[s]
    <3>1. CASE o \notin r
      <4>1. r \in SUBSET rest
        BY <3>1
      <4>2. u[r] <= u[rest] /\ u[r] \in Int /\ u[rest] \in Nat
        BY <2>3, <4>1
      <4> QED
        BY <2>1, <2>2, <4>2
    <3>2. CASE o \in r
      <4>1. u[r] = f[o] + u[r \ {o}]
        BY <1>3, <3>2 DEF Unordered
      <4>2. r \ {o} \in SUBSET rest
        OBVIOUS
      <4>3. u[r \ {o}] <= u[rest] /\ u[r \ {o}] \in Int /\ u[rest] \in Nat
        BY <2>3, <4>2
      <4> QED
        BY <2>1, <2>2, <4>1, <4>3
    <3> QED
      BY <3>1, <3>2
  <2> QED
    BY <2>4, <2>5
<1>8. T = SUBSET A
  <2> HIDE DEF T
  <2>1. T \in SUBSET SUBSET A
    BY DEF T
  <2> QED
    BY <1>6, <1>7, <2>1, SubsetInduction
<1>9. Q(A)
  BY <1>8
<1>10. SumOf(f, B) \in Nat
  BY <1>2, SumOfNaturals
<1> QED
  BY <1>3, <1>4, <1>5, <1>9, <1>10

\* Two sums are no further apart than their terms may be.
LEMMA SumsWithin ==
    ASSUME NEW A, IsFiniteSet(A), NEW f, NEW g, NEW e, NEW a \in Int, NEW t \in Int,
           \A p \in A : f[p] \in Int /\ g[p] \in Int /\ e[p] \in Int,
           \A p \in A : -e[p] <= a * f[p] - t * g[p] /\ a * f[p] - t * g[p] <= e[p]
    PROVE  /\ SumOf(f, A) \in Int /\ SumOf(g, A) \in Int /\ SumOf(e, A) \in Int
           /\ -SumOf(e, A) <= a * SumOf(f, A) - t * SumOf(g, A)
           /\ a * SumOf(f, A) - t * SumOf(g, A) <= SumOf(e, A)
<1>1. PICK u \in [SUBSET A -> Int] : Sums(u, f, A) /\ SumOf(f, A) = u[A]
  BY SumsGive
<1>2. PICK v \in [SUBSET A -> Int] : Sums(v, g, A) /\ SumOf(g, A) = v[A]
  BY SumsGive
<1>3. PICK w \in [SUBSET A -> Int] : Sums(w, e, A) /\ SumOf(e, A) = w[A]
  BY SumsGive
<1> DEFINE Near(s) == -w[s] <= a * u[s] - t * v[s] /\ a * u[s] - t * v[s] <= w[s]
           T == {s \in SUBSET A : Near(s)}
<1>4. {} \in T
  <2>1. {} \in SUBSET A
    OBVIOUS
  <2>2. u[{}] = 0 /\ v[{}] = 0 /\ w[{}] = 0
    BY <1>1, <1>2, <1>3, <2>1 DEF Sums
  <2> QED
    BY <2>1, <2>2
<1>5. ASSUME NEW s \in SUBSET A, s # {}, s \ {OneOf(s)} \in T PROVE s \in T
  <2> DEFINE p == OneOf(s)
             r == s \ {p}
  <2>1. p \in s /\ r \in SUBSET A
    BY <1>5, OneOfIn
  <2>2. u[s] = f[p] + u[r] /\ v[s] = g[p] + v[r] /\ w[s] = e[p] + w[r]
    BY <1>1, <1>2, <1>3, <1>5 DEF Sums
  <2>3. -e[p] <= a * f[p] - t * g[p] /\ a * f[p] - t * g[p] <= e[p]
    BY <2>1
  <2>4. Near(r)
    BY <1>5
  <2>5. /\ f[p] \in Int /\ g[p] \in Int /\ e[p] \in Int
        /\ u[r] \in Int /\ v[r] \in Int /\ w[r] \in Int
    BY <2>1
  <2> HIDE DEF p, r
  <2>6. a * u[s] = a * f[p] + a * u[r] /\ t * v[s] = t * g[p] + t * v[r]
    BY <2>2, <2>5
  <2>7. Near(s)
    <3> DEFINE x1 == a * f[p]
               x2 == a * u[r]
               x3 == t * g[p]
               x4 == t * v[r]
    <3>1. x1 \in Int /\ x2 \in Int /\ x3 \in Int /\ x4 \in Int
      BY <2>5
    <3>2. /\ -w[r] <= x2 - x4 /\ x2 - x4 <= w[r]
          /\ -e[p] <= x1 - x3 /\ x1 - x3 <= e[p]
      BY <2>3, <2>4
    <3>3. a * u[s] = x1 + x2 /\ t * v[s] = x3 + x4 /\ w[s] = e[p] + w[r]
      BY <2>2, <2>6
    <3> HIDE DEF x1, x2, x3, x4
    <3> QED
      BY <2>5, <3>1, <3>2, <3>3
  <2> QED
    BY <2>7
<1>6. T = SUBSET A
  <2> HIDE DEF T
  <2>1. T \in SUBSET SUBSET A
    BY DEF T
  <2> QED
    BY <1>4, <1>5, <2>1, SubsetInduction
<1>7. Near(A)
  BY <1>6
<1>8. u[A] \in Int /\ v[A] \in Int /\ w[A] \in Int
  OBVIOUS
<1> QED
  BY <1>1, <1>2, <1>3, <1>7, <1>8
-----------------------------------------------------------------------------
(* The registers of a power.                                               *)

LEMMA ValuesFacts ==
    ASSUME NEW pt \in Points
    PROVE  Values(pt) \in Nat /\ Values(pt) >= 2 /\ Values(pt) % 2 = 0
<1> DEFINE h == WordSize \div 2
<1>1. WordSize \in Nat /\ WordSize >= 2 /\ WordSize % 2 = 0
  BY WordAssumption
<1>2. h \in Int /\ WordSize = 2 * h
  BY <1>1, DivMod
<1> HIDE DEF h
<1>3. WordSize * WordSize = 2 * (h * WordSize) + 0
  BY <1>1, <1>2
<1>4. h * WordSize \in Int
  BY <1>1, <1>2
<1>5. (2 * (h * WordSize) + 0) % 2 = 0
  BY <1>4, DivModUnique
<1>6. WordSize * WordSize \in Nat /\ WordSize * WordSize >= 2 /\ (WordSize * WordSize) % 2 = 0
  <2>1. WordSize * WordSize \in Nat /\ WordSize * WordSize >= 2
    BY <1>1
  <2> QED
    BY <1>3, <1>5, <2>1
<1> QED
  BY <1>1, <1>6 DEF Values

\* The words of a value are put together again as they were taken apart.
LEMMA JoinedBack ==
    ASSUME NEW pt \in Points, NEW raw \in Int
    PROVE  LET value == raw % Values(pt)
               regs == Encode(raw, pt)
           IN  (IF Wide(pt) THEN Joined(regs, pt) ELSE regs[1]) = value
<1> DEFINE value == raw % Values(pt)
           high == value \div WordSize
           low == value % WordSize
<1>1. value \in Int /\ WordSize \in Nat /\ WordSize > 0
  BY ValuesFacts, WordAssumption, DivMod
<1>2. Encode(raw, pt) = IF ~Wide(pt) THEN <<value>>
                        ELSE IF pt.lowFirst THEN <<low, high>> ELSE <<high, low>>
  BY DEF Encode
<1> HIDE DEF value
<1>3. high \in Int /\ low \in Int /\ value = WordSize * high + low
  BY <1>1, DivMod
<1> HIDE DEF high, low
<1>4. CASE ~Wide(pt)
  BY <1>2, <1>4 DEF value
<1>5. CASE Wide(pt)
  <2>1. Joined(Encode(raw, pt), pt) = high * WordSize + low
    BY <1>2, <1>5 DEF Joined
  <2>2. high * WordSize = WordSize * high
    BY <1>1, <1>3
  <2> QED
    BY <1>3, <1>5, <2>1, <2>2 DEF value
<1> QED
  BY <1>4, <1>5

\* A signed number that fits comes out of its register as it went in.
LEMMA SignedBack ==
    ASSUME NEW s \in Int, NEW size \in Nat, size >= 2, size % 2 = 0,
           -size <= 2 * s, 2 * s < size
    PROVE  ToSigned(s % size, size) = s
<1> DEFINE m == s % size
           h == size \div 2
<1>1. m \in Int /\ h \in Int /\ size = 2 * h
  BY DivMod
<1>2. m = IF s >= 0 THEN s ELSE s + size
  <2>1. CASE s >= 0
    <3>1. (size * 0 + s) % size = s
      BY <2>1, DivModUnique
    <3> QED
      BY <2>1, <3>1
  <2>2. CASE s < 0
    <3>1. s + size \in Int /\ 0 <= s + size /\ s + size < size
      BY <2>2
    <3>2. (size * (-1) + (s + size)) % size = s + size
      BY <3>1, DivModUnique
    <3>3. size * (-1) + (s + size) = s
      OBVIOUS
    <3> QED
      BY <2>2, <3>2, <3>3
  <2> QED
    BY <2>1, <2>2
<1>3. m % size = m
  <2>1. 0 <= m /\ m < size
    BY <1>2
  <2> HIDE DEF m
  <2>2. (size * 0 + m) % size = m
    BY <1>1, <2>1, DivModUnique
  <2> QED
    BY <1>1, <2>2
<1>4. ToSigned(m, size) = IF m < h THEN m ELSE m - size
  BY <1>3 DEF ToSigned
<1> HIDE DEF m, h
<1> QED
  BY <1>1, <1>2, <1>4 DEF m

LEMMA PointScale ==
    ASSUME NEW pt \in Points
    PROVE  pt.scale \in Nat \ {0} /\ pt.offset \in Int
  BY DEF Points

LEMMA RegisteredTyped ==
    ASSUME NEW d \in Devices, NEW units \in Int
    PROVE  /\ Raw(units, PowerPoint[d]) \in Int
           /\ Registered(d, units) \in [1..1 -> Word] \cup [1..2 -> Word]
<1> DEFINE pt == PowerPoint[d]
           raw == Raw(units, pt)
           value == raw % Values(pt)
           high == value \div WordSize
           low == value % WordSize
<1>1. pt \in Points
  BY PointAssumption
<1>2. WordSize \in Nat /\ WordSize > 0 /\ Values(pt) \in Nat /\ Values(pt) > 0
  BY <1>1, ValuesFacts, WordAssumption
<1>3. raw \in Int
  <2>1. pt.scale \in Nat \ {0} /\ pt.offset \in Int
    BY <1>1, PointScale
  <2> DEFINE a == units - pt.offset
             b == pt.scale
  <2>2. a \in Int /\ b \in Nat \ {0} /\ raw = RoundedQuotient(a, b)
    BY <2>1 DEF Raw
  <2> HIDE DEF a, b, raw
  <2> QED
    BY <2>2, Rounding
<1>4. value \in Int /\ 0 <= value /\ value < Values(pt)
  <2> HIDE DEF raw, pt
  <2> QED
    BY <1>2, <1>3, DivMod
<1>5. Registered(d, units) = IF ~Wide(pt) THEN <<value>>
                             ELSE IF pt.lowFirst THEN <<low, high>> ELSE <<high, low>>
  BY DEF Registered, Encode
<1> HIDE DEF value
<1>6. high \in Int /\ low \in Int /\ value = WordSize * high + low /\ 0 <= low /\ low < WordSize
  BY <1>2, <1>4, DivMod
<1> HIDE DEF high, low, raw, pt
<1>7. CASE ~Wide(pt)
  <2>1. value \in Word
    BY <1>2, <1>4, <1>7 DEF Values, Word
  <2> QED
    BY <1>3, <1>5, <1>7, <2>1 DEF raw, pt
<1>8. CASE Wide(pt)
  <2>1. value < WordSize * WordSize
    BY <1>4, <1>8 DEF Values
  <2>2. high >= 0
    <3> SUFFICES ASSUME high <= -1 PROVE FALSE
      BY <1>6
    <3>1. WordSize * high <= -WordSize
      BY <1>2, <1>6
    <3> QED
      BY <1>2, <1>4, <1>6, <3>1
  <2>3. high < WordSize
    <3> SUFFICES ASSUME high >= WordSize PROVE FALSE
      BY <1>2, <1>6
    <3>1. WordSize * high >= WordSize * WordSize
      BY <1>2, <1>6
    <3> QED
      BY <1>2, <1>4, <1>6, <2>1, <3>1
  <2>4. low \in Word /\ high \in Word
    BY <1>2, <1>6, <2>2, <2>3 DEF Word
  <2> QED
    BY <1>3, <1>5, <1>8, <2>4 DEF raw, pt
<1> QED
  BY <1>7, <1>8

\* A PCS takes from its registers the power that was written to them, to half a
\* step of the register, if it is in the range of the register.
LEMMA SetpointBack ==
    ASSUME NEW d \in Devices, NEW units \in Int,
           power[d] = Registered(d, units), Fits(d, units)
    PROVE  /\ Setpoint(d) \in Int /\ PowerPoint[d].scale \in Int
           /\ -PowerPoint[d].scale <= 2 * (Setpoint(d) - units)
           /\ 2 * (Setpoint(d) - units) <= PowerPoint[d].scale
<1> DEFINE pt == PowerPoint[d]
           V == Values(pt)
           raw == Raw(units, pt)
           b == pt.scale
           o == pt.offset
           a == units - o
<1>1. pt \in Points
  BY PointAssumption
<1>2. V \in Nat /\ V >= 2 /\ V % 2 = 0 /\ b \in Nat \ {0} /\ o \in Int
  BY <1>1, ValuesFacts, PointScale
<1>3. raw \in Int
  BY RegisteredTyped
<1>4. raw = RoundedQuotient(a, b)
  BY DEF Raw
<1>5. -V <= 2 * raw /\ 2 * raw < V
  BY DEF Fits
<1>6. Setpoint(d) = Physical(ToSigned(raw % V, V), pt)
  <2>1. (IF Wide(pt) THEN Joined(Encode(raw, pt), pt) ELSE Encode(raw, pt)[1]) = raw % V
    <3> HIDE DEF pt, raw
    <3> QED
      BY <1>1, <1>3, JoinedBack DEF V
  <2>2. power[d] = Encode(raw, pt)
    BY DEF Registered
  <2> QED
    BY <2>1, <2>2 DEF Setpoint
<1>7. ToSigned(raw % V, V) = raw
  <2> HIDE DEF V, raw
  <2> QED
    BY <1>2, <1>3, <1>5, SignedBack
<1>8. Setpoint(d) = raw * b + o
  BY <1>6, <1>7 DEF Physical
<1>9. a \in Int
  BY <1>2
<1> HIDE DEF V, raw, a, b, o, pt
<1>10. -b <= 2 * (b * raw - a) /\ 2 * (b * raw - a) <= b
  BY <1>2, <1>4, <1>9, Rounding
<1>11. /\ Setpoint(d) \in Int /\ b \in Int
       /\ -b <= 2 * (Setpoint(d) - units) /\ 2 * (Setpoint(d) - units) <= b
  <2> DEFINE x == b * raw
  <2>1. x \in Int /\ raw * b = x
    BY <1>2, <1>3
  <2>2. a = units - o
    BY DEF a
  <2>3. -b <= 2 * (x - a) /\ 2 * (x - a) <= b
    BY <1>10
  <2> HIDE DEF x
  <2>4. Setpoint(d) = x + o
    BY <1>8, <2>1
  <2> QED
    BY <1>2, <2>1, <2>2, <2>3, <2>4
<1> QED
  BY <1>11 DEF b, pt
-----------------------------------------------------------------------------
(* The shares of a dispatch.                                               *)

\* The shares are whole, none works against the others, all of them have the
\* total between them, and some of them not more than it, but for the rounding.
SharesClose(members, shares, total) ==
    /\ \A p \in members : /\ shares[p] \in Int
                          /\ total >= 0 => shares[p] >= 0
                          /\ total <= 0 => shares[p] <= 0
    /\ \A s \in SUBSET members :
          LET given == 100 * UnitsPerKw * SumOf(shares, s)
              rounding == 50 * UnitsPerKw * Cardinality(s)
          IN  /\ s = members /\ s # {} => -rounding <= given - total /\ given - total <= rounding
              /\ -(Abs(total) + rounding) <= given /\ given <= Abs(total) + rounding

LEMMA Divided ==
    ASSUME NEW v \in Nat \ {0}, NEW x \in Int, NEW y \in Int, v * x <= v * y
    PROVE  x <= y
<1> SUFFICES ASSUME x >= y + 1 PROVE FALSE
  OBVIOUS
<1>1. v * x >= v * (y + 1)
  OBVIOUS
<1>2. v * (y + 1) = v * y + v
  OBVIOUS
<1> QED
  BY <1>1, <1>2

\* The algebra of a group of shares: r is the weight of all of them, g that of
\* the group, n its size and s what it has.
LEMMA GroupClose ==
    ASSUME NEW u \in Nat \ {0}, NEW r \in Nat \ {0}, NEW n \in Nat, NEW s \in Int,
           NEW g \in Nat, g <= r, NEW t \in Int,
           -(50 * (u * r)) * n <= (100 * (u * r)) * s - t * g,
           (100 * (u * r)) * s - t * g <= (50 * (u * r)) * n
    PROVE  /\ g = r => /\ -(50 * u * n) <= 100 * u * s - t
                       /\ 100 * u * s - t <= 50 * u * n
           /\ -(Abs(t) + 50 * u * n) <= 100 * u * s
           /\ 100 * u * s <= Abs(t) + 50 * u * n
<1> DEFINE x == 100 * u * s
           y == 50 * u * n
           w == Abs(t)
           rx == r * x
           ry == r * y
           rw == r * w
           tg == t * g
<1>1. x \in Int /\ y \in Nat /\ w \in Nat
  BY DEF Abs
<1>2. /\ (100 * (u * r)) * s = rx
      /\ (50 * (u * r)) * n = ry /\ -(50 * (u * r)) * n = -ry
  <2>1. (100 * (u * r)) * s = 100 * (u * (r * s)) /\ rx = 100 * (u * (r * s))
    <3>1. (100 * (u * r)) * s = 100 * ((u * r) * s) /\ (u * r) * s = u * (r * s)
      OBVIOUS
    <3>2. rx = 100 * (r * (u * s)) /\ r * (u * s) = u * (r * s)
      OBVIOUS
    <3> QED
      BY <3>1, <3>2
  <2>2. (50 * (u * r)) * n = 50 * (u * (r * n)) /\ ry = 50 * (u * (r * n))
    <3>1. (50 * (u * r)) * n = 50 * ((u * r) * n) /\ (u * r) * n = u * (r * n)
      OBVIOUS
    <3>2. ry = 50 * (r * (u * n)) /\ r * (u * n) = u * (r * n)
      OBVIOUS
    <3> QED
      BY <3>1, <3>2
  <2>3. -(50 * (u * r)) * n = -((50 * (u * r)) * n)
    <3> DEFINE z == 50 * (u * r)
    <3>1. z \in Int
      OBVIOUS
    <3> HIDE DEF z
    <3>2. (-z) * n = -(z * n)
      BY <3>1
    <3> QED
      BY <3>2 DEF z
  <2> HIDE DEF rx, ry
  <2> QED
    BY <2>1, <2>2, <2>3
<1>3. -ry <= rx - tg /\ rx - tg <= ry
  BY <1>2
<1>4. -rw <= tg /\ tg <= rw
  <2>1. w * g <= rw
    <3> HIDE DEF w
    <3> QED
      BY <1>1
  <2>2. CASE t >= 0
    <3>1. w = t
      BY <2>2 DEF Abs
    <3>2. tg >= 0
      BY <2>2
    <3> QED
      BY <1>1, <2>1, <3>1, <3>2
  <2>3. CASE t < 0
    <3>1. w = -t
      BY <2>3 DEF Abs
    <3>2. w * g = -tg /\ tg <= 0
      BY <2>3, <3>1
    <3> QED
      BY <1>1, <2>1, <3>2
  <2> QED
    BY <2>2, <2>3
<1>5. rx \in Int /\ ry \in Int /\ rw \in Int /\ tg \in Int
  BY <1>1
<1> HIDE DEF x, y, w
<1>6. ASSUME g = r PROVE -y <= x - t /\ x - t <= y
  <2>1. r * (t - y) = tg - ry /\ r * (t + y) = tg + ry
    BY <1>1, <1>6
  <2>2. r * (t - y) <= r * x /\ r * x <= r * (t + y)
    <3> HIDE DEF ry, tg
    <3> QED
      BY <1>3, <1>5, <2>1
  <2>3. t - y \in Int /\ t + y \in Int
    BY <1>1
  <2>4. t - y <= x /\ x <= t + y
    BY <1>1, <2>2, <2>3, Divided
  <2> QED
    BY <1>1, <2>4
<1>7. -(w + y) <= x /\ x <= w + y
  <2>1. r * (-(w + y)) = -rw - ry /\ r * (w + y) = rw + ry
    BY <1>1
  <2>2. r * (-(w + y)) <= r * x /\ r * x <= r * (w + y)
    <3> HIDE DEF ry, rw, tg
    <3> QED
      BY <1>3, <1>4, <1>5, <2>1
  <2>3. -(w + y) \in Int /\ w + y \in Int
    BY <1>1
  <2> QED
    BY <1>1, <2>2, <2>3, Divided
<1> QED
  BY <1>6, <1>7 DEF x, y, w

\* Shares in proportion to a weight.
LEMMA PartsClose ==
    ASSUME NEW members \in SUBSET Pcs, NEW g, \A p \in members : g[p] \in Nat,
           NEW r \in Nat \ {0}, r = SumOf(g, members), NEW t \in Int, NEW shares,
           \A p \in members : shares[p] = RoundedQuotient(t * g[p], 100 * UnitsPerKw * r)
    PROVE  SharesClose(members, shares, t)
<1> DEFINE v == UnitsPerKw * r
           b == 100 * UnitsPerKw * r
<1>1. UnitsPerKw \in Nat \ {0} /\ v \in Nat \ {0} /\ b = 100 * v
  BY UnitAssumption
<1> HIDE DEF v, b
<1>2. ASSUME NEW p \in members
      PROVE  /\ shares[p] \in Int /\ g[p] \in Nat
             /\ -(50 * v) <= (100 * v) * shares[p] - t * g[p]
             /\ (100 * v) * shares[p] - t * g[p] <= 50 * v
             /\ t >= 0 => shares[p] >= 0
             /\ t <= 0 => shares[p] <= 0
  <2> DEFINE a == t * g[p]
             q == shares[p]
  <2>1. a \in Int /\ b \in Nat \ {0} /\ q = RoundedQuotient(a, b)
    BY <1>1 DEF b
  <2>2. (t >= 0 => a >= 0) /\ (t <= 0 => a <= 0)
    OBVIOUS
  <2> HIDE DEF a, q
  <2>3. /\ q \in Int /\ -b <= 2 * (b * q - a) /\ 2 * (b * q - a) <= b
        /\ a >= 0 => q >= 0
        /\ a <= 0 => q <= 0
    BY ZenonT(60), <2>1, Rounding
  <2> DEFINE x == b * q
  <2>4. x \in Int /\ x = (100 * v) * q
    BY <1>1, <2>3
  <2>5. -b <= 2 * (x - a) /\ 2 * (x - a) <= b
    BY <2>3
  <2> HIDE DEF x
  <2>6. -(50 * v) <= x - a /\ x - a <= 50 * v
    BY <1>1, <2>1, <2>4, <2>5
  <2> QED
    BY <2>2, <2>3, <2>4, <2>6 DEF a, q
<1>3. ASSUME NEW s \in SUBSET members
      PROVE  LET given == 100 * UnitsPerKw * SumOf(shares, s)
                 rounding == 50 * UnitsPerKw * Cardinality(s)
             IN  /\ s = members /\ s # {} => -rounding <= given - t /\ given - t <= rounding
                 /\ -(Abs(t) + rounding) <= given /\ given <= Abs(t) + rounding
  <2> DEFINE n == Cardinality(s)
             sum == SumOf(shares, s)
             part == SumOf(g, s)
             k == 100 * v
             lo == -(50 * v)
             hi == 50 * v
  <2>1. IsFiniteSet(members) /\ IsFiniteSet(s) /\ n \in Nat
    BY PcsFinite, FS_Subset, FS_CardinalityType
  <2>2. k \in Int /\ lo \in Int /\ hi \in Int
    BY <1>1
  <2>3. \A p \in s : shares[p] \in Int /\ g[p] \in Int
    BY <1>2
  <2>4. \A p \in s : lo <= k * shares[p] - t * g[p] /\ k * shares[p] - t * g[p] <= hi
    BY <1>2
  <2>5. sum \in Int /\ lo * n <= k * sum - t * part /\ k * sum - t * part <= hi * n
    <3> HIDE DEF k, lo, hi
    <3> QED
      BY <2>1, <2>2, <2>3, <2>4, SumsClose
  <2>6. part \in Nat /\ part <= r
    BY <2>1, SumOfPart
  <2>7. s = members => part = r
    OBVIOUS
  <2> HIDE DEF n, sum, part
  <2>8. /\ -(50 * (UnitsPerKw * r)) * n <= (100 * (UnitsPerKw * r)) * sum - t * part
        /\ (100 * (UnitsPerKw * r)) * sum - t * part <= (50 * (UnitsPerKw * r)) * n
    <3>1. (-(50 * v)) * n = -((50 * v) * n)
      <4> DEFINE z == 50 * v
      <4>1. z \in Int
        BY <1>1
      <4> HIDE DEF z
      <4>2. (-z) * n = -(z * n)
        BY <2>1, <4>1
      <4> QED
        BY <4>2 DEF z
    <3> QED
      BY <2>5, <3>1 DEF v
  <2>9. /\ part = r => /\ -(50 * UnitsPerKw * n) <= 100 * UnitsPerKw * sum - t
                       /\ 100 * UnitsPerKw * sum - t <= 50 * UnitsPerKw * n
        /\ -(Abs(t) + 50 * UnitsPerKw * n) <= 100 * UnitsPerKw * sum
        /\ 100 * UnitsPerKw * sum <= Abs(t) + 50 * UnitsPerKw * n
    BY ZenonT(60), <1>1, <2>1, <2>5, <2>6, <2>8, GroupClose
  <2> QED
    BY <2>7, <2>9 DEF n, sum
<1> QED
  BY <1>2, <1>3 DEF SharesClose

LEMMA MembersCounted ==
    ASSUME NEW members \in SUBSET Pcs
    PROVE  /\ IsFiniteSet(members) /\ Cardinality(members) \in Nat
           /\ members # {} => Cardinality(members) > 0
<1>1. IsFiniteSet(members) /\ Cardinality(members) \in Nat
  BY PcsFinite, FS_Subset, FS_CardinalityType
<1>2. members # {} => Cardinality(members) # 0
  BY <1>1, FS_EmptySet
<1> QED
  BY <1>1, <1>2

\* The shares of a dispatch over members, in proportion to the ratings or equal.
LEMMA SharesAddUp ==
    ASSUME NEW members \in SUBSET Pcs, rated \in [Devices -> Nat], NEW t \in Int, NEW weighted,
           NEW shares, \A p \in members : shares[p] = Share(p, members, t, weighted)
    PROVE  SharesClose(members, shares, t)
<1> DEFINE r == SumOf(Weights, members)
           n == Cardinality(members)
           ones == [p \in members |-> 1]
<1>1. IsFiniteSet(members) /\ n \in Nat /\ (members # {} => n > 0)
  BY MembersCounted
<1>2. \A p \in members : Weights[p] \in Nat
  BY DEF Weights, Devices
<1>3. r \in Nat
  BY <1>1, <1>2, SumOfNaturals
<1>4. SumOf(ones, members) = n
  <2>1. \A p \in members : ones[p] \in Int /\ ones[p] \in Int
    OBVIOUS
  <2>2. \A p \in members : 1 <= 1 * ones[p] - 0 * ones[p] /\ 1 * ones[p] - 0 * ones[p] <= 1
    OBVIOUS
  <2>3. 1 \in Int /\ 0 \in Int
    OBVIOUS
  <2> DEFINE x == SumOf(ones, members)
  <2>4. x \in Int /\ 1 * n <= 1 * x - 0 * x /\ 1 * x - 0 * x <= 1 * n
    <3> HIDE DEF ones
    <3> QED
      BY <1>1, <2>1, <2>2, <2>3, SumsClose
  <2> HIDE DEF x, n, ones
  <2>5. x = n
    BY <1>1, <2>4
  <2> QED
    BY <2>5 DEF x
<1>5. CASE members = {}
  <2>1. SumOf(shares, {}) = 0
    <3>1. IsFiniteSet({}) /\ \A p \in {} : shares[p] \in Int
      BY FS_EmptySet
    <3>2. PICK it \in [SUBSET {} -> Int] : Sums(it, shares, {}) /\ SumOf(shares, {}) = it[{}]
      BY <3>1, SumsGive
    <3>3. it[{}] = 0
      BY <3>2 DEF Sums
    <3> QED
      BY <3>2, <3>3
  <2>2. Cardinality({}) = 0
    BY FS_EmptySet
  <2>3. UnitsPerKw \in Nat /\ Abs(t) \in Nat
    BY UnitAssumption DEF Abs
  <2>4. 100 * UnitsPerKw * 0 = 0 /\ 50 * UnitsPerKw * 0 = 0
    BY <2>3
  <2>5. -(Abs(t) + 0) <= 0 /\ 0 <= Abs(t) + 0
    BY <2>3
  <2>6. \A s \in SUBSET members : s = {}
    BY <1>5
  <2> QED
    BY <1>5, <2>1, <2>2, <2>4, <2>5, <2>6 DEF SharesClose
<1>6. CASE members # {} /\ weighted /\ r > 0
  <2>1. \A p \in members : shares[p] = RoundedQuotient(t * Weights[p], 100 * UnitsPerKw * r)
    BY <1>6 DEF Share
  <2>2. r \in Nat \ {0}
    BY <1>3, <1>6
  <2> QED
    BY <1>2, <2>1, <2>2, PartsClose
<1>7. CASE members # {} /\ ~(weighted /\ r > 0)
  <2>1. \A p \in members : shares[p] = RoundedQuotient(t * ones[p], 100 * UnitsPerKw * n)
    <3> TAKE p \in members
    <3>1. shares[p] = RoundedQuotient(t, 100 * UnitsPerKw * n)
      BY <1>7 DEF Share
    <3>2. t * ones[p] = t
      OBVIOUS
    <3> QED
      BY <3>1, <3>2
  <2>2. n \in Nat \ {0} /\ \A p \in members : ones[p] \in Nat
    BY <1>1, <1>7
  <2> HIDE DEF ones, n
  <2> QED
    BY <1>4, <2>1, <2>2, PartsClose
<1> QED
  BY <1>5, <1>6, <1>7
-----------------------------------------------------------------------------
(* The panel.                                                              *)

LEMMA WrittenTyped ==
    ASSUME NEW A, NEW register \in [Devices -> A], NEW d \in Devices, NEW value \in A, NEW out
    PROVE  /\ Written(register, d, value, out) \in [Devices -> A]
           /\ \A q \in Devices : q # d => Written(register, d, value, out)[q] = register[q]
           /\ out.taken = TRUE => Written(register, d, value, out)[d] = value
  BY DEF Written

\* A reply of "True" that is not a simulator's means that the value was taken.
LEMMA TrueIsTaken ==
    ASSUME NEW p, NEW how, how # "Fake", NEW out \in Outcomes(p, how), out.reply = "True"
    PROVE  out.taken = TRUE
  BY DEF Outcomes, Accepted, Failed

\* The clamp leaves a total within the limit, if there is one.
LEMMA TotalClamped ==
    ASSUME NEW request \in Int, NEW allowed \in Nat, NEW margin \in Nat
    PROVE  /\ Total(request, allowed, margin) \in Int
           /\ (IF margin = NoClamp THEN NoNumber ELSE allowed * margin) \in Nat
           /\ (IF margin = NoClamp THEN NoNumber ELSE allowed * margin) # NoNumber =>
                 Abs(Total(request, allowed, margin)) <= allowed * margin
<1> DEFINE m == allowed * margin
<1>1. m \in Nat /\ (allowed = 0 => m = 0)
  <2>1. allowed = 0 => m = 0
    BY DEF m
  <2> QED
    BY <2>1
<1>2. Total(request, allowed, margin) =
        IF margin = 0 \/ allowed = 0 THEN 100 * request
        ELSE LET final == IF 100 * Abs(request) <= m THEN 100 * Abs(request) ELSE m
             IN  IF request >= 0 THEN final ELSE -final
  BY DEF Total, NoClamp, NoNumber
<1> HIDE DEF m
<1> QED
  BY <1>1, <1>2 DEF Abs, NoClamp, NoNumber, m

\* A PCS has one place in the cluster, and a loop takes the first that is left.
LEMMA PlaceFacts ==
    ASSUME NEW p \in Pcs
    PROVE  /\ Place(p) \in DOMAIN Cluster /\ Cluster[Place(p)] = p /\ Place(p) \in Nat
           /\ \A i \in DOMAIN Cluster : Cluster[i] = p => i = Place(p)
<1>1. \E i \in DOMAIN Cluster : Cluster[i] = p
  BY DEF Pcs, Range
<1>2. Place(p) \in DOMAIN Cluster /\ Cluster[Place(p)] = p
  BY <1>1 DEF Place
<1>3. Cluster \in Seq(Pcs) /\ IsInjective(Cluster)
  BY ClusterAssumption
<1>4. Place(p) \in Nat
  BY <1>2, <1>3
<1>5. \A i \in DOMAIN Cluster : Cluster[i] = p => i = Place(p)
  BY <1>2, <1>3 DEF IsInjective
<1> QED
  BY <1>2, <1>4, <1>5

LEMMA FirstIsNext ==
    ASSUME NEW todo \in SUBSET Pcs, todo # {}
    PROVE  /\ First(todo) \in todo
           /\ \A q \in todo : q # First(todo) => Place(First(todo)) < Place(q)
<1> DEFINE I == {i \in DOMAIN Cluster : Cluster[i] \in todo}
           f == First(todo)
<1>1. I # {} /\ I \in SUBSET DOMAIN Cluster
  BY DEF Pcs, Range
<1>2. I \in SUBSET Nat
  BY <1>1, ClusterAssumption
<1>3. Min(I) \in I /\ \A j \in I : Min(I) <= j
  <2>1. \E i \in I : \A j \in I : i <= j
    BY <1>1, <1>2, Smallest
  <2> HIDE DEF I
  <2> QED
    BY <2>1 DEF Min
<1>4. f = Cluster[Min(I)] /\ Min(I) \in DOMAIN Cluster
  BY <1>1, <1>3 DEF First
<1>5. f \in todo /\ f \in Pcs
  BY <1>3, <1>4
<1>6. Place(f) = Min(I)
  <2> HIDE DEF I
  <2> QED
    BY <1>4, <1>5, PlaceFacts
<1>7. ASSUME NEW q \in todo, q # f PROVE Place(f) < Place(q)
  <2>1. q \in Pcs
    OBVIOUS
  <2>2. Place(q) \in DOMAIN Cluster /\ Cluster[Place(q)] = q /\ Place(q) \in Nat
    BY <2>1, PlaceFacts
  <2>3. Place(f) \in Nat /\ Cluster[Place(f)] = f
    BY <1>5, PlaceFacts
  <2>4. Place(f) <= Place(q)
    BY <1>3, <1>6, <2>2
  <2>5. Place(f) # Place(q)
    BY <1>7, <2>2, <2>3
  <2> HIDE DEF f
  <2> QED
    BY <2>2, <2>3, <2>4, <2>5
<1> QED
  BY <1>5, <1>7
-----------------------------------------------------------------------------
StopInv ==
    job.kind = "stop" /\ job.mode = "Real" =>
        \A p \in Pcs \ job.todo : job.clients[p] \notin job.astray =>
            power[job.clients[p]] = Registered(job.clients[p], 0) /\ command[job.clients[p]] = 0
DispatchInv ==
    job.kind = "dispatch" =>
        /\ job.todo \subseteq job.members
        /\ job.limit # NoNumber => Abs(job.total) <= job.limit
        /\ SharesClose(job.members, job.shares, job.total)
        /\ \A q \in job.members \ job.todo, p \in job.todo : Place(q) < Place(p)
        /\ job.mode = "Real" =>
              \A p \in Holders(job.members \ job.todo, job.clients) :
                  job.clients[p] \notin job.astray =>
                      power[job.clients[p]] = Registered(job.clients[p], UnitsPerKw * job.shares[p])
PanelInv == PanelTypeOK /\ StopInv /\ DispatchInv

LEMMA JobKinds ==
    ASSUME job \in {Idle} \cup Questions \cup Dispatches \cup Stops
    PROVE  /\ job.kind = "dispatch" => job \in Dispatches
           /\ job.kind = "stop" => job \in Stops
           /\ job.kind = "dialog" => job \in Questions
  BY DEF Idle, Questions, Dispatches, Stops

LEMMA WordFacts == /\ WordSize \in Nat /\ WordSize >= 2
                   /\ 0 \in Word /\ 0 \in {0, 1}
                   /\ 0..HeartbeatSize - 1 \subseteq Word
                   /\ HeartbeatSize \in Nat /\ HeartbeatSize >= 2
                   /\ \A v \in 0..HeartbeatSize - 1 : (v + 1) % HeartbeatSize \in 0..HeartbeatSize - 1
<1>1. WordSize \in Nat /\ WordSize >= 2
  BY WordAssumption
<1>2. HeartbeatSize \in Nat /\ HeartbeatSize >= 2 /\ HeartbeatSize <= WordSize
  BY <1>1, HeartbeatAssumption
<1>3. ASSUME NEW v \in 0..HeartbeatSize - 1
      PROVE  (v + 1) % HeartbeatSize \in 0..HeartbeatSize - 1
  <2>1. v + 1 \in Int /\ HeartbeatSize > 0
    BY <1>2
  <2>2. (v + 1) % HeartbeatSize \in Int /\ 0 <= (v + 1) % HeartbeatSize
        /\ (v + 1) % HeartbeatSize < HeartbeatSize
    BY <1>2, <2>1, DivMod
  <2> QED
    BY <1>2, <2>2
<1> QED
  BY <1>1, <1>2, <1>3 DEF Word

LEMMA BeatenTyped ==
    ASSUME PanelTypeOK, Beaten
    PROVE  /\ heartbeat' \in [running : BOOLEAN, value : 0..HeartbeatSize - 1]
           /\ beat' \in [Devices -> Word]
<1> DEFINE V == 0..HeartbeatSize - 1
<1>1. heartbeat \in [running : BOOLEAN, value : V] /\ beat \in [Devices -> Word] /\ selected \in Devices
  BY DEF PanelTypeOK
<1>2. heartbeat.value \in V
  BY <1>1
<1>3. heartbeat.value \in Word /\ (heartbeat.value + 1) % HeartbeatSize \in V
  BY <1>2, WordFacts
<1> HIDE DEF V
<1>4. CASE mode = "Fake" \/ selected \notin enabled
  BY <1>1, <1>4 DEF Beaten, V
<1>5. CASE ~(mode = "Fake" \/ selected \notin enabled)
  <2>1. PICK out \in Outcomes(selected, mode) :
            /\ beat' = Written(beat, selected, heartbeat.value, out)
            /\ heartbeat' = [running |-> TRUE, value |->
                  IF out.reply = "True" THEN (heartbeat.value + 1) % HeartbeatSize
                                        ELSE heartbeat.value]
    BY <1>5 DEF Beaten
  <2>2. beat' \in [Devices -> Word]
    BY <1>1, <1>3, <2>1, WrittenTyped
  <2>3. heartbeat' \in [running : BOOLEAN, value : V]
    BY <1>2, <1>3, <2>1
  <2> QED
    BY <2>2, <2>3 DEF V
<1> QED
  BY <1>4, <1>5

LEMMA ExecuteTyped ==
    ASSUME PanelTypeOK, NEW p \in Devices, NEW c \in Commands, Execute(p, c)
    PROVE  command' \in [Devices -> {0, 1}]
<1>1. command \in [Devices -> {0, 1}] /\ CommandValue(c) \in {0, 1}
  BY DEF PanelTypeOK, CommandValue
<1>2. PICK out \in Outcomes(p, mode) :
        command' = IF c = "reset_fault" THEN command ELSE Written(command, p, CommandValue(c), out)
  BY DEF Execute
<1> QED
  BY <1>1, <1>2, WrittenTyped

LEMMA FirstPcs == Cluster[1] \in Pcs
<1> DEFINE n == Len(Cluster)
<1>1. n \in Nat /\ Cluster \in [1..n -> Pcs] /\ Cluster # <<>> /\ Cluster \in Seq(Pcs)
  BY ClusterAssumption
<1>2. n # 0
  BY <1>1, EmptySeq
<1>3. 1 \in 1..n
  BY <1>1, <1>2
<1> QED
  BY <1>1, <1>3

LEMMA AllowedTyped == \A allowed \in Allowed : allowed \in Nat
<1> TAKE allowed \in Allowed
<1>1. CASE allowed = NoNumber
  BY <1>1 DEF NoNumber
<1>2. CASE \E l \in ClusterLimits : allowed = AllowedPower(l)
  BY <1>2, AllowedIsNat, InputsAssumption
<1> QED
  BY <1>1, <1>2 DEF Allowed

\* The client of a PCS is one of a device.
LEMMA ClientsTyped ==
    ASSUME PanelTypeOK
    PROVE  Clients \in [Pcs -> Devices] /\ \A p \in Devices : Device(p) \in Devices
<1>1. configured \subseteq Devices /\ current \in configured
  BY DEF PanelTypeOK
<1>2. \A p \in Devices : Device(p) \in Devices
  BY <1>1 DEF Device
<1> QED
  BY <1>2 DEF Clients, Devices
-----------------------------------------------------------------------------
LEMMA PanelInitial == PanelInit => PanelInv
<1> SUFFICES ASSUME PanelInit PROVE PanelInv
  OBVIOUS
<1>1. /\ configured \subseteq Devices /\ enabled \subseteq configured
      /\ {current, selected} \subseteq configured /\ rated \in [Devices -> Nat]
  BY FilesAssumption DEF PanelInit
<1>2. power \in [Devices -> [1..1 -> Word] \cup [1..2 -> Word]]
  <2>1. \A d \in Devices : Registered(d, 0) \in [1..1 -> Word] \cup [1..2 -> Word]
    <3>1. 0 \in Int
      OBVIOUS
    <3> QED
      BY <3>1, RegisteredTyped
  <2> QED
    BY <2>1 DEF PanelInit
<1>3. PanelTypeOK
  BY <1>1, <1>2, WordFacts, ActsAssumption DEF PanelInit, PanelTypeOK
<1> QED
  BY <1>3 DEF PanelInit, Idle, PanelInv, StopInv, DispatchInv

\* A handler that runs no loop has nothing to keep.
LEMMA NoLoop ==
    ASSUME job'.kind \notin {"stop", "dispatch"}
    PROVE  StopInv' /\ DispatchInv'
  BY DEF StopInv, DispatchInv

LEMMA AsksTyped ==
    ASSUME PanelInv, NEW question \in Questions, Ask(question)
    PROVE  PanelInv'
<1>1. PanelTypeOK'
  BY ActsAssumption DEF PanelInv, PanelTypeOK, Ask, MayAct, panel, plant, configs
<1>2. job'.kind \notin {"stop", "dispatch"}
  BY DEF Ask, Questions
<1> QED
  BY <1>1, <1>2, NoLoop DEF PanelInv

\* Steps that leave the loops and the powers alone.
LEMMA KeptTyped ==
    ASSUME StopInv, DispatchInv, UNCHANGED <<job, power, command>>
    PROVE  StopInv' /\ DispatchInv'
  BY DEF StopInv, DispatchInv

\* The settings, the heartbeat and the lines.
LEMMA SettingsStep ==
    ASSUME PanelInv,
           \/ \E m \in Modes : ApplyMode(m)
           \/ \E p \in Devices : SelectPcs(p) \/ SetCurrent(p) \/ Line(p)
                                  \/ \E on \in BOOLEAN : EditPcs(p, on)
           \/ StartHeartbeat \/ StopHeartbeat \/ Tick
    PROVE  PanelInv'
<1> USE DEF panel, plant, configs
<1>1. PanelTypeOK /\ StopInv /\ DispatchInv
  BY DEF PanelInv
<1>2. UNCHANGED <<job, power, command>>
  BY DEF ApplyMode, EditPcs, SelectPcs, SetCurrent, Line, StartHeartbeat, StopHeartbeat, Tick
<1>3. acts' \in 0..MaxActs
  BY <1>1, ActsAssumption
     DEF PanelTypeOK, ApplyMode, EditPcs, SelectPcs, SetCurrent, Line, StartHeartbeat, StopHeartbeat, Tick, MayAct
<1>4. /\ mode' \in Modes /\ reachable' \subseteq Devices /\ rated' \in [Devices -> Nat]
      /\ configured' \subseteq Devices /\ enabled' \subseteq configured'
      /\ {current', selected'} \subseteq configured'
  BY <1>1 DEF PanelTypeOK, ApplyMode, EditPcs, SelectPcs, SetCurrent, Line, StartHeartbeat, StopHeartbeat, Tick
<1>5. /\ heartbeat' \in [running : BOOLEAN, value : 0..HeartbeatSize - 1]
      /\ beat' \in [Devices -> Word]
  <2>1. CASE StartHeartbeat \/ Tick
    BY <1>1, <2>1, BeatenTyped DEF StartHeartbeat, Tick
  <2>2. CASE StopHeartbeat
    BY <1>1, <2>2 DEF PanelTypeOK, StopHeartbeat
  <2>3. CASE ~(StartHeartbeat \/ Tick \/ StopHeartbeat)
    <3>1. UNCHANGED <<heartbeat, beat>>
      BY <2>3 DEF ApplyMode, EditPcs, SelectPcs, SetCurrent, Line
    <3> QED
      BY <1>1, <3>1 DEF PanelTypeOK
  <2> QED
    BY <2>1, <2>2, <2>3
<1>6. PanelTypeOK'
  BY <1>1, <1>2, <1>3, <1>4, <1>5 DEF PanelTypeOK
<1> QED
  BY <1>1, <1>2, <1>6, KeptTyped DEF PanelInv

\* The buttons' dialogs open.
LEMMA AskStep ==
    ASSUME PanelInv,
           \/ \E c \in Commands : AskCommand(c)
           \/ \E c \in DebugCommands : AskDebug(c)
           \/ \E request \in Requests, margin \in Margins \cup {NoClamp}, weighted \in BOOLEAN :
                 AskDispatch(request, margin, weighted)
           \/ AskStopAll
    PROVE  PanelInv'
<1>1. mode \in Modes /\ Clients \in [Pcs -> Devices]
  BY ClientsTyped DEF PanelInv, PanelTypeOK
<1>2. \E question \in Questions : Ask(question)
  <2>1. CASE \E c \in Commands : AskCommand(c)
    BY <2>1 DEF AskCommand, Questions
  <2>2. CASE \E c \in DebugCommands : AskDebug(c)
    BY <2>2 DEF AskDebug, Questions, DebugCommands, Commands
  <2>3. CASE \E request \in Requests, margin \in Margins \cup {NoClamp}, weighted \in BOOLEAN :
                 AskDispatch(request, margin, weighted)
    <3>1. PICK request \in Requests, margin \in Margins \cup {NoClamp}, weighted \in BOOLEAN :
              AskDispatch(request, margin, weighted)
      BY <2>3
    <3> DEFINE q == [kind |-> "dialog", asks |-> "dispatch", request |-> request,
                     margin |-> margin, weighted |-> weighted, mode |-> mode,
                     clients |-> Clients]
    <3>2. q \in Questions
      BY <1>1 DEF Questions
    <3>3. Ask(q)
      BY <3>1 DEF AskDispatch
    <3> QED
      BY <3>2, <3>3
  <2>4. CASE AskStopAll
    BY <1>1, <2>4 DEF AskStopAll, Questions
  <2> QED
    BY <2>1, <2>2, <2>3, <2>4
<1> QED
  BY <1>2, AsksTyped

\* A dialog is answered, or a loop is through.
LEMMA AnswerStep ==
    ASSUME PanelInv, Decline \/ ConfirmCommand \/ ConfirmDebug \/ Finish
    PROVE  PanelInv'
<1> USE DEF panel, plant, configs
<1>1. PanelTypeOK
  BY DEF PanelInv
<1>2. job' = Idle /\ UNCHANGED <<panel, heartbeat, reachable, power, beat, acts>>
  BY DEF Decline, ConfirmCommand, ConfirmDebug, Finish
<1>3. command' \in [Devices -> {0, 1}]
  <2>1. CASE Decline \/ Finish
    BY <1>1, <2>1 DEF Decline, Finish, PanelTypeOK
  <2>2. CASE ConfirmCommand
    <3>1. job.command \in Commands
      BY <1>1, <2>2 DEF ConfirmCommand, Asked, PanelTypeOK, Idle, Questions, Dispatches, Stops
    <3>2. CASE mode = "Fake" \/ Device(Cluster[1]) \in enabled
      <4>1. Device(Cluster[1]) \in Devices
        BY <1>1, FirstPcs, ClientsTyped DEF Devices
      <4> QED
        BY <1>1, <2>2, <3>1, <3>2, <4>1, ExecuteTyped DEF ConfirmCommand
    <3>3. CASE ~(mode = "Fake" \/ Device(Cluster[1]) \in enabled)
      BY <1>1, <2>2, <3>3 DEF ConfirmCommand, PanelTypeOK
    <3> QED
      BY <3>2, <3>3
  <2>3. CASE ConfirmDebug
    <3>1. job.command \in Commands /\ selected \in Devices
      BY <1>1, <2>3 DEF ConfirmDebug, Asked, PanelTypeOK, Idle, Questions, Dispatches, Stops
    <3>2. Execute(selected, job.command) \/ UNCHANGED command
      BY <2>3 DEF ConfirmDebug
    <3>3. CASE Execute(selected, job.command)
      BY <1>1, <3>1, <3>3, ExecuteTyped
    <3>4. CASE UNCHANGED command
      BY <1>1, <3>4 DEF PanelTypeOK
    <3> QED
      BY <3>2, <3>3, <3>4
  <2> QED
    BY <2>1, <2>2, <2>3
<1>4. PanelTypeOK'
  BY <1>1, <1>2, <1>3 DEF PanelTypeOK
<1>5. job'.kind \notin {"stop", "dispatch"}
  BY <1>2 DEF Idle
<1> QED
  BY <1>4, <1>5, NoLoop DEF PanelInv

LEMMA ConfirmDispatchStep ==
    ASSUME PanelInv, ConfirmDispatch
    PROVE  PanelInv'
<1> USE DEF panel, plant, configs
<1>1. PanelTypeOK /\ Asked("dispatch")
  BY DEF PanelInv, ConfirmDispatch
<1>2. CASE job' = Idle
  <2>1. PanelTypeOK'
    BY <1>1, <1>2 DEF PanelTypeOK, ConfirmDispatch
  <2>2. job'.kind \notin {"stop", "dispatch"}
    BY <1>2 DEF Idle
  <2> QED
    BY <2>1, <2>2, NoLoop DEF PanelInv
<1>3. CASE job' # Idle
  <2> DEFINE limitOf(allowed) == IF job.margin = NoClamp THEN NoNumber ELSE allowed * job.margin
             totalOf(allowed) == Total(job.request, allowed, job.margin)
             sharesOf(total) == [p \in Pcs |-> IF p \in Members
                                    THEN Share(p, Members, total, job.weighted) ELSE 0]
  <2>1. PICK allowed \in Allowed :
            job' = [kind |-> "dispatch", mode |-> job.mode, clients |-> job.clients,
                    limit |-> limitOf(allowed), total |-> totalOf(allowed), members |-> Members,
                    shares |-> sharesOf(totalOf(allowed)), todo |-> Members, astray |-> {}]
    BY <1>3 DEF ConfirmDispatch
  <2>2. /\ job.request \in Requests /\ job.margin \in Margins \cup {NoClamp}
        /\ job.weighted \in BOOLEAN /\ job.mode \in Modes /\ job.clients \in [Pcs -> Devices]
    BY <1>1 DEF PanelTypeOK, Asked, Idle, Questions, Dispatches, Stops
  <2>3. job.request \in Int /\ job.margin \in Nat /\ allowed \in Nat
    <3>1. allowed \in Nat
      BY AllowedTyped
    <3>2. Requests \subseteq Int /\ Margins \subseteq 1..100
      BY InputsAssumption
    <3>3. \A m \in Margins \cup {NoClamp} : m \in Nat
      BY <3>2 DEF NoClamp
    <3> QED
      BY <2>2, <3>1, <3>2, <3>3
  <2> DEFINE limit == limitOf(allowed)
             total == totalOf(allowed)
             shares == sharesOf(total)
  <2>4. total \in Int /\ limit \in Nat /\ (limit # NoNumber => Abs(total) <= limit)
    <3>1. limit # NoNumber => limit = allowed * job.margin
      OBVIOUS
    <3> QED
      BY <2>3, <3>1, TotalClamped
  <2>5. Members \in SUBSET Pcs
    BY DEF Members
  <2> HIDE DEF limit, total
  <2>6. SharesClose(Members, shares, total)
    <3>1. rated \in [Devices -> Nat]
      BY <1>1 DEF PanelTypeOK
    <3>2. \A p \in Members : shares[p] = Share(p, Members, total, job.weighted)
      BY <2>5
    <3> HIDE DEF shares
    <3> QED
      BY <2>4, <2>5, <3>1, <3>2, SharesAddUp
  <2>7. shares \in [Pcs -> Int]
    <3>1. \A p \in Members : shares[p] \in Int
      BY <2>6 DEF SharesClose
    <3>2. ASSUME NEW p \in Pcs
          PROVE  (IF p \in Members THEN Share(p, Members, total, job.weighted) ELSE 0) \in Int
      <4>1. CASE p \in Members
        <5>1. shares[p] = Share(p, Members, total, job.weighted)
          BY <4>1
        <5> QED
          BY <3>1, <4>1, <5>1
      <4>2. CASE p \notin Members
        BY <4>2
      <4> QED
        BY <4>1, <4>2
    <3> QED
      BY <3>2
  <2>8. job' = [kind |-> "dispatch", mode |-> job.mode, clients |-> job.clients,
                limit |-> limit, total |-> total, members |-> Members,
                shares |-> shares, todo |-> Members, astray |-> {}]
    BY <2>1 DEF limit, total
  <2> HIDE DEF shares
  <2>9. job' \in Dispatches
    BY <2>2, <2>4, <2>5, <2>7, <2>8 DEF Dispatches
  <2>10. PanelTypeOK'
    BY <1>1, <2>9 DEF PanelTypeOK, ConfirmDispatch
  <2>11. DispatchInv'
    BY <2>4, <2>6, <2>8 DEF DispatchInv, Holders
  <2>12. StopInv'
    BY <2>8 DEF StopInv
  <2> QED
    BY <2>10, <2>11, <2>12 DEF PanelInv
<1> QED
  BY <1>2, <1>3

LEMMA ConfirmStopStep ==
    ASSUME PanelInv, ConfirmStopAll
    PROVE  PanelInv'
<1> USE DEF panel, plant, configs
<1>1. PanelTypeOK /\ Asked("stop")
  BY DEF PanelInv, ConfirmStopAll
<1>2. job' = [kind |-> "stop", mode |-> job.mode, clients |-> job.clients, todo |-> Pcs, astray |-> {}]
  BY DEF ConfirmStopAll
<1>3. job.mode \in Modes /\ job.clients \in [Pcs -> Devices]
  BY <1>1 DEF PanelTypeOK, Asked, Idle, Questions, Dispatches, Stops
<1>4. job' \in Stops
  BY <1>2, <1>3 DEF Stops
<1>5. PanelTypeOK'
  BY <1>1, <1>4 DEF PanelTypeOK, ConfirmStopAll
<1> QED
  BY <1>2, <1>5 DEF PanelInv, StopInv, DispatchInv

\* What a member holds stays when another device is written.
LEMMA DispatchStep ==
    ASSUME PanelInv, DispatchOne
    PROVE  PanelInv'
<1> DEFINE p == First(job.todo)
           d == job.clients[p]
           W == [1..1 -> Word] \cup [1..2 -> Word]
           given(q) == Registered(job.clients[q], UnitsPerKw * job.shares[q])
<1>1. PanelTypeOK /\ DispatchInv /\ job.kind = "dispatch" /\ job.todo # {}
  BY DEF PanelInv, DispatchOne
<1>2. job \in Dispatches
  BY <1>1, JobKinds DEF PanelTypeOK
<1>3. /\ job.mode \in Modes /\ job.limit \in Nat /\ job.total \in Int
      /\ job.clients \in [Pcs -> Devices] /\ job.shares \in [Pcs -> Int]
      /\ job.members \in SUBSET Pcs /\ job.todo \in SUBSET Pcs /\ job.astray \in SUBSET Devices
  BY <1>2 DEF Dispatches
<1>4. /\ p \in job.todo /\ p \in Pcs /\ p \in job.members
      /\ \A q \in job.todo : q # p => Place(p) < Place(q)
  BY <1>1, <1>3, FirstIsNext DEF DispatchInv
<1>5. PICK out \in Outcomes(d, job.mode) :
        /\ power' = Written(power, d, given(p), out)
        /\ job' = IF out.reply = "raises" THEN Idle
                  ELSE [job EXCEPT !.todo = @ \ {p}, !.astray = Astray(d, out)]
  BY DEF DispatchOne
<1>6. d \in Devices /\ given(p) \in W
  <2>1. d \in Devices
    BY <1>3, <1>4
  <2>2. UnitsPerKw * job.shares[p] \in Int
    BY <1>3, <1>4, UnitAssumption
  <2> HIDE DEF d, p
  <2> QED
    BY <2>1, <2>2, RegisteredTyped DEF d
<1> HIDE DEF p, d, given, W
<1>7. power \in [Devices -> W]
  BY <1>1 DEF PanelTypeOK, W
<1>8. /\ power' \in [Devices -> W]
      /\ \A q \in Devices : q # d => power'[q] = power[q]
      /\ out.taken = TRUE => power'[d] = given(p)
  BY <1>5, <1>6, <1>7 DEF Written
<1>9. UNCHANGED <<mode, configured, enabled, rated, current, selected, heartbeat, reachable,
                  command, beat, acts>>
  BY DEF DispatchOne, panel, configs
<1>10. CASE out.reply = "raises"
  <2>1. job' = Idle
    BY <1>5, <1>10
  <2>2. PanelTypeOK'
    BY <1>1, <1>8, <1>9, <2>1 DEF PanelTypeOK, W
  <2>3. job'.kind \notin {"stop", "dispatch"}
    BY <2>1 DEF Idle
  <2> QED
    BY <2>2, <2>3, NoLoop DEF PanelInv
<1>11. CASE out.reply # "raises"
  <2> DEFINE astray == Astray(d, out)
  <2>1. /\ astray \in SUBSET Devices /\ job.astray \subseteq astray
        /\ out.reply = "True" \/ d \in astray
    BY <1>3, <1>6 DEF Astray
  <2> HIDE DEF astray
  <2>2. job' = [job EXCEPT !.todo = job.todo \ {p}, !.astray = astray]
    BY <1>5, <1>11 DEF astray
  <2>3. job' \in Dispatches
    BY <1>2, <1>3, <2>1, <2>2 DEF Dispatches
  <2>4. /\ job'.kind = "dispatch" /\ job'.mode = job.mode /\ job'.clients = job.clients
        /\ job'.limit = job.limit /\ job'.total = job.total /\ job'.members = job.members
        /\ job'.shares = job.shares /\ job'.todo = job.todo \ {p} /\ job'.astray = astray
    BY <1>2, <2>2 DEF Dispatches
  <2>5. PanelTypeOK'
    BY <1>1, <1>8, <1>9, <2>3 DEF PanelTypeOK, W
  <2> DEFINE done == job.members \ job.todo
             now == job.members \ (job.todo \ {p})
  <2>6. now = done \cup {p} /\ done \in SUBSET Pcs /\ \A q \in done : Place(q) < Place(p)
    BY <1>1, <1>3, <1>4 DEF DispatchInv
  <2>7. ASSUME NEW q \in now, NEW r \in job.todo \ {p} PROVE Place(q) < Place(r)
    <3>1. CASE q = p
      BY <1>4, <3>1
    <3>2. CASE q \in done
      BY <1>1, <3>2 DEF DispatchInv
    <3> QED
      BY <2>6, <3>1, <3>2
  <2>8. ASSUME job.mode = "Real", NEW q \in Holders(now, job.clients), job.clients[q] \notin astray
        PROVE  power'[job.clients[q]] = given(q)
    <3>1. q \in now /\ \A r \in now : job.clients[r] = job.clients[q] => Place(r) <= Place(q)
      BY DEF Holders
    <3>2. CASE q = p
      <4>1. out.reply = "True"
        BY <2>1, <2>8, <3>2 DEF d
      <4>2. out.taken = TRUE
        BY <2>8, <4>1, TrueIsTaken
      <4> QED
        BY <1>8, <3>2, <4>2 DEF d
    <3>3. CASE q # p
      <4>1. q \in done /\ q \in Pcs /\ p \in now
        BY <2>6, <3>1, <3>3
      <4>2. Place(q) < Place(p) /\ Place(q) \in Nat /\ Place(p) \in Nat
        BY <1>4, <2>6, <4>1, PlaceFacts
      <4>3. job.clients[q] # d
        <5> SUFFICES ASSUME job.clients[q] = d PROVE FALSE
          OBVIOUS
        <5>1. Place(p) <= Place(q)
          BY <3>1, <4>1 DEF d
        <5> QED
          BY <4>2, <5>1
      <4>4. q \in Holders(done, job.clients)
        BY <2>6, <3>1, <4>1 DEF Holders
      <4>5. job.clients[q] \notin job.astray
        BY <2>1, <2>8
      <4>6. power[job.clients[q]] = given(q)
        BY <1>1, <2>8, <4>4, <4>5 DEF DispatchInv, given
      <4>7. job.clients[q] \in Devices
        BY <1>3, <4>1
      <4> QED
        BY <1>8, <4>3, <4>6, <4>7
    <3> QED
      BY <3>2, <3>3
  <2>9. DispatchInv'
    <3> HIDE DEF done, now
    <3>1. job'.todo \subseteq job'.members
      BY <1>1, <2>4 DEF DispatchInv
    <3>2. job'.limit # NoNumber => Abs(job'.total) <= job'.limit
      BY <1>1, <2>4 DEF DispatchInv
    <3>3. SharesClose(job'.members, job'.shares, job'.total)
      BY <1>1, <2>4 DEF DispatchInv
    <3>4. job'.members \ job'.todo = now
      BY <2>4 DEF now
    <3>5. \A q \in job'.members \ job'.todo, r \in job'.todo : Place(q) < Place(r)
      BY <2>4, <2>7, <3>4
    <3>6. ASSUME job'.mode = "Real", NEW q \in Holders(job'.members \ job'.todo, job'.clients),
                 job'.clients[q] \notin job'.astray
          PROVE  power'[job'.clients[q]] = Registered(job'.clients[q], UnitsPerKw * job'.shares[q])
      BY <2>4, <2>8, <3>4, <3>6 DEF given
    <3> QED
      BY <3>1, <3>2, <3>3, <3>5, <3>6 DEF DispatchInv
  <2>10. StopInv'
    BY <2>4 DEF StopInv
  <2> QED
    BY <2>5, <2>9, <2>10 DEF PanelInv
<1> QED
  BY <1>10, <1>11

LEMMA StopOneStep ==
    ASSUME PanelInv, StopOne
    PROVE  PanelInv'
<1> DEFINE p == First(job.todo)
           d == job.clients[p]
           W == [1..1 -> Word] \cup [1..2 -> Word]
<1>1. PanelTypeOK /\ StopInv /\ job.kind = "stop" /\ job.todo # {}
  BY DEF PanelInv, StopOne
<1>2. job \in Stops
  BY <1>1, JobKinds DEF PanelTypeOK
<1>3. /\ job.mode \in Modes /\ job.todo \in SUBSET Pcs /\ job.astray \in SUBSET Devices
      /\ job.clients \in [Pcs -> Devices]
  BY <1>2 DEF Stops
<1>4. p \in job.todo /\ p \in Pcs
  BY <1>1, <1>3, FirstIsNext
<1>5. PICK zero \in Outcomes(d, job.mode), halt \in Outcomes(d, job.mode) :
        /\ power' = Written(power, d, Registered(d, 0), zero)
        /\ command' = Written(command, d, 0, halt)
        /\ job' = [job EXCEPT !.todo = @ \ {p}, !.astray = Astray(d, zero) \cup Astray(d, halt)]
  BY DEF StopOne
<1>6. d \in Devices /\ Registered(d, 0) \in W
  <2>1. d \in Devices /\ 0 \in Int
    BY <1>3, <1>4
  <2> HIDE DEF d
  <2> QED
    BY <2>1, RegisteredTyped
<1> HIDE DEF p, d, W
<1>7. power \in [Devices -> W] /\ command \in [Devices -> {0, 1}]
  BY <1>1 DEF PanelTypeOK, W
<1>8. /\ power' \in [Devices -> W]
      /\ \A q \in Devices : q # d => power'[q] = power[q]
      /\ zero.taken = TRUE => power'[d] = Registered(d, 0)
  BY <1>5, <1>6, <1>7 DEF Written
<1>9. /\ command' \in [Devices -> {0, 1}]
      /\ \A q \in Devices : q # d => command'[q] = command[q]
      /\ halt.taken = TRUE => command'[d] = 0
  BY <1>5, <1>6, <1>7 DEF Written
<1>10. UNCHANGED <<mode, configured, enabled, rated, current, selected, heartbeat, reachable,
                   beat, acts>>
  BY DEF StopOne, panel, configs
<1> DEFINE astray == Astray(d, zero) \cup Astray(d, halt)
<1>11. /\ astray \in SUBSET Devices /\ job.astray \subseteq astray
       /\ (zero.reply = "True" /\ halt.reply = "True") \/ d \in astray
  BY <1>3, <1>6 DEF Astray
<1> HIDE DEF astray
<1>12. job' = [job EXCEPT !.todo = job.todo \ {p}, !.astray = astray]
  BY <1>5 DEF astray
<1>13. job' \in Stops
  BY <1>2, <1>3, <1>11, <1>12 DEF Stops
<1>14. /\ job'.kind = "stop" /\ job'.mode = job.mode /\ job'.clients = job.clients
       /\ job'.todo = job.todo \ {p} /\ job'.astray = astray
  BY <1>2, <1>12 DEF Stops
<1>15. PanelTypeOK'
  BY <1>1, <1>8, <1>9, <1>10, <1>13 DEF PanelTypeOK, W
<1>16. ASSUME job.mode = "Real", NEW q \in Pcs \ (job.todo \ {p}), job.clients[q] \notin astray
       PROVE  /\ power'[job.clients[q]] = Registered(job.clients[q], 0)
              /\ command'[job.clients[q]] = 0
  <2>1. CASE job.clients[q] = d
    <3>1. zero.reply = "True" /\ halt.reply = "True"
      BY <1>11, <1>16, <2>1
    <3>2. zero.taken = TRUE /\ halt.taken = TRUE
      BY <1>16, <3>1, TrueIsTaken
    <3> QED
      BY <1>8, <1>9, <2>1, <3>2
  <2>2. CASE job.clients[q] # d
    <3>1. q \in Pcs \ job.todo /\ job.clients[q] \notin job.astray
      BY <1>11, <1>16, <2>2 DEF d
    <3>2. power[job.clients[q]] = Registered(job.clients[q], 0) /\ command[job.clients[q]] = 0
      BY <1>1, <1>16, <3>1 DEF StopInv
    <3>3. job.clients[q] \in Devices
      BY <1>3, <3>1
    <3> QED
      BY <1>8, <1>9, <2>2, <3>2, <3>3
  <2> QED
    BY <2>1, <2>2
<1>17. StopInv'
  BY <1>14, <1>16 DEF StopInv
<1>18. DispatchInv'
  BY <1>14 DEF DispatchInv
<1> QED
  BY <1>15, <1>17, <1>18 DEF PanelInv

LEMMA ThreadStep ==
    ASSUME PanelInv, NEW d \in Devices, NEW units \in ThreadPowers, ThreadWrites(d, units)
    PROVE  PanelInv'
<1> DEFINE W == [1..1 -> Word] \cup [1..2 -> Word]
<1>1. PanelTypeOK /\ StopInv /\ DispatchInv
  BY DEF PanelInv
<1>2. units \in Int
  BY InputsAssumption
<1>3. power' = [power EXCEPT ![d] = Registered(d, units)] /\ Registered(d, units) \in W
  BY <1>2, RegisteredTyped DEF ThreadWrites
<1> HIDE DEF W
<1>4. power \in [Devices -> W]
  BY <1>1 DEF PanelTypeOK, W
<1>5. power' \in [Devices -> W] /\ \A q \in Devices : q # d => power'[q] = power[q]
  BY <1>3, <1>4
<1>6. UNCHANGED <<mode, configured, enabled, rated, current, selected, heartbeat, reachable,
                  command, beat>>
  BY DEF ThreadWrites, panel, configs
<1>7. acts' \in 0..MaxActs
  BY <1>1, ActsAssumption DEF ThreadWrites, MayAct, PanelTypeOK
<1>8. CASE ~Working
  <2>1. job' = job
    BY <1>8 DEF ThreadWrites
  <2>2. PanelTypeOK'
    BY <1>1, <1>5, <1>6, <1>7, <2>1 DEF PanelTypeOK, W
  <2>3. job'.kind \notin {"stop", "dispatch"}
    BY <1>8, <2>1 DEF Working
  <2> QED
    BY <2>2, <2>3, NoLoop DEF PanelInv
<1>9. CASE Working
  <2> DEFINE astray == job.astray \cup {d}
  <2>1. job \in Dispatches \/ job \in Stops
    BY <1>1, <1>9, JobKinds DEF PanelTypeOK, Working
  <2>2. job' = [job EXCEPT !.astray = astray]
    BY <1>9 DEF ThreadWrites
  <2>3. job.astray \in SUBSET Devices
    BY <2>1 DEF Dispatches, Stops
  <2>4. astray \in SUBSET Devices /\ job.astray \subseteq astray /\ d \in astray
    BY <2>3
  <2> HIDE DEF astray
  <2>5. CASE job \in Dispatches
    <3>1. job' \in Dispatches
      BY <2>2, <2>4, <2>5 DEF Dispatches
    <3>2. /\ job'.kind = "dispatch" /\ job'.mode = job.mode /\ job'.clients = job.clients
          /\ job'.limit = job.limit /\ job'.total = job.total /\ job'.members = job.members
          /\ job'.shares = job.shares /\ job'.todo = job.todo /\ job'.astray = astray
          /\ job.kind = "dispatch" /\ job.members \subseteq Pcs /\ job.clients \in [Pcs -> Devices]
      BY <2>2, <2>5 DEF Dispatches
    <3>3. PanelTypeOK'
      BY <1>1, <1>5, <1>6, <1>7, <3>1 DEF PanelTypeOK, W
    <3>4. ASSUME job.mode = "Real", NEW q \in Holders(job.members \ job.todo, job.clients),
                 job.clients[q] \notin astray
          PROVE  power'[job.clients[q]] = Registered(job.clients[q], UnitsPerKw * job.shares[q])
      <4>1. q \in Pcs
        BY <3>2 DEF Holders
      <4>2. job.clients[q] # d /\ job.clients[q] \notin job.astray /\ job.clients[q] \in Devices
        BY <2>4, <3>2, <3>4, <4>1
      <4>3. power[job.clients[q]] = Registered(job.clients[q], UnitsPerKw * job.shares[q])
        BY <1>1, <3>2, <3>4, <4>2 DEF DispatchInv
      <4> QED
        BY <1>5, <4>2, <4>3
    <3>5. DispatchInv'
      <4>1. job'.todo \subseteq job'.members
        BY <1>1, <3>2 DEF DispatchInv
      <4>2. job'.limit # NoNumber => Abs(job'.total) <= job'.limit
        BY <1>1, <3>2 DEF DispatchInv
      <4>3. SharesClose(job'.members, job'.shares, job'.total)
        BY <1>1, <3>2 DEF DispatchInv
      <4>4. \A q \in job'.members \ job'.todo, r \in job'.todo : Place(q) < Place(r)
        BY <1>1, <3>2 DEF DispatchInv
      <4>5. ASSUME job'.mode = "Real", NEW q \in Holders(job'.members \ job'.todo, job'.clients),
                   job'.clients[q] \notin job'.astray
            PROVE  power'[job'.clients[q]] =
                      Registered(job'.clients[q], UnitsPerKw * job'.shares[q])
        BY <3>2, <3>4, <4>5
      <4> QED
        BY <4>1, <4>2, <4>3, <4>4, <4>5 DEF DispatchInv
    <3>6. StopInv'
      BY <3>2 DEF StopInv
    <3> QED
      BY <3>3, <3>5, <3>6 DEF PanelInv
  <2>6. CASE job \in Stops
    <3>1. job' \in Stops
      BY <2>2, <2>4, <2>6 DEF Stops
    <3>2. /\ job'.kind = "stop" /\ job'.mode = job.mode /\ job'.todo = job.todo
          /\ job'.astray = astray /\ job.kind = "stop" /\ job'.clients = job.clients
          /\ job.clients \in [Pcs -> Devices]
      BY <2>2, <2>6 DEF Stops
    <3>3. PanelTypeOK'
      BY <1>1, <1>5, <1>6, <1>7, <3>1 DEF PanelTypeOK, W
    <3>4. ASSUME job.mode = "Real", NEW q \in Pcs \ job.todo, job.clients[q] \notin astray
          PROVE  /\ power'[job.clients[q]] = Registered(job.clients[q], 0)
                 /\ command'[job.clients[q]] = 0
      <4>1. job.clients[q] # d /\ job.clients[q] \notin job.astray /\ job.clients[q] \in Devices
        BY <2>4, <3>2, <3>4
      <4>2. power[job.clients[q]] = Registered(job.clients[q], 0) /\ command[job.clients[q]] = 0
        BY <1>1, <3>2, <3>4, <4>1 DEF StopInv
      <4> QED
        BY <1>5, <1>6, <4>1, <4>2
    <3>5. StopInv'
      BY <3>2, <3>4 DEF StopInv
    <3>6. DispatchInv'
      BY <3>2 DEF DispatchInv
    <3> QED
      BY <3>3, <3>5, <3>6 DEF PanelInv
  <2> QED
    BY <2>1, <2>5, <2>6
<1> QED
  BY <1>8, <1>9

LEMMA PanelStep == PanelInv /\ [PanelNext]_panelVars => PanelInv'
<1> SUFFICES ASSUME PanelInv, [PanelNext]_panelVars PROVE PanelInv'
  OBVIOUS
<1>1. CASE UNCHANGED panelVars
  <2>1. UNCHANGED <<mode, configured, enabled, rated, current, selected, heartbeat, job, reachable,
                    power, command, beat, acts>>
    BY <1>1 DEF panelVars, panel, plant, configs
  <2>2. PanelTypeOK'
    BY <2>1 DEF PanelInv, PanelTypeOK
  <2> QED
    BY <2>1, <2>2, KeptTyped DEF PanelInv
<1>2. CASE Operator
  BY <1>2, SettingsStep, AskStep, AnswerStep, ConfirmDispatchStep, ConfirmStopStep DEF Operator
<1>3. CASE Tick
  BY <1>3, SettingsStep
<1>4. CASE JobStep
  BY <1>4, DispatchStep, StopOneStep, AnswerStep DEF JobStep
<1>5. CASE \E d \in Devices : Line(d) \/ \E units \in ThreadPowers : ThreadWrites(d, units)
  BY <1>5, SettingsStep, ThreadStep
<1> QED
  BY <1>1, <1>2, <1>3, <1>4, <1>5 DEF PanelNext

LEMMA PanelInvariant == PanelSpec => []PanelInv
  BY PanelInitial, PanelStep, PTL DEF PanelSpec

\* Buttons, dialogs, loops, heartbeat and the writes of a workflow keep every
\* variable of the panel in its type; whatever is written to a register is a word.
THEOREM PanelTyping == PanelSpec => []PanelTypeOK
<1>1. PanelInv => PanelTypeOK
  BY DEF PanelInv
<1> QED
  BY <1>1, PanelInvariant, PTL

\* When "Stop all" has gone through the cluster, every PCS that could be reached
\* is at zero and stopped, whatever became of the calls to the others.
THEOREM StopsAll == PanelSpec => []StopReachesAll
<1>1. PanelInv => StopReachesAll
  BY DEF PanelInv, StopInv, StopReachesAll
<1> QED
  BY <1>1, PanelInvariant, PTL
-----------------------------------------------------------------------------
\* The setpoints of some members against their shares.
LEMMA AddUp == PanelInv => SetpointsAddUp
<1> DEFINE m == job.members
           t == job.total
           c == job.clients
           sh == job.shares
           h == Holders(m, c)
           held == [p \in h |-> Setpoint(c[p])]
           step == [p \in h |-> PowerPoint[c[p]].scale]
           k == Cardinality(h)
           sum == SumOf(sh, h)
           given == 100 * SumOf(held, h)
           rounding == 50 * (UnitsPerKw * k + SumOf(step, h))
<1> SUFFICES ASSUME PanelInv, job.kind = "dispatch", job.todo = {}, job.mode = "Real",
                    job.astray = {}, \A p \in m : Fits(c[p], UnitsPerKw * sh[p])
             PROVE  /\ h = m /\ h # {} => Abs(given - t) <= rounding
                    /\ job.limit # NoNumber => Abs(given) <= job.limit + rounding
                    /\ \A p \in h : /\ t >= 0 => 2 * held[p] >= -step[p]
                                    /\ t <= 0 => 2 * held[p] <= step[p]
  BY DEF SetpointsAddUp
<1>1. job \in Dispatches /\ DispatchInv
  BY JobKinds DEF PanelInv, PanelTypeOK
<1>2. /\ t \in Int /\ m \in SUBSET Pcs /\ job.limit \in Nat
      /\ c \in [Pcs -> Devices] /\ sh \in [Pcs -> Int]
  BY <1>1 DEF Dispatches
<1>3. /\ job.limit # NoNumber => Abs(t) <= job.limit
      /\ SharesClose(m, sh, t)
      /\ \A p \in h : power[c[p]] = Registered(c[p], UnitsPerKw * sh[p])
  <2>1. m \ job.todo = m
    OBVIOUS
  <2> QED
    BY <1>1, <2>1 DEF DispatchInv
<1>4. h \in SUBSET m /\ h \in SUBSET Pcs
  BY <1>2 DEF Holders
<1>5. IsFiniteSet(h) /\ k \in Nat /\ UnitsPerKw \in Nat \ {0}
  BY <1>4, MembersCounted, UnitAssumption
<1> HIDE DEF m, t, c, sh, h
<1>6. ASSUME NEW p \in h
      PROVE  /\ held[p] \in Int /\ sh[p] \in Int /\ step[p] \in Int
             /\ -step[p] <= 2 * held[p] - (2 * UnitsPerKw) * sh[p]
             /\ 2 * held[p] - (2 * UnitsPerKw) * sh[p] <= step[p]
             /\ t >= 0 => 2 * held[p] >= -step[p]
             /\ t <= 0 => 2 * held[p] <= step[p]
  <2> DEFINE units == UnitsPerKw * sh[p]
             d == c[p]
             sp == Setpoint(d)
             b == PowerPoint[d].scale
  <2>1. p \in m /\ p \in Pcs
    BY <1>4
  <2>2. d \in Devices /\ units \in Int /\ sh[p] \in Int
    BY <1>2, <1>5, <2>1
  <2>3. power[d] = Registered(d, units) /\ Fits(d, units)
    BY <1>3, <2>1 DEF m, c, sh
  <2>4. held[p] = sp /\ step[p] = b
    OBVIOUS
  <2>5. (t >= 0 => sh[p] >= 0) /\ (t <= 0 => sh[p] <= 0)
    BY <1>3, <2>1 DEF SharesClose
  <2>6. (t >= 0 => units >= 0) /\ (t <= 0 => units <= 0)
    BY <1>5, <2>2, <2>5
  <2>7. (2 * UnitsPerKw) * sh[p] = 2 * units
    BY <1>5, <2>2
  <2> HIDE DEF units, d, held, step
  <2>8. sp \in Int /\ b \in Int /\ -b <= 2 * (sp - units) /\ 2 * (sp - units) <= b
    BY <2>2, <2>3, SetpointBack
  <2> HIDE DEF sp, b
  <2> QED
    BY <2>2, <2>4, <2>6, <2>7, <2>8
<1>7. /\ SumOf(held, h) \in Int /\ sum \in Int /\ SumOf(step, h) \in Int
      /\ -SumOf(step, h) <= 2 * SumOf(held, h) - (2 * UnitsPerKw) * sum
      /\ 2 * SumOf(held, h) - (2 * UnitsPerKw) * sum <= SumOf(step, h)
  <2> DEFINE u2 == 2 * UnitsPerKw
  <2>1. 2 \in Int /\ u2 \in Int
    BY <1>5
  <2>2. \A p \in h : held[p] \in Int /\ sh[p] \in Int /\ step[p] \in Int
    BY <1>6
  <2>3. \A p \in h : -step[p] <= 2 * held[p] - u2 * sh[p] /\ 2 * held[p] - u2 * sh[p] <= step[p]
    BY <1>6
  <2> HIDE DEF u2, held, step
  <2>4. /\ SumOf(held, h) \in Int /\ SumOf(sh, h) \in Int /\ SumOf(step, h) \in Int
        /\ -SumOf(step, h) <= 2 * SumOf(held, h) - u2 * SumOf(sh, h)
        /\ 2 * SumOf(held, h) - u2 * SumOf(sh, h) <= SumOf(step, h)
    BY <1>5, <2>1, <2>2, <2>3, SumsWithin
  <2> QED
    BY <2>4 DEF u2
<1> DEFINE shares == 100 * UnitsPerKw * sum
           own == 50 * UnitsPerKw * k
           steps == SumOf(step, h)
<1>8. /\ h = m /\ h # {} => -own <= shares - t /\ shares - t <= own
      /\ -(Abs(t) + own) <= shares /\ shares <= Abs(t) + own
  BY <1>3, <1>4 DEF SharesClose
<1>9. /\ given \in Int /\ steps \in Int /\ own \in Int /\ shares \in Int
      /\ -(50 * steps) <= given - shares /\ given - shares <= 50 * steps
  <2> DEFINE x == SumOf(held, h)
             y == UnitsPerKw * sum
  <2>1. y \in Int /\ x \in Int /\ shares = 100 * y /\ (2 * UnitsPerKw) * sum = 2 * y
    BY <1>5, <1>7
  <2>2. own \in Int
    BY <1>5
  <2>3. -steps <= 2 * x - 2 * y /\ 2 * x - 2 * y <= steps /\ steps \in Int
    BY <1>7, <2>1
  <2> HIDE DEF x, y, steps, own
  <2> QED
    BY <2>1, <2>2, <2>3 DEF x
<1>10. rounding = own + 50 * steps
  <2> DEFINE z == UnitsPerKw * k
  <2>1. z \in Int /\ own = 50 * z
    BY <1>5
  <2> HIDE DEF z
  <2> QED
    BY <1>9, <2>1 DEF z
<1> HIDE DEF shares, own, steps, given, rounding, sum, k
<1>11. h = m /\ h # {} => Abs(given - t) <= rounding
  BY <1>2, <1>8, <1>9, <1>10 DEF Abs
<1>12. job.limit # NoNumber => Abs(given) <= job.limit + rounding
  BY <1>2, <1>3, <1>8, <1>9, <1>10 DEF Abs
<1> QED
  BY <1>6, <1>11, <1>12

\* When a dispatch has gone through the cluster with no write refused and every
\* share in the range of its register, the powers that the PCSs take from their
\* registers add up to the clamped total if each has a device of its own, stay
\* within limit and margin even if two names share one, and none works against
\* the others, but for half a kW and half a step of the register each: for any
\* cluster, ratings, points of any type, word order, scale and offset.
THEOREM DispatchAddsUp == PanelSpec => []SetpointsAddUp
  BY AddUp, PanelInvariant, PTL
-----------------------------------------------------------------------------
\* Decoding is the inverse of encoding on the range of the type, whatever the
\* second register holds when the point is a narrow one.
THEOREM DecodedBack ==
    ASSUME NEW pt \in Points, NEW raw \in Int, NEW regs,
           IF Wide(pt) THEN regs = Encode(raw, pt) ELSE regs[1] = Encode(raw, pt)[1],
           IF pt.type \in {"INT16", "INT32"}
           THEN -Values(pt) <= 2 * raw /\ 2 * raw < Values(pt)
           ELSE 0 <= raw /\ raw < Values(pt)
    PROVE  Decode(regs, pt) = [ok |-> TRUE, value |-> raw]
<1> DEFINE V == Values(pt)
           value == raw % V
           word == IF Wide(pt) THEN Joined(regs, pt) ELSE regs[1]
<1>1. V \in Nat /\ V >= 2 /\ V % 2 = 0
  BY ValuesFacts
<1>2. word = value
  BY JoinedBack
<1>3. Wide(pt) => Len(regs) = 2
  <2>1. Wide(pt) => \E x, y : regs = <<x, y>>
    BY DEF Encode
  <2> QED
    BY <2>1
<1>4. Decode(regs, pt) = [ok |-> TRUE, value |->
          IF pt.type \in {"INT16", "INT32"} THEN ToSigned(word, V) ELSE word]
  BY <1>3 DEF Decode
<1> HIDE DEF V, value, word
<1>5. CASE pt.type \in {"INT16", "INT32"}
  <2>1. -V <= 2 * raw /\ 2 * raw < V
    BY <1>5 DEF V
  <2>2. ToSigned(value, V) = raw
    BY <1>1, <2>1, SignedBack DEF value
  <2> QED
    BY <1>2, <1>4, <1>5, <2>2
<1>6. CASE ~(pt.type \in {"INT16", "INT32"})
  <2>1. 0 <= raw /\ raw < V
    BY <1>6 DEF V
  <2>2. (V * 0 + raw) % V = raw
    BY <1>1, <2>1, DivModUnique
  <2>3. V * 0 + raw = raw
    BY <1>1
  <2> QED
    BY <1>2, <1>4, <1>6, <2>2, <2>3 DEF value
<1> QED
  BY <1>5, <1>6

\* The registers of the point hold what was written last.
Holding(regs, pt, raw) == IF Wide(pt) THEN regs = Encode(raw, pt) ELSE regs[1] = Encode(raw, pt)[1]
PointInv ==
    /\ DOMAIN registers = 1..2
    /\ point = NoPoint => registers = <<0, 0>>
    /\ point # NoPoint => /\ point \in Points /\ commanded \in Int
                          /\ Holding(registers, point, Raw(commanded, point))

\* A point at its offset has zeros in its registers.
LEMMA ZeroRegisters ==
    ASSUME NEW pt \in Points
    PROVE  /\ Physical(0, pt) \in Int
           /\ Holding(<<0, 0>>, pt, Raw(Physical(0, pt), pt))
<1> DEFINE scale == pt.scale
           offset == pt.offset
           raw == Raw(Physical(0, pt), pt)
<1>1. scale \in Nat \ {0} /\ offset \in Int
  BY PointScale
<1>2. Physical(0, pt) = offset
  <2>1. Physical(0, pt) = 0 * scale + offset
    BY DEF Physical
  <2> HIDE DEF scale, offset
  <2> QED
    BY <1>1, <2>1
<1>3. raw = 0
  <2> DEFINE q == RoundedQuotient(0, scale)
  <2>1. raw = RoundedQuotient(offset - offset, scale)
    BY <1>2 DEF Raw
  <2>2. offset - offset = 0
    BY <1>1
  <2>3. /\ q \in Int
        /\ 0 >= 0 => q >= 0
        /\ 0 <= 0 => q <= 0
    <3> HIDE DEF scale
    <3>1. 0 \in Int
      OBVIOUS
    <3> QED
      BY <1>1, <3>1, Rounding
  <2>4. q = 0
    <3> HIDE DEF q
    <3> QED
      BY <2>3
  <2> QED
    BY <2>1, <2>2, <2>4
<1> HIDE DEF raw
<1>4. Encode(0, pt) = IF Wide(pt) THEN <<0, 0>> ELSE <<0>>
  <2> DEFINE V == Values(pt)
  <2>1. V \in Nat /\ V > 0 /\ WordSize \in Nat /\ WordSize > 0
    BY ValuesFacts, WordAssumption
  <2> HIDE DEF V
  <2>2. \A b \in Nat : b > 0 => 0 % b = 0 /\ 0 \div b = 0
    <3> TAKE b \in Nat
    <3> HAVE b > 0
    <3>1. (b * 0 + 0) \div b = 0 /\ (b * 0 + 0) % b = 0
      BY DivModUnique
    <3> QED
      BY <3>1
  <2>3. 0 % V = 0 /\ 0 % WordSize = 0 /\ 0 \div WordSize = 0
    BY <2>1, <2>2
  <2> QED
    BY <2>3 DEF Encode, V
<1> QED
  BY <1>1, <1>2, <1>3, <1>4 DEF Holding, raw

LEMMA PointStep == PointInv /\ [PointNext]_pointVars => PointInv'
<1> SUFFICES ASSUME PointInv, [PointNext]_pointVars PROVE PointInv'
  OBVIOUS
<1>1. CASE Configure
  <2>1. /\ point' \in Points /\ registers = <<0, 0>> /\ registers' = registers
        /\ commanded' = Physical(0, point')
    BY <1>1, SomeAssumption DEF Configure, PointInv
  <2>2. point' # NoPoint
    BY <2>1 DEF Points, Types, NoPoint
  <2> QED
    BY <2>1, <2>2, ZeroRegisters DEF PointInv
<1>2. CASE \E value \in SomeValues : Write(value)
  <2>1. PICK value \in SomeValues : Write(value)
    BY <1>2
  <2> DEFINE raw == Raw(value, point)
             words == Encode(raw, point)
  <2>2. /\ point # NoPoint /\ point' = point /\ commanded' = value /\ value \in Int
        /\ registers' = IF Wide(point) THEN words ELSE [registers EXCEPT ![1] = words[1]]
    BY <2>1, SomeAssumption DEF Write
  <2>3. DOMAIN registers = 1..2 /\ point \in Points
    BY <2>2 DEF PointInv
  <2>4. DOMAIN registers' = 1..2 /\ Holding(registers', point, raw)
    <3>1. CASE Wide(point)
      <4>1. \E x, y : words = <<x, y>>
        BY <3>1 DEF Encode
      <4> QED
        BY <2>2, <3>1, <4>1 DEF Holding
    <3>2. CASE ~Wide(point)
      <4> HIDE DEF words
      <4>1. registers' = [registers EXCEPT ![1] = words[1]] /\ 1 \in DOMAIN registers
        BY <2>2, <2>3, <3>2
      <4>2. registers'[1] = words[1] /\ DOMAIN registers' = 1..2
        BY <2>3, <4>1
      <4> QED
        BY <3>2, <4>2 DEF Holding, words
    <3> QED
      BY <3>1, <3>2
  <2> QED
    BY <2>2, <2>3, <2>4 DEF PointInv
<1>3. CASE UNCHANGED pointVars
  BY <1>3 DEF pointVars, PointInv
<1> QED
  BY <1>1, <1>2, <1>3 DEF PointNext

LEMMA ReadBack == PointInv => WrittenIsReadBack
<1> DEFINE scale == point.scale
           offset == point.offset
           raw == Raw(commanded, point)
           a == commanded - offset
<1> SUFFICES ASSUME PointInv, point # NoPoint, InRange(raw)
             PROVE  IF Wide(point) /\ point.count < 2 THEN ~Reading.ok
                    ELSE /\ Reading.ok /\ -scale <= 2 * (Reading.value - commanded)
                         /\ 2 * (Reading.value - commanded) <= scale
  BY DEF WrittenIsReadBack
<1>1. /\ point \in Points /\ commanded \in Int /\ Holding(registers, point, raw)
      /\ DOMAIN registers = 1..2
      /\ scale \in Nat \ {0} /\ offset \in Int /\ a \in Int
  BY PointScale DEF PointInv
<1>2. CASE Wide(point) /\ point.count < 2
  <2>1. point.count \in Nat
    BY <1>1 DEF Points
  <2>2. Received = <<registers[1]>>
    BY <1>2, <2>1 DEF Received
  <2>3. Len(Received) = 1
    BY <2>2
  <2>4. Decode(Received, point) = Unreadable
    BY <1>2, <2>3 DEF Decode
  <2> QED
    BY <1>2, <2>4 DEF Reading, Unreadable
<1>3. CASE ~(Wide(point) /\ point.count < 2)
  <2>1. Holding(Received, point, raw)
    <3>1. CASE Wide(point)
      <4>1. point.count > 1
        BY <1>1, <1>3, <3>1 DEF Points
      <4> QED
        BY <1>1, <4>1 DEF Received
    <3>2. CASE ~Wide(point)
      <4>1. Received[1] = registers[1]
        BY DEF Received
      <4> QED
        BY <1>1, <3>2, <4>1 DEF Holding
    <3> QED
      BY <3>1, <3>2
  <2>2. raw = RoundedQuotient(a, scale)
    BY DEF Raw
  <2>3. IF point.type \in {"INT16", "INT32"}
        THEN -Values(point) <= 2 * raw /\ 2 * raw < Values(point)
        ELSE 0 <= raw /\ raw < Values(point)
    BY DEF InRange
  <2> HIDE DEF raw, a, scale
  <2>4. raw \in Int /\ -scale <= 2 * (scale * raw - a) /\ 2 * (scale * raw - a) <= scale
    BY <1>1, <2>2, Rounding
  <2>5. Decode(Received, point) = [ok |-> TRUE, value |-> raw]
    BY <1>1, <2>1, <2>3, <2>4, DecodedBack DEF Holding
  <2>6. Reading = [ok |-> TRUE, value |-> raw * scale + offset]
    BY <2>5 DEF Reading, Physical, scale
  <2>7. Reading.value - commanded = scale * raw - a
    <3> DEFINE x == raw * scale
    <3>1. x = scale * raw /\ x \in Int /\ Reading.value = x + offset
      BY <1>1, <2>4, <2>6
    <3> HIDE DEF x
    <3>2. (x + offset) - commanded = x - (commanded - offset)
      BY <1>1, <3>1
    <3> QED
      BY <3>1, <3>2 DEF a
  <2>8. Reading.ok
    BY <2>6
  <2> QED
    BY <1>3, <2>4, <2>7, <2>8
<1> QED
  BY <1>2, <1>3

\* A value that fits a point of a PCS is read back from its registers as it was
\* written, to half a unit of the scale, whatever was written before; a wide
\* point of which one register is read raises and gives no value.
THEOREM PointsReadBack == PointSpec => []WrittenIsReadBack
<1>1. PointInit => PointInv
  BY DEF PointInit, PointInv
<1> QED
  BY <1>1, PointStep, ReadBack, PTL DEF PointSpec
=============================================================================
