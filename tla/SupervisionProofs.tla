------------------------- MODULE SupervisionProofs -------------------------
(***************************************************************************)
(* Supervision for every set of BMSs, names, readings and settings: types, *)
(* the latches follow the voltages, and the setpoint is the intended one.  *)
(***************************************************************************)
EXTENDS Supervision, TLAPS

LEMMA SettingTyped == RulesType /\ OperatorType => Setting \in Limits
BY SettingsAssumption DEF OperatorType, Setting, Runtime, Strategy

LEMMA SaturateTyped ==
    /\ \A n \in Nat : Saturate(n) \in Nat
    /\ \A n \in 0..MaxCount : Saturate(n) \in 0..MaxCount
BY BoundsAssumption DEF Saturate

\* A write leaves an integer setpoint.
LEMMA WriteTyped ==
    ASSUME setpoint \in Int, NEW p \in Int, WriteWorks(p) \/ WriteFails(p)
    PROVE  setpoint' \in Int
BY DEF WriteWorks, WriteFails

LEMMA NoActionTyped == NoAction \in Reports
BY DEF NoAction, Reports

LEMMA ReportTyped ==
    ASSUME NEW why \in {"none", "derating", "recover", "cutoff", "protect"},
           NEW ok \in BOOLEAN, NEW done \in BOOLEAN
    PROVE  [why |-> why, ok |-> ok, done |-> done] \in Reports
BY DEF Reports

\* What a protective action leaves.
LEMMA ExecuteTyping ==
    ASSUME TypeOK, NEW mode, NEW why \in {"cutoff", "protect"}, Execute(mode, why) \/ Quiet
    PROVE  /\ hv' \in {"none", "on", "off"} /\ ordered' \in {"start", "stop"}
           /\ last' \in Reports
<1> USE DEF TypeOK, PlantType
<1>1. CASE StopPcs(why)
  <2>1. ordered' \in {"start", "stop"} /\ hv' = hv BY <1>1 DEF StopPcs
  <2>2. last' \in Reports BY <1>1, ReportTyped DEF StopPcs
  <2> QED BY <2>1, <2>2
<1>2. CASE StartHvOff(why)
  <2>1. last' \in Reports
    <3>1. (hv = "none") \in BOOLEAN OBVIOUS
    <3> QED BY <1>2, <3>1, ReportTyped DEF StartHvOff
  <2> QED BY <1>2, <2>1 DEF StartHvOff
<1>3. CASE Quiet BY <1>3, ReportTyped DEF Quiet, NoAction
<1> QED BY <1>1, <1>2, <1>3 DEF Execute

LEMMA PassTyping == TypeOK /\ Pass => TypeOK'
<1> SUFFICES ASSUME TypeOK, Pass PROVE TypeOK'
    OBVIOUS
<1>s. Setting \in Limits
      BY SettingTyped DEF TypeOK
<1>p. Setting.power \in Int /\ (userPower # NoPower => userPower \in Int)
      BY <1>s, PowersAssumption DEF Limits, TypeOK, RulesType
<1>1. CASE CheckPowerDerating
  <2> USE <1>1 DEF CheckPowerDerating
  <2>1. OperatorType'
        BY DEF TypeOK, OperatorType, operator
  <2>2. /\ setpoint' \in Int /\ lowered' \in Int
        /\ derating' \in [Names -> BOOLEAN]
        /\ undone' \subseteq {"failed", "retry", "renamed", "operator", "workflow"}
        /\ last' \in Reports
    <3> USE DEF TypeOK, RulesType, PlantType, HistoryType
    <3>1. CASE Derate
      <4>1. setpoint' \in Int BY <3>1, <1>p, WriteTyped DEF Derate
      <4>2. last' \in Reports BY <3>1, ReportTyped DEF Derate
      <4>3. derating' \in [Names -> BOOLEAN] BY <3>1 DEF Derate
      <4> QED BY <3>1, <4>1, <4>2, <4>3, <1>p DEF Derate
    <3>2. CASE Restore
      <4>1. setpoint' \in Int BY <3>2, <1>p, WriteTyped DEF Restore
      <4>2. last' \in Reports BY <3>2, ReportTyped DEF Restore
      <4>3. derating' \in [Names -> BOOLEAN] BY <3>2 DEF Restore
      <4> QED BY <3>2, <4>1, <4>2, <4>3 DEF Restore
    <3>3. CASE UNCHANGED <<power, derating, lowered, last>>
          BY <3>3 DEF power
    <3> QED BY <3>1, <3>2, <3>3
  <2> QED BY <2>1, <2>2 DEF TypeOK, RulesType, PlantType, HistoryType, Proceed
<1>2. ASSUME NEW kind \in Kinds, Trigger(kind)
      PROVE  /\ hv' \in {"none", "on", "off"} /\ ordered' \in {"start", "stop"}
             /\ last' \in Reports
      BY <1>2, ExecuteTyping DEF Trigger
<1>3. CASE CheckChargeCutoff
  <2> USE <1>3 DEF CheckChargeCutoff
  <2>1. Trigger("charge") /\ "charge" \in Kinds BY DEF Kinds
  <2> QED BY <2>1, <1>2 DEF TypeOK, OperatorType, RulesType, PlantType, HistoryType,
             operator, rules, power, Proceed
<1>4. CASE CheckDischargeCutoff
  <2> USE <1>4 DEF CheckDischargeCutoff
  <2>1. Trigger("discharge") /\ "discharge" \in Kinds BY DEF Kinds
  <2>2. cutoff' \in [Names -> [Kinds -> BOOLEAN]]
    <3>1. [k \in Kinds |-> Beyond(k, 0)] \in [Kinds -> BOOLEAN]
          BY DEF Beyond, Kinds
    <3> QED BY <3>1 DEF StoreAlarms, TypeOK, RulesType
  <2> QED BY <2>1, <2>2, <1>2 DEF TypeOK, OperatorType, RulesType, PlantType, HistoryType,
             operator, power, Proceed
<1>5. CASE CheckPowerTracking
  <2> USE <1>5 DEF CheckPowerTracking
  <2>1. /\ setpoint' \in Int
        /\ tracking' \in [count : Nat, retries : Nat, due : BOOLEAN]
        /\ undone' \subseteq {"failed", "retry", "renamed", "operator", "workflow"}
    <3> USE SaturateTyped DEF TypeOK, RulesType, PlantType, HistoryType
    <3>1. CASE UNCHANGED <<power, tracking>>
          BY <3>1 DEF power
    <3>2. CASE userPower # NoPower /\ Deviation
      <4>1. CASE RetryWorks
        <5>1. setpoint' \in Int BY <4>1, <3>2, <1>p, WriteTyped DEF RetryWorks
        <5> QED BY <4>1, <5>1 DEF RetryWorks, Retried
      <4>2. CASE RetryFails
        <5>1. setpoint' \in Int BY <4>2, <3>2, <1>p, WriteTyped DEF RetryFails
        <5> QED BY <4>2, <5>1 DEF RetryFails, Retried
      <4>3. CASE tracking' = [tracking EXCEPT !.count = Saturate(@)] /\ UNCHANGED power
            BY <4>3 DEF power
      <4> QED BY <3>2, <4>1, <4>2, <4>3 DEF Deviation
    <3>3. CASE tracking' = Matched /\ UNCHANGED power
          BY <3>3 DEF Matched, power
    <3> QED BY <3>1, <3>2, <3>3
  <2>2. OperatorType' BY DEF TypeOK, OperatorType, operator
  <2>3. RulesType' BY <2>1 DEF TypeOK, RulesType, Proceed
  <2>4. PlantType' BY <2>1 DEF TypeOK, PlantType
  <2>5. HistoryType' BY <2>1, NoActionTyped DEF TypeOK, HistoryType
  <2> QED BY <2>2, <2>3, <2>4, <2>5 DEF TypeOK
<1>6. CASE CheckPcsFaultProtection
  <2> USE <1>6 DEF CheckPcsFaultProtection
  <2>1. /\ faults' \in 0..MaxCount
        /\ (Quiet \/ Execute(Setting.protectMode, "protect"))
        BY SaturateTyped, BoundsAssumption DEF Protect, TypeOK, RulesType
  <2>2. /\ hv' \in {"none", "on", "off"} /\ ordered' \in {"start", "stop"}
        /\ last' \in Reports
        BY <2>1, ExecuteTyping
  <2> QED BY <2>1, <2>2 DEF TypeOK, OperatorType, RulesType, PlantType, HistoryType,
             operator, power, Proceed
<1> QED BY <1>1, <1>3, <1>4, <1>5, <1>6 DEF Pass

LEMMA Kept ==
    /\ OperatorType /\ UNCHANGED operator => OperatorType'
    /\ RulesType /\ UNCHANGED <<shown, phase, rules>> => RulesType'
    /\ PlantType /\ UNCHANGED plant => PlantType'
    /\ HistoryType /\ UNCHANGED history => HistoryType'
    /\ HistoryType /\ Unpassed => HistoryType'
<1>1. OperatorType /\ UNCHANGED operator => OperatorType'
      BY DEF OperatorType, operator
<1>2. RulesType /\ UNCHANGED <<shown, phase, rules>> => RulesType'
      BY DEF RulesType, rules
<1>3. PlantType /\ UNCHANGED plant => PlantType'
      BY DEF PlantType, plant
<1>4. HistoryType /\ UNCHANGED history => HistoryType'
      BY DEF HistoryType, history
<1>5. HistoryType /\ Unpassed => HistoryType'
      BY DEF HistoryType, Unpassed
<1> QED BY <1>1, <1>2, <1>3, <1>4, <1>5

LEMMA ActTyping == acts \in 0..MaxOperator /\ Act => acts' \in 0..MaxOperator
BY BoundsAssumption DEF Act

LEMMA OperatorTyping == TypeOK /\ OperatorActs => TypeOK'
<1> SUFFICES ASSUME TypeOK, OperatorActs PROVE TypeOK'
    OBVIOUS
<1>a. Act => acts' \in 0..MaxOperator
      BY ActTyping DEF TypeOK, OperatorType
<1>1. ASSUME NEW r \in Runtimes, ApplyRuntimeParams(r) PROVE TypeOK'
  <2>1. OperatorType' BY <1>1, <1>a DEF ApplyRuntimeParams, TypeOK, OperatorType
  <2> QED BY <1>1, <2>1, Kept DEF ApplyRuntimeParams, TypeOK
<1>2. ASSUME NEW s \in Strategies, SaveStrategy(s) PROVE TypeOK'
  <2>1. OperatorType' BY <1>2, <1>a DEF SaveStrategy, TypeOK, OperatorType
  <2> QED BY <1>2, <2>1, Kept DEF SaveStrategy, TypeOK
<1>3. ASSUME NEW d \in Devices, MoveBms(d) PROVE TypeOK'
  <2>1. OperatorType' BY <1>3, <1>a DEF MoveBms, TypeOK, OperatorType
  <2>2. PlantType' BY <1>3 DEF MoveBms, TypeOK, PlantType
  <2> QED BY <1>3, <2>1, <2>2, Kept DEF MoveBms, TypeOK
<1>4. ASSUME NEW n \in Names, ApplyClusterName(n) PROVE TypeOK'
  <2>1. OperatorType' BY <1>4, <1>a DEF ApplyClusterName, TypeOK, OperatorType
  <2>2. HistoryType' BY <1>4 DEF ApplyClusterName, TypeOK, HistoryType
  <2> QED BY <1>4, <2>1, <2>2, Kept DEF ApplyClusterName, TypeOK
<1>5. ASSUME NEW p \in Powers, AskPower(p) PROVE TypeOK'
  <2>1. OperatorType' BY <1>5, <1>a DEF AskPower, TypeOK, OperatorType
  <2> QED BY <1>5, <2>1, Kept DEF AskPower, TypeOK
<1>6. CASE AnswerPower
  <2> USE <1>6 DEF AnswerPower, TypeOK
  <2>1. dialog \in Int /\ dialog \in Powers
        BY PowersAssumption DEF OperatorType
  <2>2. setpoint' \in Int
        BY <2>1, WriteTyped DEF SetPower, PlantType
  <2>3. OperatorType' BY DEF OperatorType
  <2>4. RulesType'
    <3>1. userPower' \in Powers \cup {NoPower}
          BY <2>1 DEF SetPower, RulesType
    <3> QED BY <3>1 DEF RulesType
  <2>5. PlantType' BY <2>2 DEF PlantType
  <2>6. HistoryType' BY DEF HistoryType, SetPower
  <2> QED BY <2>3, <2>4, <2>5, <2>6
<1>7. ASSUME NEW c \in {"start", "stop"}, PcsCommand(c) PROVE TypeOK'
  <2>1. OperatorType' BY <1>7, <1>a DEF PcsCommand, TypeOK, OperatorType
  <2>2. PlantType' BY <1>7 DEF PcsCommand, TypeOK, PlantType
  <2> QED BY <1>7, <2>1, <2>2, Kept DEF PcsCommand, TypeOK
<1>8. ASSUME NEW m \in {"on", "off"}, HvWorkflow(m) PROVE TypeOK'
  <2>1. OperatorType' BY <1>8, <1>a DEF HvWorkflow, TypeOK, OperatorType
  <2>2. PlantType' BY <1>8 DEF HvWorkflow, TypeOK, PlantType
  <2> QED BY <1>8, <2>1, <2>2, Kept DEF HvWorkflow, TypeOK
<1> QED BY <1>1, <1>2, <1>3, <1>4, <1>5, <1>6, <1>7, <1>8 DEF OperatorActs

\* Type correctness, for every choice of the constants.
THEOREM Typing == Spec => []TypeOK
<1>1. Init => TypeOK
  <2> SUFFICES ASSUME Init PROVE TypeOK
      OBVIOUS
  <2>1. OperatorType BY BoundsAssumption DEF Init, OperatorType
  <2>2. RulesType
    <3>1. NoAlarm \in [Kinds -> BOOLEAN] /\ Matched \in [count : Nat, retries : Nat, due : BOOLEAN]
          BY DEF NoAlarm, Matched
    <3> QED BY <3>1, BoundsAssumption DEF Init, RulesType
  <2>3. PlantType BY DEF Init, PlantType
  <2>4. HistoryType
    <3>1. settled = FALSE /\ lowered = 0 /\ undone = {} BY DEF Init
    <3>3. last \in Reports BY NoActionTyped DEF Init
    <3>4. settled \in BOOLEAN BY <3>1
    <3>5. lowered \in Int BY <3>1
    <3>6. undone \subseteq {"failed", "retry", "renamed", "operator", "workflow"} BY <3>1
    <3> QED BY <3>3, <3>4, <3>5, <3>6 DEF HistoryType
  <2> QED BY <2>1, <2>2, <2>3, <2>4 DEF TypeOK
<1>2. TypeOK /\ [Next]_vars => TypeOK'
  <2> SUFFICES ASSUME TypeOK, [Next]_vars PROVE TypeOK'
      OBVIOUS
  <2> USE Kept DEF TypeOK
  <2>1. ASSUME NEW d \in Devices, NEW r \in Readings \cup {NoReading}, Snapshot(d, r)
        PROVE  TypeOK'
    <3>1. RulesType' BY <2>1 DEF Snapshot, RulesType, rules
    <3>2. HistoryType' BY <2>1, ReportTyped DEF Snapshot, HistoryType, NoAction
    <3> QED BY <2>1, <3>1, <3>2 DEF Snapshot
  <2>2. CASE Pass BY <2>2, PassTyping
  <2>3. CASE OperatorActs BY <2>3, OperatorTyping
  <2>4. CASE HvFinished
    <3>1. PlantType' BY <2>4 DEF HvFinished, PlantType
    <3> QED BY <2>4, <3>1 DEF HvFinished
  <2>5. CASE TimePasses
    <3>1. RulesType' BY <2>5 DEF TimePasses, RulesType
    <3> QED BY <2>5, <3>1 DEF TimePasses
  <2>6. CASE PcsChanges
    <3>1. PlantType' BY <2>6 DEF PcsChanges, PlantType
    <3> QED BY <2>6, <3>1 DEF PcsChanges
  <2>7. ASSUME NEW p \in Powers, WorkflowWrites(p) PROVE TypeOK'
    <3>1. PlantType' BY <2>7, PowersAssumption DEF WorkflowWrites, PlantType
    <3>2. HistoryType' BY <2>7 DEF WorkflowWrites, HistoryType
    <3> QED BY <2>7, <3>1, <3>2 DEF WorkflowWrites
  <2>8. CASE UNCHANGED vars BY <2>8 DEF vars
  <2> QED BY <2>1, <2>2, <2>3, <2>4, <2>5, <2>6, <2>7, <2>8 DEF Next, Polled
<1> QED BY <1>1, <1>2, PTL DEF Spec
-----------------------------------------------------------------------------
(* The latches.  Where the pass is tells which of them have been checked   *)
(* against the voltages that are still shown.                              *)

DeratingRight == Known # {} /\ runtime.derating => derating[name] = ShouldDerate
CutoffRight == Known # {} => \A k \in Kinds : cutoff[name][k] = Beyond(k, 0)

LatchInv ==
    /\ phase \in {"charge", "discharge", "tracking", "protection"} => DeratingRight
    /\ phase \in {"tracking", "protection"} => CutoffRight
    /\ phase = "idle" /\ settled => DeratingRight /\ CutoffRight

\* What the latches are compared with.
Inputs == <<runtime, strategy, name, members, shown>>

LEMMA RightKept ==
    ASSUME UNCHANGED Inputs
    PROVE  /\ UNCHANGED derating /\ DeratingRight => DeratingRight'
           /\ UNCHANGED cutoff /\ CutoffRight => CutoffRight'
<1>1. Known' = Known /\ Setting' = Setting
      BY DEF Inputs, Known, Setting
<1>2. \A k \in Kinds : \A m : Beyond(k, m)' = Beyond(k, m)
      BY <1>1 DEF Inputs, Beyond
<1>3. ShouldDerate' = ShouldDerate
  <2>1. Setting.margin' = Setting.margin BY <1>1
  <2> QED BY <1>1, <2>1 DEF Inputs, ShouldDerate, Beyond
<1> QED BY <1>1, <1>2, <1>3 DEF Inputs, DeratingRight, CutoffRight

\* A snapshot of a BMS outside the cluster changes nothing the rules look at.
LEMMA StrangerKept ==
    ASSUME TypeOK, NEW d \in Devices, NEW r, d \notin members,
           shown' = [shown EXCEPT ![d] = r],
           UNCHANGED <<runtime, strategy, name, members, derating, cutoff>>
    PROVE  /\ DeratingRight => DeratingRight'
           /\ CutoffRight => CutoffRight'
<1>1. \A e \in members : shown'[e] = shown[e]
      BY DEF TypeOK, RulesType, OperatorType
<1>2. Known' = Known /\ Setting' = Setting
      BY <1>1 DEF Known, Setting
<1>3. \A e \in Known : shown'[e] = shown[e]
      BY <1>1 DEF Known
<1>4. \A k \in Kinds : \A m : Beyond(k, m)' = Beyond(k, m)
      BY <1>2, <1>3 DEF Beyond
<1>5. ShouldDerate' = ShouldDerate
      BY <1>2, <1>3 DEF ShouldDerate, Beyond
<1> QED BY <1>2, <1>4, <1>5 DEF DeratingRight, CutoffRight

LEMMA LatchPass == TypeOK /\ LatchInv /\ Pass => LatchInv'
<1> SUFFICES ASSUME TypeOK, LatchInv, Pass PROVE LatchInv'
    OBVIOUS
<1>1. UNCHANGED Inputs
      BY DEF Inputs, Pass, CheckPowerDerating, CheckChargeCutoff, CheckDischargeCutoff,
         CheckPowerTracking, CheckPcsFaultProtection, operator
<1>n. name \in Names
      BY DEF TypeOK, OperatorType
<1>2. CASE CheckPowerDerating
  <2>1. phase' = "charge" BY <1>2 DEF CheckPowerDerating, Proceed
  <2>2. Known' = Known /\ ShouldDerate' = ShouldDerate
        BY <1>1 DEF Inputs, Known, ShouldDerate, Beyond, Setting
  <2>3. DeratingRight'
    <3>b. derating \in [Names -> BOOLEAN] BY DEF TypeOK, RulesType
    <3>1. CASE MustLatch /\ Derate
      <4>1. derating'[name] = TRUE BY <3>1, <3>b, <1>n DEF Derate
      <4> QED BY <3>1, <4>1, <2>2, <1>1 DEF MustLatch, DeratingRight, Inputs
    <3>2. CASE MustClear /\ Restore
      <4>1. derating'[name] = FALSE BY <3>2, <3>b, <1>n DEF Restore
      <4>2. ShouldDerate = FALSE BY <3>2 DEF MustClear, ShouldDerate
      <4> QED BY <4>1, <4>2, <2>2, <1>1 DEF DeratingRight, Inputs
    <3>3. CASE ~MustLatch /\ ~MustClear /\ derating' = derating
      <4>1. derating[name] \in BOOLEAN BY <3>b, <1>n
      <4>2. ShouldDerate \in BOOLEAN BY DEF ShouldDerate
      <4>3. Known # {} /\ runtime.derating => derating[name] = ShouldDerate
            BY <3>3, <4>1, <4>2 DEF MustLatch, MustClear
      <4> QED BY <3>3, <4>3, <2>2, <1>1 DEF DeratingRight, Inputs
    <3> QED BY <1>2, <3>1, <3>2, <3>3 DEF CheckPowerDerating
  <2> QED BY <2>1, <2>3 DEF LatchInv
<1>3. CASE CheckChargeCutoff
  <2>1. phase = "charge" /\ phase' = "discharge" /\ derating' = derating
        BY <1>3 DEF CheckChargeCutoff, Proceed, rules
  <2>2. DeratingRight' BY <1>1, <2>1, RightKept DEF LatchInv
  <2> QED BY <2>1, <2>2 DEF LatchInv
<1>4. CASE CheckDischargeCutoff
  <2>1. phase = "discharge" /\ phase' = "tracking" /\ derating' = derating
        BY <1>4 DEF CheckDischargeCutoff, Proceed
  <2>2. DeratingRight' BY <1>1, <2>1, RightKept DEF LatchInv
  <2>3. CutoffRight'
    <3>1. Known' = Known /\ \A k \in Kinds : Beyond(k, 0)' = Beyond(k, 0)
          BY <1>1 DEF Inputs, Known, Beyond, Setting
    <3>2. CASE Known # {}
      <4>1. cutoff'[name] = [k \in Kinds |-> Beyond(k, 0)]
            BY <1>4, <3>2, <1>n DEF CheckDischargeCutoff, StoreAlarms, TypeOK, RulesType
      <4> QED BY <4>1, <3>1, <1>1 DEF CutoffRight, Inputs
    <3> QED BY <3>1, <3>2 DEF CutoffRight
  <2> QED BY <2>1, <2>2, <2>3 DEF LatchInv
<1>5. CASE CheckPowerTracking
  <2>1. phase = "tracking" /\ phase' = "protection" /\ UNCHANGED <<derating, cutoff>>
        BY <1>5 DEF CheckPowerTracking, Proceed
  <2> QED BY <1>1, <2>1, RightKept DEF LatchInv
<1>6. CASE CheckPcsFaultProtection
  <2>1. phase = "protection" /\ phase' = "idle" /\ UNCHANGED <<derating, cutoff>>
        BY <1>6 DEF CheckPcsFaultProtection, Proceed
  <2> QED BY <1>1, <2>1, RightKept DEF LatchInv
<1> QED BY <1>2, <1>3, <1>4, <1>5, <1>6 DEF Pass

LEMMA LatchInvariance == Spec => []LatchInv
<1>1. Init => LatchInv
      BY DEF Init, LatchInv
<1>2. TypeOK /\ LatchInv /\ [Next]_vars => LatchInv'
  <2> SUFFICES ASSUME TypeOK, LatchInv, [Next]_vars PROVE LatchInv'
      OBVIOUS
  <2>1. ASSUME NEW d \in Devices, NEW r \in Readings \cup {NoReading}, Snapshot(d, r)
        PROVE  LatchInv'
    <3> USE <2>1 DEF Snapshot
    <3>1. CASE d \in members
          BY <3>1 DEF LatchInv
    <3>2. CASE d \notin members
      <4>1. UNCHANGED <<runtime, strategy, name, members, derating, cutoff, phase, settled>>
            BY <3>2 DEF operator, rules
      <4>2. phase = "idle" /\ shown' = [shown EXCEPT ![d] = r] OBVIOUS
      <4>3. (DeratingRight => DeratingRight') /\ (CutoffRight => CutoffRight')
            BY <3>2, <4>1, <4>2, StrangerKept
      <4> QED BY <4>1, <4>2, <4>3 DEF LatchInv
    <3> QED BY <3>1, <3>2
  <2>2. CASE Pass BY <2>2, LatchPass
  <2>3. ASSUME phase = "idle", UNCHANGED phase, settled' = FALSE
        PROVE  LatchInv'
        BY <2>3 DEF LatchInv
  <2>4. ASSUME UNCHANGED Inputs, UNCHANGED <<phase, settled, derating, cutoff>>
        PROVE  LatchInv'
        BY <2>4, RightKept DEF LatchInv
  <2>5. CASE OperatorActs
    <3>1. ASSUME NEW r \in Runtimes, ApplyRuntimeParams(r) PROVE LatchInv'
          BY <3>1, <2>3 DEF ApplyRuntimeParams, Act, Unpassed
    <3>2. ASSUME NEW s \in Strategies, SaveStrategy(s) PROVE LatchInv'
          BY <3>2, <2>3 DEF SaveStrategy, Act, Unpassed
    <3>3. ASSUME NEW d \in Devices, MoveBms(d) PROVE LatchInv'
          BY <3>3, <2>3 DEF MoveBms, Act, Unpassed
    <3>4. ASSUME NEW n \in Names, ApplyClusterName(n) PROVE LatchInv'
          BY <3>4, <2>3 DEF ApplyClusterName, Act
    <3>5. ASSUME NEW p \in Powers, AskPower(p) PROVE LatchInv'
          BY <3>5, <2>4 DEF AskPower, Inputs, rules, history
    <3>6. CASE AnswerPower
          BY <3>6, <2>4 DEF AnswerPower, Inputs
    <3>7. ASSUME NEW c \in {"start", "stop"}, PcsCommand(c) PROVE LatchInv'
          BY <3>7, <2>4 DEF PcsCommand, Inputs, rules, history
    <3>8. ASSUME NEW m \in {"on", "off"}, HvWorkflow(m) PROVE LatchInv'
          BY <3>8, <2>4 DEF HvWorkflow, Inputs, rules, history
    <3> QED BY <2>5, <3>1, <3>2, <3>3, <3>4, <3>5, <3>6, <3>7, <3>8 DEF OperatorActs
  <2>6. CASE HvFinished
        BY <2>6, <2>4 DEF HvFinished, Inputs, operator, rules, history
  <2>7. CASE TimePasses
        BY <2>7, <2>4 DEF TimePasses, Inputs, operator, history
  <2>8. CASE PcsChanges
        BY <2>8, <2>4 DEF PcsChanges, Inputs, operator, rules, history
  <2>9. ASSUME NEW p \in Powers, WorkflowWrites(p) PROVE LatchInv'
        BY <2>9, <2>4 DEF WorkflowWrites, Inputs, operator, rules
  <2>10. CASE UNCHANGED vars
         BY <2>10, <2>4 DEF vars, Inputs, operator, rules, history
  <2> QED BY <2>1, <2>2, <2>5, <2>6, <2>7, <2>8, <2>9, <2>10 DEF Next, Polled
<1> QED BY <1>1, <1>2, Typing, PTL DEF Spec

\* For any BMSs, thresholds and margins and any strategy, the latches agree with
\* the voltages after every pass.
THEOREM Latches == Spec => []LatchesFollowVoltages
<1>1. LatchInv => LatchesFollowVoltages
      BY DEF LatchInv, LatchesFollowVoltages, DeratingRight, CutoffRight
<1> QED BY <1>1, LatchInvariance, PTL
-----------------------------------------------------------------------------
(* The setpoint: PowerAsIntended is inductive, given the types.            *)

LEMMA PowerPass == TypeOK /\ PowerAsIntended /\ Pass => PowerAsIntended'
<1> SUFFICES ASSUME TypeOK, PowerAsIntended, Pass PROVE PowerAsIntended'
    OBVIOUS
<1>n. name \in Names /\ derating \in [Names -> BOOLEAN]
      BY DEF TypeOK, OperatorType, RulesType
<1>k. ASSUME UNCHANGED <<setpoint, undone, name, derating, lowered, userPower>>
      PROVE  PowerAsIntended'
      BY <1>k DEF PowerAsIntended
<1>1. CASE CheckPowerDerating
  <2>1. UNCHANGED <<name, userPower>>
        BY <1>1 DEF CheckPowerDerating, operator
  <2>2. CASE Derate
    <3>1. derating'[name] BY <2>2, <1>n DEF Derate
    <3> QED BY <2>1, <2>2, <3>1 DEF Derate, WriteWorks, PowerAsIntended
  <2>3. CASE Restore
    <3>1. ~derating'[name] BY <2>3, <1>n DEF Restore
    <3> QED BY <2>1, <2>3, <3>1 DEF Restore, WriteWorks, PowerAsIntended
  <2>4. CASE UNCHANGED <<power, derating, lowered, last>>
        BY <2>1, <2>4, <1>k DEF power
  <2> QED BY <1>1, <2>2, <2>3, <2>4 DEF CheckPowerDerating
<1>2. CASE CheckChargeCutoff
      BY <1>2, <1>k DEF CheckChargeCutoff, operator, rules, power
<1>3. CASE CheckDischargeCutoff
      BY <1>3, <1>k DEF CheckDischargeCutoff, operator, power
<1>4. CASE CheckPowerTracking
  <2>1. UNCHANGED <<name, userPower, derating, lowered>>
        BY <1>4 DEF CheckPowerTracking, operator
  <2>2. CASE UNCHANGED power
        BY <2>1, <2>2, <1>k DEF power
  <2>3. CASE Retried /\ (setpoint' = userPower \/ setpoint' = setpoint)
        BY <2>1, <2>3 DEF Retried, PowerAsIntended
  <2>4. UNCHANGED power \/ (Retried /\ (setpoint' = userPower \/ setpoint' = setpoint))
        BY <1>4 DEF CheckPowerTracking, Deviation, RetryWorks, RetryFails,
           WriteWorks, WriteFails, power
  <2> QED BY <2>2, <2>3, <2>4
<1>5. CASE CheckPcsFaultProtection
      BY <1>5, <1>k DEF CheckPcsFaultProtection, operator, power
<1> QED BY <1>1, <1>2, <1>3, <1>4, <1>5 DEF Pass

\* For any powers and settings, the setpoint is the derated power while the
\* cluster is derated and the operator's otherwise, unless a named event undid it.
THEOREM IntendedPower == Spec => []PowerAsIntended
<1>1. Init => PowerAsIntended
      BY DEF Init, PowerAsIntended
<1>2. TypeOK /\ PowerAsIntended /\ [Next]_vars => PowerAsIntended'
  <2> SUFFICES ASSUME TypeOK, PowerAsIntended, [Next]_vars PROVE PowerAsIntended'
      OBVIOUS
  <2>k. ASSUME UNCHANGED <<setpoint, undone, name, derating, lowered, userPower>>
        PROVE  PowerAsIntended'
        BY <2>k DEF PowerAsIntended
  <2>1. ASSUME NEW d \in Devices, NEW r \in Readings \cup {NoReading}, Snapshot(d, r)
        PROVE  PowerAsIntended'
        BY <2>1, <2>k DEF Snapshot, operator, rules, plant
  <2>2. CASE Pass BY <2>2, PowerPass
  <2>3. CASE OperatorActs
    <3>1. ASSUME NEW r \in Runtimes, ApplyRuntimeParams(r) PROVE PowerAsIntended'
          BY <3>1, <2>k DEF ApplyRuntimeParams, Unpassed, rules, plant
    <3>2. ASSUME NEW s \in Strategies, SaveStrategy(s) PROVE PowerAsIntended'
          BY <3>2, <2>k DEF SaveStrategy, Unpassed, rules, plant
    <3>3. ASSUME NEW d \in Devices, MoveBms(d) PROVE PowerAsIntended'
          BY <3>3, <2>k DEF MoveBms, Unpassed, rules, plant
    <3>4. ASSUME NEW n \in Names, ApplyClusterName(n) PROVE PowerAsIntended'
          BY <3>4 DEF ApplyClusterName, PowerAsIntended
    <3>5. ASSUME NEW p \in Powers, AskPower(p) PROVE PowerAsIntended'
          BY <3>5, <2>k DEF AskPower, rules, plant, history
    <3>6. CASE AnswerPower
      <4>1. UNCHANGED <<name, derating, lowered>>
            BY <3>6 DEF AnswerPower
      <4>2. CASE UNCHANGED <<setpoint, userPower, undone>>
            BY <4>1, <4>2, <2>k
      <4>3. CASE SetPower
            BY <4>1, <4>3 DEF SetPower, WriteWorks, PowerAsIntended
      <4> QED BY <3>6, <4>2, <4>3 DEF AnswerPower
    <3>7. ASSUME NEW c \in {"start", "stop"}, PcsCommand(c) PROVE PowerAsIntended'
          BY <3>7, <2>k DEF PcsCommand, rules, history
    <3>8. ASSUME NEW m \in {"on", "off"}, HvWorkflow(m) PROVE PowerAsIntended'
          BY <3>8, <2>k DEF HvWorkflow, rules, history
    <3> QED BY <2>3, <3>1, <3>2, <3>3, <3>4, <3>5, <3>6, <3>7, <3>8 DEF OperatorActs
  <2>4. CASE HvFinished
        BY <2>4, <2>k DEF HvFinished, operator, rules, history
  <2>5. CASE TimePasses
        BY <2>5, <2>k DEF TimePasses, operator, plant, history
  <2>6. CASE PcsChanges
        BY <2>6, <2>k DEF PcsChanges, operator, rules, history
  <2>7. ASSUME NEW p \in Powers, WorkflowWrites(p) PROVE PowerAsIntended'
        BY <2>7 DEF WorkflowWrites, PowerAsIntended
  <2>8. CASE UNCHANGED vars
        BY <2>8, <2>k DEF vars, operator, rules, plant, history
  <2> QED BY <2>1, <2>2, <2>3, <2>4, <2>5, <2>6, <2>7, <2>8 DEF Next, Polled
<1> QED BY <1>1, <1>2, Typing, PTL DEF Spec
=============================================================================
