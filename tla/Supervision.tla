---------------------------- MODULE Supervision ----------------------------
(***************************************************************************)
(* service.py and the execution of its actions, for one cluster and its    *)
(* first PCS.  Every snapshot of a BMS of the cluster makes one pass of    *)
(* four checks in the main thread.  A step is the code between two points  *)
(* at which the PCS or another thread can act; the operator waits until    *)
(* the pass is over, except that a confirmation dialog stays open.         *)
(***************************************************************************)
EXTENDS Integers

CONSTANTS
    Devices,        \* the BMSs of the site
    Names,          \* names the cluster is given
    Readings,       \* [max, min]: the cell voltages a snapshot may show
    NoReading,      \* no snapshot yet, or one without cell voltages
    Powers,         \* setpoints of the operator and of charge/discharge workflows
    NoPower,        \* the operator has not set a power yet
    ActualPowers,   \* what the PCS may show as its active power
    Runtimes,       \* the runtime parameters that can be applied
    Strategies,     \* the strategies that can be saved
    MaxCount,       \* where the confirmation counters saturate
    MaxOperator     \* bound on what the operator does

Kinds == {"charge", "discharge"}
Modes == {"Disabled", "Alarm Only", "Stop PCS", "HV Off"}
Limits == [charge : Int, discharge : Int, margin : Int, power : Int, tolerance : Int,
           cutoffMode : Modes, protectMode : Modes]
Runtime == [limits : Limits, derating : BOOLEAN, tracking : BOOLEAN, trackConfirm : Nat,
            autoRetry : BOOLEAN, maxRetry : Nat, faultConfirm : Nat]
Strategy == [enabled : BOOLEAN, overrides : Limits]
ASSUME SettingsAssumption == Runtimes \subseteq Runtime /\ Strategies \subseteq Strategy
ASSUME ReadingsAssumption == /\ Readings \subseteq [max : Int, min : Int]
                             /\ NoReading \notin Readings
ASSUME PowersAssumption == /\ Powers \cup ActualPowers \subseteq Int
                           /\ NoPower \notin Int
ASSUME BoundsAssumption == MaxCount \in Nat /\ MaxOperator \in Nat

VARIABLES
    runtime, strategy,  \* the settings of the operator
    name, members,      \* the cluster: its name, its BMSs
    shown,              \* latest_snapshots
    phase,              \* the check the pass is at, or "idle"
    derating,           \* derating_state, by cluster name
    cutoff,             \* cutoff_alarm_states, by cluster name
    userPower,          \* last_user_power_kw
    tracking,           \* counter and retry state of power tracking
    faults,             \* pcs_fault_counters
    dialog,             \* the power in an open confirmation dialog, or NoPower
    hv,                 \* hv_workers of the cluster's first BMS: "none", "on" or "off"
    pcs,                \* "ok", or "lost" when it cannot be reached
    setpoint, ordered,  \* of the PCS: active power setpoint, last start or stop
    acts,               \* what the operator has done, up to MaxOperator
    settled,            \* history: a pass is over since the operator changed something
    lowered,            \* history: the power of the last derating
    undone,             \* history: why the setpoint may not be the intended one
    last                \* history: the action of the last check, what it reported and did

operator == <<runtime, strategy, name, members, dialog, acts>>
rules == <<derating, cutoff, userPower, tracking, faults>>
plant == <<hv, pcs, setpoint, ordered>>
power == <<setpoint, undone>>
history == <<settled, lowered, undone, last>>
vars == <<operator, shown, phase, rules, plant, history>>

Abs(x) == IF x >= 0 THEN x ELSE -x
Saturate(n) == IF n < MaxCount THEN n + 1 ELSE n
NoAction == [why |-> "none", ok |-> FALSE, done |-> FALSE]
Matched == [count |-> 0, retries |-> 0, due |-> TRUE]
NoAlarm == [k \in Kinds |-> FALSE]

\* strategy_engine.get: an enabled strategy overrides the runtime parameter.
Setting == IF strategy.enabled THEN strategy.overrides ELSE runtime.limits

\* _get_cluster_voltage_stats, and its comparisons with a threshold.
Known == {d \in members : shown[d] # NoReading}
Beyond(kind, margin) ==
    IF kind = "charge" THEN \E d \in Known : shown[d].max >= Setting.charge - margin
                       ELSE \E d \in Known : shown[d].min <= Setting.discharge + margin
ShouldDerate == \E k \in Kinds : Beyond(k, Setting.margin)

Init == /\ runtime \in Runtimes /\ strategy \in Strategies
        /\ name \in Names /\ members = Devices
        /\ shown = [d \in Devices |-> NoReading]
        /\ phase = "idle"
        /\ derating = [n \in Names |-> FALSE]
        /\ cutoff = [n \in Names |-> NoAlarm]
        /\ userPower = NoPower
        /\ tracking = Matched
        /\ faults = 0
        /\ dialog = NoPower
        /\ hv = "none" /\ pcs = "ok" /\ setpoint = 0 /\ ordered = "stop"
        /\ acts = 0
        /\ settled = FALSE
        /\ lowered = 0 /\ undone = {}
        /\ last = NoAction
-----------------------------------------------------------------------------
(* The pass.                                                               *)

Proceed(from, to) == phase = from /\ phase' = to

\* on_data_received: the snapshot of a BMS outside the cluster is only kept.
Snapshot(d, r) ==
    /\ phase = "idle"
    /\ shown' = [shown EXCEPT ![d] = r]
    /\ phase' = IF d \in members THEN "derating" ELSE phase
    /\ last' = NoAction
    /\ UNCHANGED <<operator, rules, plant, settled, lowered, undone>>

\* set_active_power answers True, or it fails and may have reached the PCS.
WriteWorks(p) == pcs = "ok" /\ setpoint' = p
WriteFails(p) == setpoint' \in {setpoint} \cup (IF pcs = "ok" THEN {p} ELSE {})

\* derating and derating_recover report success whatever the PCS answered.
Derate ==
    /\ \/ WriteWorks(Setting.power) /\ undone' = {}
          /\ last' = [why |-> "derating", ok |-> TRUE, done |-> TRUE]
       \/ WriteFails(Setting.power) /\ undone' = {"failed"}
          /\ last' = [why |-> "derating", ok |-> TRUE, done |-> FALSE]
    /\ derating' = [derating EXCEPT ![name] = TRUE]
    /\ lowered' = Setting.power

MutRestore == /\ UNCHANGED <<setpoint, undone, last>>
              /\ derating' = [derating EXCEPT ![name] = FALSE]
              /\ UNCHANGED lowered
Restore ==
    /\ \/ userPower = NoPower /\ UNCHANGED <<setpoint, undone, last>>
       \/ userPower # NoPower /\ WriteWorks(userPower) /\ undone' = {}
          /\ last' = [why |-> "recover", ok |-> TRUE, done |-> TRUE]
       \/ userPower # NoPower /\ WriteFails(userPower) /\ undone' = {"failed"}
          /\ last' = [why |-> "recover", ok |-> TRUE, done |-> FALSE]
    /\ derating' = [derating EXCEPT ![name] = FALSE]
    /\ UNCHANGED lowered

MustLatch == runtime.derating /\ Known # {} /\ ShouldDerate /\ ~derating[name]
MustClear == runtime.derating /\ Known # {} /\ ~ShouldDerate /\ derating[name]

CheckPowerDerating ==
    /\ Proceed("derating", "charge")
    /\ \/ MustLatch /\ Derate
       \/ MustClear /\ Restore
       \/ ~MustLatch /\ ~MustClear /\ UNCHANGED <<power, derating, lowered, last>>
    /\ UNCHANGED <<operator, shown, cutoff, userPower, tracking, faults,
                   hv, pcs, ordered, settled>>

\* execute_pcs_stop
StopPcs(why) ==
    /\ \/ pcs = "ok" /\ ordered' = "stop" /\ last' = [why |-> why, ok |-> TRUE, done |-> TRUE]
       \/ ordered' \in {ordered} \cup (IF pcs = "ok" THEN {"stop"} ELSE {})
          /\ last' = [why |-> why, ok |-> FALSE, done |-> FALSE]
    /\ UNCHANGED hv

\* execute_hv_off: success, also when a workflow of the BMS is live.
StartHvOff(why) ==
    /\ hv' = IF hv = "none" THEN "off" ELSE hv
    /\ last' = [why |-> why, ok |-> TRUE, done |-> hv = "none"]
    /\ UNCHANGED ordered

Quiet == last' = NoAction /\ UNCHANGED <<hv, ordered>>
Execute(mode, why) ==
    \/ mode = "Stop PCS" /\ StopPcs(why)
    \/ mode = "HV Off" /\ StartHvOff(why)
    \/ mode \in {"Disabled", "Alarm Only"} /\ Quiet

\* The trigger of check_cutoff for one kind; the states are stored at the end.
Trigger(kind) ==
    \/ Beyond(kind, 0) /\ ~cutoff[name][kind] /\ Execute(Setting.cutoffMode, "cutoff")
    \/ ~(Beyond(kind, 0) /\ ~cutoff[name][kind]) /\ Quiet

CheckChargeCutoff ==
    /\ Proceed("charge", "discharge")
    /\ Trigger("charge")
    /\ UNCHANGED <<operator, shown, rules, pcs, power, settled, lowered>>

StoreAlarms(known) ==
    cutoff' = IF ~known THEN cutoff
              ELSE [cutoff EXCEPT ![name] = [k \in Kinds |-> Beyond(k, 0)]]

MutCheckDischargeCutoff ==
    /\ Proceed("discharge", "tracking")
    /\ Trigger("discharge")
    /\ cutoff' = [cutoff EXCEPT ![name] =
                    [k \in Kinds |-> Beyond(k, 0) \/ cutoff[name][k]]]
    /\ UNCHANGED <<operator, shown, derating, userPower, tracking, faults, pcs,
                   power, settled, lowered>>
CheckDischargeCutoff ==
    /\ Proceed("discharge", "tracking")
    /\ Trigger("discharge")
    /\ StoreAlarms(Known # {})
    /\ UNCHANGED <<operator, shown, derating, userPower, tracking, faults, pcs,
                   power, settled, lowered>>

\* check_power_tracking: nothing when it is off, without a target, or when the
\* PCS does not answer; otherwise the PCS shows a power.
Deviates(actual) == Abs(actual - userPower) > Setting.tolerance
MayRetry == /\ runtime.autoRetry
            /\ Saturate(tracking.count) >= runtime.trackConfirm
            /\ tracking.retries < runtime.maxRetry
            /\ tracking.due

Retried == undone' = IF derating[name] THEN undone \cup {"retry"} ELSE undone
RetryWorks == WriteWorks(userPower) /\ Retried
              /\ tracking' = [count |-> Saturate(tracking.count),
                              retries |-> tracking.retries + 1, due |-> FALSE]
RetryFails == WriteFails(userPower) /\ Retried
              /\ tracking' = [tracking EXCEPT !.count = Saturate(@)]

Deviation ==
    \/ MayRetry /\ (RetryWorks \/ RetryFails)
    \/ tracking' = [tracking EXCEPT !.count = Saturate(@)] /\ ~MayRetry /\ UNCHANGED power

CheckPowerTracking ==
    /\ Proceed("tracking", "protection")
    /\ last' = NoAction
    /\ \/ UNCHANGED <<power, tracking>>
       \/ /\ runtime.tracking /\ userPower # NoPower /\ pcs = "ok"
          /\ \E actual \in ActualPowers :
                \/ Deviates(actual) /\ Deviation
                \/ ~Deviates(actual) /\ tracking' = Matched /\ UNCHANGED power
    /\ UNCHANGED <<operator, shown, derating, cutoff, userPower, faults, hv, pcs,
                   ordered, settled, lowered>>

\* check_pcs_fault_protection: a PCS that is reached may look faulty or not, by
\* its registers or by a failing read; one that is not reached is a fault.
MutProtect(faulty) ==
    /\ faults' = IF faulty THEN Saturate(faults) ELSE 0
    /\ IF faulty /\ faults < runtime.faultConfirm /\ faults' >= runtime.faultConfirm
       THEN Execute(Setting.protectMode, "protect")
       ELSE Quiet
Protect(faulty) ==
    /\ faults' = IF faulty THEN Saturate(faults) ELSE 0
    /\ IF faulty /\ faults' >= runtime.faultConfirm
       THEN Execute(Setting.protectMode, "protect")
       ELSE Quiet

CheckPcsFaultProtection ==
    /\ Proceed("protection", "idle")
    /\ \/ runtime.limits.protectMode = "Disabled" /\ Quiet /\ UNCHANGED faults
       \/ runtime.limits.protectMode # "Disabled"
          /\ \E faulty \in BOOLEAN : (pcs = "lost" => faulty) /\ Protect(faulty)
    /\ settled' = TRUE
    /\ UNCHANGED <<operator, shown, derating, cutoff, userPower, tracking, pcs,
                   power, lowered>>

Pass == \/ CheckPowerDerating \/ CheckChargeCutoff \/ CheckDischargeCutoff
        \/ CheckPowerTracking \/ CheckPcsFaultProtection
-----------------------------------------------------------------------------
(* The operator, the other threads and the plant.                          *)

Act == phase = "idle" /\ acts < MaxOperator /\ acts' = acts + 1
Unpassed == settled' = FALSE /\ UNCHANGED <<lowered, undone, last>>

\* apply_runtime_params
ApplyRuntimeParams(r) ==
    /\ Act /\ dialog = NoPower
    /\ runtime' = r
    /\ Unpassed
    /\ UNCHANGED <<strategy, name, members, dialog, shown, phase, rules, plant>>

\* save_strategy_from_editor
SaveStrategy(s) ==
    /\ Act /\ dialog = NoPower
    /\ strategy' = s
    /\ Unpassed
    /\ UNCHANGED <<runtime, name, members, dialog, shown, phase, rules, plant>>

\* move_bms_to_cluster, out of the cluster or back into it; the BMS that then is
\* the cluster's first may have a workflow of its own.
MoveBms(d) ==
    /\ Act /\ dialog = NoPower
    /\ members' = IF d \in members THEN members \ {d} ELSE members \cup {d}
    /\ hv' \in {"none", "on", "off"}
    /\ Unpassed
    /\ UNCHANGED <<runtime, strategy, name, dialog, shown, phase, rules, pcs, setpoint, ordered>>

\* apply_cluster_name: the states of the rules stay under the old name.
ApplyClusterName(n) ==
    /\ Act /\ dialog = NoPower
    /\ name' = n
    /\ settled' = FALSE /\ undone' = undone \cup {"renamed"}
    /\ UNCHANGED <<runtime, strategy, members, dialog, shown, phase, rules, plant,
                   lowered, last>>

\* handle_set_pcs_active_power: the power is read, then the operator is asked.
AskPower(p) ==
    /\ Act /\ dialog = NoPower
    /\ dialog' = p
    /\ UNCHANGED <<runtime, strategy, name, members, shown, phase, rules, plant, history>>

SetPower ==
    \/ WriteWorks(dialog) /\ userPower' = dialog
       /\ undone' = IF derating[name] THEN undone \cup {"operator"} ELSE {}
    \/ WriteFails(dialog) /\ UNCHANGED userPower
       /\ undone' = undone \cup {"operator"}

AnswerPower ==
    /\ phase = "idle" /\ dialog # NoPower
    /\ dialog' = NoPower
    /\ SetPower \/ UNCHANGED <<setpoint, userPower, undone>>
    /\ UNCHANGED <<runtime, strategy, name, members, acts, shown, phase, derating, cutoff,
                   tracking, faults, hv, pcs, ordered, settled, lowered, last>>

\* _execute_pcs_command: Start and Stop of the PCS panel.
PcsCommand(c) ==
    /\ Act /\ dialog = NoPower
    /\ ordered' \in {ordered} \cup (IF pcs = "ok" THEN {c} ELSE {})
    /\ UNCHANGED <<runtime, strategy, name, members, dialog, shown, phase, rules,
                   hv, pcs, setpoint, history>>

\* handle_hv_on, handle_hv_off after their dialog, and the end of a workflow.
HvWorkflow(m) ==
    /\ Act
    /\ hv' = m
    /\ UNCHANGED <<runtime, strategy, name, members, dialog, shown, phase, rules,
                   pcs, setpoint, ordered, history>>

HvFinished ==
    /\ hv # "none" /\ hv' = "none"
    /\ UNCHANGED <<operator, shown, phase, rules, pcs, setpoint, ordered, history>>

\* A charge/discharge workflow commands a power.
WorkflowWrites(p) ==
    /\ pcs = "ok" /\ setpoint' = p
    /\ undone' = undone \cup {"workflow"}
    /\ UNCHANGED <<operator, shown, phase, rules, hv, pcs, ordered,
                   settled, lowered, last>>

\* The retry interval passes.
TimePasses ==
    /\ ~tracking.due
    /\ tracking' = [tracking EXCEPT !.due = TRUE]
    /\ UNCHANGED <<operator, shown, phase, derating, cutoff, userPower, faults, plant, history>>

PcsChanges ==
    /\ pcs' = IF pcs = "ok" THEN "lost" ELSE "ok"
    /\ UNCHANGED <<operator, shown, phase, rules, hv, setpoint, ordered, history>>

OperatorActs ==
    \/ \E r \in Runtimes : ApplyRuntimeParams(r)
    \/ \E s \in Strategies : SaveStrategy(s)
    \/ \E d \in Devices : MoveBms(d)
    \/ \E n \in Names : ApplyClusterName(n)
    \/ \E p \in Powers : AskPower(p)
    \/ AnswerPower
    \/ \E c \in {"start", "stop"} : PcsCommand(c)
    \/ \E m \in {"on", "off"} : HvWorkflow(m)

Polled(d) == \E r \in Readings \cup {NoReading} : Snapshot(d, r)

Next == \/ \E d \in Devices : Polled(d)
        \/ Pass \/ OperatorActs \/ HvFinished \/ TimePasses \/ PcsChanges
        \/ \E p \in Powers : WorkflowWrites(p)

Spec == Init /\ [][Next]_vars

\* Every BMS is polled again and again, a pass goes on, a workflow ends.
FairSpec == /\ Spec
            /\ WF_vars(Pass) /\ WF_vars(HvFinished)
            /\ \A d \in Devices : SF_vars(Polled(d))
-----------------------------------------------------------------------------
(* Properties.                                                             *)

\* Every variable has its type.
OperatorType == /\ runtime \in Runtimes /\ strategy \in Strategies
                /\ name \in Names /\ members \subseteq Devices
                /\ dialog \in Powers \cup {NoPower}
                /\ acts \in 0..MaxOperator
RulesType == /\ shown \in [Devices -> Readings \cup {NoReading}]
             /\ phase \in {"idle", "derating", "charge", "discharge", "tracking", "protection"}
             /\ derating \in [Names -> BOOLEAN]
             /\ cutoff \in [Names -> [Kinds -> BOOLEAN]]
             /\ userPower \in Powers \cup {NoPower}
             /\ tracking \in [count : Nat, retries : Nat, due : BOOLEAN]
             /\ faults \in 0..MaxCount
PlantType == /\ hv \in {"none", "on", "off"}
             /\ pcs \in {"ok", "lost"}
             /\ setpoint \in Int
             /\ ordered \in {"start", "stop"}
Reports == [why : {"none", "derating", "recover", "cutoff", "protect"},
            ok : BOOLEAN, done : BOOLEAN]
HistoryType == /\ settled \in BOOLEAN
               /\ lowered \in Int
               /\ undone \subseteq {"failed", "retry", "renamed", "operator", "workflow"}
               /\ last \in Reports
TypeOK == OperatorType /\ RulesType /\ PlantType /\ HistoryType

\* After every pass the two latches agree with the voltages of all BMSs of the
\* cluster, whichever of them sent the snapshot, until the operator changes a
\* parameter, the strategy, the members or the name of the cluster: no episode is
\* missed, and none is held after the last BMS has left it.
LatchesFollowVoltages ==
    settled /\ phase = "idle" /\ Known # {} =>
        /\ runtime.derating => derating[name] = ShouldDerate
        /\ \A k \in Kinds : cutoff[name][k] = Beyond(k, 0)

\* As long as no write failed, nobody else wrote and no retry interfered, the
\* setpoint of the PCS is the derated power while the cluster is derated, and what
\* the operator last set otherwise: it is restored when the derating ends.
PowerAsIntended ==
    undone = {} /\ (derating[name] \/ userPower # NoPower)
        => setpoint = IF derating[name] THEN lowered ELSE userPower

\* A PCS that stays lost is answered with HV OFF again and again, although a
\* request is dropped while another workflow runs: the protection asks on every
\* pass.  (The cutoff asks once.)
LostPcsLeadsToHvOff ==
    <>[](/\ pcs = "lost" /\ members # {}
         /\ runtime.limits.protectMode # "Disabled" /\ Setting.protectMode = "HV Off")
        => []<>(hv = "off")
=============================================================================
