-------------------------- MODULE ChargeDischarge --------------------------
(***************************************************************************)
(* charge_discharge_workflow.py and charge_discharge_mixin.py: the start   *)
(* and the stop workflow of one BMS and its PCS.  charge_discharge_workers *)
(* is keyed by device and action, so that one thread of each kind can be   *)
(* live at a time, both at once included.  A step is the code between two  *)
(* points at which the other thread, the BMS or the PCS can act.  Any call *)
(* may fail, and a failed write may have reached the device.  Statuses are *)
(* read as anything; the heartbeats the workflows send are left out.       *)
(* What the registers of the PCS make of a setpoint is in Registers.       *)
(***************************************************************************)
EXTENDS PowerClamp

CONSTANTS
    StartSettings,      \* the settings of the start workflows
    StopSettings,       \* the settings of the stop workflows
    LimitReadings,      \* the limits and the voltage the BMS may show
    ActualPowers,       \* what the PCS may show as its active power
    MaxLimitChanges     \* bound on the changes of the BMS limits during a workflow

Settings == [target : Int, step : Nat \ {0}, follow : BOOLEAN, clamp : BOOLEAN,
             autoHv : BOOLEAN, autoStart : BOOLEAN, autoStop : BOOLEAN, hvOff : BOOLEAN]
ASSUME SettingsAssumption == StartSettings \cup StopSettings \subseteq Settings
ASSUME LimitsAssumption == /\ LimitReadings \subseteq Int \X Int \X Int
                           /\ MaxLimitChanges \in Nat
ASSUME PowersAssumption == ActualPowers \subseteq Int

VARIABLES
    settings,   \* settings[a]: the ChargeDischargeSettings of worker a
    pc,         \* where worker a is
    stop,       \* stop[a]: _stop_requested
    outcome,    \* outcome[a]: what finished_callback was told
    ramp,       \* the locals of ramp_power: current, effective_target, next_value
    last,       \* _last_commanded_power_kw of the start worker
    down,       \* "current" in ramp_down_to_zero
    setpoint,   \* active power setpoint of the PCS, in whole kW
    ordered,    \* the start or stop command the PCS took last
    emsCmd,     \* register 0381 of the BMS
    limits,     \* the limits the BMS shows
    changes,    \* how often they have changed since a start workflow began
    told,       \* history: commands that raise power since "start" was told to stop
    lost,       \* history: a write of the closing sequence of a failed
    met         \* history: the other worker has been live since a was started

locals == <<stop, ramp, last, down, told>>
device == <<setpoint, ordered, emsCmd>>
bms == <<limits, changes>>
vars == <<settings, pc, outcome, locals, device, bms, lost, met>>

Workers == {"start", "stop"}
Other(a) == IF a = "start" THEN "stop" ELSE "start"
Live(a) == pc[a] # "idle"
S == settings["start"]
NoRamp == [current |-> 0, effective |-> 0, next |-> 0]
AllSettings == [start |-> StartSettings, stop |-> StopSettings]

Init == /\ settings \in [Workers -> StartSettings \cup StopSettings]
        /\ \A a \in Workers : settings[a] \in AllSettings[a]
        /\ pc = [a \in Workers |-> "idle"]
        /\ stop = [a \in Workers |-> FALSE]
        /\ outcome = [a \in Workers |-> "none"]
        /\ ramp = NoRamp
        /\ last = 0 /\ down = 0
        /\ setpoint = 0 /\ ordered = "stop" /\ emsCmd = "stay"
        /\ limits \in LimitReadings /\ changes = 0
        /\ told = 0
        /\ lost = [a \in Workers |-> FALSE]
        /\ met = [a \in Workers |-> FALSE]

\* _start_cd_worker
Launch(a, s) ==
    /\ ~Live(a)
    /\ settings' = [settings EXCEPT ![a] = s]
    /\ pc' = [pc EXCEPT ![a] = "connect"]
    /\ outcome' = [outcome EXCEPT ![a] = "none"]
    /\ lost' = [lost EXCEPT ![a] = FALSE]
    /\ met' = [b \in Workers |-> IF b = a THEN Live(Other(a)) ELSE TRUE]
    /\ changes' = IF a = "start" THEN 0 ELSE changes
    /\ UNCHANGED <<locals, device, limits>>

\* handle_cd_cancel_workflow: every worker is told to stop.
Cancel ==
    /\ \E a \in Workers : Live(a) /\ ~stop[a]
    /\ stop' = [a \in Workers |-> Live(a)]
    /\ UNCHANGED <<settings, pc, outcome, ramp, last, down, told, device, bms, lost, met>>

\* The BMS shows other limits.
LimitsChange ==
    /\ changes < MaxLimitChanges
    /\ limits' \in LimitReadings \ {limits}
    /\ changes' = changes + 1
    /\ UNCHANGED <<settings, pc, outcome, locals, device, lost, met>>

Goto(a, label) == pc' = [pc EXCEPT ![a] = label] /\ UNCHANGED outcome

\* The end of run(): finished_callback drops the worker of this action, and its
\* thread and its controller are gone.
Return(a, res) == /\ pc' = [pc EXCEPT ![a] = "idle"]
                  /\ outcome' = [outcome EXCEPT ![a] = res]
                  /\ stop' = [stop EXCEPT ![a] = FALSE]
                  /\ IF a = "start"
                     THEN ramp' = NoRamp /\ last' = 0 /\ told' = 0 /\ UNCHANGED down
                     ELSE down' = 0 /\ UNCHANGED <<ramp, last, told>>

\* Every exception of run_start ends in emergency_stop.
Fail == Goto("start", "emZero")

\* A command that raises power was sent by the start worker.
Raised == told' = IF stop["start"] THEN told + 1 ELSE told
Lose(a) == lost' = [lost EXCEPT ![a] = TRUE]
-----------------------------------------------------------------------------
(* run_start, up to the ramp.                                              *)

\* connect and precheck.
StartPrechecks ==
    /\ pc["start"] = "connect"
    /\ (Goto("start", "hvOn") \/ Fail)
    /\ UNCHANGED <<settings, locals, device, bms, lost, met>>

\* bms_hv_on
HvOn ==
    /\ pc["start"] = "hvOn"
    /\ \/ ~S.autoHv /\ (Goto("start", "pcsStart") \/ Fail) /\ UNCHANGED <<emsCmd, told>>
       \/ S.autoHv /\ Goto("start", "hvWait") /\ emsCmd' = "on" /\ Raised
       \/ S.autoHv /\ Fail /\ emsCmd' \in {emsCmd, "on"} /\ Raised
    /\ UNCHANGED <<settings, stop, ramp, last, down, setpoint, ordered, bms, lost, met>>

\* _wait_until looks at the stop flag before every poll.
MutHvWait ==
    /\ pc["start"] = "hvWait" /\ ~stop["start"]
    /\ Goto("start", "hvStay")
    /\ UNCHANGED <<settings, locals, device, bms, lost, met>>
HvWait ==
    /\ pc["start"] = "hvWait"
    /\ \/ ~stop["start"] /\ Goto("start", "hvStay")
       \/ Fail
    /\ UNCHANGED <<settings, locals, device, bms, lost, met>>

HvStay ==
    /\ pc["start"] = "hvStay"
    /\ \/ Goto("start", "pcsStart") /\ emsCmd' = "stay"
       \/ Fail /\ emsCmd' \in {emsCmd, "stay"}
    /\ UNCHANGED <<settings, locals, setpoint, ordered, bms, lost, met>>

\* pcs_start
PcsStart ==
    /\ pc["start"] = "pcsStart"
    /\ \/ ~S.autoStart /\ Goto("start", "ramp") /\ UNCHANGED <<ordered, told>>
       \/ S.autoStart /\ Goto("start", "pcsWait") /\ ordered' = "start" /\ Raised
       \/ S.autoStart /\ Fail /\ ordered' \in {ordered, "start"} /\ Raised
    /\ UNCHANGED <<settings, stop, ramp, last, down, setpoint, emsCmd, bms, lost, met>>

PcsWait ==
    /\ pc["start"] = "pcsWait"
    /\ \/ ~stop["start"] /\ Goto("start", "ramp")
       \/ Fail
    /\ UNCHANGED <<settings, locals, device, bms, lost, met>>
-----------------------------------------------------------------------------
(* ramp_power and monitor_running.                                         *)

Effective == IF S.clamp THEN Clamp(S.target, AllowedPower(limits), S.follow) ELSE S.target

\* _set_pcs_active_power_with_record: the PCS gets whole kW, and what is recorded
\* is the power before the rounding.  True, or failed.
SetPower(power) == setpoint' = WholeKw(power) /\ last' = power
SetPowerFails(power) == setpoint' \in {setpoint, WholeKw(power)} /\ UNCHANGED last

\* Up to the loop; a target of zero is written at once.
RampBegin ==
    /\ pc["start"] = "ramp"
    /\ \/ S.target = 0 /\ Goto("start", "monitor") /\ SetPower(0)
       \/ S.target = 0 /\ Fail /\ SetPowerFails(0)
       \/ S.target # 0 /\ (Goto("start", "rampTop") \/ Fail) /\ UNCHANGED <<setpoint, last>>
    /\ UNCHANGED <<settings, stop, ramp, down, ordered, emsCmd, bms, told, lost, met>>

\* The locals are gone when ramp_power is left.
RampFails == Fail /\ ramp' = NoRamp

\* The stop flag, the clamp and the next value.
MutRampTop ==
    /\ pc["start"] = "rampTop"
    /\ \/ Goto("start", "rampSafety")
          /\ ramp' = [ramp EXCEPT !.effective = Effective,
                                  !.next = Towards(ramp.current, Effective, S.step)]
       \/ RampFails
    /\ UNCHANGED <<settings, stop, last, down, device, bms, told, lost, met>>
RampTop ==
    /\ pc["start"] = "rampTop"
    /\ \/ ~stop["start"] /\ Goto("start", "rampSafety")
          /\ ramp' = [ramp EXCEPT !.effective = Effective,
                                  !.next = Towards(ramp.current, Effective, S.step)]
       \/ RampFails
    /\ UNCHANGED <<settings, stop, last, down, device, bms, told, lost, met>>

\* _monitor_safety_once: a fault, an error, or a limit that is half a kW smaller
\* than what was commanded last, if that was more than 0.1 kW.
Negligible(power) == 10 * Abs(power) <= UnitsPerKw
Adjusted == Clamp(last, AllowedPower(limits), S.follow)
MutMustReduce == S.clamp /\ S.follow /\ ~Negligible(last)
                 /\ 2 * Abs(Adjusted) < 2 * Abs(last) - UnitsPerKw
MustReduce == S.clamp /\ ~Negligible(last)
              /\ 2 * Abs(Adjusted) < 2 * Abs(last) - UnitsPerKw

Reduced(next) == Goto("start", next) /\ SetPower(Adjusted)

RampSafety ==
    /\ pc["start"] = "rampSafety"
    /\ \/ MustReduce /\ Reduced("rampWrite") /\ UNCHANGED ramp
       \/ MustReduce /\ RampFails /\ SetPowerFails(Adjusted)
       \/ ~MustReduce /\ Goto("start", "rampWrite") /\ UNCHANGED <<ramp, setpoint, last>>
       \/ RampFails /\ UNCHANGED <<setpoint, last>>
    /\ UNCHANGED <<settings, stop, down, ordered, emsCmd, bms, told, lost, met>>

RampWrite ==
    /\ pc["start"] = "rampWrite"
    /\ \/ /\ SetPower(ramp.next)
          /\ \/ ramp.next = ramp.effective /\ Goto("start", "monitor") /\ ramp' = NoRamp
             \/ ramp.next # ramp.effective /\ Goto("start", "rampSleep")
                /\ ramp' = [ramp EXCEPT !.current = ramp.next]
       \/ RampFails /\ SetPowerFails(ramp.next)
    /\ Raised
    /\ UNCHANGED <<settings, stop, down, ordered, emsCmd, bms, lost, met>>

RampSleep ==
    /\ pc["start"] = "rampSleep"
    /\ \/ stop["start"] /\ RampFails
       \/ Goto("start", "rampTop") /\ UNCHANGED ramp
    /\ UNCHANGED <<settings, stop, last, down, told, device, bms, lost, met>>

\* monitor_running: a safety check, and further ones until three seconds are over.
Monitor ==
    /\ pc["start"] \in {"monitor", "monitored"}
    /\ \/ ~stop["start"] /\ MustReduce /\ Reduced("monitored")
       \/ ~stop["start"] /\ MustReduce /\ Fail /\ SetPowerFails(Adjusted)
       \/ ~stop["start"] /\ ~MustReduce /\ Goto("start", "monitored")
          /\ UNCHANGED <<setpoint, last>>
       \/ Fail /\ UNCHANGED <<setpoint, last>>
    /\ UNCHANGED <<settings, stop, ramp, down, ordered, emsCmd, bms, told, lost, met>>

\* Then run_start returns True.
StartDone ==
    /\ pc["start"] = "monitored"
    /\ Return("start", "ok")
    /\ UNCHANGED <<settings, device, bms, lost, met>>

\* emergency_stop: neither call is repeated when it fails.
EmergencyZero ==
    /\ pc["start"] = "emZero"
    /\ Goto("start", "emStop")
    /\ \/ SetPower(0) /\ UNCHANGED lost
       \/ SetPowerFails(0) /\ Lose("start")
    /\ UNCHANGED <<settings, stop, ramp, down, ordered, emsCmd, bms, told, met>>

MutEmergencyStop ==
    /\ pc["start"] = "emStop"
    /\ Return("start", "fail")
    /\ UNCHANGED <<settings, device, bms, lost, met>>
EmergencyStop ==
    /\ pc["start"] = "emStop"
    /\ Return("start", "fail")
    /\ \/ ordered' = "stop" /\ UNCHANGED lost
       \/ ordered' \in {ordered, "stop"} /\ Lose("start")
    /\ UNCHANGED <<settings, setpoint, emsCmd, bms, met>>
-----------------------------------------------------------------------------
(* run_stop.                                                               *)

\* A client that does not connect ends the workflow before the PCS is touched.
StopConnect ==
    /\ pc["stop"] = "connect"
    /\ \/ Goto("stop", "downRead") /\ UNCHANGED locals
       \/ Return("stop", "fail")
    /\ UNCHANGED <<settings, device, bms, lost, met>>

\* ramp_down_to_zero starts at the measured power; an error counts as zero.
DownRead ==
    /\ pc["stop"] = "downRead"
    /\ down' \in ActualPowers \cup {0}
    /\ Goto("stop", IF Negligible(down') THEN "downZero" ELSE "downWrite")
    /\ UNCHANGED <<settings, stop, ramp, last, device, bms, told, lost, met>>

\* One step of the ramp; a refused write is not noticed, an exception ends it.
DownWrite ==
    /\ pc["stop"] = "downWrite"
    /\ LET next == Towards(down, 0, settings["stop"].step)
       IN  \/ /\ ~stop["stop"]
              /\ setpoint' \in {setpoint, WholeKw(next)} /\ down' = next
              /\ Goto("stop", IF Negligible(next) THEN "downZero" ELSE "downWrite")
           \/ ~stop["stop"] /\ setpoint' \in {setpoint, WholeKw(next)} /\ Goto("stop", "downZero")
              /\ UNCHANGED down
           \/ stop["stop"] /\ Goto("stop", "downZero") /\ UNCHANGED <<setpoint, down>>
    /\ UNCHANGED <<settings, stop, ramp, last, ordered, emsCmd, bms, told, lost, met>>

MutDownZero ==
    /\ pc["stop"] = "downZero"
    /\ Goto("stop", "downStop")
    /\ UNCHANGED <<settings, locals, device, bms, lost, met>>
DownZero ==
    /\ pc["stop"] = "downZero"
    /\ Goto("stop", "downStop")
    /\ \/ setpoint' = 0 /\ UNCHANGED lost
       \/ setpoint' \in {setpoint, 0} /\ Lose("stop")
    /\ UNCHANGED <<settings, stop, ramp, last, down, ordered, emsCmd, bms, told, met>>

DownStop ==
    /\ pc["stop"] = "downStop"
    /\ IF settings["stop"].hvOff THEN Goto("stop", "hvOff") /\ UNCHANGED locals
                                 ELSE Return("stop", "ok")
    /\ \/ ~settings["stop"].autoStop /\ UNCHANGED <<ordered, lost>>
       \/ settings["stop"].autoStop /\ ordered' = "stop" /\ UNCHANGED lost
       \/ settings["stop"].autoStop /\ ordered' \in {ordered, "stop"} /\ Lose("stop")
    /\ UNCHANGED <<settings, setpoint, emsCmd, bms, met>>

\* Power Off, the wait for 0301 (whatever it returns), Stay; an exception of
\* the first write leaves out the rest.
HvOff ==
    /\ pc["stop"] = "hvOff"
    /\ emsCmd' \in {emsCmd, "off"}
    /\ \/ Goto("stop", "hvOffStay") /\ UNCHANGED locals
       \/ Return("stop", "ok")
    /\ UNCHANGED <<settings, setpoint, ordered, bms, lost, met>>

HvOffStay ==
    /\ pc["stop"] = "hvOffStay"
    /\ emsCmd' \in {emsCmd, "stay"}
    /\ Return("stop", "ok")
    /\ UNCHANGED <<settings, setpoint, ordered, bms, lost, met>>
-----------------------------------------------------------------------------
StartStep == \/ StartPrechecks \/ HvOn \/ HvWait \/ HvStay \/ PcsStart \/ PcsWait
             \/ RampBegin \/ RampTop \/ RampSafety \/ RampWrite \/ RampSleep
             \/ Monitor \/ StartDone \/ EmergencyZero \/ EmergencyStop
StopStep == \/ StopConnect \/ DownRead \/ DownWrite \/ DownZero \/ DownStop
            \/ HvOff \/ HvOffStay

Next == \/ \E a \in Workers : \E s \in AllSettings[a] : Launch(a, s)
        \/ Cancel \/ LimitsChange \/ StartStep \/ StopStep

Spec == Init /\ [][Next]_vars

\* Both threads run; every call and every wait has a timeout.
FairSpec == Spec /\ WF_vars(StartStep) /\ WF_vars(StopStep)
-----------------------------------------------------------------------------
(* Properties.                                                             *)

StartLabels == {"hvOn", "hvWait", "hvStay", "pcsStart", "pcsWait", "ramp", "rampTop",
                "rampSafety", "rampWrite", "rampSleep", "monitor", "monitored",
                "emZero", "emStop"}
StopLabels == {"downRead", "downWrite", "downZero", "downStop", "hvOff", "hvOffStay"}

\* Every variable has its type.
SettingsType == /\ settings \in [Workers -> StartSettings \cup StopSettings]
                /\ \A a \in Workers : settings[a] \in AllSettings[a]
ThreadType == /\ pc \in [Workers -> {"idle", "connect"} \cup StartLabels \cup StopLabels]
              /\ pc["start"] \notin StopLabels /\ pc["stop"] \notin StartLabels
              /\ stop \in [Workers -> BOOLEAN]
              /\ outcome \in [Workers -> {"none", "ok", "fail"}]
              /\ lost \in [Workers -> BOOLEAN]
              /\ met \in [Workers -> BOOLEAN]
PowerType == /\ ramp \in [current : Int, effective : Int, next : Int]
             /\ last \in Int /\ down \in Int /\ setpoint \in Int
DeviceType == /\ ordered \in {"start", "stop"}
              /\ emsCmd \in {"stay", "on", "off"}
              /\ limits \in LimitReadings
              /\ changes \in 0..MaxLimitChanges
              /\ told \in Nat
TypeOK == SettingsType /\ ThreadType /\ PowerType /\ DeviceType

\* "Default clamp mode uses your target power and only reduces it"
\* (control_page.py 431), up to the rounding: whatever limits the BMS shows and
\* however they change between two reads, a start workflow in that mode writes
\* no setpoint beyond the whole kW next to the target and none of the other sign.
\* So a target of 50.6 kW may be exceeded by 0.4 kW, and none by more than 0.5.
Within(x, target) == IF target >= 0 THEN 0 <= x /\ x <= target
                                    ELSE target <= x /\ x <= 0
NeverBeyondTarget ==
    [][setpoint' # setpoint /\ ~S.follow /\ StartStep
        => Within(setpoint', WholeKw(S.target))]_vars

\* A limit that sinks is followed: whatever was commanded while it sank, a safety
\* check of the monitoring, without which no start workflow reports success,
\* leaves the PCS at no more than the limit it has read, but for the half kW the
\* check tolerates and the half kW of the rounding.
LimitIsKept ==
    [][pc'["start"] = "monitored" /\ StartStep /\ S.clamp /\ ~met["start"]
          /\ AllowedPower(limits) # NoNumber
        => UnitsPerKw * Abs(setpoint') <= AllowedPower(limits) + UnitsPerKw]_vars

\* Cancelling holds: a start workflow that has been told to stop sends at most
\* one more command that raises power (0381 = 2, PCS start or a step of the
\* ramp), the one whose stop check it had already passed.
CancelTakesEffect == told <= 1

\* "Any failed check triggers a safe stop: set PCS active power to 0, then PCS
\* stop": a start workflow that failed has left the PCS so, when the two calls
\* of emergency_stop worked and no stop workflow was live at the same time.
FailedStartIsSafe ==
    pc["start"] = "idle" /\ outcome["start"] = "fail" /\ ~lost["start"] /\ ~met["start"]
        => setpoint = 0 /\ ordered = "stop"

\* A stop workflow that reported success has left the PCS at zero, and stopped
\* when it was to stop it, if its last writes worked and no start workflow was
\* live at the same time.
StoppedMeansStopped ==
    pc["stop"] = "idle" /\ outcome["stop"] = "ok" /\ ~lost["stop"] /\ ~met["stop"]
        => setpoint = 0 /\ (settings["stop"].autoStop => ordered = "stop")

\* Both workflows end, however the devices answer.
WorkflowsEnd == \A a \in Workers : Live(a) ~> ~Live(a)

\* "Charge/discharge workflow stopped.": at the moment a stop workflow reports
\* this with all its writes taken, the PCS is at zero.
StopWins ==
    [][outcome["stop"]' = "ok" /\ outcome["stop"] = "none" /\ ~lost["stop"]'
          => setpoint' = 0]_vars
=============================================================================
