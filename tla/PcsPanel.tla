------------------------------ MODULE PcsPanel ------------------------------
(***************************************************************************)
(* The PCS part of the control page for one cluster: the buttons, the      *)
(* heartbeat and the dispatch of a total power over the PCSs of the        *)
(* cluster.  All of it runs in the main thread.  A confirmation dialog     *)
(* runs the event loop, so the heartbeat's timer fires behind it; a        *)
(* workflow thread may write the power of a PCS at any moment.             *)
(*                                                                         *)
(* In fake mode a client is a simulator that accepts everything but a      *)
(* heartbeat, and the PCSs keep what they have.                            *)
(*                                                                         *)
(* A cluster names its PCSs; a name that the PCS configurations do not     *)
(* have is taken for the current PCS.  Every configured PCS is a device of *)
(* its own.                                                                *)
(***************************************************************************)
EXTENDS Registers, PowerClamp, FiniteSets, Functions, FiniteSetsExt

CONSTANTS
    Cluster,        \* the PCSs of the dispatch's cluster, in order
    Others,         \* PCSs that are not in it
    Files,          \* the PCSs that a configuration file may have
    Rated,          \* the rated power that the file gives each, its weight
    PowerPoint,     \* the point "set_active_power" of each
    HeartbeatSize,  \* 65536
    Requests,       \* total powers the operator asks for, in units
    Margins,        \* clamp margins, in percent
    ClusterLimits,  \* <<power, current, voltage>> a BMS may report
    ThreadPowers,   \* powers a charge/discharge workflow writes, in units
    MaxActs         \* bound on what the operator and the workflows do

Pcs == Range(Cluster)
Devices == Pcs \cup Others
ASSUME ClusterAssumption == Cluster \in Seq(Pcs) \ {<<>>} /\ IsInjective(Cluster)
ASSUME FilesAssumption == /\ Files \subseteq (SUBSET Devices) \ {{}}
                          /\ Rated \in [Devices -> Nat]
ASSUME PointAssumption == PowerPoint \in [Devices -> Points]
ASSUME HeartbeatAssumption == HeartbeatSize \in 2..WordSize
ASSUME InputsAssumption == /\ Requests \cup ThreadPowers \subseteq Int
                           /\ Margins \subseteq 1..100
                           /\ ClusterLimits \subseteq Nat \X Nat \X Nat
ASSUME ActsAssumption == MaxActs \in Nat

VARIABLES
    mode,       \* "Real" or "Fake"
    configured, \* the PCSs that have a configuration
    enabled,    \* those whose configuration is enabled
    rated,      \* the rated power in each configuration
    current,    \* the current PCS
    selected,   \* the PCS in the combo box
    heartbeat,  \* the timer and the value of the next heartbeat
    job,        \* the handler that is under way
    reachable,  \* the PCSs whose connection works
    power, command, beat,   \* the registers of the devices
    acts        \* what was done, up to MaxActs

configs == <<configured, enabled, rated, current, selected>>
panel == <<mode, configs>>
plant == <<power, command, beat>>
panelVars == <<panel, heartbeat, job, reachable, plant, acts>>

Modes == {"Real", "Fake"}
Idle == [kind |-> "none"]

\* The registers that hold a power in units.
Registered(d, units) == Encode(Raw(units, PowerPoint[d]), PowerPoint[d])

PanelInit == /\ mode \in Modes /\ configured \in Files /\ enabled = configured
        /\ rated = Rated /\ current \in configured /\ selected = current
        /\ heartbeat = [running |-> FALSE, value |-> 0]
        /\ job = Idle /\ reachable = Devices
        /\ power = [d \in Devices |-> Registered(d, 0)]
        /\ command = [d \in Devices |-> 0] /\ beat = [d \in Devices |-> 0]
        /\ acts = 0

(* The power a PCS takes from its registers, which it reads as signed.     *)
Setpoint(d) == LET point == PowerPoint[d]
                   word == IF Wide(point) THEN Joined(power[d], point) ELSE power[d][1]
               IN  Physical(ToSigned(word, Values(point)), point)

\* get_pcs_config_by_name: the host of a name without a configuration is that
\* of the current PCS.
Device(p) == IF p \in configured THEN p ELSE current

(***************************************************************************)
(* A write to a device that is reachable, and accepts it, or one that      *)
(* fails, possibly after it took the value: it returns False or raises.    *)
(***************************************************************************)
Accepted == [taken |-> TRUE, reply |-> "True"]
Simulated == [taken |-> FALSE, reply |-> "True"]
Failed == [taken : BOOLEAN, reply : {"False", "raises"}]
Outcomes(d, how) == IF how = "Fake" THEN {Simulated}
                    ELSE IF d \in reachable THEN {Accepted} ELSE Failed
Written(register, d, value, out) == IF out.taken THEN [register EXCEPT ![d] = value] ELSE register

MayAct == acts < MaxActs /\ acts' = acts + 1
Free == job = Idle
Looping == Free \/ job.kind = "dialog"     \* the event loop runs

(***************************************************************************)
(* The settings the panel depends on.                                      *)
(***************************************************************************)
ApplyMode(m) == /\ Free /\ MayAct /\ mode' = m
                /\ UNCHANGED <<configs, heartbeat, job, reachable, plant>>

\* The form has no rated power, so an edit loses it; the PCS becomes the
\* current one, and the combo box stays where it is.
EditPcs(p, on) == /\ Free /\ MayAct
                  /\ configured' = configured \cup {p} /\ current' = p
                  /\ enabled' = IF on THEN enabled \cup {p} ELSE enabled \ {p}
                  /\ rated' = [rated EXCEPT ![p] = 1]
                  /\ UNCHANGED <<mode, selected, heartbeat, job, reachable, plant>>

SelectPcs(p) == /\ Free /\ MayAct /\ p \in configured
                /\ selected' = p /\ current' = p
                /\ UNCHANGED <<mode, configured, enabled, rated, heartbeat, job, reachable, plant>>

\* The button of the device table.
SetCurrent(p) == /\ Free /\ MayAct /\ p \in configured /\ current' = p
                 /\ UNCHANGED <<mode, configured, enabled, rated, selected>>
                 /\ UNCHANGED <<heartbeat, job, reachable, plant>>

(***************************************************************************)
(* The heartbeat of the selected PCS.  connect raises when its             *)
(* configuration is not enabled, and a simulator has no send_heartbeat.    *)
(***************************************************************************)
MutBeaten == LET v == heartbeat.value IN
    IF mode = "Fake" \/ selected \notin enabled
    THEN heartbeat' = [heartbeat EXCEPT !.running = TRUE] /\ UNCHANGED beat
    ELSE \E out \in Outcomes(selected, mode) :
            /\ beat' = Written(beat, selected, v, out)
            /\ heartbeat' = [running |-> TRUE,
                             value |-> IF out.reply = "True" THEN v ELSE (v + 1) % HeartbeatSize]
Beaten == LET v == heartbeat.value IN
    IF mode = "Fake" \/ selected \notin enabled
    THEN heartbeat' = [heartbeat EXCEPT !.running = TRUE] /\ UNCHANGED beat
    ELSE \E out \in Outcomes(selected, mode) :
            /\ beat' = Written(beat, selected, v, out)
            /\ heartbeat' = [running |-> TRUE,
                             value |-> IF out.reply = "True" THEN (v + 1) % HeartbeatSize ELSE v]

StartHeartbeat == /\ Free /\ MayAct /\ Beaten
                  /\ UNCHANGED <<panel, job, reachable, power, command>>
Tick == /\ Looping /\ heartbeat.running /\ Beaten
        /\ UNCHANGED <<panel, job, reachable, power, command, acts>>
StopHeartbeat == /\ Free /\ MayAct /\ heartbeat' = [heartbeat EXCEPT !.running = FALSE]
                 /\ UNCHANGED <<panel, job, reachable, plant>>

(***************************************************************************)
(* The buttons.  A plain one goes to the first PCS of the cluster that the *)
(* control device is in and looks at nothing before; a debug one goes to   *)
(* the selected PCS and reads its condition first.                         *)
(***************************************************************************)
Commands == {"start", "stop", "hv_on", "hv_off", "close_dc_breaker", "open_dc_breaker", "reset_fault"}
DebugCommands == {"start", "stop", "hv_on", "hv_off"}
Starting == {"start", "hv_on", "close_dc_breaker"}
\* start, hv_on and close_dc_breaker write 1 and the others 0 to one register;
\* reset_fault has another.
CommandValue(c) == IF c \in Starting THEN 1 ELSE 0

Ask(question) == /\ Free /\ MayAct /\ job' = question
                 /\ UNCHANGED <<panel, heartbeat, reachable, plant>>
AskCommand(c) == Ask([kind |-> "dialog", asks |-> "command", command |-> c])
AskDebug(c) == Ask([kind |-> "dialog", asks |-> "debug", command |-> c])

Decline == /\ job.kind = "dialog" /\ job' = Idle
           /\ UNCHANGED <<panel, heartbeat, reachable, plant, acts>>

Asked(what) == job.kind = "dialog" /\ job.asks = what
Execute(d, c) == \E out \in Outcomes(d, mode) :
    command' = IF c = "reset_fault" THEN command ELSE Written(command, d, CommandValue(c), out)

ConfirmCommand == LET d == Device(Cluster[1]) IN
    /\ Asked("command")
    /\ IF mode = "Fake" \/ d \in enabled THEN Execute(d, job.command) ELSE UNCHANGED command
    /\ job' = Idle
    /\ UNCHANGED <<panel, heartbeat, reachable, power, beat, acts>>

\* precheck_control_ready: a register that cannot be read stops every command.
Ready(c, remote, condition) ==
    remote = "remote" /\ condition # "unread" /\ (condition = "fault" => c \notin Starting)

ConfirmDebug ==
    /\ Asked("debug")
    /\ \E remote \in {"remote", "local", "unread"}, condition \in {"healthy", "fault", "unread"} :
        IF mode = "Fake" \/ (selected \in enabled /\ Ready(job.command, remote, condition))
        THEN Execute(selected, job.command) ELSE UNCHANGED command
    /\ job' = Idle
    /\ UNCHANGED <<panel, heartbeat, reachable, power, beat, acts>>

(***************************************************************************)
(* Cluster dispatch.  The clients are made when the dialog opens, one for  *)
(* each name of the cluster; when it is confirmed, the limit is read and   *)
(* all shares are computed before the first is written.  Totals are in     *)
(* hundredths of a unit.                                                   *)
(***************************************************************************)
NoClamp == 0    \* the margin of a dispatch that does not use the BMS limit
Clients == [p \in Pcs |-> Device(p)]

AskDispatch(request, margin, weighted) ==
    Ask([kind |-> "dialog", asks |-> "dispatch", request |-> request, margin |-> margin,
         weighted |-> weighted, mode |-> mode, clients |-> Clients])

\* clamp_total_power
MutTotal(request, allowed, margin) ==
    IF margin = NoClamp \/ allowed = NoNumber THEN 100 * request
    ELSE IF 100 * request <= allowed * margin THEN 100 * request ELSE allowed * margin
Total(request, allowed, margin) ==
    IF margin = NoClamp \/ allowed = NoNumber THEN 100 * request
    ELSE LET final == IF 100 * Abs(request) <= allowed * margin THEN 100 * Abs(request)
                                                               ELSE allowed * margin
         IN  IF request >= 0 THEN final ELSE -final

\* equal_split and capacity_weighted, and the rounding of dispatch_once to whole
\* kW; a PCS without a configuration counts with a weight of 1.
SumOf(f, S) == MapThenSumSet(LAMBDA p : f[p], S)
Weights == [p \in Pcs |-> IF p \in configured THEN rated[p] ELSE 1]
MutShare(p, members, total, weighted) ==
    IF weighted /\ SumOf(Weights, Pcs) > 0
    THEN RoundedQuotient(total * Weights[p], 100 * UnitsPerKw * SumOf(Weights, Pcs))
    ELSE RoundedQuotient(total, 100 * UnitsPerKw * Cardinality(Pcs))
Share(p, members, total, weighted) ==
    IF weighted /\ SumOf(Weights, members) > 0
    THEN RoundedQuotient(total * Weights[p], 100 * UnitsPerKw * SumOf(Weights, members))
    ELSE RoundedQuotient(total, 100 * UnitsPerKw * Cardinality(members))

\* allocate leaves out only a PCS whose configuration is disabled.
Members == {p \in Pcs : p \in configured => p \in enabled}

\* What BMS and cluster_workflow make of the limits; reading them may fail.
Allowed == {AllowedPower(l) : l \in ClusterLimits} \cup {NoNumber}

ConfirmDispatch ==
    /\ Asked("dispatch")
    /\ \/ job' = Idle
       \/ \E allowed \in Allowed : LET total == Total(job.request, allowed, job.margin) IN
            job' = [kind |-> "dispatch", mode |-> job.mode, clients |-> job.clients,
                    limit |-> IF job.margin = NoClamp THEN NoNumber ELSE allowed * job.margin,
                    total |-> total, members |-> Members,
                    shares |-> [p \in Pcs |-> IF p \in Members
                                            THEN Share(p, Members, total, job.weighted) ELSE 0],
                    todo |-> Members, astray |-> {}]
    /\ UNCHANGED <<panel, heartbeat, reachable, plant, acts>>

\* Both loops take the PCSs in their order.
First(todo) == Cluster[Min({i \in DOMAIN Cluster : Cluster[i] \in todo})]
Astray(d, out) == IF out.reply = "True" THEN job.astray ELSE job.astray \cup {d}

\* A share that cannot be written ends the loop, one that is refused does not.
DispatchOne == LET p == First(job.todo)
                   d == job.clients[p] IN
    /\ job.kind = "dispatch" /\ job.todo # {}
    /\ \E out \in Outcomes(d, job.mode) :
        /\ power' = Written(power, d, Registered(d, UnitsPerKw * job.shares[p]), out)
        /\ job' = IF out.reply = "raises" THEN Idle
                  ELSE [job EXCEPT !.todo = @ \ {p}, !.astray = Astray(d, out)]
    /\ UNCHANGED <<panel, heartbeat, reachable, command, beat, acts>>

AskStopAll == Ask([kind |-> "dialog", asks |-> "stop", mode |-> mode, clients |-> Clients])

ConfirmStopAll ==
    /\ Asked("stop")
    /\ job' = [kind |-> "stop", mode |-> job.mode, clients |-> job.clients, todo |-> Pcs, astray |-> {}]
    /\ UNCHANGED <<panel, heartbeat, reachable, plant, acts>>

\* Zero power and stop, whatever became of the calls before.
MutStopOne == LET p == First(job.todo)
                  d == job.clients[p] IN
    /\ job.kind = "stop" /\ job.todo # {}
    /\ \E zero, stop \in Outcomes(d, job.mode) :
        /\ power' = Written(power, d, Registered(d, 0), zero)
        /\ command' = Written(command, d, 0, stop)
        /\ job' = [job EXCEPT !.todo = IF "raises" \in {zero.reply, stop.reply} THEN {} ELSE @ \ {p},
                              !.astray = Astray(d, zero) \cup Astray(d, stop)]
    /\ UNCHANGED <<panel, heartbeat, reachable, beat, acts>>
StopOne == LET p == First(job.todo)
               d == job.clients[p] IN
    /\ job.kind = "stop" /\ job.todo # {}
    /\ \E zero, stop \in Outcomes(d, job.mode) :
        /\ power' = Written(power, d, Registered(d, 0), zero)
        /\ command' = Written(command, d, 0, stop)
        /\ job' = [job EXCEPT !.todo = @ \ {p}, !.astray = Astray(d, zero) \cup Astray(d, stop)]
    /\ UNCHANGED <<panel, heartbeat, reachable, beat, acts>>

Working == job.kind \in {"dispatch", "stop"}
Finish == /\ Working /\ job.todo = {} /\ job' = Idle
          /\ UNCHANGED <<panel, heartbeat, reachable, plant, acts>>

(***************************************************************************)
(* A workflow thread writes the power of a device; a connection comes or   *)
(* goes.                                                                   *)
(***************************************************************************)
ThreadWrites(d, units) ==
    /\ MayAct /\ d \in reachable
    /\ power' = [power EXCEPT ![d] = Registered(d, units)]
    /\ job' = IF Working THEN [job EXCEPT !.astray = @ \cup {d}] ELSE job
    /\ UNCHANGED <<panel, heartbeat, reachable, command, beat>>

Line(d) == /\ reachable' = IF d \in reachable THEN reachable \ {d} ELSE reachable \cup {d}
           /\ UNCHANGED <<panel, heartbeat, job, plant, acts>>

Operator ==
    \/ \E m \in Modes : ApplyMode(m)
    \/ \E p \in Devices : SelectPcs(p) \/ SetCurrent(p) \/ \E on \in BOOLEAN : EditPcs(p, on)
    \/ StartHeartbeat \/ StopHeartbeat
    \/ \E c \in Commands : AskCommand(c)
    \/ \E c \in DebugCommands : AskDebug(c)
    \/ \E request \in Requests, margin \in Margins \cup {NoClamp}, weighted \in BOOLEAN :
            AskDispatch(request, margin, weighted)
    \/ AskStopAll
    \/ Decline \/ ConfirmCommand \/ ConfirmDebug \/ ConfirmDispatch \/ ConfirmStopAll

JobStep == DispatchOne \/ StopOne \/ Finish

PanelNext == \/ Operator \/ Tick \/ JobStep
        \/ \E d \in Devices : Line(d) \/ \E units \in ThreadPowers : ThreadWrites(d, units)

PanelSpec == PanelInit /\ [][PanelNext]_panelVars

(* Qt fires a timer that is due whenever the event loop runs, and the main *)
(* thread goes on with the handler it is in.                               *)
PanelFairSpec == PanelSpec /\ WF_panelVars(Tick) /\ WF_panelVars(JobStep)
-----------------------------------------------------------------------------
Questions ==
    [kind : {"dialog"}, asks : {"command", "debug"}, command : Commands]
    \cup [kind : {"dialog"}, asks : {"dispatch"}, request : Requests, margin : Margins \cup {NoClamp},
          weighted : BOOLEAN, mode : Modes, clients : [Pcs -> Devices]]
    \cup [kind : {"dialog"}, asks : {"stop"}, mode : Modes, clients : [Pcs -> Devices]]
Dispatches ==
    [kind : {"dispatch"}, mode : Modes, clients : [Pcs -> Devices], limit : Nat, total : Int,
     members : SUBSET Pcs, shares : [Pcs -> Int],
     todo : SUBSET Pcs, astray : SUBSET Devices]
Stops ==
    [kind : {"stop"}, mode : Modes, clients : [Pcs -> Devices], todo : SUBSET Pcs,
     astray : SUBSET Devices]

(* The selected and the current PCS have a configuration, the registers    *)
(* hold words, and the handler under way has its data.                     *)
PanelTypeOK == /\ mode \in Modes /\ configured \subseteq Devices /\ enabled \subseteq configured
          /\ rated \in [Devices -> Nat] /\ {current, selected} \subseteq configured
          /\ heartbeat \in [running : BOOLEAN, value : 0..HeartbeatSize - 1]
          /\ job \in {Idle} \cup Questions \cup Dispatches \cup Stops
          /\ reachable \subseteq Devices
          /\ power \in [Devices -> [1..1 -> Word] \cup [1..2 -> Word]]
          /\ command \in [Devices -> {0, 1}] /\ beat \in [Devices -> Word]
          /\ acts \in 0..MaxActs

(* A register takes a power that is in the signed range of its type; of    *)
(* another one, pcs_client.py:124 and 125 leave the low bits.              *)
Fits(d, units) == LET raw == Raw(units, PowerPoint[d]) IN
    -Values(PowerPoint[d]) <= 2 * raw /\ 2 * raw < Values(PowerPoint[d])

\* The members whose share is the last one that was written to their device.
Place(p) == CHOOSE i \in DOMAIN Cluster : Cluster[i] = p
Holders(members, clients) ==
    {p \in members : \A q \in members : clients[q] = clients[p] => Place(q) <= Place(p)}

(* "The BMS limit is treated as the total cluster limit"                   *)
(* (cluster_power_allocator.py:18): when the last share is written, none   *)
(* was refused, no workflow interfered and each fits its register, the     *)
(* PCSs that take part stay within limit and margin between them, and, if  *)
(* each is a device of its own, they have the total, but for what the      *)
(* rounding to whole kW and to a step of the register may add for each;    *)
(* and none works against the others by more than half a step.             *)
SetpointsAddUp ==
    job.kind = "dispatch" /\ job.todo = {} /\ job.mode = "Real" /\ job.astray = {}
    /\ (\A p \in job.members : Fits(job.clients[p], UnitsPerKw * job.shares[p])) =>
        LET holders == Holders(job.members, job.clients)
            held == [p \in holders |-> Setpoint(job.clients[p])]
            step == [p \in holders |-> PowerPoint[job.clients[p]].scale]
            given == 100 * SumOf(held, holders)
            rounding == 50 * (UnitsPerKw * Cardinality(holders) + SumOf(step, holders))
        IN /\ holders = job.members /\ holders # {} => Abs(given - job.total) <= rounding
           /\ job.limit # NoNumber => Abs(given) <= job.limit + rounding
           /\ \A p \in holders : /\ job.total >= 0 => 2 * held[p] >= -step[p]
                                 /\ job.total <= 0 => 2 * held[p] <= step[p]

(* "Stop all" leaves every PCS that could be reached at zero and stopped,  *)
(* enabled or not, whatever happened to the calls to the others.           *)
StopReachesAll ==
    job.kind = "stop" /\ job.todo = {} /\ job.mode = "Real" =>
        \A p \in Pcs : LET d == job.clients[p] IN
            d \notin job.astray => power[d] = Registered(d, 0) /\ command[d] = 0

(* The selected PCS sees its heartbeat change again and again once it can  *)
(* be reached for good, whatever dialogs are open and whichever writes     *)
(* failed or were taken without a reply before.                            *)
Beating(p) == heartbeat.running /\ mode = "Real" /\ selected = p /\ p \in enabled \cap reachable
HeartbeatKeepsChanging ==
    \A p \in Devices : <>[]Beating(p) => []<><<beat'[p] # beat[p]>>_panelVars
=============================================================================
