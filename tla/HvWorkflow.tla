----------------------------- MODULE HvWorkflow -----------------------------
(***************************************************************************)
(* hv_controller.py: the threads that take one BMS and its PCS to and from *)
(* high voltage.  Each thread runs HvWorkflowController.hv_on or hv_off;   *)
(* a step of the model is the code between two points at which another     *)
(* thread or a device can act: one call on a Modbus client, or one check   *)
(* of the stop flag.  Every call may fail (an error reply, an exception, a *)
(* refused connection), and a command may take effect although its reply   *)
(* is lost.  The registers the BMS and the PCS own change freely.          *)
(***************************************************************************)
EXTENDS Integers, FiniteSets

CONSTANT Workers        \* the workflow threads of one device
ASSUME WorkersAssumption == IsFiniteSet(Workers)

VARIABLES
    mode,       \* mode[w]: "on" or "off"
    ignore,     \* ignore[w]: ignore_pcs_checks
    pc,         \* where thread w is
    stop,       \* stop[w]: _stop_requested
    outcome,    \* the value hv_on or hv_off returned
    bmsOpen,    \* threads whose BMS client is connected
    pcsOpen,    \* threads whose PCS client is connected
    emsCmd,     \* register 0381 of the BMS: "stay", "on" or "off"
    ready,      \* register 0302 of the BMS is 1
    powerOn,    \* register 0301 of the BMS is 1
    breaker,    \* DC breaker status of the PCS
    loaded,     \* abs(active power of the PCS) > pcs_zero_power_threshold
    toldAt      \* history: where w was when it was told to stop, or "none"

thread == <<mode, ignore>>
clients == <<bmsOpen, pcsOpen>>
device == <<ready, powerOn, breaker, loaded>>
vars == <<thread, pc, stop, outcome, clients, emsCmd, device, toldAt>>

Modes == {"on", "off"}
Breakers == {"open", "closed", "moving"}
Ended == {"idle", "done"}
\* Where run() is while its controller executes.
Running == {"begin", "status", "pcsConnect", "precheck", "breaker", "power",
            "pcsStop", "waitZero", "gateCmd", "writeCmd", "waitReady",
            "gatePcs", "pcsHvOn", "waitBreaker", "gateStay", "writeStay"}

Live(w) == pc[w] \notin Ended

Init == /\ mode = [w \in Workers |-> "on"]
        /\ ignore = [w \in Workers |-> FALSE]
        /\ pc = [w \in Workers |-> "idle"]
        /\ stop = [w \in Workers |-> FALSE]
        /\ outcome = [w \in Workers |-> "none"]
        /\ bmsOpen = {}
        /\ pcsOpen = {}
        /\ emsCmd \in {"stay", "on", "off"}
        /\ ready \in BOOLEAN /\ powerOn \in BOOLEAN /\ loaded \in BOOLEAN
        /\ breaker \in Breakers
        /\ toldAt = [w \in Workers |-> "none"]
-----------------------------------------------------------------------------
(* The thread object and its flag.                                         *)

\* HvWorkflowWorker(...) and start(): a new thread object, with new clients
\* (an identity that has ended is used again for the next thread).
Launch(w, m, ign) ==
    /\ ~Live(w)
    /\ mode' = [mode EXCEPT ![w] = m]
    /\ ignore' = [ignore EXCEPT ![w] = ign]
    /\ pc' = [pc EXCEPT ![w] = "begin"]
    /\ stop' = [stop EXCEPT ![w] = FALSE]
    /\ outcome' = [outcome EXCEPT ![w] = "none"]
    /\ bmsOpen' = bmsOpen \ {w}
    /\ pcsOpen' = pcsOpen \ {w}
    /\ toldAt' = [toldAt EXCEPT ![w] = "none"]
    /\ UNCHANGED <<emsCmd, device>>

\* HvWorkflowWorker.stop()
RequestStop(w) ==
    /\ Live(w) /\ ~stop[w]
    /\ stop' = [stop EXCEPT ![w] = TRUE]
    /\ toldAt' = [toldAt EXCEPT ![w] = pc[w]]
    /\ UNCHANGED <<thread, pc, outcome, clients, emsCmd, device>>

Goto(w, label) == /\ pc' = [pc EXCEPT ![w] = label]
                  /\ UNCHANGED <<outcome, bmsOpen>>

\* Leaving hv_on or hv_off; the outer "finally" closes the BMS client.
MutReturn(w, res) == /\ pc' = [pc EXCEPT ![w] = "returned"]
                     /\ outcome' = [outcome EXCEPT ![w] = res]
                     /\ UNCHANGED bmsOpen
Return(w, res) == /\ pc' = [pc EXCEPT ![w] = "returned"]
                  /\ outcome' = [outcome EXCEPT ![w] = res]
                  /\ bmsOpen' = bmsOpen \ {w}

\* The end of run(): finished_callback is called in this thread.
Finish(w) == /\ pc[w] = "returned"
             /\ pc' = [pc EXCEPT ![w] = "done"]
             /\ UNCHANGED <<thread, stop, outcome, clients, emsCmd, device, toldAt>>

ClosePcs(w) == pcsOpen' = pcsOpen \ {w}
-----------------------------------------------------------------------------
(* The prechecks.                                                          *)

\* The first stop check and bms_client.connect().
Begin(w) ==
    /\ pc[w] = "begin"
    /\ \/ Return(w, "fail")
       \/ /\ ~stop[w]
          /\ bmsOpen' = bmsOpen \cup {w}
          /\ pc' = [pc EXCEPT ![w] = IF mode[w] = "on" THEN "status"
                                     ELSE IF ignore[w] THEN "gateCmd"
                                     ELSE "pcsConnect"]
          /\ UNCHANGED outcome
    /\ UNCHANGED <<thread, stop, pcsOpen, emsCmd, device, toldAt>>

\* HV ON: register 0302 must be 1.
ReadStatus(w) ==
    /\ pc[w] = "status"
    /\ \/ ready /\ Goto(w, IF ignore[w] THEN "gateCmd" ELSE "pcsConnect")
       \/ Return(w, "fail")
    /\ UNCHANGED <<thread, stop, pcsOpen, emsCmd, device, toldAt>>

PcsConnect(w) ==
    /\ pc[w] = "pcsConnect"
    /\ \/ Goto(w, "precheck") /\ pcsOpen' = pcsOpen \cup {w}
       \/ Return(w, "fail") /\ UNCHANGED pcsOpen
    /\ UNCHANGED <<thread, stop, emsCmd, device, toldAt>>

\* precheck_control_ready(); returning on its errors leaves the PCS client open.
Precheck(w) ==
    /\ pc[w] = "precheck"
    /\ \/ Goto(w, IF mode[w] = "on" THEN "breaker" ELSE "power")
       \/ Return(w, "fail")
    /\ UNCHANGED <<thread, stop, pcsOpen, emsCmd, device, toldAt>>

\* HV ON: the DC breaker must be open; the client is closed either way.
MutCheckBreaker(w) ==
    /\ pc[w] = "breaker"
    /\ \/ Goto(w, "gateCmd")
       \/ Return(w, "fail")
    /\ ClosePcs(w)
    /\ UNCHANGED <<thread, stop, emsCmd, device, toldAt>>
CheckBreaker(w) ==
    /\ pc[w] = "breaker"
    /\ \/ breaker = "open" /\ Goto(w, "gateCmd")
       \/ Return(w, "fail")
    /\ ClosePcs(w)
    /\ UNCHANGED <<thread, stop, emsCmd, device, toldAt>>

\* HV OFF: the PCS is stopped first when its active power is not zero.
ReadPower(w) ==
    /\ pc[w] = "power"
    /\ \/ ~loaded /\ Goto(w, "gateCmd") /\ ClosePcs(w)
       \/ loaded /\ Goto(w, "pcsStop") /\ UNCHANGED pcsOpen
       \/ Return(w, "fail") /\ ClosePcs(w)
    /\ UNCHANGED <<thread, stop, emsCmd, device, toldAt>>

PcsStop(w) ==
    /\ pc[w] = "pcsStop"
    /\ \/ Goto(w, "waitZero") /\ UNCHANGED pcsOpen
       \/ Return(w, "fail") /\ ClosePcs(w)
    /\ UNCHANGED <<thread, stop, emsCmd, device, toldAt>>
-----------------------------------------------------------------------------
(* _wait_until: every poll checks the stop flag, then the condition; the   *)
(* timeout, the stop flag and an exception of the condition all end in the *)
(* failure of the workflow.                                                *)

WaitZero(w) ==
    /\ pc[w] = "waitZero"
    /\ \/ ~stop[w] /\ ~loaded /\ Goto(w, "gateCmd")
       \/ Return(w, "fail")
    /\ ClosePcs(w)
    /\ UNCHANGED <<thread, stop, emsCmd, device, toldAt>>

WaitReady(w) ==
    /\ pc[w] = "waitReady"
    /\ \/ ~stop[w] /\ powerOn = (mode[w] = "on") /\ Goto(w, "gatePcs")
       \/ Return(w, "fail")
    /\ UNCHANGED <<thread, stop, pcsOpen, emsCmd, device, toldAt>>

MutWaitBreaker(w) ==
    /\ pc[w] = "waitBreaker"
    /\ ~stop[w]
    /\ breaker = IF mode[w] = "on" THEN "closed" ELSE "open"
    /\ Goto(w, "gateStay")
    /\ ClosePcs(w)
    /\ UNCHANGED <<thread, stop, emsCmd, device, toldAt>>
WaitBreaker(w) ==
    /\ pc[w] = "waitBreaker"
    /\ \/ /\ ~stop[w]
          /\ breaker = IF mode[w] = "on" THEN "closed" ELSE "open"
          /\ Goto(w, "gateStay")
       \/ Return(w, "fail")
    /\ ClosePcs(w)
    /\ UNCHANGED <<thread, stop, emsCmd, device, toldAt>>
-----------------------------------------------------------------------------
(* The stop checks between the stages, and the commands they guard.        *)

MutGateCmd(w) ==
    /\ pc[w] = "gateCmd"
    /\ Goto(w, "writeCmd")
    /\ UNCHANGED <<thread, stop, pcsOpen, emsCmd, device, toldAt>>
GateCmd(w) ==
    /\ pc[w] = "gateCmd"
    /\ IF stop[w] THEN Return(w, "fail") ELSE Goto(w, "writeCmd")
    /\ UNCHANGED <<thread, stop, pcsOpen, emsCmd, device, toldAt>>

\* write_ems_cmd_power_on / _power_off.  A failed write is one the BMS
\* refused, or one whose reply was lost.
MutWriteCmd(w) ==
    /\ pc[w] = "writeCmd"
    /\ Goto(w, "waitReady") /\ emsCmd' \in {emsCmd, mode[w]}
    /\ UNCHANGED <<thread, stop, pcsOpen, device, toldAt>>
WriteCmd(w) ==
    /\ pc[w] = "writeCmd"
    /\ \/ Goto(w, "waitReady") /\ emsCmd' = mode[w]
       \/ Return(w, "fail") /\ emsCmd' \in {emsCmd, mode[w]}
    /\ UNCHANGED <<thread, stop, pcsOpen, device, toldAt>>

\* The stop check before the PCS stage and pcs_client.connect().  With
\* ignore_pcs_checks the stage is left out.
GatePcs(w) ==
    /\ pc[w] = "gatePcs"
    /\ \/ ignore[w] /\ Goto(w, "gateStay") /\ UNCHANGED pcsOpen
          /\ (mode[w] = "on" => ~stop[w])
       \/ /\ ~ignore[w] /\ ~stop[w]
          /\ Goto(w, IF mode[w] = "on" THEN "pcsHvOn" ELSE "waitBreaker")
          /\ pcsOpen' = pcsOpen \cup {w}
       \/ (ignore[w] => mode[w] = "on" /\ stop[w]) /\ Return(w, "fail")
          /\ UNCHANGED pcsOpen
    /\ UNCHANGED <<thread, stop, emsCmd, device, toldAt>>

PcsHvOn(w) ==
    /\ pc[w] = "pcsHvOn"
    /\ \/ Goto(w, "waitBreaker") /\ UNCHANGED pcsOpen
       \/ Return(w, "fail") /\ ClosePcs(w)
    /\ UNCHANGED <<thread, stop, emsCmd, device, toldAt>>

GateStay(w) ==
    /\ pc[w] = "gateStay"
    /\ IF stop[w] THEN Return(w, "fail") ELSE Goto(w, "writeStay")
    /\ UNCHANGED <<thread, stop, pcsOpen, emsCmd, device, toldAt>>

WriteStay(w) ==
    /\ pc[w] = "writeStay"
    /\ \/ Return(w, "ok") /\ emsCmd' = "stay"
       \/ Return(w, "fail") /\ emsCmd' \in {emsCmd, "stay"}
    /\ UNCHANGED <<thread, stop, pcsOpen, device, toldAt>>
-----------------------------------------------------------------------------
Controller(w) ==
    \/ Begin(w) \/ ReadStatus(w) \/ PcsConnect(w) \/ Precheck(w)
    \/ CheckBreaker(w) \/ ReadPower(w) \/ PcsStop(w) \/ WaitZero(w)
    \/ GateCmd(w) \/ WriteCmd(w) \/ WaitReady(w) \/ GatePcs(w)
    \/ PcsHvOn(w) \/ WaitBreaker(w) \/ GateStay(w) \/ WriteStay(w)

\* The BMS and the PCS change what they show, one register at a time.
DeviceChanges ==
    /\ \/ ready' = ~ready /\ UNCHANGED <<powerOn, breaker, loaded>>
       \/ powerOn' = ~powerOn /\ UNCHANGED <<ready, breaker, loaded>>
       \/ breaker' \in Breakers \ {breaker} /\ UNCHANGED <<ready, powerOn, loaded>>
       \/ loaded' = ~loaded /\ UNCHANGED <<ready, powerOn, breaker>>
    /\ UNCHANGED <<thread, pc, stop, outcome, clients, emsCmd, toldAt>>

Next == \/ \E w \in Workers :
              \/ \E m \in Modes, ign \in BOOLEAN : Launch(w, m, ign)
              \/ RequestStop(w) \/ Controller(w) \/ Finish(w)
        \/ DeviceChanges

Spec == Init /\ [][Next]_vars

\* A thread that can run does; every call has a timeout and every wait ends
\* by step_timeout at the latest.
FairSpec == Spec /\ \A w \in Workers : WF_vars(Controller(w) \/ Finish(w))
-----------------------------------------------------------------------------
(* Properties.                                                             *)

\* Every variable has its type.
TypeOK == /\ mode \in [Workers -> Modes]
          /\ ignore \in [Workers -> BOOLEAN]
          /\ pc \in [Workers -> Running \cup Ended \cup {"returned"}]
          /\ stop \in [Workers -> BOOLEAN]
          /\ outcome \in [Workers -> {"none", "ok", "fail"}]
          /\ bmsOpen \subseteq Workers
          /\ pcsOpen \subseteq Workers
          /\ emsCmd \in {"stay", "on", "off"}
          /\ ready \in BOOLEAN /\ powerOn \in BOOLEAN /\ loaded \in BOOLEAN
          /\ breaker \in Breakers
          /\ toldAt \in [Workers -> Running \cup {"none", "returned"}]

\* Cancelling takes effect at once.  A thread that has been told to stop does
\* not write register 0381 and does not order the PCS to high voltage any more,
\* except for the command it was about to send when the flag was set: each of
\* these commands has a stop check of its own, whatever the waits before it do.
CancelTakesEffect ==
    \A w \in Workers :
       stop[w] /\ pc[w] \in {"writeCmd", "pcsHvOn", "writeStay"} => toldAt[w] = pc[w]

\* A thread that is over holds no connection to the BMS, and one to the PCS
\* only when it failed: the early return on precheck errors (hv_controller.py
\* 114-118, 237-241) is outside the "finally" that closes the PCS client.
NoConnectionLeft ==
    \A w \in Workers :
       pc[w] \in Ended \cup {"returned"} =>
          w \notin bmsOpen /\ (w \in pcsOpen => outcome[w] = "fail")

\* What hv_on and hv_off do on the devices is what the class docstring lists,
\* in that order, success last: the workflow implements HvSequence.
NextItemOn(l, ign) ==
    IF l \in {"begin", "status"} THEN "statusReady"
    ELSE IF l \in {"pcsConnect", "precheck", "breaker"} THEN "breakerOpen"
    ELSE IF l \in {"gateCmd", "writeCmd"} THEN "powerOnCmd"
    ELSE IF l = "waitReady" THEN "bmsOn"
    ELSE IF l \in {"gatePcs", "pcsHvOn"} /\ ~ign THEN "pcsHvOn"
    ELSE "stayCmd"

NextItemOff(l, ign) ==
    IF l \in {"gateCmd", "writeCmd"} THEN "powerOffCmd"
    ELSE IF l = "waitReady" THEN "bmsOff"
    ELSE IF l \in {"gatePcs", "waitBreaker", "gateStay", "writeStay"} THEN "stayCmd"
    ELSE IF ign THEN "powerOffCmd" ELSE "powerZero"

NextItem(l, m, ign) == IF l \notin Running THEN "none"
                       ELSE IF m = "on" THEN NextItemOn(l, ign)
                       ELSE NextItemOff(l, ign)

Sequence == INSTANCE HvSequence
               WITH pending <- [w \in Workers |-> NextItem(pc[w], mode[w], ignore[w])]
ImplementsSequence == Sequence!Spec

\* To the rest of the program a thread is what HvThread says.
Phase(l) == IF l \in Ended THEN "idle"
            ELSE IF l = "returned" THEN "returned"
            ELSE IF l \in {"waitReady", "gatePcs", "pcsHvOn", "waitBreaker",
                           "gateStay", "writeStay"} THEN "commanded"
            ELSE "run"
Thread == INSTANCE HvThread WITH phase <- [w \in Workers |-> Phase(pc[w])]
ImplementsThread == Thread!ThreadSpec

\* A workflow that was started ends, whatever the devices answer.
EveryWorkflowEnds == \A w \in Workers : Live(w) ~> ~Live(w)
=============================================================================
