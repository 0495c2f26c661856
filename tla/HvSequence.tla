----------------------------- MODULE HvSequence -----------------------------
(***************************************************************************)
(* What the docstring of HvWorkflowController promises of a high-voltage   *)
(* workflow: its items happen one at a time, in the order they are listed, *)
(* and success is reported only after the last of them.  When the operator *)
(* ticked "Ignore PCS checks" the items that concern the PCS are left out. *)
(* The registers the items read belong to the BMS and to the PCS and may   *)
(* change at any time; register 0381 changes only by an item.              *)
(***************************************************************************)
CONSTANT Workers        \* the workflow threads

VARIABLES
    mode,       \* mode[w]: "on" or "off"
    ignore,     \* ignore[w]: the PCS items are left out
    pending,    \* pending[w]: the item w has to do next, "none" if there is none
    outcome,    \* outcome[w]: "none", "ok" or "fail"
    emsCmd,     \* register 0381: "stay", "on" or "off"
    ready,      \* register 0302 = 1
    powerOn,    \* register 0301 = 1
    breaker,    \* the DC breaker of the PCS: "open", "closed" or "moving"
    loaded      \* the active power of the PCS is above the zero threshold

device == <<ready, powerOn, breaker, loaded>>
vars == <<mode, ignore, pending, outcome, emsCmd, device>>

\* The first item of a workflow.
First(m, ign) == IF m = "on" THEN "statusReady"
                 ELSE IF ign THEN "powerOffCmd" ELSE "powerZero"

\* The item that follows item i, "none" after the last one.
After(i, ign) ==
    IF i = "statusReady" /\ ~ign THEN "breakerOpen"
    ELSE IF i \in {"statusReady", "breakerOpen"} THEN "powerOnCmd"
    ELSE IF i = "powerOnCmd" THEN "bmsOn"
    ELSE IF i = "bmsOn" /\ ~ign THEN "pcsHvOn"
    ELSE IF i = "powerZero" THEN "powerOffCmd"
    ELSE IF i = "powerOffCmd" THEN "bmsOff"
    ELSE IF i \in {"bmsOn", "pcsHvOn", "bmsOff"} THEN "stayCmd"
    ELSE "none"

\* What item i observes on the devices.
Observes(i) ==
    /\ i = "statusReady" => ready
    /\ i = "breakerOpen" => breaker = "open"
    /\ i = "powerZero"   => ~loaded
    /\ i = "bmsOn"       => powerOn
    /\ i = "bmsOff"      => ~powerOn

\* What item i leaves in register 0381.
Writes(i) == IF i = "powerOnCmd" THEN "on"
             ELSE IF i = "powerOffCmd" THEN "off"
             ELSE IF i = "stayCmd" THEN "stay"
             ELSE emsCmd

Init == /\ mode = [w \in Workers |-> "on"]
        /\ ignore = [w \in Workers |-> FALSE]
        /\ pending = [w \in Workers |-> "none"]
        /\ outcome = [w \in Workers |-> "none"]
        /\ emsCmd \in {"stay", "on", "off"}
        /\ ready \in BOOLEAN /\ powerOn \in BOOLEAN /\ loaded \in BOOLEAN
        /\ breaker \in {"open", "closed", "moving"}

Start(w, m, ign) ==
    /\ pending[w] = "none"
    /\ mode' = [mode EXCEPT ![w] = m]
    /\ ignore' = [ignore EXCEPT ![w] = ign]
    /\ pending' = [pending EXCEPT ![w] = First(m, ign)]
    /\ outcome' = [outcome EXCEPT ![w] = "none"]
    /\ UNCHANGED <<emsCmd, device>>

\* The next item is done; after the last one the workflow has succeeded.
Advance(w) ==
    /\ pending[w] # "none"
    /\ Observes(pending[w])
    /\ emsCmd' = Writes(pending[w])
    /\ pending' = [pending EXCEPT ![w] = After(pending[w], ignore[w])]
    /\ outcome' = [outcome EXCEPT ![w] =
                     IF pending[w] = "stayCmd" THEN "ok" ELSE "none"]
    /\ UNCHANGED <<mode, ignore, device>>

\* The workflow gives up: the item was not met, was cancelled or failed.  A
\* command whose reply was lost may still have reached the register.
Abort(w) ==
    /\ pending[w] # "none"
    /\ emsCmd' \in {emsCmd, Writes(pending[w])}
    /\ pending' = [pending EXCEPT ![w] = "none"]
    /\ outcome' = [outcome EXCEPT ![w] = "fail"]
    /\ UNCHANGED <<mode, ignore, device>>

DeviceChanges ==
    /\ ready' \in BOOLEAN /\ powerOn' \in BOOLEAN /\ loaded' \in BOOLEAN
    /\ breaker' \in {"open", "closed", "moving"}
    /\ UNCHANGED <<mode, ignore, pending, outcome, emsCmd>>

Next == \/ \E w \in Workers, m \in {"on", "off"}, ign \in BOOLEAN : Start(w, m, ign)
        \/ \E w \in Workers : Advance(w) \/ Abort(w)
        \/ DeviceChanges

Spec == Init /\ [][Next]_vars
=============================================================================
