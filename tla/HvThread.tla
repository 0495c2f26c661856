------------------------------ MODULE HvThread ------------------------------
(***************************************************************************)
(* What the rest of the program sees of a high-voltage workflow thread: it *)
(* writes its command to register 0381, then Stay, or gives up at some     *)
(* point before, and reports the outcome.  HvWorkflow implements this      *)
(* module, and HvRegistry builds on it.                                    *)
(***************************************************************************)
CONSTANT Workers        \* the workflow threads of one device

VARIABLES
    mode,       \* mode[w]: "on" or "off"
    phase,      \* phase[w]: "idle", "run", "commanded" or "returned"
    outcome,    \* outcome[w]: "none", "ok" or "fail"
    emsCmd      \* register 0381: "stay", "on" or "off"

threadVars == <<mode, phase, outcome, emsCmd>>

Modes == {"on", "off"}
EmsCmds == {"stay", "on", "off"}
Live(w) == phase[w] # "idle"

ThreadInit == /\ mode = [w \in Workers |-> "on"]
              /\ phase = [w \in Workers |-> "idle"]
              /\ outcome = [w \in Workers |-> "none"]
              /\ emsCmd \in EmsCmds

Start(w, m) == /\ phase[w] = "idle"
               /\ mode' = [mode EXCEPT ![w] = m]
               /\ phase' = [phase EXCEPT ![w] = "run"]
               /\ outcome' = [outcome EXCEPT ![w] = "none"]
               /\ UNCHANGED emsCmd

Command(w) == /\ phase[w] = "run"
              /\ emsCmd' = mode[w]
              /\ phase' = [phase EXCEPT ![w] = "commanded"]
              /\ UNCHANGED <<mode, outcome>>

MutStay(w) == /\ phase[w] = "commanded"
              /\ emsCmd' \in {emsCmd, "stay"}
              /\ phase' = [phase EXCEPT ![w] = "returned"]
              /\ outcome' = [outcome EXCEPT ![w] = "ok"]
              /\ UNCHANGED mode
Stay(w) == /\ phase[w] = "commanded"
           /\ emsCmd' = "stay"
           /\ phase' = [phase EXCEPT ![w] = "returned"]
           /\ outcome' = [outcome EXCEPT ![w] = "ok"]
           /\ UNCHANGED mode

\* The write that was about to happen may have reached the BMS.
GiveUp(w) == /\ phase[w] \in {"run", "commanded"}
             /\ emsCmd' \in {emsCmd, IF phase[w] = "run" THEN mode[w] ELSE "stay"}
             /\ phase' = [phase EXCEPT ![w] = "returned"]
             /\ outcome' = [outcome EXCEPT ![w] = "fail"]
             /\ UNCHANGED mode

End(w) == /\ phase[w] = "returned"
          /\ phase' = [phase EXCEPT ![w] = "idle"]
          /\ UNCHANGED <<mode, outcome, emsCmd>>

Execute(w) == Command(w) \/ Stay(w) \/ GiveUp(w)

ThreadNext == \E w \in Workers :
                 \/ \E m \in Modes : Start(w, m)
                 \/ Execute(w) \/ End(w)

ThreadSpec == ThreadInit /\ [][ThreadNext]_threadVars

ThreadTypeOK == /\ mode \in [Workers -> Modes]
                /\ phase \in [Workers -> {"idle", "run", "commanded", "returned"}]
                /\ outcome \in [Workers -> {"none", "ok", "fail"}]
                /\ emsCmd \in EmsCmds
=============================================================================
