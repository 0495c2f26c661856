----------------------------- MODULE HvRegistry -----------------------------
(***************************************************************************)
(* ui_control_mixins/hv_control_mixin.py and the callers of hv_workers: how *)
(* the main thread starts, cancels and forgets the workflow threads of one *)
(* device.  The main thread handles one event at a time, but a confirmation *)
(* dialog runs an event loop of its own, in which the snapshots of the     *)
(* BMS (and with them the cutoff and the fault protection) are handled     *)
(* while the dialog waits.  The workflow threads call                      *)
(* on_hv_workflow_finished themselves.                                     *)
(* The charge/discharge workflows of charge_discharge_workflow.py command   *)
(* the same register 0381 with clients of their own: neither side asks     *)
(* about the threads of the other, and last_hv_status is not told.         *)
(***************************************************************************)
EXTENDS HvThread

CONSTANT NoWorker       \* no entry in hv_workers
ASSUME NoWorkerAssumption == NoWorker \notin Workers

VARIABLES
    entry,      \* hv_workers[device]
    stop,       \* stop[w]: _stop_requested
    ui,         \* what the main thread is doing
    target,     \* the thread it is cancelling or joining
    hvStatus,   \* last_hv_status, as the status bar shows it
    past,       \* history: what has happened on this device that matters later
    powering    \* the charge/discharge workflows that owe 0381 their Stay

uiVars == <<entry, stop, ui, target, hvStatus>>
vars == <<threadVars, uiVars, past, powering>>

UiStates == {"idle", "confirmOn", "confirmOff", "cancelling", "joining", "joiningAll"}
Dialogs == {"confirmOn", "confirmOff"}
\* "overlap": a dialog confirmed on a stale check, or a join that gave up;
\* "commandLeft": a command in 0381 with no workflow to write the Stay.
Events == {"overlap", "commandLeft"}
PowerWorkflows == {"start", "stop"}     \* the actions of _start_cd_worker
PowerCommand(a) == IF a = "start" THEN "on" ELSE "off"

Init == /\ ThreadInit
        /\ entry = NoWorker
        /\ stop = [w \in Workers |-> FALSE]
        /\ ui = "idle"
        /\ target = NoWorker
        /\ hvStatus = "Idle"
        /\ past = {} /\ powering = {}

\* A new thread is registered and started.
Register(w, m) == /\ Start(w, m)
                  /\ entry' = w
                  /\ stop' = [stop EXCEPT ![w] = FALSE]

\* handle_hv_on and handle_hv_off: refused when the device has an entry,
\* then a confirmation dialog.
Ask(m) == /\ ui = "idle" /\ entry = NoWorker
          /\ ui' = IF m = "on" THEN "confirmOn" ELSE "confirmOff"
          /\ UNCHANGED <<threadVars, entry, stop, target, hvStatus, past, powering>>

AnswerNo == /\ ui \in Dialogs
            /\ ui' = "idle"
            /\ UNCHANGED <<threadVars, entry, stop, target, hvStatus, past, powering>>

\* "Yes": the entry is written without a second look at it.
AnswerYes(w) == /\ ui \in Dialogs
                /\ Register(w, IF ui = "confirmOn" THEN "on" ELSE "off")
                /\ ui' = "idle"
                /\ past' = IF entry = NoWorker THEN past
                           ELSE past \cup {"overlap"}
                /\ UNCHANGED <<target, hvStatus, powering>>

\* start_hv_off_for_device: the cutoff or the fault protection wants high
\* voltage off.  It may run inside the event loop of a dialog.
MutServiceHvOff(w) == /\ ui \in Dialogs \cup {"idle"}
                      /\ Register(w, "off") /\ hvStatus' = "Running"
                      /\ UNCHANGED <<ui, target, past, powering>>
ServiceHvOff(w) == /\ ui \in Dialogs \cup {"idle"} /\ entry = NoWorker
                   /\ Register(w, "off") /\ hvStatus' = "Running"
                   /\ UNCHANGED <<ui, target, past, powering>>

\* handle_cancel_hv_workflow: get the entry, then stop the thread it names.
AskCancel == /\ ui = "idle" /\ entry # NoWorker
             /\ ui' = "cancelling" /\ target' = entry
             /\ UNCHANGED <<threadVars, entry, stop, hvStatus, past, powering>>

DoCancel == /\ ui = "cancelling"
            /\ stop' = [stop EXCEPT ![target] = TRUE]
            /\ hvStatus' = "Cancelling"
            /\ ui' = "idle" /\ target' = NoWorker
            /\ UNCHANGED <<threadVars, entry, past, powering>>

\* stop_device_by_name: pop the entry, stop the thread and join it for 3 s,
\* in which the main thread handles nothing else.
StopDevice == /\ ui = "idle" /\ entry # NoWorker
              /\ ui' = "joining" /\ target' = entry
              /\ stop' = [stop EXCEPT ![entry] = TRUE]
              /\ entry' = NoWorker
              /\ UNCHANGED <<threadVars, hvStatus, past, powering>>

JoinReturns == /\ ui = "joining"
               /\ ui' = "idle" /\ target' = NoWorker
               /\ past' = IF Live(target) THEN past \cup {"overlap"} ELSE past
               /\ UNCHANGED <<threadVars, entry, stop, hvStatus, powering>>

\* stop_all does the same, but the entry stays until the join is over.
StopAll == /\ ui = "idle"
           /\ ui' = "joiningAll" /\ target' = entry
           /\ stop' = [w \in Workers |-> stop[w] \/ w = entry]
           /\ UNCHANGED <<threadVars, entry, hvStatus, past, powering>>

JoinAllReturns == /\ ui = "joiningAll"
                  /\ ui' = "idle" /\ target' = NoWorker
                  /\ entry' = NoWorker
                  /\ hvStatus' = "Idle"
                  /\ past' = IF target # NoWorker /\ Live(target)
                             THEN past \cup {"overlap"} ELSE past
                  /\ UNCHANGED <<threadVars, stop, powering>>

\* _write_ems_cmd: the operator writes 0381 by hand; hv_workers is not asked.
ManualCommand(c) == /\ ui = "idle"
                    /\ emsCmd' \in {emsCmd, c}
                    /\ past' = past \cup {"commandLeft"}
                    /\ UNCHANGED <<mode, phase, outcome, uiVars, powering>>

\* on_hv_workflow_log, in the workflow thread: the status follows the words of
\* the message ("Failed" stands for Failed, Timeout and Cancelled); SUCCESS is
\* logged last.
Log(w) == /\ Live(w)
          /\ hvStatus' \in {"Running", "Failed"} \cup
                 (IF phase[w] = "returned" /\ outcome[w] = "ok" THEN {"Success"} ELSE {})
          /\ UNCHANGED <<threadVars, entry, stop, ui, target, past, powering>>

\* on_hv_workflow_finished, in the workflow thread: the device's entry is
\* dropped, whichever thread it names.
MutFinished(w) == /\ End(w)
                  /\ hvStatus' = IF outcome[w] = "ok" THEN "Success" ELSE "Failed"
                  /\ UNCHANGED <<entry, stop, ui, target, past, powering>>
Finished(w) == /\ End(w)
               /\ entry' = NoWorker
               /\ hvStatus' = IF outcome[w] = "ok" THEN "Success" ELSE "Failed"
               /\ UNCHANGED <<stop, ui, target, past, powering>>

\* bms_hv_on of a start workflow and the HV OFF part of stop_sequence: the
\* command is written; a stop workflow goes on when it was refused.
PowerWrites(a) ==
    /\ a \notin powering
    /\ emsCmd' \in {PowerCommand(a)} \cup (IF a = "stop" THEN {emsCmd} ELSE {})
    /\ powering' = powering \cup {a}
    /\ UNCHANGED <<mode, phase, outcome, uiVars, past>>

\* The wait for 0301 is over, and Stay is written.
MutPowerStays(a) ==
    /\ a \in powering
    /\ powering' = powering \ {a}
    /\ UNCHANGED <<threadVars, uiVars, past>>
PowerStays(a) ==
    /\ a \in powering
    /\ emsCmd' = "stay"
    /\ powering' = powering \ {a}
    /\ UNCHANGED <<mode, phase, outcome, uiVars, past>>

\* A write failed, though the BMS may have taken it, or the wait of a start
\* workflow did: nothing is written after it.
PowerGivesUp(a) ==
    /\ emsCmd' \in {emsCmd, IF a \in powering THEN "stay" ELSE PowerCommand(a)}
    /\ powering' = powering \ {a}
    /\ past' = past \cup {"commandLeft"}
    /\ UNCHANGED <<mode, phase, outcome, uiVars>>

PowerStep == \E a \in PowerWorkflows : PowerWrites(a) \/ PowerStays(a) \/ PowerGivesUp(a)

ThreadStep(w) == \/ Execute(w) /\ UNCHANGED <<uiVars, past, powering>>
                 \/ Finished(w)

MainStep == \/ \E m \in Modes : Ask(m)
            \/ AnswerNo
            \/ \E w \in Workers : AnswerYes(w) \/ ServiceHvOff(w)
            \/ AskCancel \/ DoCancel
            \/ StopDevice \/ JoinReturns \/ StopAll \/ JoinAllReturns
            \/ \E c \in EmsCmds : ManualCommand(c)

Next == MainStep \/ PowerStep \/ \E w \in Workers : ThreadStep(w) \/ Log(w)

Spec == Init /\ [][Next]_vars

\* Threads run, and the main thread finishes the handler it is in; nothing
\* obliges the operator to answer a dialog.
FairSpec == /\ Spec
            /\ \A w \in Workers : WF_vars(ThreadStep(w))
            /\ WF_vars(DoCancel \/ JoinReturns \/ JoinAllReturns)
-----------------------------------------------------------------------------
(* Properties.                                                             *)

TypeOK == /\ ThreadTypeOK
          /\ entry \in Workers \cup {NoWorker}
          /\ stop \in [Workers -> BOOLEAN]
          /\ ui \in UiStates
          /\ target \in Workers \cup {NoWorker}
          /\ hvStatus \in {"Idle", "Running", "Cancelling", "Success", "Failed"}
          /\ past \subseteq Events
          /\ powering \subseteq PowerWorkflows

\* The registry knows the threads of the device: as long as no dialog was
\* confirmed on a stale check and no join gave up, the only live HV thread is
\* the registered one, or the one stop_device_by_name is joining.  In particular at
\* most one HV workflow drives the device.
Undisturbed == "overlap" \notin past
RegistryKnowsTheThread ==
    Undisturbed => \A w \in Workers :
                      Live(w) => entry = w \/ (ui = "joining" /\ target = w)

\* No device is locked out: "HV workflow already running" is only ever said
\* of a thread that has not ended, whatever overlaps have happened before.
EntryIsLive == entry # NoWorker => Live(entry)

\* When the status bar shows "Success" and nothing drives the device, register
\* 0381 is back at Stay, whatever HV and charge/discharge workflows ran one
\* into the other: unless two HV threads overlapped, the operator wrote the
\* register, or a charge/discharge workflow gave up between its command and
\* its Stay, after which "Success" may stand beside a 2 or a 3.
Quiet == powering = {} /\ \A w \in Workers : ~Live(w)
SuccessMeansStay == past = {} /\ Quiet /\ hvStatus = "Success" => emsCmd = "stay"

\* What the refusal "HV workflow already running for ..." promises: a device
\* never has two workflows at a time.
OneWorkflowPerDevice == \A v, w \in Workers : Live(v) /\ Live(w) => v = w

\* A device can always be controlled again later.
EntryIsReleased == []<>(entry = NoWorker)
=============================================================================
