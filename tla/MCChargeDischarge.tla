------------------------- MODULE MCChargeDischarge -------------------------
(* Settings for the two workflows of one PCS, in tenths of a kW: a target   *)
(* that is rounded up, and one that follows the BMS.  255 stands for every  *)
(* reading that means "not available".                                      *)
EXTENDS ChargeDischarge

Discharge == [target |-> 26, step |-> 18, follow |-> FALSE, clamp |-> TRUE,
              autoHv |-> TRUE, autoStart |-> TRUE, autoStop |-> TRUE, hvOff |-> TRUE]
Charge == [target |-> SignedTarget("charge", 26, "discharge"), step |-> 30,
           follow |-> TRUE, clamp |-> TRUE,
           autoHv |-> FALSE, autoStart |-> FALSE, autoStop |-> TRUE, hvOff |-> FALSE]

StartSets == {Discharge, Charge}
OneSetting == {Discharge}
MCReadings == {<<2550, 0, 1>>, <<15, 5, 5>>}
MCPowers == {19}
MCPlaceholders == <<{2550}, {255}, {255}>>
=============================================================================
