--------------------------- MODULE MCSupervision ---------------------------
(* One cluster with two BMSs.  Voltages: cutoff at 8 and 2, derating 2     *)
(* before it; powers: the operator wants 4, derating sets 1.               *)
EXTENDS Supervision

CONSTANTS d1, d2, n1, n2
MCDevices == {d1, d2}
MCNames == {n1, n2}

Reading(max, min) == [max |-> max, min |-> min]
MCReadings == {Reading(5, 5), Reading(7, 2)}
MCPowers == {4}
MCActual == {0, 4}

LimitsFor(mode) == [charge |-> 8, discharge |-> 2, margin |-> 2, power |-> 1, tolerance |-> 1,
                    cutoffMode |-> mode, protectMode |-> mode]
RuntimeFor(mode, retry) ==
    [limits |-> LimitsFor(mode), derating |-> TRUE, tracking |-> TRUE, trackConfirm |-> 2,
     autoRetry |-> retry, maxRetry |-> 1, faultConfirm |-> 2]
On(mode) == [enabled |-> TRUE, overrides |-> LimitsFor(mode)]
Off == [enabled |-> FALSE, overrides |-> LimitsFor("Alarm Only")]

AtOnce(r) == [r EXCEPT !.trackConfirm = 1, !.faultConfirm = 1]
MCRuntimes == {AtOnce(RuntimeFor("HV Off", TRUE)),
               [RuntimeFor("Disabled", FALSE) EXCEPT !.derating = FALSE]}
MCStrategies == {Off, [On("Stop PCS") EXCEPT !.overrides.charge = 7]}
=============================================================================
