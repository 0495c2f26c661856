---------------------------- MODULE MCEvidence ----------------------------
(* Two captures, one log and two mappings that decode different signals;   *)
(* a capture file and a signal in the frames of a log.  The page, the file *)
(* and the signal share no variable, so a behaviour follows one of them,   *)
(* while the other two are as in the beginning.                            *)
EXTENDS Evidence, Latency, CanSignals, TLC

CONSTANTS c1, c2, l1, m1, m2, s1, s2

MCSymmetry == Permutations(Captures)
MCSignalsOf == [m \in Mappings |-> IF m = m1 THEN {s1, s2} ELSE {s2}]

(* Requests and responses of two ids, and what a line carries besides: a   *)
(* packet of another protocol or port, one between two ports 502, one that *)
(* carries no header, one that names another protocol, and one that is cut *)
(* off.                                                                    *)
Request == [whole |-> TRUE, carrier |-> "TCP", sport |-> 40000, dport |-> ModbusPort,
            size |-> 12, protocol |-> 0, id |-> 1, time |-> 0]
Response == [Request EXCEPT !.sport = ModbusPort, !.dport = 40000]
Late(p) == [p EXCEPT !.time = Timeout]
MCPackets ==
    UNION {{[p EXCEPT !.id = i, !.time = t] : p \in {Request, Response}} : i \in Ids, t \in {0, Timeout}}
    \cup {[Late(Response) EXCEPT !.carrier = "other"], [Late(Request) EXCEPT !.dport = 80],
          [Late(Response) EXCEPT !.dport = ModbusPort], [Late(Response) EXCEPT !.size = 7], [Late(Response) EXCEPT !.protocol = 1],
          [Late(Response) EXCEPT !.whole = FALSE]}

MCInit == Init /\ CaptureInit /\ SignalInit
MCNext == \/ CaptureInit /\ SignalInit /\ Next /\ UNCHANGED <<file, signalVars>>
          \/ Init /\ SignalInit /\ CaptureNext /\ UNCHANGED <<vars, signalVars>>
          \/ Init /\ CaptureInit /\ SignalNext /\ UNCHANGED <<vars, file>>
MCSpec == MCInit /\ [][MCNext]_<<vars, file, signalVars>>
=============================================================================
