------------------------------ MODULE MCPolling ------------------------------
(***************************************************************************)
(* Polling with three plants: a BMS that is polled, its heartbeat moving,  *)
(* standing still or jumping; a BMS that is polled and gets a heartbeat;   *)
(* two PCSs, one of them polled.                                           *)
(***************************************************************************)
EXTENDS Polling

CONSTANTS b1, p1, p2

MCBms == {b1}
MCPcs == {p1, p2}
Plant(devices, polled, beaten, heartbeats) ==
    [devices |-> devices, polled |-> polled, beaten |-> beaten, heartbeats |-> heartbeats]
MCFleets == {Plant({b1}, {b1}, {}, {0, 1}),
             Plant({b1}, {b1}, {b1}, {}),
             Plant({p1, p2}, {p1}, {}, {})}
=============================================================================
