---------------------------- MODULE MCHvRegistry ----------------------------
(* Two workflow threads of one device, which may overlap; a thread that is *)
(* over stands for the next one.                                           *)
EXTENDS HvRegistry

CONSTANTS w1, w2
MCWorkers == {w1, w2}
=============================================================================
