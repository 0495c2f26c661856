------------------------------ MODULE PcsPoint ------------------------------
(***************************************************************************)
(* One point of a PCS: the client writes a physical value to its registers *)
(* (write_value), and reads them back (read_value).  The panel, a dispatch *)
(* and a workflow write one after the other; a write that fails before the *)
(* PCS took it changes nothing here.  The registers of a point are         *)
(* written, and read, in one call: two for a wide point, but as many as    *)
(* its configuration counts are read.                                      *)
(***************************************************************************)
EXTENDS Registers

CONSTANTS SomePoints, \* the points that a profile may configure
          SomeValues  \* the values that are written
ASSUME SomeAssumption == SomePoints \subseteq Points /\ SomeValues \subseteq Int

VARIABLES point,      \* the configuration of the point
          registers,  \* what the PCS holds at the point's address and the next
          commanded   \* the value that was written last
pointVars == <<point, registers, commanded>>

NoPoint == [type |-> "none"]
PointInit == point = NoPoint /\ registers = <<0, 0>> /\ commanded = 0

\* A PCS is configured, and its registers are zero.
Configure == /\ point = NoPoint /\ point' \in SomePoints
             /\ commanded' = Physical(0, point')
             /\ UNCHANGED registers

\* _write_register
Write(value) == /\ point # NoPoint
                /\ LET words == Encode(Raw(value, point), point) IN
                   registers' = IF Wide(point) THEN words ELSE [registers EXCEPT ![1] = words[1]]
                /\ commanded' = value
                /\ UNCHANGED point

PointNext == Configure \/ \E value \in SomeValues : Write(value)

PointSpec == PointInit /\ [][PointNext]_pointVars

\* _read_registers_for_point
Received == IF point.count > 1 THEN registers ELSE <<registers[1]>>

\* read_value
Reading == LET decoded == Decode(Received, point) IN
    IF decoded.ok THEN [ok |-> TRUE, value |-> Physical(decoded.value, point)] ELSE Unreadable
-----------------------------------------------------------------------------
InRange(raw) ==
    IF point.type \in {"INT16", "INT32"}
    THEN -Values(point) <= 2 * raw /\ 2 * raw < Values(point)
    ELSE 0 <= raw /\ raw < Values(point)

(* A value that fits is read back as it was written, to half a unit of the *)
(* scale, for every type, word order, scale, offset and sign, and whatever *)
(* was written before (pcs_client.py: _encode_registers, _decode_registers *)
(* and the two transforms are inverse to each other); and a wide point     *)
(* that was left with the count of 1 (pcs_client.py:80) is written in full *)
(* but raises whenever it is read, and gives no half of a value.           *)
WrittenIsReadBack ==
    point # NoPoint /\ InRange(Raw(commanded, point)) =>
        IF Wide(point) /\ point.count < 2 THEN ~Reading.ok
        ELSE LET error == 2 * (Reading.value - commanded) IN
             Reading.ok /\ -point.scale <= error /\ error <= point.scale
=============================================================================
