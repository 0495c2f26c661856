----------------------------- MODULE Registers -----------------------------
(***************************************************************************)
(* pcs_client.py: how a number becomes the registers of a point and back.  *)
(* A register holds one of WordSize values (65536 in the code).  Physical  *)
(* values are integers in a unit that divides the scale and the offset of  *)
(* the point, so nothing is rounded but what the code rounds.              *)
(***************************************************************************)
EXTENDS Quotients, Sequences

CONSTANT WordSize   \* how many values a register has
ASSUME WordAssumption == WordSize \in Nat /\ WordSize >= 2 /\ WordSize % 2 = 0

Word == 0..WordSize - 1
Types == {"UINT16", "INT16", "UINT32", "INT32"}
Points == [type : Types, lowFirst : BOOLEAN, scale : Nat \ {0}, offset : Int,
           count : Nat]  \* how many registers are read, 0 meaning 1

Wide(point) == point.type \in {"UINT32", "INT32"}
Values(point) == IF Wide(point) THEN WordSize * WordSize ELSE WordSize

\* _to_signed
ToSigned(value, size) ==
    IF value % size < size \div 2 THEN value % size ELSE (value % size) - size

Joined(registers, point) ==
    IF point.lowFirst THEN registers[2] * WordSize + registers[1]
                      ELSE registers[1] * WordSize + registers[2]

\* _decode_registers; ENUM, BITFIELD16 and unknown types are read as UINT16, DWORD
\* as UINT32, and a wide point of which one register came raises.
Unreadable == [ok |-> FALSE]
MutDecode(registers, point) ==
    IF Wide(point) /\ Len(registers) < 2 THEN Unreadable
    ELSE LET value == IF Wide(point) THEN Joined(registers, point) ELSE registers[1]
         IN  [ok |-> TRUE, value |->
              IF point.type = "INT32" THEN ToSigned(value, Values(point)) ELSE value]
Decode(registers, point) ==
    IF Wide(point) /\ Len(registers) < 2 THEN Unreadable
    ELSE LET value == IF Wide(point) THEN Joined(registers, point) ELSE registers[1]
         IN  [ok |-> TRUE, value |->
              IF point.type \in {"INT16", "INT32"} THEN ToSigned(value, Values(point)) ELSE value]

\* _encode_registers: what does not fit is cut off without an error.
Encode(raw, point) ==
    LET value == raw % Values(point)
        high == value \div WordSize
        low == value % WordSize
    IN  IF ~Wide(point) THEN <<value>>
        ELSE IF point.lowFirst THEN <<low, high>> ELSE <<high, low>>

\* _write_register and _apply_transform.
Raw(value, point) == RoundedQuotient(value - point.offset, point.scale)
Physical(raw, point) == raw * point.scale + point.offset
=============================================================================
