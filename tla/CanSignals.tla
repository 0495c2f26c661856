----------------------------- MODULE CanSignals -----------------------------
(***************************************************************************)
(* _extract_dbc_signal: the raw value of a DBC signal in the data of a CAN *)
(* frame.  Bit b of the data is bit b % 8 of byte b \div 8.  An Intel      *)
(* ("little") signal starts at its lowest bit and ascends; a Motorola      *)
(* signal starts at its highest and descends through the bytes in turn.    *)
(* A JSON mapping has signals of whole bytes (_decode_with_mapping).  One  *)
(* signal of a mapping is followed here through the frames of a log.       *)
(***************************************************************************)
EXTENDS Integers, Sequences

CONSTANTS SampleBytes,  \* the bytes that the frames are made of
          MaxBytes,     \* bound on the bytes of a frame
          MaxBits       \* bound on the bits of a signal
ASSUME SignalsAssumption == /\ SampleBytes \subseteq 0..255
                            /\ MaxBytes \in Nat /\ MaxBits \in Nat \ {0}

Frames == UNION {[1..n -> SampleBytes] : n \in 0..MaxBytes}
\* A signal may lie beyond the data of a frame that is shorter than the DBC says.
Layouts == [start : 0..(8 * MaxBytes + 7), length : 1..MaxBits,
            order : {"little", "big"}, signed : BOOLEAN]

\* Powers of two, by which the code shifts.
TwoTo[k \in Nat] == IF k = 0 THEN 1 ELSE 2 * TwoTo[k - 1]

Bit(data, b) == IF b \div 8 < Len(data) THEN (data[b \div 8 + 1] \div TwoTo[b % 8]) % 2 ELSE 0

\* int.from_bytes(data, "little")
RawInt(data) == LET upTo[n \in 0..Len(data)] ==
                      IF n = 0 THEN 0 ELSE upTo[n - 1] + data[n] * TwoTo[8 * (n - 1)]
                IN  upTo[Len(data)]

\* The bit that follows in a Motorola signal, and the value of its first n bits.
Following(b) == IF b % 8 = 0 THEN b + 15 ELSE b - 1
Collected(data, layout) ==
    LET bit[n \in 0..(layout.length - 1)] ==
          IF n = 0 THEN layout.start ELSE Following(bit[n - 1])
        value[n \in 0..layout.length] ==
          IF n = 0 THEN 0 ELSE 2 * value[n - 1] + Bit(data, bit[n - 1])
    IN  value[layout.length]

Unsigned(data, layout) ==
    IF layout.order = "little" THEN (RawInt(data) \div TwoTo[layout.start]) % TwoTo[layout.length]
    ELSE Collected(data, layout)

MutExtracted(data, layout) ==
    LET value == Unsigned(data, layout)
    IN  IF layout.signed /\ value > TwoTo[layout.length - 1] THEN value - TwoTo[layout.length] ELSE value
Extracted(data, layout) ==
    LET value == Unsigned(data, layout)
    IN  IF layout.signed /\ value >= TwoTo[layout.length - 1] THEN value - TwoTo[layout.length] ELSE value
\* A signal of a JSON mapping has whole bytes, and no value in a frame that is
\* too short for them (_decode_with_mapping).
ByteEntries == [start : 0..MaxBytes, length : 1..(MaxBytes + 1),
                order : {"little", "big"}, signed : BOOLEAN]
Slice(data, e) == SubSeq(data, e.start + 1, IF e.start + e.length <= Len(data)
                                            THEN e.start + e.length ELSE Len(data))
FromBytes(bytes, e) ==
    LET value == RawInt(IF e.order = "little" THEN bytes
                        ELSE [i \in DOMAIN bytes |-> bytes[Len(bytes) + 1 - i]])
        range == TwoTo[8 * e.length]
    IN  IF e.signed /\ 2 * value >= range THEN value - range ELSE value
FromEntry(data, e) ==
    IF Len(Slice(data, e)) = e.length THEN {FromBytes(Slice(data, e), e)} ELSE {}

VARIABLES signal, \* of a mapping, or NoSignal
          frame   \* the data of the frame that is decoded
signalVars == <<signal, frame>>

NoSignal == [from |-> "none"]
SignalInit == signal = NoSignal /\ frame = <<>>
Define == /\ signal = NoSignal /\ UNCHANGED frame
          /\ \/ \E layout \in Layouts : signal' = [from |-> "dbc", at |-> layout]
             \/ \E e \in ByteEntries : signal' = [from |-> "json", at |-> e]
Receive(data) == signal # NoSignal /\ frame' = data /\ UNCHANGED signal
SignalNext == Define \/ \E data \in Frames : Receive(data)
SignalSpec == SignalInit /\ [][SignalNext]_signalVars

\* The values that a frame gives the signal: one or none.
DecodedValues == IF signal.from = "dbc" THEN {Extracted(frame, signal.at)}
                 ELSE FromEntry(frame, signal.at)
-----------------------------------------------------------------------------
\* The place of a bit in the order of transmission, highest bit of a byte first;
\* it is its own inverse.
Place(b) == 8 * (b \div 8) + (7 - (b % 8))

\* The bit of weight 2^k.
BitOfWeight(layout, k) ==
    IF layout.order = "little" THEN layout.start + k
    ELSE Place(Place(layout.start) + layout.length - 1 - k)
Weight(layout, k) ==
    IF layout.signed /\ k = layout.length - 1 THEN -TwoTo[k] ELSE TwoTo[k]

Meant(data, layout) ==
    LET sum[k \in 0..layout.length] ==
          IF k = 0 THEN 0
          ELSE sum[k - 1] + Weight(layout, k - 1) * Bit(data, BitOfWeight(layout, k - 1))
    IN  sum[layout.length]

\* The bits of whole bytes, the way a DBC says it.
AsBits(e) == [start |-> IF e.order = "little" THEN 8 * e.start ELSE 8 * e.start + 7,
              length |-> 8 * e.length, order |-> e.order, signed |-> e.signed]

\* Every signal of a DBC, of either byte order and sign, also one that crosses
\* bytes or reaches beyond a short frame, has the value that its bits have by
\* their places in the frame and their weights in two's complement; a signal of a
\* JSON mapping has that of the same bits of a DBC, or none.
SignalsAreTrue == signal # NoSignal =>
    DecodedValues = IF signal.from = "dbc" THEN {Meant(frame, signal.at)}
              ELSE IF signal.at.start + signal.at.length <= Len(frame)
              THEN {Meant(frame, AsBits(signal.at))} ELSE {}
=============================================================================
