------------------------------ MODULE Latency ------------------------------
(***************************************************************************)
(* packet_analyzer.py: from the packets of a capture file to the records   *)
(* of the Modbus table, which response answers which request, and which    *)
(* requests are reported as timed out.  The id of a packet stands for its  *)
(* transaction, its unit and its pair of addresses.  Wireshark may still   *)
(* be writing the file: it grows by packets, the last of which may not be  *)
(* there whole, and is analysed in any of its states.                      *)
(***************************************************************************)
EXTENDS Integers, Sequences, FiniteSets

CONSTANTS Ids,
          SamplePackets, \* the packets that the looked-at files are made of
          MaxLength,     \* bound on the packets of a file
          Timeout        \* timeout_seconds

ModbusPort == 502
\* How much of the file is left, the headers in front of the payload, the
\* length of the payload and the protocol that its first bytes name.
Packets == [whole : BOOLEAN, carrier : {"TCP", "other"}, sport : Nat, dport : Nat,
            size : Nat, protocol : Nat, id : Ids, time : Nat]
ASSUME LatencyAssumption == /\ SamplePackets \subseteq Packets
                            /\ MaxLength \in Nat /\ Timeout \in Nat \ {0}

VARIABLE file  \* the packets of the capture file

Complete == \A i \in DOMAIN file : file[i].whole
CaptureInit == file = <<>>
\* A packet, or the first part of one; and the rest of it.
Capture(p) == Complete /\ Len(file) < MaxLength /\ file' = Append(file, p)
Flush == ~Complete /\ file' = [file EXCEPT ![Len(file)].whole = TRUE]
CaptureNext == Flush \/ \E p \in SamplePackets : Capture(p)
CaptureSpec == CaptureInit /\ [][CaptureNext]_file
-----------------------------------------------------------------------------
\* _read_pcap and _read_pcapng stop at a packet that the file does not hold whole.
Whole ==
    LET whole == {n \in 0..Len(file) : \A i \in 1..n : file[i].whole}
    IN  SubSeq(file, 1, CHOOSE n \in whole : \A m \in whole : m <= n)

\* _parse_frame: IPv4 and TCP, with or without a VLAN tag.
Framed(p) == p.carrier = "TCP" /\ ModbusPort \in {p.sport, p.dport}

\* _parse_modbus_payload: the first header of the segment, with its function.
IsModbus(p) == Framed(p) /\ p.size >= 8 /\ p.protocol = 0
Direction(p) == IF p.sport = ModbusPort THEN "Response" ELSE "Request"
Record(p) == [direction |-> Direction(p), id |-> p.id, time |-> p.time]

\* analyze, before the annotation.
Records ==
    LET packets == Whole
        upTo[n \in 0..Len(packets)] ==
          IF n = 0 THEN <<>>
          ELSE IF IsModbus(packets[n]) THEN Append(upTo[n - 1], Record(packets[n]))
          ELSE upTo[n - 1]
    IN  upTo[Len(packets)]

Requests(capture) == {i \in DOMAIN capture : capture[i].direction = "Request"}

\* pending and the annotated pairs after n records.
MutScan(capture) ==
    LET after[n \in 0..Len(capture)] ==
          IF n = 0 THEN [pending |-> {}, answered |-> {}]
          ELSE LET before == after[n - 1]
                   same == {i \in before.pending : capture[i].id = capture[n].id}
               IN  IF n \in Requests(capture)
                   THEN [before EXCEPT !.pending = (@ \ same) \cup {n}]
                   ELSE [before EXCEPT !.answered = @ \cup {<<i, n>> : i \in same}]
    IN  after[Len(capture)]
Scan(capture) ==
    LET after[n \in 0..Len(capture)] ==
          IF n = 0 THEN [pending |-> {}, answered |-> {}]
          ELSE LET before == after[n - 1]
                   same == {i \in before.pending : capture[i].id = capture[n].id}
               IN  IF n \in Requests(capture)
                   THEN [before EXCEPT !.pending = (@ \ same) \cup {n}]
                   ELSE [pending |-> before.pending \ same,
                         answered |-> before.answered \cup {<<i, n>> : i \in same}]
    IN  after[Len(capture)]

TimedOut(capture) ==
    {i \in Scan(capture).pending : capture[Len(capture)].time - capture[i].time >= Timeout}
-----------------------------------------------------------------------------
\* What the annotation means, said of the packets: a response answers the latest
\* request of its id unless another response has; a request is reported as timed
\* out when its id is not seen again and the traffic goes on for the timeout.
\* A packet between two ports 502 may be either, and counts as a response.
Traffic == {i \in DOMAIN file : IsModbus(file[i]) /\ \A j \in 1..i : file[j].whole}
Silent(i, j) == \A n \in Traffic : i < n /\ n < j => file[n].id # file[i].id
Asks(i) == i \in Traffic /\ file[i].sport # ModbusPort
Answers(i, j) ==
    /\ i < j /\ Asks(i) /\ j \in Traffic /\ ~Asks(j)
    /\ file[i].id = file[j].id /\ Silent(i, j)
Unanswered(i) ==
    /\ Asks(i) /\ Silent(i, Len(file) + 1)
    /\ \E last \in Traffic : /\ \A n \in Traffic : n <= last
                             /\ file[last].time - file[i].time >= Timeout

\* The place in the file of record n.
PlaceOf(n) == CHOOSE i \in Traffic : Cardinality(Traffic \cap 1..i) = n

\* Between other traffic, in a file whose end is still being written and with
\* times that do not ascend: no answered request is reported as a timeout, none
\* that the capture shows to be unanswered is missed unless its id is used again,
\* and every latency is that of a request and its own answer.
AnnotationIsTrue ==
    LET place == [n \in DOMAIN Records |-> PlaceOf(n)]
    IN  /\ {<<place[p[1]], place[p[2]]>> : p \in Scan(Records).answered} =
           {p \in (DOMAIN file) \X (DOMAIN file) : Answers(p[1], p[2])}
        /\ {place[n] : n \in TimedOut(Records)} = {i \in DOMAIN file : Unanswered(i)}
=============================================================================
