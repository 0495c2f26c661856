-------------------------- MODULE RecordingProofs --------------------------
(***************************************************************************)
(* AsyncRecorder for every set of columns, queue size and number of rows:  *)
(* types, readable files, and the contract of the proxy.                   *)
(***************************************************************************)
EXTENDS AsyncRecorder, SequenceTheorems, TLAPS

-----------------------------------------------------------------------------
(* The files of one recorder.                                              *)

\* What its files look like; nothing is assumed of the others.
SegmentsInv ==
    /\ \A f \in own : f[1] <= date /\ f[2] <= version
    /\ isOpen => fieldnames # {} /\ headers[<<date, version>>] # {}
    /\ isOpen /\ <<date, version>> \in own => headers[<<date, version>>] = fieldnames
    /\ \A f \in garbled : headers[f] # {}
    /\ HeadersStayValid

\* While rows may come, the file of the next one is not a closed one of its own.
Ready == isOpen \/ <<date, version>> \notin own

LEMMA NextVersionFact ==
    ASSUME version \in Nat, NEW row
    PROVE  NextVersion(row) \in Nat /\ NextVersion(row) >= version
           /\ NextVersion(row) <= version + 1
           /\ (FieldChanged(row) => NextVersion(row) = version + 1)
           /\ (~FieldChanged(row) => NextVersion(row) = version)
BY DEF NextVersion

\* The file that is opened is none of those the recorder has created.
LEMMA OpensAnother ==
    ASSUME SegmentsType, SegmentsInv, Ready,
           NEW row \in Rows, row.date >= date, MustOpen(row)
    PROVE  <<row.date, NextVersion(row)>> \notin own
<1>1. version \in Nat /\ date \in Nat /\ row.date \in Nat
      BY DEF SegmentsType, Versions, Dates, Rows
<1>2. CASE FieldChanged(row)
      BY <1>1, <1>2, NextVersionFact DEF SegmentsInv
<1>3. CASE ~FieldChanged(row) /\ date # row.date
      BY <1>1, <1>3 DEF SegmentsInv
<1>4. CASE ~FieldChanged(row) /\ date = row.date
      BY <1>1, <1>4, NextVersionFact DEF Ready, MustOpen
<1> QED BY <1>2, <1>3, <1>4

LEMMA WriteRowKeeps ==
    ASSUME SegmentsType, SegmentsInv, Ready,
           NEW row \in Rows, row.date >= date, NextVersion(row) \in Versions,
           WriteRow(row)
    PROVE  /\ SegmentsType' /\ SegmentsInv' /\ Ready'
           /\ date' = row.date /\ version' = NextVersion(row)
<1> DEFINE file == <<row.date, NextVersion(row)>>
<1>1. /\ row.date \in Dates /\ row.fields \in PointSets /\ row.fields \subseteq Points
      /\ row.fields # {}
      BY DEF Rows, PointSets
<1>2. file \in Files
      BY <1>1 DEF Files
<1>3. version \in Nat /\ date \in Nat /\ row.date \in Nat
      BY <1>1 DEF SegmentsType, Versions, Dates
<1>4. NextVersion(row) >= version /\ NextVersion(row) \in Nat
      BY <1>3, NextVersionFact
<1>5. CASE WriteLine(row)
  <2>1. date = row.date /\ isOpen /\ ~FieldChanged(row)
        BY <1>5 DEF WriteLine, MustOpen
  <2>2. version = NextVersion(row) /\ row.fields \subseteq fieldnames
        BY <2>1 DEF FieldChanged, SegmentsInv, NextVersion
  <2>3. /\ UNCHANGED <<headers, date, fieldnames, version, isOpen, own>>
        /\ garbled' = IF Garbles(row, fieldnames, headers[file])
                      THEN garbled \cup {file} ELSE garbled
        BY <1>5, <2>1, <2>2 DEF WriteLine, recorder
  <2>4. SegmentsType'
        BY <1>2, <2>3 DEF SegmentsType
  <2>5. isOpen /\ (file \in own => headers[file] = fieldnames)
        BY <2>1, <2>2 DEF SegmentsInv
  <2>6. CASE file \in own
    <3>1. garbled' = garbled
          BY <2>2, <2>3, <2>5, <2>6 DEF Garbles
    <3> QED BY <3>1, <2>1, <2>2, <2>3, <2>4
        DEF SegmentsInv, Ready, HeadersStayValid
  <2>7. CASE file \notin own
        BY <2>7, <2>1, <2>2, <2>3, <2>4 DEF SegmentsInv, Ready, HeadersStayValid
  <2> QED BY <2>6, <2>7
<1>6. CASE Reopen(row)
  <2>1. file \notin own
        BY <1>6, OpensAnother DEF Reopen
  <2>2. /\ headers' = [headers EXCEPT ![file] = IF headers[file] = {} THEN row.fields ELSE @]
        /\ own' = IF headers[file] = {} THEN own \cup {file} ELSE own
        /\ garbled' = IF Garbles(row, row.fields, headers'[file])
                      THEN garbled \cup {file} ELSE garbled
        /\ date' = row.date /\ fieldnames' = row.fields /\ version' = NextVersion(row)
        /\ isOpen' = TRUE
        BY <1>6 DEF Reopen
  <2>3. SegmentsType'
        BY <1>1, <1>2, <2>2 DEF SegmentsType
  <2>4. headers'[file] # {} /\ (headers[file] = {} => headers'[file] = row.fields)
        BY <1>1, <1>2, <2>2 DEF SegmentsType
  <2>5. \A f \in own' : f[1] <= date' /\ f[2] <= version'
    <3>1. \A f \in own : f[1] <= row.date /\ f[2] <= NextVersion(row)
      <4>1. own \subseteq Files /\ \A f \in own : f[1] <= date /\ f[2] <= version
            BY DEF SegmentsType, SegmentsInv
      <4>2. \A f \in own : f[1] \in Nat /\ f[2] \in Nat
            BY <4>1 DEF Files, Dates, Versions
      <4> QED BY <4>1, <4>2, <1>3, <1>4
    <3> QED BY <3>1, <2>2, <1>3, <1>4
  <2>6. \A f \in garbled' : headers'[f] # {}
        BY <2>2, <2>4 DEF SegmentsInv, SegmentsType
  <2>7. HeadersStayValid'
    <3>1. CASE headers[file] = {}
      <4>1. file \notin garbled BY <3>1 DEF SegmentsInv
      <4>2. garbled' = garbled BY <3>1, <2>2, <2>4 DEF Garbles
      <4> QED BY <4>1, <4>2, <2>2 DEF SegmentsInv, HeadersStayValid
    <3>2. CASE headers[file] # {}
          BY <3>2, <2>1, <2>2 DEF SegmentsInv, HeadersStayValid
    <3> QED BY <3>1, <3>2
  <2>8. file \in own' => headers'[file] = row.fields
        BY <2>1, <2>2, <2>4
  <2> QED BY <1>1, <2>2, <2>3, <2>5, <2>6, <2>7, <2>8 DEF SegmentsInv, Ready
<1>7. CASE OpenFails(row)
  <2>1. file \notin own
        BY <1>7, OpensAnother DEF OpenFails
  <2>2. /\ date' = row.date /\ fieldnames' = row.fields /\ version' = NextVersion(row)
        /\ isOpen' = FALSE /\ UNCHANGED <<headers, own, garbled>>
        BY <1>7 DEF OpenFails
  <2>3. SegmentsType'
        BY <1>1, <2>2 DEF SegmentsType
  <2>4. \A f \in own' : f[1] <= date' /\ f[2] <= version'
    <3>1. own \subseteq Files /\ \A f \in own : f[1] <= date /\ f[2] <= version
          BY DEF SegmentsType, SegmentsInv
    <3>2. \A f \in own : f[1] \in Nat /\ f[2] \in Nat
          BY <3>1 DEF Files, Dates, Versions
    <3> QED BY <3>1, <3>2, <2>2, <1>3, <1>4
  <2> QED BY <2>1, <2>2, <2>3, <2>4 DEF SegmentsInv, Ready, HeadersStayValid
<1> QED BY <1>5, <1>6, <1>7 DEF WriteRow
-----------------------------------------------------------------------------
(* The queue.                                                              *)

\* The poison is in the queue, and then it is the last item.
PoisonQueued == ui = "join" /\ queue # <<>>
RowsQueued == IF PoisonQueued THEN Len(queue) - 1 ELSE Len(queue)
InHand == IF writer = "write" THEN 1 ELSE 0
Undone == IF writer \in {"write", "done"} THEN 1 ELSE 0

\* The rows in hand and in the queue are those accepted after the last one handed.
Numbered ==
    /\ \A i \in 1..RowsQueued : queue[i] \in Rows /\ queue[i].no = handed + InHand + i
    /\ PoisonQueued => queue[Len(queue)] = Poison
    /\ writer = "write" => item \in Rows /\ item.no = handed + 1
    /\ accepted = handed + InHand + RowsQueued
    /\ accepted + dropped <= MaxRows

\* Their dates do not go back.
Dated ==
    /\ date <= today
    /\ writer = "write" => date <= item.date /\ item.date <= today
    /\ \A i \in 1..RowsQueued :
        /\ date <= queue[i].date /\ queue[i].date <= today
        /\ writer = "write" => item.date <= queue[i].date
    /\ \A i, j \in 1..RowsQueued : i <= j => queue[i].date <= queue[j].date

\* Where the writer is while the main thread waits, and when there is none.
Phases ==
    /\ unfinished = Len(queue) + Undone
    /\ writer = "done" /\ item = Poison => ui = "join" /\ queue = <<>>
    /\ ui = "join" /\ queue = <<>> => writer = "off" \/ (writer = "done" /\ item = Poison)
    /\ ui = "close" => writer = "off" /\ queue = <<>>
    /\ ~proxy => ui = "idle" /\ writer = "off" /\ queue = <<>>
    /\ proxy /\ ui \in {"idle", "put"} => writer # "off"
    /\ PoisonQueued => writer # "off"

RowFiles == /\ SegmentsInv
            /\ writer # "off" => Ready
            /\ version <= handed + 1

\* The types that are not those of the files.
ThreadsType ==
    /\ ui \in {"idle", "put", "join", "close"} /\ proxy \in BOOLEAN
    /\ queue \in Seq(Rows \cup {Poison}) /\ Len(queue) <= Capacity
    /\ unfinished \in 0..Capacity + 1
    /\ writer \in {"off", "get", "write", "done"}
    /\ item \in Rows \cup {Poison} /\ (writer = "write" => item # Poison)
    /\ today \in Dates
    /\ accepted \in 0..MaxRows /\ dropped \in 0..MaxRows
    /\ handed \in 0..MaxRows

Inv == ThreadsType /\ SegmentsType /\ Numbered /\ Dated /\ Phases /\ RowFiles
-----------------------------------------------------------------------------
LEMMA Appended ==
    ASSUME NEW S, NEW q \in Seq(S), NEW x \in S
    PROVE  /\ Append(q, x) \in Seq(S) /\ Len(Append(q, x)) = Len(q) + 1
           /\ \A i \in 1..Len(q) : Append(q, x)[i] = q[i]
           /\ Append(q, x)[Len(q) + 1] = x
           /\ Append(q, x) # <<>> /\ Len(q) \in Nat
OBVIOUS

LEMMA NoItems == ASSUME NEW S, NEW q \in Seq(S) PROVE q = <<>> <=> Len(q) = 0
OBVIOUS

LEMMA Taken ==
    ASSUME NEW S, NEW q \in Seq(S), q # <<>>
    PROVE  /\ Tail(q) \in Seq(S) /\ Len(Tail(q)) = Len(q) - 1
           /\ \A i \in 1..Len(q) - 1 : Tail(q)[i] = q[i + 1]
           /\ Head(q) = q[1] /\ q[1] \in S /\ Len(q) \in Nat /\ Len(q) > 0
           /\ (Tail(q) = <<>> <=> Len(q) = 1)
<1>1. /\ Tail(q) \in Seq(S) /\ Len(Tail(q)) = Len(q) - 1
      /\ \A i \in 1..Len(q) - 1 : Tail(q)[i] = q[i + 1]
      /\ Len(q) \in Nat /\ Len(q) > 0
      OBVIOUS
<1>2. Head(q) = q[1] /\ q[1] \in S
      BY <1>1
<1>3. Tail(q) = <<>> <=> Len(Tail(q)) = 0
      BY <1>1, NoItems
<1> QED BY <1>1, <1>2, <1>3

LEMMA NothingQueued ==
    /\ <<>> \in Seq(Rows \cup {Poison}) /\ Len(<<>>) = 0
    /\ Capacity \in Nat /\ 0 <= Capacity /\ 0 \in 0..Capacity + 1 /\ 0 \in 0..MaxRows
    /\ 1 \in Dates /\ 1 \in Versions
<1>1. Capacity \in Nat /\ MaxRows \in Nat /\ MaxDate \in Nat \ {0} /\ MaxVersion \in Nat \ {0}
      BY QueueAssumption, SegmentsAssumption
<1> QED BY <1>1 DEF Dates, Versions

LEMMA RowFacts ==
    /\ \A row \in Rows : row \in [no : 1..MaxRows, date : Dates, fields : PointSets]
    /\ \A row \in Rows : row.no \in Nat /\ row.date \in Nat
    /\ Poison \notin Rows
BY QueueAssumption DEF Rows, Dates

\* What a queue that is left alone keeps.
LEMMA SameQueue ==
    ASSUME UNCHANGED <<ui, queue>>
    PROVE  RowsQueued' = RowsQueued /\ PoisonQueued' = PoisonQueued
BY DEF RowsQueued, PoisonQueued

LEMMA CountsTyped ==
    ASSUME ThreadsType
    PROVE  /\ Len(queue) \in Nat /\ RowsQueued \in Nat /\ RowsQueued <= Len(queue)
           /\ InHand \in {0, 1} /\ Undone \in {0, 1} /\ Capacity \in Nat /\ Capacity > 0
           /\ MaxRows \in Nat /\ handed \in Nat /\ accepted \in Nat /\ dropped \in Nat
           /\ unfinished \in Nat
           /\ (queue # <<>> => Len(queue) > 0)
           /\ (queue = <<>> => Len(queue) = 0)
<1>1. Len(queue) \in Nat /\ (queue # <<>> => Len(queue) > 0) /\ (queue = <<>> => Len(queue) = 0)
      BY DEF ThreadsType
<1> QED BY <1>1, QueueAssumption DEF ThreadsType, RowsQueued, PoisonQueued, InHand, Undone

THEOREM InitInv == Init => Inv
<1> SUFFICES ASSUME Init PROVE Inv
    OBVIOUS
<1> USE DEF Init, SegmentsInit
<1>1. ThreadsType BY NothingQueued DEF ThreadsType
<1>2. SegmentsType BY NothingQueued DEF SegmentsType
<1>3. RowsQueued = 0 /\ ~PoisonQueued /\ InHand = 0 /\ Undone = 0 /\ Len(queue) = 0
      BY NothingQueued DEF RowsQueued, PoisonQueued, InHand, Undone
<1>4. Numbered /\ Dated /\ Phases
      BY <1>3, NothingQueued, QueueAssumption DEF Numbered, Dated, Phases
<1>5. RowFiles BY DEF RowFiles, SegmentsInv, HeadersStayValid
<1> QED BY <1>1, <1>2, <1>4, <1>5 DEF Inv

LEMMA StartStep == Inv /\ StartRecording => Inv'
<1> SUFFICES ASSUME Inv, StartRecording PROVE Inv'
    OBVIOUS
<1> USE DEF StartRecording, NewRecorder, counts
<1>1. queue = <<>> /\ InHand = 0 /\ RowsQueued = 0 /\ accepted = handed
      BY CountsTyped DEF Inv, Phases, Numbered, InHand, RowsQueued, PoisonQueued, ThreadsType
<1>2. queue' = <<>> /\ InHand' = 0 /\ RowsQueued' = 0 /\ ~PoisonQueued' /\ Undone' = 0
      BY DEF InHand, RowsQueued, PoisonQueued, Undone
<1>3. ThreadsType' BY NothingQueued DEF Inv, ThreadsType
<1>4. SegmentsType' BY NothingQueued DEF Inv, SegmentsType
<1>5. Numbered' BY <1>1, <1>2 DEF Inv, Numbered, ThreadsType
<1>6. Dated' BY <1>2 DEF Inv, Dated, ThreadsType, Dates
<1>7. Phases' BY <1>2 DEF Inv, Phases
<1>8. RowFiles'
      BY DEF Inv, RowFiles, SegmentsInv, HeadersStayValid, Ready, ThreadsType
<1> QED BY <1>3, <1>4, <1>5, <1>6, <1>7, <1>8 DEF Inv

LEMMA SegmentsKept ==
    ASSUME Inv, UNCHANGED segments, handed' = handed, writer' # "off" => writer # "off"
    PROVE  SegmentsType' /\ RowFiles'
BY DEF Inv, segments, recorder, SegmentsType, RowFiles, SegmentsInv, HeadersStayValid, Ready

LEMMA SampleStep ==
    ASSUME Inv, NEW d \in Dates, NEW fields \in PointSets, Sample(d, fields)
    PROVE  Inv'
<1> DEFINE row == [no |-> accepted + 1, date |-> d, fields |-> fields]
<1>1. SegmentsType' /\ RowFiles'
      BY SegmentsKept DEF Sample
<1>2. today \in Nat /\ d \in Nat /\ today <= d /\ today' = d
      BY DEF Inv, ThreadsType, Sample, Dates
<1>3. ui = "idle" /\ ui' = "idle" /\ RowsQueued = Len(queue) /\ RowsQueued' = Len(queue')
      BY DEF Sample, RowsQueued, PoisonQueued
<1>4. CASE Len(queue) < Capacity
  <2>1. /\ queue' = Append(queue, row) /\ unfinished' = unfinished + 1
        /\ accepted' = accepted + 1 /\ UNCHANGED <<ui, proxy, writer, item, handed, dropped>>
        BY <1>4, CountsTyped DEF Sample, Inv
  <2>2. accepted + 1 \in 1..MaxRows /\ row \in Rows
        BY SMTT(30), CountsTyped DEF Sample, Inv, Rows
  <2>3. /\ queue' \in Seq(Rows \cup {Poison}) /\ Len(queue') = Len(queue) + 1
        /\ \A i \in 1..Len(queue) : queue'[i] = queue[i]
        /\ queue'[Len(queue) + 1] = row /\ queue' # <<>>
        BY <2>1, <2>2, Appended DEF Inv, ThreadsType
  <2>4. ThreadsType'
    <3>1. unfinished' \in 0..Capacity + 1 /\ Len(queue') <= Capacity
          BY SMTT(30), <1>4, <2>1, <2>3, CountsTyped DEF Inv, Phases
    <3>2. accepted' \in 0..MaxRows /\ today' \in Dates
          BY <1>2, <2>1, <2>2
    <3> QED BY <2>1, <2>3, <3>1, <3>2 DEF Inv, ThreadsType
  <2>5. Numbered'
    <3>1. InHand' = InHand /\ ~PoisonQueued' BY <2>1, <1>3 DEF InHand, PoisonQueued
    <3>2. \A i \in 1..RowsQueued' : queue'[i] \in Rows /\ queue'[i].no = handed' + InHand' + i
      <4> SUFFICES ASSUME NEW i \in 1..RowsQueued'
                   PROVE  queue'[i] \in Rows /\ queue'[i].no = handed' + InHand' + i
          OBVIOUS
      <4>1. CASE i = Len(queue) + 1
        <5>1. queue'[i] = row /\ row \in Rows /\ row.no = accepted + 1
              BY <4>1, <2>2, <2>3
        <5>2. accepted = handed + InHand + Len(queue) /\ handed' = handed
              BY <1>3, <2>1 DEF Inv, Numbered
        <5> QED BY SMTT(30), <5>1, <5>2, <4>1, <3>1, CountsTyped DEF Inv
      <4>2. CASE i \in 1..Len(queue)
            BY <4>2, <1>3, <2>1, <2>3, <3>1 DEF Inv, Numbered
      <4> QED BY <4>1, <4>2, <1>3, <2>3, CountsTyped DEF Inv
    <3>3. accepted' = handed' + InHand' + RowsQueued'
      <4>1. accepted = handed + InHand + Len(queue)
            BY <1>3 DEF Inv, Numbered
      <4>2. RowsQueued' = Len(queue) + 1 /\ accepted' = accepted + 1 /\ handed' = handed
            BY <1>3, <2>1, <2>3
      <4> QED BY SMTT(30), <4>1, <4>2, <3>1, CountsTyped DEF Inv
    <3>4. accepted' + dropped' <= MaxRows
          BY SMTT(30), <2>1, CountsTyped DEF Inv, Sample
    <3>5. writer' = "write" => item' \in Rows /\ item'.no = handed' + 1
          BY <2>1 DEF Inv, Numbered
    <3> QED BY <3>1, <3>2, <3>3, <3>4, <3>5 DEF Numbered
  <2>6. Dated'
    <3>1. date \in Nat /\ date' = date
          BY DEF Inv, SegmentsType, Dates, Sample, segments, recorder
    <3>2. \A i \in 1..Len(queue) : queue[i].date \in Nat
          BY <1>3, RowFacts DEF Inv, Numbered
    <3>3. writer = "write" => item.date \in Nat
          BY RowFacts DEF Inv, Numbered
    <3>4. \A i \in 1..Len(queue') :
            IF i = Len(queue) + 1 THEN queue'[i].date = d
            ELSE i \in 1..Len(queue) /\ queue'[i] = queue[i]
          BY <2>3, CountsTyped DEF Inv
    <3>5. \A i \in 1..Len(queue) : /\ date <= queue[i].date /\ queue[i].date <= today
                                   /\ writer = "write" => item.date <= queue[i].date
          BY <1>3 DEF Inv, Dated
    <3>6. \A i, j \in 1..Len(queue) : i <= j => queue[i].date <= queue[j].date
          BY <1>3 DEF Inv, Dated
    <3>7. date <= d /\ \A i \in 1..Len(queue) : queue[i].date <= d
          BY <1>2, <3>1, <3>2, <3>5 DEF Inv, Dated
    <3>8. writer = "write" => date <= item.date /\ item.date <= d
          BY <1>2, <3>1, <3>3 DEF Inv, Dated
    <3>9. \A i \in 1..Len(queue') : /\ date <= queue'[i].date /\ queue'[i].date <= d
                                    /\ writer = "write" => item.date <= queue'[i].date
          BY <1>2, <3>4, <3>5, <3>7, <3>8
    <3>10. \A i, j \in 1..Len(queue') : i <= j => queue'[i].date <= queue'[j].date
      <4> SUFFICES ASSUME NEW i \in 1..Len(queue'), NEW j \in 1..Len(queue'), i <= j
                   PROVE  queue'[i].date <= queue'[j].date
          OBVIOUS
      <4>1. CASE j = Len(queue) + 1 BY <4>1, <3>4, <3>9
      <4>2. CASE j # Len(queue) + 1
        <5>1. i \in 1..Len(queue) /\ j \in 1..Len(queue) /\ i # Len(queue) + 1
              BY <4>2, <2>3, CountsTyped DEF Inv
        <5> QED BY <4>2, <5>1, <3>4, <3>6
      <4> QED BY <4>1, <4>2
    <3> QED BY <1>2, <1>3, <2>1, <3>1, <3>7, <3>8, <3>9, <3>10 DEF Dated
  <2>7. Phases'
        BY SMTT(30), <1>3, <2>1, <2>3, CountsTyped DEF Inv, Phases, PoisonQueued, Undone, Sample
  <2> QED BY <1>1, <2>4, <2>5, <2>6, <2>7 DEF Inv
<1>5. CASE Len(queue) >= Capacity
  <2>1. /\ dropped' = dropped + 1
        /\ UNCHANGED <<queue, unfinished, accepted, ui, proxy, writer, item, handed>>
        BY <1>5, CountsTyped DEF Sample, Inv
  <2>2. RowsQueued' = RowsQueued /\ PoisonQueued' = PoisonQueued /\ InHand' = InHand
        /\ Undone' = Undone
        BY <2>1 DEF RowsQueued, PoisonQueued, InHand, Undone
  <2>3. ThreadsType'
        BY <1>2, <2>1, CountsTyped DEF Inv, ThreadsType, Sample
  <2>4. Numbered' BY <2>1, <2>2, CountsTyped DEF Inv, Numbered, Sample
  <2>5. Dated'
    <3>1. date \in Nat /\ date' = date
          BY DEF Inv, SegmentsType, Dates, Sample, segments, recorder
    <3>2. \A i \in 1..Len(queue) : queue[i].date \in Nat
          BY <1>3, RowFacts DEF Inv, Numbered
    <3>3. writer = "write" => item.date \in Nat
          BY RowFacts DEF Inv, Numbered
    <3> QED BY <1>2, <1>3, <2>1, <2>2, <3>1, <3>2, <3>3 DEF Inv, Dated
  <2>6. Phases' BY <2>1, <2>2 DEF Inv, Phases
  <2> QED BY <1>1, <2>3, <2>4, <2>5, <2>6 DEF Inv
<1> QED BY <1>4, <1>5, CountsTyped DEF Inv

LEMMA StopStep == Inv /\ StopRecording => Inv'
<1> SUFFICES ASSUME Inv, StopRecording PROVE Inv'
    OBVIOUS
<1> USE DEF StopRecording, thread, counts
<1>1. SegmentsType' /\ RowFiles' BY SegmentsKept
<1>2. RowsQueued' = RowsQueued /\ ~PoisonQueued' /\ ~PoisonQueued
      /\ InHand' = InHand /\ Undone' = Undone
      BY DEF RowsQueued, PoisonQueued, InHand, Undone
<1>3. date' = date BY DEF segments, recorder
<1>4. ThreadsType' BY DEF Inv, ThreadsType
<1>5. Numbered' BY <1>2 DEF Inv, Numbered
<1>6. Dated' BY <1>2, <1>3 DEF Inv, Dated
<1>7. Phases' BY <1>2 DEF Inv, Phases
<1> QED BY <1>1, <1>4, <1>5, <1>6, <1>7 DEF Inv

LEMMA PutPoisonStep == Inv /\ PutPoison => Inv'
<1> SUFFICES ASSUME Inv, PutPoison PROVE Inv'
    OBVIOUS
<1>1. SegmentsType' /\ RowFiles' BY SegmentsKept DEF PutPoison
<1>2. /\ queue' = Append(queue, Poison)
      /\ queue' \in Seq(Rows \cup {Poison}) /\ Len(queue') = Len(queue) + 1
      /\ \A i \in 1..Len(queue) : queue'[i] = queue[i]
      /\ queue'[Len(queue) + 1] = Poison /\ queue' # <<>>
      BY Appended DEF PutPoison, Inv, ThreadsType
<1>3. /\ RowsQueued = Len(queue) /\ RowsQueued' = Len(queue) /\ PoisonQueued'
      /\ InHand' = InHand /\ Undone' = Undone
      BY <1>2, CountsTyped DEF RowsQueued, PoisonQueued, InHand, Undone, PutPoison, Inv
<1>4. date' = date /\ UNCHANGED <<proxy, writer, item, counts, handed>>
      BY DEF segments, recorder, PutPoison
<1>5. ThreadsType'
      BY SMTT(30), <1>2, CountsTyped DEF PutPoison, counts, Inv, ThreadsType, Phases
<1>6. Numbered' BY <1>2, <1>3, <1>4 DEF counts, Inv, Numbered
<1>7. Dated' BY <1>2, <1>3, <1>4 DEF counts, Inv, Dated
<1>8. Phases' BY SMTT(30), <1>2, <1>3, <1>4, CountsTyped DEF PutPoison, Inv, Phases
<1> QED BY <1>1, <1>5, <1>6, <1>7, <1>8 DEF Inv

LEMMA JoinedStep == Inv /\ Joined => Inv'
<1> SUFFICES ASSUME Inv, Joined PROVE Inv'
    OBVIOUS
<1> USE DEF Joined, thread, counts
<1>1. SegmentsType' /\ RowFiles' BY SegmentsKept
<1>2. queue = <<>> /\ Undone = 0
      BY CountsTyped DEF Inv, Phases
<1>3. writer = "off" BY <1>2 DEF Inv, Phases, Undone
<1>4. RowsQueued' = RowsQueued /\ PoisonQueued' = PoisonQueued
      /\ InHand' = InHand /\ Undone' = Undone
      BY <1>2 DEF RowsQueued, PoisonQueued, InHand, Undone
<1>5. date' = date BY DEF segments, recorder
<1>6. ThreadsType' BY DEF Inv, ThreadsType
<1>7. Numbered' BY <1>4 DEF Inv, Numbered
<1>8. Dated' BY <1>4, <1>5 DEF Inv, Dated
<1>9. Phases' BY <1>2, <1>3, <1>4 DEF Inv, Phases
<1> QED BY <1>1, <1>6, <1>7, <1>8, <1>9 DEF Inv

LEMMA CloseStep == Inv /\ CloseRecorder => Inv'
<1> SUFFICES ASSUME Inv, CloseRecorder PROVE Inv'
    OBVIOUS
<1> USE DEF CloseRecorder, CloseFile, thread, counts
<1>1. queue = <<>> /\ writer = "off" BY DEF Inv, Phases
<1>2. RowsQueued' = RowsQueued /\ PoisonQueued' = PoisonQueued
      /\ InHand' = InHand /\ Undone' = Undone
      BY <1>1 DEF RowsQueued, PoisonQueued, InHand, Undone
<1>3. ThreadsType' BY DEF Inv, ThreadsType
<1>4. SegmentsType' BY DEF Inv, SegmentsType
<1>5. Numbered' BY <1>2 DEF Inv, Numbered
<1>6. Dated' BY <1>2 DEF Inv, Dated
<1>7. Phases' BY <1>1, <1>2 DEF Inv, Phases
<1>8. RowFiles' BY <1>1 DEF Inv, RowFiles, SegmentsInv, HeadersStayValid
<1> QED BY <1>3, <1>4, <1>5, <1>6, <1>7, <1>8 DEF Inv

LEMMA GetStep == Inv /\ Get => Inv'
<1> SUFFICES ASSUME Inv, Get PROVE Inv'
    OBVIOUS
<1>1. SegmentsType' /\ RowFiles' BY SegmentsKept DEF Get
<1>2. /\ queue' = Tail(queue) /\ item' = queue[1]
      /\ queue' \in Seq(Rows \cup {Poison}) /\ Len(queue') = Len(queue) - 1
      /\ \A i \in 1..Len(queue) - 1 : queue'[i] = queue[i + 1]
      /\ item' \in Rows \cup {Poison} /\ Len(queue) \in Nat /\ Len(queue) > 0
      /\ (queue' = <<>> <=> Len(queue) = 1)
      /\ Head(queue) = queue[1]
      BY Taken DEF Get, Inv, ThreadsType
<1>3. date' = date /\ UNCHANGED <<ui, proxy, unfinished, counts, handed>>
      BY DEF segments, recorder, Get
<1>4. writer = "get" /\ InHand = 0 /\ Undone = 0 /\ Undone' = 1
      /\ writer' = IF item' = Poison THEN "done" ELSE "write"
      BY <1>2 DEF Get, InHand, Undone
<1>5. ThreadsType'
  <2>1. Len(queue') <= Capacity
        BY <1>2, CountsTyped DEF Inv, ThreadsType
  <2> QED BY <2>1, <1>2, <1>3, <1>4 DEF counts, Inv, ThreadsType
<1>6. CASE item' = Poison
  <2>1. RowsQueued = 0 /\ PoisonQueued /\ Len(queue) = 1
    <3>1. RowsQueued = 0
          BY <1>2, <1>6, RowFacts, CountsTyped DEF Inv, Numbered
    <3> QED BY <3>1, <1>2 DEF RowsQueued, PoisonQueued
  <2>2. ui' = "join" /\ queue' = <<>> /\ Len(queue') = 0
        /\ RowsQueued' = 0 /\ ~PoisonQueued' /\ InHand' = 0
        /\ writer' = "done"
        BY <1>2, <1>3, <1>4, <1>6, <2>1 DEF RowsQueued, PoisonQueued, InHand
  <2>3. Numbered' BY <2>1, <2>2, <1>3, <1>4 DEF counts, Inv, Numbered
  <2>4. Dated' BY <2>1, <2>2, <1>3 DEF counts, Inv, Dated
  <2>5. Phases' BY <2>1, <2>2, <1>2, <1>3, <1>4, <1>6 DEF Inv, Phases
  <2> QED BY <1>1, <1>5, <2>3, <2>4, <2>5 DEF Inv
<1>7. CASE item' # Poison
  <2>1. RowsQueued >= 1 /\ (PoisonQueued => Len(queue) > 1) /\ item' \in Rows
        BY <1>2, <1>7, CountsTyped DEF Inv, Numbered, RowsQueued
  <2>2. /\ RowsQueued' = RowsQueued - 1 /\ PoisonQueued' = PoisonQueued
        /\ InHand' = 1 /\ writer' = "write"
        BY <1>2, <1>3, <1>4, <1>7, <2>1 DEF RowsQueued, PoisonQueued, InHand
  <2>3. \A i \in 1..RowsQueued' : i + 1 \in 1..RowsQueued /\ queue'[i] = queue[i + 1]
        BY SMTT(30), <1>2, <2>2, CountsTyped DEF Inv
  <2>4. 1 \in 1..RowsQueued BY <2>1, CountsTyped DEF Inv
  <2>5. Numbered'
    <3>1. PoisonQueued' => queue'[Len(queue')] = Poison
          BY <1>2, <2>1, <2>2 DEF Inv, Numbered
    <3>2. item'.no = handed' + 1
          BY <1>2, <1>3, <1>4, <2>4, CountsTyped DEF Inv, Numbered
    <3>3. \A i \in 1..RowsQueued' : queue'[i] \in Rows /\ queue'[i].no = handed' + InHand' + i
      <4> SUFFICES ASSUME NEW i \in 1..RowsQueued'
                   PROVE  queue'[i] \in Rows /\ queue'[i].no = handed' + InHand' + i
          OBVIOUS
      <4>1. queue'[i] \in Rows /\ queue'[i].no = handed + InHand + (i + 1)
            BY <2>3 DEF Inv, Numbered
      <4>2. i \in Nat BY CountsTyped, <2>2 DEF Inv
      <4> QED BY <4>1, <4>2, <1>3, <1>4, <2>2, CountsTyped DEF Inv
    <3> QED BY <3>1, <3>2, <3>3, <1>3, <1>4, <2>1, <2>2, CountsTyped DEF counts, Inv, Numbered
  <2>6. Dated'
    <3>1. \A i \in 1..RowsQueued' : queue'[i] = queue[i + 1] /\ item'.date <= queue'[i].date
          BY <1>2, <2>3, <2>4, CountsTyped DEF Inv, Dated
    <3>2. \A i, j \in 1..RowsQueued' : i <= j => queue'[i].date <= queue'[j].date
      <4> SUFFICES ASSUME NEW i \in 1..RowsQueued', NEW j \in 1..RowsQueued', i <= j
                   PROVE  queue'[i].date <= queue'[j].date
          OBVIOUS
      <4>1. i + 1 <= j + 1 /\ i + 1 \in 1..RowsQueued /\ j + 1 \in 1..RowsQueued
            BY <2>2, <2>3, CountsTyped DEF Inv
      <4> QED BY <4>1, <2>3 DEF Inv, Dated
    <3> QED BY <3>1, <3>2, <1>2, <1>3, <2>2, <2>3, <2>4 DEF counts, Inv, Dated
  <2>7. Phases' BY <1>2, <1>3, <1>4, <2>1, <2>2, CountsTyped DEF Inv, Phases, PoisonQueued
  <2> QED BY <1>1, <1>5, <2>5, <2>6, <2>7 DEF Inv
<1> QED BY <1>6, <1>7

LEMMA WriteStep == Inv /\ WriteItem => Inv'
<1> SUFFICES ASSUME Inv, WriteItem PROVE Inv'
    OBVIOUS
<1>1. /\ writer = "write" /\ writer' = "done" /\ item \in Rows /\ item' = item
      /\ handed' = handed + 1 /\ UNCHANGED <<ui, proxy, queue, unfinished, counts>>
      BY DEF WriteItem, Inv, Numbered
<1>2. RowsQueued' = RowsQueued /\ PoisonQueued' = PoisonQueued
      /\ InHand = 1 /\ InHand' = 0 /\ Undone = 1 /\ Undone' = 1
      BY <1>1 DEF RowsQueued, PoisonQueued, InHand, Undone
<1>3. item.date \in Nat /\ item.date >= date /\ item # Poison
      BY <1>1, RowFacts DEF Inv, Dated, SegmentsType, Dates
<1>4. version \in Nat /\ handed < MaxRows /\ date \in Nat
      BY SMTT(30), <1>1, <1>2, CountsTyped DEF Inv, SegmentsType, Versions, Dates, Numbered
<1>5. NextVersion(item) \in Versions /\ NextVersion(item) <= handed + 2
      BY SMTT(30), <1>4, CountsTyped, NextVersionFact, QueueAssumption, SegmentsAssumption
      DEF Inv, RowFiles, Versions, SegmentsType
<1>6. /\ SegmentsType' /\ SegmentsInv' /\ Ready' /\ version' <= handed + 2
      /\ date' <= item.date
  <2>1. CASE WriteRow(item)
        BY <2>1, <1>1, <1>3, <1>5, WriteRowKeeps DEF Inv, RowFiles
  <2>2. CASE UNCHANGED segments
    <3>1. SegmentsType' /\ RowFiles => SegmentsInv'
          BY <2>2 DEF Inv, segments, recorder, SegmentsType, RowFiles, SegmentsInv,
                      HeadersStayValid
    <3>2. SegmentsType' /\ Ready' /\ version' = version /\ date' = date
          BY <2>2, <1>1 DEF Inv, segments, recorder, SegmentsType, RowFiles, Ready
    <3> QED BY <3>1, <3>2, <1>3, <1>4, CountsTyped DEF Inv, RowFiles
  <2> QED BY <2>1, <2>2 DEF WriteItem
<1>7. ThreadsType' BY <1>1, <1>3, <1>4, CountsTyped DEF counts, Inv, ThreadsType
<1>8. Numbered' BY SMTT(30), <1>1, <1>2, CountsTyped DEF counts, Inv, Numbered
<1>9. Dated'
  <2>1. date' \in Nat BY <1>6 DEF SegmentsType, Dates
  <2>2. today \in Nat BY DEF Inv, ThreadsType, Dates
  <2>3. \A i \in 1..RowsQueued : queue[i].date \in Nat
        BY RowFacts DEF Inv, Numbered
  <2> QED BY <1>1, <1>2, <1>3, <1>6, <2>1, <2>2, <2>3 DEF counts, Inv, Dated
<1>10. Phases' BY <1>1, <1>2, <1>3 DEF Inv, Phases
<1>11. RowFiles' BY <1>1, <1>6, CountsTyped DEF Inv, RowFiles
<1> QED BY <1>6, <1>7, <1>8, <1>9, <1>10, <1>11 DEF Inv

LEMMA DoneStep == Inv /\ TaskDone => Inv'
<1> SUFFICES ASSUME Inv, TaskDone PROVE Inv'
    OBVIOUS
<1>1. SegmentsType' /\ RowFiles' BY SegmentsKept DEF TaskDone
<1>2. /\ writer = "done" /\ writer' = (IF item = Poison THEN "off" ELSE "get")
      /\ item' = Poison /\ unfinished' = unfinished - 1
      /\ date' = date /\ UNCHANGED <<ui, proxy, queue, counts, handed>>
      BY DEF TaskDone, segments, recorder
<1>3. RowsQueued' = RowsQueued /\ PoisonQueued' = PoisonQueued
      /\ InHand = 0 /\ InHand' = 0 /\ Undone = 1 /\ Undone' = 0
      BY <1>2 DEF RowsQueued, PoisonQueued, InHand, Undone
<1>4. ThreadsType'
      BY <1>2, <1>3, CountsTyped DEF counts, Inv, ThreadsType, Phases
<1>5. Numbered' BY <1>2, <1>3 DEF counts, Inv, Numbered
<1>6. Dated' BY <1>2, <1>3 DEF counts, Inv, Dated
<1>7. Phases' BY <1>2, <1>3, CountsTyped DEF Inv, Phases, PoisonQueued
<1> QED BY <1>1, <1>4, <1>5, <1>6, <1>7 DEF Inv
-----------------------------------------------------------------------------
LEMMA NextInv == Inv /\ [Next]_vars => Inv'
<1>1. Inv /\ UNCHANGED vars => Inv'
  <2> SUFFICES ASSUME Inv, UNCHANGED vars PROVE Inv'
      OBVIOUS
  <2>1. SegmentsType' /\ RowFiles' BY SegmentsKept DEF vars, thread
  <2>2. RowsQueued' = RowsQueued /\ PoisonQueued' = PoisonQueued
        /\ InHand' = InHand /\ Undone' = Undone /\ date' = date
        BY DEF vars, thread, RowsQueued, PoisonQueued, InHand, Undone, segments, recorder
  <2>3. ThreadsType' BY DEF vars, thread, counts, Inv, ThreadsType
  <2>4. Numbered' BY <2>2 DEF vars, thread, counts, Inv, Numbered
  <2>5. Dated' BY <2>2 DEF vars, thread, counts, Inv, Dated
  <2>6. Phases' BY <2>2 DEF vars, thread, counts, Inv, Phases
  <2> QED BY <2>1, <2>3, <2>4, <2>5, <2>6 DEF Inv
<1> QED BY <1>1, StartStep, SampleStep, StopStep, PutPoisonStep, JoinedStep, CloseStep,
           GetStep, WriteStep, DoneStep DEF Next, Main, Writer

\* The inductive invariant holds in every reachable state.
THEOREM Invariance == Spec => []Inv
<1> QED BY InitInv, NextInv, PTL DEF Spec

\* Type correctness; among others the queue never exceeds its maximum and the
\* schema version never exceeds the rows handed over by more than one.
THEOREM Typing == Spec => []TypeOK
<1>1. Inv => TypeOK BY DEF Inv, ThreadsType, TypeOK
<1> QED BY <1>1, Invariance, PTL

\* However the columns of the samples change and whichever files fail to open, a
\* recorder never puts a row into a file it created under another header.
THEOREM Readable == Spec => []HeadersStayValid
<1>1. Inv => HeadersStayValid BY DEF Inv, RowFiles, SegmentsInv
<1> QED BY <1>1, Invariance, PTL

\* The proxy, its queue and its thread implement the contract: nothing accepted is
\* lost, handed twice or out of order, and close() comes after the last row.
THEOREM Refinement == Spec => ImplementsContract
<1>1. Init => Contract!Init
      BY DEF Init, Contract!Init
<1>2. Inv /\ [Next]_vars => [Contract!Next]_Contract!vars
  <2> SUFFICES ASSUME Inv, [Next]_vars PROVE [Contract!Next]_Contract!vars
      OBVIOUS
  <2> USE DEF Contract!Next, Contract!vars
  <2>1. CASE StartRecording
        BY <2>1 DEF StartRecording, counts, Contract!Create
  <2>2. ASSUME NEW d \in Dates, NEW fields \in PointSets, Sample(d, fields)
        PROVE  [Contract!Next]_Contract!vars
    <3>1. CASE Len(queue) < Capacity
          BY <2>2, <3>1, CountsTyped DEF Sample, Inv, Contract!Accept
    <3>2. CASE Len(queue) >= Capacity
      <4>1. accepted - handed >= Capacity
            BY SMTT(30), <2>2, <3>2, CountsTyped DEF Sample, Inv, Numbered, RowsQueued, PoisonQueued
      <4>2. dropped' = dropped + 1 /\ UNCHANGED <<proxy, accepted, handed>> /\ proxy
            BY <2>2, <3>2, CountsTyped DEF Sample, Inv
      <4> QED BY <4>1, <4>2 DEF Contract!Drop
    <3> QED BY <3>1, <3>2, CountsTyped DEF Inv
  <2>3. CASE StopRecording BY <2>3 DEF StopRecording, counts
  <2>4. CASE PutPoison BY <2>4 DEF PutPoison, counts
  <2>5. CASE Joined BY <2>5 DEF Joined, counts
  <2>6. CASE CloseRecorder
    <3>1. handed = accepted /\ proxy
          BY <2>6, CountsTyped
          DEF CloseRecorder, Inv, Phases, Numbered, RowsQueued, PoisonQueued, InHand
    <3> QED BY <3>1, <2>6 DEF CloseRecorder, counts, Contract!Close
  <2>7. CASE Get BY <2>7 DEF Get, counts
  <2>8. CASE WriteItem
    <3>1. handed < accepted /\ handed' = handed + 1 /\ proxy
      <4>1. writer = "write" /\ InHand = 1 BY <2>8 DEF WriteItem, InHand
      <4> QED BY <4>1, <2>8, CountsTyped DEF WriteItem, Inv, Numbered, Phases
    <3> QED BY <3>1, <2>8 DEF WriteItem, counts, Contract!Hand
  <2>9. CASE TaskDone BY <2>9 DEF TaskDone, counts
  <2>10. CASE UNCHANGED vars BY <2>10 DEF vars, counts
  <2> QED BY <2>1, <2>2, <2>3, <2>4, <2>5, <2>6, <2>7, <2>8, <2>9, <2>10
      DEF Next, Main, Writer
<1> QED BY <1>1, <1>2, Invariance, PTL DEF Spec, ImplementsContract, Contract!Spec
=============================================================================
