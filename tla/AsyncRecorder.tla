--------------------------- MODULE AsyncRecorder ---------------------------
(***************************************************************************)
(* AsyncRecorderProxy in front of the CsvRecorder of one device: the main  *)
(* thread starts and stops the recording and offers a row for every        *)
(* sample, the writer thread takes the rows out of the queue.  The main    *)
(* thread waits inside close() until the writer is through.                *)
(***************************************************************************)
EXTENDS CsvSegments, Sequences

CONSTANTS
    Capacity,       \* max_queue
    MaxRows,        \* bound on the rows offered
    Poison          \* the None that ends the writer

Rows == [no : 1..MaxRows, date : Dates, fields : PointSets]
ASSUME QueueAssumption == /\ Capacity \in Nat \ {0} /\ MaxRows \in Nat
                          /\ MaxVersion > MaxRows
                          /\ Poison \notin Rows

VARIABLES
    ui,             \* where the main thread is: "idle" or a step of close()
    proxy,          \* the device has an entry in recorders
    queue, unfinished,      \* queue.Queue and its unfinished_tasks
    writer, item,   \* the writer thread: "off", "get", "write" or "done", and its item
    today,          \* date of the latest sample
    accepted, dropped,      \* rows taken and not taken (dropped_rows, over all proxies)
    handed          \* history: the number of the last row the recorder was given

thread == <<queue, unfinished, writer, item>>
counts == <<today, accepted, dropped>>
vars == <<ui, proxy, thread, counts, handed, segments>>

Init == /\ ui = "idle" /\ proxy = FALSE
        /\ queue = <<>> /\ unfinished = 0
        /\ writer = "off" /\ item = Poison
        /\ today = 1 /\ accepted = 0 /\ dropped = 0
        /\ handed = 0
        /\ SegmentsInit
-----------------------------------------------------------------------------
(* The main thread.                                                        *)

\* start_bms_csv_recording, start_pcs_csv_recording
StartRecording ==
    /\ ui = "idle" /\ ~proxy
    /\ proxy' = TRUE
    /\ queue' = <<>> /\ unfinished' = 0 /\ writer' = "get" /\ item' = Poison
    /\ NewRecorder
    /\ UNCHANGED <<ui, counts, handed>>

\* on_data_received, on_pcs_data_received: put_nowait.
Sample(d, fields) ==
    /\ ui = "idle" /\ proxy
    /\ accepted + dropped < MaxRows
    /\ d >= today /\ today' = d
    /\ \/ /\ Len(queue) < Capacity
          /\ queue' = Append(queue, [no |-> accepted + 1, date |-> d, fields |-> fields])
          /\ unfinished' = unfinished + 1 /\ accepted' = accepted + 1
          /\ UNCHANGED dropped
       \/ /\ Len(queue) >= Capacity
          /\ dropped' = dropped + 1
          /\ UNCHANGED <<queue, unfinished, accepted>>
    /\ UNCHANGED <<ui, proxy, writer, item, handed, segments>>

\* _stop_bms_csv_for_device, _stop_pcs_csv_for_device: close() begins, running is
\* reset and the entry is gone.
StopRecording ==
    /\ ui = "idle" /\ proxy
    /\ ui' = "put"
    /\ UNCHANGED <<proxy, thread, counts, handed, segments>>

\* queue.put(None) waits for a place in the queue.
PutPoison ==
    /\ ui = "put" /\ Len(queue) < Capacity
    /\ ui' = "join"
    /\ queue' = Append(queue, Poison) /\ unfinished' = unfinished + 1
    /\ UNCHANGED <<proxy, writer, item, counts, handed, segments>>

\* A mistake to be caught: no queue.join, only the 5 s for the thread.
MutJoined ==
    /\ ui = "join"
    /\ ui' = "close"
    /\ UNCHANGED <<proxy, thread, counts, handed, segments>>

\* queue.join()
Joined ==
    /\ ui = "join" /\ unfinished = 0
    /\ ui' = "close"
    /\ UNCHANGED <<proxy, thread, counts, handed, segments>>

\* thread.join, with the writer ended or after its 5 s, and recorder.close().
CloseRecorder ==
    /\ ui = "close"
    /\ ui' = "idle" /\ proxy' = FALSE
    /\ CloseFile
    /\ UNCHANGED <<thread, counts, handed>>
-----------------------------------------------------------------------------
(* The writer thread, _run.                                                *)

Get ==
    /\ writer = "get" /\ queue # <<>>
    /\ item' = Head(queue) /\ queue' = Tail(queue)
    /\ writer' = IF Head(queue) = Poison THEN "done" ELSE "write"
    /\ UNCHANGED <<ui, proxy, unfinished, counts, handed, segments>>

\* The wrapped recorder takes the row, or raises and leaves none.
WriteItem ==
    /\ writer = "write"
    /\ handed' = item.no
    /\ WriteRow(item) \/ UNCHANGED segments
    /\ writer' = "done"
    /\ UNCHANGED <<ui, proxy, queue, unfinished, item, counts>>

\* A mistake to be caught: the poison ends the thread without task_done.
MutTaskDone ==
    /\ writer = "done"
    /\ unfinished' = IF item = Poison THEN unfinished ELSE unfinished - 1
    /\ writer' = IF item = Poison THEN "off" ELSE "get"
    /\ item' = Poison
    /\ UNCHANGED <<ui, proxy, queue, counts, handed, segments>>

\* task_done; the poison ends the thread.
TaskDone ==
    /\ writer = "done"
    /\ unfinished' = unfinished - 1
    /\ writer' = IF item = Poison THEN "off" ELSE "get"
    /\ item' = Poison
    /\ UNCHANGED <<ui, proxy, queue, counts, handed, segments>>
-----------------------------------------------------------------------------
Main == \/ StartRecording
        \/ \E d \in Dates, fields \in PointSets : Sample(d, fields)
        \/ StopRecording
        \/ PutPoison \/ Joined \/ CloseRecorder
Writer == Get \/ WriteItem \/ TaskDone
Next == Main \/ Writer

Spec == Init /\ [][Next]_vars

\* The writer runs whenever it has something to do, and close() goes on whenever
\* what it waits for is there.  Nothing is assumed of samples and of the operator.
FairSpec == Spec /\ WF_vars(Writer) /\ WF_vars(PutPoison \/ Joined \/ CloseRecorder)
-----------------------------------------------------------------------------
\* Every variable has its type; the queue never holds more than its maximum.
TypeOK == /\ ui \in {"idle", "put", "join", "close"} /\ proxy \in BOOLEAN
          /\ queue \in Seq(Rows \cup {Poison}) /\ Len(queue) <= Capacity
          /\ unfinished \in 0..Capacity + 1
          /\ writer \in {"off", "get", "write", "done"}
          /\ item \in Rows \cup {Poison} /\ (writer = "write" => item # Poison)
          /\ today \in Dates
          /\ accepted \in 0..MaxRows /\ dropped \in 0..MaxRows
          /\ handed \in 0..MaxRows
          /\ SegmentsType

\* "close() drains the queue before closing the wrapped recorder" and "UI thread
\* enqueues writes quickly": every accepted row is given to the recorder, once, in
\* order and before it is closed, and rows are dropped only at a full queue.
Contract == INSTANCE RecorderContract WITH open <- proxy
ImplementsContract == Contract!Spec

\* close(), in which the main thread waits, returns, whatever rows fail.
CloseReturns == ui # "idle" ~> ui = "idle"
=============================================================================
