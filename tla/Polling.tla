------------------------------- MODULE Polling -------------------------------
(***************************************************************************)
(* The polling threads of the battery systems (BMS) and of the power       *)
(* conversion systems (PCS), the heartbeat threads of the BMSs, the Qt     *)
(* signals that carry what they read to the GUI thread, and what the GUI   *)
(* shows of them: worker.py, the handlers of ui_device.py and              *)
(* pcs_mixin.py that start and stop them, and the slots of                 *)
(* data_receive_mixin.py, scheduler_mixin.py and pcs_mixin.py.             *)
(*                                                                         *)
(* A handler stops a thread and waits join(timeout=3.0), which may give    *)
(* up: the steps the thread takes meanwhile commute with the rest of the   *)
(* handler (it only appends to the queue of signals), so a handler is one  *)
(* step here and a thread it stopped may run on after it.  A thread emits  *)
(* a status and a sample as two signals one after the other, in one step:  *)
(* they change different parts of the state.  Recording to CSV is left to  *)
(* AsyncRecorder, the workflow threads to HvRegistry.                      *)
(***************************************************************************)
EXTENDS Integers, Sequences

CONSTANTS
    Bms, Pcs,         \* names of the battery systems and of the converters
    Fleets,           \* the plants, and what their operators do with them
    MaxThread,        \* bound: at most MaxThread threads live at a time
    MaxSignals,       \* bound: length of the queue of signals
    NoBeat,           \* a sample without a usable heartbeat
    HeartbeatModulus, \* 256: the heartbeat counters wrap around
    Tolerance,        \* 5: a step of the BMS heartbeat that is no jump
    StaleCount        \* 3: so many equal heartbeats mean a stale BMS

Names == Bms \cup Pcs
Threads == 1..MaxThread
NoThread == 0

\* A fleet: its devices, those the operator polls, the BMSs he writes a
\* heartbeat to, and the heartbeats in the samples of the BMSs.
Fleet == [devices: SUBSET Names, polled: SUBSET Names, beaten: SUBSET Bms,
          heartbeats: SUBSET (0..(HeartbeatModulus - 1))]

ASSUME NamesAssumption == Bms \cap Pcs = {} /\ Fleets \subseteq Fleet
ASSUME BoundsAssumption == MaxThread \in Nat /\ MaxSignals \in Nat
ASSUME HeartbeatAssumption ==
    /\ HeartbeatModulus \in Nat \ {0}
    /\ NoBeat \notin Int
    /\ Tolerance \in Nat /\ StaleCount \in Nat \ {0}

VARIABLES
    fleet,      \* the plant; never changes
    names,      \* the configured ones: devices with their rows, pcs_configs
    thread,     \* the Python threads
    worker,     \* device_workers and pcs_workers
    beater,     \* heartbeat_workers
    signals,    \* queued signals of the UiBridge
    task,       \* task_status_store: status per name
    runCol,     \* column 11 of the BMS table
    online,     \* column 12 of the BMS table
    lastBeat,   \* bms_last_heartbeat
    sameCount,  \* bms_heartbeat_same_count
    pcsSample,  \* latest_pcs_snapshots
    pcsError,   \* latest_pcs_errors
    connection  \* connection column of the PCS table

bmsView == <<runCol, online, lastBeat, sameCount>>
pcsView == <<pcsSample, pcsError, connection>>
vars == <<fleet, names, thread, worker, beater, signals, task, bmsView, pcsView>>

Heartbeats == 0..(HeartbeatModulus - 1) \cup {NoBeat}
Statuses == {"Scheduled", "Running", "Error", "Stopped"}  \* "Timeout" is an "Error"
Samples == {"good", "bad"}  \* a PCS sample is bad when a point could not be read
Signal == [kind: {"status"}, name: Names, value: Statuses]
            \cup [kind: {"data"}, name: Bms, value: Heartbeats]
            \cup [kind: {"data"}, name: Pcs, value: Samples]
            \cup [kind: {"error"}, name: Names, value: {"-"}]
Thread == [role: {"poll", "beat"}, name: Names \cup {"-"},
           pc: {"ended", "new", "connect", "loop"},
           running: BOOLEAN,  \* the flag that stop() clears
           lost: BOOLEAN,     \* stop() came before run() set the flag
           delayed: BOOLEAN]  \* initial_delay > 0
NoName == "-"
Ended == [role |-> "poll", name |-> NoName, pc |-> "ended", running |-> FALSE,
          lost |-> FALSE, delayed |-> FALSE]

------------------------------------------------------------------------------
(* Threads.                                                                *)

Live(t) == thread[t].pc # "ended"
Registered(t) ==
    \/ \E n \in Names : worker[n] = t
    \/ \E b \in Bms : beater[b] = t

\* A slot for a new thread: one that neither runs nor is registered.
Free(t) == ~Live(t) /\ ~Registered(t)
Fresh == CHOOSE t \in Threads : Free(t)
CanStart == \E t \in Threads : Free(t)

NewThread(role, n, delayed) ==
    [role |-> role, name |-> n, pc |-> "new", running |-> FALSE, lost |-> FALSE,
     delayed |-> delayed]

\* A defect that breaks StoppedThreadsEnd: the flag is cleared only once the thread is connected.
MutTold(ts) ==
    [t \in Threads |->
        IF t \in ts /\ thread[t].pc # "connect"
        THEN [thread[t] EXCEPT !.running = FALSE, !.lost = @ \/ thread[t].pc = "new"]
        ELSE thread[t]]

\* stop() of the threads in ts.
Told(ts) ==
    [t \in Threads |->
        IF t \in ts
        THEN [thread[t] EXCEPT !.running = FALSE, !.lost = @ \/ thread[t].pc = "new"]
        ELSE thread[t]]

Status(n, s) == [kind |-> "status", name |-> n, value |-> s]
Data(n, v) == [kind |-> "data", name |-> n, value |-> v]
Error(n) == [kind |-> "error", name |-> n, value |-> "-"]

Emit(msgs) ==
    /\ Len(signals) + Len(msgs) <= MaxSignals
    /\ signals' = signals \o msgs

\* What the steps of a thread leave alone.
ThreadOnly ==
    UNCHANGED <<fleet, names, worker, beater, task, bmsView, pcsView>>

\* run() sets the flag, whatever stop() did before, and announces its delay.
Begin(t) ==
    /\ thread[t].pc = "new"
    /\ thread' = [thread EXCEPT ![t].pc = "connect", ![t].running = TRUE]
    /\ Emit(IF thread[t].role = "poll" /\ thread[t].delayed
            THEN <<Status(thread[t].name, "Scheduled")>> ELSE <<>>)
    /\ ThreadOnly

\* The client connects; or it does not, and the thread is over at once: no
\* status "Stopped", and the registry keeps its entry.
Connect(t) ==
    /\ thread[t].role = "poll" /\ thread[t].pc = "connect"
    /\ \/ /\ thread' = [thread EXCEPT ![t].pc = "loop"]
          /\ Emit(<<Status(thread[t].name, "Running")>>)
       \/ /\ thread' = [thread EXCEPT ![t] = Ended]
          /\ Emit(<<Status(thread[t].name, "Error"), Error(thread[t].name)>>)
    /\ ThreadOnly

\* One read of a BMS: a sample, or no answer, or an exception.
ReadBms(t) ==
    /\ thread[t].role = "poll" /\ thread[t].pc = "loop" /\ thread[t].running
    /\ thread[t].name \in Bms
    /\ LET b == thread[t].name
       IN  \/ \E h \in fleet.heartbeats \cup {NoBeat} :
                Emit(<<Status(b, "Running"), Data(b, h)>>)
           \/ Emit(<<Status(b, "Error"), Error(b)>>)
    /\ UNCHANGED thread
    /\ ThreadOnly

\* One read of a PCS: points that fail are listed in the sample, which is
\* delivered as a success all the same.
ReadPcs(t) ==
    /\ thread[t].role = "poll" /\ thread[t].pc = "loop" /\ thread[t].running
    /\ thread[t].name \in Pcs
    /\ LET p == thread[t].name
       IN  \E s \in Samples : Emit(<<Status(p, "Running"), Data(p, s)>>)
    /\ UNCHANGED thread
    /\ ThreadOnly

\* A defect that breaks TaskStatusSettles: the thread ends without its last status.
MutFinish(t) ==
    /\ thread[t].role = "poll" /\ thread[t].pc = "loop" /\ ~thread[t].running
    /\ thread' = [thread EXCEPT ![t] = Ended]
    /\ UNCHANGED signals
    /\ ThreadOnly

\* The loop sees the flag: a last status, and the client is closed.
Finish(t) ==
    /\ thread[t].role = "poll" /\ thread[t].pc = "loop" /\ ~thread[t].running
    /\ thread' = [thread EXCEPT ![t] = Ended]
    /\ Emit(<<Status(thread[t].name, "Stopped")>>)
    /\ ThreadOnly

\* The heartbeat thread: connects or is over, writes its counter while the
\* flag is set, and ends.  Its signals only change labels and are left out,
\* and so is the counter.
Beat(t) ==
    /\ thread[t].role = "beat"
    /\ \/ /\ thread[t].pc = "connect"
          /\ thread' = [thread EXCEPT ![t].pc = "loop"]
       \/ /\ thread[t].pc = "connect" \/ (thread[t].pc = "loop" /\ ~thread[t].running)
          /\ thread' = [thread EXCEPT ![t] = Ended]
    /\ UNCHANGED signals
    /\ ThreadOnly

ThreadStep(t) ==
    Begin(t) \/ Connect(t) \/ ReadBms(t) \/ ReadPcs(t) \/ Finish(t) \/ Beat(t)

------------------------------------------------------------------------------
(* The GUI thread: the operator's handlers.                                *)

\* Connection column of the PCS table.
ConnectionText(p, ws, samples, errors) ==
    CASE ws[p] = NoThread -> "Disconnected"
      [] ws[p] # NoThread /\ (errors[p] \/ samples[p] = "bad") -> "Error"
      [] ws[p] # NoThread /\ ~errors[p] /\ samples[p] = "good" -> "Connected"
      [] OTHER -> "Connecting"

\* refresh_pcs_view: every row of the PCS table from the current state.
RefreshPcs(ns, ws, samples, errors) ==
    [p \in Pcs |-> IF p \in ns THEN ConnectionText(p, ws, samples, errors) ELSE "-"]

\* add_device: the row of a new BMS.
AddBms(b) ==
    /\ b \in fleet.devices \ names
    /\ names' = names \cup {b}
    /\ runCol' = [runCol EXCEPT ![b] = "Idle"]
    /\ online' = [online EXCEPT ![b] = "Unknown"]
    /\ UNCHANGED <<fleet, thread, worker, beater, signals, task, lastBeat,
                   sameCount, pcsView>>

\* A defect that breaks NoUnownedThread: a BMS is removed and its heartbeat thread forgotten.
MutRemoveBms(b) ==
    /\ b \in names
    /\ names' = names \ {b}
    /\ thread' = Told({worker[b]})
    /\ worker' = [worker EXCEPT ![b] = NoThread]
    /\ beater' = [beater EXCEPT ![b] = NoThread]
    /\ task' = [task EXCEPT ![b] = "-"]
    /\ runCol' = [runCol EXCEPT ![b] = "-"]
    /\ online' = [online EXCEPT ![b] = "-"]
    /\ UNCHANGED <<fleet, signals, lastBeat, sameCount, pcsView>>

\* remove_selected_device: the threads are told to stop, the row and the
\* task status go; the memory of the heartbeat stays.
RemoveBms(b) ==
    /\ b \in names
    /\ names' = names \ {b}
    /\ thread' = Told({worker[b], beater[b]})
    /\ worker' = [worker EXCEPT ![b] = NoThread]
    /\ beater' = [beater EXCEPT ![b] = NoThread]
    /\ task' = [task EXCEPT ![b] = "-"]
    /\ runCol' = [runCol EXCEPT ![b] = "-"]
    /\ online' = [online EXCEPT ![b] = "-"]
    /\ UNCHANGED <<fleet, signals, lastBeat, sameCount, pcsView>>

\* start_device_by_name: nothing when the registry has an entry, be its
\* thread dead or alive.
StartBms(b) ==
    /\ b \in names \cap fleet.polled /\ worker[b] = NoThread /\ CanStart
    /\ LET delayed == \E c \in Bms : worker[c] # NoThread
       IN  thread' = [thread EXCEPT ![Fresh] = NewThread("poll", b, delayed)]
    /\ worker' = [worker EXCEPT ![b] = Fresh]
    /\ task' = [task EXCEPT ![b] = "Scheduled"]
    /\ runCol' = [runCol EXCEPT ![b] = "Running"]
    /\ UNCHANGED <<fleet, names, beater, signals, online, lastBeat, sameCount, pcsView>>

\* stop_device_by_name: the polling and the heartbeat thread.
StopBms(b) ==
    /\ b \in names
    /\ thread' = Told({worker[b], beater[b]})
    /\ worker' = [worker EXCEPT ![b] = NoThread]
    /\ beater' = [beater EXCEPT ![b] = NoThread]
    /\ task' = [task EXCEPT ![b] = "Stopped"]
    /\ runCol' = [runCol EXCEPT ![b] = "Stopped"]
    /\ UNCHANGED <<fleet, names, signals, online, lastBeat, sameCount, pcsView>>

\* handle_start_heartbeat.
StartHeartbeat(b) ==
    /\ b \in names \cap fleet.beaten /\ beater[b] = NoThread /\ CanStart
    /\ thread' = [thread EXCEPT ![Fresh] = NewThread("beat", b, FALSE)]
    /\ beater' = [beater EXCEPT ![b] = Fresh]
    /\ UNCHANGED <<fleet, names, worker, signals, task, bmsView, pcsView>>

\* handle_stop_heartbeat.
StopHeartbeat(b) ==
    /\ b \in names /\ beater[b] # NoThread
    /\ thread' = Told({beater[b]})
    /\ beater' = [beater EXCEPT ![b] = NoThread]
    /\ UNCHANGED <<fleet, names, worker, signals, task, bmsView, pcsView>>

\* start_pcs_polling_by_name: no status until the thread sends one.
StartPcs(p) ==
    /\ p \in names \cap fleet.polled /\ worker[p] = NoThread /\ CanStart
    /\ thread' = [thread EXCEPT ![Fresh] = NewThread("poll", p, FALSE)]
    /\ worker' = [worker EXCEPT ![p] = Fresh]
    /\ connection' = RefreshPcs(names, worker', pcsSample, pcsError)
    /\ UNCHANGED <<fleet, names, beater, signals, task, bmsView, pcsSample, pcsError>>

\* A defect that breaks PcsRowsAreTrue: the table is not refreshed after the stop.
MutStopPcs(p) ==
    /\ p \in fleet.devices
    /\ thread' = Told({worker[p]})
    /\ worker' = [worker EXCEPT ![p] = NoThread]
    /\ UNCHANGED <<fleet, names, beater, signals, task, bmsView, pcsView>>

\* stop_pcs_polling_by_name: also for a PCS that was removed meanwhile.
StopPcs(p) ==
    /\ p \in fleet.devices
    /\ thread' = Told({worker[p]})
    /\ worker' = [worker EXCEPT ![p] = NoThread]
    /\ connection' = RefreshPcs(names, worker', pcsSample, pcsError)
    /\ UNCHANGED <<fleet, names, beater, signals, task, bmsView, pcsSample, pcsError>>

\* add_or_update_pcs.
AddPcs(p) ==
    /\ p \in fleet.devices \ names
    /\ names' = names \cup {p}
    /\ connection' = RefreshPcs(names', worker, pcsSample, pcsError)
    /\ UNCHANGED <<fleet, thread, worker, beater, signals, task, bmsView, pcsSample,
                   pcsError>>

\* remove_selected_pcs: one PCS must remain; its thread polls on.
RemovePcs(p) ==
    /\ p \in names /\ names \cap Pcs # {p}
    /\ names' = names \ {p}
    /\ connection' = RefreshPcs(names', worker, pcsSample, pcsError)
    /\ UNCHANGED <<fleet, thread, worker, beater, signals, task, bmsView, pcsSample,
                   pcsError>>

\* stop_all, also when the window closes: every thread is told to stop.
StopAll ==
    /\ thread' = Told({worker[n] : n \in Names} \cup {beater[b] : b \in Bms})
    /\ worker' = [n \in Names |-> NoThread]
    /\ beater' = [b \in Bms |-> NoThread]
    /\ task' = [n \in Names |-> IF n \in names \cap Bms THEN "Stopped" ELSE task[n]]
    /\ runCol' = [b \in Bms |-> IF b \in names THEN "Stopped" ELSE runCol[b]]
    /\ connection' = RefreshPcs(names, worker', pcsSample, pcsError)
    /\ UNCHANGED <<fleet, names, signals, online, lastBeat, sameCount, pcsSample, pcsError>>

Operator ==
    \/ \E b \in Bms : \/ AddBms(b) \/ RemoveBms(b) \/ StartBms(b) \/ StopBms(b)
                      \/ StartHeartbeat(b) \/ StopHeartbeat(b)
    \/ \E p \in Pcs : StartPcs(p) \/ StopPcs(p) \/ AddPcs(p) \/ RemovePcs(p)
    \/ StopAll

------------------------------------------------------------------------------
(* The GUI thread: the slots, in the order of the signals.                 *)

Received == Head(signals)
Slot(kind) == signals # <<>> /\ Received.kind = kind /\ signals' = Tail(signals)

\* on_task_status_received: also brings back the entry of a removed device.
OnStatus ==
    /\ Slot("status")
    /\ task' = [task EXCEPT ![Received.name] = Received.value]
    /\ UNCHANGED <<fleet, names, thread, worker, beater, bmsView, pcsView>>

\* A defect that breaks FrozenIsNoticed: equal heartbeats are not counted.
MutOnlineState(b, h) ==
    LET delta == (h - lastBeat[b]) % HeartbeatModulus
    IN  CASE h = NoBeat ->
               [text |-> "Unknown", last |-> lastBeat[b], same |-> sameCount[b]]
          [] h # NoBeat /\ (lastBeat[b] = NoBeat \/ delta \in 0..Tolerance) ->
               [text |-> "Online", last |-> h, same |-> 0]
          [] OTHER -> [text |-> "Stale", last |-> h, same |-> 0]

\* evaluate_bms_online_state: the text, and the heartbeat and the number of
\* equal ones it remembers (counted up to StaleCount here).
OnlineState(b, h) ==
    LET delta == (h - lastBeat[b]) % HeartbeatModulus
        more == IF sameCount[b] < StaleCount THEN sameCount[b] + 1 ELSE StaleCount
    IN  CASE h = NoBeat ->
               [text |-> "Unknown", last |-> lastBeat[b], same |-> sameCount[b]]
          [] h # NoBeat /\ (lastBeat[b] = NoBeat \/ delta \in 1..Tolerance) ->
               [text |-> "Online", last |-> h, same |-> 0]
          [] h # NoBeat /\ lastBeat[b] = h ->
               [text |-> IF more >= StaleCount THEN "Stale" ELSE "Online",
                last |-> h, same |-> more]
          [] OTHER -> [text |-> "Stale", last |-> h, same |-> 0]

\* on_data_received: column 11 says "Running" whatever happened meanwhile.
OnBmsData ==
    /\ Slot("data") /\ Received.name \in Bms
    /\ LET b == Received.name
           state == OnlineState(b, Received.value)
       IN  /\ lastBeat' = [lastBeat EXCEPT ![b] = state.last]
           /\ sameCount' = [sameCount EXCEPT ![b] = state.same]
           /\ runCol' = [runCol EXCEPT ![b] = IF b \in names THEN "Running" ELSE @]
           /\ online' = [online EXCEPT ![b] = IF b \in names THEN state.text ELSE @]
    /\ UNCHANGED <<fleet, names, thread, worker, beater, task, pcsView>>

\* on_error_received.
OnBmsError ==
    /\ Slot("error") /\ Received.name \in Bms
    /\ LET b == Received.name
       IN  /\ runCol' = [runCol EXCEPT ![b] = IF b \in names THEN "Error" ELSE @]
           /\ online' = [online EXCEPT ![b] = IF b \in names THEN "Offline" ELSE @]
    /\ UNCHANGED <<fleet, names, thread, worker, beater, task, lastBeat, sameCount, pcsView>>

\* on_pcs_data_received: the sample clears the error; one row is refreshed.
OnPcsData ==
    /\ Slot("data") /\ Received.name \in Pcs
    /\ LET p == Received.name
       IN  /\ pcsSample' = [pcsSample EXCEPT ![p] = Received.value]
           /\ pcsError' = [pcsError EXCEPT ![p] = FALSE]
           /\ connection' = [connection EXCEPT ![p] =
                IF p \in names THEN ConnectionText(p, worker, pcsSample', pcsError') ELSE @]
    /\ UNCHANGED <<fleet, names, thread, worker, beater, task, bmsView>>

\* on_pcs_error_received.
OnPcsError ==
    /\ Slot("error") /\ Received.name \in Pcs
    /\ pcsError' = [pcsError EXCEPT ![Received.name] = TRUE]
    /\ connection' = RefreshPcs(names, worker, pcsSample, pcsError')
    /\ UNCHANGED <<fleet, names, thread, worker, beater, task, bmsView, pcsSample>>

Deliver == OnStatus \/ OnBmsData \/ OnBmsError \/ OnPcsData \/ OnPcsError

------------------------------------------------------------------------------
\* A start of the program with a configured fleet; no thread runs yet.
Init ==
    /\ fleet \in Fleets
    /\ names = fleet.devices
    /\ thread = [t \in Threads |-> Ended]
    /\ worker = [n \in Names |-> NoThread]
    /\ beater = [b \in Bms |-> NoThread]
    /\ signals = <<>>
    /\ task = [n \in Names |-> "-"]
    /\ runCol = [b \in Bms |-> IF b \in names THEN "Idle" ELSE "-"]
    /\ online = [b \in Bms |-> IF b \in names THEN "Unknown" ELSE "-"]
    /\ lastBeat = [b \in Bms |-> NoBeat]
    /\ sameCount = [b \in Bms |-> 0]
    /\ pcsSample = [p \in Pcs |-> "-"]
    /\ pcsError = [p \in Pcs |-> FALSE]
    /\ connection = [p \in Pcs |-> IF p \in names THEN "Disconnected" ELSE "-"]

Next == Operator \/ Deliver \/ \E t \in Threads : ThreadStep(t)

Spec == Init /\ [][Next]_vars

\* The event loop delivers what is queued, and a thread goes on: reads and
\* connects have timeouts and sleeps end.  Strong, because only the bound of
\* the queue ever holds a thread up.
FairSpec == Spec /\ WF_vars(Deliver) /\ \A t \in Threads : SF_vars(ThreadStep(t))

------------------------------------------------------------------------------
(* Properties.                                                             *)

TypeOK ==
    /\ fleet \in Fleets /\ names \subseteq fleet.devices
    /\ thread \in [Threads -> Thread]
    /\ worker \in [Names -> Threads \cup {NoThread}]
    /\ beater \in [Bms -> Threads \cup {NoThread}]
    /\ signals \in Seq(Signal) /\ Len(signals) <= MaxSignals
    /\ task \in [Names -> Statuses \cup {"-"}]
    /\ runCol \in [Bms -> {"-", "Idle", "Running", "Error", "Stopped"}]
    /\ online \in [Bms -> {"-", "Unknown", "Online", "Stale", "Offline"}]
    /\ lastBeat \in [Bms -> Heartbeats]
    /\ sameCount \in [Bms -> 0..StaleCount]
    /\ pcsSample \in [Pcs -> Samples \cup {"-"}]
    /\ pcsError \in [Pcs -> BOOLEAN]
    /\ connection \in [Pcs -> {"-", "Disconnected", "Connecting", "Connected", "Error"}]

\* A thread that polls or beats without an entry in a registry, which no
\* handler can stop any more, is one whose stop() came before its run():
\* removing, stopping, restarting and failing to connect, in any order,
\* never leave another one behind.
NoUnownedThread ==
    \A t \in Threads : Live(t) /\ thread[t].running => Registered(t) \/ thread[t].lost

\* stop() was called for t, before its run() or since.
Stopped(t) == thread[t].lost \/ (thread[t].pc # "new" /\ ~thread[t].running)

\* Of two live threads that poll one device, at least one was told to stop: a
\* start never puts a second thread beside one that is meant to run.  The other
\* one may be there, having outlived join(3.0) or been stopped before its run().
OnePoller ==
    \A t, u \in Threads :
        /\ Live(t) /\ Live(u)
        /\ thread[t].role = "poll" /\ thread[u].role = "poll"
        /\ thread[t].name = thread[u].name
        => t = u \/ Stopped(t) \/ Stopped(u)

\* What restarts its device does not set a stopped thread going again: once told
\* after its run() began, it keeps its flag cleared, and begins no further read,
\* until it ends, however long it outlives join(3.0).
StopIsKept ==
    [][\A t \in Threads : Live(t) /\ Stopped(t) /\ ~thread[t].lost
            => ~Live(t)' \/ (Stopped(t) /\ ~thread[t].lost)']_vars

\* Once no thread polls a device and its signals are delivered, the task
\* list no longer says that it runs or is about to, although every status
\* is delivered late and a handler writes the same entry at once.
Quiet(n) ==
    /\ \A t \in Threads : Live(t) => thread[t].name # n \/ thread[t].role # "poll"
    /\ \A i \in 1..Len(signals) : signals[i].name = n => signals[i].kind # "status"
TaskStatusSettles == \A n \in Names : Quiet(n) => task[n] \notin {"Scheduled", "Running"}

\* The PCS table never shows a connection to a PCS that is not polled,
\* nor hides one that is, however late the samples arrive (the BMS table
\* does: see OnBmsData).
PcsRowsAreTrue ==
    \A p \in Pcs : p \in names => (connection[p] = "Disconnected" <=> worker[p] = NoThread)

\* A thread that a handler stopped after its run() began ends, whatever its
\* device does.
StoppedThreadsEnd ==
    \A t \in Threads :
        Live(t) /\ ~Registered(t) /\ ~thread[t].lost ~> ~Live(t)

\* A BMS whose samples keep coming with a heartbeat that stands still is
\* not shown "Online" for ever.
SampleOf(b) == OnBmsData /\ Received.name = b
FrozenIsNoticed ==
    \A b \in Bms :
        (/\ []<><<SampleOf(b)>>_vars
         /\ <>[][SampleOf(b) => Received.value = lastBeat[b]]_vars)
        => []<>(online[b] # "Online")
=============================================================================
