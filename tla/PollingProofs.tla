---------------------------- MODULE PollingProofs ----------------------------
(***************************************************************************)
(* Proofs about Polling, for any sets of devices and plants, any bounds    *)
(* and any heartbeats.                                                     *)
(***************************************************************************)
EXTENDS Polling, TLAPS

ThreadsOK == thread \in [Threads -> Thread]
SignalsOK == signals \in Seq(Signal) /\ Len(signals) <= MaxSignals

\* What a fleet holds, and a slot for a new thread.
LEMMA FleetParts == ASSUME TypeOK
                    PROVE  /\ fleet.devices \subseteq Names /\ fleet.polled \subseteq Names
                           /\ fleet.heartbeats \subseteq Heartbeats
                           /\ names \subseteq Names
  BY NamesAssumption DEF TypeOK, Fleet, Heartbeats

LEMMA FreshIsFree == ASSUME CanStart PROVE Fresh \in Threads /\ Free(Fresh)
  BY DEF CanStart, Fresh

LEMMA NotZero == NoThread \notin Threads
  BY DEF NoThread, Threads

\* stop() keeps the types of the threads, and so does a new one.
LEMMA ToldTyping == ASSUME ThreadsOK, NEW ts PROVE Told(ts) \in [Threads -> Thread]
  BY DEF ThreadsOK, Told, Thread

LEMMA NewThreadTyping ==
    ASSUME NEW role \in {"poll", "beat"}, NEW n \in Names, NEW d \in BOOLEAN
    PROVE  NewThread(role, n, d) \in Thread
  BY DEF NewThread, Thread

\* What is appended to the queue, and what is taken from it.
LEMMA EmitTyping == ASSUME SignalsOK, NEW msgs \in Seq(Signal), Emit(msgs)
                    PROVE  SignalsOK'
  BY BoundsAssumption DEF SignalsOK, Emit

LEMMA SignalTyping ==
    /\ \A n \in Names, s \in Statuses : Status(n, s) \in Signal
    /\ \A b \in Bms, h \in Heartbeats : Data(b, h) \in Signal
    /\ \A p \in Pcs, s \in Samples : Data(p, s) \in Signal
    /\ \A n \in Names : Error(n) \in Signal
  BY DEF Status, Data, Error, Signal

LEMMA SlotTyping ==
    ASSUME SignalsOK, NEW kind \in {"status", "data", "error"}, Slot(kind)
    PROVE  /\ Received \in Signal /\ Received.kind = kind /\ Received.name \in Names
           /\ SignalsOK'
<1>1. signals \in Seq(Signal) /\ signals # <<>>
  BY DEF SignalsOK, Slot
<1>2. Received \in Signal /\ signals' \in Seq(Signal) /\ Len(signals') <= MaxSignals
  BY <1>1, BoundsAssumption DEF SignalsOK, Slot, Received
<1> QED
  BY <1>2 DEF Slot, SignalsOK, Signal, Names

LEMMA Connections ==
    ASSUME NEW ns, NEW ws, NEW samples, NEW errors
    PROVE  /\ RefreshPcs(ns, ws, samples, errors) \in
                [Pcs -> {"-", "Disconnected", "Connecting", "Connected", "Error"}]
           /\ \A p \in Pcs : ConnectionText(p, ws, samples, errors) \in
                {"Disconnected", "Connecting", "Connected", "Error"}
  BY DEF RefreshPcs, ConnectionText

LEMMA OnlineStates ==
    ASSUME TypeOK, NEW b \in Bms, NEW h \in Heartbeats
    PROVE  /\ OnlineState(b, h).text \in {"Unknown", "Online", "Stale"}
           /\ OnlineState(b, h).last \in Heartbeats
           /\ OnlineState(b, h).same \in 0..StaleCount
<1> DEFINE delta == (h - lastBeat[b]) % HeartbeatModulus
           more == IF sameCount[b] < StaleCount THEN sameCount[b] + 1 ELSE StaleCount
<1>1. lastBeat[b] \in Heartbeats /\ sameCount[b] \in 0..StaleCount /\ more \in 0..StaleCount
      /\ 0 \in 0..StaleCount
  BY HeartbeatAssumption DEF TypeOK
<1> QED
  BY <1>1 DEF OnlineState

\* A live thread has the name of a device.
LiveNamed == \A t \in Threads : Live(t) => thread[t].name \in Names

Typed == TypeOK /\ LiveNamed

LEMMA TypedInit == Init => Typed
<1> SUFFICES ASSUME Init PROVE Typed
  OBVIOUS
<1>1. ThreadsOK /\ LiveNamed
  BY DEF Init, ThreadsOK, LiveNamed, Live, Ended, Thread, NoName
<1>2. SignalsOK
  BY BoundsAssumption DEF Init, SignalsOK
<1>3. lastBeat \in [Bms -> Heartbeats] /\ sameCount \in [Bms -> 0..StaleCount]
  BY HeartbeatAssumption DEF Init, Heartbeats
<1> QED
  BY <1>1, <1>2, <1>3 DEF Init, Typed, TypeOK, ThreadsOK, SignalsOK, NoThread

\* The steps of the threads.
LEMMA TypedThread ==
    ASSUME Typed, NEW t \in Threads, ThreadStep(t) PROVE Typed'
<1>a. TypeOK /\ ThreadsOK /\ SignalsOK /\ LiveNamed
  BY DEF Typed, TypeOK, ThreadsOK, SignalsOK
<1>b. ASSUME ThreadOnly, ThreadsOK', SignalsOK', LiveNamed' PROVE Typed'
  BY <1>a, <1>b DEF ThreadOnly, TypeOK, ThreadsOK, SignalsOK, bmsView, pcsView, Typed
<1>c. Ended \in Thread
  BY DEF Ended, Thread, NoName
<1>d. Live(t) => thread[t].name \in Names
  BY <1>a DEF LiveNamed
<1>e. ASSUME thread' = [thread EXCEPT ![t] = Ended] PROVE ThreadsOK' /\ LiveNamed'
  BY <1>a, <1>c, <1>e DEF ThreadsOK, LiveNamed, Live, Ended
<1>f. ASSUME thread[t].pc = "connect", thread' = [thread EXCEPT ![t].pc = "loop"]
      PROVE  ThreadsOK' /\ LiveNamed'
  BY <1>a, <1>f DEF ThreadsOK, LiveNamed, Live, Thread
<1>1. CASE Begin(t)
  <2>1. ThreadsOK' /\ LiveNamed'
    <3> DEFINE begun == [thread[t] EXCEPT !.pc = "connect", !.running = TRUE]
    <3>1. thread' = [thread EXCEPT ![t] = begun] /\ begun.name = thread[t].name
      BY <1>1, <1>a DEF Begin, ThreadsOK, Thread
    <3>2. begun \in Thread /\ Live(t)
      BY <1>1, <1>a DEF Begin, ThreadsOK, Thread, Live
    <3> HIDE DEF begun
    <3> QED
      BY <1>a, <1>d, <3>1, <3>2 DEF ThreadsOK, LiveNamed, Live
  <2>2. SignalsOK'
    <3>1. Status(thread[t].name, "Scheduled") \in Signal
      BY <1>1, <1>d, SignalTyping DEF Begin, Live, Statuses
    <3>3. <<>> \in Seq(Signal)
      OBVIOUS
    <3>4. CASE Emit(<<>>)
      BY <1>a, <3>3, <3>4, EmitTyping
    <3>5. CASE thread[t].role = "poll" /\ thread[t].delayed
      <4>1. Emit(<<Status(thread[t].name, "Scheduled")>>)
        BY <1>1, <3>5 DEF Begin
      <4>2. <<Status(thread[t].name, "Scheduled")>> \in Seq(Signal)
        BY <1>1, <3>1, <3>5 DEF Begin
      <4> QED
        BY <1>a, <4>1, <4>2, EmitTyping
    <3> QED
      BY <1>1, <3>4, <3>5 DEF Begin
  <2> QED
    BY <1>1, <1>b, <2>1, <2>2 DEF Begin
<1>2. CASE Connect(t)
  <2>1. thread' = [thread EXCEPT ![t].pc = "loop"] \/ thread' = [thread EXCEPT ![t] = Ended]
    BY <1>2 DEF Connect
  <2>2. ThreadsOK' /\ LiveNamed'
    BY <1>e, <1>f, <2>1, <1>2 DEF Connect
  <2>3. SignalsOK'
    <3>1. /\ Status(thread[t].name, "Running") \in Signal
          /\ Status(thread[t].name, "Error") \in Signal /\ Error(thread[t].name) \in Signal
      BY <1>2, <1>d, SignalTyping DEF Connect, Live, Statuses
    <3>2. <<Status(thread[t].name, "Running")>> \in Seq(Signal)
      BY <3>1
    <3>3. <<Status(thread[t].name, "Error"), Error(thread[t].name)>> \in Seq(Signal)
      BY <3>1
    <3> QED
      BY <1>2, <1>a, <3>2, <3>3, EmitTyping DEF Connect
  <2> QED
    BY <1>2, <1>b, <2>2, <2>3 DEF Connect
<1>3. CASE ReadBms(t)
  <2>1. ThreadsOK' /\ LiveNamed'
    BY <1>3, <1>a DEF ReadBms, ThreadsOK, LiveNamed, Live
  <2>2. SignalsOK'
    <3>1. /\ Status(thread[t].name, "Running") \in Signal
          /\ Status(thread[t].name, "Error") \in Signal /\ Error(thread[t].name) \in Signal
      BY <1>3, <1>d, SignalTyping DEF ReadBms, Live, Statuses
    <3>2. \A h \in fleet.heartbeats \cup {NoBeat} : Data(thread[t].name, h) \in Signal
      BY <1>3, <1>a, FleetParts, SignalTyping DEF ReadBms, Heartbeats
    <3>3. CASE Emit(<<Status(thread[t].name, "Error"), Error(thread[t].name)>>)
      <4>1. <<Status(thread[t].name, "Error"), Error(thread[t].name)>> \in Seq(Signal)
        BY <3>1
      <4> QED
        BY <1>a, <3>3, <4>1, EmitTyping
    <3>4. ASSUME NEW h \in fleet.heartbeats \cup {NoBeat},
                 Emit(<<Status(thread[t].name, "Running"), Data(thread[t].name, h)>>)
          PROVE  SignalsOK'
      <4>1. <<Status(thread[t].name, "Running"), Data(thread[t].name, h)>> \in Seq(Signal)
        BY <3>1, <3>2
      <4> QED
        BY <1>a, <3>4, <4>1, EmitTyping
    <3> QED
      BY <1>3, <3>3, <3>4 DEF ReadBms
  <2> QED
    BY <1>3, <1>b, <2>1, <2>2 DEF ReadBms
<1>4. CASE ReadPcs(t)
  <2>1. ThreadsOK' /\ LiveNamed'
    BY <1>4, <1>a DEF ReadPcs, ThreadsOK, LiveNamed, Live
  <2>2. SignalsOK'
    <3>1. Status(thread[t].name, "Running") \in Signal
      BY <1>4, <1>d, SignalTyping DEF ReadPcs, Live, Statuses
    <3>2. PICK s \in Samples :
            Emit(<<Status(thread[t].name, "Running"), Data(thread[t].name, s)>>)
      BY <1>4 DEF ReadPcs
    <3>3. Data(thread[t].name, s) \in Signal
      BY <1>4, SignalTyping DEF ReadPcs
    <3>4. <<Status(thread[t].name, "Running"), Data(thread[t].name, s)>> \in Seq(Signal)
      BY <3>1, <3>3
    <3> QED
      BY <1>a, <3>2, <3>4, EmitTyping
  <2> QED
    BY <1>4, <1>b, <2>1, <2>2 DEF ReadPcs
<1>5. CASE Finish(t)
  <2>1. ThreadsOK' /\ LiveNamed'
    BY <1>5, <1>a, <1>c DEF Finish, ThreadsOK, LiveNamed, Live, Ended
  <2>2. SignalsOK'
    <3>1. Status(thread[t].name, "Stopped") \in Signal
      BY <1>5, <1>d, SignalTyping DEF Finish, Live, Statuses
    <3>2. <<Status(thread[t].name, "Stopped")>> \in Seq(Signal)
      BY <3>1
    <3> QED
      BY <1>5, <1>a, <3>2, EmitTyping DEF Finish
  <2> QED
    BY <1>5, <1>b, <2>1, <2>2 DEF Finish
<1>6. CASE Beat(t)
  <2>1. ThreadsOK' /\ LiveNamed'
    BY <1>e, <1>f, <1>6 DEF Beat
  <2>2. SignalsOK'
    BY <1>6, <1>a DEF Beat, SignalsOK
  <2> QED
    BY <1>6, <1>b, <2>1, <2>2 DEF Beat
<1> QED
  BY <1>1, <1>2, <1>3, <1>4, <1>5, <1>6 DEF ThreadStep

\* The operator's handlers.
LEMMA TypedOperator == ASSUME Typed, Operator PROVE Typed'
<1>a. TypeOK /\ ThreadsOK /\ LiveNamed
  BY DEF Typed, TypeOK, ThreadsOK
<1>b. ASSUME NEW ts, thread' = Told(ts) PROVE ThreadsOK' /\ LiveNamed'
  <2>1. ThreadsOK'
    BY <1>a, <1>b, ToldTyping DEF ThreadsOK
  <2>2. \A t \in Threads : thread'[t].pc = thread[t].pc /\ thread'[t].name = thread[t].name
    BY <1>a, <1>b DEF ThreadsOK, Told, Thread
  <2> QED
    BY <1>a, <2>1, <2>2 DEF LiveNamed, Live
<1>c. ASSUME NEW role \in {"poll", "beat"}, NEW n \in Names, NEW d \in BOOLEAN, CanStart,
             thread' = [thread EXCEPT ![Fresh] = NewThread(role, n, d)]
      PROVE  ThreadsOK' /\ LiveNamed' /\ Fresh \in Threads
  BY <1>a, <1>c, FreshIsFree, NewThreadTyping DEF ThreadsOK, LiveNamed, Live, NewThread
<1>d. ASSUME UNCHANGED thread PROVE ThreadsOK' /\ LiveNamed'
  BY <1>a, <1>d DEF ThreadsOK, LiveNamed, Live
<1>e. NoThread \in Threads \cup {NoThread} /\ Bms \subseteq Names /\ Pcs \subseteq Names
  BY DEF Names
<1>f. names \subseteq Names /\ fleet.devices \subseteq Names
  BY <1>a, FleetParts
<1>1. ASSUME NEW b \in Bms, AddBms(b) PROVE Typed'
  BY <1>1, <1>a, <1>d DEF AddBms, Typed, TypeOK, ThreadsOK, pcsView
<1>2. ASSUME NEW b \in Bms, RemoveBms(b) PROVE Typed'
  <2>1. ThreadsOK' /\ LiveNamed'
    BY <1>2, <1>b DEF RemoveBms
  <2> QED
    BY <1>2, <1>a, <1>e, <2>1 DEF RemoveBms, Typed, TypeOK, ThreadsOK, pcsView
<1>3. ASSUME NEW b \in Bms, StartBms(b) PROVE Typed'
  <2>1. ThreadsOK' /\ LiveNamed' /\ Fresh \in Threads
    BY <1>3, <1>c, <1>e DEF StartBms
  <2> QED
    BY <1>3, <1>a, <1>e, <2>1 DEF StartBms, Typed, TypeOK, ThreadsOK, pcsView, Statuses
<1>4. ASSUME NEW b \in Bms, StopBms(b) PROVE Typed'
  <2>1. ThreadsOK' /\ LiveNamed'
    BY <1>4, <1>b DEF StopBms
  <2> QED
    BY <1>4, <1>a, <1>e, <2>1 DEF StopBms, Typed, TypeOK, ThreadsOK, pcsView, Statuses
<1>5. ASSUME NEW b \in Bms, StartHeartbeat(b) PROVE Typed'
  <2>1. ThreadsOK' /\ LiveNamed' /\ Fresh \in Threads
    BY <1>5, <1>c, <1>e DEF StartHeartbeat
  <2> QED
    BY <1>5, <1>a, <2>1 DEF StartHeartbeat, Typed, TypeOK, ThreadsOK, pcsView, bmsView
<1>6. ASSUME NEW b \in Bms, StopHeartbeat(b) PROVE Typed'
  <2>1. ThreadsOK' /\ LiveNamed'
    BY <1>6, <1>b DEF StopHeartbeat
  <2> QED
    BY <1>6, <1>a, <2>1 DEF StopHeartbeat, Typed, TypeOK, ThreadsOK, pcsView, bmsView
<1>7. ASSUME NEW p \in Pcs, StartPcs(p) PROVE Typed'
  <2>1. ThreadsOK' /\ LiveNamed' /\ Fresh \in Threads
    BY <1>7, <1>c, <1>e DEF StartPcs
  <2>2. worker' \in [Names -> Threads \cup {NoThread}]
    BY <1>7, <1>a, <1>e, <2>1 DEF StartPcs, TypeOK
  <2> QED
    BY <1>7, <1>a, <2>1, <2>2, Connections DEF StartPcs, Typed, TypeOK, ThreadsOK, bmsView
<1>8. ASSUME NEW p \in Pcs, StopPcs(p) PROVE Typed'
  <2>1. ThreadsOK' /\ LiveNamed'
    BY <1>8, <1>b DEF StopPcs
  <2>2. worker' \in [Names -> Threads \cup {NoThread}]
    BY <1>8, <1>a, <1>e DEF StopPcs, TypeOK
  <2> QED
    BY <1>8, <1>a, <2>1, <2>2, Connections DEF StopPcs, Typed, TypeOK, ThreadsOK, bmsView
<1>9. ASSUME NEW p \in Pcs, AddPcs(p) PROVE Typed'
  BY <1>9, <1>a, <1>d, Connections DEF AddPcs, Typed, TypeOK, ThreadsOK, bmsView
<1>10. ASSUME NEW p \in Pcs, RemovePcs(p) PROVE Typed'
  BY <1>10, <1>a, <1>d, Connections DEF RemovePcs, Typed, TypeOK, ThreadsOK, bmsView
<1>11. CASE StopAll
  <2>1. ThreadsOK' /\ LiveNamed'
    BY <1>11, <1>b DEF StopAll
  <2> QED
    BY <1>11, <1>a, <2>1, Connections DEF StopAll, Typed, TypeOK, ThreadsOK, Statuses
<1> QED
  BY <1>1, <1>2, <1>3, <1>4, <1>5, <1>6, <1>7, <1>8, <1>9, <1>10, <1>11 DEF Operator

\* The slots.
LEMMA TypedDeliver == ASSUME Typed, Deliver PROVE Typed'
<1>a. TypeOK /\ SignalsOK /\ LiveNamed
  BY DEF Typed, TypeOK, SignalsOK
<1>b. ASSUME UNCHANGED thread PROVE LiveNamed'
  BY <1>a, <1>b DEF LiveNamed, Live
<1>1. CASE OnStatus
  <2>1. Received \in Signal /\ Received.kind = "status" /\ SignalsOK' /\ Received.name \in Names
    BY <1>1, <1>a, SlotTyping DEF OnStatus
  <2>2. Received.value \in Statuses
    BY <2>1 DEF Signal
  <2> QED
    BY <1>1, <1>a, <1>b, <2>1, <2>2 DEF OnStatus, Typed, TypeOK, SignalsOK, pcsView, bmsView
<1>2. CASE OnBmsData
  <2>1. Received \in Signal /\ Received.kind = "data" /\ SignalsOK' /\ Received.name \in Bms
    BY <1>2, <1>a, SlotTyping DEF OnBmsData
  <2>2. Received.value \in Heartbeats
    BY <2>1, NamesAssumption DEF Signal
  <2> DEFINE state == OnlineState(Received.name, Received.value)
  <2>3. /\ state.text \in {"Unknown", "Online", "Stale"} /\ state.last \in Heartbeats
        /\ state.same \in 0..StaleCount
    BY <1>a, <2>1, <2>2, OnlineStates
  <2> HIDE DEF state
  <2>4. /\ lastBeat' = [lastBeat EXCEPT ![Received.name] = state.last]
        /\ sameCount' = [sameCount EXCEPT ![Received.name] = state.same]
        /\ runCol' = [runCol EXCEPT ![Received.name] = IF Received.name \in names THEN "Running" ELSE @]
        /\ online' = [online EXCEPT ![Received.name] = IF Received.name \in names THEN state.text ELSE @]
        /\ UNCHANGED <<fleet, names, thread, worker, beater, task, pcsView>>
    BY <1>2 DEF OnBmsData, state
  <2>5. lastBeat' \in [Bms -> Heartbeats] /\ sameCount' \in [Bms -> 0..StaleCount]
    BY <1>a, <2>1, <2>3, <2>4 DEF TypeOK
  <2>6. /\ runCol' \in [Bms -> {"-", "Idle", "Running", "Error", "Stopped"}]
        /\ online' \in [Bms -> {"-", "Unknown", "Online", "Stale", "Offline"}]
    BY <1>a, <2>1, <2>3, <2>4 DEF TypeOK
  <2> QED
    BY <1>a, <1>b, <2>1, <2>4, <2>5, <2>6 DEF Typed, TypeOK, SignalsOK, pcsView
<1>3. CASE OnBmsError
  <2>1. SignalsOK' /\ Received.name \in Bms
    BY <1>3, <1>a, SlotTyping DEF OnBmsError
  <2> QED
    BY <1>3, <1>a, <1>b, <2>1 DEF OnBmsError, Typed, TypeOK, SignalsOK, pcsView
<1>4. CASE OnPcsData
  <2>1. Received \in Signal /\ Received.kind = "data" /\ SignalsOK' /\ Received.name \in Pcs
    BY <1>4, <1>a, SlotTyping DEF OnPcsData
  <2>2. Received.value \in Samples
    BY <2>1, NamesAssumption DEF Signal
  <2>3. connection' \in [Pcs -> {"-", "Disconnected", "Connecting", "Connected", "Error"}]
    <3>1. ConnectionText(Received.name, worker, pcsSample', pcsError')
            \in {"Disconnected", "Connecting", "Connected", "Error"}
      BY <2>1, Connections
    <3> QED
      BY <1>4, <1>a, <2>1, <3>1 DEF OnPcsData, TypeOK
  <2>4. pcsSample' \in [Pcs -> Samples \cup {"-"}] /\ pcsError' \in [Pcs -> BOOLEAN]
    BY <1>4, <1>a, <2>1, <2>2 DEF OnPcsData, TypeOK
  <2> QED
    BY <1>4, <1>a, <1>b, <2>1, <2>3, <2>4 DEF OnPcsData, Typed, TypeOK, SignalsOK, bmsView
<1>5. CASE OnPcsError
  <2>1. SignalsOK' /\ Received.name \in Pcs
    BY <1>5, <1>a, SlotTyping DEF OnPcsError
  <2>2. pcsError' \in [Pcs -> BOOLEAN]
    BY <1>5, <1>a, <2>1 DEF OnPcsError, TypeOK
  <2> QED
    BY <1>5, <1>a, <1>b, <2>1, <2>2, Connections DEF OnPcsError, Typed, TypeOK, SignalsOK, bmsView
<1> QED
  BY <1>1, <1>2, <1>3, <1>4, <1>5 DEF Deliver

LEMMA TypedStep == Typed /\ [Next]_vars => Typed'
<1>1. ASSUME Typed, UNCHANGED vars PROVE Typed'
  BY <1>1 DEF vars, bmsView, pcsView, Typed, TypeOK, LiveNamed, Live
<1> QED
  BY <1>1, TypedThread, TypedOperator, TypedDeliver DEF Next

LEMMA TypedAlways == Spec => []Typed
  BY TypedInit, TypedStep, PTL DEF Spec

\* Every variable keeps its type.
THEOREM Typing == Spec => []TypeOK
<1>1. Typed => TypeOK
  BY DEF Typed
<1> QED
  BY <1>1, TypedAlways, PTL

------------------------------------------------------------------------------
(* Owners.  An entry of a registry that still has a live thread has the    *)
(* thread of that device and of that role, so a handler stops what it      *)
(* takes out; and a thread without an entry was told to stop, before or    *)
(* after its run() began.                                                  *)

EntriesMatch ==
    /\ \A n \in Names : worker[n] # NoThread /\ Live(worker[n])
            => thread[worker[n]].role = "poll" /\ thread[worker[n]].name = n
    /\ \A b \in Bms : beater[b] # NoThread /\ Live(beater[b])
            => thread[beater[b]].role = "beat" /\ thread[beater[b]].name = b

Owned ==
    \A t \in Threads :
        Live(t) /\ (thread[t].running \/ thread[t].pc = "new")
            => Registered(t) \/ thread[t].lost

EndedRests == \A t \in Threads : ~Live(t) => ~thread[t].running

Owners == Typed /\ EntriesMatch /\ Owned /\ EndedRests

LEMMA OwnersInit == Init => Owners
<1>1. Init => EntriesMatch /\ Owned /\ EndedRests
  BY DEF Init, EntriesMatch, Owned, EndedRests, Live, Ended, NoThread, Names
<1> QED
  BY <1>1, TypedInit DEF Owners

\* A thread goes on or ends; the registries stay.
LEMMA OwnersThread == ASSUME Owners, NEW t \in Threads, ThreadStep(t) PROVE Owners'
<1>a. /\ thread \in [Threads -> Thread] /\ UNCHANGED <<worker, beater>>
      /\ worker \in [Names -> Threads \cup {NoThread}]
      /\ beater \in [Bms -> Threads \cup {NoThread}]
  BY DEF Owners, Typed, TypeOK, ThreadStep, Begin, Connect, ReadBms, ReadPcs, Finish, Beat, ThreadOnly
<1>b. Typed'
  BY TypedThread DEF Owners
<1>1. ASSUME thread' = [thread EXCEPT ![t] = Ended] PROVE Owners'
  BY <1>1, <1>a, <1>b DEF Owners, EntriesMatch, Owned, EndedRests, Live, Registered, Ended
<1>2. ASSUME thread[t].pc = "connect", thread' = [thread EXCEPT ![t].pc = "loop"] PROVE Owners'
  BY <1>2, <1>a, <1>b DEF Owners, EntriesMatch, Owned, EndedRests, Live, Registered, Thread
<1>3. ASSUME UNCHANGED thread PROVE Owners'
  BY <1>3, <1>a, <1>b DEF Owners, EntriesMatch, Owned, EndedRests, Live, Registered
<1>4. CASE Begin(t)
  <2>1. thread[t].pc = "new"
        /\ thread' = [thread EXCEPT ![t].pc = "connect", ![t].running = TRUE]
    BY <1>4 DEF Begin
  <2> QED
    BY <2>1, <1>a, <1>b DEF Owners, EntriesMatch, Owned, EndedRests, Live, Registered, Thread
<1> QED
  BY <1>1, <1>2, <1>3, <1>4 DEF ThreadStep, Connect, ReadBms, ReadPcs, Finish, Beat

\* Entries are taken out, and their threads told to stop.
LEMMA OwnersStop ==
    ASSUME Owners, Typed', NEW ts, thread' = Told(ts),
           \A n \in Names : worker'[n] = worker[n] \/ (worker'[n] = NoThread /\ worker[n] \in ts),
           \A b \in Bms : beater'[b] = beater[b] \/ (beater'[b] = NoThread /\ beater[b] \in ts)
    PROVE  Owners'
<1>a. thread \in [Threads -> Thread] /\ worker \in [Names -> Threads \cup {NoThread}]
      /\ beater \in [Bms -> Threads \cup {NoThread}]
  BY DEF Owners, Typed, TypeOK
<1>1. \A t \in Threads :
        /\ thread'[t].pc = thread[t].pc /\ thread'[t].name = thread[t].name
        /\ thread'[t].role = thread[t].role
        /\ t \notin ts => thread'[t] = thread[t]
        /\ t \in ts => ~thread'[t].running
        /\ t \in ts /\ thread[t].pc = "new" => thread'[t].lost
  BY ZenonT(40), <1>a DEF Told, Thread
<1>2. EntriesMatch'
  BY <1>a, <1>1 DEF Owners, EntriesMatch, Live
<1>3. \A t \in Threads : Registered(t) /\ t \notin ts => Registered(t)'
  BY <1>a DEF Registered
<1>4. Owned'
  BY <1>1, <1>3 DEF Owners, Owned, Live
<1>5. EndedRests'
  BY <1>1 DEF Owners, EndedRests, Live
<1> QED
  BY <1>2, <1>4, <1>5 DEF Owners

\* A new thread gets a free slot and an entry.
LEMMA OwnersStart ==
    ASSUME Owners, Typed', NEW role \in {"poll", "beat"}, NEW n \in Names, NEW d \in BOOLEAN,
           CanStart, thread' = [thread EXCEPT ![Fresh] = NewThread(role, n, d)],
           \/ /\ role = "poll" /\ worker[n] = NoThread
              /\ worker' = [worker EXCEPT ![n] = Fresh] /\ UNCHANGED beater
           \/ /\ role = "beat" /\ n \in Bms /\ beater[n] = NoThread
              /\ beater' = [beater EXCEPT ![n] = Fresh] /\ UNCHANGED worker
    PROVE  Owners'
<1>a. thread \in [Threads -> Thread] /\ worker \in [Names -> Threads \cup {NoThread}]
      /\ beater \in [Bms -> Threads \cup {NoThread}]
  BY DEF Owners, Typed, TypeOK
<1>b. /\ Fresh \in Threads /\ ~Live(Fresh) /\ Fresh # NoThread
      /\ \A m \in Names : worker[m] # Fresh
      /\ \A b \in Bms : beater[b] # Fresh
  BY FreshIsFree, NotZero DEF Free, Registered
<1>c. /\ thread'[Fresh] = NewThread(role, n, d)
      /\ \A t \in Threads : t # Fresh => thread'[t] = thread[t]
  BY <1>a, <1>b
<1>d. /\ NewThread(role, n, d).role = role /\ NewThread(role, n, d).name = n
      /\ NewThread(role, n, d).pc = "new"
  BY DEF NewThread
<1>1. EntriesMatch'
  BY <1>a, <1>b, <1>c, <1>d DEF Owners, EntriesMatch, Live
<1>2. \/ \E m \in Names : worker'[m] = Fresh
      \/ \E b \in Bms : beater'[b] = Fresh
  BY <1>a
<1>5. ASSUME NEW t \in Threads, Registered(t) PROVE Registered(t)'
  <2>1. t # NoThread
    BY NotZero
  <2>2. CASE \E m \in Names : worker[m] = t
    BY <1>a, <2>1, <2>2 DEF Registered
  <2>3. CASE \E b \in Bms : beater[b] = t
    BY <1>a, <2>1, <2>3 DEF Registered
  <2> QED
    BY <1>5, <2>2, <2>3 DEF Registered
<1>3. Owned'
  <2> SUFFICES ASSUME NEW t \in Threads, Live(t)', thread'[t].running \/ thread'[t].pc = "new"
               PROVE  Registered(t)' \/ thread'[t].lost
    BY DEF Owned
  <2>1. CASE t = Fresh
    BY <1>2, <2>1 DEF Registered
  <2>2. CASE t # Fresh
    BY <1>c, <1>5, <2>2 DEF Owners, Owned, Live
  <2> QED
    BY <2>1, <2>2
<1>4. EndedRests'
  BY <1>b, <1>c, <1>d DEF Owners, EndedRests, Live
<1> QED
  BY <1>1, <1>3, <1>4 DEF Owners

\* Neither threads nor entries change.
LEMMA OwnersRest == ASSUME Owners, Typed', UNCHANGED <<thread, worker, beater>> PROVE Owners'
  BY DEF Owners, EntriesMatch, Owned, EndedRests, Live, Registered

LEMMA OwnersOperator == ASSUME Owners, Operator PROVE Owners'
<1>a. Typed'
  BY TypedOperator DEF Owners
<1>b. /\ worker \in [Names -> Threads \cup {NoThread}]
      /\ beater \in [Bms -> Threads \cup {NoThread}]
      /\ Bms \subseteq Names /\ Pcs \subseteq Names
  BY DEF Owners, Typed, TypeOK, Names
<1>1. ASSUME NEW b \in Bms, AddBms(b) PROVE Owners'
  BY <1>1, <1>a, OwnersRest DEF AddBms
<1>2. ASSUME NEW b \in Bms, RemoveBms(b) PROVE Owners'
  BY <1>2, <1>a, <1>b, OwnersStop DEF RemoveBms
<1>3. ASSUME NEW b \in Bms, StartBms(b) PROVE Owners'
  BY <1>3, <1>a, <1>b, OwnersStart DEF StartBms
<1>4. ASSUME NEW b \in Bms, StopBms(b) PROVE Owners'
  BY <1>4, <1>a, <1>b, OwnersStop DEF StopBms
<1>5. ASSUME NEW b \in Bms, StartHeartbeat(b) PROVE Owners'
  BY <1>5, <1>a, <1>b, OwnersStart DEF StartHeartbeat
<1>6. ASSUME NEW b \in Bms, StopHeartbeat(b) PROVE Owners'
  BY <1>6, <1>a, <1>b, OwnersStop DEF StopHeartbeat
<1>7. ASSUME NEW p \in Pcs, StartPcs(p) PROVE Owners'
  BY <1>7, <1>a, <1>b, OwnersStart DEF StartPcs
<1>8. ASSUME NEW p \in Pcs, StopPcs(p) PROVE Owners'
  BY <1>8, <1>a, <1>b, OwnersStop DEF StopPcs
<1>9. ASSUME NEW p \in Pcs, AddPcs(p) PROVE Owners'
  BY <1>9, <1>a, OwnersRest DEF AddPcs
<1>10. ASSUME NEW p \in Pcs, RemovePcs(p) PROVE Owners'
  BY <1>10, <1>a, OwnersRest DEF RemovePcs
<1>11. CASE StopAll
  <2> DEFINE ts == {worker[n] : n \in Names} \cup {beater[b] : b \in Bms}
  <2>1. thread' = Told(ts)
    BY <1>11 DEF StopAll
  <2>2. /\ \A n \in Names : worker'[n] = NoThread /\ worker[n] \in ts
        /\ \A b \in Bms : beater'[b] = NoThread /\ beater[b] \in ts
    BY <1>11 DEF StopAll
  <2> HIDE DEF ts
  <2> QED
    BY <1>a, <2>1, <2>2, OwnersStop
<1> QED
  BY <1>1, <1>2, <1>3, <1>4, <1>5, <1>6, <1>7, <1>8, <1>9, <1>10, <1>11 DEF Operator

LEMMA OwnersStep == Owners /\ [Next]_vars => Owners'
<1> SUFFICES ASSUME Owners, [Next]_vars PROVE Owners'
  OBVIOUS
<1>1. Typed'
  BY TypedStep DEF Owners
<1>2. CASE Deliver
  BY <1>1, <1>2, OwnersRest DEF Deliver, OnStatus, OnBmsData, OnBmsError, OnPcsData, OnPcsError
<1>3. CASE UNCHANGED vars
  BY <1>1, <1>3, OwnersRest DEF vars
<1> QED
  BY <1>2, <1>3, OwnersThread, OwnersOperator DEF Next

LEMMA OwnersAlways == Spec => []Owners
  BY OwnersInit, OwnersStep, PTL DEF Spec

\* stop(), removal, restart and failing connects, in any order and with
\* joins that give up, leave no running thread outside the registries, other
\* than one that was stopped before its run().
THEOREM NoneUnowned == Spec => []NoUnownedThread
<1>1. Owners => NoUnownedThread
  BY DEF Owners, Owned, NoUnownedThread
<1> QED
  BY <1>1, OwnersAlways, PTL

\* A stopped thread stays stopped, whoever else starts or stops.
LEMMA StopsLast ==
    ASSUME Owners, [Next]_vars, NEW t \in Threads, Live(t), Stopped(t), ~thread[t].lost
    PROVE  ~Live(t)' \/ (Stopped(t) /\ ~thread[t].lost)'
<1> DEFINE Kept == ~Live(t)' \/ (Stopped(t) /\ ~thread[t].lost)'
<1>a. /\ thread \in [Threads -> Thread] /\ thread[t].pc # "new" /\ ~thread[t].running
      /\ thread[t].pc # "ended"
  BY DEF Owners, Typed, TypeOK, Live, Stopped
<1>b. ASSUME thread' = thread PROVE Kept
  BY <1>b DEF Live, Stopped
<1>c. ASSUME NEW ts, thread' = Told(ts) PROVE Kept
  <2>1. thread'[t] = thread[t] \/ thread'[t] = [thread[t] EXCEPT !.running = FALSE, !.lost = @ \/ thread[t].pc = "new"]
    BY <1>c DEF Told
  <2>2. thread'[t].pc = thread[t].pc /\ ~thread'[t].running /\ ~thread'[t].lost
    BY <1>a, <2>1 DEF Thread
  <2> QED
    BY <1>a, <2>2 DEF Stopped
<1>d. ASSUME CanStart, NEW new, thread' = [thread EXCEPT ![Fresh] = new] PROVE Kept
  <2>1. t # Fresh
    BY <1>d, FreshIsFree DEF Free
  <2> QED
    BY <1>a, <1>d, <2>1 DEF Live, Stopped
<1>e. ASSUME NEW u \in Threads, ThreadStep(u) PROVE Kept
  <2>1. CASE u # t
    <3>1. thread'[t] = thread[t]
      BY <1>a, <1>e, <2>1 DEF ThreadStep, Begin, Connect, ReadBms, ReadPcs, Finish, Beat
    <3> QED
      BY <3>1 DEF Live, Stopped
  <2>2. CASE u = t
    <3>1. thread' = thread \/ thread' = [thread EXCEPT ![t].pc = "loop"] \/ thread' = [thread EXCEPT ![t] = Ended]
      BY <1>a, <1>e, <2>2 DEF ThreadStep, Begin, Connect, ReadBms, ReadPcs, Finish, Beat
    <3>2. CASE thread' = [thread EXCEPT ![t].pc = "loop"]
      BY <1>a, <3>2 DEF Stopped, Thread
    <3>3. CASE thread' = [thread EXCEPT ![t] = Ended]
      BY <1>a, <3>3 DEF Live, Ended
    <3> QED
      BY <1>b, <3>1, <3>2, <3>3
  <2> QED
    BY <2>1, <2>2
<1> HIDE DEF Kept
<1>1. ASSUME Operator PROVE Kept
  <2>1. ASSUME NEW b \in Bms, \/ AddBms(b) \/ RemoveBms(b) \/ StartBms(b) \/ StopBms(b)
                              \/ StartHeartbeat(b) \/ StopHeartbeat(b)
        PROVE  Kept
    BY <2>1, <1>b, <1>c, <1>d DEF AddBms, RemoveBms, StartBms, StopBms, StartHeartbeat, StopHeartbeat
  <2>2. ASSUME NEW p \in Pcs, StartPcs(p) \/ StopPcs(p) \/ AddPcs(p) \/ RemovePcs(p)
        PROVE  Kept
    BY <2>2, <1>b, <1>c, <1>d DEF StartPcs, StopPcs, AddPcs, RemovePcs
  <2>3. ASSUME StopAll PROVE Kept
    BY <2>3, <1>c DEF StopAll
  <2> QED
    BY <1>1, <2>1, <2>2, <2>3 DEF Operator
<1>2. ASSUME Deliver \/ UNCHANGED vars PROVE Kept
  BY <1>2, <1>b DEF Deliver, OnStatus, OnBmsData, OnBmsError, OnPcsData, OnPcsError, vars
<1> QED
  BY <1>e, <1>1, <1>2 DEF Next, Kept

\* Of the live threads that poll one device, no two are meant to: all but one were
\* told to stop.  Those whose run() had begun stay so, through restarts of the
\* device and for as long as they outlive their join, until they end.
THEOREM OnlyOnePoller == Spec => []OnePoller /\ StopIsKept
<1>1. Owners => OnePoller
  <2> SUFFICES ASSUME Owners, NEW t \in Threads, NEW u \in Threads,
                      Live(t), Live(u),
                      thread[t].role = "poll", thread[u].role = "poll",
                      thread[t].name = thread[u].name,
                      ~Stopped(t), ~Stopped(u)
               PROVE  t = u
    BY DEF OnePoller
  <2>1. Live(t) /\ Live(u) /\ Registered(t) /\ Registered(u)
    BY DEF Owners, Owned, Stopped
  <2>2. ASSUME NEW v \in {t, u} PROVE worker[thread[t].name] = v
    <3>3. v \in Threads /\ v # NoThread /\ Live(v) /\ thread[v].role = "poll"
      BY <2>1, NotZero
    <3>1. ASSUME NEW b \in Bms, beater[b] = v PROVE FALSE
      <4>1. beater[b] # NoThread /\ Live(beater[b])
        BY <3>1, <3>3
      <4>2. thread[beater[b]].role = "beat"
        BY <4>1 DEF Owners, EntriesMatch
      <4> QED
        BY <3>1, <3>3, <4>2
    <3>2. PICK n \in Names : worker[n] = v
      BY <2>1, <2>2, <3>1 DEF Registered
    <3> QED
      BY <2>1, <2>2, <3>2, NotZero DEF Owners, EntriesMatch
  <2> QED
    BY <2>2
<1>2. Owners /\ [Next]_vars => [\A t \in Threads : Live(t) /\ Stopped(t) /\ ~thread[t].lost
            => ~Live(t)' \/ (Stopped(t) /\ ~thread[t].lost)']_vars
  BY StopsLast
<1>3. Spec => StopIsKept
  BY <1>2, OwnersAlways, PTL DEF Spec, StopIsKept
<1> QED
  BY <1>1, <1>3, OwnersAlways, PTL

------------------------------------------------------------------------------
(* The PCS table: every handler that changes a registry entry or the list  *)
(* of PCSs writes the rows after it.                                       *)

LEMMA Disconnection ==
    ASSUME NEW p, NEW ws, NEW samples, NEW errors
    PROVE  ConnectionText(p, ws, samples, errors) = "Disconnected" <=> ws[p] = NoThread
  BY DEF ConnectionText

LEMMA RefreshedRows ==
    ASSUME NEW ns, NEW ws, NEW samples, NEW errors, NEW p \in Pcs, p \in ns
    PROVE  RefreshPcs(ns, ws, samples, errors)[p] = "Disconnected" <=> ws[p] = NoThread
  BY Disconnection DEF RefreshPcs

LEMMA RowsStep == Typed /\ PcsRowsAreTrue /\ [Next]_vars => PcsRowsAreTrue'
<1> SUFFICES ASSUME Typed, PcsRowsAreTrue, [Next]_vars PROVE PcsRowsAreTrue'
  OBVIOUS
<1>a. /\ worker \in [Names -> Threads \cup {NoThread}] /\ Bms \cap Pcs = {}
      /\ connection \in [Pcs -> {"-", "Disconnected", "Connecting", "Connected", "Error"}]
      /\ Bms \subseteq Names /\ Pcs \subseteq Names
  BY NamesAssumption DEF Typed, TypeOK, Names
<1>b. ASSUME UNCHANGED <<names, worker, connection>> PROVE PcsRowsAreTrue'
  BY <1>b DEF PcsRowsAreTrue
<1>c. ASSUME connection' = RefreshPcs(names', worker', pcsSample', pcsError')
      PROVE  PcsRowsAreTrue'
  BY <1>c, RefreshedRows DEF PcsRowsAreTrue
<1>d. ASSUME NEW b \in Bms, UNCHANGED connection, names' \cap Pcs \subseteq names,
             \A n \in Names \ {b} : worker'[n] = worker[n]
      PROVE  PcsRowsAreTrue'
  BY <1>a, <1>d DEF PcsRowsAreTrue
<1>1. ASSUME NEW t \in Threads, ThreadStep(t) PROVE PcsRowsAreTrue'
  BY <1>1, <1>b DEF ThreadStep, Begin, Connect, ReadBms, ReadPcs, Finish, Beat, ThreadOnly, pcsView
<1>2. ASSUME NEW b \in Bms,
             \/ AddBms(b) \/ RemoveBms(b) \/ StartBms(b) \/ StopBms(b)
             \/ StartHeartbeat(b) \/ StopHeartbeat(b)
      PROVE  PcsRowsAreTrue'
  <2>1. UNCHANGED connection /\ names' \cap Pcs \subseteq names
    BY <1>2, <1>a DEF AddBms, RemoveBms, StartBms, StopBms, StartHeartbeat, StopHeartbeat, pcsView
  <2>2. \A n \in Names \ {b} : worker'[n] = worker[n]
    BY <1>2, <1>a DEF AddBms, RemoveBms, StartBms, StopBms, StartHeartbeat, StopHeartbeat
  <2> QED
    BY <2>1, <2>2, <1>d
<1>3. ASSUME NEW p \in Pcs, StartPcs(p) \/ StopPcs(p) \/ AddPcs(p) \/ RemovePcs(p)
      PROVE  PcsRowsAreTrue'
  BY <1>3, <1>c DEF StartPcs, StopPcs, AddPcs, RemovePcs
<1>4. CASE StopAll
  BY <1>4, <1>c DEF StopAll
<1>5. CASE OnStatus \/ OnBmsData \/ OnBmsError
  BY <1>5, <1>b DEF OnStatus, OnBmsData, OnBmsError, pcsView
<1>6. CASE OnPcsData
  <2>1. Received.name \in Pcs /\ UNCHANGED <<names, worker>>
    BY <1>6 DEF OnPcsData
  <2>2. connection' = [connection EXCEPT ![Received.name] =
            IF Received.name \in names
            THEN ConnectionText(Received.name, worker, pcsSample', pcsError') ELSE @]
    BY <1>6 DEF OnPcsData
  <2> QED
    BY <1>a, <2>1, <2>2, Disconnection DEF PcsRowsAreTrue
<1>7. CASE OnPcsError
  BY <1>7, <1>c DEF OnPcsError
<1>8. CASE UNCHANGED vars
  BY <1>8, <1>b DEF vars, pcsView
<1> QED
  BY <1>1, <1>2, <1>3, <1>4, <1>5, <1>6, <1>7, <1>8 DEF Next, Operator, Deliver

\* The PCS table shows exactly the PCSs that are not polled as disconnected.
THEOREM RowsAreTrue == Spec => []PcsRowsAreTrue
<1>1. Init => PcsRowsAreTrue
  BY DEF Init, PcsRowsAreTrue, Names
<1> QED
  BY <1>1, RowsStep, TypedAlways, PTL DEF Spec

------------------------------------------------------------------------------
(* The task list.  A device that nobody polls has either a last status     *)
(* under way that says so, or none under way and an entry that says so.    *)

Busy == {"Scheduled", "Running"}
Polled(n) ==
    \E t \in Threads : Live(t) /\ thread[t].role = "poll" /\ thread[t].name = n
StatusAt(n, i) == signals[i].kind = "status" /\ signals[i].name = n
NoStatus(n) == \A i \in 1..Len(signals) : ~StatusAt(n, i)
FinalStatus(n) ==
    \E i \in 1..Len(signals) :
        /\ StatusAt(n, i) /\ signals[i].value \notin Busy
        /\ \A j \in 1..Len(signals) : j > i => ~StatusAt(n, j)
Settling(n) == Polled(n) \/ FinalStatus(n) \/ (NoStatus(n) /\ task[n] \notin Busy)
AllSettling == \A n \in Names : Settling(n)

\* Signals of other devices, appended, change nothing for n.
LEMMA OthersEmit ==
    ASSUME SignalsOK, NEW msgs \in Seq(Signal), Emit(msgs), NEW n \in Names,
           \A i \in 1..Len(msgs) : ~(msgs[i].kind = "status" /\ msgs[i].name = n)
    PROVE  /\ NoStatus(n) => NoStatus(n)'
           /\ FinalStatus(n) => FinalStatus(n)'
<1>1. /\ signals \in Seq(Signal) /\ signals' = signals \o msgs
      /\ Len(signals') = Len(signals) + Len(msgs)
      /\ \A i \in 1..Len(signals) : signals'[i] = signals[i]
      /\ \A i \in 1..Len(signals') : i > Len(signals) => signals'[i] = msgs[i - Len(signals)]
  BY DEF SignalsOK, Emit
<1>2. \A i \in 1..Len(signals') : i > Len(signals) => ~StatusAt(n, i)'
  <2> SUFFICES ASSUME NEW i \in 1..Len(signals'), i > Len(signals) PROVE ~StatusAt(n, i)'
    OBVIOUS
  <2>1. i - Len(signals) \in 1..Len(msgs)
    BY <1>1
  <2> QED
    BY <1>1, <2>1 DEF StatusAt
<1>3. \A i \in 1..Len(signals) : StatusAt(n, i)' <=> StatusAt(n, i)
  BY <1>1 DEF StatusAt
<1>4. \A i \in 1..Len(signals') : i \in 1..Len(signals) \/ i > Len(signals)
  BY <1>1
<1>5. 1..Len(signals) \subseteq 1..Len(signals')
  BY <1>1
<1>6. NoStatus(n) => NoStatus(n)'
  BY <1>2, <1>3, <1>4 DEF NoStatus
<1>7. ASSUME FinalStatus(n) PROVE FinalStatus(n)'
  <2>1. PICK i \in 1..Len(signals) :
            /\ StatusAt(n, i) /\ signals[i].value \notin Busy
            /\ \A j \in 1..Len(signals) : j > i => ~StatusAt(n, j)
    BY <1>7 DEF FinalStatus
  <2>2. i \in 1..Len(signals') /\ StatusAt(n, i)' /\ signals'[i].value \notin Busy
    BY <1>1, <1>3, <1>5, <2>1
  <2>3. \A j \in 1..Len(signals') : j > i => ~StatusAt(n, j)'
    BY <1>2, <1>3, <1>4, <2>1
  <2> QED
    BY <2>2, <2>3 DEF FinalStatus
<1> QED
  BY <1>6, <1>7

\* A thread's last signals: its status is the last one of its device.
LEMMA LastWord ==
    ASSUME SignalsOK, NEW n \in Names, NEW s \in Statuses \ Busy,
           Emit(<<Status(n, s)>>) \/ Emit(<<Status(n, s), Error(n)>>)
    PROVE  FinalStatus(n)'
<1>1. signals \in Seq(Signal) /\ Status(n, s).kind = "status" /\ Status(n, s).name = n
      /\ Status(n, s).value = s /\ Error(n).kind # "status"
  BY DEF SignalsOK, Status, Error
<1> DEFINE i == Len(signals) + 1
<1>2. i \in 1..Len(signals') /\ signals'[i] = Status(n, s)
      /\ \A j \in 1..Len(signals') : j > i => signals'[j] = Error(n)
  BY <1>1 DEF Emit
<1> QED
  BY <1>1, <1>2 DEF FinalStatus, StatusAt

\* The threads: those that go on keep their device polled.
LEMMA SettlingThread ==
    ASSUME Typed, AllSettling, NEW t \in Threads, ThreadStep(t) PROVE AllSettling'
<1>a. /\ SignalsOK /\ thread \in [Threads -> Thread] /\ UNCHANGED task
      /\ Live(t) /\ thread[t].name \in Names
  BY DEF Typed, TypeOK, SignalsOK, ThreadStep, Begin, Connect, ReadBms, ReadPcs, Finish, Beat,
         ThreadOnly, LiveNamed, Live
<1> DEFINE m == thread[t].name
<1> SUFFICES ASSUME NEW n \in Names PROVE Settling(n)'
  BY DEF AllSettling
<1>b. Settling(n)
  BY DEF AllSettling
<1>c. ASSUME n # m, NEW msgs \in Seq(Signal), Emit(msgs),
             \A i \in 1..Len(msgs) : msgs[i].name = m
      PROVE  /\ NoStatus(n) => NoStatus(n)'
             /\ FinalStatus(n) => FinalStatus(n)'
  BY <1>a, <1>c, OthersEmit
<1>d. \A n1 \in Names, s \in Statuses : Status(n1, s) \in Signal /\ Status(n1, s).name = n1
  BY SignalTyping DEF Status
<1>e. \A n1 \in Names : Error(n1) \in Signal /\ Error(n1).name = n1
  BY SignalTyping DEF Error
<1>1. CASE thread[t].role = "poll" /\ m = n /\ thread'[t].pc # "ended"
  <2>1. thread'[t].role = "poll" /\ thread'[t].name = n
    BY <1>1, <1>a DEF ThreadStep, Begin, Connect, ReadBms, ReadPcs, Finish, Beat, Ended, Thread
  <2> QED
    BY <1>1, <2>1 DEF Settling, Polled, Live
<1>2. CASE thread[t].role = "poll" /\ m = n /\ thread'[t].pc = "ended"
  <2>1. \/ Emit(<<Status(n, "Stopped")>>) \/ Emit(<<Status(n, "Error"), Error(n)>>)
    BY <1>2, <1>a DEF ThreadStep, Begin, Connect, ReadBms, ReadPcs, Finish, Beat, Thread, Live
  <2>2. {"Stopped", "Error"} \subseteq Statuses \ Busy
    BY DEF Statuses, Busy
  <2> QED
    BY <1>a, <2>1, <2>2, LastWord DEF Settling
<1>3. CASE thread[t].role # "poll" \/ m # n
  <2>1. Polled(n) => Polled(n)'
    <3>1. \A u \in Threads \ {t} : thread'[u] = thread[u]
      BY <1>a DEF ThreadStep, Begin, Connect, ReadBms, ReadPcs, Finish, Beat
    <3> QED
      BY <1>3, <3>1 DEF Polled, Live
  <2>2. /\ NoStatus(n) => NoStatus(n)'
        /\ FinalStatus(n) => FinalStatus(n)'
    <3>1. CASE UNCHANGED signals
      BY <3>1 DEF NoStatus, FinalStatus, StatusAt
    <3>2. CASE Emit(<<>>)
      <4>1. UNCHANGED signals
        BY <1>a, <3>2 DEF Emit, SignalsOK
      <4> QED
        BY <3>1, <4>1
    <3>3. CASE thread[t].role # "poll"
      BY <3>1, <3>2, <3>3 DEF ThreadStep, Begin, Connect, ReadBms, ReadPcs, Finish, Beat
    <3>4. ASSUME m # n, NEW a \in Signal, a.name = m, Emit(<<a>>)
          PROVE  /\ NoStatus(n) => NoStatus(n)'
                 /\ FinalStatus(n) => FinalStatus(n)'
      <4>1. <<a>> \in Seq(Signal) /\ \A i \in 1..Len(<<a>>) : <<a>>[i].name = m
        BY <3>4
      <4> QED
        BY <1>c, <3>4, <4>1
    <3>5. ASSUME m # n, NEW a \in Signal, NEW b \in Signal, a.name = m, b.name = m, Emit(<<a, b>>)
          PROVE  /\ NoStatus(n) => NoStatus(n)'
                 /\ FinalStatus(n) => FinalStatus(n)'
      <4>1. <<a, b>> \in Seq(Signal) /\ \A i \in 1..Len(<<a, b>>) : <<a, b>>[i].name = m
        BY <3>5
      <4> QED
        BY <1>c, <3>5, <4>1
    <3>6. CASE thread[t].role = "poll" /\ m # n
      <4>1. CASE Begin(t)
        BY <1>a, <1>d, <3>2, <3>4, <3>6, <4>1 DEF Begin, Statuses
      <4>2. CASE Connect(t)
        BY <1>a, <1>d, <1>e, <3>4, <3>5, <3>6, <4>2 DEF Connect, Statuses
      <4>3. CASE ReadBms(t)
        <5>1. \A h \in fleet.heartbeats \cup {NoBeat} : Data(m, h) \in Signal /\ Data(m, h).name = m
          BY <4>3, FleetParts, SignalTyping DEF ReadBms, Heartbeats, Data, Typed
        <5> QED
          BY ZenonT(40), <1>a, <1>d, <1>e, <3>5, <3>6, <4>3, <5>1 DEF ReadBms, Statuses
      <4>4. CASE ReadPcs(t)
        <5>1. \A s \in Samples : Data(m, s) \in Signal /\ Data(m, s).name = m
          BY <4>4, SignalTyping DEF ReadPcs, Data
        <5> QED
          BY <1>a, <1>d, <3>5, <3>6, <4>4, <5>1 DEF ReadPcs, Statuses
      <4>5. CASE Finish(t)
        BY <1>a, <1>d, <3>4, <3>6, <4>5 DEF Finish, Statuses
      <4>6. CASE Beat(t)
        BY <3>6, <4>6 DEF Beat
      <4> QED
        BY <4>1, <4>2, <4>3, <4>4, <4>5, <4>6 DEF ThreadStep
    <3> QED
      BY <1>3, <3>3, <3>6
  <2> QED
    BY <1>a, <1>b, <2>1, <2>2 DEF Settling
<1> QED
  BY <1>1, <1>2, <1>3

\* The handlers send nothing; only a start makes an entry busy.
LEMMA SettlingOperator == ASSUME Typed, AllSettling, Operator PROVE AllSettling'
<1>a. /\ thread \in [Threads -> Thread] /\ task \in [Names -> Statuses \cup {"-"}]
      /\ UNCHANGED signals /\ Bms \subseteq Names
  BY DEF Typed, TypeOK, Operator, AddBms, RemoveBms, StartBms, StopBms, StartHeartbeat,
         StopHeartbeat, StartPcs, StopPcs, AddPcs, RemovePcs, StopAll, Names
<1>b. \A n \in Names : /\ NoStatus(n)' = NoStatus(n)
                       /\ FinalStatus(n)' = FinalStatus(n)
  BY <1>a DEF NoStatus, FinalStatus, StatusAt
<1>c. ASSUME NEW ts, thread' = Told(ts) PROVE \A n \in Names : Polled(n) => Polled(n)'
  <2>1. \A t \in Threads : /\ thread'[t].pc = thread[t].pc /\ thread'[t].name = thread[t].name
                           /\ thread'[t].role = thread[t].role
    BY ZenonT(40), <1>a, <1>c DEF Told, Thread
  <2> QED
    BY <2>1 DEF Polled, Live
<1>d. ASSUME NEW role, NEW m, NEW d, CanStart,
             thread' = [thread EXCEPT ![Fresh] = NewThread(role, m, d)]
      PROVE  /\ \A n \in Names : Polled(n) => Polled(n)'
             /\ role = "poll" => Polled(m)'
  <2>1. /\ Fresh \in Threads /\ ~Live(Fresh) /\ thread'[Fresh] = NewThread(role, m, d)
        /\ \A t \in Threads : t # Fresh => thread'[t] = thread[t]
    BY <1>a, <1>d, FreshIsFree DEF Free
  <2> QED
    BY <2>1 DEF Polled, Live, NewThread
<1>e. ASSUME UNCHANGED thread PROVE \A n \in Names : Polled(n) => Polled(n)'
  BY <1>e DEF Polled, Live
<1>f. ASSUME \A n \in Names : Polled(n) => Polled(n)',
             \A n \in Names : Polled(n)' \/ task'[n] = task[n] \/ task'[n] \notin Busy
      PROVE  AllSettling'
  BY <1>b, <1>f DEF AllSettling, Settling
<1>1. ASSUME NEW b \in Bms, AddBms(b) PROVE AllSettling'
  BY <1>1, <1>e, <1>f DEF AddBms
<1>2. ASSUME NEW b \in Bms, RemoveBms(b) \/ StopBms(b) PROVE AllSettling'
  <2>1. \A n \in Names : task'[n] = task[n] \/ task'[n] \notin Busy
    BY <1>2, <1>a DEF RemoveBms, StopBms, Busy
  <2>2. \A n \in Names : Polled(n) => Polled(n)'
    BY <1>2, <1>c DEF RemoveBms, StopBms
  <2> QED
    BY <2>1, <2>2, <1>f
<1>3. ASSUME NEW b \in Bms, StartBms(b) PROVE AllSettling'
  <2>1. (\A n \in Names : Polled(n) => Polled(n)') /\ Polled(b)'
    BY <1>3, <1>d DEF StartBms
  <2>2. \A n \in Names : n = b \/ task'[n] = task[n]
    BY <1>3, <1>a DEF StartBms
  <2> QED
    BY <2>1, <2>2, <1>f
<1>4. ASSUME NEW b \in Bms, StartHeartbeat(b) PROVE AllSettling'
  BY <1>4, <1>d, <1>f DEF StartHeartbeat
<1>5. ASSUME NEW b \in Bms, StopHeartbeat(b) PROVE AllSettling'
  BY <1>5, <1>c, <1>f DEF StopHeartbeat
<1>6. ASSUME NEW p \in Pcs, StartPcs(p) PROVE AllSettling'
  BY <1>6, <1>d, <1>f DEF StartPcs
<1>7. ASSUME NEW p \in Pcs, StopPcs(p) PROVE AllSettling'
  BY <1>7, <1>c, <1>f DEF StopPcs
<1>8. ASSUME NEW p \in Pcs, AddPcs(p) \/ RemovePcs(p) PROVE AllSettling'
  BY <1>8, <1>e, <1>f DEF AddPcs, RemovePcs
<1>9. CASE StopAll
  <2>1. \A n \in Names : task'[n] = task[n] \/ task'[n] \notin Busy
    BY <1>9, <1>a DEF StopAll, Busy
  <2>2. \A n \in Names : Polled(n) => Polled(n)'
    BY <1>9, <1>c DEF StopAll
  <2> QED
    BY <2>1, <2>2, <1>f
<1> QED
  BY <1>1, <1>2, <1>3, <1>4, <1>5, <1>6, <1>7, <1>8, <1>9 DEF Operator

\* The slots: the queue moves up; a final status that is delivered becomes
\* the entry.
LEMMA SettlingDeliver == ASSUME Typed, AllSettling, Deliver PROVE AllSettling'
<1>a. SignalsOK /\ task \in [Names -> Statuses \cup {"-"}]
  BY DEF Typed, TypeOK, SignalsOK
<1>b. signals # <<>> /\ signals' = Tail(signals) /\ UNCHANGED thread
      /\ signals \in Seq(Signal)
  BY <1>a DEF Deliver, OnStatus, OnBmsData, OnBmsError, OnPcsData, OnPcsError, Slot, SignalsOK
<1>c. /\ Len(signals) \in Nat \ {0} /\ Len(signals') = Len(signals) - 1
      /\ \A i \in 1..Len(signals') : signals'[i] = signals[i + 1] /\ i + 1 \in 1..Len(signals)
  BY <1>b
<1>d. \A n \in Names : NoStatus(n) => NoStatus(n)'
  BY <1>c DEF NoStatus, StatusAt
<1>e. Received = signals[1]
  BY <1>b DEF Received
<1> SUFFICES ASSUME NEW n \in Names PROVE Settling(n)'
  BY DEF AllSettling
<1>1. CASE Polled(n)
  BY <1>1, <1>b DEF Settling, Polled, Live
<1>2. CASE NoStatus(n) /\ task[n] \notin Busy
  <2>1. task'[n] = task[n]
    <3>1. ~StatusAt(n, 1)
      BY <1>2, <1>c DEF NoStatus
    <3> QED
      BY <1>a, <1>e, <3>1 DEF Deliver, OnStatus, OnBmsData, OnBmsError, OnPcsData, OnPcsError,
         StatusAt, Slot
  <2> QED
    BY <1>2, <1>d, <2>1 DEF Settling
<1>3. CASE FinalStatus(n)
  <2>1. PICK i \in 1..Len(signals) :
            /\ StatusAt(n, i) /\ signals[i].value \notin Busy
            /\ \A j \in 1..Len(signals) : j > i => ~StatusAt(n, j)
    BY <1>3 DEF FinalStatus
  <2>2. CASE i = 1
    <3>1. Received.kind = "status" /\ Received.name = n /\ Received.value \notin Busy
      BY <1>e, <2>1, <2>2 DEF StatusAt
    <3>2. task'[n] \notin Busy
      BY <1>a, <3>1 DEF Deliver, OnStatus, OnBmsData, OnBmsError, OnPcsData, OnPcsError, Slot
    <3>3. NoStatus(n)'
      BY <1>c, <2>1, <2>2 DEF NoStatus, StatusAt
    <3> QED
      BY <3>2, <3>3 DEF Settling
  <2>3. CASE i # 1
    <3>1. /\ i - 1 \in 1..Len(signals') /\ signals'[i - 1] = signals[i]
      BY <1>c, <2>3
    <3>2. \A j \in 1..Len(signals') : j > i - 1 => ~StatusAt(n, j)'
      BY <1>c, <2>1 DEF StatusAt
    <3> QED
      BY <2>1, <3>1, <3>2 DEF Settling, FinalStatus, StatusAt
  <2> QED
    BY <2>2, <2>3
<1> QED
  BY <1>1, <1>2, <1>3 DEF AllSettling, Settling

\* However late the statuses come, the task list settles once nobody polls.
THEOREM TaskStatusSettled == Spec => []TaskStatusSettles
<1>1. Init => AllSettling
  BY DEF Init, AllSettling, Settling, NoStatus, Busy
<1>2. Typed /\ AllSettling /\ [Next]_vars => AllSettling'
  <2>1. ASSUME AllSettling, UNCHANGED vars PROVE AllSettling'
    BY <2>1 DEF vars, AllSettling, Settling, Polled, Live, FinalStatus, NoStatus, StatusAt
  <2> QED
    BY <2>1, SettlingThread, SettlingOperator, SettlingDeliver DEF Next
<1>3. AllSettling => TaskStatusSettles
  BY DEF AllSettling, Settling, Polled, FinalStatus, NoStatus, StatusAt, TaskStatusSettles, Quiet, Busy
<1> QED
  BY <1>1, <1>2, <1>3, TypedAlways, PTL DEF Spec
=============================================================================
