-------------------------- MODULE HvRegistryProofs --------------------------
(***************************************************************************)
(* Proofs about HvRegistry, for any set of workflow threads.               *)
(***************************************************************************)
EXTENDS HvRegistry, TLAPS

\* The thread steps keep the types of the thread variables.
LEMMA ThreadTyping ==
    ASSUME ThreadTypeOK, NEW w \in Workers,
           Execute(w) \/ End(w) \/ \E m \in Modes : Start(w, m)
    PROVE  ThreadTypeOK'
  BY DEF ThreadTypeOK, Execute, Command, Stay, GiveUp, End, Start, Modes, EmsCmds

\* Every variable keeps its type.
THEOREM Typing == Spec => []TypeOK
<1>1. Init => TypeOK
  BY DEF Init, ThreadInit, TypeOK, ThreadTypeOK, UiStates, Modes, Events, EmsCmds
<1>2. TypeOK /\ [Next]_vars => TypeOK'
  <2> SUFFICES ASSUME TypeOK, [Next]_vars PROVE TypeOK'
    OBVIOUS
  <2>1. ASSUME NEW m \in Modes, Ask(m) PROVE TypeOK'
    BY <2>1 DEF TypeOK, ThreadTypeOK, Ask, threadVars, UiStates
  <2>2. CASE AnswerNo
    BY <2>2 DEF TypeOK, ThreadTypeOK, AnswerNo, threadVars, UiStates
  <2>3. ASSUME NEW w \in Workers, AnswerYes(w) PROVE TypeOK'
    <3>1. \E m \in Modes : Start(w, m)
      BY <2>3 DEF AnswerYes, Register, Modes
    <3>2. ThreadTypeOK'
      BY <3>1, ThreadTyping DEF TypeOK
    <3> QED
      BY <2>3, <3>2 DEF TypeOK, AnswerYes, Register, UiStates, Events
  <2>4. ASSUME NEW w \in Workers, ServiceHvOff(w) PROVE TypeOK'
    <3>1. \E m \in Modes : Start(w, m)
      BY <2>4 DEF ServiceHvOff, Register, Modes
    <3>2. ThreadTypeOK'
      BY <3>1, ThreadTyping DEF TypeOK
    <3> QED
      BY <2>4, <3>2 DEF TypeOK, ServiceHvOff, Register
  <2>5. CASE AskCancel
    BY <2>5 DEF TypeOK, ThreadTypeOK, AskCancel, threadVars, UiStates
  <2>6. CASE DoCancel
    BY <2>6 DEF TypeOK, ThreadTypeOK, DoCancel, threadVars, UiStates
  <2>7. CASE StopDevice
    BY <2>7 DEF TypeOK, ThreadTypeOK, StopDevice, threadVars, UiStates
  <2>8. CASE JoinReturns
    BY <2>8 DEF TypeOK, ThreadTypeOK, JoinReturns, threadVars, UiStates, Events
  <2>13. CASE StopAll
    BY <2>13 DEF TypeOK, ThreadTypeOK, StopAll, threadVars, UiStates
  <2>14. CASE JoinAllReturns
    BY <2>14 DEF TypeOK, ThreadTypeOK, JoinAllReturns, threadVars, UiStates, Events
  <2>9. ASSUME NEW c \in EmsCmds, ManualCommand(c) PROVE TypeOK'
    BY <2>9 DEF TypeOK, ThreadTypeOK, ManualCommand, uiVars, Events
  <2>10. ASSUME NEW w \in Workers, ThreadStep(w) PROVE TypeOK'
    <3>1. ThreadTypeOK'
      BY <2>10, ThreadTyping DEF TypeOK, ThreadStep, Finished
    <3> QED
      BY <2>10, <3>1 DEF TypeOK, ThreadStep, Finished, uiVars
  <2>11. ASSUME NEW w \in Workers, Log(w) PROVE TypeOK'
    BY <2>11 DEF TypeOK, ThreadTypeOK, Log, threadVars
  <2>12. CASE UNCHANGED vars
    BY <2>12 DEF TypeOK, ThreadTypeOK, vars, threadVars, uiVars
  <2>15. ASSUME NEW a \in PowerWorkflows, PowerWrites(a) \/ PowerStays(a) \/ PowerGivesUp(a)
         PROVE  TypeOK'
    <3>1. PowerCommand(a) \in EmsCmds /\ "stay" \in EmsCmds
      BY DEF PowerCommand, EmsCmds
    <3>2. ThreadTypeOK'
      BY <2>15, <3>1 DEF TypeOK, ThreadTypeOK, PowerWrites, PowerStays, PowerGivesUp
    <3>3. past' \subseteq Events /\ powering' \subseteq PowerWorkflows
      BY <2>15 DEF TypeOK, PowerWrites, PowerStays, PowerGivesUp, Events
    <3> QED
      BY <2>15, <3>2, <3>3 DEF TypeOK, PowerWrites, PowerStays, PowerGivesUp, uiVars
  <2> QED
    BY <2>1, <2>2, <2>3, <2>4, <2>5, <2>6, <2>7, <2>8, <2>9, <2>10, <2>11, <2>12,
       <2>13, <2>14, <2>15 DEF Next, MainStep, PowerStep
<1> QED
  BY <1>1, <1>2, PTL DEF Spec
-----------------------------------------------------------------------------
(* The invariant.  While the main thread joins a thread the device has no  *)
(* entry, and only the thread being joined is live; every other conjunct   *)
(* is a property of HvRegistry.                                            *)

MainThreadTarget ==
    /\ ui = "cancelling" => target \in Workers
    /\ ui = "joining" => target \in Workers /\ entry = NoWorker
    /\ ui = "joiningAll" => entry \in {target, NoWorker}

Inv == EntryIsLive /\ MainThreadTarget /\ RegistryKnowsTheThread

LEMMA InvInit == Init => Inv
  BY DEF Init, ThreadInit, Inv, EntryIsLive, MainThreadTarget,
         RegistryKnowsTheThread, Live

\* The steps of the main thread that start no workflow thread.
LEMMA InvMainThread ==
    ASSUME TypeOK, Inv,
           \/ \E m \in Modes : Ask(m)
           \/ AnswerNo \/ AskCancel \/ DoCancel
           \/ StopDevice \/ JoinReturns \/ StopAll \/ JoinAllReturns
           \/ \E c \in EmsCmds : ManualCommand(c)
    PROVE  Inv'
<1> USE NoWorkerAssumption DEF Inv, TypeOK, ThreadTypeOK, EntryIsLive, MainThreadTarget,
        RegistryKnowsTheThread, Undisturbed, Live
<1>1. ASSUME NEW m \in Modes, Ask(m) PROVE Inv'
  BY <1>1 DEF Ask, threadVars
<1>2. CASE AnswerNo
  BY <1>2 DEF AnswerNo, threadVars, Dialogs
<1>3. CASE AskCancel
  BY <1>3 DEF AskCancel, threadVars
<1>4. CASE DoCancel
  BY <1>4 DEF DoCancel, threadVars
<1>5. CASE StopDevice
  BY <1>5 DEF StopDevice, threadVars
<1>6. CASE JoinReturns
  BY <1>6 DEF JoinReturns, threadVars
<1>7. ASSUME NEW c \in EmsCmds, ManualCommand(c) PROVE Inv'
  BY <1>7 DEF ManualCommand, uiVars
<1>8. CASE StopAll
  BY <1>8 DEF StopAll, threadVars
<1>9. CASE JoinAllReturns
  BY <1>9 DEF JoinAllReturns, threadVars
<1> QED
  BY <1>1, <1>2, <1>3, <1>4, <1>5, <1>6, <1>7, <1>8, <1>9

\* Registering a thread: it is new, and it takes the entry.
LEMMA InvStart ==
    ASSUME TypeOK, Inv, NEW w \in Workers, AnswerYes(w) \/ ServiceHvOff(w)
    PROVE  Inv'
<1> USE NoWorkerAssumption DEF Inv, TypeOK, ThreadTypeOK
<1>1. /\ entry' = w /\ phase' = [phase EXCEPT ![w] = "run"]
      /\ ui' \in Dialogs \cup {"idle"} /\ ui \in Dialogs \cup {"idle"}
      /\ \/ past' = past /\ entry = NoWorker
         \/ "overlap" \in past'
  BY DEF AnswerYes, ServiceHvOff, Register, Start
<1>2. EntryIsLive' /\ MainThreadTarget'
  BY <1>1 DEF EntryIsLive, MainThreadTarget, Live, Dialogs
<1>3. RegistryKnowsTheThread'
  BY <1>1 DEF RegistryKnowsTheThread, Undisturbed, Live, Dialogs
<1> QED
  BY <1>2, <1>3

\* A step of a workflow thread; the last one clears the entry.
LEMMA InvThread ==
    ASSUME TypeOK, Inv, NEW w \in Workers, ThreadStep(w)
    PROVE  Inv'
<1> USE NoWorkerAssumption DEF Inv, TypeOK, ThreadTypeOK, EntryIsLive, MainThreadTarget,
        RegistryKnowsTheThread, Undisturbed, Live
<1>1. CASE Execute(w) /\ UNCHANGED <<uiVars, past, powering>>
  <2>1. \A v \in Workers : (phase'[v] # "idle") <=> (phase[v] # "idle")
    BY <1>1 DEF Execute, Command, Stay, GiveUp
  <2> QED
    BY <1>1, <2>1 DEF uiVars
<1>2. CASE Finished(w)
  <2>1. phase' = [phase EXCEPT ![w] = "idle"] /\ phase[w] = "returned"
    BY <1>2 DEF Finished, End
  <2>2. entry' = NoWorker /\ UNCHANGED <<ui, target, past>>
    BY <1>2 DEF Finished
  <2>3. (EntryIsLive /\ MainThreadTarget)'
    BY <2>2
  <2>4. ASSUME Undisturbed', NEW v \in Workers, Live(v)'
        PROVE  ui' = "joining" /\ target' = v
    BY <2>1, <2>2, <2>4
  <2> QED
    BY <2>2, <2>3, <2>4
<1> QED
  BY <1>1, <1>2 DEF ThreadStep

LEMMA Invariance == Spec => []Inv
<1>1. TypeOK /\ Inv /\ [Next]_vars => Inv'
  <2> SUFFICES ASSUME TypeOK, Inv, [Next]_vars PROVE Inv'
    OBVIOUS
  <2>1. CASE MainStep
    BY <2>1, InvMainThread, InvStart DEF MainStep
  <2>2. CASE \E w \in Workers : ThreadStep(w)
    BY <2>2, InvThread
  <2>3. ASSUME NEW w \in Workers, Log(w) PROVE Inv'
    BY <2>3 DEF Log, threadVars, Inv, EntryIsLive, MainThreadTarget,
                RegistryKnowsTheThread, Undisturbed, Live
  <2>5. CASE PowerStep
    <3>1. /\ UNCHANGED <<entry, phase, ui, target>>
          /\ Undisturbed' => Undisturbed
      BY <2>5 DEF PowerStep, PowerWrites, PowerStays, PowerGivesUp, uiVars, threadVars, Undisturbed
    <3> QED
      BY <3>1 DEF Inv, EntryIsLive, MainThreadTarget, RegistryKnowsTheThread, Live
  <2>4. CASE UNCHANGED vars
    BY <2>4 DEF vars, threadVars, uiVars, Inv, EntryIsLive, MainThreadTarget,
                RegistryKnowsTheThread, Undisturbed, Live
  <2> QED
    BY <2>1, <2>2, <2>3, <2>4, <2>5 DEF Next
<1> QED
  BY <1>1, InvInit, Typing, PTL DEF Spec

\* Without a stale confirmation and an abandoned join, the live thread of a
\* device is the registered one (or the one being joined).
THEOREM RegistryKnows == Spec => []RegistryKnowsTheThread
  BY Invariance, PTL DEF Inv

\* An entry of hv_workers always names a thread that has not ended.
THEOREM EntryLive == Spec => []EntryIsLive
  BY Invariance, PTL DEF Inv

\* At most one workflow is live as long as nothing disturbed the registry.
LEMMA OneLive ==
    ASSUME Inv, past = {}, NEW v \in Workers, NEW w \in Workers, Live(v), Live(w)
    PROVE  v = w
  BY NoWorkerAssumption
     DEF Inv, RegistryKnowsTheThread, Undisturbed, MainThreadTarget
-----------------------------------------------------------------------------
(* "Success" and register 0381: a thread that returned success left Stay   *)
(* there, no other thread has been live since, and every charge/discharge  *)
(* workflow that wrote there has written its own Stay or still owes it.    *)

StayInv ==
    /\ past = {} /\ powering = {} => \A w \in Workers :
                       phase[w] = "returned" /\ outcome[w] = "ok" => emsCmd = "stay"
    /\ SuccessMeansStay

LEMMA StayStep ==
    ASSUME TypeOK, Inv, StayInv, [Next]_vars
    PROVE  StayInv'
<1> USE DEF TypeOK, ThreadTypeOK, StayInv, SuccessMeansStay, Quiet, Live
<1>1. ASSUME NEW m \in Modes, Ask(m) PROVE StayInv'
  BY <1>1 DEF Ask, threadVars
<1>2. CASE AnswerNo
  BY <1>2 DEF AnswerNo, threadVars
<1>3. ASSUME NEW w \in Workers, AnswerYes(w) \/ ServiceHvOff(w) PROVE StayInv'
  <2>1. /\ phase' = [phase EXCEPT ![w] = "run"]
        /\ outcome' = [outcome EXCEPT ![w] = "none"]
        /\ UNCHANGED emsCmd
        /\ past \subseteq past' /\ UNCHANGED powering
    BY <1>3 DEF AnswerYes, ServiceHvOff, Register, Start
  <2> QED
    BY <2>1
<1>4. CASE AskCancel
  BY <1>4 DEF AskCancel, threadVars
<1>5. CASE DoCancel
  BY <1>5 DEF DoCancel, threadVars
<1>6. CASE StopDevice
  BY <1>6 DEF StopDevice, threadVars
<1>7. CASE JoinReturns
  BY <1>7 DEF JoinReturns, threadVars
<1>8. ASSUME NEW c \in EmsCmds, ManualCommand(c) PROVE StayInv'
  BY <1>8 DEF ManualCommand, uiVars
<1>9. ASSUME NEW w \in Workers, ThreadStep(w) PROVE StayInv'
  <2>1. CASE Execute(w) /\ UNCHANGED <<uiVars, past, powering>>
    <3>1. Live(w) /\ Live(w)'
      BY <2>1 DEF Execute, Command, Stay, GiveUp
    <3>2. past' = past /\ powering' = powering
      BY <2>1
    <3>3. SuccessMeansStay'
      BY <3>1
    <3>4. ASSUME past = {}, powering = {}, NEW v \in Workers,
                 phase'[v] = "returned", outcome'[v] = "ok"
          PROVE  emsCmd' = "stay"
      <4>1. CASE v = w
        BY <2>1, <3>4, <4>1 DEF Execute, Command, Stay, GiveUp
      <4>2. CASE v # w
        <5>1. phase[v] = "returned"
          BY <2>1, <3>4, <4>2 DEF Execute, Command, Stay, GiveUp
        <5> QED
          BY <3>1, <3>4, <4>2, <5>1, OneLive
      <4> QED
        BY <4>1, <4>2
    <3> QED
      BY <3>2, <3>3, <3>4
  <2>2. CASE Finished(w)
    <3>1. /\ phase[w] = "returned" /\ phase' = [phase EXCEPT ![w] = "idle"]
          /\ UNCHANGED <<outcome, emsCmd, past, powering>>
          /\ hvStatus' = IF outcome[w] = "ok" THEN "Success" ELSE "Failed"
      BY <2>2 DEF Finished, End
    <3> QED
      BY <3>1
  <2> QED
    BY <1>9, <2>1, <2>2 DEF ThreadStep
<1>10. ASSUME NEW w \in Workers, Log(w) PROVE StayInv'
  BY <1>10 DEF Log, threadVars
<1>11. CASE UNCHANGED vars
  BY <1>11 DEF vars, threadVars, uiVars
<1>14. ASSUME NEW a \in PowerWorkflows, PowerWrites(a) PROVE StayInv'
  <2>1. powering' # {}
    BY <1>14 DEF PowerWrites
  <2> QED
    BY <2>1
<1>15. ASSUME NEW a \in PowerWorkflows, PowerStays(a) PROVE StayInv'
  <2>1. emsCmd' = "stay"
    BY <1>15 DEF PowerStays
  <2> QED
    BY <2>1
<1>16. ASSUME NEW a \in PowerWorkflows, PowerGivesUp(a) PROVE StayInv'
  <2>1. past' # {}
    BY <1>16 DEF PowerGivesUp
  <2> QED
    BY <2>1
<1>12. CASE StopAll
  BY <1>12 DEF StopAll, threadVars
<1>13. CASE JoinAllReturns
  BY <1>13 DEF JoinAllReturns, threadVars
<1> QED
  BY <1>1, <1>2, <1>3, <1>4, <1>5, <1>6, <1>7, <1>8, <1>9, <1>10, <1>11, <1>12, <1>13,
     <1>14, <1>15, <1>16 DEF Next, MainStep, PowerStep

\* A workflow shown as "Success" has left register 0381 at Stay, and the
\* charge/discharge workflows of the device, which write the register too, put
\* the Stay back unless one of them gives up.
THEOREM SuccessStay == Spec => []SuccessMeansStay
<1>1. Init => StayInv
  BY DEF Init, ThreadInit, StayInv, SuccessMeansStay
<1>2. TypeOK /\ Inv /\ StayInv /\ [Next]_vars => StayInv'
  BY StayStep
<1>3. StayInv => SuccessMeansStay
  BY DEF StayInv
<1> QED
  BY <1>1, <1>2, <1>3, Typing, Invariance, PTL DEF Spec
=============================================================================
