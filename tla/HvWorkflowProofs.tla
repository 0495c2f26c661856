-------------------------- MODULE HvWorkflowProofs --------------------------
(***************************************************************************)
(* Proofs about HvWorkflow, for any finite set of workflow threads.        *)
(***************************************************************************)
EXTENDS HvWorkflow, TLAPS

\* A step of hv_on or hv_off keeps the types.
LEMMA ControllerTyping ==
    ASSUME TypeOK, NEW w \in Workers, Controller(w)
    PROVE  TypeOK'
<1> USE DEF TypeOK, Goto, Return, ClosePcs, Running, Ended, Modes, Breakers,
        thread, device
<1>1. CASE Begin(w)
  BY <1>1 DEF Begin
<1>2. CASE ReadStatus(w)
  BY <1>2 DEF ReadStatus
<1>3. CASE PcsConnect(w)
  BY <1>3 DEF PcsConnect
<1>4. CASE Precheck(w)
  BY <1>4 DEF Precheck
<1>5. CASE CheckBreaker(w)
  BY <1>5 DEF CheckBreaker
<1>6. CASE ReadPower(w)
  BY <1>6 DEF ReadPower
<1>7. CASE PcsStop(w)
  BY <1>7 DEF PcsStop
<1>8. CASE WaitZero(w)
  BY <1>8 DEF WaitZero
<1>9. CASE GateCmd(w)
  BY <1>9 DEF GateCmd
<1>10. CASE WriteCmd(w)
  BY <1>10 DEF WriteCmd
<1>11. CASE WaitReady(w)
  BY <1>11 DEF WaitReady
<1>12. CASE GatePcs(w)
  BY <1>12 DEF GatePcs
<1>13. CASE PcsHvOn(w)
  BY <1>13 DEF PcsHvOn
<1>14. CASE WaitBreaker(w)
  BY <1>14 DEF WaitBreaker
<1>15. CASE GateStay(w)
  BY <1>15 DEF GateStay
<1>16. CASE WriteStay(w)
  BY <1>16 DEF WriteStay
<1> QED
  BY <1>1, <1>2, <1>3, <1>4, <1>5, <1>6, <1>7, <1>8, <1>9,
     <1>10, <1>11, <1>12, <1>13, <1>14, <1>15, <1>16 DEF Controller

\* Every variable keeps its type.
THEOREM Typing == Spec => []TypeOK
<1>1. Init => TypeOK
  BY DEF Init, TypeOK, Modes, Ended, Running
<1>2. TypeOK /\ [Next]_vars => TypeOK'
  <2> SUFFICES ASSUME TypeOK, [Next]_vars PROVE TypeOK'
    OBVIOUS
  <2>1. ASSUME NEW w \in Workers, NEW m \in Modes, NEW ign \in BOOLEAN, Launch(w, m, ign)
        PROVE  TypeOK'
    BY <2>1 DEF TypeOK, Launch, Running, device
  <2>2. ASSUME NEW w \in Workers, RequestStop(w) PROVE TypeOK'
    BY <2>2 DEF TypeOK, RequestStop, Live, Ended, thread, clients, device
  <2>3. ASSUME NEW w \in Workers, Controller(w) PROVE TypeOK'
    BY <2>3, ControllerTyping
  <2>4. ASSUME NEW w \in Workers, Finish(w) PROVE TypeOK'
    BY <2>4 DEF TypeOK, Finish, Ended, thread, clients, device
  <2>5. CASE DeviceChanges
    BY <2>5 DEF TypeOK, DeviceChanges, thread, clients, device
  <2>6. CASE UNCHANGED vars
    BY <2>6 DEF TypeOK, vars, thread, clients, device
  <2> QED
    BY <2>1, <2>2, <2>3, <2>4, <2>5, <2>6 DEF Next
<1> QED
  BY <1>1, <1>2, PTL DEF Spec
-----------------------------------------------------------------------------
(* Cancelling: a thread reaches a command only through its stop check.     *)

LEMMA CancelStep ==
    ASSUME TypeOK, CancelTakesEffect, NEW w \in Workers, Controller(w)
    PROVE  CancelTakesEffect'
<1> USE DEF TypeOK, CancelTakesEffect, Goto, Return
<1>1. CASE Begin(w)
  BY <1>1 DEF Begin
<1>2. CASE ReadStatus(w)
  BY <1>2 DEF ReadStatus
<1>3. CASE PcsConnect(w)
  BY <1>3 DEF PcsConnect
<1>4. CASE Precheck(w)
  BY <1>4 DEF Precheck
<1>5. CASE CheckBreaker(w)
  BY <1>5 DEF CheckBreaker
<1>6. CASE ReadPower(w)
  BY <1>6 DEF ReadPower
<1>7. CASE PcsStop(w)
  BY <1>7 DEF PcsStop
<1>8. CASE WaitZero(w)
  BY <1>8 DEF WaitZero
<1>9. CASE GateCmd(w)
  BY <1>9 DEF GateCmd
<1>10. CASE WriteCmd(w)
  BY <1>10 DEF WriteCmd
<1>11. CASE WaitReady(w)
  BY <1>11 DEF WaitReady
<1>12. CASE GatePcs(w)
  BY <1>12 DEF GatePcs
<1>13. CASE PcsHvOn(w)
  BY <1>13 DEF PcsHvOn
<1>14. CASE WaitBreaker(w)
  BY <1>14 DEF WaitBreaker
<1>15. CASE GateStay(w)
  BY <1>15 DEF GateStay
<1>16. CASE WriteStay(w)
  BY <1>16 DEF WriteStay
<1> QED
  BY <1>1, <1>2, <1>3, <1>4, <1>5, <1>6, <1>7, <1>8, <1>9,
     <1>10, <1>11, <1>12, <1>13, <1>14, <1>15, <1>16 DEF Controller

\* A cancelled thread sends no command but the one it was about to send.
THEOREM Cancellation == Spec => []CancelTakesEffect
<1>1. Init => CancelTakesEffect
  BY DEF Init, CancelTakesEffect
<1>2. TypeOK /\ CancelTakesEffect /\ [Next]_vars => CancelTakesEffect'
  <2> SUFFICES ASSUME TypeOK, CancelTakesEffect, [Next]_vars
               PROVE  CancelTakesEffect'
    OBVIOUS
  <2> USE DEF TypeOK, CancelTakesEffect
  <2>1. ASSUME NEW w \in Workers, NEW m \in Modes, NEW ign \in BOOLEAN, Launch(w, m, ign)
        PROVE  CancelTakesEffect'
    BY <2>1 DEF Launch
  <2>2. ASSUME NEW w \in Workers, RequestStop(w) PROVE CancelTakesEffect'
    BY <2>2 DEF RequestStop
  <2>3. ASSUME NEW w \in Workers, Controller(w) PROVE CancelTakesEffect'
    BY <2>3, CancelStep
  <2>4. ASSUME NEW w \in Workers, Finish(w) PROVE CancelTakesEffect'
    BY <2>4 DEF Finish
  <2>5. CASE DeviceChanges \/ UNCHANGED vars
    BY <2>5 DEF DeviceChanges, vars
  <2> QED
    BY <2>1, <2>2, <2>3, <2>4, <2>5 DEF Next
<1> QED
  BY <1>1, <1>2, Typing, PTL DEF Spec
-----------------------------------------------------------------------------
(* Connections: where a client can be connected, at every point of the     *)
(* controller.  At the Stay command the PCS client is closed, so only a    *)
(* failed thread can leave one open.                                       *)

PcsStages == {"precheck", "breaker", "power", "pcsStop", "waitZero", "pcsHvOn",
              "waitBreaker"}

ConnectionInv ==
    \A w \in Workers :
       /\ w \in bmsOpen => pc[w] \in Running \ {"begin"}
       /\ w \in pcsOpen => \/ pc[w] \in PcsStages
                           \/ pc[w] \in Ended \cup {"returned"} /\ outcome[w] = "fail"

LEMMA ConnectionStep ==
    ASSUME TypeOK, ConnectionInv, NEW w \in Workers, Controller(w)
    PROVE  ConnectionInv'
<1> USE DEF TypeOK, ConnectionInv, Goto, Return, ClosePcs, Running, Ended, PcsStages
<1>1. CASE Begin(w)
  BY <1>1 DEF Begin
<1>2. CASE ReadStatus(w)
  BY <1>2 DEF ReadStatus
<1>3. CASE PcsConnect(w)
  BY <1>3 DEF PcsConnect
<1>4. CASE Precheck(w)
  BY <1>4 DEF Precheck
<1>5. CASE CheckBreaker(w)
  BY <1>5 DEF CheckBreaker
<1>6. CASE ReadPower(w)
  BY <1>6 DEF ReadPower
<1>7. CASE PcsStop(w)
  BY <1>7 DEF PcsStop
<1>8. CASE WaitZero(w)
  BY <1>8 DEF WaitZero
<1>9. CASE GateCmd(w)
  BY <1>9 DEF GateCmd
<1>10. CASE WriteCmd(w)
  BY <1>10 DEF WriteCmd
<1>11. CASE WaitReady(w)
  BY <1>11 DEF WaitReady
<1>12. CASE GatePcs(w)
  BY <1>12 DEF GatePcs
<1>13. CASE PcsHvOn(w)
  BY <1>13 DEF PcsHvOn
<1>14. CASE WaitBreaker(w)
  BY <1>14 DEF WaitBreaker
<1>15. CASE GateStay(w)
  BY <1>15 DEF GateStay
<1>16. CASE WriteStay(w)
  BY <1>16 DEF WriteStay
<1> QED
  BY <1>1, <1>2, <1>3, <1>4, <1>5, <1>6, <1>7, <1>8, <1>9,
     <1>10, <1>11, <1>12, <1>13, <1>14, <1>15, <1>16 DEF Controller

\* A thread that is over holds no BMS connection, and a PCS connection only
\* after a failure.
THEOREM Connections == Spec => []NoConnectionLeft
<1>1. Init => ConnectionInv
  BY DEF Init, ConnectionInv
<1>2. TypeOK /\ ConnectionInv /\ [Next]_vars => ConnectionInv'
  <2> SUFFICES ASSUME TypeOK, ConnectionInv, [Next]_vars
               PROVE  ConnectionInv'
    OBVIOUS
  <2> USE DEF TypeOK, ConnectionInv, PcsStages
  <2>1. ASSUME NEW w \in Workers, NEW m \in Modes, NEW ign \in BOOLEAN, Launch(w, m, ign)
        PROVE  ConnectionInv'
    BY <2>1 DEF Launch
  <2>2. ASSUME NEW w \in Workers, RequestStop(w) PROVE ConnectionInv'
    BY <2>2 DEF RequestStop, clients
  <2>3. ASSUME NEW w \in Workers, Controller(w) PROVE ConnectionInv'
    BY <2>3, ConnectionStep
  <2>4. ASSUME NEW w \in Workers, Finish(w) PROVE ConnectionInv'
    BY <2>4 DEF Finish, clients, Ended, Running
  <2>5. CASE DeviceChanges \/ UNCHANGED vars
    BY <2>5 DEF DeviceChanges, vars, clients
  <2> QED
    BY <2>1, <2>2, <2>3, <2>4, <2>5 DEF Next
<1>3. ConnectionInv => NoConnectionLeft
  BY DEF ConnectionInv, NoConnectionLeft, Running, Ended, PcsStages
<1> QED
  BY <1>1, <1>2, <1>3, Typing, PTL DEF Spec
-----------------------------------------------------------------------------
(* The workflow thread implements HvThread: writing its command moves it   *)
(* to "commanded", returning to "returned", everything else is a stutter.  *)

\* What a controller step does to the variables of HvThread.
ThreadEffect(w) ==
    /\ pc' = [pc EXCEPT ![w] = pc'[w]]
    /\ mode' = mode
    /\ \/ Phase(pc'[w]) = Phase(pc[w]) /\ UNCHANGED <<outcome, emsCmd>>
       \/ /\ Phase(pc[w]) = "run" /\ Phase(pc'[w]) = "commanded"
          /\ emsCmd' = mode[w] /\ outcome' = outcome
       \/ /\ Phase(pc[w]) = "commanded" /\ Phase(pc'[w]) = "returned"
          /\ emsCmd' = "stay" /\ outcome' = [outcome EXCEPT ![w] = "ok"]
       \/ /\ Phase(pc[w]) \in {"run", "commanded"} /\ Phase(pc'[w]) = "returned"
          /\ emsCmd' \in {emsCmd, IF Phase(pc[w]) = "run" THEN mode[w] ELSE "stay"}
          /\ outcome' = [outcome EXCEPT ![w] = "fail"]

LEMMA ThreadEffects ==
    ASSUME TypeOK, NEW w \in Workers, Controller(w)
    PROVE  ThreadEffect(w)
<1> USE DEF TypeOK, Goto, Return, Phase, Running, Ended, thread, ThreadEffect
<1>1. CASE Begin(w)
  BY <1>1 DEF Begin
<1>2. CASE ReadStatus(w)
  BY <1>2 DEF ReadStatus
<1>3. CASE PcsConnect(w)
  BY <1>3 DEF PcsConnect
<1>4. CASE Precheck(w)
  BY <1>4 DEF Precheck
<1>5. CASE CheckBreaker(w)
  BY <1>5 DEF CheckBreaker
<1>6. CASE ReadPower(w)
  BY <1>6 DEF ReadPower
<1>7. CASE PcsStop(w)
  BY <1>7 DEF PcsStop
<1>8. CASE WaitZero(w)
  BY <1>8 DEF WaitZero
<1>9. CASE GateCmd(w)
  BY <1>9 DEF GateCmd
<1>10. CASE WriteCmd(w)
  BY <1>10 DEF WriteCmd
<1>11. CASE WaitReady(w)
  BY <1>11 DEF WaitReady
<1>12. CASE GatePcs(w)
  BY <1>12 DEF GatePcs
<1>13. CASE PcsHvOn(w)
  BY <1>13 DEF PcsHvOn
<1>14. CASE WaitBreaker(w)
  BY <1>14 DEF WaitBreaker
<1>15. CASE GateStay(w)
  BY <1>15 DEF GateStay
<1>16. CASE WriteStay(w)
  BY <1>16 DEF WriteStay
<1> QED
  BY <1>1, <1>2, <1>3, <1>4, <1>5, <1>6, <1>7, <1>8, <1>9,
     <1>10, <1>11, <1>12, <1>13, <1>14, <1>15, <1>16 DEF Controller

LEMMA ThreadStep ==
    ASSUME TypeOK, NEW w \in Workers, Controller(w)
    PROVE  Thread!Execute(w) \/ UNCHANGED Thread!threadVars
<1> DEFINE phases == [v \in Workers |-> Phase(pc[v])]
<1>1. ThreadEffect(w)
  BY ThreadEffects
<1>2. phases' = [phases EXCEPT ![w] = Phase(pc'[w])] /\ phases[w] = Phase(pc[w])
  BY <1>1 DEF ThreadEffect, TypeOK
<1>3. Phase(pc'[w]) = Phase(pc[w]) => phases' = phases
  BY <1>2
<1> HIDE DEF phases
<1>4. \/ UNCHANGED <<mode, phases, outcome, emsCmd>>
      \/ /\ phases[w] = "run" /\ emsCmd' = mode[w]
         /\ phases' = [phases EXCEPT ![w] = "commanded"] /\ UNCHANGED <<mode, outcome>>
      \/ /\ phases[w] = "commanded" /\ emsCmd' = "stay" /\ mode' = mode
         /\ phases' = [phases EXCEPT ![w] = "returned"]
         /\ outcome' = [outcome EXCEPT ![w] = "ok"]
      \/ /\ phases[w] \in {"run", "commanded"} /\ mode' = mode
         /\ emsCmd' \in {emsCmd, IF phases[w] = "run" THEN mode[w] ELSE "stay"}
         /\ phases' = [phases EXCEPT ![w] = "returned"]
         /\ outcome' = [outcome EXCEPT ![w] = "fail"]
  BY <1>1, <1>2, <1>3 DEF ThreadEffect
<1> QED
  BY <1>4 DEF phases, Thread!Execute, Thread!Command, Thread!Stay, Thread!GiveUp,
              Thread!threadVars

\* To the registry a workflow thread is what HvThread says.
THEOREM ThreadRefinement == Spec => ImplementsThread
<1>1. Init => Thread!ThreadInit
  BY DEF Init, Thread!ThreadInit, Thread!EmsCmds, Phase, Ended
<1>2. TypeOK /\ [Next]_vars => [Thread!ThreadNext]_(Thread!threadVars)
  <2> SUFFICES ASSUME TypeOK, [Next]_vars
               PROVE  Thread!ThreadNext \/ UNCHANGED Thread!threadVars
    OBVIOUS
  <2> USE DEF TypeOK, Phase, Ended, Thread!threadVars
  <2>1. ASSUME NEW w \in Workers, NEW m \in Modes, NEW ign \in BOOLEAN, Launch(w, m, ign)
        PROVE  Thread!Start(w, m)
    BY <2>1 DEF Launch, Live, Thread!Start
  <2>2. ASSUME NEW w \in Workers, RequestStop(w) PROVE UNCHANGED Thread!threadVars
    BY <2>2 DEF RequestStop, thread
  <2>3. ASSUME NEW w \in Workers, Controller(w)
        PROVE  Thread!Execute(w) \/ UNCHANGED Thread!threadVars
    BY <2>3, ThreadStep
  <2>4. ASSUME NEW w \in Workers, Finish(w) PROVE Thread!End(w)
    BY <2>4 DEF Finish, thread, Thread!End
  <2>5. CASE DeviceChanges \/ UNCHANGED vars
    BY <2>5 DEF DeviceChanges, vars, thread
  <2> QED
    BY <2>1, <2>2, <2>3, <2>4, <2>5 DEF Next, Thread!ThreadNext, Modes, Thread!Modes
<1> QED
  BY <1>1, <1>2, Typing, PTL DEF Spec, ImplementsThread, Thread!ThreadSpec
-----------------------------------------------------------------------------
(* The workflow thread implements HvSequence: the docstring's items.  Some *)
(* points of the controller belong to hv_on or to hv_off only, and those   *)
(* of the PCS stages are passed only when the PCS checks are not ignored.  *)

StageInv ==
    \A w \in Workers :
       /\ pc[w] \in {"status", "breaker", "pcsHvOn"} => mode[w] = "on"
       /\ pc[w] \in {"power", "pcsStop", "waitZero"} => mode[w] = "off"
       /\ pc[w] \in PcsStages \cup {"pcsConnect"} => ~ignore[w]
       /\ pc[w] \in Running => outcome[w] = "none"

LEMMA StageStep ==
    ASSUME TypeOK, StageInv, NEW w \in Workers, Controller(w)
    PROVE  StageInv'
<1> USE DEF TypeOK, StageInv, Goto, Return, PcsStages, Running, Modes, thread
<1>1. CASE Begin(w)
  BY <1>1 DEF Begin
<1>2. CASE ReadStatus(w)
  BY <1>2 DEF ReadStatus
<1>3. CASE PcsConnect(w)
  BY <1>3 DEF PcsConnect
<1>4. CASE Precheck(w)
  BY <1>4 DEF Precheck
<1>5. CASE CheckBreaker(w)
  BY <1>5 DEF CheckBreaker
<1>6. CASE ReadPower(w)
  BY <1>6 DEF ReadPower
<1>7. CASE PcsStop(w)
  BY <1>7 DEF PcsStop
<1>8. CASE WaitZero(w)
  BY <1>8 DEF WaitZero
<1>9. CASE GateCmd(w)
  BY <1>9 DEF GateCmd
<1>10. CASE WriteCmd(w)
  BY <1>10 DEF WriteCmd
<1>11. CASE WaitReady(w)
  BY <1>11 DEF WaitReady
<1>12. CASE GatePcs(w)
  BY <1>12 DEF GatePcs
<1>13. CASE PcsHvOn(w)
  BY <1>13 DEF PcsHvOn
<1>14. CASE WaitBreaker(w)
  BY <1>14 DEF WaitBreaker
<1>15. CASE GateStay(w)
  BY <1>15 DEF GateStay
<1>16. CASE WriteStay(w)
  BY <1>16 DEF WriteStay
<1> QED
  BY <1>1, <1>2, <1>3, <1>4, <1>5, <1>6, <1>7, <1>8, <1>9,
     <1>10, <1>11, <1>12, <1>13, <1>14, <1>15, <1>16 DEF Controller

LEMMA Stages == Spec => []StageInv
<1>1. Init => StageInv
  BY DEF Init, StageInv, PcsStages, Running
<1>2. TypeOK /\ StageInv /\ [Next]_vars => StageInv'
  <2> SUFFICES ASSUME TypeOK, StageInv, [Next]_vars PROVE StageInv'
    OBVIOUS
  <2> USE DEF TypeOK, StageInv, PcsStages, Running
  <2>1. ASSUME NEW w \in Workers, NEW m \in Modes, NEW ign \in BOOLEAN, Launch(w, m, ign)
        PROVE  StageInv'
    BY <2>1 DEF Launch
  <2>2. ASSUME NEW w \in Workers, RequestStop(w) PROVE StageInv'
    BY <2>2 DEF RequestStop, thread
  <2>3. ASSUME NEW w \in Workers, Controller(w) PROVE StageInv'
    BY <2>3, StageStep
  <2>4. ASSUME NEW w \in Workers, Finish(w) PROVE StageInv'
    BY <2>4 DEF Finish, thread
  <2>5. CASE DeviceChanges \/ UNCHANGED vars
    BY <2>5 DEF DeviceChanges, vars, thread
  <2> QED
    BY <2>1, <2>2, <2>3, <2>4, <2>5 DEF Next
<1> QED
  BY <1>1, <1>2, Typing, PTL DEF Spec

\* What a controller step does to the variables of HvSequence.
Item(w) == NextItem(pc[w], mode[w], ignore[w])
NewItem(w) == NextItem(pc'[w], mode[w], ignore[w])

SequenceEffect(w) ==
    /\ pc' = [pc EXCEPT ![w] = pc'[w]]
    /\ UNCHANGED <<mode, ignore, device>>
    /\ \/ NewItem(w) = Item(w) /\ UNCHANGED <<outcome, emsCmd>>
       \/ /\ Item(w) # "none" /\ Sequence!Observes(Item(w))
          /\ emsCmd' = Sequence!Writes(Item(w))
          /\ NewItem(w) = Sequence!After(Item(w), ignore[w])
          /\ outcome' = [outcome EXCEPT ![w] = IF Item(w) = "stayCmd" THEN "ok"
                                                 ELSE "none"]
       \/ /\ Item(w) # "none" /\ NewItem(w) = "none"
          /\ emsCmd' \in {emsCmd, Sequence!Writes(Item(w))}
          /\ outcome' = [outcome EXCEPT ![w] = "fail"]

LEMMA SequenceEffects ==
    ASSUME TypeOK, StageInv, NEW w \in Workers, Controller(w)
    PROVE  SequenceEffect(w)
<1> USE DEF TypeOK, StageInv, PcsStages, Goto, Return, Item, NewItem, NextItem,
        NextItemOn, NextItemOff, Running, Modes, thread, device, SequenceEffect,
        Sequence!Observes, Sequence!Writes, Sequence!After
<1>1. CASE Begin(w)
  BY <1>1 DEF Begin
<1>2. CASE ReadStatus(w)
  BY <1>2 DEF ReadStatus
<1>3. CASE PcsConnect(w)
  BY <1>3 DEF PcsConnect
<1>4. CASE Precheck(w)
  BY <1>4 DEF Precheck
<1>5. CASE CheckBreaker(w)
  BY <1>5 DEF CheckBreaker
<1>6. CASE ReadPower(w)
  BY <1>6 DEF ReadPower
<1>7. CASE PcsStop(w)
  BY <1>7 DEF PcsStop
<1>8. CASE WaitZero(w)
  BY <1>8 DEF WaitZero
<1>9. CASE GateCmd(w)
  BY <1>9 DEF GateCmd
<1>10. CASE WriteCmd(w)
  BY <1>10 DEF WriteCmd
<1>11. CASE WaitReady(w)
  BY <1>11 DEF WaitReady
<1>12. CASE GatePcs(w)
  BY <1>12 DEF GatePcs
<1>13. CASE PcsHvOn(w)
  BY <1>13 DEF PcsHvOn
<1>14. CASE WaitBreaker(w)
  BY <1>14 DEF WaitBreaker
<1>15. CASE GateStay(w)
  BY <1>15 DEF GateStay
<1>16. CASE WriteStay(w)
  BY <1>16 DEF WriteStay
<1> QED
  BY <1>1, <1>2, <1>3, <1>4, <1>5, <1>6, <1>7, <1>8, <1>9,
     <1>10, <1>11, <1>12, <1>13, <1>14, <1>15, <1>16 DEF Controller

LEMMA SequenceStep ==
    ASSUME TypeOK, StageInv, NEW w \in Workers, Controller(w)
    PROVE  Sequence!Advance(w) \/ Sequence!Abort(w) \/ UNCHANGED Sequence!vars
<1> DEFINE items == [v \in Workers |-> NextItem(pc[v], mode[v], ignore[v])]
<1>1. SequenceEffect(w)
  BY SequenceEffects
<1>2. items' = [items EXCEPT ![w] = NewItem(w)] /\ items[w] = Item(w)
  BY <1>1 DEF SequenceEffect, TypeOK, Item, NewItem
<1>3. NewItem(w) = Item(w) => items' = items
  BY <1>2
<1> HIDE DEF items
<1>4. CASE NewItem(w) = Item(w) /\ UNCHANGED <<outcome, emsCmd>>
  BY <1>1, <1>3, <1>4 DEF items, SequenceEffect, Sequence!vars, Sequence!device, device
<1>5. CASE /\ Item(w) # "none" /\ Sequence!Observes(Item(w))
           /\ emsCmd' = Sequence!Writes(Item(w))
           /\ NewItem(w) = Sequence!After(Item(w), ignore[w])
           /\ outcome' = [outcome EXCEPT ![w] = IF Item(w) = "stayCmd" THEN "ok"
                                                  ELSE "none"]
  BY <1>1, <1>2, <1>5 DEF items, SequenceEffect, Sequence!Advance, Sequence!device, device
<1>6. CASE /\ Item(w) # "none" /\ NewItem(w) = "none"
           /\ emsCmd' \in {emsCmd, Sequence!Writes(Item(w))}
           /\ outcome' = [outcome EXCEPT ![w] = "fail"]
  BY <1>1, <1>2, <1>6 DEF items, SequenceEffect, Sequence!Abort, Sequence!device, device
<1> QED
  BY <1>1, <1>4, <1>5, <1>6 DEF SequenceEffect

\* What a workflow does is the docstring's list, in its order.
THEOREM SequenceRefinement == Spec => ImplementsSequence
<1>1. Init => Sequence!Init
  BY DEF Init, Sequence!Init, NextItem, Running, Breakers
<1>2. TypeOK /\ StageInv /\ [Next]_vars => [Sequence!Next]_(Sequence!vars)
  <2> SUFFICES ASSUME TypeOK, StageInv, [Next]_vars
               PROVE  Sequence!Next \/ UNCHANGED Sequence!vars
    OBVIOUS
  <2> USE DEF TypeOK, NextItem, NextItemOn, NextItemOff, Ended, Running,
          Sequence!vars, Sequence!device
  <2>1. ASSUME NEW w \in Workers, NEW m \in Modes, NEW ign \in BOOLEAN, Launch(w, m, ign)
        PROVE  Sequence!Start(w, m, ign)
    <3> DEFINE items == [v \in Workers |-> NextItem(pc[v], mode[v], ignore[v])]
    <3>1. items[w] = "none"
      BY <2>1 DEF Launch, Live
    <3>2. NextItem("begin", m, ign) = Sequence!First(m, ign)
      BY DEF Sequence!First, Modes
    <3>3. items' = [items EXCEPT ![w] = NextItem("begin", m, ign)]
      <4> HIDE DEF NextItem
      <4>1. \A v \in Workers \ {w} : items'[v] = items[v]
        BY <2>1 DEF Launch
      <4>2. items'[w] = NextItem("begin", m, ign)
        BY <2>1 DEF Launch
      <4> QED
        BY <4>1, <4>2
    <3> HIDE DEF items, NextItem, TypeOK
    <3> QED
      BY <2>1, <3>1, <3>2, <3>3 DEF items, Launch, Sequence!Start, device
  <2>2. ASSUME NEW w \in Workers, RequestStop(w) PROVE UNCHANGED Sequence!vars
    BY <2>2 DEF RequestStop, thread, device
  <2>3. ASSUME NEW w \in Workers, Controller(w)
        PROVE  Sequence!Advance(w) \/ Sequence!Abort(w) \/ UNCHANGED Sequence!vars
    BY <2>3, SequenceStep
  <2>4. ASSUME NEW w \in Workers, Finish(w) PROVE UNCHANGED Sequence!vars
    BY <2>4 DEF Finish, thread, device
  <2>5. CASE DeviceChanges
    BY ZenonT(40), <2>5 DEF DeviceChanges, thread, Breakers, Sequence!DeviceChanges, Sequence!Next
  <2>6. CASE UNCHANGED vars
    BY <2>6 DEF vars, thread, device
  <2> QED
    BY <2>1, <2>2, <2>3, <2>4, <2>5, <2>6 DEF Next, Sequence!Next, Modes
<1> QED
  BY <1>1, <1>2, Typing, Stages, PTL DEF Spec, ImplementsSequence, Sequence!Spec
=============================================================================
