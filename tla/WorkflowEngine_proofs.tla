----------------------- MODULE WorkflowEngine_proofs -----------------------
(***************************************************************************)
(* Proofs about WorkflowEngine, for any number of executions, any graphs,  *)
(* any limits and any number of failures: the types, that the status of an *)
(* execution agrees with its log rows, that the cleanups of concurrent     *)
(* engines delete no execution that the least limit keeps and leave no     *)
(* more than the setting while nothing fails, that nothing follows         *)
(* control:end, that every engine settles its execution while the database *)
(* does not fail, and that no walk comes back to a node it is inside of.   *)
(***************************************************************************)
EXTENDS WorkflowEngine, WorkflowGraph_proofs, SequenceTheorems, FiniteSetTheorems,
        WellFoundedInduction, TLAPS

(***************************************************************************)
(* Part one: types.  An engine has a call under way whenever it needs one. *)
(***************************************************************************)
StackOK(e) ==
    /\ e.pc \in {"off", "begin"} => e.stack = <<>> /\ ~ e.aborted
    /\ e.pc = "enter" /\ e.aborted => e.stack # <<>>
    /\ e.pc \in {"run", "complete", "next", "catch"} => e.stack # <<>>

\* What the steps of an engine or a dispatch have to keep: all but the setting.
Types ==
    /\ workflow \in Workflow
    /\ row \in [Execution -> Row]
    /\ nodeLog \in [Execution -> [Step -> LogStatus]]
    /\ dispatch \in [Execution -> Dispatch]
    /\ engine \in [Execution -> Engine]
    /\ faults \in 0 .. MaxFaults

TypeInv == Types /\ \A x \in Execution : StackOK(engine[x])

\* Sequences of calls.
LEMMA CallTypes ==
  ASSUME NEW stack \in Seq(Frame), NEW call \in Frame
  PROVE  /\ <<call>> \o stack \in Seq(Frame) /\ <<call>> \o stack # <<>>
         /\ Head(<<call>> \o stack) = call
<1>1. <<call>> \in Seq(Frame) /\ Len(<<call>>) = 1 /\ <<call>>[1] = call
  OBVIOUS
<1>2. /\ <<call>> \o stack \in Seq(Frame)
      /\ Len(<<call>> \o stack) = 1 + Len(stack)
      /\ (<<call>> \o stack)[1] = call
  BY <1>1, ConcatProperties, LenProperties
<1>3. Len(stack) \in Nat
  BY LenProperties
<1>4. <<call>> \o stack # <<>>
  BY <1>2, <1>3
<1>5. QED
  BY <1>2, <1>4

LEMMA NoEngineTypes ==
  /\ NoEngine \in Engine /\ Over \in Engine /\ NoLogs \in [Step -> LogStatus]
  /\ StackOK(NoEngine) /\ StackOK(Over)
<1>1. (CHOOSE c \in Config : TRUE) \in Config /\ (CHOOSE n \in Node : TRUE) \in Node
  BY EngineAssumption
<1>2. <<>> \in Seq(Frame) /\ 0 \in 0 .. MaxSteps
  BY EngineAssumption
<1>3. NoEngine \in Engine
  BY <1>1, <1>2 DEF NoEngine, Engine
<1>4. Over \in Engine
  BY <1>3 DEF Over, Engine
<1>5. StackOK(NoEngine) /\ StackOK(Over)
  BY DEF NoEngine, Over, StackOK
<1>6. QED
  BY <1>3, <1>4, <1>5 DEF NoLogs, LogStatus

LEMMA NextEdgesType ==
  ASSUME NEW config \in WorkflowConfig, NEW n \in Node, NEW result
  PROVE  NextEdges(config, n, result) \subseteq Edge
BY DEF NextEdges, WorkflowConfig

\* The exits of a call.
LEMMA ThrownType ==
  ASSUME NEW e \in Engine
  PROVE  Thrown(e) \in Engine /\ StackOK(Thrown(e))
<1> DEFINE pc == IF e.stack = <<>> THEN "failed" ELSE "catch"
           new == [e EXCEPT !.pc = pc]
<1>1. pc \in {"failed", "catch"} /\ (pc = "catch" => e.stack # <<>>)
  OBVIOUS
<1> HIDE DEF pc
<1>2. new \in Engine /\ StackOK(new)
  BY <1>1 DEF Engine, StackOK
<1>3. Thrown(e) = new
  BY DEF Thrown, pc
<1> HIDE DEF new
<1>4. QED
  BY <1>2, <1>3

LEMMA TailType ==
  ASSUME NEW e \in Engine, e.stack # <<>>
  PROVE  /\ Top(e) \in Frame /\ Tail(e.stack) \in Seq(Frame)
         /\ [e EXCEPT !.stack = Tail(e.stack)] \in Engine
<1>1. e.stack \in Seq(Frame)
  BY DEF Engine
<1>2. Head(e.stack) \in Frame /\ Tail(e.stack) \in Seq(Frame)
  BY <1>1, HeadTailProperties
<1>3. QED
  BY <1>2 DEF Engine, Top

LEMMA RethrownType ==
  ASSUME NEW e \in Engine, e.stack # <<>>
  PROVE  Rethrown(e) \in Engine /\ StackOK(Rethrown(e))
BY TailType, ThrownType DEF Rethrown

LEMMA ReturnedType ==
  ASSUME NEW e \in Engine, e.stack # <<>>
  PROVE  Returned(e) \in Engine /\ StackOK(Returned(e))
<1> DEFINE pc == IF Tail(e.stack) = <<>> THEN "succeed" ELSE "next"
           new == [e EXCEPT !.stack = Tail(e.stack), !.pc = pc]
<1>1. pc \in {"succeed", "next"} /\ (pc = "next" => Tail(e.stack) # <<>>)
  OBVIOUS
<1>2. Tail(e.stack) \in Seq(Frame)
  BY TailType
<1> HIDE DEF pc
<1>3. new \in Engine /\ StackOK(new)
  BY <1>1, <1>2 DEF Engine, StackOK
<1>4. Returned(e) = new
  BY DEF Returned, pc
<1> HIDE DEF new
<1>5. QED
  BY <1>3, <1>4

LEMMA GoesType ==
  ASSUME NEW e \in Engine, e.stack # <<>>, NEW call \in Frame
  PROVE  /\ Goes(e, call) \in Engine /\ Goes(e, call).stack # <<>>
         /\ Goes(e, call).aborted = e.aborted /\ Top(Goes(e, call)) = call
<1> DEFINE stack == <<call>> \o Tail(e.stack)
           new == [e EXCEPT !.stack = stack]
<1>1. stack \in Seq(Frame) /\ stack # <<>> /\ Head(stack) = call
  BY TailType, CallTypes
<1> HIDE DEF stack
<1>2. new \in Engine /\ new.stack = stack /\ new.aborted = e.aborted
  BY <1>1 DEF Engine
<1>3. Goes(e, call) = new
  BY DEF Goes, stack
<1> HIDE DEF new
<1>4. QED
  BY <1>1, <1>2, <1>3 DEF Top

\* An engine does a step of its own.
LEMMA EngineStepType ==
  ASSUME TypeInv, NEW x \in Execution, NEW new \in Engine, StackOK(new),
         engine' = [engine EXCEPT ![x] = new]
  PROVE  engine' \in [Execution -> Engine] /\ \A y \in Execution : StackOK(engine'[y])
BY DEF TypeInv, Types

LEMMA LostType ==
  ASSUME Types, NEW x, Lost(x) \/ Fails
  PROVE  faults' \in 0 .. MaxFaults
BY EngineAssumption DEF Types, Lost, Fails

LEMMA CountType ==
  ASSUME NEW S, S \subseteq Execution
  PROVE  IsFiniteSet(S) /\ Cardinality(S) \in Nat
BY EngineAssumption, FS_Subset, FS_CardinalityType

\* The steps of the walk.
LEMMA BeginType ==
  ASSUME TypeInv, NEW x \in Execution, Begin(x)
  PROVE  TypeInv'
<1> DEFINE e == engine[x]
<1>1. e \in Engine /\ e.stack = <<>> /\ ~ e.aborted
  BY DEF TypeInv, Types, StackOK, Begin
<1>2. CASE /\ row' = [row EXCEPT ![x].status = "RUNNING"]
           /\ \E n \in TriggerNodes(e.config) :
                engine' = [engine EXCEPT ![x].pc = "enter", ![x].node = n]
           /\ UNCHANGED faults
  <2>1. PICK n \in TriggerNodes(e.config) :
                engine' = [engine EXCEPT ![x].pc = "enter", ![x].node = n]
    BY <1>2
  <2> DEFINE new == [e EXCEPT !.pc = "enter", !.node = n]
  <2>2. new \in Engine /\ StackOK(new)
    BY <1>1, <2>1 DEF Engine, StackOK, TriggerNodes
  <2>3. engine' = [engine EXCEPT ![x] = new]
    BY <2>1
  <2> HIDE DEF new, e
  <2>4. engine' \in [Execution -> Engine] /\ \A y \in Execution : StackOK(engine'[y])
    BY <2>2, <2>3, EngineStepType
  <2>5. row' \in [Execution -> Row]
    BY <1>2 DEF TypeInv, Types, Row
  <2>6. QED
    BY <2>4, <2>5, <1>2 DEF TypeInv, Types, Begin
<1>3. CASE /\ Lost(x)
           /\ engine' = [engine EXCEPT ![x].pc = "failed"]
           /\ UNCHANGED row
  <2> DEFINE new == [e EXCEPT !.pc = "failed"]
  <2>1. new \in Engine /\ StackOK(new)
    BY <1>1 DEF Engine, StackOK
  <2>2. engine' = [engine EXCEPT ![x] = new]
    BY <1>3
  <2> HIDE DEF new, e
  <2>3. engine' \in [Execution -> Engine] /\ \A y \in Execution : StackOK(engine'[y])
    BY <2>1, <2>2, EngineStepType
  <2>4. faults' \in 0 .. MaxFaults
    BY <1>3, LostType DEF TypeInv
  <2>5. QED
    BY <2>3, <2>4, <1>3 DEF TypeInv, Types, Begin
<1>4. QED
  BY <1>2, <1>3 DEF Begin

LEMMA PassType ==
  ASSUME TypeInv, NEW x \in Execution, Pass(x) \/ GiveUp(x)
  PROVE  TypeInv'
<1>1. engine[x] \in Engine /\ StackOK(engine[x]) /\ engine[x].pc = "enter"
  BY DEF TypeInv, Types, Pass, GiveUp
<1>2. \E new \in Engine : StackOK(new) /\ engine' = [engine EXCEPT ![x] = new]
  <2>1. CASE Pass(x)
    <3> DEFINE new == [engine[x] EXCEPT !.pc = "next"]
    <3>1. new \in Engine /\ StackOK(new)
      BY <1>1, <2>1 DEF Engine, StackOK, Pass, Ended
    <3>2. engine' = [engine EXCEPT ![x] = new]
      BY <2>1 DEF Pass
    <3> HIDE DEF new
    <3>3. QED
      BY <3>1, <3>2
  <2>2. CASE GiveUp(x)
    BY <1>1, <2>2, ThrownType DEF GiveUp
  <2>3. QED
    BY <2>1, <2>2
<1>3. engine' \in [Execution -> Engine] /\ \A y \in Execution : StackOK(engine'[y])
  BY <1>2, EngineStepType
<1>4. QED
  BY <1>3 DEF TypeInv, Types, Pass, GiveUp

LEMMA EnterType ==
  ASSUME TypeInv, NEW x \in Execution, Enter(x)
  PROVE  TypeInv'
<1> DEFINE e    == engine[x]
           step == e.steps + 1
           call == [node |-> e.node, step |-> step, todo |-> {}]
<1>1. e \in Engine /\ ~ e.aborted /\ step \in Step /\ step \in 0 .. MaxSteps
  <2>1. e \in Engine /\ ~ e.aborted /\ e.steps < MaxSteps
    BY DEF TypeInv, Types, Enter, Ended, WithinSteps
  <2>2. e.steps \in Nat
    BY <2>1 DEF Engine
  <2>3. QED
    BY <2>1, <2>2, EngineAssumption DEF Step
<1>2. call \in Frame /\ <<call>> \o e.stack \in Seq(Frame) /\ <<call>> \o e.stack # <<>>
  <2>1. call \in Frame
    BY <1>1 DEF Frame, Engine
  <2>2. e.stack \in Seq(Frame)
    BY <1>1 DEF Engine
  <2> HIDE DEF call, e
  <2>3. QED
    BY <2>1, <2>2, CallTypes
<1>3. CASE /\ nodeLog' = [nodeLog EXCEPT ![x][step] = "RUNNING"]
           /\ engine' = [engine EXCEPT
                ![x] = [e EXCEPT !.pc = "run", !.steps = step,
                                 !.stack = <<call>> \o e.stack]]
           /\ UNCHANGED faults
  <2> DEFINE stack == <<call>> \o e.stack
             new == [e EXCEPT !.pc = "run", !.steps = step, !.stack = stack]
  <2>1. engine' = [engine EXCEPT ![x] = new]
    BY <1>3
  <2>2. stack \in Seq(Frame) /\ stack # <<>>
    BY <1>2
  <2> HIDE DEF stack
  <2>3. new \in Engine /\ StackOK(new)
    BY <1>1, <2>2 DEF Engine, StackOK
  <2>4. nodeLog' \in [Execution -> [Step -> LogStatus]]
    BY <1>3 DEF TypeInv, Types, LogStatus
  <2> HIDE DEF new, e
  <2>5. engine' \in [Execution -> Engine] /\ \A y \in Execution : StackOK(engine'[y])
    BY <2>1, <2>3, EngineStepType
  <2>6. QED
    BY <2>4, <2>5, <1>3 DEF TypeInv, Types, Enter
<1>4. CASE /\ Lost(x)
           /\ engine' = [engine EXCEPT
                ![x] = Thrown([e EXCEPT !.steps = step, !.rejected = TRUE])]
           /\ UNCHANGED nodeLog
  <2> DEFINE mid == [e EXCEPT !.steps = step, !.rejected = TRUE]
  <2>1. mid \in Engine
    BY <1>1 DEF Engine
  <2>2. engine' = [engine EXCEPT ![x] = Thrown(mid)]
    BY <1>4
  <2> HIDE DEF mid, e
  <2>3. engine' \in [Execution -> Engine] /\ \A y \in Execution : StackOK(engine'[y])
    BY <2>1, <2>2, ThrownType, EngineStepType
  <2>4. faults' \in 0 .. MaxFaults
    BY <1>4, LostType DEF TypeInv
  <2>5. QED
    BY <2>3, <2>4, <1>4 DEF TypeInv, Types, Enter
<1>5. QED
  BY <1>3, <1>4 DEF Enter

LEMMA RunType ==
  ASSUME TypeInv, NEW x \in Execution, Run(x)
  PROVE  TypeInv'
<1> DEFINE e    == engine[x]
           kind == e.config.kind[Top(e).node]
           next(r) == [Top(e) EXCEPT !.todo = NextEdges(e.config, Top(e).node, r)]
<1>1. e \in Engine /\ e.pc = "run" /\ e.stack # <<>> /\ e.config \in WorkflowConfig
  BY EngineAssumption DEF TypeInv, Types, Run, StackOK, Engine
<1>2. \E new \in Engine : StackOK(new) /\ engine' = [engine EXCEPT ![x] = new]
  <2>1. CASE engine' = [engine EXCEPT ![x].pc = "catch"]
    <3> DEFINE new == [e EXCEPT !.pc = "catch"]
    <3>1. new \in Engine /\ StackOK(new)
      BY <1>1 DEF Engine, StackOK
    <3>2. engine' = [engine EXCEPT ![x] = new]
      BY <2>1
    <3> HIDE DEF new
    <3>3. QED
      BY <3>1, <3>2
  <2>2. CASE \E result \in Results(kind) :
               engine' = [engine EXCEPT
                 ![x] = [Goes(e, next(result)) EXCEPT !.pc = "complete"]]
    <3>1. PICK result : engine' = [engine EXCEPT
                 ![x] = [Goes(e, next(result)) EXCEPT !.pc = "complete"]]
      BY <2>2
    <3>2. Top(e) \in Frame
      BY <1>1, TailType
    <3>3. NextEdges(e.config, Top(e).node, result) \subseteq Edge
      BY <1>1, <3>2, NextEdgesType DEF Frame
    <3> DEFINE call == next(result)
    <3>4. call \in Frame
      BY <3>2, <3>3 DEF Frame
    <3> DEFINE mid == Goes(e, call)
    <3> HIDE DEF call
    <3>5. mid \in Engine /\ mid.stack # <<>> /\ mid.aborted = e.aborted
      BY <1>1, <3>4, GoesType
    <3> HIDE DEF mid
    <3> DEFINE new == [mid EXCEPT !.pc = "complete"]
    <3>6. new \in Engine /\ StackOK(new)
      BY <3>5 DEF Engine, StackOK
    <3>7. engine' = [engine EXCEPT ![x] = new]
      BY <3>1 DEF call, mid
    <3> HIDE DEF new
    <3>8. QED
      BY <3>6, <3>7
  <2>3. QED
    BY <2>1, <2>2 DEF Run
<1>3. engine' \in [Execution -> Engine] /\ \A y \in Execution : StackOK(engine'[y])
  BY <1>2, EngineStepType
<1>4. QED
  BY <1>3 DEF TypeInv, Types, Run

LEMMA UnloggedType ==
  ASSUME TypeInv, NEW x \in Execution, NEW e \in Engine, StackOK(e), Unlogged(x, e),
         UNCHANGED <<workflow, row, nodeLog, dispatch>>
  PROVE  TypeInv'
<1>1. PICK rejected \in BOOLEAN :
        engine' = [engine EXCEPT ![x] = [e EXCEPT !.rejected = rejected]]
  BY DEF Unlogged, Engine
<1> DEFINE new == [e EXCEPT !.rejected = rejected]
<1>2. new \in Engine /\ StackOK(new)
  BY DEF Engine, StackOK
<1>3. engine' = [engine EXCEPT ![x] = new]
  BY <1>1
<1> HIDE DEF new
<1>4. engine' \in [Execution -> Engine] /\ \A y \in Execution : StackOK(engine'[y])
  BY <1>2, <1>3, EngineStepType
<1>5. faults' \in 0 .. MaxFaults
  BY LostType DEF TypeInv, Types, Unlogged
<1>6. QED
  BY <1>4, <1>5 DEF TypeInv, Types

LEMMA CompleteType ==
  ASSUME TypeInv, NEW x \in Execution, Complete(x)
  PROVE  TypeInv'
<1> DEFINE e == engine[x]
<1>1. e \in Engine /\ e.pc = "complete" /\ e.stack # <<>>
  BY DEF TypeInv, Types, Complete, StackOK
<1>2. CASE /\ nodeLog' = [nodeLog EXCEPT ![x][Top(e).step] = "SUCCESS"]
           /\ engine' = [engine EXCEPT
                ![x] = IF e.config.kind[Top(e).node] = "end"
                         THEN Returned([e EXCEPT !.aborted = TRUE])
                         ELSE [e EXCEPT !.pc = "next"]]
           /\ UNCHANGED faults
  <2> DEFINE ended == [e EXCEPT !.aborted = TRUE]
             goes  == [e EXCEPT !.pc = "next"]
             new   == IF e.config.kind[Top(e).node] = "end"
                        THEN Returned(ended) ELSE goes
  <2>1. ended \in Engine /\ ended.stack # <<>> /\ goes \in Engine /\ StackOK(goes)
    BY <1>1 DEF Engine, StackOK
  <2>2. engine' = [engine EXCEPT ![x] = new]
    BY <1>2
  <2> HIDE DEF ended, goes
  <2>3. new \in Engine /\ StackOK(new)
    BY <2>1, ReturnedType
  <2>4. nodeLog' \in [Execution -> [Step -> LogStatus]]
    BY <1>2 DEF TypeInv, Types, LogStatus
  <2> HIDE DEF new, e
  <2>5. engine' \in [Execution -> Engine] /\ \A y \in Execution : StackOK(engine'[y])
    BY <2>2, <2>3, EngineStepType
  <2>6. QED
    BY <2>4, <2>5, <1>2 DEF TypeInv, Types, Complete
<1>3. CASE Unlogged(x, Thrown(e)) /\ UNCHANGED nodeLog
  BY <1>1, <1>3, ThrownType, UnloggedType DEF Complete
<1>4. QED
  BY <1>2, <1>3 DEF Complete

LEMMA FollowEdgeType ==
  ASSUME TypeInv, NEW x \in Execution, FollowEdge(x)
  PROVE  TypeInv'
<1> DEFINE e == engine[x]
<1>1. e \in Engine /\ e.pc = "next" /\ e.stack # <<>>
  BY DEF TypeInv, Types, FollowEdge, StackOK
<1>2. \E new \in Engine : StackOK(new) /\ engine' = [engine EXCEPT ![x] = new]
  <2>1. CASE \E edge \in Top(e).todo :
               engine' = [engine EXCEPT
                 ![x] = [Goes(e, [Top(e) EXCEPT !.todo = Top(e).todo \ {edge}])
                          EXCEPT !.pc = "enter", !.node = edge.target]]
    <3>1. PICK edge \in Top(e).todo :
            engine' = [engine EXCEPT
              ![x] = [Goes(e, [Top(e) EXCEPT !.todo = Top(e).todo \ {edge}])
                       EXCEPT !.pc = "enter", !.node = edge.target]]
      BY <2>1
    <3>2. Top(e) \in Frame
      BY <1>1, TailType
    <3> DEFINE call == [Top(e) EXCEPT !.todo = Top(e).todo \ {edge}]
    <3>3. call \in Frame /\ edge.target \in Node
      BY <3>2 DEF Frame, Edge
    <3> DEFINE mid == Goes(e, call)
    <3> HIDE DEF call
    <3>4. mid \in Engine /\ mid.stack # <<>>
      BY <1>1, <3>3, GoesType
    <3> HIDE DEF mid
    <3> DEFINE new == [mid EXCEPT !.pc = "enter", !.node = edge.target]
    <3>5. new \in Engine /\ StackOK(new)
      BY <3>3, <3>4 DEF Engine, StackOK
    <3>6. engine' = [engine EXCEPT ![x] = new]
      BY <3>1 DEF call, mid
    <3> HIDE DEF new
    <3>7. QED
      BY <3>5, <3>6
  <2>2. CASE engine' = [engine EXCEPT ![x] = Returned(e)]
    BY <1>1, <2>2, ReturnedType
  <2>3. QED
    BY <2>1, <2>2 DEF FollowEdge
<1>3. engine' \in [Execution -> Engine] /\ \A y \in Execution : StackOK(engine'[y])
  BY <1>2, EngineStepType
<1>4. QED
  BY <1>3 DEF TypeInv, Types, FollowEdge

LEMMA CatchType ==
  ASSUME TypeInv, NEW x \in Execution, Catch(x)
  PROVE  TypeInv'
<1> DEFINE e == engine[x]
<1>1. e \in Engine /\ e.stack # <<>>
  BY DEF TypeInv, Types, Catch, StackOK
<1>2. Rethrown(e) \in Engine /\ StackOK(Rethrown(e))
  BY <1>1, RethrownType
<1>3. CASE /\ nodeLog' = [nodeLog EXCEPT ![x][Top(e).step] = "FAILED"]
           /\ engine' = [engine EXCEPT ![x] = Rethrown(e)]
           /\ UNCHANGED faults
  <2>1. engine' \in [Execution -> Engine] /\ \A y \in Execution : StackOK(engine'[y])
    BY <1>2, <1>3, EngineStepType
  <2>2. nodeLog' \in [Execution -> [Step -> LogStatus]]
    BY <1>3 DEF TypeInv, Types, LogStatus
  <2>3. QED
    BY <2>1, <2>2, <1>3 DEF TypeInv, Types, Catch
<1>4. CASE Unlogged(x, Rethrown(e)) /\ UNCHANGED nodeLog
  BY <1>2, <1>4, UnloggedType DEF Catch
<1>5. QED
  BY <1>3, <1>4 DEF Catch

\* The end of an engine.
LEMMA EndType ==
  ASSUME TypeInv, NEW x \in Execution, Succeed(x) \/ Fail(x)
  PROVE  TypeInv'
<1> DEFINE cleanup == [Over EXCEPT !.pc = "cleanup"]
           failed  == [engine[x] EXCEPT !.pc = "failed"]
<1>1. cleanup \in Engine /\ StackOK(cleanup)
  BY NoEngineTypes DEF Engine, StackOK
<1>0. engine[x] \in Engine
  BY DEF TypeInv, Types
<1>2. failed \in Engine /\ StackOK(failed)
  BY <1>0 DEF Engine, StackOK
<1>3. \/ engine' = [engine EXCEPT ![x] = cleanup]
      \/ engine' = [engine EXCEPT ![x] = failed]
      \/ engine' = [engine EXCEPT ![x] = Over]
  BY DEF Succeed, Fail
<1> HIDE DEF cleanup, failed
<1>4. engine' \in [Execution -> Engine] /\ \A y \in Execution : StackOK(engine'[y])
  BY <1>1, <1>2, <1>3, NoEngineTypes, EngineStepType
<1>5. row' \in [Execution -> Row]
  <2>1. \/ UNCHANGED row
        \/ \E status \in {"SUCCESS", "FAILED"} : row' = [row EXCEPT ![x].status = status]
    BY DEF Succeed, Fail
  <2>2. QED
    BY <2>1 DEF TypeInv, Types, Row
<1>6. faults' \in 0 .. MaxFaults
  BY LostType DEF Succeed, Fail, StatusLost, TypeInv, Types
<1>7. QED
  BY <1>4, <1>5, <1>6 DEF TypeInv, Types, Succeed, Fail

LEMMA CleanupType ==
  ASSUME TypeInv, NEW x \in Execution,
         FindOld(x) \/ DeleteLogs(x) \/ DeleteRows(x) \/ CleanupFails(x)
  PROVE  TypeInv'
<1> DEFINE list(n) == [Over EXCEPT !.pc = "logs", !.doomed = BeyondLimit(n)]
           rows == [engine[x] EXCEPT !.pc = "rows"]
<1>1. \A n : list(n) \in Engine /\ StackOK(list(n))
  BY NoEngineTypes DEF Engine, StackOK, BeyondLimit, Live
<1>0. engine[x] \in Engine
  BY DEF TypeInv, Types
<1>2. rows \in Engine /\ StackOK(rows)
  BY <1>0 DEF Engine, StackOK
<1>3. \/ \E n : engine' = [engine EXCEPT ![x] = list(n)]
      \/ engine' = [engine EXCEPT ![x] = rows]
      \/ engine' = [engine EXCEPT ![x] = Over]
  BY DEF FindOld, DeleteLogs, DeleteRows, CleanupFails
<1> HIDE DEF list, rows
<1>4. engine' \in [Execution -> Engine] /\ \A y \in Execution : StackOK(engine'[y])
  BY <1>1, <1>2, <1>3, NoEngineTypes, EngineStepType
<1>5. row' \in [Execution -> Row]
  <2>1. CASE DeleteRows(x)
    <3> SUFFICES ASSUME NEW y \in Execution
                 PROVE  [row[y] EXCEPT !.status = "none"] \in Row /\ row[y] \in Row
      BY <2>1 DEF DeleteRows
    <3>1. QED
      BY DEF TypeInv, Types, Row
  <2>2. QED
    BY <2>1 DEF FindOld, DeleteLogs, CleanupFails, TypeInv, Types
<1>6. nodeLog' \in [Execution -> [Step -> LogStatus]]
  BY NoEngineTypes DEF FindOld, DeleteLogs, DeleteRows, CleanupFails, TypeInv, Types
<1>7. dispatch' \in [Execution -> Dispatch]
  <2>1. CASE DeleteRows(x)
    <3> SUFFICES ASSUME NEW y \in Execution
                 PROVE  /\ [dispatch[y] EXCEPT !.linked = FALSE] \in Dispatch
                        /\ dispatch[y] \in Dispatch
      BY <2>1 DEF DeleteRows
    <3>1. QED
      BY DEF TypeInv, Types, Dispatch
  <2>2. QED
    BY <2>1 DEF FindOld, DeleteLogs, CleanupFails, TypeInv, Types
<1>8. faults' \in 0 .. MaxFaults
  BY LostType DEF FindOld, LimitRead, DeleteLogs, DeleteRows, CleanupFails, TypeInv, Types
<1>9. QED
  BY <1>4, <1>5, <1>6, <1>7, <1>8
     DEF TypeInv, Types, FindOld, DeleteLogs, DeleteRows, CleanupFails

LEMMA EngineStepTypes ==
  ASSUME TypeInv, NEW x \in Execution, EngineStep(x)
  PROVE  TypeInv'
BY BeginType, PassType, EnterType, RunType, CompleteType, FollowEdgeType, CatchType,
   EndType, CleanupType
   DEF EngineStep

\* Before its execution is there, an email has no engine.
IdleInv ==
  \A x \in Execution :
    dispatch[x].pc \in {"off", "send", "read", "create"} => engine[x].pc = "off"

LEMMA EngineIdle ==
  ASSUME TypeInv, IdleInv, NEW x \in Execution, EngineStep(x)
  PROVE  IdleInv'
<1>1. \A y \in Execution : dispatch'[y].pc = dispatch[y].pc
  <2>1. CASE DeleteRows(x)
    <3> SUFFICES ASSUME NEW y \in Execution
                 PROVE  dispatch'[y].pc = dispatch[y].pc
      OBVIOUS
    <3>1. dispatch[y] \in Dispatch
      BY DEF TypeInv, Types
    <3>2. dispatch'[y] = IF y \in engine[x].doomed
                           THEN [dispatch[y] EXCEPT !.linked = FALSE] ELSE dispatch[y]
      BY <2>1 DEF DeleteRows
    <3>3. QED
      BY <3>1, <3>2 DEF Dispatch
  <2>2. QED
    BY <2>1 DEF EngineStep, Begin, Pass, GiveUp, Enter, Run, Complete, FollowEdge,
                Catch, Succeed, Fail, FindOld, DeleteLogs, CleanupFails
<1>2. engine[x].pc # "off"
  BY DEF EngineStep, Begin, Pass, GiveUp, Enter, Run, Complete, FollowEdge,
         Catch, Succeed, Fail, FindOld, DeleteLogs, DeleteRows, CleanupFails
<1>3. \A y \in Execution \ {x} : engine'[y] = engine[y]
  <2>1. \E new : engine' = [engine EXCEPT ![x] = new]
    BY DEF EngineStep, Begin, Pass, GiveUp, Enter, Run, Complete, FollowEdge, Unlogged,
           Catch, Succeed, Fail, FindOld, DeleteLogs, DeleteRows, CleanupFails
  <2>2. QED
    BY <2>1 DEF TypeInv, Types
<1>4. QED
  BY <1>1, <1>2, <1>3 DEF IdleInv

\* A dispatch does a step: that of its email and no other.
LEMMA DispatchStepTypes ==
  ASSUME TypeInv, IdleInv, NEW x \in Execution, ReceiveEmail(x) \/ DispatchStep(x)
  PROVE  TypeInv' /\ IdleInv'
<1>1. engine[x] \in Engine /\ StackOK(engine[x]) /\ dispatch[x] \in Dispatch
  BY DEF TypeInv, Types
<1>2. \E new \in Dispatch : dispatch' = [dispatch EXCEPT ![x] = new]
  <2> DEFINE pc(c) == [dispatch[x] EXCEPT !.pc = c]
             linked == [dispatch[x] EXCEPT !.pc = "over", !.linked = TRUE]
             skipped == [dispatch[x] EXCEPT !.pc = "over", !.skipped = TRUE]
  <2>1. /\ \A c \in {"send", "read", "create", "link", "skip", "over"} : pc(c) \in Dispatch
        /\ linked \in Dispatch /\ skipped \in Dispatch
    BY <1>1 DEF Dispatch
  <2>2. \/ \E c \in {"send", "read", "create", "link", "skip", "over"} :
             dispatch' = [dispatch EXCEPT ![x] = pc(c)]
        \/ dispatch' = [dispatch EXCEPT ![x] = linked]
        \/ dispatch' = [dispatch EXCEPT ![x] = skipped]
    BY DEF ReceiveEmail, DispatchStep, LogDispatch, ReadWorkflow, CreateExecution,
           LinkExecution, LogSkipped
  <2> HIDE DEF pc, linked, skipped
  <2>3. QED
    BY <2>1, <2>2
<1>3. \/ UNCHANGED engine
      \/ ReadWorkflow(x) /\ engine' = [engine EXCEPT ![x].config = workflow.config]
      \/ /\ CreateExecution(x) /\ engine[x].pc = "off"
         /\ engine' = [engine EXCEPT ![x].pc = "begin"]
         /\ dispatch' = [dispatch EXCEPT ![x].pc = "link"]
  BY DEF ReceiveEmail, DispatchStep, LogDispatch, ReadWorkflow, CreateExecution,
         LinkExecution, LogSkipped, IdleInv
<1>4. engine' \in [Execution -> Engine] /\ \A y \in Execution : StackOK(engine'[y])
  <2> DEFINE read  == [engine[x] EXCEPT !.config = workflow.config]
             begin == [engine[x] EXCEPT !.pc = "begin"]
  <2>1. read \in Engine /\ StackOK(read)
    <3>1. workflow.config \in Config
      BY DEF TypeInv, Types, Workflow
    <3>2. QED
      BY <1>1, <3>1 DEF Engine, StackOK
  <2>2. engine[x].pc = "off" => begin \in Engine /\ StackOK(begin)
    BY <1>1 DEF Engine, StackOK
  <2>3. \/ UNCHANGED engine
        \/ engine' = [engine EXCEPT ![x] = read]
        \/ engine[x].pc = "off" /\ engine' = [engine EXCEPT ![x] = begin]
    BY <1>3
  <2> HIDE DEF read, begin
  <2>4. QED
    BY <2>1, <2>2, <2>3, EngineStepType DEF TypeInv, Types
<1>5. row' \in [Execution -> Row]
  <2>1. \/ UNCHANGED row
        \/ \E n \in Nat : row' = [row EXCEPT ![x] = [status |-> "RUNNING", startedAt |-> n]]
    <3> DEFINE started == Cardinality({y \in Execution : row[y].startedAt > 0})
    <3>1. 1 + started \in Nat
      <4>1. started \in Nat
        BY CountType
      <4> HIDE DEF started
      <4>2. QED
        BY <4>1
    <3>2. \/ UNCHANGED row
          \/ row' = [row EXCEPT ![x] = [status |-> "RUNNING", startedAt |-> 1 + started]]
      BY DEF ReceiveEmail, DispatchStep, LogDispatch, ReadWorkflow, CreateExecution,
             LinkExecution, LogSkipped
    <3> HIDE DEF started
    <3>3. QED
      BY <3>1, <3>2
  <2>2. QED
    BY <2>1 DEF TypeInv, Types, Row
<1>6. faults' \in 0 .. MaxFaults
  BY LostType DEF ReceiveEmail, DispatchStep, LogDispatch, ReadWorkflow, CreateExecution,
                  LinkExecution, LogSkipped, TypeInv, Types
<1>7. TypeInv'
  BY <1>2, <1>4, <1>5, <1>6
     DEF TypeInv, Types, ReceiveEmail, DispatchStep, LogDispatch, ReadWorkflow,
         CreateExecution, LinkExecution, LogSkipped
<1>8. IdleInv'
  <2> SUFFICES ASSUME NEW y \in Execution,
                      dispatch'[y].pc \in {"off", "send", "read", "create"}
               PROVE  engine'[y].pc = "off"
    BY DEF IdleInv
  <2>1. dispatch[y].pc \in {"off", "send", "read", "create"}
    <3>1. CASE y = x
      BY <3>1 DEF ReceiveEmail, DispatchStep, LogDispatch, ReadWorkflow, CreateExecution,
                  LinkExecution, LogSkipped, TypeInv, Types, Dispatch
    <3>2. CASE y # x
      BY <3>2, <1>2 DEF TypeInv, Types
    <3>3. QED
      BY <3>1, <3>2
  <2>2. engine[y].pc = "off"
    BY <2>1 DEF IdleInv
  <2>3. ~ (y = x /\ dispatch' = [dispatch EXCEPT ![x].pc = "link"])
    BY <1>1 DEF TypeInv, Types, Dispatch
  <2>4. engine'[y].pc = engine[y].pc
    BY <1>3, <2>3 DEF TypeInv, Types, Engine
  <2>5. QED
    BY <2>2, <2>4
<1>9. QED
  BY <1>7, <1>8

LEMMA RestartTypes ==
  ASSUME TypeInv, IdleInv, Restart
  PROVE  TypeInv' /\ IdleInv'
<1>1. engine' \in [Execution -> Engine] /\ \A y \in Execution : StackOK(engine'[y])
  BY NoEngineTypes DEF Restart, TypeInv, Types
<1>2. \A y \in Execution :
        /\ dispatch[y] \in Dispatch
        /\ [dispatch[y] EXCEPT !.pc = "over"] \in Dispatch
        /\ [dispatch[y] EXCEPT !.pc = "over"].pc = "over"
  BY DEF TypeInv, Types, Dispatch
<1>3. dispatch' \in [Execution -> Dispatch]
  BY <1>2 DEF Restart
<1>4. faults' \in 0 .. MaxFaults
  BY LostType DEF Restart, TypeInv, Types
<1>5. TypeInv'
  BY <1>1, <1>3, <1>4 DEF TypeInv, Types, Restart
<1>6. IdleInv'
  BY <1>2 DEF IdleInv, Restart
<1>7. QED
  BY <1>5, <1>6

LEMMA InitTypes ==
  ASSUME Init
  PROVE  TypeInv /\ IdleInv
<1>1. workflow \in Workflow
  BY DEF Init, Workflow
<1>2. row \in [Execution -> Row] /\ dispatch \in [Execution -> Dispatch]
  BY DEF Init, Row, Dispatch
<1>3. engine \in [Execution -> Engine] /\ nodeLog \in [Execution -> [Step -> LogStatus]]
  BY NoEngineTypes DEF Init
<1>4. \A x \in Execution : StackOK(engine[x])
  BY NoEngineTypes DEF Init
<1>5. faults \in 0 .. MaxFaults
  BY EngineAssumption DEF Init
<1>6. IdleInv
  BY DEF Init, IdleInv, NoEngine
<1>7. QED
  BY <1>1, <1>2, <1>3, <1>4, <1>5, <1>6 DEF TypeInv, Types

LEMMA NextTypes ==
  ASSUME TypeInv, IdleInv, [Next]_vars
  PROVE  TypeInv' /\ IdleInv'
<1>1. CASE PatchWorkflow
  BY <1>1 DEF PatchWorkflow, TypeInv, Types, IdleInv
<1>2. CASE UNCHANGED vars
  BY <1>2 DEF vars, TypeInv, Types, IdleInv
<1>3. CASE \E x \in Execution : ReceiveEmail(x) \/ DispatchStep(x) \/ EngineStep(x)
  BY <1>3, DispatchStepTypes, EngineStepTypes, EngineIdle
<1>4. QED
  BY <1>1, <1>2, <1>3, RestartTypes DEF Next

\* The variables keep their types, the steps of an engine its limit: executeFromNode
\* counts a step before it writes the log row of the node, and never more than maxSteps.
THEOREM TypeCorrect == Spec => []TypeOK
<1> DEFINE Typed == setting \in Setting
<1>1. Init => TypeInv /\ IdleInv /\ Typed
  BY InitTypes DEF Init
<1>2. (TypeInv /\ IdleInv /\ Typed) /\ [Next]_vars => (TypeInv /\ IdleInv /\ Typed)'
  BY NextTypes DEF Next, vars
<1>3. TypeInv /\ Typed => TypeOK
  BY DEF TypeInv, Types, TypeOK
<1>4. QED
  BY <1>1, <1>2, <1>3, PTL DEF Spec

(***************************************************************************)
(* Part two: the status of an execution and its log rows.                  *)
(***************************************************************************)
Good(logs) == \A s \in Step : logs[s] \in {"none", "SUCCESS"}
GoodBut(logs, t) == \A s \in Step \ {t} : logs[s] \in {"none", "SUCCESS"}

\* While the walk goes on, only the innermost call may have a node RUNNING; while
\* an error is on its way out, every call but the innermost has logged it.  That
\* may fail once a statement of the database did.
Agrees(e, status, logs, calm) ==
  /\ e.pc \in {"off", "begin", "enter", "next", "succeed"} => Good(logs)
  /\ e.pc \in {"run", "complete"} => GoodBut(logs, Top(e).step)
  /\ calm /\ status # "none" /\ e.pc = "catch" =>
       \A s \in Step \ {Top(e).step} : logs[s] # "RUNNING"
  /\ calm /\ status # "none" /\ e.pc \in {"failed", "cleanup", "logs", "rows", "over"} =>
       \A s \in Step : logs[s] # "RUNNING"
  /\ status \in {"SUCCESS", "FAILED"} => e.pc \in {"cleanup", "logs", "rows", "over"}
  /\ status = "SUCCESS" => Good(logs)

LogInv ==
  \A x \in Execution : Agrees(engine[x], row[x].status, nodeLog[x], faults = 0)

LEMMA AgreesFrame ==
  ASSUME NEW e, NEW status, NEW logs, NEW calm \in BOOLEAN, Agrees(e, status, logs, calm),
         NEW s \in {status, "none"}, NEW l \in {logs, NoLogs},
         NEW c \in BOOLEAN, c => calm
  PROVE  Agrees(e, s, l, c)
BY DEF Agrees, Good, GoodBut, NoLogs

LEMMA FaultsGrow ==
  ASSUME TypeInv, [Next]_vars
  PROVE  /\ faults \in Nat /\ faults' \in Nat /\ faults' >= faults
         /\ UNCHANGED setting
<1>1. faults \in Nat
  BY EngineAssumption DEF TypeInv, Types
<1>2. faults' = faults \/ faults' = faults + 1
  BY DEF Next, vars, PatchWorkflow, Restart, ReceiveEmail, DispatchStep, LogDispatch,
         ReadWorkflow, CreateExecution, LinkExecution, LogSkipped, EngineStep,
         Begin, Pass, GiveUp, Enter, Run, Complete, FollowEdge, Unlogged, Catch,
         Succeed, Fail, FindOld, LimitRead, DeleteLogs, DeleteRows, CleanupFails,
         StatusLost, Lost, Fails
<1>3. QED
  BY <1>1, <1>2 DEF Next, vars

LEMMA CalmBefore ==
  ASSUME TypeInv, [Next]_vars, faults' = 0
  PROVE  faults = 0
BY FaultsGrow

\* What the step of one engine does to the others.
LEMMA Others ==
  ASSUME TypeInv, NEW x \in Execution, EngineStep(x), NEW y \in Execution, y # x
  PROVE  /\ engine'[y] = engine[y] /\ row'[y].status \in {row[y].status, "none"}
         /\ nodeLog'[y] \in {nodeLog[y], NoLogs}
<1>1. engine'[y] = engine[y]
  <2>1. \E new : engine' = [engine EXCEPT ![x] = new]
    BY DEF EngineStep, Begin, Pass, GiveUp, Enter, Run, Complete, FollowEdge, Unlogged,
           Catch, Succeed, Fail, FindOld, DeleteLogs, DeleteRows, CleanupFails
  <2>2. QED
    BY <2>1 DEF TypeInv, Types
<1>2. row'[y].status \in {row[y].status, "none"}
  <2>1. CASE DeleteRows(x)
    <3>1. row'[y] = IF y \in engine[x].doomed THEN [row[y] EXCEPT !.status = "none"]
                                              ELSE row[y]
      BY <2>1 DEF DeleteRows
    <3>2. row[y] \in Row
      BY DEF TypeInv, Types
    <3>3. QED
      BY <3>1, <3>2 DEF Row
  <2>2. CASE \E new : row' = [row EXCEPT ![x] = new]
    BY <2>2 DEF TypeInv, Types
  <2>3. CASE UNCHANGED row
    BY <2>3
  <2>4. QED
    BY <2>1, <2>2, <2>3
       DEF EngineStep, Begin, Pass, GiveUp, Enter, Run, Complete, FollowEdge,
           Catch, Succeed, Fail, FindOld, DeleteLogs, CleanupFails
<1>3. nodeLog'[y] \in {nodeLog[y], NoLogs}
  <2>1. CASE DeleteRows(x) \/ DeleteLogs(x)
    BY <2>1 DEF DeleteRows, DeleteLogs
  <2>2. CASE \E new : nodeLog' = [nodeLog EXCEPT ![x] = new]
    BY <2>2 DEF TypeInv, Types
  <2>3. CASE UNCHANGED nodeLog
    BY <2>3
  <2>4. QED
    BY <2>1, <2>2, <2>3
       DEF EngineStep, Begin, Pass, GiveUp, Enter, Run, Complete, FollowEdge,
           Catch, Succeed, Fail, FindOld, CleanupFails
<1>4. QED
  BY <1>1, <1>2, <1>3

\* With good log rows it does not matter how far the walk is.
LEMMA GoodAgrees ==
  ASSUME NEW e, NEW status, NEW logs, NEW calm \in BOOLEAN, Good(logs),
         status \in {"SUCCESS", "FAILED"} => e.pc \in {"cleanup", "logs", "rows", "over"}
  PROVE  Agrees(e, status, logs, calm)
BY DEF Agrees, Good, GoodBut

LEMMA ThrownAgrees ==
  ASSUME NEW e \in Engine, NEW status, NEW logs, NEW calm \in BOOLEAN,
         status \notin {"SUCCESS", "FAILED"},
         calm /\ status # "none" => \A s \in Step : logs[s] # "RUNNING"
  PROVE  Agrees(Thrown(e), status, logs, calm)
<1>1. Thrown(e).pc \in {"catch", "failed"}
  BY DEF Thrown, Engine
<1>2. QED
  BY <1>1 DEF Agrees

\* A step of the engine of x, seen from x.
AgreesNext(x) == Agrees(engine'[x], row'[x].status, nodeLog'[x], faults' = 0)

LEMMA StepsOnGood ==
  ASSUME TypeInv, LogInv, NEW x \in Execution,
         Begin(x) \/ Pass(x) \/ GiveUp(x) \/ FollowEdge(x) \/ Succeed(x)
  PROVE  AgreesNext(x)
<1>1. engine[x].pc \in {"begin", "enter", "next", "succeed"}
  BY DEF Begin, Pass, GiveUp, FollowEdge, Succeed
<1>2. Good(nodeLog[x]) /\ row[x].status \notin {"SUCCESS", "FAILED"}
  BY <1>1 DEF LogInv, Agrees
<1>3. nodeLog' = nodeLog
  BY DEF Begin, Pass, GiveUp, FollowEdge, Succeed
<1>4. row'[x].status \in {"SUCCESS", "FAILED"} => engine'[x].pc = "cleanup"
  <2>1. CASE Succeed(x)
    <3>1. [Over EXCEPT !.pc = "cleanup"].pc = "cleanup"
      BY NoEngineTypes DEF Engine
    <3>2. QED
      BY <1>2, <2>1, <3>1 DEF Succeed, TypeInv, Types
  <2>2. CASE Begin(x) \/ Pass(x) \/ GiveUp(x) \/ FollowEdge(x)
    <3>1. UNCHANGED row \/ row' = [row EXCEPT ![x].status = "RUNNING"]
      BY <2>2 DEF Begin, Pass, GiveUp, FollowEdge
    <3>2. QED
      BY <1>2, <3>1 DEF TypeInv, Types, Row
  <2>3. QED
    BY <2>1, <2>2
<1>5. QED
  BY <1>2, <1>3, <1>4, GoodAgrees DEF AgreesNext

LEMMA EnterAgrees ==
  ASSUME TypeInv, LogInv, NEW x \in Execution, Enter(x)
  PROVE  AgreesNext(x)
<1> DEFINE e    == engine[x]
           step == e.steps + 1
           call == [node |-> e.node, step |-> step, todo |-> {}]
<1>1. Good(nodeLog[x]) /\ row[x].status \notin {"SUCCESS", "FAILED"} /\ row' = row
  BY DEF Enter, LogInv, Agrees
<1>2. e \in Engine /\ e.steps \in Nat
  BY DEF TypeInv, Types, Engine
<1>3. CASE /\ nodeLog' = [nodeLog EXCEPT ![x][step] = "RUNNING"]
           /\ engine' = [engine EXCEPT
                ![x] = [e EXCEPT !.pc = "run", !.steps = step,
                                 !.stack = <<call>> \o e.stack]]
  <2>1. e.steps + 1 \in Step
    BY <1>2, EngineAssumption DEF Enter, WithinSteps, Step
  <2>2. call \in Frame
    BY <1>2, <2>1 DEF Frame, Engine
  <2>3. e.stack \in Seq(Frame)
    BY <1>2 DEF Engine
  <2> DEFINE stack == <<call>> \o e.stack
             new == [e EXCEPT !.pc = "run", !.steps = step, !.stack = stack]
  <2>4. Head(stack) = call
    <3> HIDE DEF call, e
    <3>1. QED
      BY <2>2, <2>3, CallTypes
  <2>5. engine'[x] = new
    BY <1>3 DEF TypeInv, Types
  <2> HIDE DEF stack
  <2>6. new.pc = "run" /\ Top(new).step = step
    BY <1>2, <2>4 DEF Top, Engine
  <2>7. GoodBut(nodeLog'[x], step)
    BY <1>1, <1>3 DEF Good, GoodBut, TypeInv, Types
  <2> HIDE DEF new, step
  <2>8. QED
    BY <1>1, <2>5, <2>6, <2>7 DEF AgreesNext, Agrees
<1>4. CASE /\ engine' = [engine EXCEPT
                ![x] = Thrown([e EXCEPT !.steps = step, !.rejected = TRUE])]
           /\ UNCHANGED nodeLog
  BY <1>1, <1>4, GoodAgrees DEF AgreesNext
<1>5. QED
  BY <1>3, <1>4 DEF Enter

LEMMA RunAgrees ==
  ASSUME TypeInv, LogInv, NEW x \in Execution, Run(x)
  PROVE  AgreesNext(x)
<1> DEFINE e    == engine[x]
           next(r) == [Top(e) EXCEPT !.todo = NextEdges(e.config, Top(e).node, r)]
<1>1. e \in Engine /\ e.stack # <<>> /\ e.config \in WorkflowConfig
  BY EngineAssumption DEF TypeInv, Types, Run, StackOK, Engine
<1>2. /\ GoodBut(nodeLog[x], Top(e).step) /\ row[x].status \notin {"SUCCESS", "FAILED"}
      /\ row' = row /\ nodeLog' = nodeLog
  BY DEF Run, LogInv, Agrees
<1>3. engine'[x].pc \in {"catch", "complete"} /\ Top(engine'[x]).step = Top(e).step
  <2>1. CASE engine' = [engine EXCEPT ![x].pc = "catch"]
    BY <1>1, <2>1 DEF TypeInv, Types, Engine, Top
  <2>2. CASE \E result :
               engine' = [engine EXCEPT
                 ![x] = [Goes(e, next(result)) EXCEPT !.pc = "complete"]]
    <3>1. PICK result : engine' = [engine EXCEPT
                 ![x] = [Goes(e, next(result)) EXCEPT !.pc = "complete"]]
      BY <2>2
    <3>2. Top(e) \in Frame
      BY <1>1, TailType
    <3>3. NextEdges(e.config, Top(e).node, result) \subseteq Edge
      BY <1>1, <3>2, NextEdgesType DEF Frame
    <3> DEFINE call == next(result)
    <3>4. call \in Frame /\ call.step = Top(e).step
      BY <3>2, <3>3 DEF Frame
    <3> DEFINE mid == Goes(e, call)
               new == [mid EXCEPT !.pc = "complete"]
    <3>5. engine'[x] = new
      BY <3>1 DEF TypeInv, Types
    <3> HIDE DEF call
    <3>6. mid \in Engine /\ Top(mid) = call
      BY <1>1, <3>4, GoesType
    <3> HIDE DEF mid
    <3>7. new.pc = "complete" /\ Top(new) = call
      BY <3>6 DEF Engine, Top
    <3> HIDE DEF new
    <3>8. QED
      BY <3>4, <3>5, <3>7
  <2>3. QED
    BY <2>1, <2>2 DEF Run
<1>4. QED
  BY <1>2, <1>3 DEF AgreesNext, Agrees, GoodBut

\* The exception that a lost update throws leaves the log rows as they are; unless
\* that of the node is deleted, a statement of the database failed.
LEMMA UnloggedAgrees ==
  ASSUME TypeInv, NEW x \in Execution, NEW e \in Engine, Unlogged(x, e),
         UNCHANGED <<row, nodeLog>>, row[x].status \notin {"SUCCESS", "FAILED"},
         faults' = 0 /\ row[x].status # "none" =>
           \A s \in Step \ {Top(engine[x]).step} : nodeLog[x][s] # "RUNNING",
         e.pc \in {"catch", "failed"}
  PROVE  AgreesNext(x)
<1>1. PICK rejected : engine' = [engine EXCEPT ![x] = [e EXCEPT !.rejected = rejected]]
  BY DEF Unlogged
<1>2. engine'[x] = [e EXCEPT !.rejected = rejected]
  BY <1>1 DEF TypeInv, Types
<1>3. engine'[x].pc \in {"catch", "failed"}
  BY <1>2 DEF Engine
<1>4. faults' = 0 => ~ HasLog(x)
  <2>1. faults \in Nat
    BY EngineAssumption DEF TypeInv, Types
  <2>2. QED
    BY <2>1 DEF Unlogged, Fails
<1>5. faults' = 0 /\ row'[x].status # "none" => \A s \in Step : nodeLog'[x][s] # "RUNNING"
  BY <1>4 DEF HasLog
<1>6. QED
  BY <1>3, <1>5 DEF AgreesNext, Agrees

LEMMA CompleteAgrees ==
  ASSUME TypeInv, LogInv, NEW x \in Execution, Complete(x)
  PROVE  AgreesNext(x)
<1> DEFINE e == engine[x]
<1>1. e \in Engine
  BY DEF TypeInv, Types
<1>2. GoodBut(nodeLog[x], Top(e).step) /\ row[x].status \notin {"SUCCESS", "FAILED"}
  BY DEF Complete, LogInv, Agrees
<1>3. CASE nodeLog' = [nodeLog EXCEPT ![x][Top(e).step] = "SUCCESS"]
  <2>1. Good(nodeLog'[x])
    BY <1>2, <1>3 DEF Good, GoodBut, TypeInv, Types
  <2>2. QED
    BY <1>2, <2>1, GoodAgrees DEF AgreesNext, Complete
<1>4. CASE Unlogged(x, Thrown(e)) /\ UNCHANGED nodeLog
  <2>1. Thrown(e) \in Engine
    BY <1>1, ThrownType
  <2>2. Thrown(e).pc \in {"catch", "failed"}
    BY <1>1 DEF Thrown, Engine
  <2>3. \A s \in Step \ {Top(e).step} : nodeLog[x][s] # "RUNNING"
    BY <1>2 DEF GoodBut
  <2>4. QED
    BY <1>2, <1>4, <2>1, <2>2, <2>3, UnloggedAgrees DEF Complete
<1>5. QED
  BY <1>3, <1>4 DEF Complete

LEMMA CatchAgrees ==
  ASSUME TypeInv, LogInv, [Next]_vars, NEW x \in Execution, Catch(x)
  PROVE  AgreesNext(x)
<1> DEFINE e == engine[x]
           popped == [e EXCEPT !.stack = Tail(e.stack)]
<1>1. e \in Engine /\ e.stack # <<>> /\ e.pc = "catch"
  BY DEF TypeInv, Types, Catch, StackOK
<1>2. /\ row[x].status \notin {"SUCCESS", "FAILED"} /\ row' = row
      /\ faults = 0 /\ row[x].status # "none" =>
           \A s \in Step \ {Top(e).step} : nodeLog[x][s] # "RUNNING"
  BY <1>1 DEF Catch, LogInv, Agrees
<1>3. popped \in Engine /\ Rethrown(e) = Thrown(popped)
  BY <1>1, TailType DEF Rethrown
<1>4. CASE /\ nodeLog' = [nodeLog EXCEPT ![x][Top(e).step] = "FAILED"]
           /\ engine' = [engine EXCEPT ![x] = Rethrown(e)]
  <2>1. faults' = 0 => faults = 0
    BY CalmBefore
  <2>2. faults' = 0 /\ row'[x].status # "none" =>
          \A s \in Step : nodeLog'[x][s] # "RUNNING"
    BY <1>2, <1>4, <2>1 DEF TypeInv, Types
  <2>3. engine'[x] = Thrown(popped)
    BY <1>3, <1>4 DEF TypeInv, Types
  <2>4. (faults' = 0) \in BOOLEAN
    OBVIOUS
  <2> HIDE DEF popped
  <2>5. QED
    BY <1>2, <1>3, <2>2, <2>3, <2>4, ThrownAgrees DEF AgreesNext
<1>5. CASE Unlogged(x, Rethrown(e)) /\ UNCHANGED nodeLog
  <2>1. Rethrown(e).pc \in {"catch", "failed"}
    <3> HIDE DEF popped
    <3>1. Thrown(popped).pc \in {"catch", "failed"}
      BY <1>3 DEF Thrown, Engine
    <3>2. QED
      BY <1>3, <3>1
  <2>2. Rethrown(e) \in Engine
    BY <1>1, RethrownType
  <2>3. faults' = 0 => faults = 0
    BY CalmBefore
  <2>4. QED
    BY <1>2, <1>5, <2>1, <2>2, <2>3, UnloggedAgrees
<1>6. QED
  BY <1>4, <1>5 DEF Catch

LEMMA EndAgrees ==
  ASSUME TypeInv, LogInv, [Next]_vars, NEW x \in Execution,
         Fail(x) \/ FindOld(x) \/ DeleteLogs(x) \/ DeleteRows(x) \/ CleanupFails(x)
  PROVE  AgreesNext(x)
<1> DEFINE ends == {"cleanup", "logs", "rows", "over"}
<1>1. /\ engine[x].pc \in {"failed"} \union ends
      /\ faults = 0 /\ row[x].status # "none" =>
           \A s \in Step : nodeLog[x][s] # "RUNNING"
      /\ row[x].status = "SUCCESS" => Good(nodeLog[x])
  BY DEF Fail, FindOld, DeleteLogs, DeleteRows, CleanupFails, LogInv, Agrees
<1>2. engine'[x].pc \in ends
  <2>1. /\ [Over EXCEPT !.pc = "cleanup"].pc = "cleanup" /\ Over.pc = "over"
        /\ \A n : [Over EXCEPT !.pc = "logs", !.doomed = BeyondLimit(n)].pc = "logs"
        /\ [engine[x] EXCEPT !.pc = "rows"].pc = "rows"
    BY DEF Over, NoEngine, TypeInv, Types, Engine
  <2>2. \/ engine'[x] = [Over EXCEPT !.pc = "cleanup"]
        \/ \E n : engine'[x] = [Over EXCEPT !.pc = "logs", !.doomed = BeyondLimit(n)]
        \/ engine'[x] = [engine[x] EXCEPT !.pc = "rows"]
        \/ engine'[x] = Over
    BY DEF Fail, FindOld, DeleteLogs, DeleteRows, CleanupFails, TypeInv, Types
  <2>3. QED
    BY <2>1, <2>2
<1>3. /\ row'[x].status \in {row[x].status, "none", "FAILED"}
      /\ row'[x].status # row[x].status /\ row'[x].status = "FAILED" => row[x].status # "none"
  <2>1. CASE Fail(x)
    BY <2>1 DEF Fail, Live, TypeInv, Types, Row
  <2>2. CASE DeleteRows(x)
    BY <2>2 DEF DeleteRows, TypeInv, Types, Row
  <2>3. QED
    BY <2>1, <2>2 DEF FindOld, DeleteLogs, CleanupFails
<1>4. nodeLog'[x] \in {nodeLog[x], NoLogs}
  BY DEF Fail, FindOld, DeleteLogs, DeleteRows, CleanupFails
<1>5. faults' = 0 => faults = 0
  BY CalmBefore
<1>6. Good(NoLogs) /\ \A s \in Step : NoLogs[s] # "RUNNING"
  BY DEF Good, NoLogs
<1>7. QED
  BY <1>1, <1>2, <1>3, <1>4, <1>5, <1>6 DEF AgreesNext, Agrees

LEMMA EngineStepAgrees ==
  ASSUME TypeInv, LogInv, [Next]_vars, NEW x \in Execution, EngineStep(x)
  PROVE  LogInv'
<1> SUFFICES ASSUME NEW y \in Execution
             PROVE  Agrees(engine'[y], row'[y].status, nodeLog'[y], faults' = 0)
  BY DEF LogInv, Agrees, Good, GoodBut, Top
<1>1. CASE y = x
  <2>1. AgreesNext(x)
    BY StepsOnGood, EnterAgrees, RunAgrees, CompleteAgrees, CatchAgrees, EndAgrees
       DEF EngineStep
  <2>2. QED
    BY <1>1, <2>1 DEF AgreesNext
<1>2. CASE y # x
  <2>1. /\ engine'[y] = engine[y] /\ row'[y].status \in {row[y].status, "none"}
        /\ nodeLog'[y] \in {nodeLog[y], NoLogs}
    BY <1>2, Others
  <2>2. faults' = 0 => faults = 0
    BY CalmBefore
  <2>3. Agrees(engine[y], row[y].status, nodeLog[y], faults = 0)
    BY DEF LogInv
  <2> DEFINE calm == faults = 0
             c    == faults' = 0
  <2>4. c \in BOOLEAN /\ calm \in BOOLEAN /\ (c => calm)
    BY <2>2
  <2>5. Agrees(engine[y], row[y].status, nodeLog[y], calm)
    BY <2>3
  <2> HIDE DEF calm, c
  <2>6. Agrees(engine[y], row'[y].status, nodeLog'[y], c)
    BY <2>1, <2>4, <2>5, AgreesFrame
  <2>7. QED
    BY <2>1, <2>6 DEF c
<1>3. QED
  BY <1>1, <1>2

\* Until its engine begins, an execution has no log rows that could disagree.
LEMMA DispatchStepAgrees ==
  ASSUME TypeInv, IdleInv, LogInv, [Next]_vars, NEW x \in Execution,
         ReceiveEmail(x) \/ DispatchStep(x)
  PROVE  LogInv'
<1> SUFFICES ASSUME NEW y \in Execution
             PROVE  Agrees(engine'[y], row'[y].status, nodeLog'[y], faults' = 0)
  BY DEF LogInv, Agrees, Good, GoodBut, Top
<1>1. Agrees(engine[y], row[y].status, nodeLog[y], faults = 0)
  BY DEF LogInv
<1>2. faults' = 0 => faults = 0
  BY CalmBefore
<1>3. nodeLog' = nodeLog
  BY DEF ReceiveEmail, DispatchStep, LogDispatch, ReadWorkflow, CreateExecution,
         LinkExecution, LogSkipped
<1>4. CASE CreateExecution(x) /\ engine' # engine /\ y = x
  <2>1. engine[x].pc = "off"
    BY <1>4 DEF CreateExecution, IdleInv
  <2>2. Good(nodeLog[x])
    BY <1>1, <1>4, <2>1 DEF Agrees
  <2>3. row'[x].status = "RUNNING"
    BY <1>4 DEF CreateExecution, TypeInv, Types
  <2>4. QED
    BY <1>3, <1>4, <2>2, <2>3, GoodAgrees
<1>5. CASE ~ (CreateExecution(x) /\ engine' # engine /\ y = x)
  <2>1. row'[y] = row[y]
    BY <1>5 DEF ReceiveEmail, DispatchStep, LogDispatch, ReadWorkflow, CreateExecution,
                LinkExecution, LogSkipped, TypeInv, Types, Engine, IdleInv
  <2>2. engine'[y].pc = engine[y].pc /\ engine'[y].stack = engine[y].stack
    BY <1>5 DEF ReceiveEmail, DispatchStep, LogDispatch, ReadWorkflow, CreateExecution,
                LinkExecution, LogSkipped, TypeInv, Types, Engine
  <2>3. QED
    BY <1>1, <1>2, <1>3, <2>1, <2>2 DEF Agrees, Top
<1>6. QED
  BY <1>4, <1>5

LEMMA RestartAgrees ==
  ASSUME TypeInv, LogInv, Restart
  PROVE  LogInv'
<1> SUFFICES ASSUME NEW y \in Execution
             PROVE  Agrees(engine'[y], row'[y].status, nodeLog'[y], faults' = 0)
  BY DEF LogInv, Agrees, Good, GoodBut, Top
<1>1. Agrees(engine[y], row[y].status, nodeLog[y], faults = 0)
  BY DEF LogInv
<1>2. faults' # 0 /\ row' = row /\ nodeLog' = nodeLog
  BY EngineAssumption DEF Restart, Fails, TypeInv, Types
<1>3. engine'[y] = engine[y] \/ engine'[y].pc = "over"
  BY DEF Restart, Over, NoEngine
<1>4. QED
  BY <1>1, <1>2, <1>3 DEF Agrees

LEMMA NextAgrees ==
  ASSUME TypeInv, IdleInv, LogInv, [Next]_vars
  PROVE  LogInv'
<1>1. CASE PatchWorkflow \/ UNCHANGED vars
  BY <1>1 DEF PatchWorkflow, vars, LogInv, Agrees, Good, GoodBut, Top
<1>2. CASE Restart
  BY <1>2, RestartAgrees
<1>3. CASE \E x \in Execution : ReceiveEmail(x) \/ DispatchStep(x)
  BY <1>3, DispatchStepAgrees
<1>4. CASE \E x \in Execution : EngineStep(x)
  BY <1>4, EngineStepAgrees
<1>5. QED
  BY <1>1, <1>2, <1>3, <1>4 DEF Next

\* An execution is SUCCESS only if every node that it entered succeeded, and FAILED
\* leaves no node RUNNING unless a statement of the database failed: whatever the
\* graph, the errors on their way through the catches of executeFromNode, and the
\* cleanups that other engines do meanwhile.
THEOREM StatusAgreesAlways == Spec => []StatusAgrees
<1>1. Init => TypeInv /\ IdleInv /\ LogInv
  <2> SUFFICES ASSUME Init PROVE LogInv
    BY InitTypes
  <2>1. QED
    BY DEF Init, LogInv, Agrees, Good, NoEngine, NoLogs
<1>2. (TypeInv /\ IdleInv /\ LogInv) /\ [Next]_vars => (TypeInv /\ IdleInv /\ LogInv)'
  BY NextTypes, NextAgrees
<1>3. LogInv => StatusAgrees
  BY DEF LogInv, StatusAgrees, Agrees, Good
<1>4. QED
  BY <1>1, <1>2, <1>3, PTL DEF Spec

(***************************************************************************)
(* Part three: the cleanups.  Each deletes by a list that it read earlier, *)
(* while the others delete as well.                                        *)
(***************************************************************************)
DoomedInv ==
  /\ setting \in Setting
  /\ \A x \in Execution : engine[x].pc = "off" => x \notin Live
  /\ \A x \in Execution : engine[x].pc \in {"logs", "rows"} =>
       \A y \in engine[x].doomed :
         /\ engine[y].pc # "off"
         /\ y \in Live => Cardinality(Newer(y)) >= LeastLimit

\* The least limit may only fall.
LeastFalls == LeastLimit \in Nat /\ LeastLimit' \in Nat /\ LeastLimit' <= LeastLimit

LEMMA LeastStep ==
  ASSUME TypeInv, setting \in Setting, [Next]_vars
  PROVE  LeastFalls
<1>1. /\ faults \in Nat /\ faults' \in Nat /\ faults' >= faults
      /\ setting' = setting
  BY FaultsGrow
<1>2. setting \in Nat /\ DefaultLogs \in Nat
  BY EngineAssumption
<1>3. QED
  BY <1>1, <1>2 DEF LeastFalls, LeastLimit

\* Of the executions that are deleted with one that is newer than y, take one that
\* fewest are newer than: these are not deleted, and they are newer than y too.
LEMMA EnoughStay ==
  ASSUME TypeInv, NEW doomed \in SUBSET Execution, NEW y \in Live,
         NEW n \in Nat, Cardinality(Newer(y)) >= n,
         \A z \in doomed \intersect Live : Cardinality(Newer(z)) >= n
  PROVE  Cardinality(Newer(y) \ doomed) >= n
<1>1. \A z : Newer(z) \subseteq Execution
  BY DEF Newer, Live
<1>2. CASE Newer(y) \intersect doomed = {}
  <2>1. Newer(y) \ doomed = Newer(y)
    BY <1>2
  <2>2. QED
    BY <2>1
<1>3. CASE Newer(y) \intersect doomed # {}
  <2> DEFINE R == StrictSubsetOrdering(Execution)
             S == FiniteSubsetsOf(Execution)
             T == {Newer(z) : z \in Newer(y) \intersect doomed}
  <2>1. IsWellFoundedOn(R, S)
    BY FS_StrictSubsetOrderingWellFounded
  <2>2. T \subseteq S /\ T # {}
    BY <1>1, <1>3, CountType DEF FiniteSubsetsOf
  <2>3. \E m \in T : \A k \in T : <<k, m>> \notin R
    <3> HIDE DEF R, S, T
    <3>1. QED
      BY <2>1, <2>2, WFMin
  <2>4. PICK z \in Newer(y) \intersect doomed :
          \A w \in Newer(y) \intersect doomed : <<Newer(w), Newer(z)>> \notin R
    BY <2>3
  <2>5. /\ \A w \in Execution : row[w].startedAt \in Nat
        /\ y \in Execution /\ z \in Live /\ Live \subseteq Execution
        /\ row[z].startedAt > row[y].startedAt
    BY <2>4 DEF TypeInv, Types, Row, Newer, Live
  <2>6. Newer(z) \subseteq Newer(y)
    BY <2>5 DEF Newer
  <2>7. Newer(z) \intersect doomed = {}
    <3> SUFFICES ASSUME NEW w \in Newer(z) \intersect doomed
                 PROVE  FALSE
      OBVIOUS
    <3>1. w \in Live /\ row[w].startedAt > row[z].startedAt
      BY DEF Newer
    <3>2. Newer(w) \subseteq Newer(z) /\ w \in Newer(z) /\ w \notin Newer(w)
      BY <2>5, <3>1 DEF Newer
    <3>3. <<Newer(w), Newer(z)>> \in R
      BY <1>1, <3>2 DEF StrictSubsetOrdering
    <3>4. QED
      BY <2>4, <2>6, <3>3
  <2>8. Newer(z) \subseteq Newer(y) \ doomed
    BY <2>6, <2>7
  <2>9. Cardinality(Newer(z)) <= Cardinality(Newer(y) \ doomed)
    BY <1>1, <2>8, CountType, FS_Subset
  <2>10. Cardinality(Newer(z)) \in Nat /\ Cardinality(Newer(y) \ doomed) \in Nat
    BY <1>1, CountType
  <2>11. Cardinality(Newer(z)) >= n
    BY <2>4, <2>5
  <2>12. QED
    BY <2>9, <2>10, <2>11, EngineAssumption
<1>4. QED
  BY <1>2, <1>3

\* Only DeleteRows deletes an execution, and only CreateExecution adds one.
LEMMA RowsKept ==
  ASSUME TypeInv,
         \/ UNCHANGED row
         \/ \E x \in Execution, status \in {"RUNNING", "SUCCESS", "FAILED"} :
              x \in Live /\ row' = [row EXCEPT ![x].status = status]
  PROVE  Live' = Live /\ \A y \in Execution : Newer(y)' = Newer(y)
<1>1. CASE UNCHANGED row
  BY <1>1 DEF Live, Newer
<1>2. CASE \E x \in Execution, status \in {"RUNNING", "SUCCESS", "FAILED"} :
             x \in Live /\ row' = [row EXCEPT ![x].status = status]
  <2>1. PICK x \in Execution, status \in {"RUNNING", "SUCCESS", "FAILED"} :
          x \in Live /\ row' = [row EXCEPT ![x].status = status]
    BY <1>2
  <2>2. \A y \in Execution : /\ row'[y].startedAt = row[y].startedAt
                             /\ row'[y].status = "none" <=> row[y].status = "none"
    BY <2>1 DEF TypeInv, Types, Row, Live
  <2>3. Live' = Live
    BY <2>2 DEF Live
  <2>4. Live \subseteq Execution
    BY DEF Live
  <2>5. \A y \in Execution : Newer(y)' = Newer(y)
    BY <2>2, <2>3, <2>4 DEF Newer
  <2>6. QED
    BY <2>3, <2>5
<1>3. QED
  BY <1>1, <1>2

\* The walk and the end of an engine do not touch a list of executions to delete.
LEMMA PcOfStep ==
  ASSUME TypeInv, NEW x \in Execution, EngineStep(x), ~ FindOld(x), ~ DeleteLogs(x)
  PROVE  engine'[x].pc \notin {"off", "logs", "rows"}
<1> DEFINE e == engine[x]
           calm(m) == m.pc \notin {"off", "logs", "rows"}
<1>1. e \in Engine /\ engine \in [Execution -> Engine]
  BY DEF TypeInv, Types
<1>2. ASSUME NEW m \in Engine
      PROVE  calm(Thrown(m)) /\ calm(Returned(m)) /\ calm([m EXCEPT !.pc = "complete"])
  BY DEF Thrown, Returned, Engine
<1>3. CASE Begin(x)
  BY <1>1, <1>3 DEF Begin, Engine
<1>4. CASE Pass(x) \/ GiveUp(x)
  BY <1>1, <1>2, <1>4 DEF Pass, GiveUp, Engine
<1>5. CASE Enter(x)
  <2> DEFINE step == e.steps + 1
             stack == <<[node |-> e.node, step |-> step, todo |-> {}]>> \o e.stack
             goes == [e EXCEPT !.pc = "run", !.steps = step, !.stack = stack]
             mid  == [e EXCEPT !.steps = step, !.rejected = TRUE]
  <2>1. engine'[x] = goes \/ engine'[x] = Thrown(mid)
    BY <1>1, <1>5 DEF Enter
  <2>2. step \in 0 .. MaxSteps
    <3>1. e.steps \in Nat /\ e.steps < MaxSteps
      BY <1>1, <1>5 DEF Enter, WithinSteps, Engine
    <3>2. QED
      BY <3>1, EngineAssumption
  <2> HIDE DEF stack, step
  <2>3. goes.pc = "run" /\ mid \in Engine
    BY <1>1, <2>2 DEF Engine
  <2> HIDE DEF goes, mid
  <2>4. QED
    BY <1>2, <2>1, <2>3
<1>6. CASE Run(x)
  <2>1. engine[x] \in Engine /\ e.pc = "run" /\ e.stack # <<>>
    BY <1>1, <1>6 DEF Run, TypeInv, StackOK
  <2>2. engine'[x].pc \in {"catch", "complete"}
    <3>1. CASE engine' = [engine EXCEPT ![x].pc = "catch"]
      BY <1>1, <3>1 DEF Engine
    <3>2. CASE \E call : engine' = [engine EXCEPT
                 ![x] = [Goes(e, call) EXCEPT !.pc = "complete"]]
      <4>1. PICK call : engine' = [engine EXCEPT
                 ![x] = [Goes(e, call) EXCEPT !.pc = "complete"]]
        BY <3>2
      <4>2. "pc" \in DOMAIN Goes(e, call)
        BY <1>1 DEF Goes, Engine
      <4> DEFINE mid == Goes(e, call)
                 new == [mid EXCEPT !.pc = "complete"]
      <4>3. engine'[x] = new
        BY <1>1, <4>1
      <4> HIDE DEF mid
      <4>4. new.pc = "complete"
        BY <4>2 DEF mid
      <4> HIDE DEF new
      <4>5. QED
        BY <4>3, <4>4
    <3>3. QED
      BY <1>6, <3>1, <3>2 DEF Run
  <2>3. QED
    BY <2>2
<1>7. CASE Complete(x) \/ Catch(x)
  <2>1. e.stack # <<>>
    BY <1>7 DEF TypeInv, StackOK, Complete, Catch
  <2> DEFINE ended  == [e EXCEPT !.aborted = TRUE]
             goes   == [e EXCEPT !.pc = "next"]
             popped == [e EXCEPT !.stack = Tail(e.stack)]
  <2>2. ended \in Engine /\ popped \in Engine /\ goes.pc = "next"
    BY <1>1, <2>1, TailType DEF Engine
  <2>3. \/ engine'[x] \in {Returned(ended), goes, Thrown(popped)}
        \/ \E r : \/ engine'[x] = [Thrown(e) EXCEPT !.rejected = r]
                  \/ engine'[x] = [Thrown(popped) EXCEPT !.rejected = r]
    BY <1>1, <1>7 DEF Complete, Catch, Unlogged, Rethrown
  <2> HIDE DEF ended, goes, popped
  <2>4. ASSUME NEW m \in Engine, NEW r
        PROVE  [Thrown(m) EXCEPT !.rejected = r].pc = Thrown(m).pc
    BY DEF Thrown, Engine
  <2>5. CASE engine'[x] \in {Returned(ended), goes, Thrown(popped)}
    BY <1>2, <2>2, <2>5
  <2>6. CASE \E m \in {e, popped} : \E r :
               engine'[x] = [Thrown(m) EXCEPT !.rejected = r]
    <3>1. PICK m \in {e, popped} : \E r :
            engine'[x] = [Thrown(m) EXCEPT !.rejected = r]
      BY <2>6
    <3>2. m \in Engine
      BY <1>1, <2>2
    <3>3. engine'[x].pc = Thrown(m).pc
      BY <2>4, <3>1, <3>2
    <3>4. QED
      BY <1>2, <3>2, <3>3
  <2>7. QED
    BY <2>3, <2>5, <2>6
<1>8. CASE FollowEdge(x)
  <2>1. CASE engine' = [engine EXCEPT ![x] = Returned(e)]
    BY <1>1, <1>2, <2>1
  <2>2. CASE \E call, n : engine' = [engine EXCEPT
               ![x] = [Goes(e, call) EXCEPT !.pc = "enter", !.node = n]]
    <3>1. PICK call, n : engine' = [engine EXCEPT
               ![x] = [Goes(e, call) EXCEPT !.pc = "enter", !.node = n]]
      BY <2>2
    <3>2. "pc" \in DOMAIN Goes(e, call)
      BY <1>1 DEF Goes, Engine
    <3> DEFINE mid == Goes(e, call)
               new == [mid EXCEPT !.pc = "enter", !.node = n]
    <3>3. engine'[x] = new
      BY <1>1, <3>1
    <3> HIDE DEF mid
    <3>4. new.pc = "enter"
      BY <3>2 DEF mid
    <3> HIDE DEF new
    <3>5. QED
      BY <3>3, <3>4
  <2>3. QED
    BY <1>8, <2>1, <2>2 DEF FollowEdge
<1>9. CASE Succeed(x) \/ Fail(x) \/ DeleteRows(x) \/ CleanupFails(x)
  <2>1. Over.pc = "over" /\ [Over EXCEPT !.pc = "cleanup"].pc = "cleanup"
    BY DEF Over, NoEngine
  <2>2. QED
    BY <1>1, <1>9, <2>1 DEF Succeed, Fail, DeleteRows, CleanupFails, Engine
<1>10. QED
  BY <1>3, <1>4, <1>5, <1>6, <1>7, <1>8, <1>9 DEF EngineStep

\* What is enough stays enough.
LEMMA AtLeast ==
  ASSUME LeastFalls, NEW y \in Execution, Cardinality(Newer(y)) >= LeastLimit
  PROVE  Cardinality(Newer(y)) >= LeastLimit'
<1> DEFINE newer == Cardinality(Newer(y))
           least == LeastLimit
           next  == LeastLimit'
<1>1. newer \in Nat
  BY CountType DEF Newer, Live
<1>2. least \in Nat /\ next \in Nat /\ next <= least /\ newer >= least
  BY DEF LeastFalls
<1> HIDE DEF newer, least, next
<1>3. newer >= next
  BY <1>1, <1>2
<1>4. QED
  BY <1>3 DEF newer, next

\* A step that deletes nothing.
LEMMA DoomedKept ==
  ASSUME TypeInv, DoomedInv, LeastFalls, UNCHANGED setting,
         NEW x \in Execution, EngineStep(x), ~ DeleteRows(x)
  PROVE  DoomedInv' /\ Live' = Live
<1>1. Live' = Live /\ \A y \in Execution : Newer(y)' = Newer(y)
  <2>1. \/ UNCHANGED row
        \/ \E status \in {"RUNNING", "SUCCESS", "FAILED"} :
             x \in Live /\ row' = [row EXCEPT ![x].status = status]
    BY DEF EngineStep, Begin, Pass, GiveUp, Enter, Run, Complete, FollowEdge,
           Catch, Succeed, Fail, FindOld, DeleteLogs, CleanupFails
  <2>2. QED
    BY <2>1, RowsKept
<1>2. engine[x].pc # "off" /\ engine \in [Execution -> Engine]
  BY DEF EngineStep, Begin, Pass, GiveUp, Enter, Run, Complete, FollowEdge,
         Catch, Succeed, Fail, FindOld, DeleteLogs, CleanupFails, TypeInv, Types
<1>3. \A y \in Execution : y # x => engine'[y] = engine[y]
  BY Others
<1>4. /\ engine'[x].pc # "off"
      /\ engine'[x].pc \in {"logs", "rows"} =>
           \/ \A y \in engine'[x].doomed : y \in Live /\ Cardinality(Newer(y)) >= LeastLimit'
           \/ engine[x].pc = "logs" /\ engine'[x].doomed = engine[x].doomed
  <2>1. CASE FindOld(x)
    <3>1. PICK limit \in {setting, DefaultLogs} :
            /\ LimitRead(limit)
            /\ engine'[x] = IF BeyondLimit(limit) = {} THEN Over
                            ELSE [Over EXCEPT !.pc = "logs", !.doomed = BeyondLimit(limit)]
      BY <1>2, <2>1 DEF FindOld
    <3>2. /\ Over.pc = "over"
          /\ [Over EXCEPT !.pc = "logs", !.doomed = BeyondLimit(limit)].pc = "logs"
          /\ [Over EXCEPT !.pc = "logs", !.doomed = BeyondLimit(limit)].doomed = BeyondLimit(limit)
      BY DEF Over, NoEngine
    <3>3. limit \in Nat /\ limit >= LeastLimit'
      <4>1. setting \in Nat /\ DefaultLogs \in Nat /\ faults \in Nat
        BY EngineAssumption DEF DoomedInv, TypeInv, Types
      <4>2. QED
        BY <3>1, <4>1 DEF LimitRead, Fails, LeastLimit
    <3>4. \A y \in BeyondLimit(limit) : y \in Live /\ Cardinality(Newer(y)) >= LeastLimit'
      <4> SUFFICES ASSUME NEW y \in BeyondLimit(limit)
                   PROVE  y \in Live /\ Cardinality(Newer(y)) >= LeastLimit'
        OBVIOUS
      <4>1. y \in Live /\ Cardinality(Newer(y)) >= limit
        BY DEF BeyondLimit
      <4> DEFINE newer == Cardinality(Newer(y))
                 least == LeastLimit'
      <4>2. newer \in Nat /\ least \in Nat
        BY CountType DEF Newer, Live, LeastFalls
      <4>3. newer >= limit /\ limit >= least
        BY <3>3, <4>1
      <4> HIDE DEF newer, least
      <4>4. newer >= least
        BY <3>3, <4>2, <4>3
      <4>5. QED
        BY <4>1, <4>4 DEF newer, least
    <3>5. QED
      BY <3>1, <3>2, <3>4
  <2>2. CASE DeleteLogs(x)
    BY <1>2, <2>2 DEF DeleteLogs, Engine
  <2>3. QED
    BY <2>1, <2>2, PcOfStep
<1>5. \A y \in Execution : engine'[y].pc = "off" => engine[y].pc = "off"
  BY <1>3, <1>4
<1>6. \A y \in Execution : engine[y].pc # "off" => engine'[y].pc # "off"
  BY <1>3, <1>4
<1>7. ASSUME NEW z \in Execution, engine'[z].pc \in {"logs", "rows"},
             NEW y \in engine'[z].doomed
      PROVE  /\ engine'[y].pc # "off"
             /\ y \in Live' => Cardinality(Newer(y)') >= LeastLimit'
  <2>1. CASE z = x /\ \A w \in engine'[x].doomed :
                        w \in Live /\ Cardinality(Newer(w)) >= LeastLimit'
    <3>1. y \in Live /\ Cardinality(Newer(y)) >= LeastLimit' /\ y \in Execution
      BY <1>7, <2>1 DEF Live
    <3>2. engine[y].pc # "off"
      BY <3>1 DEF DoomedInv
    <3>3. QED
      BY <1>1, <1>6, <3>1, <3>2
  <2>2. CASE engine[z].pc \in {"logs", "rows"} /\ engine'[z].doomed = engine[z].doomed
    <3>1. y \in engine[z].doomed /\ y \in Execution
      BY <1>2, <1>7, <2>2 DEF Engine
    <3>2. engine[y].pc # "off" /\ (y \in Live => Cardinality(Newer(y)) >= LeastLimit)
      BY <2>2, <3>1 DEF DoomedInv
    <3>3. y \in Live => Cardinality(Newer(y)) >= LeastLimit'
      BY <3>1, <3>2, AtLeast
    <3>4. QED
      BY <1>1, <1>6, <3>1, <3>2, <3>3
  <2>3. QED
    BY <1>3, <1>4, <1>7, <2>1, <2>2
<1>8. \A y \in Execution : engine'[y].pc = "off" => y \notin Live'
  BY <1>1, <1>5 DEF DoomedInv
<1>9. DoomedInv'
  <2>1. \A z \in Execution : engine'[z].pc \in {"logs", "rows"} =>
          \A y \in engine'[z].doomed :
            /\ engine'[y].pc # "off"
            /\ y \in Live' => Cardinality(Newer(y)') >= LeastLimit'
    BY <1>7
  <2>2. QED
    BY <1>8, <2>1 DEF DoomedInv
<1>10. QED
  BY <1>1, <1>9

LEMMA DoomedDeleted ==
  ASSUME TypeInv, DoomedInv, LeastFalls, UNCHANGED setting,
         NEW x \in Execution, DeleteRows(x)
  PROVE  /\ DoomedInv'
         /\ \A y \in Live : y \notin Live' => Cardinality(Newer(y)) >= LeastLimit
<1> DEFINE doomed == engine[x].doomed
<1>1. doomed \in SUBSET Execution /\ engine[x].pc = "rows"
  BY DEF TypeInv, Types, Engine, DeleteRows
<1>2. \A y \in doomed : engine[y].pc # "off" /\ (y \in Live => Cardinality(Newer(y)) >= LeastLimit)
  BY <1>1 DEF DoomedInv
<1>3. /\ \A y \in Execution : row'[y].startedAt = row[y].startedAt
      /\ \A y \in Execution : row'[y].status = IF y \in doomed THEN "none" ELSE row[y].status
  <2> SUFFICES ASSUME NEW y \in Execution
               PROVE  /\ row'[y].startedAt = row[y].startedAt
                      /\ row'[y].status = IF y \in doomed THEN "none" ELSE row[y].status
    OBVIOUS
  <2>1. row'[y] = IF y \in doomed THEN [row[y] EXCEPT !.status = "none"] ELSE row[y]
    BY DEF DeleteRows
  <2>2. row[y] \in Row
    BY DEF TypeInv, Types
  <2>3. QED
    BY <2>1, <2>2 DEF Row
<1>4. Live' = Live \ doomed /\ Live \subseteq Execution
  BY <1>3 DEF Live
<1>5. \A y \in Execution : Newer(y)' = Newer(y) \ doomed
  BY <1>3, <1>4 DEF Newer
<1>6. /\ \A y \in Execution : y # x => engine'[y] = engine[y]
      /\ engine'[x].pc = "over"
  BY DEF DeleteRows, TypeInv, Types, Over, NoEngine
<1>7. ASSUME NEW z \in Execution, engine'[z].pc \in {"logs", "rows"},
             NEW y \in engine'[z].doomed
      PROVE  /\ engine'[y].pc # "off"
             /\ y \in Live' => Cardinality(Newer(y)') >= LeastLimit'
  <2>1. z # x /\ engine'[z] = engine[z]
    BY <1>6, <1>7
  <2>2. y \in Execution
    BY <1>7, <2>1 DEF TypeInv, Types, Engine
  <2>3. engine[y].pc # "off" /\ (y \in Live => Cardinality(Newer(y)) >= LeastLimit)
    BY <1>7, <2>1 DEF DoomedInv
  <2>4. engine'[y].pc # "off"
    BY <1>6, <2>2, <2>3
  <2>5. ASSUME y \in Live'
        PROVE  Cardinality(Newer(y)') >= LeastLimit'
    <3>1. y \in Live
      BY <1>4, <2>5
    <3>2. Cardinality(Newer(y) \ doomed) >= LeastLimit
      <4>0. LeastLimit \in Nat
        BY DEF LeastFalls
      <4> HIDE DEF doomed
      <4>1. \A w \in doomed \intersect Live : Cardinality(Newer(w)) >= LeastLimit
        BY <1>2
      <4>2. QED
        BY <1>1, <2>3, <3>1, <4>0, <4>1, EnoughStay
    <3>3. LeastLimit' = LeastLimit
      BY DEF DeleteRows, LeastLimit
    <3>4. QED
      BY <1>5, <2>2, <3>2, <3>3
  <2>6. QED
    BY <2>4, <2>5
<1>8. \A y \in Execution : engine'[y].pc = "off" => y \notin Live'
  BY <1>4, <1>6 DEF DoomedInv
<1>9. DoomedInv'
  <2>1. \A z \in Execution : engine'[z].pc \in {"logs", "rows"} =>
          \A y \in engine'[z].doomed :
            /\ engine'[y].pc # "off"
            /\ y \in Live' => Cardinality(Newer(y)') >= LeastLimit'
    BY <1>7
  <2>2. QED
    BY <1>8, <2>1 DEF DoomedInv
<1>10. \A y \in Live : y \notin Live' => Cardinality(Newer(y)) >= LeastLimit
  BY <1>2, <1>4
<1>11. QED
  BY <1>9, <1>10

\* A new execution is on nobody's list, and newer ones may only be more.
LEMMA DoomedDispatch ==
  ASSUME TypeInv, IdleInv, DoomedInv, LeastFalls, UNCHANGED setting,
         NEW x \in Execution, ReceiveEmail(x) \/ DispatchStep(x)
  PROVE  DoomedInv' /\ Live \subseteq Live'
<1> DEFINE Same == \A y \in Execution : /\ engine'[y].pc = engine[y].pc
                                        /\ engine'[y].doomed = engine[y].doomed
<1>1. CASE row' = row /\ Same
  <2>1. Live' = Live /\ \A y \in Execution : Newer(y)' = Newer(y)
    BY <1>1, RowsKept
  <2>2. \A z \in Execution : engine[z].doomed \subseteq Execution
    BY DEF TypeInv, Types, Engine
  <2>3. \A y \in Execution : engine'[y].pc = "off" => y \notin Live'
    BY <1>1, <2>1 DEF DoomedInv
  <2>4. ASSUME NEW z \in Execution, engine'[z].pc \in {"logs", "rows"},
               NEW y \in engine'[z].doomed
        PROVE  /\ engine'[y].pc # "off"
               /\ y \in Live' => Cardinality(Newer(y)') >= LeastLimit'
    <3>1. y \in Execution /\ y \in engine[z].doomed /\ engine[z].pc \in {"logs", "rows"}
      BY <1>1, <2>2, <2>4
    <3>2. engine[y].pc # "off" /\ (y \in Live => Cardinality(Newer(y)) >= LeastLimit)
      BY <3>1 DEF DoomedInv
    <3>3. y \in Live => Cardinality(Newer(y)) >= LeastLimit'
      BY <3>1, <3>2, AtLeast
    <3>4. QED
      BY <1>1, <2>1, <3>1, <3>2, <3>3
  <2>5. \A z \in Execution : engine'[z].pc \in {"logs", "rows"} =>
          \A y \in engine'[z].doomed :
            /\ engine'[y].pc # "off"
            /\ y \in Live' => Cardinality(Newer(y)') >= LeastLimit'
    BY <2>4
  <2>6. QED
    BY <2>1, <2>3, <2>5 DEF DoomedInv
<1>2. CASE CreateExecution(x) /\ engine' = [engine EXCEPT ![x].pc = "begin"]
           /\ \E n : row' = [row EXCEPT ![x] = [status |-> "RUNNING", startedAt |-> n]]
  <2>1. engine[x].pc = "off"
    BY <1>2 DEF IdleInv, CreateExecution
  <2>2. x \notin Live
    BY <2>1 DEF DoomedInv
  <2>3. /\ \A y \in Execution : y # x => engine'[y] = engine[y] /\ row'[y] = row[y]
        /\ engine'[x].pc = "begin" /\ row'[x].status = "RUNNING"
    BY <1>2 DEF TypeInv, Types, Engine
  <2>4. Live' = Live \union {x} /\ Live \subseteq Execution
    BY <2>3 DEF Live
  <2>5. \A y \in Execution \ {x} : Newer(y) \subseteq Newer(y)' /\ Newer(y)' \subseteq Execution
    BY <2>2, <2>3, <2>4 DEF Newer
  <2>6. ASSUME NEW z \in Execution, engine'[z].pc \in {"logs", "rows"},
               NEW y \in engine'[z].doomed
        PROVE  /\ engine'[y].pc # "off"
               /\ y \in Live' => Cardinality(Newer(y)') >= LeastLimit'
    <3>1. engine'[z] = engine[z]
      BY <2>3, <2>6
    <3>2. y \in Execution /\ engine[y].pc # "off"
          /\ (y \in Live => Cardinality(Newer(y)) >= LeastLimit)
      BY <2>6, <3>1 DEF DoomedInv, TypeInv, Types, Engine
    <3>3. y # x
      BY <2>1, <3>2
    <3>4. Newer(y) \subseteq Newer(y)' /\ Newer(y)' \subseteq Execution
      BY <2>5, <3>2, <3>3
    <3> DEFINE old == Newer(y)
               new == Newer(y)'
    <3>5. IsFiniteSet(new) /\ Cardinality(new) \in Nat /\ Cardinality(old) \in Nat
      BY <3>4, CountType
    <3>6. Cardinality(old) <= Cardinality(new)
      BY <3>4, <3>5, FS_Subset
    <3> HIDE DEF old, new
    <3> DEFINE least == LeastLimit'
    <3>7. least \in Nat /\ (y \in Live => Cardinality(old) >= least)
      BY <3>2, AtLeast DEF old, LeastFalls
    <3> HIDE DEF least
    <3>8. y \in Live => Cardinality(new) >= least
      BY <3>5, <3>6, <3>7
    <3>9. QED
      BY <2>3, <2>4, <3>2, <3>3, <3>8 DEF new, least
  <2>7. \A y \in Execution : engine'[y].pc = "off" => y \notin Live'
    BY <2>3, <2>4 DEF DoomedInv
  <2>8. \A z \in Execution : engine'[z].pc \in {"logs", "rows"} =>
          \A y \in engine'[z].doomed :
            /\ engine'[y].pc # "off"
            /\ y \in Live' => Cardinality(Newer(y)') >= LeastLimit'
    BY <2>6
  <2>9. QED
    BY <2>4, <2>7, <2>8 DEF DoomedInv
<1>3. QED
  <2>1. CASE CreateExecution(x)
    <3>1. engine[x] \in Engine /\ engine \in [Execution -> Engine]
      BY DEF TypeInv, Types
    <3>2. QED
      BY <1>1, <1>2, <2>1, <3>1 DEF CreateExecution
  <2>2. CASE ~ CreateExecution(x)
    <3>1. /\ row' = row
          /\ \/ UNCHANGED engine
             \/ engine' = [engine EXCEPT ![x].config = workflow.config]
      BY <2>2 DEF ReceiveEmail, DispatchStep, LogDispatch, ReadWorkflow, LinkExecution,
                  LogSkipped
    <3>2. engine \in [Execution -> Engine]
      BY DEF TypeInv, Types
    <3> DEFINE read(e) == [e EXCEPT !.config = workflow.config]
    <3>3. \A e \in Engine : read(e).pc = e.pc /\ read(e).doomed = e.doomed
      BY DEF Engine
    <3>4. UNCHANGED engine \/ engine' = [engine EXCEPT ![x] = read(engine[x])]
      BY <3>1
    <3> HIDE DEF read
    <3>5. Same
      BY <3>2, <3>3, <3>4
    <3>6. QED
      BY <1>1, <3>1, <3>5
  <2>3. QED
    BY <2>1, <2>2

LEMMA NextDoomed ==
  ASSUME TypeInv, IdleInv, DoomedInv, [Next]_vars
  PROVE  /\ DoomedInv'
         /\ \A y \in Live : y \notin Live' => Cardinality(Newer(y)) >= LeastLimit
<1>0. LeastFalls /\ UNCHANGED setting
  BY LeastStep, FaultsGrow DEF DoomedInv
<1>1. CASE PatchWorkflow \/ UNCHANGED vars
  BY <1>0, <1>1 DEF PatchWorkflow, vars, DoomedInv, Live, Newer, LeastLimit
<1>2. CASE Restart
  <2>1. Live' = Live
    BY <1>2 DEF Restart, Live
  <2>2. \A x \in Execution : \/ engine'[x].pc = "off" /\ engine[x].pc = "off"
                             \/ engine'[x].pc = "over"
    BY <1>2 DEF Restart, Over, NoEngine
  <2>3. \A z \in Execution : engine'[z].pc \notin {"logs", "rows"}
    BY <2>2
  <2>4. QED
    BY <1>0, <2>1, <2>2, <2>3 DEF DoomedInv
<1>3. CASE \E x \in Execution : ReceiveEmail(x) \/ DispatchStep(x)
  BY <1>0, <1>3, DoomedDispatch
<1>4. CASE \E x \in Execution : DeleteRows(x)
  BY <1>0, <1>4, DoomedDeleted
<1>5. CASE \E x \in Execution : EngineStep(x) /\ ~ DeleteRows(x)
  BY <1>0, <1>5, DoomedKept
<1>6. QED
  BY <1>1, <1>2, <1>3, <1>4, <1>5 DEF Next

\* A cleanup deletes no execution but while as many newer ones are there as the
\* setting allows, or the default, where a statement has failed and the default is
\* less: although it deletes by a list read earlier, and others delete by theirs
\* meanwhile, the newest executions stay.
THEOREM NewestKeptAlways == Spec => NewestKept
<1>1. Init => TypeInv /\ IdleInv /\ DoomedInv
  <2> SUFFICES ASSUME Init PROVE DoomedInv
    BY InitTypes
  <2>1. QED
    BY DEF Init, DoomedInv, NoEngine, Live
<1>2. (TypeInv /\ IdleInv /\ DoomedInv) /\ [Next]_vars => (TypeInv /\ IdleInv /\ DoomedInv)'
  BY NextTypes, NextDoomed
<1>3. (TypeInv /\ IdleInv /\ DoomedInv) /\ [Next]_vars =>
        [\A x \in Live : x \notin Live' => Cardinality(Newer(x)) >= LeastLimit]_vars
  BY NextDoomed
<1>4. QED
  BY <1>1, <1>2, <1>3, PTL DEF Spec, NewestKept
(***************************************************************************)
(* Part four: what the steps of a walk do to the engine.  Rest is what no  *)
(* exit of a call changes; the calls under way are told one by one.        *)
(***************************************************************************)
Rest(e, f) == f.config = e.config /\ f.aborted = e.aborted /\ f.rejected = e.rejected

LEMMA ThrownFields ==
  ASSUME NEW e \in Engine
  PROVE  /\ Rest(e, Thrown(e)) /\ Thrown(e).stack = e.stack
         /\ Thrown(e).pc \in {"failed", "catch"}
BY DEF Thrown, Engine, Rest

LEMMA ReturnedFields ==
  ASSUME NEW e \in Engine
  PROVE  /\ Rest(e, Returned(e)) /\ Returned(e).stack = Tail(e.stack)
         /\ Returned(e).pc \in {"succeed", "next"}
BY DEF Returned, Engine, Rest

LEMMA RethrownFields ==
  ASSUME NEW e \in Engine, e.stack # <<>>
  PROVE  /\ Rest(e, Rethrown(e)) /\ Rethrown(e).stack = Tail(e.stack)
         /\ Rethrown(e).pc \in {"failed", "catch"}
<1> DEFINE popped == [e EXCEPT !.stack = Tail(e.stack)]
<1>1. popped \in Engine
  BY TailType
<1>2. Rest(e, popped) /\ popped.stack = Tail(e.stack)
  BY DEF Engine, Rest
<1>3. Rethrown(e) = Thrown(popped)
  BY DEF Rethrown
<1> HIDE DEF popped
<1>4. QED
  BY <1>1, <1>2, <1>3, ThrownFields DEF Rest

LEMMA GoesFields ==
  ASSUME NEW e \in Engine, e.stack # <<>>, NEW call \in Frame
  PROVE  /\ Goes(e, call) \in Engine /\ Rest(e, Goes(e, call))
         /\ Goes(e, call).stack = <<call>> \o Tail(e.stack)
<1>1. Goes(e, call) \in Engine
  BY GoesType
<1>2. QED
  BY <1>1 DEF Goes, Engine, Rest

\* The call that an engine enters.
NewCall(e) == [node |-> e.node, step |-> e.steps + 1, todo |-> {}]

LEMMA PassFields ==
  ASSUME TypeInv, NEW x \in Execution, Pass(x) \/ GiveUp(x)
  PROVE  /\ Rest(engine[x], engine'[x]) /\ engine'[x].stack = engine[x].stack
         /\ Pass(x) => engine'[x].pc = "next"
         /\ GiveUp(x) => engine'[x].pc \in {"failed", "catch"}
<1>1. engine[x] \in Engine /\ engine \in [Execution -> Engine]
  BY DEF TypeInv, Types
<1>2. CASE Pass(x)
  BY <1>1, <1>2 DEF Pass, GiveUp, Rest, Engine
<1>3. CASE GiveUp(x)
  <2>1. engine'[x] = Thrown(engine[x])
    BY <1>1, <1>3 DEF GiveUp
  <2>2. ~ Pass(x)
    BY <1>3 DEF Pass, GiveUp
  <2>3. QED
    BY <1>1, <2>1, <2>2, ThrownFields
<1>4. QED
  BY <1>2, <1>3

LEMMA EnterFields ==
  ASSUME TypeInv, NEW x \in Execution, Enter(x)
  PROVE  LET e == engine[x]
             f == engine'[x]
         IN  /\ NewCall(e) \in Frame /\ f.config = e.config /\ f.aborted = e.aborted
             /\ \/ /\ x \in Live /\ f.pc = "run" /\ f.rejected = e.rejected
                   /\ f.stack = <<NewCall(e)>> \o e.stack
                   /\ nodeLog' = [nodeLog EXCEPT ![x][NewCall(e).step] = "RUNNING"]
                \/ /\ Lost(x) /\ f.pc \in {"failed", "catch"} /\ f.stack = e.stack
                   /\ UNCHANGED nodeLog
<1> DEFINE e     == engine[x]
           step  == e.steps + 1
           stack == <<NewCall(e)>> \o e.stack
           goes  == [e EXCEPT !.pc = "run", !.steps = step, !.stack = stack]
           mid   == [e EXCEPT !.steps = step, !.rejected = TRUE]
<1>1. e \in Engine /\ engine \in [Execution -> Engine]
  BY DEF TypeInv, Types
<1>2. step \in Step /\ step \in 0 .. MaxSteps
  <2>1. e.steps \in Nat /\ e.steps < MaxSteps
    BY <1>1 DEF Enter, WithinSteps, Engine
  <2>2. QED
    BY <2>1, EngineAssumption DEF Step
<1>3. NewCall(e) \in Frame /\ NewCall(e).step = step
  BY <1>1, <1>2 DEF NewCall, Frame, Engine
<1>4. \/ /\ x \in Live /\ engine'[x] = goes
         /\ nodeLog' = [nodeLog EXCEPT ![x][step] = "RUNNING"]
      \/ Lost(x) /\ engine'[x] = Thrown(mid) /\ UNCHANGED nodeLog
  BY <1>1 DEF Enter, NewCall
<1> HIDE DEF stack
<1>5. /\ goes.pc = "run" /\ goes.stack = stack /\ goes.config = e.config
      /\ goes.aborted = e.aborted /\ goes.rejected = e.rejected
  BY <1>1 DEF Engine
<1>6. /\ mid \in Engine /\ mid.stack = e.stack /\ mid.config = e.config
      /\ mid.aborted = e.aborted
  BY <1>1, <1>2 DEF Engine
<1> HIDE DEF goes, mid, step, e
<1>7. CASE engine'[x] = goes /\ x \in Live /\ nodeLog' = [nodeLog EXCEPT ![x][step] = "RUNNING"]
  BY <1>3, <1>5, <1>7 DEF stack, e
<1>8. CASE Lost(x) /\ engine'[x] = Thrown(mid) /\ UNCHANGED nodeLog
  <2>1. Rest(mid, Thrown(mid)) /\ Thrown(mid).stack = mid.stack
        /\ Thrown(mid).pc \in {"failed", "catch"}
    BY <1>6, ThrownFields
  <2>2. QED
    BY <1>3, <1>6, <1>8, <2>1 DEF Rest, e
<1>9. QED
  BY <1>4, <1>7, <1>8

\* A node that was executed has its own edges to follow.
LEMMA RunFields ==
  ASSUME TypeInv, NEW x \in Execution, Run(x)
  PROVE  LET e == engine[x]
             f == engine'[x]
         IN  /\ Rest(e, f)
             /\ \/ f.pc = "catch" /\ f.stack = e.stack
                \/ /\ f.pc = "complete"
                   /\ \E call \in Frame :
                        /\ call.node = Top(e).node /\ call.step = Top(e).step
                        /\ \A edge \in call.todo : edge \in e.config.edges /\ edge.source = call.node
                        /\ f.stack = <<call>> \o Tail(e.stack)
<1> DEFINE e       == engine[x]
           next(r) == [Top(e) EXCEPT !.todo = NextEdges(e.config, Top(e).node, r)]
<1>1. /\ e \in Engine /\ engine \in [Execution -> Engine] /\ e.stack # <<>>
      /\ e.config \in WorkflowConfig
  BY EngineAssumption DEF TypeInv, Types, Run, StackOK, Engine
<1>2. CASE engine' = [engine EXCEPT ![x].pc = "catch"]
  BY <1>1, <1>2 DEF Engine, Rest
<1>3. CASE \E result : engine' = [engine EXCEPT
             ![x] = [Goes(e, next(result)) EXCEPT !.pc = "complete"]]
  <2>1. PICK result : engine' = [engine EXCEPT
             ![x] = [Goes(e, next(result)) EXCEPT !.pc = "complete"]]
    BY <1>3
  <2>2. Top(e) \in Frame
    BY <1>1, TailType
  <2> DEFINE todo == NextEdges(e.config, Top(e).node, result)
             call == next(result)
             mid  == Goes(e, call)
             new  == [mid EXCEPT !.pc = "complete"]
  <2>3. /\ todo \subseteq Edge
        /\ \A edge \in todo : edge \in e.config.edges /\ edge.source = Top(e).node
    BY <1>1, <2>2, NextEdgesType DEF Frame, NextEdges
  <2>4. engine'[x] = new
    BY <1>1, <2>1
  <2> HIDE DEF todo
  <2>5. call \in Frame /\ call.node = Top(e).node /\ call.step = Top(e).step /\ call.todo = todo
    BY <2>2, <2>3 DEF Frame, todo
  <2> HIDE DEF call
  <2>6. mid \in Engine /\ Rest(e, mid) /\ mid.stack = <<call>> \o Tail(e.stack)
    BY <1>1, <2>5, GoesFields
  <2> HIDE DEF mid
  <2>7. new.pc = "complete" /\ Rest(e, new) /\ new.stack = mid.stack
    BY <2>6 DEF Engine, Rest
  <2> HIDE DEF new, e
  <2>8. QED
    BY <2>3, <2>4, <2>5, <2>6, <2>7 DEF e
<1>4. QED
  BY <1>2, <1>3 DEF Run

LEMMA CompleteFields ==
  ASSUME TypeInv, NEW x \in Execution, Complete(x)
  PROVE  LET e == engine[x]
             f == engine'[x]
         IN  /\ f.config = e.config
             /\ \/ /\ HasLog(x) /\ f.rejected = e.rejected
                   /\ nodeLog' = [nodeLog EXCEPT ![x][Top(e).step] = "SUCCESS"]
                   /\ \/ f.pc \in {"succeed", "next"} /\ f.stack = Tail(e.stack)
                      \/ f.pc = "next" /\ f.stack = e.stack /\ f.aborted = e.aborted
                \/ /\ Fails \/ ~ HasLog(x)
                   /\ f.pc \in {"failed", "catch"} /\ f.stack = e.stack
                   /\ f.aborted = e.aborted /\ UNCHANGED nodeLog
<1> DEFINE e     == engine[x]
           ended == [e EXCEPT !.aborted = TRUE]
           goes  == [e EXCEPT !.pc = "next"]
<1>1. e \in Engine /\ engine \in [Execution -> Engine]
  BY DEF TypeInv, Types
<1>2. /\ ended \in Engine /\ ended.stack = e.stack /\ ended.config = e.config
      /\ ended.rejected = e.rejected
      /\ goes.pc = "next" /\ goes.stack = e.stack /\ Rest(e, goes)
  BY <1>1 DEF Engine, Rest
<1>3. \/ /\ HasLog(x) /\ nodeLog' = [nodeLog EXCEPT ![x][Top(e).step] = "SUCCESS"]
         /\ engine'[x] = Returned(ended) \/ engine'[x] = goes
      \/ /\ Fails \/ ~ HasLog(x)
         /\ UNCHANGED nodeLog
         /\ \E rejected : engine'[x] = [Thrown(e) EXCEPT !.rejected = rejected]
  BY <1>1 DEF Complete, Unlogged
<1> HIDE DEF ended, goes
<1>4. CASE /\ HasLog(x) /\ nodeLog' = [nodeLog EXCEPT ![x][Top(e).step] = "SUCCESS"]
           /\ engine'[x] = Returned(ended) \/ engine'[x] = goes
  <2>1. CASE engine'[x] = Returned(ended)
    <3>1. /\ Rest(ended, Returned(ended)) /\ Returned(ended).stack = Tail(ended.stack)
          /\ Returned(ended).pc \in {"succeed", "next"}
      BY <1>2, ReturnedFields
    <3>2. QED
      BY <1>2, <1>4, <2>1, <3>1 DEF Rest
  <2>2. CASE engine'[x] = goes
    BY <1>2, <1>4, <2>2 DEF Rest
  <2>3. QED
    BY <1>4, <2>1, <2>2
<1>5. CASE /\ Fails \/ ~ HasLog(x)
           /\ UNCHANGED nodeLog
           /\ \E rejected : engine'[x] = [Thrown(e) EXCEPT !.rejected = rejected]
  <2>1. PICK rejected : engine'[x] = [Thrown(e) EXCEPT !.rejected = rejected]
    BY <1>5
  <2>2. Thrown(e) \in Engine
    BY <1>1, ThrownType
  <2>3. /\ engine'[x].pc = Thrown(e).pc /\ engine'[x].stack = Thrown(e).stack
        /\ engine'[x].config = Thrown(e).config /\ engine'[x].aborted = Thrown(e).aborted
    <3> HIDE DEF e
    <3>1. QED
      BY <2>1, <2>2 DEF Engine
  <2>4. QED
    BY <1>1, <1>5, <2>3, ThrownFields DEF Rest
<1>6. QED
  BY <1>3, <1>4, <1>5

LEMMA FollowEdgeFields ==
  ASSUME TypeInv, NEW x \in Execution, FollowEdge(x)
  PROVE  LET e == engine[x]
             f == engine'[x]
         IN  /\ Rest(e, f)
             /\ \/ f.pc \in {"succeed", "next"} /\ f.stack = Tail(e.stack)
                \/ /\ f.pc = "enter"
                   /\ \E call \in Frame, edge \in Top(e).todo :
                        /\ call.node = Top(e).node /\ call.step = Top(e).step
                        /\ call.todo \subseteq Top(e).todo
                        /\ f.node = edge.target
                        /\ f.stack = <<call>> \o Tail(e.stack)
<1> DEFINE e == engine[x]
<1>1. e \in Engine /\ engine \in [Execution -> Engine] /\ e.stack # <<>>
  BY DEF TypeInv, Types, FollowEdge, StackOK
<1>2. CASE engine' = [engine EXCEPT ![x] = Returned(e)]
  BY <1>1, <1>2, ReturnedFields
<1>3. CASE \E edge \in Top(e).todo :
             engine' = [engine EXCEPT
               ![x] = [Goes(e, [Top(e) EXCEPT !.todo = Top(e).todo \ {edge}])
                        EXCEPT !.pc = "enter", !.node = edge.target]]
  <2>1. PICK edge \in Top(e).todo :
             engine' = [engine EXCEPT
               ![x] = [Goes(e, [Top(e) EXCEPT !.todo = Top(e).todo \ {edge}])
                        EXCEPT !.pc = "enter", !.node = edge.target]]
    BY <1>3
  <2>2. Top(e) \in Frame
    BY <1>1, TailType
  <2> DEFINE call == [Top(e) EXCEPT !.todo = Top(e).todo \ {edge}]
             mid  == Goes(e, call)
             new  == [mid EXCEPT !.pc = "enter", !.node = edge.target]
  <2>3. engine'[x] = new
    BY <1>1, <2>1
  <2>4. /\ call \in Frame /\ call.node = Top(e).node /\ call.step = Top(e).step
        /\ call.todo \subseteq Top(e).todo
    BY <2>2 DEF Frame
  <2> HIDE DEF call
  <2>5. mid \in Engine /\ Rest(e, mid) /\ mid.stack = <<call>> \o Tail(e.stack)
    BY <1>1, <2>4, GoesFields
  <2> HIDE DEF mid
  <2>6. new.pc = "enter" /\ new.node = edge.target /\ Rest(e, new) /\ new.stack = mid.stack
    BY <2>5 DEF Engine, Rest
  <2> HIDE DEF new, e
  <2>7. QED
    BY <2>1, <2>3, <2>4, <2>5, <2>6 DEF e
<1>4. QED
  BY <1>2, <1>3 DEF FollowEdge

LEMMA CatchFields ==
  ASSUME TypeInv, NEW x \in Execution, Catch(x)
  PROVE  LET e == engine[x]
             f == engine'[x]
         IN  /\ f.config = e.config /\ f.aborted = e.aborted
             /\ f.pc \in {"failed", "catch"} /\ f.stack = Tail(e.stack)
             /\ \/ /\ HasLog(x) /\ f.rejected = e.rejected
                   /\ nodeLog' = [nodeLog EXCEPT ![x][Top(e).step] = "FAILED"]
                \/ /\ Fails \/ ~ HasLog(x)
                   /\ UNCHANGED nodeLog
<1> DEFINE e == engine[x]
           r == Rethrown(e)
<1>1. e \in Engine /\ engine \in [Execution -> Engine] /\ e.stack # <<>>
  BY DEF TypeInv, Types, Catch, StackOK
<1>2. /\ r \in Engine /\ Rest(e, r) /\ r.stack = Tail(e.stack)
      /\ r.pc \in {"failed", "catch"}
  BY <1>1, RethrownType, RethrownFields
<1>3. \/ /\ HasLog(x) /\ nodeLog' = [nodeLog EXCEPT ![x][Top(e).step] = "FAILED"]
         /\ engine'[x] = r
      \/ /\ Fails \/ ~ HasLog(x)
         /\ UNCHANGED nodeLog
         /\ \E rejected : engine'[x] = [r EXCEPT !.rejected = rejected]
  BY <1>1 DEF Catch, Unlogged
<1> HIDE DEF r, e
<1>4. ASSUME NEW rejected
      PROVE  LET m == [r EXCEPT !.rejected = rejected]
             IN  m.pc = r.pc /\ m.stack = r.stack /\ m.config = r.config /\ m.aborted = r.aborted
  BY <1>2 DEF Engine
<1>5. QED
  BY <1>2, <1>3, <1>4 DEF Rest, e

\* The end of an engine forgets its walk.
LEMMA EndFields ==
  ASSUME TypeInv, NEW x \in Execution,
         \/ Succeed(x) \/ Fail(x)
         \/ FindOld(x) \/ DeleteLogs(x) \/ DeleteRows(x) \/ CleanupFails(x)
  PROVE  LET e == engine[x]
             f == engine'[x]
         IN  \/ /\ Succeed(x) /\ StatusLost(x) /\ UNCHANGED row
                /\ f.pc = "failed" /\ f.stack = e.stack /\ Rest(e, f)
             \/ /\ DeleteLogs(x) /\ f.pc = "rows" /\ f.stack = e.stack /\ Rest(e, f)
                /\ f.doomed = e.doomed
             \/ /\ ~ DeleteLogs(x)
                /\ ~ f.aborted /\ ~ f.rejected /\ f.stack = <<>>
                /\ Succeed(x) => f.pc = "cleanup"
                /\ Fail(x) => f.pc \in {"cleanup", "over"}
                /\ FindOld(x) => f.pc \in {"over", "logs"}
                /\ DeleteRows(x) \/ CleanupFails(x) => f.pc = "over"
<1>1. engine[x] \in Engine /\ engine \in [Execution -> Engine]
  BY DEF TypeInv, Types
<1> DEFINE cleanup == [Over EXCEPT !.pc = "cleanup"]
           list(n) == [Over EXCEPT !.pc = "logs", !.doomed = BeyondLimit(n)]
<1>2. /\ Over.pc = "over" /\ ~ Over.aborted /\ ~ Over.rejected /\ Over.stack = <<>>
      /\ cleanup.pc = "cleanup" /\ ~ cleanup.aborted /\ ~ cleanup.rejected
      /\ cleanup.stack = <<>>
      /\ \A n : /\ list(n).pc = "logs" /\ ~ list(n).aborted /\ ~ list(n).rejected
                /\ list(n).stack = <<>>
  BY DEF Over, NoEngine
<1> HIDE DEF cleanup, list
<1>3. CASE Succeed(x)
  <2>1. \/ engine'[x] = cleanup
        \/ engine'[x] = [engine[x] EXCEPT !.pc = "failed"] /\ StatusLost(x) /\ UNCHANGED row
    BY <1>1, <1>3 DEF Succeed, cleanup
  <2>2. ~ (Fail(x) \/ FindOld(x) \/ DeleteLogs(x) \/ DeleteRows(x) \/ CleanupFails(x))
    BY <1>3 DEF Succeed, Fail, FindOld, DeleteLogs, DeleteRows, CleanupFails
  <2>3. CASE engine'[x] = cleanup
    BY <1>2, <2>2, <2>3
  <2>4. CASE engine'[x] = [engine[x] EXCEPT !.pc = "failed"] /\ StatusLost(x) /\ UNCHANGED row
    BY <1>1, <1>3, <2>4 DEF Engine, Rest
  <2>5. QED
    BY <2>1, <2>3, <2>4
<1>4. CASE Fail(x)
  <2>1. engine'[x] = cleanup \/ engine'[x] = Over
    BY <1>1, <1>4 DEF Fail, cleanup
  <2>2. ~ (Succeed(x) \/ FindOld(x) \/ DeleteLogs(x) \/ DeleteRows(x) \/ CleanupFails(x))
    BY <1>4 DEF Succeed, Fail, FindOld, DeleteLogs, DeleteRows, CleanupFails
  <2>3. QED
    BY <1>2, <2>1, <2>2
<1>5. CASE FindOld(x)
  <2>1. engine'[x] = Over \/ \E n : engine'[x] = list(n)
    BY <1>1, <1>5 DEF FindOld, list
  <2>2. ~ (Succeed(x) \/ Fail(x) \/ DeleteLogs(x) \/ DeleteRows(x))
    BY <1>5 DEF Succeed, Fail, FindOld, DeleteLogs, DeleteRows
  <2>3. CleanupFails(x) => engine'[x] = Over
    BY <1>1 DEF CleanupFails
  <2>4. QED
    BY <1>2, <1>5, <2>1, <2>2, <2>3
<1>6. CASE DeleteLogs(x)
  BY <1>1, <1>6 DEF DeleteLogs, Engine, Rest
<1>7. CASE DeleteRows(x) /\ ~ CleanupFails(x)
  <2>1. engine'[x] = Over
    BY <1>1, <1>7 DEF DeleteRows
  <2>2. ~ (Succeed(x) \/ Fail(x) \/ DeleteLogs(x) \/ FindOld(x))
    BY <1>7 DEF Succeed, Fail, FindOld, DeleteLogs, DeleteRows
  <2>3. QED
    BY <1>2, <1>7, <2>1, <2>2
<1>8. CASE CleanupFails(x) /\ ~ DeleteLogs(x) /\ ~ FindOld(x)
  <2>1. engine'[x] = Over
    BY <1>1, <1>8 DEF CleanupFails
  <2>2. ~ (Succeed(x) \/ Fail(x))
    BY <1>8 DEF Succeed, Fail, CleanupFails
  <2>3. QED
    BY <1>2, <1>8, <2>1, <2>2
<1>9. ~ (CleanupFails(x) /\ DeleteRows(x))
  <2>1. faults \in Nat
    BY EngineAssumption DEF TypeInv, Types
  <2>2. QED
    BY <2>1 DEF CleanupFails, DeleteRows, Fails
<1>10. QED
  BY <1>3, <1>4, <1>5, <1>6, <1>7, <1>8, <1>9

\* Only in the loops of the calls under way, or after the walk, has an execution
\* come to its end.
EndedInv ==
  \A x \in Execution :
    engine[x].aborted => engine[x].pc \in {"enter", "next", "succeed", "failed"}

LEMMA EndedStep ==
  ASSUME TypeInv, EndedInv, NEW x \in Execution, EngineStep(x)
  PROVE  /\ engine'[x].aborted => engine'[x].pc \in {"enter", "next", "succeed", "failed"}
         /\ engine[x].aborted => nodeLog'[x] \in {nodeLog[x], NoLogs}
<1> DEFINE e == engine[x]
           f == engine'[x]
<1>1. e \in Engine /\ engine \in [Execution -> Engine] /\ StackOK(e)
  BY DEF TypeInv, Types
<1>2. e.aborted => e.pc \in {"enter", "next", "succeed", "failed"}
  BY DEF EndedInv
<1>3. CASE Begin(x)
  <2>1. ~ e.aborted
    BY <1>1, <1>3 DEF Begin, StackOK
  <2>2. f.aborted = e.aborted
    BY <1>1, <1>3 DEF Begin, Engine
  <2>3. QED
    BY <2>1, <2>2
<1>4. CASE Pass(x) \/ GiveUp(x)
  <2>1. f.aborted = e.aborted /\ (Pass(x) => f.pc = "next") /\ (GiveUp(x) => ~ e.aborted)
    BY <1>4, PassFields DEF Rest, GiveUp, Ended
  <2>2. nodeLog' = nodeLog
    BY <1>4 DEF Pass, GiveUp
  <2>3. QED
    BY <1>4, <2>1, <2>2
<1>5. CASE Enter(x)
  <2>1. ~ e.aborted /\ f.aborted = e.aborted
    BY <1>5, EnterFields DEF Enter, Ended
  <2>2. QED
    BY <2>1
<1>6. CASE Run(x) \/ Complete(x) \/ Catch(x)
  <2>1. e.pc \in {"run", "complete", "catch"}
    BY <1>6 DEF Run, Complete, Catch
  <2>2. ~ e.aborted
    BY <1>2, <2>1
  <2>3. f.aborted = e.aborted \/ f.pc \in {"succeed", "next"}
    BY <1>6, RunFields, CompleteFields, CatchFields DEF Rest
  <2>4. QED
    BY <2>2, <2>3
<1>7. CASE FollowEdge(x)
  <2>1. f.pc \in {"succeed", "next", "enter"}
    BY <1>7, FollowEdgeFields
  <2>2. nodeLog' = nodeLog
    BY <1>7 DEF FollowEdge
  <2>3. QED
    BY <2>1, <2>2
<1>8. CASE Succeed(x) \/ Fail(x) \/ FindOld(x) \/ DeleteLogs(x) \/ DeleteRows(x) \/ CleanupFails(x)
  <2>1. DeleteLogs(x) => ~ e.aborted
    BY <1>2 DEF DeleteLogs
  <2>2. ~ f.aborted \/ f.pc = "failed"
    BY <1>8, <2>1, EndFields DEF Rest
  <2>3. nodeLog'[x] \in {nodeLog[x], NoLogs}
    BY <1>8 DEF Succeed, Fail, FindOld, DeleteLogs, DeleteRows, CleanupFails
  <2>4. QED
    BY <2>2, <2>3
<1>9. QED
  BY <1>3, <1>4, <1>5, <1>6, <1>7, <1>8 DEF EngineStep

\* A dispatch changes no engine but to give it its configuration and to start it.
LEMMA DispatchFields ==
  ASSUME TypeInv, IdleInv, NEW x \in Execution, ReceiveEmail(x) \/ DispatchStep(x)
  PROVE  /\ UNCHANGED nodeLog
         /\ \A y \in Execution \ {x} : engine'[y] = engine[y]
         /\ \/ ~ CreateExecution(x) /\ engine'[x].pc = engine[x].pc
            \/ CreateExecution(x) /\ UNCHANGED <<engine, row>>
            \/ /\ CreateExecution(x) /\ engine[x].pc = "off" /\ engine'[x].pc = "begin"
               /\ row' = [row EXCEPT ![x] = row'[x]] /\ row'[x].status = "RUNNING"
         /\ engine'[x].stack = engine[x].stack /\ engine'[x].aborted = engine[x].aborted
         /\ engine'[x].rejected = engine[x].rejected /\ engine'[x].doomed = engine[x].doomed
         /\ \/ engine'[x].config = engine[x].config
            \/ ReadWorkflow(x) /\ workflow.active /\ engine'[x].config = workflow.config
<1>1. engine[x] \in Engine /\ engine \in [Execution -> Engine] /\ row \in [Execution -> Row]
  BY DEF TypeInv, Types
<1>2. UNCHANGED nodeLog
  BY DEF ReceiveEmail, DispatchStep, LogDispatch, ReadWorkflow, CreateExecution,
         LinkExecution, LogSkipped
<1>3. CASE ReadWorkflow(x) /\ workflow.active
           /\ engine' = [engine EXCEPT ![x].config = workflow.config]
  <2>1. ~ CreateExecution(x)
    BY <1>3 DEF ReadWorkflow, CreateExecution
  <2>2. QED
    BY <1>1, <1>2, <1>3, <2>1 DEF Engine
<1>4. CASE CreateExecution(x) /\ engine' = [engine EXCEPT ![x].pc = "begin"]
  <2>1. engine[x].pc = "off"
    BY <1>4 DEF IdleInv, CreateExecution
  <2>2. /\ \A y \in Execution \ {x} : engine'[y] = engine[y]
        /\ engine'[x] = [engine[x] EXCEPT !.pc = "begin"]
    BY <1>1, <1>4
  <2>3. engine'[x].pc = "begin"
    BY <1>1, <2>2 DEF Engine
  <2>4. row' # row \/ engine' # engine
    BY <2>1, <2>3
  <2>5. \E n : row' = [row EXCEPT ![x] = [status |-> "RUNNING", startedAt |-> n]]
    BY <1>4, <2>4 DEF CreateExecution
  <2>6. row' = [row EXCEPT ![x] = row'[x]] /\ row'[x].status = "RUNNING"
    BY <1>1, <2>5
  <2>7. QED
    BY <1>1, <1>2, <1>4, <2>1, <2>2, <2>3, <2>6 DEF Engine
<1>5. CASE CreateExecution(x) /\ UNCHANGED <<engine, row>>
  BY <1>2, <1>5
<1>6. CASE ~ CreateExecution(x) /\ UNCHANGED engine
  BY <1>2, <1>6
<1>7. QED
  BY <1>3, <1>4, <1>5, <1>6
     DEF ReceiveEmail, DispatchStep, LogDispatch, ReadWorkflow, CreateExecution,
         LinkExecution, LogSkipped

LEMMA EndedNext ==
  ASSUME TypeInv, IdleInv, EndedInv, [Next]_vars
  PROVE  /\ EndedInv'
         /\ \A x \in Execution : engine[x].aborted =>
              \A s \in Step : nodeLog[x][s] = "none" => nodeLog'[x][s] = "none"
<1>1. CASE PatchWorkflow \/ UNCHANGED vars
  BY <1>1 DEF PatchWorkflow, vars, EndedInv
<1>2. CASE Restart
  <2>1. ~ Over.aborted
    BY DEF Over, NoEngine
  <2>2. QED
    BY <1>2, <2>1 DEF Restart, EndedInv
<1>3. CASE \E x \in Execution : ReceiveEmail(x) \/ DispatchStep(x)
  <2>1. PICK x \in Execution : ReceiveEmail(x) \/ DispatchStep(x)
    BY <1>3
  <2>2. /\ UNCHANGED nodeLog /\ engine'[x].aborted = engine[x].aborted
        /\ engine'[x].pc = engine[x].pc \/ engine[x].pc = "off"
        /\ \A y \in Execution \ {x} : engine'[y] = engine[y]
    BY <2>1, DispatchFields
  <2>3. QED
    BY <2>2 DEF EndedInv
<1>4. CASE \E x \in Execution : EngineStep(x)
  <2>1. PICK x \in Execution : EngineStep(x)
    BY <1>4
  <2>2. /\ engine'[x].aborted => engine'[x].pc \in {"enter", "next", "succeed", "failed"}
        /\ engine[x].aborted => nodeLog'[x] \in {nodeLog[x], NoLogs}
    BY <2>1, EndedStep
  <2>3. \A y \in Execution : y # x =>
          engine'[y] = engine[y] /\ nodeLog'[y] \in {nodeLog[y], NoLogs}
    BY <2>1, Others
  <2>4. \A s \in Step : NoLogs[s] = "none"
    BY DEF NoLogs
  <2>5. QED
    BY <2>2, <2>3, <2>4 DEF EndedInv
<1>5. QED
  BY <1>1, <1>2, <1>3, <1>4 DEF Next

\* Once a call has executed control:end, no call that is still under way enters a
\* node: each leaves its loop over the successors, however many it has left.
THEOREM EndIsFinalAlways == Spec => EndIsFinal
<1>1. Init => TypeInv /\ IdleInv /\ EndedInv
  <2> SUFFICES ASSUME Init PROVE EndedInv
    BY InitTypes
  <2>1. QED
    BY DEF Init, EndedInv, NoEngine
<1>2. (TypeInv /\ IdleInv /\ EndedInv) /\ [Next]_vars => (TypeInv /\ IdleInv /\ EndedInv)'
  BY NextTypes, EndedNext
<1>3. (TypeInv /\ IdleInv /\ EndedInv) /\ [Next]_vars =>
        [\A x \in Execution : engine[x].aborted =>
           \A s \in Step : nodeLog[x][s] = "none" => nodeLog'[x][s] = "none"]_vars
  BY EndedNext
<1>4. QED
  BY <1>1, <1>2, <1>3, PTL DEF Spec, EndIsFinal

(***************************************************************************)
(* Part five: what is left when nothing fails.  An execution of which no   *)
(* cleanup has deleted anything has the log rows of all calls under way,   *)
(* so nothing of it is rejected, and its engine writes its status.         *)
(***************************************************************************)
Walking == {"begin", "enter", "run", "complete", "next", "catch", "succeed", "failed"}

Logged(stack, logs) == \A i \in DOMAIN stack : logs[stack[i].step] # "none"

LogsThere ==
  /\ \A x \in Execution : engine[x].pc = "off" => ~ engine[x].rejected
  /\ faults = 0 => \A x \in Live \ Doomed : engine[x].pc \in Walking =>
                     ~ engine[x].rejected /\ Logged(engine[x].stack, nodeLog[x])

\* The calls of a longer and of a shorter stack.
LEMMA PushCalls ==
  ASSUME NEW stack \in Seq(Frame), NEW call \in Frame
  PROVE  /\ (<<call>> \o stack)[1] = call
         /\ DOMAIN (<<call>> \o stack) = 1 .. Len(stack) + 1
         /\ \A i \in DOMAIN stack : (<<call>> \o stack)[i + 1] = stack[i]
         /\ \A i \in DOMAIN (<<call>> \o stack) :
              i # 1 => /\ i - 1 \in DOMAIN stack
                       /\ (<<call>> \o stack)[i] = stack[i - 1]
<1>1. <<call>> \in Seq(Frame) /\ Len(<<call>>) = 1 /\ <<call>>[1] = call
  OBVIOUS
<1>2. Len(stack) \in Nat /\ DOMAIN stack = 1 .. Len(stack)
  BY LenProperties
<1> DEFINE s == <<call>> \o stack
<1>3. /\ Len(s) = 1 + Len(stack) /\ s \in Seq(Frame)
      /\ \A i \in 1 .. Len(s) : s[i] = IF i <= 1 THEN <<call>>[i] ELSE stack[i - 1]
  BY <1>1, ConcatProperties
<1>4. DOMAIN s = 1 .. Len(s)
  BY <1>3, LenProperties
<1> HIDE DEF s
<1>5. QED
  BY <1>1, <1>2, <1>3, <1>4 DEF s

LEMMA PopCalls ==
  ASSUME NEW stack \in Seq(Frame), stack # <<>>
  PROVE  /\ 1 \in DOMAIN stack /\ Head(stack) = stack[1] /\ Tail(stack) \in Seq(Frame)
         /\ \A i \in DOMAIN Tail(stack) : /\ i \in Nat /\ i + 1 \in DOMAIN stack
                                          /\ Tail(stack)[i] = stack[i + 1]
         /\ \A i \in DOMAIN stack : i # 1 => i - 1 \in DOMAIN Tail(stack)
<1>1. /\ Head(stack) = stack[1] /\ Tail(stack) \in Seq(Frame)
      /\ Len(Tail(stack)) = Len(stack) - 1
      /\ \A i \in 1 .. Len(Tail(stack)) : Tail(stack)[i] = stack[i + 1]
  BY HeadTailProperties
<1>2. /\ Len(stack) \in Nat /\ DOMAIN stack = 1 .. Len(stack) /\ Len(stack) # 0
      /\ DOMAIN Tail(stack) = 1 .. Len(Tail(stack))
  BY <1>1, LenProperties, EmptySeq
<1> DEFINE t == Tail(stack)
<1> HIDE DEF t
<1>3. QED
  BY <1>1, <1>2 DEF t

LEMMA LoggedPush ==
  ASSUME NEW stack \in Seq(Frame), NEW call \in Frame, NEW logs,
         Logged(stack, logs), logs[call.step] # "none"
  PROVE  Logged(<<call>> \o stack, logs)
<1> DEFINE s == <<call>> \o stack
<1>1. s[1] = call /\ \A i \in DOMAIN s : i # 1 => i - 1 \in DOMAIN stack /\ s[i] = stack[i - 1]
  BY PushCalls
<1> HIDE DEF s
<1>2. Logged(s, logs)
  BY <1>1 DEF Logged
<1>3. QED
  BY <1>2 DEF s

LEMMA LoggedTail ==
  ASSUME NEW stack \in Seq(Frame), stack # <<>>, NEW logs, Logged(stack, logs)
  PROVE  Logged(Tail(stack), logs) /\ logs[Head(stack).step] # "none"
BY PopCalls DEF Logged

\* The rows that are left after a step of an engine.
LEMMA RowsOfStep ==
  ASSUME TypeInv, NEW x \in Execution, EngineStep(x)
  PROVE  /\ \A y \in Execution : row'[y].startedAt = row[y].startedAt
         /\ ~ DeleteRows(x) => Live' = Live
         /\ DeleteRows(x) => Live' = Live \ engine[x].doomed
         /\ Live' \subseteq Live /\ Live \subseteq Execution
         /\ engine[x].pc # "off" /\ engine'[x].pc # "off"
<1>1. Live \subseteq Execution
  BY DEF Live
<1>2. engine[x].pc # "off"
  BY DEF EngineStep, Begin, Pass, GiveUp, Enter, Run, Complete, FollowEdge,
         Catch, Succeed, Fail, FindOld, DeleteLogs, DeleteRows, CleanupFails
<1>3. engine'[x].pc # "off"
  <2>1. CASE FindOld(x) \/ DeleteLogs(x)
    <3>1. ~ Succeed(x) /\ ~ (FindOld(x) /\ DeleteLogs(x))
      BY <2>1 DEF FindOld, DeleteLogs, Succeed
    <3>2. engine'[x].pc \in {"over", "logs", "rows"}
      BY <2>1, <3>1, EndFields
    <3>3. QED
      BY <3>2
  <2>2. QED
    BY <2>1, PcOfStep
<1>4. CASE DeleteRows(x)
  <2>1. \A y \in Execution :
          row'[y] = IF y \in engine[x].doomed THEN [row[y] EXCEPT !.status = "none"] ELSE row[y]
    BY <1>4 DEF DeleteRows
  <2>2. \A y \in Execution : row[y] \in Row
    BY DEF TypeInv, Types
  <2>3. \A y \in Execution : /\ row'[y].startedAt = row[y].startedAt
                             /\ row'[y].status = IF y \in engine[x].doomed THEN "none"
                                                                           ELSE row[y].status
    BY <2>1, <2>2 DEF Row
  <2>4. Live' = Live \ engine[x].doomed
    BY <2>3 DEF Live
  <2>5. QED
    BY <1>1, <1>2, <1>3, <1>4, <2>3, <2>4
<1>5. CASE ~ DeleteRows(x)
  <2>1. \/ UNCHANGED row
        \/ \E status \in {"RUNNING", "SUCCESS", "FAILED"} :
             x \in Live /\ row' = [row EXCEPT ![x].status = status]
    BY <1>5 DEF EngineStep, Begin, Pass, GiveUp, Enter, Run, Complete, FollowEdge,
           Catch, Succeed, Fail, FindOld, DeleteLogs, CleanupFails
  <2>2. Live' = Live
    BY <2>1, RowsKept
  <2>3. \A y \in Execution : row'[y].startedAt = row[y].startedAt
    BY <2>1 DEF TypeInv, Types, Row
  <2>4. QED
    BY <1>1, <1>2, <1>3, <1>5, <2>2, <2>3
<1>6. QED
  BY <1>4, <1>5

\* What is left of an execution when nothing failed was there before.
LEMMA SafeStep ==
  ASSUME TypeInv, NEW x \in Execution, EngineStep(x), faults = 0, faults' = 0,
         NEW y \in Live' \ Doomed'
  PROVE  /\ y \in Live \ Doomed /\ y \in Execution
         /\ \A s \in Step : nodeLog[y][s] # "none" => nodeLog'[y][s] # "none"
<1>1. y \in Live /\ y \in Execution
  BY RowsOfStep
<1>2. \A z \in Execution : z # x => engine'[z] = engine[z]
  BY Others
<1>3. y \notin Doomed
  <2> SUFFICES ASSUME NEW z \in Execution, engine[z].pc = "rows", y \in engine[z].doomed
               PROVE  FALSE
    BY DEF Doomed
  <2>1. CASE z # x
    <3>1. y \in Doomed'
      BY <1>2, <2>1 DEF Doomed
    <3>2. QED
      BY <3>1
  <2>2. CASE z = x
    <3>1. DeleteRows(x) \/ CleanupFails(x)
      BY <2>2 DEF EngineStep, Begin, Pass, GiveUp, Enter, Run, Complete, FollowEdge,
             Catch, Succeed, Fail, FindOld, DeleteLogs, DeleteRows, CleanupFails
    <3>2. ~ CleanupFails(x)
      BY DEF CleanupFails, Fails
    <3>3. Live' = Live \ engine[x].doomed
      BY <3>1, <3>2, RowsOfStep
    <3>4. QED
      BY <2>2, <3>3
  <2>3. QED
    BY <2>1, <2>2
<1>4. ASSUME NEW s \in Step, nodeLog[y][s] # "none"
      PROVE  nodeLog'[y][s] # "none"
  <2>0. nodeLog \in [Execution -> [Step -> LogStatus]]
    BY DEF TypeInv, Types
  <2>1. CASE UNCHANGED nodeLog
    BY <1>4, <2>1
  <2>2. CASE DeleteLogs(x)
    <3>1. ~ Succeed(x)
      BY <2>2 DEF DeleteLogs, Succeed
    <3>2. engine'[x].pc = "rows" /\ engine'[x].doomed = engine[x].doomed
      BY <2>2, <3>1, EndFields
    <3>3. y \notin engine[x].doomed
      BY <3>2 DEF Doomed
    <3>4. nodeLog'[y] = nodeLog[y]
      BY <1>1, <2>2, <3>3 DEF DeleteLogs
    <3>5. QED
      BY <1>4, <3>4
  <2>3. CASE DeleteRows(x)
    <3>1. y \notin engine[x].doomed
      BY <2>3, RowsOfStep
    <3>2. nodeLog'[y] = nodeLog[y]
      BY <1>1, <2>3, <3>1 DEF DeleteRows
    <3>3. QED
      BY <1>4, <3>2
  <2>4. CASE Enter(x) \/ Complete(x) \/ Catch(x)
    <3>1. \/ UNCHANGED nodeLog
          \/ nodeLog' = [nodeLog EXCEPT ![x][engine[x].steps + 1] = "RUNNING"]
          \/ nodeLog' = [nodeLog EXCEPT ![x][Top(engine[x]).step] = "SUCCESS"]
          \/ nodeLog' = [nodeLog EXCEPT ![x][Top(engine[x]).step] = "FAILED"]
      BY <2>4 DEF Enter, Complete, Catch
    <3>2. QED
      BY <1>1, <1>4, <2>0, <3>1
  <2>5. CASE Begin(x) \/ Pass(x) \/ GiveUp(x) \/ Run(x) \/ FollowEdge(x) \/ Succeed(x)
             \/ Fail(x) \/ FindOld(x) \/ CleanupFails(x)
    BY <2>1, <2>5 DEF Begin, Pass, GiveUp, Run, FollowEdge, Succeed, Fail, FindOld,
                      CleanupFails
  <2>6. QED
    BY <2>2, <2>3, <2>4, <2>5 DEF EngineStep
<1>5. QED
  BY <1>1, <1>3, <1>4

\* Nothing is rejected of an execution of which nothing was deleted: its walk goes
\* on, or ends with a status.
LEMMA WalkStep ==
  ASSUME TypeInv, LogsThere, NEW x \in Live \ Doomed, EngineStep(x),
         engine[x].pc \in Walking, faults = 0, faults' = 0
  PROVE  /\ engine'[x].pc \in Walking \union {"cleanup"}
         /\ engine'[x].pc = "cleanup" => row'[x].status # "RUNNING"
         /\ x \in Live' /\ ~ engine'[x].rejected
         /\ engine'[x].pc \in Walking => Logged(engine'[x].stack, nodeLog'[x])
<1> DEFINE e    == engine[x]
           f    == engine'[x]
           logs == nodeLog[x]
<1>1. /\ x \in Execution /\ e \in Engine /\ StackOK(e)
      /\ engine \in [Execution -> Engine] /\ row \in [Execution -> Row]
      /\ nodeLog \in [Execution -> [Step -> LogStatus]]
  BY DEF TypeInv, Types, Live
<1>2. e.stack \in Seq(Frame)
  BY <1>1 DEF Engine
<1>3. ~ e.rejected /\ Logged(e.stack, logs)
  BY DEF LogsThere
<1>4. ~ Lost(x) /\ ~ Fails
  BY DEF Lost, Fails
<1>5. Live' = Live
  <2>1. ~ DeleteRows(x)
    BY DEF DeleteRows, Walking
  <2>2. QED
    BY <1>1, <2>1, RowsOfStep
<1>6. e.stack # <<>> => /\ Top(e) \in Frame /\ Top(e) = e.stack[1] /\ 1 \in DOMAIN e.stack
                        /\ logs[Top(e).step] # "none" /\ Logged(Tail(e.stack), logs)
                        /\ Tail(e.stack) \in Seq(Frame)
  BY <1>1, <1>2, <1>3, LoggedTail, PopCalls, TailType DEF Top
<1>7. ASSUME NEW stack \in Seq(Frame), Logged(stack, logs), NEW t, NEW s,
             s # "none", nodeLog' = [nodeLog EXCEPT ![x][t] = s]
      PROVE  Logged(stack, nodeLog'[x])
  <2>1. \A i \in DOMAIN stack : stack[i].step \in Step
    <3>1. DOMAIN stack = 1 .. Len(stack)
      BY LenProperties
    <3>2. \A i \in DOMAIN stack : stack[i] \in Frame
      BY <3>1, ElementOfSeq
    <3>3. QED
      BY <3>2 DEF Frame
  <2>2. \A u \in Step : logs[u] # "none" => nodeLog'[x][u] # "none"
    BY <1>1, <1>7
  <2>3. QED
    BY <1>7, <2>1, <2>2 DEF Logged
<1>8. CASE Begin(x)
  <2>1. f.pc = "enter" /\ f.rejected = e.rejected /\ f.stack = e.stack /\ nodeLog' = nodeLog
    BY <1>1, <1>4, <1>8 DEF Begin, Engine
  <2>2. QED
    BY <1>3, <1>5, <2>1 DEF Walking
<1>9. CASE Pass(x) \/ GiveUp(x)
  <2>1. f.pc \in Walking /\ f.rejected = e.rejected /\ f.stack = e.stack
    BY <1>1, <1>9, PassFields DEF Rest, Walking
  <2>2. nodeLog' = nodeLog /\ f.pc # "cleanup"
    BY <1>9, <2>1 DEF Pass, GiveUp, Walking
  <2>3. QED
    BY <1>3, <1>5, <2>1, <2>2
<1>10. CASE Enter(x)
  <2> DEFINE call == NewCall(e)
  <2>1. /\ call \in Frame /\ f.pc = "run" /\ f.rejected = e.rejected
        /\ f.stack = <<call>> \o e.stack
        /\ nodeLog' = [nodeLog EXCEPT ![x][call.step] = "RUNNING"]
    BY <1>1, <1>4, <1>10, EnterFields
  <2> HIDE DEF call
  <2>2. Logged(e.stack, nodeLog'[x])
    BY <1>2, <1>3, <1>7, <2>1
  <2>3. call.step \in Step
    BY <2>1 DEF Frame
  <2>4. nodeLog'[x][call.step] # "none"
    BY <1>1, <2>1, <2>3
  <2>5. Logged(f.stack, nodeLog'[x])
    BY <1>2, <2>1, <2>2, <2>4, LoggedPush
  <2>6. QED
    BY <1>3, <1>5, <2>1, <2>5 DEF Walking
<1>11. CASE Run(x)
  <2>1. e.stack # <<>> /\ nodeLog' = nodeLog
    BY <1>1, <1>11 DEF Run, StackOK
  <2>2. f.rejected = e.rejected
    BY <1>1, <1>11, RunFields DEF Rest
  <2>3. CASE f.pc = "catch" /\ f.stack = e.stack
    BY <1>3, <1>5, <2>1, <2>2, <2>3 DEF Walking
  <2>4. CASE f.pc = "complete" /\ \E call \in Frame :
               call.step = Top(e).step /\ f.stack = <<call>> \o Tail(e.stack)
    <3>1. PICK call \in Frame : call.step = Top(e).step /\ f.stack = <<call>> \o Tail(e.stack)
      BY <2>4
    <3>2. Logged(f.stack, logs)
      BY <1>6, <2>1, <3>1, LoggedPush
    <3>3. QED
      BY <1>3, <1>5, <2>1, <2>2, <2>4, <3>2 DEF Walking
  <2>5. QED
    BY <1>1, <1>11, <2>3, <2>4, RunFields
<1>12. CASE Complete(x)
  <2>1. e.stack # <<>>
    BY <1>1, <1>12 DEF Complete, StackOK
  <2>2. HasLog(x)
    BY <1>6, <2>1 DEF HasLog
  <2>3. /\ f.rejected = e.rejected /\ f.pc \in {"succeed", "next"}
        /\ f.stack \in {Tail(e.stack), e.stack}
        /\ nodeLog' = [nodeLog EXCEPT ![x][Top(e).step] = "SUCCESS"]
    BY <1>1, <1>4, <1>12, <2>2, CompleteFields
  <2>4. Logged(f.stack, nodeLog'[x])
    BY <1>2, <1>3, <1>6, <1>7, <2>1, <2>3
  <2>5. QED
    BY <1>3, <1>5, <2>3, <2>4 DEF Walking
<1>13. CASE FollowEdge(x)
  <2>1. e.stack # <<>> /\ nodeLog' = nodeLog
    BY <1>1, <1>13 DEF FollowEdge, StackOK
  <2>2. f.rejected = e.rejected
    BY <1>1, <1>13, FollowEdgeFields DEF Rest
  <2>3. CASE f.pc \in {"succeed", "next"} /\ f.stack = Tail(e.stack)
    BY <1>3, <1>5, <1>6, <2>1, <2>2, <2>3 DEF Walking
  <2>4. CASE f.pc = "enter" /\ \E call \in Frame :
               call.step = Top(e).step /\ f.stack = <<call>> \o Tail(e.stack)
    <3>1. PICK call \in Frame : call.step = Top(e).step /\ f.stack = <<call>> \o Tail(e.stack)
      BY <2>4
    <3>2. Logged(f.stack, logs)
      BY <1>6, <2>1, <3>1, LoggedPush
    <3>3. QED
      BY <1>3, <1>5, <2>1, <2>2, <2>4, <3>2 DEF Walking
  <2>5. QED
    BY <1>1, <1>13, <2>3, <2>4, FollowEdgeFields
<1>14. CASE Catch(x)
  <2>1. e.stack # <<>>
    BY <1>1, <1>14 DEF Catch, StackOK
  <2>2. HasLog(x)
    BY <1>6, <2>1 DEF HasLog
  <2>3. /\ f.rejected = e.rejected /\ f.pc \in {"failed", "catch"} /\ f.stack = Tail(e.stack)
        /\ nodeLog' = [nodeLog EXCEPT ![x][Top(e).step] = "FAILED"]
    BY <1>1, <1>4, <1>14, <2>2, CatchFields
  <2>4. Logged(f.stack, nodeLog'[x])
    BY <1>6, <1>7, <2>1, <2>3
  <2>5. QED
    BY <1>3, <1>5, <2>3, <2>4 DEF Walking
<1>15. CASE Succeed(x) \/ Fail(x)
  <2>1. ~ StatusLost(x)
    BY <1>3, <1>4 DEF StatusLost
  <2>2. /\ f = [Over EXCEPT !.pc = "cleanup"]
        /\ \E s \in {"SUCCESS", "FAILED"} : row' = [row EXCEPT ![x].status = s]
    BY <1>1, <1>15, <2>1 DEF Succeed, Fail
  <2>3. f.pc = "cleanup" /\ ~ f.rejected
    BY <2>2 DEF Over, NoEngine
  <2>4. row'[x].status # "RUNNING"
    BY <1>1, <2>2 DEF Row
  <2>5. QED
    BY <1>5, <2>3, <2>4 DEF Walking
<1>16. ~ (FindOld(x) \/ DeleteLogs(x) \/ DeleteRows(x) \/ CleanupFails(x))
  BY DEF FindOld, DeleteLogs, DeleteRows, CleanupFails, Walking
<1>17. QED
  BY <1>8, <1>9, <1>10, <1>11, <1>12, <1>13, <1>14, <1>15, <1>16 DEF EngineStep

\* An execution that is there has been linked or will be, an email that was skipped
\* has none; and an engine that is past its walk has written its status.
SettledInv ==
  /\ \A x \in Execution : /\ dispatch[x].linked => x \in Live
                          /\ dispatch[x].pc # "over" => ~ dispatch[x].skipped
  /\ faults = 0 => \A x \in Execution :
       /\ engine[x].pc \in {"cleanup", "logs", "rows", "over"} =>
            row[x].status # "RUNNING" \/ x \in Doomed
       /\ dispatch[x].pc = "skip" => x \notin Live
       /\ dispatch[x].pc = "over" => /\ x \in Live => dispatch[x].linked
                                     /\ dispatch[x].skipped => x \notin Live

LEMMA LoggedKept ==
  ASSUME NEW stack \in Seq(Frame), NEW old, NEW new, Logged(stack, old),
         \A s \in Step : old[s] # "none" => new[s] # "none"
  PROVE  Logged(stack, new)
<1>1. DOMAIN stack = 1 .. Len(stack)
  BY LenProperties
<1>2. \A i \in DOMAIN stack : stack[i] \in Frame
  BY <1>1, ElementOfSeq
<1>3. QED
  BY <1>2 DEF Logged, Frame

LEMMA EndPc ==
  ASSUME TypeInv, NEW x \in Execution, EngineStep(x), engine[x].pc \notin Walking
  PROVE  /\ FindOld(x) \/ DeleteLogs(x) \/ DeleteRows(x) \/ CleanupFails(x)
         /\ engine[x].pc \in {"cleanup", "logs", "rows"}
         /\ engine'[x].pc \in {"logs", "rows", "over"}
<1>1. /\ FindOld(x) \/ DeleteLogs(x) \/ DeleteRows(x) \/ CleanupFails(x)
      /\ ~ Succeed(x) /\ ~ Fail(x)
  BY DEF EngineStep, Begin, Pass, GiveUp, Enter, Run, Complete, FollowEdge,
         Catch, Succeed, Fail, Walking
<1>2. engine[x].pc \in {"cleanup", "logs", "rows"}
  BY <1>1 DEF FindOld, DeleteLogs, DeleteRows, CleanupFails
<1>3. engine'[x].pc \in {"logs", "rows", "over"}
  BY <1>1, EndFields
<1>4. QED
  BY <1>1, <1>2, <1>3

LEMMA LogsThereStep ==
  ASSUME TypeInv, LogsThere, [Next]_vars, NEW x \in Execution, EngineStep(x)
  PROVE  LogsThere'
<1>1. /\ \A y \in Execution : y # x => engine'[y] = engine[y]
      /\ engine'[x].pc # "off"
  BY Others, RowsOfStep
<1>2. \A y \in Execution : engine'[y].pc = "off" => ~ engine'[y].rejected
  BY <1>1 DEF LogsThere
<1>3. ASSUME faults' = 0, NEW y \in Live' \ Doomed', engine'[y].pc \in Walking
      PROVE  ~ engine'[y].rejected /\ Logged(engine'[y].stack, nodeLog'[y])
  <2>1. faults = 0
    BY <1>3, CalmBefore
  <2>2. /\ y \in Live \ Doomed /\ y \in Execution
        /\ \A s \in Step : nodeLog[y][s] # "none" => nodeLog'[y][s] # "none"
    BY <1>3, <2>1, SafeStep
  <2>3. CASE y = x
    <3>1. engine[x].pc \in Walking
      <4>1. engine'[x].pc \notin {"logs", "rows", "over"}
        BY <1>3, <2>3 DEF Walking
      <4>2. QED
        BY <4>1, EndPc
    <3>2. QED
      BY <1>3, <2>1, <2>2, <2>3, <3>1, WalkStep
  <2>4. CASE y # x
    <3>1. engine'[y] = engine[y] /\ engine[y].stack \in Seq(Frame)
      BY <1>1, <2>2, <2>4 DEF TypeInv, Types, Engine
    <3>2. ~ engine[y].rejected /\ Logged(engine[y].stack, nodeLog[y])
      BY <1>3, <2>1, <2>2, <3>1 DEF LogsThere
    <3>3. QED
      BY <2>2, <3>1, <3>2, LoggedKept
  <2>5. QED
    BY <2>3, <2>4
<1>4. QED
  BY <1>2, <1>3 DEF LogsThere

LEMMA SettledStep ==
  ASSUME TypeInv, LogsThere, SettledInv, [Next]_vars, NEW x \in Execution, EngineStep(x)
  PROVE  SettledInv'
<1>1. \A y \in Execution :
        /\ dispatch'[y].pc = dispatch[y].pc /\ dispatch'[y].skipped = dispatch[y].skipped
        /\ dispatch'[y].linked => dispatch[y].linked
        /\ y \in Live' => dispatch'[y].linked = dispatch[y].linked
        /\ y \in Live /\ y \notin Live' => ~ dispatch'[y].linked
  <2>1. CASE DeleteRows(x)
    <3>1. /\ Live' = Live \ engine[x].doomed
          /\ \A y \in Execution :
               dispatch'[y] = IF y \in engine[x].doomed
                                THEN [dispatch[y] EXCEPT !.linked = FALSE] ELSE dispatch[y]
      BY <2>1, RowsOfStep DEF DeleteRows
    <3>2. \A y \in Execution : dispatch[y] \in Dispatch
      BY DEF TypeInv, Types
    <3>3. \A d \in Dispatch : LET c == [d EXCEPT !.linked = FALSE]
                              IN  c.pc = d.pc /\ c.skipped = d.skipped /\ ~ c.linked
      BY DEF Dispatch
    <3>4. QED
      BY <3>1, <3>2, <3>3
  <2>2. CASE ~ DeleteRows(x)
    <3>1. Live' = Live
      BY <2>2, RowsOfStep
    <3>2. dispatch' = dispatch
      BY <2>2 DEF EngineStep, Begin, Pass, GiveUp, Enter, Run, Complete, FollowEdge,
             Catch, Succeed, Fail, FindOld, DeleteLogs, CleanupFails
    <3>3. QED
      BY <3>1, <3>2
  <2>3. QED
    BY <2>1, <2>2
<1>2. Live' \subseteq Live
  BY RowsOfStep
<1>3. \A y \in Execution : /\ dispatch'[y].linked => y \in Live'
                           /\ dispatch'[y].pc # "over" => ~ dispatch'[y].skipped
  BY <1>1 DEF SettledInv
<1>4. ASSUME faults' = 0, NEW y \in Execution
      PROVE  /\ engine'[y].pc \in {"cleanup", "logs", "rows", "over"} =>
                  row'[y].status # "RUNNING" \/ y \in Doomed'
             /\ dispatch'[y].pc = "skip" => y \notin Live'
             /\ dispatch'[y].pc = "over" => /\ y \in Live' => dispatch'[y].linked
                                            /\ dispatch'[y].skipped => y \notin Live'
  <2>1. faults = 0
    BY <1>4, CalmBefore
  <2>2. ASSUME engine'[y].pc \in {"cleanup", "logs", "rows", "over"},
               row'[y].status = "RUNNING", y \notin Doomed'
        PROVE  FALSE
    <3>1. y \in Live' \ Doomed'
      BY <2>2 DEF Live
    <3>2. y \in Live \ Doomed
      BY <1>4, <2>1, <3>1, SafeStep
    <3>3. CASE y # x
      <4>1. engine'[y] = engine[y] /\ row[y].status = "RUNNING"
        BY <2>2, <3>3, Others
      <4>2. QED
        BY <2>1, <2>2, <3>2, <4>1 DEF SettledInv
    <3>4. CASE y = x /\ engine[x].pc \in Walking
      <4>1. /\ engine'[x].pc \in Walking \union {"cleanup"}
            /\ engine'[x].pc = "cleanup" => row'[x].status # "RUNNING"
        BY <1>4, <2>1, <3>2, <3>4, WalkStep
      <4>2. QED
        BY <2>2, <3>4, <4>1 DEF Walking
    <3>5. CASE y = x /\ engine[x].pc \notin Walking
      <4>1. /\ FindOld(x) \/ DeleteLogs(x) \/ DeleteRows(x) \/ CleanupFails(x)
            /\ engine[x].pc \in {"cleanup", "logs", "rows"}
        BY <3>5, EndPc
      <4>2. row[x].status # "RUNNING"
        BY <2>1, <3>2, <3>5, <4>1 DEF SettledInv
      <4>3. row'[x].status \in {row[x].status, "none"}
        <5>1. CASE DeleteRows(x)
          <6>1. row'[x] = IF x \in engine[x].doomed THEN [row[x] EXCEPT !.status = "none"]
                                                    ELSE row[x]
            BY <5>1 DEF DeleteRows
          <6>2. row[x] \in Row
            BY DEF TypeInv, Types
          <6>3. QED
            BY <6>1, <6>2 DEF Row
        <5>2. CASE FindOld(x) \/ DeleteLogs(x) \/ CleanupFails(x)
          BY <5>2 DEF FindOld, DeleteLogs, CleanupFails
        <5>3. QED
          BY <4>1, <5>1, <5>2
      <4>4. QED
        BY <2>2, <3>5, <4>2, <4>3
    <3>6. QED
      BY <3>3, <3>4, <3>5
  <2>3. QED
    BY <1>1, <1>2, <2>1, <2>2 DEF SettledInv
<1>5. QED
  BY <1>3, <1>4 DEF SettledInv

\* A dispatch starts an engine with its execution, or leaves all executions alone.
LEMMA DispatchRows ==
  ASSUME TypeInv, IdleInv, DoomedInv, NEW x \in Execution, ReceiveEmail(x) \/ DispatchStep(x)
  PROVE  /\ Doomed' = Doomed
         /\ \A y \in Execution : engine'[y].doomed = engine[y].doomed
         /\ \/ /\ UNCHANGED row /\ Live' = Live
               /\ \A y \in Execution : engine'[y].pc = engine[y].pc
            \/ /\ CreateExecution(x) /\ x \notin Live /\ Live' = Live \union {x}
               /\ engine[x].pc = "off" /\ engine'[x].pc = "begin"
               /\ \A y \in Execution \ {x} : engine'[y] = engine[y]
               /\ dispatch' = [dispatch EXCEPT ![x].pc = "link"]
               /\ row' = [row EXCEPT ![x] =
                            [status    |-> "RUNNING",
                             startedAt |-> 1 + Cardinality({y \in Execution :
                                                             row[y].startedAt > 0})]]
<1>1. /\ engine \in [Execution -> Engine] /\ row \in [Execution -> Row]
      /\ Live \subseteq Execution
  BY DEF TypeInv, Types, Live
<1>2. /\ \A y \in Execution \ {x} : engine'[y] = engine[y]
      /\ engine'[x].doomed = engine[x].doomed
  BY DispatchFields
<1>3. CASE UNCHANGED row /\ engine'[x].pc = engine[x].pc
  <2>1. \A y \in Execution : engine'[y].pc = engine[y].pc /\ engine'[y].doomed = engine[y].doomed
    BY <1>2, <1>3
  <2>2. Doomed' = Doomed
    BY <2>1 DEF Doomed
  <2>3. Live' = Live
    BY <1>3 DEF Live
  <2>4. QED
    BY <1>3, <2>1, <2>2, <2>3
<1>4. CASE CreateExecution(x) /\ engine[x].pc = "off" /\ engine'[x].pc = "begin"
  <2>1. engine' # engine
    BY <1>4
  <2>2. /\ dispatch' = [dispatch EXCEPT ![x].pc = "link"]
        /\ row' = [row EXCEPT ![x] =
                            [status    |-> "RUNNING",
                             startedAt |-> 1 + Cardinality({y \in Execution :
                                                             row[y].startedAt > 0})]]
    BY <1>4, <2>1 DEF CreateExecution
  <2>3. x \notin Live
    BY <1>4 DEF DoomedInv
  <2>4. Live' = Live \union {x}
    <3>1. \A y \in Execution : row'[y].status = IF y = x THEN "RUNNING" ELSE row[y].status
      BY <1>1, <2>2
    <3>2. QED
      BY <3>1 DEF Live
  <2>5. \A y \in Execution : /\ engine'[y].pc = "rows" <=> engine[y].pc = "rows"
                             /\ engine'[y].doomed = engine[y].doomed
    BY <1>2, <1>4
  <2>6. Doomed' = Doomed
    BY <2>5 DEF Doomed
  <2>7. QED
    BY <1>2, <1>4, <2>2, <2>3, <2>4, <2>5, <2>6
<1>5. CASE ~ CreateExecution(x)
  <2>1. UNCHANGED row
    BY <1>5 DEF ReceiveEmail, DispatchStep, LogDispatch, ReadWorkflow, LinkExecution, LogSkipped
  <2>2. engine'[x].pc = engine[x].pc
    BY <1>5, DispatchFields
  <2>3. QED
    BY <1>3, <2>1, <2>2
<1>6. QED
  BY <1>3, <1>4, <1>5, DispatchFields

LEMMA LogsThereDispatch ==
  ASSUME TypeInv, IdleInv, DoomedInv, LogsThere, [Next]_vars, NEW x \in Execution,
         ReceiveEmail(x) \/ DispatchStep(x)
  PROVE  LogsThere'
<1>1. /\ UNCHANGED nodeLog
      /\ \A y \in Execution : /\ engine'[y].stack = engine[y].stack
                              /\ engine'[y].rejected = engine[y].rejected
  BY DispatchFields
<1>2. faults' = 0 => faults = 0
  BY CalmBefore
<1>3. CASE UNCHANGED row /\ Live' = Live /\ Doomed' = Doomed
           /\ \A y \in Execution : engine'[y].pc = engine[y].pc
  <2>1. Live \subseteq Execution
    BY DEF Live
  <2>2. QED
    BY <1>1, <1>2, <1>3, <2>1 DEF LogsThere
<1>4. CASE /\ Live' = Live \union {x} /\ Doomed' = Doomed
           /\ engine[x].pc = "off" /\ engine'[x].pc = "begin"
           /\ \A y \in Execution \ {x} : engine'[y] = engine[y]
  <2>1. Live \subseteq Execution /\ engine[x].stack = <<>> /\ ~ engine[x].rejected
    BY <1>4 DEF Live, LogsThere, TypeInv, StackOK
  <2>2. Logged(engine'[x].stack, nodeLog'[x])
    BY <1>1, <2>1 DEF Logged
  <2>3. QED
    BY <1>1, <1>2, <1>4, <2>1, <2>2 DEF LogsThere
<1>5. QED
  BY <1>3, <1>4, DispatchRows

LEMMA SettledDispatch ==
  ASSUME TypeInv, IdleInv, DoomedInv, SettledInv, [Next]_vars, NEW x \in Execution,
         ReceiveEmail(x) \/ DispatchStep(x)
  PROVE  SettledInv'
<1>1. /\ dispatch \in [Execution -> Dispatch] /\ dispatch[x] \in Dispatch
      /\ faults \in Nat
  BY EngineAssumption DEF TypeInv, Types
<1>2. faults' = 0 => faults = 0 /\ ~ Fails
  <2>1. faults' = 0 => faults = 0
    BY CalmBefore
  <2>2. QED
    BY <2>1 DEF Fails
<1>3. dispatch[x].pc \in {"off", "send", "read", "create"} => x \notin Live
  BY DEF IdleInv, DoomedInv
<1>4. CASE /\ CreateExecution(x) /\ x \notin Live /\ Live' = Live \union {x}
           /\ engine[x].pc = "off" /\ engine'[x].pc = "begin"
           /\ \A y \in Execution \ {x} : engine'[y] = engine[y]
           /\ dispatch' = [dispatch EXCEPT ![x].pc = "link"]
           /\ \E r : row' = [row EXCEPT ![x] = r]
           /\ Doomed' = Doomed
  <2>1. /\ dispatch'[x].pc = "link" /\ dispatch'[x].linked = dispatch[x].linked
        /\ dispatch'[x].skipped = dispatch[x].skipped /\ dispatch[x].pc = "create"
    BY <1>1, <1>4 DEF Dispatch, CreateExecution
  <2>2. \A y \in Execution : y # x => dispatch'[y] = dispatch[y] /\ row'[y] = row[y]
                                      /\ engine'[y] = engine[y]
    BY <1>1, <1>4 DEF TypeInv, Types
  <2>3. QED
    BY <1>2, <1>4, <2>1, <2>2 DEF SettledInv
<1>5. CASE /\ UNCHANGED row /\ Live' = Live /\ Doomed' = Doomed
           /\ \A y \in Execution : engine'[y].pc = engine[y].pc
  <2> DEFINE d == dispatch[x]
             c == dispatch'[x]
  <2>1. /\ \A y \in Execution : y # x => dispatch'[y] = dispatch[y]
        /\ c.linked => d.linked \/ x \in Live
        /\ c.pc # "over" => ~ c.skipped
        /\ faults' = 0 =>
             /\ c.pc = "skip" => x \notin Live
             /\ c.pc = "over" => /\ x \in Live => c.linked
                                 /\ c.skipped => x \notin Live
    <3>1. d.pc # "over" /\ ~ d.skipped
      <4>1. d.pc # "over"
        BY DEF ReceiveEmail, DispatchStep, LogDispatch, ReadWorkflow, CreateExecution,
               LinkExecution, LogSkipped
      <4>2. QED
        BY <4>1 DEF SettledInv
    <3>2. CASE ReceiveEmail(x)
      BY <1>1, <1>2, <3>1, <3>2 DEF ReceiveEmail, Dispatch
    <3>3. CASE LogDispatch(x)
      BY <1>1, <1>2, <3>1, <3>3 DEF LogDispatch, Dispatch
    <3>4. CASE ReadWorkflow(x)
      BY <1>1, <1>2, <1>3, <3>1, <3>4 DEF ReadWorkflow, Dispatch
    <3>5. CASE CreateExecution(x)
      <4>1. dispatch' = [dispatch EXCEPT ![x].pc = "skip"] \/ dispatch' = [dispatch EXCEPT ![x].pc = "link"]
        BY <3>5 DEF CreateExecution
      <4>2. x \notin Live
        BY <1>3, <3>5 DEF CreateExecution
      <4>3. QED
        BY <1>1, <3>1, <4>1, <4>2 DEF Dispatch
    <3>6. CASE LinkExecution(x)
      <4>1. \/ x \in Live /\ dispatch' = [dispatch EXCEPT ![x].pc = "over", ![x].linked = TRUE]
            \/ /\ Fails \/ x \notin Live
               /\ dispatch' = [dispatch EXCEPT ![x].pc = "skip"]
        BY <3>6 DEF LinkExecution, Lost
      <4>2. QED
        BY <1>1, <1>2, <3>1, <4>1 DEF Dispatch
    <3>7. CASE LogSkipped(x)
      <4>1. \/ dispatch' = [dispatch EXCEPT ![x].pc = "over", ![x].skipped = TRUE]
            \/ Fails /\ dispatch' = [dispatch EXCEPT ![x].pc = "over"]
        BY <3>7 DEF LogSkipped
      <4>2. faults' = 0 => x \notin Live
        BY <1>2, <3>7 DEF SettledInv, LogSkipped
      <4>3. QED
        BY <1>1, <1>2, <3>1, <4>1, <4>2 DEF Dispatch
    <3>8. QED
      BY <3>2, <3>3, <3>4, <3>5, <3>6, <3>7 DEF DispatchStep
  <2> HIDE DEF c, d
  <2>2. QED
    BY <1>2, <1>5, <2>1 DEF SettledInv, c, d
<1>6. QED
  BY <1>4, <1>5, DispatchRows

LEMMA NextSettled ==
  ASSUME TypeInv, IdleInv, DoomedInv, LogsThere, SettledInv, [Next]_vars
  PROVE  LogsThere' /\ SettledInv'
<1>1. CASE PatchWorkflow \/ UNCHANGED vars
  <2>1. UNCHANGED <<row, nodeLog, dispatch, engine, faults>>
    BY <1>1 DEF PatchWorkflow, vars
  <2>2. Live' = Live /\ Doomed' = Doomed
    BY <2>1 DEF Live, Doomed
  <2>3. LogsThere'
    BY <2>1, <2>2 DEF LogsThere
  <2>4. SettledInv'
    BY <2>1, <2>2 DEF SettledInv
  <2>5. QED
    BY <2>3, <2>4
<1>2. CASE Restart
  <2>1. faults' # 0
    BY <1>2, EngineAssumption DEF Restart, Fails, TypeInv, Types
  <2>2. Live' = Live
    BY <1>2 DEF Restart, Live
  <2>3. ~ Over.rejected /\ Over.pc = "over"
    BY DEF Over, NoEngine
  <2>4. LogsThere'
    BY <1>2, <2>1, <2>3 DEF Restart, LogsThere
  <2>5. \A y \in Execution :
          /\ dispatch'[y].linked = dispatch[y].linked
          /\ dispatch'[y].pc # "over" => dispatch'[y] = dispatch[y]
    <3>1. \A d \in Dispatch : LET c == [d EXCEPT !.pc = "over"]
                              IN  c.pc = "over" /\ c.linked = d.linked
      BY DEF Dispatch
    <3>2. \A y \in Execution : dispatch[y] \in Dispatch
      BY DEF TypeInv, Types
    <3>3. QED
      BY <1>2, <3>1, <3>2 DEF Restart
  <2>6. SettledInv'
    BY <2>1, <2>2, <2>5 DEF SettledInv
  <2>7. QED
    BY <2>4, <2>6
<1>3. CASE \E x \in Execution : ReceiveEmail(x) \/ DispatchStep(x)
  BY <1>3, LogsThereDispatch, SettledDispatch
<1>4. CASE \E x \in Execution : EngineStep(x)
  BY <1>4, LogsThereStep, SettledStep
<1>5. QED
  BY <1>1, <1>2, <1>3, <1>4 DEF Next

WalkInv == TypeInv /\ IdleInv /\ DoomedInv /\ LogsThere /\ SettledInv

LEMMA InitWalk ==
  ASSUME Init
  PROVE  WalkInv
<1>1. TypeInv /\ IdleInv
  BY InitTypes
<1>2. DoomedInv /\ LogsThere /\ SettledInv
  BY DEF Init, DoomedInv, LogsThere, SettledInv, NoEngine, Live, Walking
<1>3. QED
  BY <1>1, <1>2 DEF WalkInv

LEMMA NextWalk ==
  ASSUME WalkInv, [Next]_vars
  PROVE  WalkInv'
BY NextTypes, NextDoomed, NextSettled DEF WalkInv

\* As long as no statement fails, an engine that is over has written SUCCESS or
\* FAILED, or a cleanup is deleting the row of its execution; and a dispatch that is
\* over is linked to its execution as long as it is there, or says that the email
\* was skipped, and then there is none.
THEOREM SettledAlways == Spec => []Settled
<1>1. WalkInv => Settled
  <2> SUFFICES ASSUME WalkInv, faults = 0, NEW x \in Execution
               PROVE  /\ engine[x].pc = "over" => row[x].status # "RUNNING" \/ x \in Doomed
                      /\ dispatch[x].pc = "over" => /\ dispatch[x].linked <=> x \in Live
                                                    /\ dispatch[x].skipped => x \notin Live
    BY DEF Settled
  <2>1. dispatch[x].linked \in BOOLEAN
    BY DEF WalkInv, TypeInv, Types, Dispatch
  <2>2. QED
    BY <2>1 DEF WalkInv, SettledInv
<1>2. QED
  BY <1>1, InitWalk, NextWalk, PTL DEF Spec

(***************************************************************************)
(* Part six: how many executions are left.  Whichever of the cleanups that *)
(* have read their list come to delete by it, the executions that are left *)
(* then are no more than the limit and the engines still to clean up.  An  *)
(* engine in its walk counts if no such cleanup deletes its execution.     *)
(***************************************************************************)
Listing  == {x \in Execution : engine[x].pc \in {"logs", "rows"}}
Deleting == {x \in Execution : engine[x].pc = "rows"}

DoomedBy(D) == UNION {engine[x].doomed : x \in D}

Counted(D) == {x \in Execution \ D :
                 /\ engine[x].pc \notin {"off", "over"}
                 /\ engine[x].pc \in Walking => x \in Live \ DoomedBy(D)}

LimitInv ==
  faults = 0 => \A D \in SUBSET Listing :
    Deleting \subseteq D =>
      Cardinality(Live \ DoomedBy(D)) <= setting + Cardinality(Counted(D))

\* The executions start one after the other.
Started == {x \in Execution : row[x].startedAt > 0}

StartInv ==
  /\ \A x \in Execution : row[x].startedAt <= Cardinality(Started)
  /\ \A x \in Live : row[x].startedAt > 0
  /\ \A x, y \in Execution :
       x # y /\ row[x].startedAt > 0 => row[x].startedAt # row[y].startedAt
  /\ \A x \in Execution : engine[x].pc = "off" => row[x].startedAt = 0

LEMMA StartStep ==
  ASSUME TypeInv, StartInv, \A y \in Execution : row'[y].startedAt = row[y].startedAt,
         Live' \subseteq Live, Live \subseteq Execution,
         \A y \in Execution : engine'[y].pc = "off" => engine[y].pc = "off"
  PROVE  StartInv'
<1>1. Started' = Started
  BY DEF Started
<1>2. QED
  BY <1>1 DEF StartInv

LEMMA StartCreate ==
  ASSUME TypeInv, StartInv, NEW x \in Execution, engine[x].pc = "off",
         engine'[x].pc = "begin", \A y \in Execution \ {x} : engine'[y] = engine[y],
         Live' = Live \union {x}, Live \subseteq Execution,
         row' = [row EXCEPT ![x] = [status    |-> "RUNNING",
                                    startedAt |-> 1 + Cardinality(Started)]]
  PROVE  StartInv'
<1> DEFINE n == Cardinality(Started)
<1>1. Started \subseteq Execution /\ x \notin Started
  BY DEF Started, StartInv
<1>2. IsFiniteSet(Started) /\ n \in Nat
  BY <1>1, CountType
<1>3. /\ row'[x].startedAt = 1 + n
      /\ \A y \in Execution \ {x} : row'[y].startedAt = row[y].startedAt
      /\ \A y \in Execution : row[y].startedAt \in Nat
  BY DEF TypeInv, Types, Row
<1> HIDE DEF n
<1>4. Started' = Started \union {x}
  <2>1. 1 + n > 0
    BY <1>2
  <2>2. \A y \in Execution : row'[y].startedAt > 0 <=> y = x \/ row[y].startedAt > 0
    BY <1>3, <2>1
  <2>3. QED
    BY <2>2 DEF Started
<1>5. Cardinality(Started') = n + 1
  BY <1>1, <1>2, <1>4, FS_AddElement DEF n
<1>6. \A y \in Execution : row[y].startedAt <= n
  BY DEF StartInv, n
<1>7. QED
  BY <1>2, <1>3, <1>5, <1>6 DEF StartInv

LEMMA NextStart ==
  ASSUME TypeInv, IdleInv, DoomedInv, StartInv, [Next]_vars
  PROVE  StartInv'
<1>1. Live \subseteq Execution
  BY DEF Live
<1>2. CASE PatchWorkflow \/ UNCHANGED vars
  <2>1. UNCHANGED <<row, engine>>
    BY <1>2 DEF PatchWorkflow, vars
  <2>2. Live' = Live
    BY <2>1 DEF Live
  <2>3. QED
    BY <1>1, <2>1, <2>2, StartStep
<1>3. CASE Restart
  <2>1. Live' = Live /\ UNCHANGED row
    BY <1>3 DEF Restart, Live
  <2>2. \A y \in Execution : engine'[y].pc = "off" => engine[y].pc = "off"
    BY <1>3 DEF Restart, Over, NoEngine
  <2>3. QED
    BY <1>1, <2>1, <2>2, StartStep
<1>4. CASE \E x \in Execution : EngineStep(x)
  <2>1. PICK x \in Execution : EngineStep(x)
    BY <1>4
  <2>2. \A y \in Execution : engine'[y].pc = "off" => engine[y].pc = "off"
    BY <2>1, Others, RowsOfStep
  <2>3. QED
    BY <1>1, <2>1, <2>2, RowsOfStep, StartStep
<1>5. CASE \E x \in Execution : ReceiveEmail(x) \/ DispatchStep(x)
  <2>1. PICK x \in Execution : ReceiveEmail(x) \/ DispatchStep(x)
    BY <1>5
  <2>2. CASE /\ UNCHANGED row /\ Live' = Live
             /\ \A y \in Execution : engine'[y].pc = engine[y].pc
    BY <1>1, <2>2, StartStep
  <2>3. CASE /\ Live' = Live \union {x}
             /\ engine[x].pc = "off" /\ engine'[x].pc = "begin"
             /\ \A y \in Execution \ {x} : engine'[y] = engine[y]
             /\ row' = [row EXCEPT ![x] =
                            [status    |-> "RUNNING",
                             startedAt |-> 1 + Cardinality({y \in Execution :
                                                             row[y].startedAt > 0})]]
    <3>1. Started = {y \in Execution : row[y].startedAt > 0}
      BY DEF Started
    <3>2. QED
      BY <1>1, <2>3, <3>1, StartCreate
  <2>4. QED
    BY <2>1, <2>2, <2>3, DispatchRows
<1>6. QED
  BY <1>2, <1>3, <1>4, <1>5 DEF Next

LEMMA CountSubset ==
  ASSUME NEW S, NEW T, S \subseteq T, T \subseteq Execution
  PROVE  Cardinality(S) <= Cardinality(T) /\ Cardinality(S) \in Nat /\ Cardinality(T) \in Nat
<1>1. S \subseteq Execution
  OBVIOUS
<1>2. QED
  BY <1>1, CountType, FS_Subset

\* A cleanup leaves no more than the limit: all that it keeps are newer than the
\* oldest that it keeps.
LEMMA KeptByCleanup ==
  ASSUME TypeInv, StartInv, setting \in Setting
  PROVE  Cardinality(Live \ BeyondLimit(setting)) <= setting
<1> DEFINE K == Live \ BeyondLimit(setting)
<1>0. /\ Live \subseteq Execution /\ K \subseteq Live
      /\ \A y \in Execution : row[y].startedAt \in Nat
  BY DEF Live, TypeInv, Types, Row
<1>1. CASE K = {}
  BY <1>1, FS_EmptySet, EngineAssumption
<1>2. CASE K # {}
  <2> DEFINE R == StrictSubsetOrdering(Execution)
             S == FiniteSubsetsOf(Execution)
             T == {Live \ Newer(y) : y \in K}
  <2>1. IsWellFoundedOn(R, S)
    BY FS_StrictSubsetOrderingWellFounded
  <2>2. T \subseteq S /\ T # {}
    BY <1>0, <1>2, CountType DEF FiniteSubsetsOf
  <2>3. \E m \in T : \A n \in T : <<n, m>> \notin R
    <3> HIDE DEF R, S, T
    <3>1. QED
      BY <2>1, <2>2, WFMin
  <2>4. PICK z \in K : \A y \in K : <<Live \ Newer(y), Live \ Newer(z)>> \notin R
    BY <2>3
  <2>5. K \ {z} \subseteq Newer(z)
    <3> SUFFICES ASSUME NEW y \in K, y # z, y \notin Newer(z)
                 PROVE  FALSE
      OBVIOUS
    <3>1. /\ y \in Live /\ z \in Live /\ y \in Execution /\ z \in Execution
          /\ row[y].startedAt < row[z].startedAt
      <4>1. y \in Live /\ z \in Live /\ y \in Execution /\ z \in Execution
        BY <1>0
      <4>2. row[y].startedAt # row[z].startedAt
        BY <4>1 DEF StartInv
      <4>3. ~ (row[y].startedAt > row[z].startedAt)
        BY <4>1 DEF Newer
      <4>4. QED
        BY <1>0, <4>1, <4>2, <4>3
    <3>2. Newer(z) \subseteq Newer(y) /\ z \in Newer(y) /\ z \notin Newer(z)
      BY <1>0, <3>1 DEF Newer
    <3>3. <<Live \ Newer(y), Live \ Newer(z)>> \in R
      BY <1>0, <3>1, <3>2 DEF StrictSubsetOrdering
    <3>4. QED
      BY <2>4, <3>3
  <2>6. z \in Live /\ ~ (Cardinality(Newer(z)) >= setting) /\ Newer(z) \subseteq Execution
    BY <1>0, <2>4 DEF BeyondLimit, Newer
  <2> HIDE DEF K, R, S, T
  <2>7. Cardinality(K \ {z}) <= Cardinality(Newer(z)) /\ Cardinality(Newer(z)) \in Nat
        /\ Cardinality(K \ {z}) \in Nat
    BY <2>5, <2>6, CountSubset
  <2>8. IsFiniteSet(K) /\ Cardinality(K) \in Nat
    BY <1>0, CountType
  <2>9. Cardinality(K \ {z}) = Cardinality(K) - 1
    BY <2>4, <2>8, FS_RemoveElement
  <2>10. Cardinality(K) <= setting
    BY <2>6, <2>7, <2>8, <2>9, EngineAssumption
  <2>11. QED
    BY <2>10 DEF K
<1>3. QED
  BY <1>1, <1>2

\* Nothing else is as many when no engine leaves its walk but for the cleanup.
LEMMA LimitSame ==
  ASSUME TypeInv, LimitInv, faults = 0, setting \in Setting, UNCHANGED setting,
         NEW x \in Execution, Live' = Live,
         \A y \in Execution \ {x} : engine'[y] = engine[y],
         engine[x].pc \notin {"logs", "rows"}, engine'[x].pc \notin {"logs", "rows"},
         \/ engine'[x].pc = engine[x].pc
         \/ /\ engine[x].pc \in Walking
            /\ x \in Live \ Doomed => engine'[x].pc \in Walking \union {"cleanup"}
  PROVE  LimitInv'
<1> SUFFICES ASSUME NEW D \in SUBSET Listing', Deleting' \subseteq D
             PROVE  Cardinality(Live' \ DoomedBy(D)') <= setting + Cardinality(Counted(D)')
  BY DEF LimitInv
<1>1. Listing' = Listing /\ Deleting' = Deleting
  BY DEF Listing, Deleting
<1>2. \A y \in D : y # x /\ y \in Execution
  BY <1>1 DEF Listing
<1>3. DoomedBy(D)' = DoomedBy(D) /\ Doomed \subseteq DoomedBy(D)
  BY <1>1, <1>2 DEF DoomedBy, Doomed, Deleting
<1>4. Counted(D) \subseteq Counted(D)'
  <2>1. \A y \in Execution \ {x} : y \in Counted(D) => y \in Counted(D)'
    BY <1>3 DEF Counted
  <2>2. x \in Counted(D) => x \in Counted(D)'
    BY <1>3 DEF Counted, Walking
  <2>3. QED
    BY <2>1, <2>2 DEF Counted
<1>5. Counted(D)' \subseteq Execution
  BY DEF Counted
<1>6. Cardinality(Live \ DoomedBy(D)) <= setting + Cardinality(Counted(D))
  BY <1>1 DEF LimitInv
<1> DEFINE old == Counted(D)
           new == Counted(D)'
<1>7. Cardinality(old) <= Cardinality(new) /\ Cardinality(old) \in Nat /\ Cardinality(new) \in Nat
  BY <1>4, <1>5, CountSubset
<1>8. Cardinality(Live \ DoomedBy(D)) \in Nat
  BY CountType DEF Live
<1>9. Cardinality(Live' \ DoomedBy(D)') = Cardinality(Live \ DoomedBy(D))
  BY <1>3
<1> DEFINE left == Cardinality(Live \ DoomedBy(D))
<1> HIDE DEF old, new, left
<1>10. left <= setting + Cardinality(new)
  BY <1>6, <1>7, <1>8, EngineAssumption DEF old, left
<1>11. QED
  BY <1>9, <1>10 DEF new, left

LEMMA LimitFindOld ==
  ASSUME TypeInv, StartInv, LimitInv, faults = 0, ~ Fails, setting \in Setting, UNCHANGED setting,
         NEW x \in Execution, FindOld(x)
  PROVE  LimitInv'
<1> SUFFICES ASSUME NEW D \in SUBSET Listing', Deleting' \subseteq D
             PROVE  Cardinality(Live' \ DoomedBy(D)') <= setting + Cardinality(Counted(D)')
  BY DEF LimitInv
<1>1. /\ Live' = Live /\ Live \subseteq Execution
      /\ \A y \in Execution \ {x} : engine'[y] = engine[y]
      /\ engine[x].pc = "cleanup" /\ engine \in [Execution -> Engine]
  BY DEF FindOld, Live, TypeInv, Types
<1>2. engine'[x] = IF BeyondLimit(setting) = {} THEN Over
                   ELSE [Over EXCEPT !.pc = "logs", !.doomed = BeyondLimit(setting)]
  <2>1. PICK limit \in {setting, DefaultLogs} :
          /\ LimitRead(limit)
          /\ engine'[x] = IF BeyondLimit(limit) = {} THEN Over
                          ELSE [Over EXCEPT !.pc = "logs", !.doomed = BeyondLimit(limit)]
    BY <1>1 DEF FindOld
  <2>2. limit = setting
    BY <2>1 DEF LimitRead
  <2>3. QED
    BY <2>1, <2>2
<1>3. /\ Over.pc = "over"
      /\ [Over EXCEPT !.pc = "logs", !.doomed = BeyondLimit(setting)].pc = "logs"
      /\ [Over EXCEPT !.pc = "logs", !.doomed = BeyondLimit(setting)].doomed = BeyondLimit(setting)
  BY DEF Over, NoEngine
<1>4. /\ engine'[x].pc = IF BeyondLimit(setting) = {} THEN "over" ELSE "logs"
      /\ BeyondLimit(setting) # {} => engine'[x].doomed = BeyondLimit(setting)
  BY <1>2, <1>3
<1>5. Counted(D)' \subseteq Execution
  BY DEF Counted
<1> DEFINE left == Live' \ DoomedBy(D)'
<1>6. IsFiniteSet(Counted(D)') /\ Cardinality(Counted(D)') \in Nat /\ Cardinality(left) \in Nat
  <2>1. left \subseteq Execution
    BY <1>1
  <2>2. QED
    BY <1>5, <2>1, CountType
<1>7. CASE left \subseteq Live \ BeyondLimit(setting)
  <2>1. Cardinality(left) <= Cardinality(Live \ BeyondLimit(setting))
        /\ Cardinality(Live \ BeyondLimit(setting)) \in Nat
    <3>1. Live \ BeyondLimit(setting) \subseteq Execution
      BY <1>1
    <3>2. QED
      BY <1>7, <3>1, CountSubset
  <2>2. Cardinality(Live \ BeyondLimit(setting)) <= setting
    BY KeptByCleanup
  <2> HIDE DEF left
  <2>3. Cardinality(left) <= setting + Cardinality(Counted(D)')
    BY <1>6, <2>1, <2>2, EngineAssumption
  <2>4. QED
    BY <2>3 DEF left
<1>8. CASE BeyondLimit(setting) # {} /\ x \notin D
  <2>1. \A y \in D : y # x /\ y \in Execution /\ y \in Listing
    BY <1>1, <1>8 DEF Listing
  <2>2. DoomedBy(D)' = DoomedBy(D)
    BY <1>1, <2>1 DEF DoomedBy
  <2>3. Deleting \subseteq D
    BY <1>1 DEF Deleting
  <2>4. Counted(D) \subseteq Counted(D)'
    <3>1. \A y \in Execution \ {x} : y \in Counted(D) => y \in Counted(D)'
      BY <1>1, <2>2 DEF Counted
    <3>2. x \in Counted(D)'
      BY <1>4, <1>8 DEF Counted, Walking
    <3>3. QED
      BY <3>1, <3>2 DEF Counted
  <2>5. Cardinality(Live \ DoomedBy(D)) <= setting + Cardinality(Counted(D))
    BY <2>1, <2>3 DEF LimitInv
  <2> DEFINE old == Counted(D)
             new == Counted(D)'
  <2>6. Cardinality(old) <= Cardinality(new) /\ Cardinality(old) \in Nat
        /\ Cardinality(new) \in Nat
    BY <1>5, <2>4, CountSubset
  <2>7. Cardinality(left) <= setting + Cardinality(old)
    BY <1>1, <2>2, <2>5
  <2> HIDE DEF old, new, left
  <2>8. Cardinality(left) <= setting + Cardinality(new)
    BY <1>6, <2>6, <2>7, EngineAssumption
  <2>9. QED
    BY <2>8 DEF new, left
<1>9. CASE BeyondLimit(setting) = {}
  <2>1. left \subseteq Live \ BeyondLimit(setting)
    BY <1>1, <1>9
  <2>2. QED
    BY <1>7, <2>1
<1>10. CASE BeyondLimit(setting) # {} /\ x \in D
  <2>1. BeyondLimit(setting) \subseteq DoomedBy(D)'
    BY <1>4, <1>10 DEF DoomedBy
  <2>2. left \subseteq Live \ BeyondLimit(setting)
    BY <1>1, <2>1
  <2>3. QED
    BY <1>7, <2>2
<1>11. QED
  BY <1>8, <1>9, <1>10

LEMMA LimitDeleteLogs ==
  ASSUME TypeInv, LimitInv, faults = 0, setting \in Setting, UNCHANGED setting,
         NEW x \in Execution, DeleteLogs(x)
  PROVE  LimitInv'
<1> SUFFICES ASSUME NEW D \in SUBSET Listing', Deleting' \subseteq D
             PROVE  Cardinality(Live' \ DoomedBy(D)') <= setting + Cardinality(Counted(D)')
  BY DEF LimitInv
<1>1. /\ Live' = Live /\ \A y \in Execution \ {x} : engine'[y] = engine[y]
      /\ engine[x].pc = "logs" /\ engine'[x].pc = "rows"
      /\ engine'[x].doomed = engine[x].doomed
  BY DEF DeleteLogs, Live, TypeInv, Types, Engine
<1>2. Listing' = Listing /\ Deleting' = Deleting \union {x}
  BY <1>1 DEF Listing, Deleting
<1>3. x \in D /\ D \in SUBSET Listing /\ Deleting \subseteq D /\ D \subseteq Execution
  BY <1>2 DEF Listing
<1>4. DoomedBy(D)' = DoomedBy(D)
  BY <1>1, <1>3 DEF DoomedBy
<1>5. Counted(D)' = Counted(D)
  BY <1>1, <1>3, <1>4 DEF Counted
<1>6. Cardinality(Live \ DoomedBy(D)) <= setting + Cardinality(Counted(D))
  BY <1>3 DEF LimitInv
<1>7. QED
  BY <1>1, <1>4, <1>5, <1>6

LEMMA LimitDeleteRows ==
  ASSUME TypeInv, LimitInv, faults = 0, setting \in Setting, UNCHANGED setting,
         NEW x \in Execution, DeleteRows(x)
  PROVE  LimitInv'
<1> SUFFICES ASSUME NEW D \in SUBSET Listing', Deleting' \subseteq D
             PROVE  Cardinality(Live' \ DoomedBy(D)') <= setting + Cardinality(Counted(D)')
  BY DEF LimitInv
<1> DEFINE E == D \union {x}
<1>1. /\ \A y \in Execution \ {x} : engine'[y] = engine[y]
      /\ engine[x].pc = "rows" /\ engine'[x].pc = "over"
  BY DEF DeleteRows, TypeInv, Types, Over, NoEngine
<1>2. Live' = Live \ engine[x].doomed
  BY RowsOfStep DEF EngineStep
<1>3. Listing' = Listing \ {x} /\ Deleting' = Deleting \ {x} /\ x \in Listing
  BY <1>1 DEF Listing, Deleting
<1>4. /\ E \in SUBSET Listing /\ Deleting \subseteq E
      /\ \A y \in D : y \in Execution \ {x}
  BY <1>3 DEF Listing
<1>5. DoomedBy(D)' = DoomedBy(D)
  BY <1>1, <1>4 DEF DoomedBy
<1>6. DoomedBy(E) = DoomedBy(D) \union engine[x].doomed
  BY DEF DoomedBy
<1>7. Live' \ DoomedBy(D)' = Live \ DoomedBy(E)
  BY <1>2, <1>5, <1>6
<1>8. Counted(E) \subseteq Counted(D)'
  <2> SUFFICES ASSUME NEW y \in Counted(E)
               PROVE  y \in Counted(D)'
    OBVIOUS
  <2>1. y \in Execution \ {x} /\ y \notin D /\ engine'[y] = engine[y]
    BY <1>1 DEF Counted
  <2>2. /\ engine[y].pc \notin {"off", "over"}
        /\ engine[y].pc \in Walking => y \in Live \ DoomedBy(E)
    BY DEF Counted
  <2>3. QED
    BY <1>7, <2>1, <2>2 DEF Counted
<1>9. Counted(D)' \subseteq Execution
  BY DEF Counted
<1>10. Cardinality(Live \ DoomedBy(E)) <= setting + Cardinality(Counted(E))
  BY <1>4 DEF LimitInv
<1> DEFINE left == Live \ DoomedBy(E)
           old  == Counted(E)
           new  == Counted(D)'
<1>11. Cardinality(old) <= Cardinality(new) /\ Cardinality(old) \in Nat /\ Cardinality(new) \in Nat
  BY <1>8, <1>9, CountSubset
<1>12. Cardinality(left) \in Nat
  BY CountType DEF Live
<1> HIDE DEF left, old, new, E
<1>13. Cardinality(left) <= setting + Cardinality(new)
  BY <1>10, <1>11, <1>12, EngineAssumption DEF left, old
<1>14. QED
  BY <1>7, <1>13 DEF left, new

\* A new execution counts on both sides.
LEMMA LimitCreate ==
  ASSUME TypeInv, DoomedInv, LimitInv, faults = 0, setting \in Setting, UNCHANGED setting,
         NEW x \in Execution,
         x \notin Live, Live' = Live \union {x},
         engine[x].pc = "off", engine'[x].pc = "begin",
         \A y \in Execution \ {x} : engine'[y] = engine[y]
  PROVE  LimitInv'
<1> SUFFICES ASSUME NEW D \in SUBSET Listing', Deleting' \subseteq D
             PROVE  Cardinality(Live' \ DoomedBy(D)') <= setting + Cardinality(Counted(D)')
  BY DEF LimitInv
<1>1. Listing' = Listing /\ Deleting' = Deleting /\ Listing \subseteq Execution \ {x}
  BY DEF Listing, Deleting
<1>2. DoomedBy(D)' = DoomedBy(D)
  BY <1>1 DEF DoomedBy
<1>3. x \notin DoomedBy(D)
  <2>1. \A y \in D : y \in Execution /\ engine[y].pc \in {"logs", "rows"}
    BY <1>1 DEF Listing
  <2>2. \A y \in D : x \notin engine[y].doomed
    BY <2>1 DEF DoomedInv
  <2>3. QED
    BY <2>2 DEF DoomedBy
<1> DEFINE left == Live \ DoomedBy(D)
           old  == Counted(D)
<1>4. Live' \ DoomedBy(D)' = left \union {x} /\ x \notin left
  BY <1>2, <1>3
<1>5. x \notin old /\ x \notin D
  BY <1>1 DEF Counted
<1>6. Counted(D)' = old \union {x}
  <2>1. \A y \in Execution \ {x} : y \in Counted(D)' <=> y \in old
    BY <1>2 DEF Counted
  <2>2. x \in Counted(D)'
    BY <1>4, <1>5 DEF Counted
  <2>3. Counted(D)' \subseteq Execution /\ old \subseteq Execution
    BY DEF Counted
  <2> HIDE DEF old
  <2>4. QED
    BY <2>1, <2>2, <2>3
<1>7. /\ IsFiniteSet(left) /\ Cardinality(left) \in Nat
      /\ IsFiniteSet(old) /\ Cardinality(old) \in Nat
  BY CountType DEF Live, Counted
<1>8. Cardinality(left) <= setting + Cardinality(old)
  BY <1>1 DEF LimitInv
<1> HIDE DEF left, old
<1>9. Cardinality(left \union {x}) = Cardinality(left) + 1
      /\ Cardinality(old \union {x}) = Cardinality(old) + 1
  BY <1>4, <1>5, <1>7, FS_AddElement
<1>10. Cardinality(left \union {x}) <= setting + Cardinality(old \union {x})
  BY <1>7, <1>8, <1>9, EngineAssumption
<1>11. QED
  BY <1>4, <1>6, <1>10

LEMMA NextLimit ==
  ASSUME WalkInv, StartInv, LimitInv, [Next]_vars
  PROVE  LimitInv'
<1> SUFFICES ASSUME faults' = 0
             PROVE  LimitInv'
  BY DEF LimitInv
<1>0. TypeInv /\ IdleInv /\ DoomedInv /\ LogsThere
  BY DEF WalkInv
<1>1. faults = 0 /\ ~ Fails /\ setting \in Setting /\ UNCHANGED setting
  <2>1. faults = 0
    BY <1>0, CalmBefore
  <2>2. QED
    BY <1>0, <2>1, FaultsGrow DEF Fails, DoomedInv
<1>2. CASE PatchWorkflow \/ UNCHANGED vars
  <2>1. UNCHANGED <<row, engine>>
    BY <1>2 DEF PatchWorkflow, vars
  <2>2. /\ Live' = Live /\ Listing' = Listing /\ Deleting' = Deleting
        /\ \A D : DoomedBy(D)' = DoomedBy(D) /\ Counted(D)' = Counted(D)
    BY <2>1 DEF Live, Listing, Deleting, DoomedBy, Counted
  <2>3. QED
    BY <1>1, <2>2 DEF LimitInv
<1>3. ~ Restart
  BY <1>1 DEF Restart
<1>4. CASE \E x \in Execution : ReceiveEmail(x) \/ DispatchStep(x)
  <2>1. PICK x \in Execution : ReceiveEmail(x) \/ DispatchStep(x)
    BY <1>4
  <2>2. CASE /\ UNCHANGED row /\ Live' = Live
             /\ \A y \in Execution : engine'[y].pc = engine[y].pc
    <3>1. \A y \in Execution : engine'[y].doomed = engine[y].doomed
      BY <1>0, <2>1, DispatchRows
    <3>2. /\ Listing' = Listing /\ Deleting' = Deleting
          /\ Listing \subseteq Execution
      BY <2>2 DEF Listing, Deleting
    <3>3. \A D \in SUBSET Execution : DoomedBy(D)' = DoomedBy(D)
      BY <3>1 DEF DoomedBy
    <3>4. \A D \in SUBSET Execution : Counted(D)' = Counted(D)
      BY <2>2, <3>3 DEF Counted
    <3>5. QED
      BY <1>1, <2>2, <3>2, <3>3, <3>4 DEF LimitInv
  <2>3. CASE /\ x \notin Live /\ Live' = Live \union {x}
             /\ engine[x].pc = "off" /\ engine'[x].pc = "begin"
             /\ \A y \in Execution \ {x} : engine'[y] = engine[y]
    BY <1>0, <1>1, <2>3, LimitCreate
  <2>4. QED
    BY <1>0, <2>1, <2>2, <2>3, DispatchRows
<1>5. CASE \E x \in Execution : EngineStep(x)
  <2>1. PICK x \in Execution : EngineStep(x)
    BY <1>5
  <2>2. CASE engine[x].pc \in Walking
    <3>1. ~ DeleteRows(x) /\ ~ FindOld(x) /\ ~ DeleteLogs(x)
      BY <2>2 DEF DeleteRows, FindOld, DeleteLogs, Walking
    <3>2. Live' = Live /\ engine'[x].pc \notin {"off", "logs", "rows"}
      BY <1>0, <2>1, <3>1, RowsOfStep, PcOfStep
    <3>3. x \in Live \ Doomed => engine'[x].pc \in Walking \union {"cleanup"}
      BY <1>0, <1>1, <2>1, <2>2, WalkStep
    <3>4. \A y \in Execution \ {x} : engine'[y] = engine[y]
      BY <1>0, <2>1, Others
    <3>5. engine[x].pc \notin {"logs", "rows"}
      BY <2>2 DEF Walking
    <3>6. QED
      BY <1>0, <1>1, <2>2, <3>2, <3>3, <3>4, <3>5, LimitSame
  <2>3. CASE engine[x].pc \notin Walking
    <3>1. FindOld(x) \/ DeleteLogs(x) \/ DeleteRows(x)
      BY <1>0, <1>1, <2>1, <2>3, EndPc DEF CleanupFails
    <3>2. QED
      BY <1>0, <1>1, <3>1, LimitFindOld, LimitDeleteLogs, LimitDeleteRows
  <2>4. QED
    BY <2>2, <2>3
<1>6. QED
  BY <1>2, <1>3, <1>4, <1>5 DEF Next

\* As long as no statement fails, the executions that are left, or will be once the
\* cleanups that have deleted log rows delete the rows, are no more than the setting
\* allows and the engines that are still to clean up, however the cleanups of
\* concurrent engines interleave: with every engine over, the setting holds.
THEOREM LimitHoldsAlways == Spec => []LimitHolds
<1>1. Init => WalkInv /\ StartInv /\ LimitInv
  <2> SUFFICES ASSUME Init PROVE StartInv /\ LimitInv
    BY InitWalk
  <2>1. Started = {} /\ Live = {}
    BY DEF Init, Started, Live
  <2>2. StartInv
    <3>1. \A y \in Execution : row[y].startedAt = 0
      BY DEF Init
    <3>2. Cardinality(Started) = 0
      BY <2>1, FS_EmptySet
    <3>3. QED
      BY <2>1, <3>1, <3>2 DEF StartInv
  <2>3. LimitInv
    <3> SUFFICES ASSUME NEW D \in SUBSET Listing
                 PROVE  Cardinality(Live \ DoomedBy(D)) <= setting + Cardinality(Counted(D))
      BY DEF LimitInv
    <3>1. Cardinality(Live \ DoomedBy(D)) = 0
      <4>1. Live \ DoomedBy(D) = {}
        BY <2>1
      <4>2. QED
        BY <4>1, FS_EmptySet
    <3>2. Cardinality(Counted(D)) \in Nat
      BY CountType DEF Counted
    <3> DEFINE left == Cardinality(Live \ DoomedBy(D))
               counted == Cardinality(Counted(D))
    <3> HIDE DEF left, counted
    <3>3. left <= setting + counted
      BY <3>1, <3>2, EngineAssumption DEF left, counted, Init
    <3>4. QED
      BY <3>3 DEF left, counted
  <2>4. QED
    BY <2>2, <2>3
<1>2. (WalkInv /\ StartInv /\ LimitInv) /\ [Next]_vars => (WalkInv /\ StartInv /\ LimitInv)'
  <2>1. WalkInv => TypeInv /\ IdleInv /\ DoomedInv
    BY DEF WalkInv
  <2>2. QED
    BY <2>1, NextWalk, NextStart, NextLimit
<1>3. WalkInv /\ LimitInv => LimitHolds
  <2> SUFFICES ASSUME LimitInv, faults = 0, setting \in Setting
               PROVE  Cardinality(Live \ Doomed) <= setting +
                        Cardinality({x \in Execution : engine[x].pc \notin {"off", "over", "rows"}})
    BY DEF LimitHolds, WalkInv, DoomedInv
  <2> DEFINE rest == {x \in Execution : engine[x].pc \notin {"off", "over", "rows"}}
             counted == Counted(Deleting)
             left == Live \ Doomed
  <2>1. Doomed = DoomedBy(Deleting) /\ Deleting \in SUBSET Listing
    BY DEF Doomed, DoomedBy, Deleting, Listing
  <2>2. Cardinality(left) <= setting + Cardinality(counted)
    BY <2>1 DEF LimitInv
  <2>3. counted \subseteq rest
    BY DEF Counted, Deleting
  <2>4. rest \subseteq Execution /\ left \subseteq Execution
    BY DEF Live
  <2> HIDE DEF rest, counted, left
  <2>5. /\ Cardinality(counted) <= Cardinality(rest) /\ Cardinality(counted) \in Nat
        /\ Cardinality(rest) \in Nat /\ Cardinality(left) \in Nat
    BY <2>3, <2>4, CountSubset, CountType
  <2>6. Cardinality(left) <= setting + Cardinality(rest)
    BY <2>2, <2>5, EngineAssumption
  <2>7. QED
    BY <2>6 DEF left, rest
<1>4. QED
  BY <1>1, <1>2, <1>3, PTL DEF Spec

(***************************************************************************)
(* Part seven: no node is called again by its own successors.  A           *)
(* configuration that an engine walks has passed validateWorkflow, so that *)
(* a strict order holds its edges (NoCycleOrders); the nodes of the calls  *)
(* under way ascend in every such order, and the edges that a call has     *)
(* still to follow are its own.                                            *)
(***************************************************************************)
Checked(config) == ~ detectCycles(config)

CheckedInv ==
  /\ workflow.active => Checked(workflow.config)
  /\ \A x \in Execution :
       dispatch[x].pc = "create" \/ engine[x].pc \in Walking => Checked(engine[x].config)

OwnEdges(e) ==
  \A i \in DOMAIN e.stack : \A edge \in e.stack[i].todo :
    edge \in e.config.edges /\ edge.source = e.stack[i].node

\* The innermost call is the first of the stack.
Ascends(R, e) ==
  \A i, j \in DOMAIN e.stack : i < j => <<e.stack[j].node, e.stack[i].node>> \in R
Entering(R, e) ==
  e.pc = "enter" => \A i \in DOMAIN e.stack : <<e.stack[i].node, e.node>> \in R

OnPath(e) ==
  /\ OwnEdges(e)
  /\ \A R : Ordered(e.config, Node, R) => Ascends(R, e) /\ Entering(R, e)

PathInv ==
  \A x \in Execution :
    OnPath(engine[x]) /\ (engine[x].pc \notin Walking => engine[x].stack = <<>>)

\* The calls under way are the same.
LEMMA PathSame ==
  ASSUME NEW e, NEW f, OnPath(e), f.stack = e.stack, f.config = e.config, f.pc # "enter"
  PROVE  OnPath(f)
BY DEF OnPath, OwnEdges, Ascends, Entering

\* The innermost call has returned or thrown.
LEMMA PathTail ==
  ASSUME NEW e \in Engine, NEW f, OnPath(e), e.stack # <<>>, f.stack = Tail(e.stack),
         f.config = e.config, f.pc # "enter"
  PROVE  OnPath(f)
<1>1. \A i \in DOMAIN f.stack : /\ i \in Nat /\ i + 1 \in DOMAIN e.stack
                                /\ f.stack[i] = e.stack[i + 1]
  BY PopCalls DEF Engine
<1>2. OwnEdges(f)
  BY <1>1 DEF OnPath, OwnEdges
<1>3. ASSUME NEW R, Ordered(f.config, Node, R)
      PROVE  Ascends(R, f) /\ Entering(R, f)
  <2>1. Ascends(R, e)
    BY <1>3 DEF OnPath
  <2>2. ASSUME NEW i \in DOMAIN f.stack, NEW j \in DOMAIN f.stack, i < j
        PROVE  <<f.stack[j].node, f.stack[i].node>> \in R
    <3>1. i + 1 < j + 1 /\ i + 1 \in DOMAIN e.stack /\ j + 1 \in DOMAIN e.stack
      BY <1>1, <2>2
    <3>2. QED
      BY <1>1, <2>1, <2>2, <3>1 DEF Ascends
  <2>3. QED
    BY <2>2 DEF Ascends, Entering
<1>4. QED
  BY <1>2, <1>3 DEF OnPath

\* A node is entered: its call is the innermost.
LEMMA PathPush ==
  ASSUME NEW e \in Engine, NEW f, OnPath(e), e.pc = "enter", NEW call \in Frame,
         call.node = e.node, call.todo = {}, f.stack = <<call>> \o e.stack,
         f.config = e.config, f.pc # "enter"
  PROVE  OnPath(f)
<1>1. /\ f.stack[1] = call
      /\ \A i \in DOMAIN f.stack : /\ i \in Nat \ {0}
                                   /\ i # 1 => /\ i - 1 \in DOMAIN e.stack
                                               /\ f.stack[i] = e.stack[i - 1]
  <2>1. e.stack \in Seq(Frame)
    BY DEF Engine
  <2>2. Len(e.stack) \in Nat
    BY <2>1, LenProperties
  <2>3. QED
    BY <2>1, <2>2, PushCalls
<1>2. OwnEdges(f)
  BY <1>1 DEF OnPath, OwnEdges
<1>3. ASSUME NEW R, Ordered(f.config, Node, R)
      PROVE  Ascends(R, f) /\ Entering(R, f)
  <2>1. Ascends(R, e) /\ Entering(R, e)
    BY <1>3 DEF OnPath
  <2>2. ASSUME NEW i \in DOMAIN f.stack, NEW j \in DOMAIN f.stack, i < j
        PROVE  <<f.stack[j].node, f.stack[i].node>> \in R
    <3>1. j # 1 /\ j - 1 \in DOMAIN e.stack /\ f.stack[j] = e.stack[j - 1]
      BY <1>1, <2>2
    <3>2. CASE i = 1
      BY <1>1, <2>1, <3>1, <3>2 DEF Entering
    <3>3. CASE i # 1
      <4>1. i - 1 \in DOMAIN e.stack /\ f.stack[i] = e.stack[i - 1] /\ i - 1 < j - 1
        BY <1>1, <2>2, <3>3
      <4>2. QED
        BY <2>1, <3>1, <4>1 DEF Ascends
    <3>4. QED
      BY <3>2, <3>3
  <2>3. QED
    BY <2>2 DEF Ascends, Entering
<1>4. QED
  BY <1>2, <1>3 DEF OnPath

\* The innermost call goes on with edges of its own, and may call the target of one.
LEMMA PathGoes ==
  ASSUME NEW e \in Engine, NEW f, OnPath(e), e.stack # <<>>, e.config \in WorkflowConfig,
         NEW call \in Frame, call.node = Top(e).node, f.stack = <<call>> \o Tail(e.stack),
         f.config = e.config,
         \A edge \in call.todo : edge \in e.config.edges /\ edge.source = call.node,
         f.pc = "enter" => \E edge \in e.config.edges :
                             edge.source = call.node /\ f.node = edge.target
  PROVE  OnPath(f)
<1>1. /\ e.stack \in Seq(Frame) /\ Tail(e.stack) \in Seq(Frame)
      /\ 1 \in DOMAIN e.stack /\ Top(e) = e.stack[1]
  BY PopCalls DEF Engine, Top
<1>2. /\ f.stack[1] = call
      /\ \A i \in DOMAIN f.stack : /\ i \in Nat \ {0} /\ i \in DOMAIN e.stack
                                   /\ f.stack[i].node = e.stack[i].node
                                   /\ i # 1 => f.stack[i] = e.stack[i]
  <2>1. Len(Tail(e.stack)) \in Nat
    BY <1>1, LenProperties
  <2> DEFINE t == Tail(e.stack)
             s == <<call>> \o t
  <2>2. /\ s[1] = call /\ DOMAIN s = 1 .. Len(t) + 1
        /\ \A i \in DOMAIN s : i # 1 => i - 1 \in DOMAIN t /\ s[i] = t[i - 1]
    BY <1>1, PushCalls
  <2>3. \A i \in DOMAIN t : i \in Nat /\ i + 1 \in DOMAIN e.stack /\ t[i] = e.stack[i + 1]
    BY <1>1, PopCalls
  <2>4. f.stack = s
    OBVIOUS
  <2> HIDE DEF s, t
  <2>5. \A i \in DOMAIN s : i \in Nat \ {0}
    BY <2>1, <2>2 DEF t
  <2>6. \A i \in DOMAIN s : i # 1 => i \in DOMAIN e.stack /\ s[i] = e.stack[i]
    <3> SUFFICES ASSUME NEW i \in DOMAIN s, i # 1
                 PROVE  i \in DOMAIN e.stack /\ s[i] = e.stack[i]
      OBVIOUS
    <3>1. i - 1 \in DOMAIN t /\ s[i] = t[i - 1] /\ (i - 1) + 1 = i
      BY <2>2, <2>5
    <3>2. QED
      BY <2>3, <3>1
  <2>7. QED
    BY <1>1, <2>2, <2>4, <2>5, <2>6
<1>3. OwnEdges(f)
  BY <1>2 DEF OnPath, OwnEdges
<1>4. ASSUME NEW R, Ordered(f.config, Node, R)
      PROVE  Ascends(R, f) /\ Entering(R, f)
  <2>1. Ascends(R, e)
    BY <1>4 DEF OnPath
  <2>2. Ascends(R, f)
    BY <1>2, <2>1 DEF Ascends
  <2>3. ASSUME f.pc = "enter", NEW i \in DOMAIN f.stack
        PROVE  <<f.stack[i].node, f.node>> \in R
    <3>1. PICK edge \in e.config.edges : edge.source = call.node /\ f.node = edge.target
      BY <2>3
    <3>2. \A k \in DOMAIN e.stack : e.stack[k] \in Frame
      BY <1>1, ElementOfSeq, LenProperties
    <3>3. call.node \in Node /\ f.node \in Node /\ f.stack[i].node \in Node
      BY <1>2, <3>1, <3>2 DEF WorkflowConfig, Edge, Frame
    <3>4. f.node \in Targets(f.config, call.node)
      BY <3>1 DEF Targets
    <3>5. <<call.node, f.node>> \in R
      BY <1>4, <3>3, <3>4 DEF Ordered
    <3>6. CASE i = 1
      BY <1>2, <3>5, <3>6
    <3>7. CASE i # 1
      <4>1. 1 < i /\ 1 \in DOMAIN e.stack /\ i \in DOMAIN e.stack
        BY <1>1, <1>2, <3>7
      <4>2. <<e.stack[i].node, call.node>> \in R
        BY <1>1, <2>1, <4>1 DEF Ascends
      <4>3. QED
        BY <1>2, <1>4, <3>3, <3>5, <4>2 DEF Ordered
    <3>8. QED
      BY <3>6, <3>7
  <2>4. QED
    BY <2>2, <2>3 DEF Entering
<1>5. QED
  BY <1>3, <1>4 DEF OnPath

\* No call is under way.
LEMMA PathEmpty ==
  ASSUME NEW f, f.stack = <<>>
  PROVE  OnPath(f)
BY DEF OnPath, OwnEdges, Ascends, Entering

LEMMA PathStep ==
  ASSUME TypeInv, PathInv, NEW x \in Execution, EngineStep(x)
  PROVE  /\ OnPath(engine'[x])
         /\ engine'[x].pc \in Walking => /\ engine[x].pc \in Walking
                                         /\ engine'[x].config = engine[x].config
         /\ engine'[x].pc \notin Walking => engine'[x].stack = <<>>
<1> DEFINE e == engine[x]
           f == engine'[x]
<1>1. /\ e \in Engine /\ engine \in [Execution -> Engine] /\ StackOK(e)
      /\ OnPath(e) /\ (e.pc \notin Walking => e.stack = <<>>)
  BY DEF TypeInv, Types, PathInv
<1>2. e.config \in WorkflowConfig
  BY <1>1, EngineAssumption DEF Engine
<1>3. CASE Begin(x)
  <2>1. e.pc = "begin" /\ e.stack = <<>>
    BY <1>1, <1>3 DEF Begin, StackOK
  <2>2. f.pc \in {"enter", "failed"} /\ f.stack = e.stack /\ f.config = e.config
    BY <1>1, <1>3 DEF Begin, Engine
  <2>3. QED
    BY <2>1, <2>2, PathEmpty DEF Walking
<1>4. CASE Pass(x) \/ GiveUp(x)
  <2>1. f.stack = e.stack /\ f.config = e.config /\ f.pc \in {"next", "failed", "catch"}
    BY <1>4, PassFields DEF Rest
  <2>2. e.pc = "enter"
    BY <1>4 DEF Pass, GiveUp
  <2> HIDE DEF e, f
  <2>3. OnPath(f)
    BY <1>1, <2>1, PathSame
  <2>4. QED
    BY <2>1, <2>2, <2>3 DEF Walking, e, f
<1>5. CASE Enter(x)
  <2>1. /\ NewCall(e) \in Frame /\ f.config = e.config
        /\ \/ f.pc = "run" /\ f.stack = <<NewCall(e)>> \o e.stack
           \/ f.pc \in {"failed", "catch"} /\ f.stack = e.stack
    BY <1>5, EnterFields
  <2>2. e.pc = "enter"
    BY <1>5 DEF Enter
  <2>3. NewCall(e).node = e.node /\ NewCall(e).todo = {}
    BY DEF NewCall
  <2> HIDE DEF e, f
  <2>4. OnPath(f)
    BY <1>1, <2>1, <2>2, <2>3, PathPush, PathSame
  <2>5. QED
    BY <2>1, <2>2, <2>4 DEF Walking, e, f
<1>6. CASE Run(x)
  <2>1. /\ Rest(e, f)
        /\ \/ f.pc = "catch" /\ f.stack = e.stack
           \/ /\ f.pc = "complete"
              /\ \E call \in Frame :
                   /\ call.node = Top(e).node
                   /\ \A edge \in call.todo : edge \in e.config.edges /\ edge.source = call.node
                   /\ f.stack = <<call>> \o Tail(e.stack)
    BY <1>6, RunFields
  <2>2. e.pc = "run" /\ e.stack # <<>> /\ f.config = e.config
    BY <1>1, <1>6, <2>1 DEF Run, StackOK, Rest
  <2> HIDE DEF e, f
  <2>3. CASE f.pc = "catch" /\ f.stack = e.stack
    BY <1>1, <2>2, <2>3, PathSame DEF Walking, e, f
  <2>4. CASE /\ f.pc = "complete"
             /\ \E call \in Frame :
                  /\ call.node = Top(e).node
                  /\ \A edge \in call.todo : edge \in e.config.edges /\ edge.source = call.node
                  /\ f.stack = <<call>> \o Tail(e.stack)
    <3>1. PICK call \in Frame :
                  /\ call.node = Top(e).node
                  /\ \A edge \in call.todo : edge \in e.config.edges /\ edge.source = call.node
                  /\ f.stack = <<call>> \o Tail(e.stack)
      BY <2>4
    <3>2. OnPath(f)
      BY <1>1, <1>2, <2>2, <2>4, <3>1, PathGoes
    <3>3. QED
      BY <2>2, <2>4, <3>2 DEF Walking, e, f
  <2>5. QED
    BY <2>1, <2>3, <2>4
<1>7. CASE Complete(x)
  <2>1. /\ f.config = e.config
        /\ f.pc \in {"succeed", "next", "failed", "catch"}
        /\ f.stack = Tail(e.stack) \/ f.stack = e.stack
    BY <1>7, CompleteFields
  <2>2. e.pc = "complete" /\ e.stack # <<>>
    BY <1>1, <1>7 DEF Complete, StackOK
  <2> HIDE DEF e, f
  <2>3. OnPath(f)
    BY <1>1, <2>1, <2>2, PathSame, PathTail
  <2>4. QED
    BY <2>1, <2>2, <2>3 DEF Walking, e, f
<1>8. CASE FollowEdge(x)
  <2>1. /\ Rest(e, f)
        /\ \/ f.pc \in {"succeed", "next"} /\ f.stack = Tail(e.stack)
           \/ /\ f.pc = "enter"
              /\ \E call \in Frame, edge \in Top(e).todo :
                   /\ call.node = Top(e).node /\ call.todo \subseteq Top(e).todo
                   /\ f.node = edge.target
                   /\ f.stack = <<call>> \o Tail(e.stack)
    BY <1>8, FollowEdgeFields
  <2>2. e.pc = "next" /\ e.stack # <<>> /\ f.config = e.config
    BY <1>1, <1>8, <2>1 DEF FollowEdge, StackOK, Rest
  <2>3. \A edge \in Top(e).todo : edge \in e.config.edges /\ edge.source = Top(e).node
    <3>1. 1 \in DOMAIN e.stack /\ Top(e) = e.stack[1]
      BY <1>1, <2>2, PopCalls DEF Engine, Top
    <3>2. QED
      BY <1>1, <3>1 DEF OnPath, OwnEdges
  <2> HIDE DEF e, f
  <2>4. CASE f.pc \in {"succeed", "next"} /\ f.stack = Tail(e.stack)
    <3>1. OnPath(f)
      BY <1>1, <2>2, <2>4, PathTail
    <3>2. QED
      BY <2>2, <2>4, <3>1 DEF Walking, e, f
  <2>5. CASE /\ f.pc = "enter"
             /\ \E call \in Frame, edge \in Top(e).todo :
                  /\ call.node = Top(e).node /\ call.todo \subseteq Top(e).todo
                  /\ f.node = edge.target
                  /\ f.stack = <<call>> \o Tail(e.stack)
    <3>1. PICK call \in Frame, edge \in Top(e).todo :
                  /\ call.node = Top(e).node /\ call.todo \subseteq Top(e).todo
                  /\ f.node = edge.target
                  /\ f.stack = <<call>> \o Tail(e.stack)
      BY <2>5
    <3>2. /\ \A d \in call.todo : d \in e.config.edges /\ d.source = call.node
          /\ edge \in e.config.edges /\ edge.source = call.node
      BY <2>3, <3>1
    <3>3. OnPath(f)
      BY <1>1, <1>2, <2>2, <3>1, <3>2, PathGoes
    <3>4. QED
      BY <2>2, <2>5, <3>3 DEF Walking, e, f
  <2>6. QED
    BY <2>1, <2>4, <2>5
<1>9. CASE Catch(x)
  <2>1. f.config = e.config /\ f.pc \in {"failed", "catch"} /\ f.stack = Tail(e.stack)
    BY <1>9, CatchFields
  <2>2. e.pc = "catch" /\ e.stack # <<>>
    BY <1>1, <1>9 DEF Catch, StackOK
  <2> HIDE DEF e, f
  <2>3. OnPath(f)
    BY <1>1, <2>1, <2>2, PathTail
  <2>4. QED
    BY <2>1, <2>2, <2>3 DEF Walking, e, f
<1>10. CASE Succeed(x) \/ Fail(x) \/ FindOld(x) \/ DeleteLogs(x) \/ DeleteRows(x) \/ CleanupFails(x)
  <2>1. \/ Succeed(x) /\ f.pc = "failed" /\ f.stack = e.stack /\ Rest(e, f)
        \/ DeleteLogs(x) /\ f.pc = "rows" /\ f.stack = e.stack
        \/ /\ ~ DeleteLogs(x) /\ f.stack = <<>>
           /\ Succeed(x) => f.pc = "cleanup"
           /\ Fail(x) => f.pc \in {"cleanup", "over"}
           /\ FindOld(x) => f.pc \in {"over", "logs"}
           /\ DeleteRows(x) \/ CleanupFails(x) => f.pc = "over"
    BY <1>10, EndFields
  <2>2. CASE Succeed(x) /\ f.pc = "failed" /\ f.stack = e.stack /\ Rest(e, f)
    <3>1. e.pc = "succeed" /\ f.config = e.config
      BY <2>2 DEF Succeed, Rest
    <3> HIDE DEF e, f
    <3>2. OnPath(f)
      BY <1>1, <2>2, <3>1, PathSame
    <3>3. QED
      BY <2>2, <3>1, <3>2 DEF Walking, e, f
  <2>3. CASE DeleteLogs(x) /\ f.pc = "rows" /\ f.stack = e.stack
    <3>1. e.pc = "logs"
      BY <2>3 DEF DeleteLogs
    <3>2. f.stack = <<>>
      BY <1>1, <2>3, <3>1 DEF Walking
    <3>3. QED
      BY <2>3, <3>2, PathEmpty DEF Walking
  <2>4. CASE f.stack = <<>> /\ f.pc \in {"cleanup", "over", "logs"}
    BY <2>4, PathEmpty DEF Walking
  <2>5. QED
    BY <1>10, <2>1, <2>2, <2>3, <2>4
<1>11. QED
  BY <1>3, <1>4, <1>5, <1>6, <1>7, <1>8, <1>9, <1>10 DEF EngineStep

LEMMA PathNext ==
  ASSUME TypeInv, IdleInv, PathInv, [Next]_vars
  PROVE  PathInv'
<1>1. CASE PatchWorkflow \/ UNCHANGED vars
  BY <1>1 DEF PatchWorkflow, vars, PathInv
<1>2. CASE Restart
  <2>1. Over.stack = <<>>
    BY DEF Over, NoEngine
  <2>2. \A y \in Execution : engine'[y] = engine[y] \/ engine'[y] = Over
    BY <1>2 DEF Restart
  <2>3. QED
    BY <2>1, <2>2, PathEmpty DEF PathInv
<1>3. CASE \E x \in Execution : ReceiveEmail(x) \/ DispatchStep(x)
  <2>1. PICK x \in Execution : ReceiveEmail(x) \/ DispatchStep(x)
    BY <1>3
  <2>2. \A y \in Execution \ {x} : engine'[y] = engine[y]
    BY <2>1, DispatchFields
  <2>3. engine'[x].stack = <<>> \/ engine'[x] = engine[x]
    <3>1. CASE dispatch[x].pc \in {"off", "send", "read", "create"}
      <4>1. engine[x].pc = "off"
        BY <3>1 DEF IdleInv
      <4>2. engine[x].stack = <<>>
        BY <4>1 DEF PathInv, Walking
      <4>3. QED
        BY <2>1, <4>2, DispatchFields
    <3>2. CASE dispatch[x].pc \notin {"off", "send", "read", "create"}
      BY <2>1, <3>2 DEF ReceiveEmail, DispatchStep, LogDispatch, ReadWorkflow,
                        CreateExecution, LinkExecution, LogSkipped
    <3>3. QED
      BY <3>1, <3>2
  <2>4. QED
    BY <2>2, <2>3, PathEmpty DEF PathInv
<1>4. CASE \E x \in Execution : EngineStep(x)
  <2>1. PICK x \in Execution : EngineStep(x)
    BY <1>4
  <2>2. \A y \in Execution : y # x => engine'[y] = engine[y]
    BY <2>1, Others
  <2>3. OnPath(engine'[x]) /\ (engine'[x].pc \notin Walking => engine'[x].stack = <<>>)
    BY <2>1, PathStep
  <2>4. QED
    BY <2>2, <2>3 DEF PathInv
<1>5. QED
  BY <1>1, <1>2, <1>3, <1>4 DEF Next

LEMMA CheckedNext ==
  ASSUME TypeInv, IdleInv, PathInv, CheckedInv, [Next]_vars
  PROVE  CheckedInv'
<1>0. engine \in [Execution -> Engine] /\ dispatch \in [Execution -> Dispatch]
  BY DEF TypeInv, Types
<1>1. CASE UNCHANGED vars
  BY <1>1 DEF vars, CheckedInv
<1>2. CASE PatchWorkflow
  <2>1. UNCHANGED <<dispatch, engine>>
    BY <1>2 DEF PatchWorkflow
  <2>2. \A config : validateWorkflow(config) => Checked(config)
    BY DEF validateWorkflow, Checked
  <2>3. workflow'.active => Checked(workflow'.config)
    BY <1>2, <2>2 DEF PatchWorkflow
  <2>4. QED
    BY <2>1, <2>3 DEF CheckedInv
<1>3. CASE Restart
  <2>1. Over.pc = "over"
    BY DEF Over, NoEngine
  <2>2. \A y \in Execution :
          /\ engine'[y] = engine[y] \/ engine'[y] = Over
          /\ dispatch'[y].pc # "create"
    <3> SUFFICES ASSUME NEW y \in Execution
                 PROVE  /\ engine'[y] = engine[y] \/ engine'[y] = Over
                        /\ dispatch'[y].pc # "create"
      OBVIOUS
    <3>1. [dispatch[y] EXCEPT !.pc = "over"].pc = "over"
      BY <1>0 DEF Dispatch
    <3>2. QED
      BY <1>3, <3>1 DEF Restart
  <2>3. UNCHANGED workflow
    BY <1>3 DEF Restart
  <2>4. QED
    BY <2>1, <2>2, <2>3 DEF CheckedInv, Walking
<1>4. CASE \E x \in Execution : ReceiveEmail(x) \/ DispatchStep(x)
  <2>1. PICK x \in Execution : ReceiveEmail(x) \/ DispatchStep(x)
    BY <1>4
  <2>2. /\ \A y \in Execution \ {x} : engine'[y] = engine[y]
        /\ \/ engine'[x].pc = engine[x].pc
           \/ CreateExecution(x) /\ engine[x].pc = "off" /\ engine'[x].pc = "begin"
        /\ \/ engine'[x].config = engine[x].config
           \/ ReadWorkflow(x) /\ workflow.active /\ engine'[x].config = workflow.config
    BY <2>1, DispatchFields
  <2>3. UNCHANGED workflow
    BY <2>1 DEF ReceiveEmail, DispatchStep, LogDispatch, ReadWorkflow, CreateExecution,
                LinkExecution, LogSkipped
  <2>4. /\ \A y \in Execution \ {x} : dispatch'[y] = dispatch[y]
        /\ dispatch'[x].pc = "create" => /\ ReadWorkflow(x) /\ workflow.active
                                         /\ engine'[x].config = workflow.config
    <3>1. /\ \E r : dispatch' = [dispatch EXCEPT ![x] = r]
          /\ \A p : \A r \in Dispatch : [r EXCEPT !.pc = p].pc = p
      BY <1>0, <2>1 DEF Dispatch, ReceiveEmail, DispatchStep, LogDispatch, ReadWorkflow,
                        CreateExecution, LinkExecution, LogSkipped
    <3>2. \A y \in Execution \ {x} : dispatch'[y] = dispatch[y]
      BY <1>0, <3>1
    <3>3. CASE ReadWorkflow(x)
      <4>1. \/ workflow.active /\ engine' = [engine EXCEPT ![x].config = workflow.config]
            \/ dispatch' = [dispatch EXCEPT ![x].pc = "skip"]
        BY <3>3 DEF ReadWorkflow
      <4>2. dispatch' = [dispatch EXCEPT ![x].pc = "skip"] => dispatch'[x].pc # "create"
        BY <1>0 DEF Dispatch
      <4>3. engine' = [engine EXCEPT ![x].config = workflow.config] =>
              engine'[x].config = workflow.config
        BY <1>0 DEF Engine
      <4>4. QED
        BY <3>2, <3>3, <4>1, <4>2, <4>3
    <3>4. CASE ~ ReadWorkflow(x)
      <4>1. dispatch'[x].pc # "create"
        BY <1>0, <2>1, <3>4
           DEF Dispatch, ReceiveEmail, DispatchStep, LogDispatch, CreateExecution,
               LinkExecution, LogSkipped
      <4>2. QED
        BY <3>2, <4>1
    <3>5. QED
      BY <3>3, <3>4
  <2>5. engine'[x].pc \in Walking => Checked(engine'[x].config)
    <3>1. CASE ReadWorkflow(x)
      <4>1. dispatch[x].pc = "read" /\ ~ CreateExecution(x)
        BY <3>1 DEF ReadWorkflow, CreateExecution
      <4>2. engine[x].pc = "off"
        BY <4>1 DEF IdleInv
      <4>3. QED
        BY <2>2, <4>1, <4>2 DEF Walking
    <3>2. CASE CreateExecution(x)
      <4>1. dispatch[x].pc = "create"
        BY <3>2 DEF CreateExecution
      <4>2. Checked(engine[x].config) /\ ~ ReadWorkflow(x)
        BY <4>1 DEF CheckedInv, ReadWorkflow
      <4>3. QED
        BY <2>2, <4>2
    <3>3. CASE ~ ReadWorkflow(x) /\ ~ CreateExecution(x)
      BY <2>2, <3>3 DEF CheckedInv
    <3>4. QED
      BY <3>1, <3>2, <3>3
  <2>6. dispatch'[x].pc = "create" => Checked(engine'[x].config)
    BY <2>4 DEF CheckedInv
  <2>7. QED
    BY <2>2, <2>3, <2>4, <2>5, <2>6 DEF CheckedInv
<1>5. CASE \E x \in Execution : EngineStep(x)
  <2>1. PICK x \in Execution : EngineStep(x)
    BY <1>5
  <2>2. \A y \in Execution : y # x => engine'[y] = engine[y]
    BY <2>1, Others
  <2>3. engine'[x].pc \in Walking => Checked(engine'[x].config)
    BY <2>1, PathStep DEF CheckedInv
  <2>4. UNCHANGED workflow
    BY <2>1 DEF EngineStep, Begin, Pass, GiveUp, Enter, Run, Complete, FollowEdge,
                Catch, Succeed, Fail, FindOld, DeleteLogs, DeleteRows, CleanupFails
  <2>5. engine'[x].pc # "off" /\ IdleInv'
    BY <2>1, RowsOfStep, EngineIdle
  <2>6. \A y \in Execution : dispatch'[y].pc = "create" => dispatch[y].pc = "create"
    <3>1. CASE DeleteRows(x)
      <4> SUFFICES ASSUME NEW y \in Execution
                   PROVE  dispatch'[y].pc = dispatch[y].pc
        OBVIOUS
      <4>1. dispatch'[y] = IF y \in engine[x].doomed
                             THEN [dispatch[y] EXCEPT !.linked = FALSE] ELSE dispatch[y]
        BY <3>1 DEF DeleteRows
      <4>2. QED
        BY <1>0, <4>1 DEF Dispatch
    <3>2. QED
      BY <2>1, <3>1 DEF EngineStep, Begin, Pass, GiveUp, Enter, Run, Complete, FollowEdge,
                        Catch, Succeed, Fail, FindOld, DeleteLogs, CleanupFails
  <2>7. ASSUME NEW y \in Execution, dispatch'[y].pc = "create"
        PROVE  Checked(engine'[y].config)
    <3>1. y # x
      BY <2>5, <2>7 DEF IdleInv
    <3>2. QED
      BY <2>2, <2>6, <2>7, <3>1 DEF CheckedInv
  <2>8. QED
    BY <2>2, <2>3, <2>4, <2>7 DEF CheckedInv
<1>6. QED
  BY <1>1, <1>2, <1>3, <1>4, <1>5 DEF Next

\* A configuration that passed validateWorkflow has no cycle that the walk could go
\* round: no node is called again while a call of it is under way.
THEOREM NoReentryAlways == Spec => []NoReentry
<1>1. Init => TypeInv /\ IdleInv /\ PathInv /\ CheckedInv
  <2> SUFFICES ASSUME Init PROVE PathInv /\ CheckedInv
    BY InitTypes
  <2>1. \A x \in Execution : engine[x] = NoEngine /\ dispatch[x].pc = "off"
    BY DEF Init
  <2>2. NoEngine.stack = <<>> /\ NoEngine.pc = "off"
    BY DEF NoEngine
  <2>3. ~ workflow.active
    BY DEF Init
  <2>4. QED
    BY <2>1, <2>2, <2>3, PathEmpty DEF PathInv, CheckedInv, Walking
<1>2. (TypeInv /\ IdleInv /\ PathInv /\ CheckedInv) /\ [Next]_vars =>
        (TypeInv /\ IdleInv /\ PathInv /\ CheckedInv)'
  BY NextTypes, PathNext, CheckedNext
<1>3. TypeInv /\ PathInv /\ CheckedInv => NoReentry
  <2> SUFFICES ASSUME TypeInv, PathInv, CheckedInv, NEW x \in Execution,
                      NEW i \in DOMAIN engine[x].stack, NEW j \in DOMAIN engine[x].stack, i # j
               PROVE  engine[x].stack[i].node # engine[x].stack[j].node
    BY DEF NoReentry
  <2> DEFINE e == engine[x]
             config == e.config
             stack == e.stack
  <2>1. e \in Engine /\ config \in WorkflowConfig /\ stack \in Seq(Frame)
    BY EngineAssumption DEF TypeInv, Types, Engine
  <2>2. e.pc \in Walking
    BY DEF PathInv
  <2>3. ~ detectCycles(config)
    BY <2>2 DEF CheckedInv, Checked
  <2>4. PICK R : Ordered(config, Node, R)
    BY <2>1, <2>3, NoCycleOrders, GraphAssumption
  <2>5. Ascends(R, e)
    BY <2>4 DEF PathInv, OnPath
  <2>6. i \in Nat /\ j \in Nat /\ \A k \in DOMAIN stack : stack[k].node \in Node
    <3>1. DOMAIN stack = 1 .. Len(stack) /\ Len(stack) \in Nat
      BY <2>1, LenProperties
    <3>2. \A k \in DOMAIN stack : stack[k] \in Frame
      BY <2>1, <3>1, ElementOfSeq
    <3>3. QED
      BY <3>1, <3>2 DEF Frame
  <2>7. i < j \/ j < i
    BY <2>6
  <2>8. \A n \in Node : <<n, n>> \notin R
    BY <2>4 DEF Ordered
  <2> HIDE DEF e, stack
  <2>9. QED
    BY <2>5, <2>6, <2>7, <2>8 DEF Ascends, stack, e
<1>4. QED
  BY <1>1, <1>2, <1>3, PTL DEF Spec
=============================================================================
