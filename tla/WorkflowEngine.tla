--------------------------- MODULE WorkflowEngine ---------------------------
(***************************************************************************)
(* One workflow, the emails that trigger it and the engines that execute   *)
(* it: the dispatch of an email (trigger.ts), the walk of an engine over   *)
(* the graph with the log row of each node (engine.ts, logging.ts), and    *)
(* the cleanup of old executions with which every engine ends.  Engines    *)
(* run concurrently; each await of the database is a step of its own and   *)
(* may fail.  What a node does to the email, and the variables it passes   *)
(* on, are left out.                                                       *)
(***************************************************************************)
EXTENDS WorkflowGraph, Sequences

CONSTANTS
    Execution,  \* the emails that arrive, and the execution of each
    Config,     \* configurations that the user saves
    MaxSteps,   \* maxSteps of the engine
    Setting,    \* values of the setting workflow_max_execution_logs
    DefaultLogs, \* DEFAULT_MAX_EXECUTION_LOGS
    MaxFaults   \* bound: failures of the database and restarts

ASSUME EngineAssumption ==
    /\ Config \subseteq WorkflowConfig
    /\ Node # {} /\ Config # {} /\ IsFiniteSet(Execution)
    /\ MaxSteps \in Nat \ {0} /\ MaxFaults \in Nat
    /\ Setting \subseteq Nat \ {0} /\ DefaultLogs \in Nat \ {0}

VARIABLES
    workflow, \* the row of the workflow
    row,      \* the rows of its executions
    nodeLog,  \* their log rows, by stepOrder
    dispatch, \* the dispatch of each email and its log rows
    engine,   \* the engine of each execution
    setting,  \* how many executions to keep; an administrator set it before
    faults    \* bound: what failed so far

vars == <<workflow, row, nodeLog, dispatch, engine, setting, faults>>

\* What the steps change.
stepVars == <<workflow, row, nodeLog, dispatch, engine, faults>>

Step == 1 .. MaxSteps

Workflow == [active : BOOLEAN, config : Config]

\* "none": not created yet, or deleted.
Row == [status : {"none", "RUNNING", "SUCCESS", "FAILED"}, startedAt : Nat]

LogStatus == {"none", "RUNNING", "SUCCESS", "FAILED"}

\* Its first log row is there once pc is past "send"; skipped: so is a second one,
\* which says that the email was skipped; linked: the first names the execution.
Dispatch == [pc : {"off", "send", "read", "create", "link", "skip", "over"},
             skipped : BOOLEAN, linked : BOOLEAN]

\* A call of executeFromNode: its node, its log row, the edges not yet followed.
Frame == [node : Node, step : Step, todo : SUBSET Edge]

Engine == [pc : {"off", "begin", "enter", "run", "complete", "next", "catch",
                 "succeed", "failed", "cleanup", "logs", "rows", "over"},
           config   : Config,
           node     : Node,            \* the node to enter
           stack    : Seq(Frame),      \* the calls under way, innermost first
           steps    : 0 .. MaxSteps,   \* stepsExecuted
           aborted  : BOOLEAN,
           rejected : BOOLEAN,         \* pendingWrites holds a rejected promise
           doomed   : SUBSET Execution] \* idsToDelete

TypeOK ==
    /\ workflow \in Workflow
    /\ row \in [Execution -> Row]
    /\ nodeLog \in [Execution -> [Step -> LogStatus]]
    /\ dispatch \in [Execution -> Dispatch]
    /\ engine \in [Execution -> Engine]
    /\ setting \in Setting
    /\ faults \in 0 .. MaxFaults

NoEngine == [pc |-> "off", config |-> CHOOSE c \in Config : TRUE,
             node |-> CHOOSE n \in Node : TRUE, stack |-> <<>>, steps |-> 0,
             aborted |-> FALSE, rejected |-> FALSE, doomed |-> {}]
Over     == [NoEngine EXCEPT !.pc = "over"]
NoLogs   == [s \in Step |-> "none"]

\* A new workflow is a draft; only its syntax was checked.
Init ==
    /\ workflow \in [active : {FALSE}, config : Config]
    /\ row = [x \in Execution |-> [status |-> "none", startedAt |-> 0]]
    /\ nodeLog = [x \in Execution |-> NoLogs]
    /\ dispatch = [x \in Execution |->
                     [pc |-> "off", skipped |-> FALSE, linked |-> FALSE]]
    /\ engine = [x \in Execution |-> NoEngine]
    /\ setting \in Setting
    /\ faults = 0

-----------------------------------------------------------------------------
(* The database. *)

Live == {x \in Execution : row[x].status # "none"}

Fails == faults < MaxFaults /\ faults' = faults + 1

\* An update of the execution x, or a log row for it, is not written: the
\* database fails, or a cleanup has deleted the execution.
Lost(x) == \/ Fails
           \/ x \notin Live /\ UNCHANGED faults

Newer(x) == {y \in Live : row[y].startedAt > row[x].startedAt}

-----------------------------------------------------------------------------
(* The workflow.  A configuration is checked when it is saved, and again when *)
(* the workflow becomes active.  Once every email has been dispatched nothing *)
(* reads the workflow, and it is left as it is.                               *)

PatchWorkflow ==
    /\ \E x \in Execution : dispatch[x].pc \in {"off", "send", "read"}
    /\ \E w \in Workflow :
         /\ w # workflow
         /\ validateWorkflow(w.config) \/ (w.config = workflow.config /\ ~w.active)
         /\ workflow' = w
    /\ UNCHANGED <<row, nodeLog, dispatch, engine, faults>>

-----------------------------------------------------------------------------
(* The dispatch of an email. *)

\* triggerEmailWorkflows finds the workflow active.
ReceiveEmail(x) ==
    /\ dispatch[x].pc = "off" /\ workflow.active
    /\ dispatch' = [dispatch EXCEPT ![x].pc = "send"]
    /\ UNCHANGED <<workflow, row, nodeLog, engine, faults>>

LogDispatch(x) ==
    /\ dispatch[x].pc = "send"
    /\ \/ /\ dispatch' = [dispatch EXCEPT ![x].pc = "read"]
          /\ UNCHANGED faults
       \/ Fails /\ dispatch' = [dispatch EXCEPT ![x].pc = "skip"]
    /\ UNCHANGED <<workflow, row, nodeLog, engine>>

\* triggerWorkflow reads the workflow again.
ReadWorkflow(x) ==
    /\ dispatch[x].pc = "read"
    /\ \/ /\ workflow.active
          /\ dispatch' = [dispatch EXCEPT ![x].pc = "create"]
          /\ engine' = [engine EXCEPT ![x].config = workflow.config]
          /\ UNCHANGED faults
       \/ /\ IF workflow.active THEN Fails ELSE UNCHANGED faults
          /\ dispatch' = [dispatch EXCEPT ![x].pc = "skip"]
          /\ UNCHANGED engine
    /\ UNCHANGED <<workflow, row, nodeLog>>

\* The engine starts, and the dispatch does not wait for it.
CreateExecution(x) ==
    /\ dispatch[x].pc = "create"
    /\ \/ /\ row' = [row EXCEPT ![x] =
                       [status    |-> "RUNNING",
                        startedAt |-> 1 + Cardinality({y \in Execution :
                                                        row[y].startedAt > 0})]]
          /\ engine' = [engine EXCEPT ![x].pc = "begin"]
          /\ dispatch' = [dispatch EXCEPT ![x].pc = "link"]
          /\ UNCHANGED faults
       \/ /\ Fails
          /\ dispatch' = [dispatch EXCEPT ![x].pc = "skip"]
          /\ UNCHANGED <<row, engine>>
    /\ UNCHANGED <<workflow, nodeLog>>

LinkExecution(x) ==
    /\ dispatch[x].pc = "link"
    /\ \/ /\ x \in Live
          /\ dispatch' = [dispatch EXCEPT ![x].pc = "over", ![x].linked = TRUE]
          /\ UNCHANGED faults
       \/ Lost(x) /\ dispatch' = [dispatch EXCEPT ![x].pc = "skip"]
    /\ UNCHANGED <<workflow, row, nodeLog, engine>>

LogSkipped(x) ==
    /\ dispatch[x].pc = "skip"
    /\ \/ /\ dispatch' = [dispatch EXCEPT ![x].pc = "over", ![x].skipped = TRUE]
          /\ UNCHANGED faults
       \/ Fails /\ dispatch' = [dispatch EXCEPT ![x].pc = "over"]
    /\ UNCHANGED <<workflow, row, nodeLog, engine>>

-----------------------------------------------------------------------------
(* The walk of an engine. *)

Top(e) == Head(e.stack)

\* Mutant: execute has no catch of its own.
WrongThrown(e) == [e EXCEPT !.pc = IF e.stack = <<>> THEN "over" ELSE "catch"]

\* An exception goes to the innermost call that is in its try, or to execute.
\* The call that creates its log row is not in its try yet.
Thrown(e) == [e EXCEPT !.pc = IF e.stack = <<>> THEN "failed" ELSE "catch"]

Returned(e) == [e EXCEPT !.stack = Tail(e.stack),
                         !.pc = IF Tail(e.stack) = <<>> THEN "succeed" ELSE "next"]

\* The innermost call goes on.
Goes(e, call) == [e EXCEPT !.stack = <<call>> \o Tail(e.stack)]

\* Mutant: the catch of executeFromNode does not throw the error on.
WrongRethrown(e) == Returned(e)

\* The catch of the innermost call throws the error on, whosever it is.
Rethrown(e) == Thrown([e EXCEPT !.stack = Tail(e.stack)])

\* Mutant: a call does not look whether the execution has ended.
WrongEnded(e) == FALSE

Ended(e) == e.aborted

\* Mutant: the limit is off by one.
WrongWithinSteps(e) == e.steps <= MaxSteps

WithinSteps(e) == e.steps < MaxSteps

Begin(x) ==
    /\ engine[x].pc = "begin"
    /\ \/ /\ x \in Live
          /\ row' = [row EXCEPT ![x].status = "RUNNING"]
          /\ \E n \in TriggerNodes(engine[x].config) :
               engine' = [engine EXCEPT ![x].pc = "enter", ![x].node = n]
          /\ UNCHANGED faults
       \/ /\ Lost(x)
          /\ engine' = [engine EXCEPT ![x].pc = "failed"]
          /\ UNCHANGED row
    /\ UNCHANGED <<workflow, nodeLog, dispatch>>

\* A node after control:end is not entered.
Pass(x) ==
    /\ engine[x].pc = "enter" /\ Ended(engine[x])
    /\ engine' = [engine EXCEPT ![x].pc = "next"]
    /\ UNCHANGED <<workflow, row, nodeLog, dispatch, faults>>

\* The time is up, or there were enough steps.
GiveUp(x) ==
    /\ engine[x].pc = "enter" /\ ~ Ended(engine[x])
    /\ engine' = [engine EXCEPT ![x] = Thrown(engine[x])]
    /\ UNCHANGED <<workflow, row, nodeLog, dispatch, faults>>

Enter(x) ==
  LET e    == engine[x]
      step == e.steps + 1
      call == [node |-> e.node, step |-> step, todo |-> {}]
  IN
    /\ e.pc = "enter" /\ ~ Ended(e) /\ WithinSteps(e)
    /\ \/ /\ x \in Live
          /\ nodeLog' = [nodeLog EXCEPT ![x][step] = "RUNNING"]
          /\ engine' = [engine EXCEPT
               ![x] = [e EXCEPT !.pc = "run", !.steps = step,
                                !.stack = <<call>> \o e.stack]]
          /\ UNCHANGED faults
       \/ /\ Lost(x)
          /\ engine' = [engine EXCEPT
               ![x] = Thrown([e EXCEPT !.steps = step, !.rejected = TRUE])]
          /\ UNCHANGED nodeLog
    /\ UNCHANGED <<workflow, row, dispatch>>

\* executeNode: the node fails, or selects the edges to follow.
Run(x) ==
  LET e       == engine[x]
      kind    == e.config.kind[Top(e).node]
      next(r) == [Top(e) EXCEPT !.todo = NextEdges(e.config, Top(e).node, r)]
  IN
    /\ e.pc = "run"
    /\ \/ engine' = [engine EXCEPT ![x].pc = "catch"]
       \/ \E result \in Results(kind) :
            engine' = [engine EXCEPT
              ![x] = [Goes(e, next(result)) EXCEPT !.pc = "complete"]]
    /\ UNCHANGED <<workflow, row, nodeLog, dispatch, faults>>

\* The log row of the innermost call is there until a cleanup deletes it.
HasLog(x) == nodeLog[x][Top(engine[x]).step] # "none"

\* The log row of a node is not updated: the update is rejected, because of the
\* database or because the row is gone, or already the read of startedAt before it
\* fails, and then pendingWrites knows nothing of it.
Unlogged(x, e) ==
    \E rejected \in {e.rejected, TRUE} :
      /\ Fails \/ (~ HasLog(x) /\ rejected /\ UNCHANGED faults)
      /\ engine' = [engine EXCEPT ![x] = [e EXCEPT !.rejected = rejected]]

Complete(x) ==
  LET e == engine[x]
  IN
    /\ e.pc = "complete"
    /\ \/ /\ HasLog(x)
          /\ nodeLog' = [nodeLog EXCEPT ![x][Top(e).step] = "SUCCESS"]
          /\ engine' = [engine EXCEPT
               ![x] = IF e.config.kind[Top(e).node] = "end"
                        THEN Returned([e EXCEPT !.aborted = TRUE])
                        ELSE [e EXCEPT !.pc = "next"]]
          /\ UNCHANGED faults
       \/ Unlogged(x, Thrown(e)) /\ UNCHANGED nodeLog
    /\ UNCHANGED <<workflow, row, dispatch>>

\* The loop over the successors, and its end.
FollowEdge(x) ==
  LET e == engine[x]
  IN
    /\ e.pc = "next"
    /\ \/ \E edge \in Top(e).todo :
            engine' = [engine EXCEPT
              ![x] = [Goes(e, [Top(e) EXCEPT !.todo = Top(e).todo \ {edge}])
                       EXCEPT !.pc = "enter", !.node = edge.target]]
       \/ /\ Top(e).todo = {}
          /\ engine' = [engine EXCEPT ![x] = Returned(e)]
    /\ UNCHANGED <<workflow, row, nodeLog, dispatch, faults>>

\* The innermost call logs the failure as its own.
Catch(x) ==
  LET e == engine[x]
  IN
    /\ e.pc = "catch"
    /\ \/ /\ HasLog(x)
          /\ nodeLog' = [nodeLog EXCEPT ![x][Top(e).step] = "FAILED"]
          /\ engine' = [engine EXCEPT ![x] = Rethrown(e)]
          /\ UNCHANGED faults
       \/ Unlogged(x, Rethrown(e)) /\ UNCHANGED nodeLog
    /\ UNCHANGED <<workflow, row, dispatch>>

-----------------------------------------------------------------------------
(* The end of an engine: updateExecutionStatus and the cleanup in it. *)

\* Mutant: flush waits for what was not written.
WrongStatusLost(x) == Lost(x)

\* A rejected promise of pendingWrites rejects every flush.
StatusLost(x) == \/ Lost(x)
                 \/ engine[x].rejected /\ UNCHANGED faults

Succeed(x) ==
    /\ engine[x].pc = "succeed"
    /\ \/ /\ x \in Live /\ ~ engine[x].rejected
          /\ row' = [row EXCEPT ![x].status = "SUCCESS"]
          /\ engine' = [engine EXCEPT ![x] = [Over EXCEPT !.pc = "cleanup"]]
          /\ UNCHANGED faults
       \/ /\ StatusLost(x)
          /\ engine' = [engine EXCEPT ![x].pc = "failed"]
          /\ UNCHANGED row
    /\ UNCHANGED <<workflow, nodeLog, dispatch>>

Fail(x) ==
    /\ engine[x].pc = "failed"
    /\ \/ /\ x \in Live /\ ~ engine[x].rejected
          /\ row' = [row EXCEPT ![x].status = "FAILED"]
          /\ engine' = [engine EXCEPT ![x] = [Over EXCEPT !.pc = "cleanup"]]
          /\ UNCHANGED faults
       \/ /\ StatusLost(x)
          /\ engine' = [engine EXCEPT ![x] = Over]
          /\ UNCHANGED row
    /\ UNCHANGED <<workflow, nodeLog, dispatch>>

\* Mutants: one execution more is kept; the oldest come first.
WrongLimit(limit) == {x \in Live : Cardinality(Newer(x)) > limit}
WrongOrder(limit) == {x \in Live : Cardinality(Live \ Newer(x)) > limit}

\* The executions beyond the limit, the newest first.
BeyondLimit(limit) == {x \in Live : Cardinality(Newer(x)) >= limit}

\* getMaxExecutionLogs: where the setting cannot be read, the default is taken.
LimitRead(limit) == \/ limit = setting /\ UNCHANGED faults
                    \/ limit = DefaultLogs /\ Fails

\* As the setting stays as it is, reading it is one step with reading the list.
FindOld(x) ==
    /\ engine[x].pc = "cleanup"
    /\ \E limit \in {setting, DefaultLogs} :
         LET old == BeyondLimit(limit) IN
         /\ LimitRead(limit)
         /\ engine' = [engine EXCEPT
              ![x] = IF old = {} THEN Over
                     ELSE [Over EXCEPT !.pc = "logs", !.doomed = old]]
    /\ UNCHANGED <<workflow, row, nodeLog, dispatch>>

DeleteLogs(x) ==
    /\ engine[x].pc = "logs"
    /\ nodeLog' = [y \in Execution |->
                     IF y \in engine[x].doomed THEN NoLogs ELSE nodeLog[y]]
    /\ engine' = [engine EXCEPT ![x].pc = "rows"]
    /\ UNCHANGED <<workflow, row, dispatch, faults>>

\* Log rows written since go with their execution, a dispatch forgets it.
DeleteRows(x) ==
  LET doomed == engine[x].doomed
  IN
    /\ engine[x].pc = "rows"
    /\ row' = [y \in Execution |->
                 IF y \in doomed THEN [row[y] EXCEPT !.status = "none"] ELSE row[y]]
    /\ nodeLog' = [y \in Execution |-> IF y \in doomed THEN NoLogs ELSE nodeLog[y]]
    /\ dispatch' = [y \in Execution |->
                      IF y \in doomed THEN [dispatch[y] EXCEPT !.linked = FALSE]
                                      ELSE dispatch[y]]
    /\ engine' = [engine EXCEPT ![x] = Over]
    /\ UNCHANGED <<workflow, faults>>

\* Any other statement of the cleanup fails; updateExecutionStatus ignores it.
CleanupFails(x) ==
    /\ engine[x].pc \in {"cleanup", "logs", "rows"}
    /\ Fails
    /\ engine' = [engine EXCEPT ![x] = Over]
    /\ UNCHANGED <<workflow, row, nodeLog, dispatch>>

\* The server restarts; nobody takes up an execution again.
Restart ==
    /\ Fails
    /\ engine' = [x \in Execution |->
                    IF engine[x].pc = "off" THEN engine[x] ELSE Over]
    /\ dispatch' = [x \in Execution |->
                      IF dispatch[x].pc = "off" THEN dispatch[x]
                                                ELSE [dispatch[x] EXCEPT !.pc = "over"]]
    /\ UNCHANGED <<workflow, row, nodeLog>>

-----------------------------------------------------------------------------

EngineStep(x) ==
    \/ Begin(x) \/ Pass(x) \/ GiveUp(x) \/ Enter(x) \/ Run(x) \/ Complete(x)
    \/ FollowEdge(x) \/ Catch(x) \/ Succeed(x) \/ Fail(x)
    \/ FindOld(x) \/ DeleteLogs(x) \/ DeleteRows(x) \/ CleanupFails(x)

DispatchStep(x) ==
    \/ LogDispatch(x) \/ ReadWorkflow(x) \/ CreateExecution(x)
    \/ LinkExecution(x) \/ LogSkipped(x)

Next ==
    /\ \/ PatchWorkflow \/ Restart
       \/ \E x \in Execution : ReceiveEmail(x) \/ DispatchStep(x) \/ EngineStep(x)
    /\ UNCHANGED setting

\* An await of the server ends; nobody needs to send mail or save a workflow.
Fairness ==
  \A x \in Execution : WF_stepVars(EngineStep(x)) /\ WF_stepVars(DispatchStep(x))

Spec == Init /\ [][Next]_vars /\ Fairness
-----------------------------------------------------------------------------
(* Properties. *)

\* A configuration that passed validateWorkflow has no cycle that the walk could
\* go round: no node is called again by its own successors (engine.ts calls
\* executeFromNode without looking where it came from).
NoReentry ==
  \A x \in Execution : \A i, j \in DOMAIN engine[x].stack :
    i # j => engine[x].stack[i].node # engine[x].stack[j].node

\* The status of an execution agrees with its log rows: SUCCESS means that every
\* node succeeded, and FAILED leaves no node RUNNING unless a statement of the
\* database failed (executeFromNode rethrows whatever a successor threw).
StatusAgrees ==
  \A x \in Execution :
    LET logs == {nodeLog[x][s] : s \in Step}
    IN  /\ row[x].status = "SUCCESS" => logs \subseteq {"none", "SUCCESS"}
        /\ row[x].status = "FAILED" /\ faults = 0 => "RUNNING" \notin logs

\* The executions that a cleanup is about to delete: their log rows are gone.
Doomed == UNION {engine[x].doomed : x \in {x \in Execution : engine[x].pc = "rows"}}

\* As long as the database does not fail, an engine that is over leaves its
\* execution SUCCESS or FAILED, or to the cleanup that took its log rows away; and
\* the log of a dispatch that is over names the execution or says that the email
\* was skipped, although concurrent cleanups delete executions under engines and
\* dispatches that are not over.
Settled ==
  faults = 0 => \A x \in Execution :
    /\ engine[x].pc = "over" => row[x].status # "RUNNING" \/ x \in Doomed
    /\ dispatch[x].pc = "over" => /\ dispatch[x].linked <=> x \in Live
                                  /\ dispatch[x].skipped => x \notin Live

\* The least limit that a cleanup goes by.
LeastLimit == IF faults > 0 /\ DefaultLogs < setting THEN DefaultLogs ELSE setting

\* A cleanup deletes an execution only while as many newer ones are there as the
\* setting allows, although it deletes by a list read earlier.  After a failure these
\* may be as few as the default: a larger setting is not kept when it cannot be read
\* (logging.ts:27-30).
NewestKept ==
  [][\A x \in Live : x \notin Live' => Cardinality(Newer(x)) >= LeastLimit]_vars

\* However the cleanups of concurrent engines interleave, no more executions are
\* left, or about to be, than the setting allows and engines are still to clean up.
LimitHolds ==
  faults = 0 =>
    Cardinality(Live \ Doomed) <=
      setting + Cardinality({x \in Execution : engine[x].pc \notin {"off", "over", "rows"}})

\* control:end ends the whole execution: no call that is still under way enters
\* another node.
EndIsFinal ==
  [][\A x \in Execution : engine[x].aborted =>
       \A s \in Step : nodeLog[x][s] = "none" => nodeLog'[x][s] = "none"]_vars

\* Every engine and every dispatch comes to its end, whatever fails: the walk is
\* bounded, and nobody waits for a statement that was not written.
EveryoneEnds ==
  <>[](\A x \in Execution : {engine[x].pc, dispatch[x].pc} \subseteq {"off", "over"})
=============================================================================
