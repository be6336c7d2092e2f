-------------------------- MODULE MCWorkflowEngine --------------------------
(* Instances of WorkflowEngine and of TelegramGroup, which has the forwards  *)
(* of its nodes.  They share no row, and a behaviour uses one of the two.    *)
(* The cycle check of WorkflowGraph is compared with the library's           *)
(* definition of a cycle for every graph.                                    *)
EXTENDS WorkflowEngine, TelegramGroup, TLC

CONSTANTS mine, other    \* two accounts

VARIABLE part

allVars == <<vars, telegramVars, part>>

LOCAL G == INSTANCE Graphs
LOCAL Plain(edges) ==
  [kind  |-> [n \in Node |-> "step"],
   edges |-> {[source |-> e[1], handle |-> "default", target |-> e[2]] : e \in edges}]

ASSUME CyclesAreFound ==
  \A edges \in SUBSET (Node \X Node) :
    detectCycles(Plain(edges)) <=> G!HasCycle([node |-> Node, edge |-> edges])

\* Edges as <<source, handle, target>>.
LOCAL Graph(kinds, edges) ==
  [kind  |-> kinds,
   edges |-> {[source |-> e[1], handle |-> e[2], target |-> e[3]] : e \in edges}]

\* The sides of a condition share a successor, and the end comes right after the
\* trigger as well; and the same with a way back (short, for few steps), which must
\* stay a draft.
LOCAL Kinds == <<"trigger", "conditional", "multi", "end">>
LOCAL Edges == {<<1, "default", 2>>, <<1, "default", 4>>, <<2, "true", 3>>,
                <<2, "false", 3>>, <<3, "default", 4>>}
MCConfig == {Graph(Kinds, Edges), Graph(Kinds, Edges \union {<<2, "true", 2>>})}

\* Commands with one another, with the dashboard, and each with forwards.
AllScenes == {Command, {"bind", "unlink"} \union Change,
              {"bind", "unlink", "mailboxTopic"},
              {"unlink", "enable", "remove", "mailboxTopic", "explicit"},
              {"unlink", "disable", "generalTopic", "bound"}}

AllMine == [b \in Box |-> mine]

\* The part that is not used begins in one way only.
MCInit ==
    /\ Init /\ TelegramInit
    /\ \/ part = "engine" /\ scene = Command /\ links = [s \in Sender |-> Nobody]
       \/ part = "group" /\ workflow.config = Graph(Kinds, Edges) /\ setting = 1

MCNext ==
    \/ part = "engine" /\ Next /\ UNCHANGED <<telegramVars, part>>
    \/ part = "group" /\ TelegramNext /\ UNCHANGED <<vars, part>>

\* In a behaviour of the group nothing of Fairness is ever enabled.
MCSpec == MCInit /\ [][MCNext]_allVars /\ Fairness
=============================================================================
