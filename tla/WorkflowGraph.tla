---------------------------- MODULE WorkflowGraph ----------------------------
(***************************************************************************)
(* The graph of a workflow as an operation on data: the checks that a      *)
(* configuration passes before its workflow may be active (utils.ts) and   *)
(* the successors of a node.  What a node does is its kind: a "step"       *)
(* follows all its edges, a "conditional" one those of its truth value, a  *)
(* "multi" one those of the category it chose.  The order in which a       *)
(* configuration lists its nodes and edges is left open.                   *)
(***************************************************************************)
EXTENDS FiniteSetsExt

CONSTANTS
    Node,     \* the nodes of a configuration, by their ids
    Category  \* what a classifier may answer

\* The nodes of a configuration are an array.
ASSUME GraphAssumption == IsFiniteSet(Node)

Kind   == {"trigger", "step", "conditional", "multi", "end"}
Truth  == {"true", "false"}
Handle == Truth \union Category \union {"default"}
Edge   == [source : Node, handle : Handle, target : Node]

\* The edges join nodes of the configuration: normalizeWorkflowConfigForPolicy
\* drops the others when the configuration is saved.
WorkflowConfig == [kind : [Node -> Kind], edges : SUBSET Edge]

TriggerNodes(config) == {n \in Node : config.kind[n] = "trigger"}

Targets(config, n) == {e.target : e \in {e \in config.edges : e.source = n}}

\* The depth-first search: s holds the nodes visited and those of the path, and
\* a search that has met its own path returns at once.
Search == [visited : SUBSET Node, path : SUBSET Node, cyclic : BOOLEAN]

Meets(s, n) == n \in s.path

\* The search comes to node m, from the last node of its path or from the list of
\* all nodes: then no node is on the path, and one that is visited is passed over.
Reach(dfs, m, s) ==
  IF s.cyclic THEN s
  ELSE IF m \notin s.visited THEN dfs[<<m, s>>] ELSE [s EXCEPT !.cyclic = Meets(s, m)]

ReachAll(dfs, nodes, s) == FoldSet(LAMBDA m, t : Reach(dfs, m, t), s, nodes)

VisitNode(dfs, config, n, s) ==
  LET inside == [s EXCEPT !.visited = @ \union {n}, !.path = @ \union {n}]
      after  == ReachAll(dfs, Targets(config, n), inside)
  IN  IF after.cyclic THEN after ELSE [after EXCEPT !.path = @ \ {n}]

detectCycles(config) ==
  LET dfs[call \in Node \X Search] == VisitNode(dfs, config, call[1], call[2])
      nothing == [visited |-> {}, path |-> {}, cyclic |-> FALSE]
  IN  ReachAll(dfs, Node, nothing).cyclic

\* Mutant: cycles are not looked for.
WrongValidateWorkflow(config) ==
  /\ \E n \in Node : TriggerNodes(config) = {n}
  /\ \A e \in config.edges : config.kind[e.target] # "trigger"

\* No error; the warnings do not stop anyone.
validateWorkflow(config) ==
  /\ \E n \in Node : TriggerNodes(config) = {n}
  /\ \A e \in config.edges : config.kind[e.target] # "trigger"
  /\ ~ detectCycles(config)

-----------------------------------------------------------------------------
(* The walk. *)

\* What executeNode may return, as the handle that it selects.
Results(kind) == CASE kind = "conditional" -> Truth
                   [] kind = "multi"       -> Category \union {"default"}
                   [] OTHER                -> {"default"}

\* An edge has its own turn: two edges to one node run the node twice.
NextEdges(config, n, result) ==
  LET from     == {e \in config.edges : e.source = n}
      onHandle == {e \in from : e.handle = result}
  IN  CASE config.kind[n] = "conditional" -> onHandle
        [] config.kind[n] = "multi"       ->
             IF onHandle # {} THEN onHandle
                              ELSE {e \in from : e.handle = "default"}
        [] OTHER                          -> from
=============================================================================
