--------------------------- MODULE MCOrchestrator ---------------------------
(* Small instances of Orchestrator: every graph on three phases, cyclic or  *)
(* not, declared in every order; and the two malformed pipelines.           *)
EXTENDS Orchestrator

MCNames == 1..3

Orders == {s \in [1..3 -> MCNames] : Elements(s) = MCNames}

MCPipelines ==
  [declared : Orders,
   dependsOn : [MCNames -> SUBSET MCNames],
   optional : {{}, {1}, {2, 3}}]
  \cup
  {[declared |-> <<1, 2, 1>>, dependsOn |-> [p \in MCNames |-> {}],
    optional |-> {}],
   [declared |-> <<1, 2>>, dependsOn |-> [p \in MCNames |-> {3}],
    optional |-> {}]}
=============================================================================
