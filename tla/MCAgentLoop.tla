---------------------------- MODULE MCAgentLoop ----------------------------
(* Small instances of AgentLoop: one network tool, one emit tool and one    *)
(* tool outside the agent's scope.                                          *)
EXTENDS AgentLoop

CONSTANTS read, emit, other   \* calls

MCToolOf == [c \in Calls |-> CASE c = read -> "repo_read"
                               [] c = emit -> "emit_component"
                               [] OTHER                -> "unknown"]
MCTools == {"repo_read", "emit_component", "unknown"}
MCScope == {"repo_read", "emit_component"}
MCEmitTools == {"emit_component"}
=============================================================================
