--------------------------- MODULE MCAgentOutbox ---------------------------
(* Instances of AgentOutbox for TLC.                                       *)
EXTENDS AgentOutbox, TLC

CONSTANT a

\* Every call in the one MCP server of a workspace.
OneProcess == [x \in Calls |-> 1]
\* An agent's MCP server and a command-line call beside it.
TwoProcesses == [x \in Calls |-> IF x = a THEN 1 ELSE 2]
=============================================================================
