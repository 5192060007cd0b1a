----------------------------- MODULE MCAgentRun -----------------------------
(* Instances of AgentRun for TLC. *)
EXTENDS AgentRun

\* Agents with each order of the plugins that change a request, and each way to compact.
MCAgents ==
  [persona : BOOLEAN,
   plugins : UNION {SetToAllKPermutations(names) : names \in
                      {{"agent-skills", "walrus-memory", "compaction"},
                       {"semantic-memory", "knowledge", "compaction"}}},
   compaction : {[maxMessages |-> 3, maxTokens |-> Undefined, keepRecent |-> k] : k \in 0..2}
                \cup {[maxMessages |-> Undefined, maxTokens |-> 6, keepRecent |-> 2]}]
=============================================================================
