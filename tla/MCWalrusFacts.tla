---------------------------- MODULE MCWalrusFacts ----------------------------
(* Instances of the two long-term memories for TLC: an agent has one or the other. *)
EXTENDS WalrusFacts, VectorMemory

VARIABLE plugin

MCInit == plugin \in {"walrusMemory", "semanticMemory"} /\ Init /\ VecInit

MCNext == \/ plugin = "walrusMemory" /\ Next /\ UNCHANGED <<plugin, vecVars>>
          \/ plugin = "semanticMemory" /\ VecNext /\ UNCHANGED <<plugin, vars>>

MCSpec == MCInit /\ [][MCNext]_<<plugin, vars, vecVars>> /\ Fairness
=============================================================================
