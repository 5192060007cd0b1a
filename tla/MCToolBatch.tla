----------------------------- MODULE MCToolBatch -----------------------------
(* Instance of ToolBatch for TLC: every assignment of locks to the calls. *)
EXTENDS ToolBatch
=============================================================================
