----------------------------- MODULE MCWalrusDemo -----------------------------
(* Three ticks and one restart of the demo head. *)
EXTENDS WalrusDemo
=============================================================================
