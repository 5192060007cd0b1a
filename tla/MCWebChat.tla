------------------------------- MODULE MCWebChat -------------------------------
(* The web app and the served page against one HTTP head. *)
EXTENDS WebChat
=============================================================================
