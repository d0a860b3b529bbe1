----------------------------- MODULE MCSandbox -----------------------------
(* Instances of Sandbox for TLC: two containers and two requests, so that   *)
(* each can meet what the other left.                                       *)
EXTENDS Sandbox
=============================================================================
