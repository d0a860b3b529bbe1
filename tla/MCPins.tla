------------------------------- MODULE MCPins -------------------------------
(* Pins alone: one commit that is wanted as a script, one as a device script.       *)
EXTENDS Pins

CONSTANTS u1, c1, c2

mcWishes == {[url |-> u1, pins |-> {c1}, deskUrl |-> u1, desk |-> {c2}]}
=============================================================================
