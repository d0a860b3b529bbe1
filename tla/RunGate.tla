------------------------------ MODULE RunGate ------------------------------
(***************************************************************************)
(* What a person at the device may rely on, whatever goroutines, locks and *)
(* HTTP answers the runner is made of: one script at a time, none begins   *)
(* unless the device works, and "angehalten" is the end of the script that *)
(* runs, in the same instant.  A pause lets it end by itself.              *)
(***************************************************************************)
CONSTANT Runs

VARIABLES gate,   \* "arbeitet", "pausiert" or "angehalten"
          live    \* the runs whose process is there

gateVars == <<gate, live>>

GateInit == gate = "arbeitet" /\ live = {}

Begin(r) == /\ gate = "arbeitet" /\ live = {}
            /\ live' = {r}
            /\ UNCHANGED gate

End == live' = {} /\ UNCHANGED gate

Turn(g) == /\ gate' = g
           /\ live' = IF g = "angehalten" THEN {} ELSE live

GateNext == \/ \E r \in Runs : Begin(r)
            \/ End
            \/ \E g \in {"arbeitet", "pausiert", "angehalten"} : Turn(g)

GateSpec == GateInit /\ [][GateNext]_gateVars
=============================================================================
