------------------------------- MODULE MCSync -------------------------------
(* Sync alone, with a runner that may die between an environment and its seal.       *)
EXTENDS Sync

CONSTANTS k1, a1

mcGrace == [k \in Keys |-> 2]
=============================================================================
