---------------------------- MODULE MCContainer ----------------------------
(* Instances of Container for TLC: two runs, so that a failed cleanup, a    *)
(* crash or a late answer of the first can meet the second.                 *)
EXTENDS Container
=============================================================================
