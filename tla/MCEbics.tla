------------------------------ MODULE MCEbics ------------------------------
(* The fetch alone, with keys the operator has confirmed.                         *)
EXTENDS Ebics

mcKeys == <<"k1", "k2">>
FetchAlone == EbicsInit /\ keyring.file = "whole" /\ [][FetchNext]_ebicsVars
=============================================================================
