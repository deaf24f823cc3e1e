------------------------------ MODULE MCAcmeOrder ------------------------------
(* Instances of AcmeOrder for TLC. *)
EXTENDS AcmeOrder, TLC

CONSTANTS MaxCrash, MaxFault, MaxLost

MCMaxUses == [crash |-> MaxCrash, fault |-> MaxFault, lost |-> MaxLost]
================================================================================
