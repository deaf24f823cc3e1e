---------------------------- MODULE MCAgentRegistry ----------------------------
(* Instances of AgentRegistry for TLC. *)
EXTENDS AgentRegistry, TLC

CONSTANTS MaxFault, MaxDisconnect, MaxStart, MaxDrop, MaxMove

MCMaxUses == [fault |-> MaxFault, disconnect |-> MaxDisconnect,
              start |-> MaxStart, drop |-> MaxDrop, move |-> MaxMove]
================================================================================
