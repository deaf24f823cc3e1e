------------------------------- MODULE MCGateway -------------------------------
(* Instances of Gateway for TLC. *)
EXTENDS Gateway, TLC

CONSTANTS MaxFault, MaxDisconnect, MaxStart, MaxDrop, MaxMove

MCMaxUses == [fault |-> MaxFault, disconnect |-> MaxDisconnect,
              start |-> MaxStart, drop |-> MaxDrop, move |-> MaxMove]

\* Agents, hosts and commands are interchangeable.
Symmetry == Permutations(Agents) \cup Permutations(Hosts) \cup Permutations(Cmds)

\* hosts.status and last_seen_at steer nothing but themselves and the offline writes
\* that a restart leaves, which it may also leave out, and which only delay others.
View == <<serverVars, agentVars, messageVars, used, commandVars>>

\* Two registrations, of a start or of a reconnection, and one mishap.
FewEvents ==
    /\ used["start"] + used["move"] + used["drop"] <= 2
    /\ used["disconnect"] + used["move"] <= 1
================================================================================
