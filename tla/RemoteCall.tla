------------------------------ MODULE RemoteCall ------------------------------
(***************************************************************************)
(* What SendCommand promises its caller about a command: it runs at most   *)
(* once; a result is returned only for a command that ran; a command that  *)
(* was refused never runs; one the caller gave up on may still run, before *)
(* or after the caller learns of the timeout.                              *)
(***************************************************************************)
EXTENDS Naturals

CONSTANT Cmds

VARIABLES phase, runs

rpcVars == <<phase, runs>>

Phases == {"idle", "open", "done", "unknown", "refused"}

Init ==
    /\ phase = [c \in Cmds |-> "idle"]
    /\ runs = [c \in Cmds |-> 0]

Move(c, from, to) == phase[c] \in from /\ phase' = [phase EXCEPT ![c] = to]

Call(c) == Move(c, {"idle"}, "open") /\ UNCHANGED runs

Run(c) ==
    /\ phase[c] \in {"open", "unknown"} /\ runs[c] = 0
    /\ runs' = [runs EXCEPT ![c] = 1]
    /\ UNCHANGED phase

Done(c) == runs[c] = 1 /\ Move(c, {"open"}, "done") /\ UNCHANGED runs

Refuse(c) == runs[c] = 0 /\ Move(c, {"idle", "open"}, "refused") /\ UNCHANGED runs

\* Several callers give up at once when their process ends.
GiveUp(S) ==
    /\ \A c \in S : phase[c] = "open"
    /\ phase' = [c \in Cmds |-> IF c \in S THEN "unknown" ELSE phase[c]]
    /\ UNCHANGED runs

Next ==
    \/ \E c \in Cmds : Call(c) \/ Run(c) \/ Done(c) \/ Refuse(c)
    \/ \E S \in SUBSET Cmds : GiveUp(S)

Spec == Init /\ [][Next]_rpcVars
================================================================================
