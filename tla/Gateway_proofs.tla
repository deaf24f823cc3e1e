----------------------------- MODULE Gateway_proofs -----------------------------
(* Theorems about Gateway, for any agents, hosts, commands and bounds. *)
EXTENDS Gateway, AgentRegistry_proofs

--------------------------------------------------------------------------------
(* The registry inside the gateway *)

\* Steps of the registry that leave the commands alone.
QuietStep ==
    \/ \E a \in Agents :
          \/ RegisterTimeout(a) \/ Subscribe(a)
          \/ SendHeartbeat(a) \/ LinkLost(a) \/ Reconnected(a)
          \/ HandleHeartbeat(a) \/ HandleDeregister(a) \/ Lapse(a)
          \/ DisconnectAgent(a) \/ DisconnectDone(a)
          \/ \E h \in Hosts : \/ AgentStart(a, h) \/ HandleRegister(a, h)
                              \/ RejectRegister(a, h)
    \/ FinishRegister \/ FinishHeartbeat \/ FinishDeregister
    \/ CleanupStaleAgents \/ (\E h \in Hosts : LateOffline(h))
    \/ TableStep

LEMMA RegistrySteps ==
  RegistryStep =>
    \/ \E a \in Agents : (AgentStop(a) \/ AgentCrash(a)) /\ LoseWork(a)
    \/ GatewayRestart /\ AbortCalls
    \/ QuietStep /\ UNCHANGED commandVars
  BY DEF RegistryStep, QuietStep

LEMMA QuietIsRegistry == QuietStep => NextRegistry
  BY DEF QuietStep, NextRegistry, AgentStep, GatewayStep

LEMMA CommandStepFrame ==
  ASSUME NEW c \in Cmds, SendCommand(c) PROVE UNCHANGED registryVars
  BY DEF SendCommand, Lookup, Panic, Publish, PublishError, Answer

LEMMA HandleStepFrame ==
  ASSUME NEW a \in Agents, HandleCommand(a) PROVE UNCHANGED registryVars
  BY DEF HandleCommand, Execute, DeliverResult, PublishResult

\* Every step of the gateway is one of the registry or leaves it alone.
LEMMA GatewayImplementsRegistry == [Next]_vars => [NextRegistry]_registryVars
  <1>1. RegistryStep => NextRegistry
    BY RegistrySteps, QuietIsRegistry DEF NextRegistry, AgentStep, GatewayStep
  <1>2. Next => [NextRegistry]_registryVars
    BY <1>1, CommandStepFrame, HandleStepFrame DEF Next
  <1>3. UNCHANGED vars => UNCHANGED registryVars BY DEF vars
  <1> QED BY <1>2, <1>3

LEMMA IndexHolds == Spec => []IndexInv
  <1>1. Init => InitRegistry BY DEF Init
  <1> QED BY <1>1, InitIndex, StepIndex, GatewayImplementsRegistry, PTL DEF Spec

--------------------------------------------------------------------------------
(* Where a command is *)

CallType ==
    /\ call \in [Cmds -> {"idle", "found", "waiting"} \cup Returned]
    /\ goal \in [Cmds -> Hosts \cup {None}]
    /\ target \in [Cmds -> Agents \cup {None}]
    /\ inbox \in [Agents -> SUBSET Cmds]
    /\ busy \in [Agents -> Cmds \cup {None}]
    /\ outbox \in [Agents -> SUBSET Cmds]
    /\ replied \subseteq Cmds
    /\ runs \in [Cmds -> Nat]
    /\ ranOn \in [Cmds -> Agents \cup {None}]

\* A command waits in the inbox of its target at most, before it is started;
\* it is busy, on its way back or in replyCh only after that.
Waits(c) ==
    \A a \in Agents : c \in inbox[a] =>
        /\ target[c] = a /\ runs[c] = 0
        /\ call[c] \in {"waiting", "timeout", "canceled", "aborted"}

Started(c) ==
    /\ \A a \in Agents : (busy[a] = c \/ c \in outbox[a]) => runs[c] = 1
    /\ c \in replied => runs[c] = 1
    /\ call[c] = "completed" => runs[c] = 1

Unsent(c) ==
    call[c] \in {"idle", "found", "unavailable", "error", "panic"} => runs[c] = 0

Counted(c) ==
    /\ runs[c] \in {0, 1}
    /\ runs[c] = 0 => ranOn[c] = None
    /\ ranOn[c] # None => ranOn[c] = target[c]
    /\ call[c] = "idle" => target[c] = None

CallInv ==
    /\ CallType
    /\ \A c \in Cmds : Waits(c) /\ Started(c) /\ Unsent(c) /\ Counted(c)

LEMMA InitCall == Init => CallInv
  BY CmdAssumption DEF Init, CallInv, CallType, Waits, Started, Unsent, Counted, Returned

LEMMA SendCommandCall ==
  ASSUME CallInv, IndexInv, NEW c \in Cmds, SendCommand(c)
  PROVE  CallInv'
  <1> USE DEF CallInv
  <1>0. hostIndex \in [Hosts -> Agents \cup {None}] BY DEF IndexInv, TypeOKRegistry
  <1>1. ASSUME NEW h \in Hosts, Lookup(c, h) PROVE CallInv'
    <2>1. CallType' BY <1>0, <1>1 DEF Lookup, CallType, Returned, workVars
    <2>2. ASSUME NEW d \in Cmds PROVE (Waits(d) /\ Started(d) /\ Unsent(d) /\ Counted(d))'
      BY <1>1 DEF Lookup, CallType, Waits, Started, Unsent, Counted, workVars
    <2> QED BY <2>1, <2>2
  <1>2. CASE Panic(c)
    <2>1. CallType' BY <1>2 DEF Panic, CallType, Returned, workVars
    <2>2. ASSUME NEW d \in Cmds PROVE (Waits(d) /\ Started(d) /\ Unsent(d) /\ Counted(d))'
      BY <1>2 DEF Panic, CallType, Waits, Started, Unsent, Counted, workVars
    <2> QED BY <2>1, <2>2
  <1>3. CASE Publish(c)
    <2>1. CallType' BY <1>3 DEF Publish, CallType, Returned
    <2>2. ASSUME NEW d \in Cmds PROVE (Waits(d) /\ Started(d) /\ Unsent(d) /\ Counted(d))'
      <3>1. Waits(d)' BY <1>3 DEF Publish, CallType, Waits, Unsent
      <3>2. (Started(d) /\ Unsent(d) /\ Counted(d))'
        BY <1>3 DEF Publish, CallType, Started, Unsent, Counted
      <3> QED BY <3>1, <3>2
    <2> QED BY <2>1, <2>2
  <1>4. CASE PublishError(c)
    <2>1. CallType' BY <1>4 DEF PublishError, CallType, Returned, workVars
    <2>2. ASSUME NEW d \in Cmds PROVE (Waits(d) /\ Started(d) /\ Unsent(d) /\ Counted(d))'
      BY <1>4 DEF PublishError, CallType, Waits, Started, Unsent, Counted, workVars
    <2> QED BY <2>1, <2>2
  <1>5. ASSUME NEW r \in {"completed", "timeout", "canceled"}, Answer(c, r) PROVE CallInv'
    <2>1. CallType' BY <1>5 DEF Answer, CallType, Returned, workVars
    <2>2. ASSUME NEW d \in Cmds PROVE (Waits(d) /\ Started(d) /\ Unsent(d) /\ Counted(d))'
      BY <1>5 DEF Answer, CallType, Waits, Started, Unsent, Counted, workVars
    <2> QED BY <2>1, <2>2
  <1> QED BY <1>1, <1>2, <1>3, <1>4, <1>5 DEF SendCommand

LEMMA HandleCommandCall ==
  ASSUME CallInv, NEW a \in Agents, HandleCommand(a)
  PROVE  CallInv'
  <1> USE DEF CallInv
  <1>1. ASSUME NEW c \in Cmds, Execute(a, c) PROVE CallInv'
    <2>1. CallType' BY <1>1 DEF Execute, CallType, callVars
    <2>2. target[c] = a /\ runs[c] = 0 /\ runs'[c] = 1
      BY <1>1 DEF Execute, CallType, Waits
    <2>3. ASSUME NEW d \in Cmds PROVE (Waits(d) /\ Started(d) /\ Unsent(d) /\ Counted(d))'
      <3>1. Waits(d)' BY <1>1, <2>2 DEF Execute, CallType, Waits, callVars
      <3>2. Started(d)' BY <1>1, <2>2 DEF Execute, CallType, Started, callVars
      <3>3. Unsent(d)' BY <1>1 DEF Execute, CallType, Waits, Unsent, callVars
      <3>4. Counted(d)' BY <1>1, <2>2 DEF Execute, CallType, Counted, callVars
      <3> QED BY <3>1, <3>2, <3>3, <3>4
    <2> QED BY <2>1, <2>3
  <1>2. ASSUME NEW c \in Cmds, DeliverResult(a, c) PROVE CallInv'
    <2>1. CallType' BY <1>2 DEF DeliverResult, CallType
    <2>2. ASSUME NEW d \in Cmds PROVE (Waits(d) /\ Started(d) /\ Unsent(d) /\ Counted(d))'
      BY <1>2 DEF DeliverResult, CallType, Waits, Started, Unsent, Counted
    <2> QED BY <2>1, <2>2
  <1>3. CASE PublishResult(a)
    <2>1. CallType' BY <1>3 DEF PublishResult, CallType, callVars
    <2>2. ASSUME NEW d \in Cmds PROVE (Waits(d) /\ Started(d) /\ Unsent(d) /\ Counted(d))'
      BY <1>3, CmdAssumption
      DEF PublishResult, CallType, Waits, Started, Unsent, Counted, callVars
    <2> QED BY <2>1, <2>2
  <1> QED BY <1>1, <1>2, <1>3 DEF HandleCommand

LEMMA RegistryStepCall ==
  ASSUME CallInv, RegistryStep
  PROVE  CallInv'
  <1> USE DEF CallInv
  <1>1. ASSUME NEW a \in Agents, LoseWork(a) PROVE CallInv'
    <2>1. CallType' BY <1>1 DEF LoseWork, CallType, callVars
    <2>2. ASSUME NEW d \in Cmds PROVE (Waits(d) /\ Started(d) /\ Unsent(d) /\ Counted(d))'
      BY <1>1, CmdAssumption
      DEF LoseWork, CallType, Waits, Started, Unsent, Counted, callVars
    <2> QED BY <2>1, <2>2
  <1>2. CASE AbortCalls
    <2>1. CallType' BY <1>2 DEF AbortCalls, CallType, Returned, workVars
    <2>2. ASSUME NEW d \in Cmds PROVE (Waits(d) /\ Started(d) /\ Unsent(d) /\ Counted(d))'
      BY <1>2 DEF AbortCalls, CallType, Waits, Started, Unsent, Counted, workVars
    <2> QED BY <2>1, <2>2
  <1>3. CASE UNCHANGED commandVars
    BY <1>3 DEF CallType, Waits, Started, Unsent, Counted, commandVars, callVars, workVars
  <1> QED BY <1>1, <1>2, <1>3, RegistrySteps

LEMMA StepCall == CallInv /\ IndexInv /\ [Next]_vars => CallInv'
  <1> SUFFICES ASSUME CallInv, IndexInv, [Next]_vars PROVE CallInv'
    OBVIOUS
  <1>1. CASE UNCHANGED vars
    BY <1>1 DEF CallInv, CallType, Waits, Started, Unsent, Counted, vars, commandVars,
       callVars, workVars
  <1>2. CASE Next
    BY <1>2, SendCommandCall, HandleCommandCall, RegistryStepCall DEF Next
  <1> QED BY <1>1, <1>2

LEMMA CallHolds == Spec => []CallInv
  BY InitCall, StepCall, IndexHolds, PTL DEF Spec

\* Type correctness of the gateway with its commands.
THEOREM GatewayTypeCorrect == Spec => []TypeOK
  <1>1. CallInv /\ IndexInv => TypeOK BY DEF CallInv, CallType, IndexInv, TypeOK
  <1> QED BY <1>1, CallHolds, IndexHolds, PTL
--------------------------------------------------------------------------------
(* The host a command runs on *)

HostInv ==
    used["move"] = 0 =>
        \A c \in Cmds : target[c] # None => token[target[c]] = goal[c]

\* Only a start with another token changes it, and it is counted.
LEMMA TokenStep ==
  ASSUME TypeOKRegistry, [NextRegistry]_registryVars, used'["move"] = 0
  PROVE  UNCHANGED token /\ used["move"] = 0
  <1> USE DEF serverVars, tableVars, agentVars, messageVars
  <1>1. ASSUME NEW a \in Agents, AgentStep(a) PROVE UNCHANGED token /\ used["move"] = 0
    <2>1. ASSUME NEW h \in Hosts, AgentStart(a, h) PROVE UNCHANGED token /\ used["move"] = 0
      BY <2>1, StartUsed DEF Kinds
    <2>2. CASE LinkLost(a)
      BY <2>2, SpendType DEF LinkLost, TypeOKRegistry, Kinds
    <2>3. CASE RegisterTimeout(a) \/ Subscribe(a) \/ SendHeartbeat(a) \/ AgentStop(a)
               \/ AgentCrash(a) \/ Reconnected(a)
      BY <2>3 DEF RegisterTimeout, Subscribe, SendHeartbeat, AgentStop, AgentCrash, Reconnected
    <2> QED BY <1>1, <2>1, <2>2, <2>3 DEF AgentStep
  <1>2. CASE GatewayStep
    <2>1. CASE FinishRegister \/ FinishHeartbeat \/ FinishDeregister
      <3>1. \A x \in Handlers : owed[x] # None => owed[x].host \in Hosts
        BY DEF TypeOKRegistry, Owed
      <3> QED BY <2>1, <3>1, UpdateStatusUsed
              DEF FinishRegister, FinishHeartbeat, FinishDeregister, Handlers, Kinds
    <2>2. ASSUME NEW h \in Hosts, LateOffline(h)
          PROVE  UNCHANGED token /\ used["move"] = 0
      BY <2>2, SpendType DEF LateOffline, TypeOKRegistry, Kinds
    <2>3. ASSUME NEW a \in Agents, DisconnectAgent(a)
          PROVE  UNCHANGED token /\ used["move"] = 0
      BY <2>3, SpendType DEF DisconnectAgent, TypeOKRegistry, Kinds
    <2>4. ASSUME NEW a \in Agents,
                 HandleHeartbeat(a) \/ HandleDeregister(a) \/ Lapse(a) \/ DisconnectDone(a)
          PROVE  UNCHANGED token /\ used["move"] = 0
      BY <2>4 DEF HandleHeartbeat, HandleDeregister, Lapse, DisconnectDone
    <2>5. ASSUME NEW a \in Agents, NEW h \in Hosts,
                 HandleRegister(a, h) \/ RejectRegister(a, h)
          PROVE  UNCHANGED token /\ used["move"] = 0
      BY <2>5 DEF HandleRegister, RejectRegister
    <2>6. CASE CleanupStaleAgents \/ GatewayRestart
      BY <2>6 DEF CleanupStaleAgents, GatewayRestart
    <2> QED BY <1>2, <2>1, <2>2, <2>3, <2>4, <2>5, <2>6 DEF GatewayStep
  <1>3. CASE TableStep BY <1>3 DEF TableStep, Age, MarkStaleHostsOffline
  <1>4. CASE UNCHANGED registryVars BY <1>4 DEF registryVars
  <1> QED BY <1>1, <1>2, <1>3, <1>4 DEF NextRegistry

\* Every step but GetAgentByHost leaves the goal and the target of a command alone.
LEMMA TargetFrame ==
  ASSUME [Next]_vars, ~\E c \in Cmds, h \in Hosts : Lookup(c, h)
  PROVE  UNCHANGED <<goal, target>>
  <1>1. ASSUME NEW c \in Cmds, SendCommand(c) PROVE UNCHANGED <<goal, target>>
    BY <1>1 DEF SendCommand, Panic, Publish, PublishError, Answer
  <1>2. ASSUME NEW a \in Agents, HandleCommand(a) PROVE UNCHANGED <<goal, target>>
    BY <1>2 DEF HandleCommand, Execute, DeliverResult, PublishResult, callVars
  <1>3. CASE RegistryStep
    BY <1>3, RegistrySteps DEF LoseWork, AbortCalls, commandVars, callVars
  <1>4. CASE UNCHANGED vars BY <1>4 DEF vars, commandVars, callVars
  <1> QED BY <1>1, <1>2, <1>3, <1>4 DEF Next

LEMMA StepHost == CallInv /\ IndexInv /\ HostInv /\ [Next]_vars => HostInv'
  <1> SUFFICES ASSUME CallInv, IndexInv, HostInv, [Next]_vars, used'["move"] = 0,
                      NEW c \in Cmds, target'[c] # None
               PROVE  token'[target'[c]] = goal'[c]
    BY DEF HostInv
  <1>0. UNCHANGED token /\ used["move"] = 0
    BY TokenStep, GatewayImplementsRegistry DEF IndexInv
  <1>1. ASSUME NEW d \in Cmds, NEW h \in Hosts, Lookup(d, h)
        PROVE  token'[target'[c]] = goal'[c]
    <2>1. hostIndex[h] # None => token[hostIndex[h]] = h
      BY <1>0 DEF IndexInv, TokensHold
    <2>2. target[d] = None BY <1>1 DEF Lookup, CallInv, Counted
    <2> QED BY <1>0, <1>1, <2>1, <2>2 DEF Lookup, HostInv, CallInv, CallType
  <1>2. CASE ~\E d \in Cmds, h \in Hosts : Lookup(d, h)
    BY <1>0, <1>2, TargetFrame DEF HostInv
  <1> QED BY <1>1, <1>2

\* However the agents of a host are replaced, restarted or removed while a
\* command is under way, SendCommand never lets an agent of another host
\* execute it, unless an agent ID moved to another host.
THEOREM CommandsRunOnTheirHost == Spec => []RunsOnItsHost
  <1>1. Init => HostInv BY DEF Init, HostInv
  <1>2. Spec => []HostInv
    BY <1>1, StepHost, CallHolds, IndexHolds, PTL DEF Spec
  <1>3. CallInv /\ HostInv => RunsOnItsHost
    BY DEF CallInv, Counted, HostInv, RunsOnItsHost
  <1> QED BY <1>2, <1>3, CallHolds, PTL

--------------------------------------------------------------------------------
(* An at-most-once remote call *)

LEMMA PhaseStutter ==
  ASSUME \A c \in Cmds : Phase(c)' = Phase(c), UNCHANGED runs
  PROVE  UNCHANGED Rpc!rpcVars
  BY DEF Rpc!rpcVars

LEMMA PhaseSame ==
  ASSUME CallInv, NEW d \in Cmds, call'[d] = call[d]
  PROVE  Phase(d)' = Phase(d)
  <1>1. call[d] \in {"idle", "found", "waiting"} \cup Returned BY DEF CallInv, CallType
  <1> QED BY <1>1 DEF Phase, Returned

\* What a step has to show to be an abstract one.
LEMMA MoveOne ==
  ASSUME CallInv, NEW c \in Cmds, NEW s, call' = [call EXCEPT ![c] = s], UNCHANGED runs
  PROVE  [d \in Cmds |-> Phase(d)]' = [[d \in Cmds |-> Phase(d)] EXCEPT ![c] = Phase(c)']
  <1>1. \A d \in Cmds : d # c => call'[d] = call[d] BY DEF CallInv, CallType
  <1>2. \A d \in Cmds : d # c => Phase(d)' = Phase(d) BY <1>1, PhaseSame
  <1> QED BY <1>2

LEMMA SendCommandRpc ==
  ASSUME CallInv, NEW c \in Cmds, SendCommand(c)
  PROVE  [Rpc!Next]_(Rpc!rpcVars)
  <1> USE DEF CallInv
  <1>1. ASSUME NEW h \in Hosts, Lookup(c, h) PROVE Rpc!Call(c) \/ Rpc!Refuse(c)
    <2>0. runs[c] = 0 BY <1>1 DEF Lookup, Unsent
    <2>1. Phase(c) = "idle" BY <1>1 DEF Lookup, Phase
    <2>2. CASE hostIndex[h] = None
      <3>1. call' = [call EXCEPT ![c] = "unavailable"] /\ UNCHANGED runs
        BY <1>1, <2>2 DEF Lookup, workVars
      <3>2. Phase(c)' = "refused" BY <3>1 DEF CallType, Phase
      <3> QED BY <2>0, <2>1, <3>1, <3>2, MoveOne DEF Rpc!Refuse, Rpc!Move
    <2>3. CASE hostIndex[h] # None
      <3>1. call' = [call EXCEPT ![c] = "found"] /\ UNCHANGED runs
        BY <1>1, <2>3 DEF Lookup, workVars
      <3>2. Phase(c)' = "open" BY <3>1 DEF CallType, Phase
      <3> QED BY <2>1, <3>1, <3>2, MoveOne DEF Rpc!Call, Rpc!Move
    <2> QED BY <2>2, <2>3
  <1>2. CASE Panic(c) \/ PublishError(c)
    <2>0. runs[c] = 0 /\ Phase(c) = "open"
      BY <1>2 DEF Panic, PublishError, Unsent, Phase
    <2>1. PICK s \in {"panic", "error"} : call' = [call EXCEPT ![c] = s]
      BY <1>2 DEF Panic, PublishError
    <2>2. UNCHANGED runs BY <1>2 DEF Panic, PublishError, workVars
    <2>3. Phase(c)' = "refused" BY <2>1 DEF CallType, Phase
    <2>4. Rpc!Refuse(c)
      BY <2>0, <2>1, <2>2, <2>3, MoveOne DEF Rpc!Refuse, Rpc!Move
    <2> QED BY <2>4 DEF Rpc!Next
  <1>3. CASE Publish(c)
    <2>1. \A d \in Cmds : Phase(d)' = Phase(d) BY <1>3 DEF Publish, Phase, CallType
    <2> QED BY <1>3, <2>1, PhaseStutter DEF Publish
  <1>4. ASSUME NEW r \in {"completed", "timeout", "canceled"}, Answer(c, r)
        PROVE  Rpc!Next
    <2>0. Phase(c) = "open" /\ call' = [call EXCEPT ![c] = r] /\ UNCHANGED runs
      BY <1>4 DEF Answer, Phase, workVars
    <2>1. CASE r = "completed"
      <3>1. runs[c] = 1 BY <1>4, <2>1 DEF Answer, Started
      <3>2. Phase(c)' = "done" BY <2>0, <2>1 DEF CallType, Phase
      <3>3. Rpc!Done(c) BY <2>0, <3>1, <3>2, MoveOne DEF Rpc!Done, Rpc!Move
      <3> QED BY <3>3 DEF Rpc!Next
    <2>2. CASE r # "completed"
      <3>1. Phase(c)' = "unknown" BY <2>0, <2>2 DEF CallType, Phase
      <3>2. \A d \in Cmds : Phase(d)' = IF d \in {c} THEN "unknown" ELSE Phase(d)
        <4>1. \A d \in Cmds : d # c => call'[d] = call[d] BY <2>0 DEF CallType
        <4> QED BY <3>1, <4>1, PhaseSame
      <3>3. Rpc!GiveUp({c}) BY <2>0, <3>2 DEF Rpc!GiveUp
      <3> QED BY <3>3 DEF Rpc!Next
    <2> QED BY <2>1, <2>2
  <1> QED BY <1>1, <1>2, <1>3, <1>4 DEF SendCommand, Rpc!Next

LEMMA HandleCommandRpc ==
  ASSUME CallInv, NEW a \in Agents, HandleCommand(a)
  PROVE  [Rpc!Next]_(Rpc!rpcVars)
  <1> USE DEF CallInv
  <1>1. ASSUME NEW c \in Cmds, Execute(a, c) PROVE Rpc!Next
    <2>1. runs[c] = 0 /\ Phase(c) \in {"open", "unknown"}
      BY <1>1 DEF Execute, Waits, Phase
    <2>2. runs' = [runs EXCEPT ![c] = 1] BY <1>1, <2>1 DEF Execute, CallType
    <2>3. \A d \in Cmds : Phase(d)' = Phase(d) BY <1>1 DEF Execute, Phase, callVars
    <2>4. Rpc!Run(c) BY <2>1, <2>2, <2>3 DEF Rpc!Run
    <2> QED BY <2>4 DEF Rpc!Next
  <1>2. CASE PublishResult(a) \/ \E c \in Cmds : DeliverResult(a, c)
    <2>1. UNCHANGED <<call, runs>> BY <1>2 DEF PublishResult, DeliverResult, callVars
    <2>2. \A d \in Cmds : Phase(d)' = Phase(d) BY <2>1 DEF Phase
    <2> QED BY <2>1, <2>2, PhaseStutter
  <1> QED BY <1>1, <1>2 DEF HandleCommand

LEMMA RegistryStepRpc ==
  ASSUME CallInv, RegistryStep
  PROVE  [Rpc!Next]_(Rpc!rpcVars)
  <1>1. CASE AbortCalls
    <2> DEFINE S == {c \in Cmds : call[c] \in {"found", "waiting"}}
    <2>1. \A c \in S : Phase(c) = "open" BY DEF Phase
    <2>2. \A c \in Cmds : Phase(c)' = IF c \in S THEN "unknown" ELSE Phase(c)
      <3>1. \A c \in Cmds : c \in S => Phase(c)' = "unknown" BY <1>1 DEF AbortCalls, Phase
      <3>2. \A c \in Cmds : c \notin S => call'[c] = call[c] BY <1>1 DEF AbortCalls
      <3> QED BY <3>1, <3>2, PhaseSame
    <2>3. UNCHANGED runs BY <1>1 DEF AbortCalls, workVars
    <2>4. S \in SUBSET Cmds OBVIOUS
    <2> HIDE DEF S
    <2>5. Rpc!GiveUp(S) BY <2>1, <2>2, <2>3, <2>4 DEF Rpc!GiveUp
    <2> QED BY <2>4, <2>5 DEF Rpc!Next
  <1>2. CASE UNCHANGED <<call, runs>>
    <2>1. \A d \in Cmds : Phase(d)' = Phase(d) BY <1>2 DEF Phase
    <2> QED BY <1>2, <2>1, PhaseStutter
  <1> QED BY <1>1, <1>2, RegistrySteps DEF LoseWork, commandVars, callVars, workVars

\* SendCommand over the registry implements an at-most-once remote call, for
\* any agents, hosts and commands, whatever is lost, restarted or late.
THEOREM CallsAreAtMostOnce == Spec => AtMostOnceCall
  <1>1. Init => Rpc!Init
    BY DEF Init, Rpc!Init, Phase
  <1>2. CallInv /\ [Next]_vars => [Rpc!Next]_(Rpc!rpcVars)
    <2> SUFFICES ASSUME CallInv, [Next]_vars PROVE [Rpc!Next]_(Rpc!rpcVars)
      OBVIOUS
    <2>1. CASE UNCHANGED vars
      <3>1. UNCHANGED <<call, runs>>
        BY <2>1 DEF vars, commandVars, callVars, workVars
      <3>2. \A d \in Cmds : Phase(d)' = Phase(d) BY <3>1 DEF Phase
      <3> QED BY <3>1, <3>2, PhaseStutter
    <2>2. CASE Next
      BY <2>2, SendCommandRpc, HandleCommandRpc, RegistryStepRpc DEF Next
    <2> QED BY <2>1, <2>2
  <1> QED BY <1>1, <1>2, CallHolds, PTL DEF Spec, AtMostOnceCall, Rpc!Spec
================================================================================
