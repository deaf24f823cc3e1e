-------------------------- MODULE AgentRegistry_proofs --------------------------
(* Theorems about AgentRegistry, for any agents, hosts and bounds. *)
EXTENDS AgentRegistry, TLAPS

LEMMA SpendType ==
  ASSUME used \in [Kinds -> Nat], NEW k \in Kinds, Spend(k)
  PROVE  /\ used' \in [Kinds -> Nat]
         /\ \A l \in Kinds : used'[l] = 0 => used[l] = 0
         /\ used'[k] # 0
  BY DEF Spend

\* A start is counted, and one with another token as a move.
LEMMA StartUsed ==
  ASSUME TypeOKRegistry, NEW a \in Agents, NEW h \in Hosts, AgentStart(a, h)
  PROVE  /\ used' \in [Kinds -> Nat]
         /\ \A l \in Kinds : used'[l] = 0 => used[l] = 0
         /\ h = token[a] => UNCHANGED token
         /\ h # token[a] => used'["move"] # 0
  <1>1. CASE h = token[a] BY <1>1, SpendType DEF AgentStart, Kinds, TypeOKRegistry
  <1>2. CASE h # token[a] BY <1>2, SpendType DEF AgentStart, Kinds, TypeOKRegistry
  <1> QED BY <1>1, <1>2

LEMMA UpdateStatusType ==
  ASSUME TypeOKRegistry, NEW h \in Hosts, NEW s \in {"online", "offline"},
         UpdateStatus(h, s)
  PROVE  /\ status' \in [Hosts -> {"online", "offline", "error"}]
         /\ lastSeen' \in [Hosts -> BOOLEAN]
         /\ used' \in [Kinds -> Nat]
  <1>1. CASE Spend("fault") /\ UNCHANGED tableVars
    BY <1>1, SpendType DEF TypeOKRegistry, tableVars, Kinds
  <1>2. CASE /\ status' = [status EXCEPT ![h] = s]
             /\ lastSeen' = [lastSeen EXCEPT ![h] = TRUE]
             /\ UNCHANGED used
    BY <1>2 DEF TypeOKRegistry
  <1> QED BY <1>1, <1>2 DEF UpdateStatus

\* The agents' own steps, the table's and the gateway's keep the types.
LEMMA AgentStepType ==
  ASSUME TypeOKRegistry, NEW a \in Agents, AgentStep(a)
  PROVE  TypeOKRegistry'
  <1>0. ASSUME NEW h \in Hosts, AgentStart(a, h) PROVE used' \in [Kinds -> Nat]
    BY <1>0, StartUsed
  <1> USE DEF TypeOKRegistry, serverVars, tableVars, agentVars, messageVars
  <1>1. ASSUME NEW h \in Hosts, AgentStart(a, h) PROVE TypeOKRegistry'
    <2>1. used' \in [Kinds -> Nat] BY <1>0, <1>1
    <2> QED BY <1>1, <2>1 DEF AgentStart
  <1>2. CASE RegisterTimeout(a) BY <1>2 DEF RegisterTimeout
  <1>3. CASE Subscribe(a) BY <1>3 DEF Subscribe
  <1>4. CASE SendHeartbeat(a) BY <1>4 DEF SendHeartbeat
  <1>5. CASE AgentStop(a) BY <1>5 DEF AgentStop
  <1>6. CASE AgentCrash(a) BY <1>6 DEF AgentCrash
  <1>7. CASE LinkLost(a) BY <1>7, SpendType DEF LinkLost, Kinds
  <1>8. CASE Reconnected(a) BY <1>8 DEF Reconnected
  <1> QED BY <1>1, <1>2, <1>3, <1>4, <1>5, <1>6, <1>7, <1>8 DEF AgentStep

LEMMA TableStepType ==
  ASSUME TypeOKRegistry, TableStep
  PROVE  TypeOKRegistry'
  BY DEF TableStep, Age, MarkStaleHostsOffline, TypeOKRegistry, serverVars, tableVars,
         agentVars, messageVars

LEMMA GatewayStepType ==
  ASSUME TypeOKRegistry, GatewayStep
  PROVE  TypeOKRegistry'
  <1> USE DEF TypeOKRegistry, serverVars, tableVars, agentVars, messageVars
  <1>1. ASSUME NEW a \in Agents, NEW h \in Hosts, HandleRegister(a, h)
        PROVE TypeOKRegistry'
    BY <1>1 DEF HandleRegister, Connect, Owed, Handlers
  <1>2. ASSUME NEW a \in Agents, NEW h \in Hosts, RejectRegister(a, h)
        PROVE TypeOKRegistry'
    BY <1>2 DEF RejectRegister
  <1>3. CASE FinishRegister
    <2> DEFINE o == owed["register"]
    <2>1. o \in Owed /\ o.host \in Hosts /\ o.agent \in Agents
      BY <1>3 DEF FinishRegister, Handlers, Owed
    <2>2. UpdateStatus(o.host, "online") BY <1>3 DEF FinishRegister
    <2>3. proc' \in [Agents -> {"down", "registering", "registered", "up"}]
      BY <1>3, <2>1 DEF FinishRegister
    <2>4. owed' \in [Handlers -> Owed \cup {None}] BY <1>3 DEF FinishRegister
    <2> HIDE DEF o
    <2>5. /\ status' \in [Hosts -> {"online", "offline", "error"}]
          /\ lastSeen' \in [Hosts -> BOOLEAN]
          /\ used' \in [Kinds -> Nat]
      BY <2>1, <2>2, UpdateStatusType
    <2> QED BY <1>3, <2>3, <2>4, <2>5 DEF FinishRegister
  <1>4. ASSUME NEW a \in Agents, HandleHeartbeat(a) PROVE TypeOKRegistry'
    <2>1. CASE agents[a] # None
      <3>1. [host |-> agents[a], agent |-> a] \in Owed BY <2>1 DEF Owed
      <3>2. owed' \in [Handlers -> Owed \cup {None}]
        BY <1>4, <2>1, <3>1 DEF HandleHeartbeat
      <3> QED BY <1>4, <2>1, <3>2 DEF HandleHeartbeat
    <2>2. CASE agents[a] = None BY <1>4, <2>2 DEF HandleHeartbeat
    <2> QED BY <2>1, <2>2
  <1>5. CASE FinishHeartbeat
    <2>1. owed["heartbeat"] \in Owed /\ owed["heartbeat"].host \in Hosts
      BY <1>5 DEF FinishHeartbeat, Handlers, Owed
    <2>2. UpdateStatus(owed["heartbeat"].host, "online") BY <1>5 DEF FinishHeartbeat
    <2>3. /\ status' \in [Hosts -> {"online", "offline", "error"}]
          /\ lastSeen' \in [Hosts -> BOOLEAN]
          /\ used' \in [Kinds -> Nat]
      BY <2>1, <2>2, UpdateStatusType
    <2> QED BY <1>5, <2>3 DEF FinishHeartbeat
  <1>6. ASSUME NEW a \in Agents, HandleDeregister(a) PROVE TypeOKRegistry'
    BY <1>6 DEF HandleDeregister, Remove, Owed, Handlers
  <1>7. CASE FinishDeregister
    <2>1. owed["deregister"] \in Owed /\ owed["deregister"].host \in Hosts
      BY <1>7 DEF FinishDeregister, Handlers, Owed
    <2>2. UpdateStatus(owed["deregister"].host, "offline") BY <1>7 DEF FinishDeregister
    <2>3. /\ status' \in [Hosts -> {"online", "offline", "error"}]
          /\ lastSeen' \in [Hosts -> BOOLEAN]
          /\ used' \in [Kinds -> Nat]
      BY <2>1, <2>2, UpdateStatusType
    <2> QED BY <1>7, <2>3 DEF FinishDeregister
  <1>8. ASSUME NEW a \in Agents, Lapse(a) PROVE TypeOKRegistry' BY <1>8 DEF Lapse
  <1>9. CASE CleanupStaleAgents
    <2>1. late' \in [Hosts -> 0 .. MaxLate]
      BY <1>9, RegistryAssumption DEF CleanupStaleAgents
    <2> QED BY <1>9, <2>1 DEF CleanupStaleAgents, Remove
  <1>10. ASSUME NEW h \in Hosts, LateOffline(h) PROVE TypeOKRegistry'
    <2>1. late' \in [Hosts -> 0 .. MaxLate]
      BY <1>10, RegistryAssumption DEF LateOffline
    <2>2. CASE Spend("fault") /\ UNCHANGED tableVars
      BY <1>10, <2>1, <2>2, SpendType DEF LateOffline, Kinds
    <2>3. CASE /\ status' = [status EXCEPT ![h] = "offline"]
               /\ lastSeen' = [lastSeen EXCEPT ![h] = FALSE]
               /\ UNCHANGED used
      BY <1>10, <2>1, <2>3 DEF LateOffline
    <2> QED BY <1>10, <2>2, <2>3 DEF LateOffline
  <1>11. ASSUME NEW a \in Agents, DisconnectAgent(a) PROVE TypeOKRegistry'
    BY <1>11, SpendType DEF DisconnectAgent, Kinds
  <1>12. ASSUME NEW a \in Agents, DisconnectDone(a) PROVE TypeOKRegistry'
    BY <1>12 DEF DisconnectDone
  <1>13. CASE GatewayRestart
    BY <1>13, RegistryAssumption DEF GatewayRestart, InitializeConnections, Owed
  <1> QED BY <1>1, <1>2, <1>3, <1>4, <1>5, <1>6, <1>7, <1>8, <1>9, <1>10, <1>11,
             <1>12, <1>13 DEF GatewayStep

LEMMA InitType == InitRegistry => TypeOKRegistry
  BY RegistryAssumption DEF InitRegistry, TypeOKRegistry

LEMMA StepType == TypeOKRegistry /\ [NextRegistry]_registryVars => TypeOKRegistry'
  <1> SUFFICES ASSUME TypeOKRegistry, [NextRegistry]_registryVars PROVE TypeOKRegistry'
    OBVIOUS
  <1>1. CASE UNCHANGED registryVars
    BY <1>1 DEF TypeOKRegistry, registryVars, serverVars, tableVars, agentVars, messageVars
  <1>2. CASE NextRegistry
    BY <1>2, AgentStepType, GatewayStepType, TableStepType DEF NextRegistry
  <1> QED BY <1>1, <1>2

\* Type correctness of the registry, the agents and hosts.status.
THEOREM RegistryTypeCorrect == SpecRegistry => []TypeOKRegistry
  BY InitType, StepType, PTL DEF SpecRegistry

--------------------------------------------------------------------------------
(* The two maps *)

\* What a token says of the connections, as long as no agent moved: every
\* registration, connection and index entry is about the host of the token.
TokensHold ==
    used["move"] = 0 =>
        /\ \A m \in regs : token[m[1]] = m[2]
        /\ \A a \in Agents : agents[a] # None => agents[a] = token[a]
        /\ \A h \in Hosts : hostIndex[h] # None => token[hostIndex[h]] = h

NotClosing == used["disconnect"] = 0 => closing = {}

\* The inductive invariant: IndexIsLiveOtherwise needs to know that nothing is
\* about to be disconnected and that an agent registers for one host only.
IndexInv ==
    /\ TypeOKRegistry
    /\ AgentsAreIndexed
    /\ TokensHold
    /\ NotClosing
    /\ IndexIsLiveOtherwise

LEMMA NoneOutside == None \notin Agents /\ None \notin Hosts
  BY RegistryAssumption

\* Steps that leave the maps, the tokens and the registrations alone.
LEMMA IndexFrame ==
  ASSUME IndexInv, TypeOKRegistry', UNCHANGED <<agents, hostIndex, token>>,
         \A m \in regs' : m \in regs \/ (m[1] \in Agents /\ m[2] = token[m[1]]),
         used'["disconnect"] = 0 => closing' = {} /\ used["disconnect"] = 0,
         used'["move"] = 0 => used["move"] = 0
  PROVE  IndexInv'
  BY DEF IndexInv, AgentsAreIndexed, TokensHold, NotClosing, IndexIsLiveOtherwise, IndexIsLive

LEMMA RemoveIndex ==
  ASSUME IndexInv, NEW S \in SUBSET Agents, Remove(S), TypeOKRegistry',
         UNCHANGED <<token, regs, closing, used>>
  PROVE  IndexInv'
  <1> USE DEF IndexInv, TypeOKRegistry
  <1>1. AgentsAreIndexed' BY NoneOutside DEF AgentsAreIndexed, Remove
  <1>2. TokensHold' BY DEF TokensHold, Remove
  <1>3. IndexIsLiveOtherwise'
    BY NoneOutside DEF IndexIsLiveOtherwise, IndexIsLive, Remove
  <1>4. NotClosing' BY DEF NotClosing
  <1> QED BY <1>1, <1>2, <1>3, <1>4

LEMMA ConnectIndex ==
  ASSUME IndexInv, NEW a \in Agents, NEW h \in Hosts, HandleRegister(a, h), TypeOKRegistry'
  PROVE  IndexInv'
  <1> USE DEF IndexInv, TypeOKRegistry
  <1>0. /\ Connect(a, h) /\ <<a, h>> \in regs /\ regs' = regs \ {<<a, h>>}
        /\ UNCHANGED <<token, closing, used>>
    BY DEF HandleRegister, agentVars
  <1>1. AgentsAreIndexed' BY <1>0, NoneOutside DEF AgentsAreIndexed, Connect
  <1>2. TokensHold'
    <2> SUFFICES ASSUME used["move"] = 0
                 PROVE  /\ \A m \in regs' : token'[m[1]] = m[2]
                        /\ \A b \in Agents : agents'[b] # None => agents'[b] = token'[b]
                        /\ \A i \in Hosts : hostIndex'[i] # None => token'[hostIndex'[i]] = i
      BY <1>0 DEF TokensHold
    <2>1. token[a] = h BY <1>0 DEF TokensHold
    <2> QED BY <1>0, <2>1 DEF TokensHold, Connect
  <1>3. IndexIsLiveOtherwise'
    <2> SUFFICES ASSUME used["disconnect"] = 0, used["move"] = 0,
                        NEW i \in Hosts, hostIndex'[i] # None
                 PROVE  agents'[hostIndex'[i]] = i
      BY <1>0 DEF IndexIsLiveOtherwise, IndexIsLive
    <2>1. token[a] = h BY <1>0 DEF TokensHold
    <2>2. CASE i = h BY <1>0, <2>2 DEF Connect
    <2>3. CASE i # h
      <3>1. hostIndex'[i] = hostIndex[i] /\ agents[hostIndex[i]] = i
            /\ token[hostIndex[i]] = i /\ hostIndex[i] \in Agents
        BY <1>0, <2>3 DEF Connect, IndexIsLiveOtherwise, IndexIsLive, TokensHold
      <3>2. hostIndex[i] # a BY <2>1, <2>3, <3>1
      <3>3. hostIndex[i] # hostIndex[h]
        BY <2>3, <3>1 DEF TokensHold
      <3> QED BY <1>0, <3>1, <3>2, <3>3 DEF Connect
    <2> QED BY <2>2, <2>3
  <1>4. NotClosing' BY <1>0 DEF NotClosing
  <1> QED BY <1>1, <1>2, <1>3, <1>4

LEMMA InitIndex == InitRegistry => IndexInv
  BY InitType, RegistryAssumption
  DEF InitRegistry, IndexInv, AgentsAreIndexed, TokensHold, NotClosing,
      IndexIsLiveOtherwise, IndexIsLive

LEMMA UpdateStatusUsed ==
  ASSUME TypeOKRegistry, NEW h \in Hosts, NEW s \in {"online", "offline"},
         UpdateStatus(h, s)
  PROVE  \A l \in Kinds : used'[l] = 0 => used[l] = 0
  BY SpendType DEF UpdateStatus, TypeOKRegistry, Kinds

LEMMA AgentStepIndex ==
  ASSUME IndexInv, NEW a \in Agents, AgentStep(a)
  PROVE  IndexInv'
  <1>0. TypeOKRegistry /\ TypeOKRegistry' BY AgentStepType DEF IndexInv
  <1> USE DEF serverVars, tableVars, agentVars, messageVars
  <1>1. CASE RegisterTimeout(a) \/ Subscribe(a) \/ SendHeartbeat(a) \/ AgentStop(a)
             \/ AgentCrash(a)
    BY <1>0, <1>1, IndexFrame
    DEF RegisterTimeout, Subscribe, SendHeartbeat, AgentStop, AgentCrash, IndexInv, NotClosing
  <1>2. ASSUME NEW h \in Hosts, AgentStart(a, h) PROVE IndexInv'
    <2>1. \A l \in Kinds : used'[l] = 0 => used[l] = 0
      BY <1>0, <1>2, StartUsed
    <2>2. CASE h = token[a]
      <3>1. \A m \in regs' : m \in regs \/ (m[1] \in Agents /\ m[2] = token[m[1]])
        BY <1>0, <1>2, <2>2 DEF AgentStart
      <3>2. UNCHANGED token BY <1>0, <1>2, <2>2, StartUsed
      <3> QED BY <1>0, <1>2, <2>1, <3>1, <3>2, IndexFrame
              DEF AgentStart, IndexInv, NotClosing, Kinds
    <2>3. CASE h # token[a]
      <3>1. used'["move"] # 0 BY <1>0, <1>2, <2>3, StartUsed
      <3> QED BY <1>0, <1>2, <2>1, <3>1 DEF AgentStart, IndexInv, AgentsAreIndexed, TokensHold,
              NotClosing, IndexIsLiveOtherwise, Kinds
    <2> QED BY <2>2, <2>3
  <1>3. CASE LinkLost(a)
    <2>1. \A l \in Kinds : used'[l] = 0 => used[l] = 0
      BY <1>0, <1>3, SpendType DEF LinkLost, TypeOKRegistry, Kinds
    <2> QED BY <1>0, <1>3, <2>1, IndexFrame DEF LinkLost, IndexInv, NotClosing, Kinds
  <1>4. CASE Reconnected(a)
    <2>1. \A m \in regs' : m \in regs \/ (m[1] \in Agents /\ m[2] = token[m[1]])
      BY <1>0, <1>4 DEF Reconnected
    <2> QED BY <1>0, <1>4, <2>1, IndexFrame DEF Reconnected, IndexInv, NotClosing
  <1> QED BY <1>1, <1>2, <1>3, <1>4 DEF AgentStep

LEMMA GatewayStepIndex ==
  ASSUME IndexInv, GatewayStep
  PROVE  IndexInv'
  <1>0. TypeOKRegistry /\ TypeOKRegistry' BY GatewayStepType DEF IndexInv
  <1> USE DEF serverVars, tableVars, agentVars, messageVars
  <1>1. ASSUME NEW a \in Agents, NEW h \in Hosts, HandleRegister(a, h) PROVE IndexInv'
    BY <1>0, <1>1, ConnectIndex
  <1>2. ASSUME NEW a \in Agents, NEW h \in Hosts, RejectRegister(a, h) PROVE IndexInv'
    BY <1>0, <1>2, IndexFrame DEF RejectRegister, IndexInv, NotClosing
  <1>3. CASE FinishRegister
    <2>1. owed["register"].host \in Hosts
      BY <1>0, <1>3 DEF FinishRegister, TypeOKRegistry, Handlers, Owed
    <2>2. \A l \in Kinds : used'[l] = 0 => used[l] = 0
      BY <1>0, <1>3, <2>1, UpdateStatusUsed DEF FinishRegister
    <2> QED BY <1>0, <1>3, <2>2, IndexFrame DEF FinishRegister, IndexInv, NotClosing, Kinds
  <1>4. ASSUME NEW a \in Agents, HandleHeartbeat(a) PROVE IndexInv'
    BY <1>0, <1>4, IndexFrame DEF HandleHeartbeat, IndexInv, NotClosing
  <1>5. CASE FinishHeartbeat
    <2>1. owed["heartbeat"].host \in Hosts
      BY <1>0, <1>5 DEF FinishHeartbeat, TypeOKRegistry, Handlers, Owed
    <2>2. \A l \in Kinds : used'[l] = 0 => used[l] = 0
      BY <1>0, <1>5, <2>1, UpdateStatusUsed DEF FinishHeartbeat
    <2> QED BY <1>0, <1>5, <2>2, IndexFrame DEF FinishHeartbeat, IndexInv, NotClosing, Kinds
  <1>6. ASSUME NEW a \in Agents, HandleDeregister(a) PROVE IndexInv'
    <2>1. CASE agents[a] # None
      BY <1>0, <1>6, <2>1, RemoveIndex DEF HandleDeregister
    <2>2. CASE agents[a] = None
      BY <1>0, <1>6, <2>2, IndexFrame DEF HandleDeregister, IndexInv, NotClosing
    <2> QED BY <2>1, <2>2
  <1>7. CASE FinishDeregister
    <2>1. owed["deregister"].host \in Hosts
      BY <1>0, <1>7 DEF FinishDeregister, TypeOKRegistry, Handlers, Owed
    <2>2. \A l \in Kinds : used'[l] = 0 => used[l] = 0
      BY <1>0, <1>7, <2>1, UpdateStatusUsed DEF FinishDeregister
    <2> QED BY <1>0, <1>7, <2>2, IndexFrame DEF FinishDeregister, IndexInv, NotClosing, Kinds
  <1>8. ASSUME NEW a \in Agents, Lapse(a) PROVE IndexInv'
    BY <1>0, <1>8, IndexFrame DEF Lapse, IndexInv, NotClosing
  <1>9. CASE CleanupStaleAgents
    <2> DEFINE stale == {a \in Agents : agents[a] # None /\ ~seen[a]}
    <2>1. Remove(stale) /\ UNCHANGED <<token, regs, closing, used>>
      BY <1>9 DEF CleanupStaleAgents
    <2>2. stale \in SUBSET Agents OBVIOUS
    <2> HIDE DEF stale
    <2> QED BY <1>0, <2>1, <2>2, RemoveIndex
  <1>10. ASSUME NEW h \in Hosts, LateOffline(h) PROVE IndexInv'
    <2>1. \A l \in Kinds : used'[l] = 0 => used[l] = 0
      BY <1>0, <1>10, SpendType DEF LateOffline, TypeOKRegistry, Kinds
    <2> QED BY <1>0, <1>10, <2>1, IndexFrame DEF LateOffline, IndexInv, NotClosing, Kinds
  <1>11. ASSUME NEW a \in Agents, DisconnectAgent(a) PROVE IndexInv'
    <2>1. used'["disconnect"] # 0 /\ (used'["move"] = 0 => used["move"] = 0)
      BY <1>0, <1>11, SpendType DEF DisconnectAgent, TypeOKRegistry, Kinds
    <2> QED BY <1>0, <1>11, <2>1, IndexFrame DEF DisconnectAgent
  <1>12. ASSUME NEW a \in Agents, DisconnectDone(a) PROVE IndexInv'
    BY <1>0, <1>12 DEF DisconnectDone, IndexInv, TypeOKRegistry, AgentsAreIndexed, TokensHold,
       NotClosing, IndexIsLiveOtherwise
  <1>13. CASE GatewayRestart
    BY <1>0, <1>13 DEF GatewayRestart, IndexInv, AgentsAreIndexed, TokensHold,
       NotClosing, IndexIsLiveOtherwise, IndexIsLive
  <1> QED BY <1>1, <1>2, <1>3, <1>4, <1>5, <1>6, <1>7, <1>8, <1>9, <1>10, <1>11,
             <1>12, <1>13 DEF GatewayStep

LEMMA TableStepIndex ==
  ASSUME IndexInv, TableStep
  PROVE  IndexInv'
  BY TableStepType, IndexFrame
  DEF TableStep, Age, MarkStaleHostsOffline, IndexInv, NotClosing, serverVars, agentVars,
      messageVars

LEMMA StepIndex == IndexInv /\ [NextRegistry]_registryVars => IndexInv'
  <1> SUFFICES ASSUME IndexInv, [NextRegistry]_registryVars PROVE IndexInv'
    OBVIOUS
  <1>1. CASE UNCHANGED registryVars
    BY <1>1 DEF IndexInv, TypeOKRegistry, AgentsAreIndexed, TokensHold, NotClosing,
       IndexIsLiveOtherwise, IndexIsLive, registryVars, serverVars, tableVars, agentVars,
       messageVars
  <1>2. CASE NextRegistry
    BY <1>2, AgentStepIndex, GatewayStepIndex, TableStepIndex DEF NextRegistry
  <1> QED BY <1>1, <1>2

\* However many agents register, deregister, lapse, reconnect and are
\* disconnected at once, the index of the gateway leads to every connection.
THEOREM ConnectionsStayIndexed == SpecRegistry => []AgentsAreIndexed
  <1>1. IndexInv => AgentsAreIndexed BY DEF IndexInv
  <1> QED BY <1>1, InitIndex, StepIndex, PTL DEF SpecRegistry

\* DisconnectAgent and an agent ID that moves to another host are the only
\* causes of an index entry without a connection of its host.
THEOREM IndexStaysLive == SpecRegistry => []IndexIsLiveOtherwise
  <1>1. IndexInv => IndexIsLiveOtherwise BY DEF IndexInv
  <1> QED BY <1>1, InitIndex, StepIndex, PTL DEF SpecRegistry
================================================================================
