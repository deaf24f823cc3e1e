----------------------------- MODULE AgentRegistry -----------------------------
(***************************************************************************)
(* The gateway's registry of agents (internal/gateway/server.go and the     *)
(* DisconnectAgent handler of api.go), the life of an agent as the gateway *)
(* sees it (internal/agent/agent.go), and the column hosts.status that     *)
(* both, and the health check of the host service, keep in Postgres.        *)
(*                                                                         *)
(* NATS runs the handlers of one subscription one after the other and the  *)
(* handlers of different subscriptions concurrently.  Each handler changes *)
(* the maps under s.mu and writes hosts.status after it unlocked, so that  *)
(* a handler is two steps here, with the write it owes in between.  An      *)
(* agent is identified by its configured ID; its token names its host.      *)
(***************************************************************************)
EXTENDS Naturals, FiniteSets

CONSTANTS
    Agents, Hosts, None,
    MaxLate,       \* status writes started by cleanupStaleAgents and not done, per host
    MaxUses        \* bounds on the kinds of event below

Handlers == {"register", "heartbeat", "deregister"}

\* fault: a write of hosts.status fails; disconnect: DELETE /gateway/agents/{id};
\* start: an agent starts; move: it starts with the token of another host than
\* before; drop: an agent loses its connection to NATS.
Kinds == {"fault", "disconnect", "start", "move", "drop"}

ASSUME RegistryAssumption ==
    /\ IsFiniteSet(Agents) /\ IsFiniteSet(Hosts)
    /\ None \notin Agents \cup Hosts
    /\ MaxLate \in Nat \ {0}
    /\ MaxUses \in [Kinds -> Nat]

VARIABLES
    agents,        \* the host of an agent's connection, None when there is none
    seen,          \* is LastSeen within HeartbeatTimeout?
    hostIndex,     \* host to agent
    status,        \* hosts.status; the host service cannot connect to a new agent host
    lastSeen,      \* is hosts.last_seen_at within StaleThreshold?
    owed,          \* the status write a handler has still to make
    late,          \* offline writes to come, of cleanupStaleAgents' goroutines and of
                   \* initializeConnections
    proc, link,    \* the agent's process, and its connection to NATS
    token,         \* the host whose token the agent is configured with
    regs, beats, deregs,  \* messages to the gateway: registrations, heartbeats, deregistrations
    closing,       \* DisconnectAgent requests waiting for their command
    used

serverVars == <<agents, seen, hostIndex, owed, late, closing>>
tableVars == <<status, lastSeen>>
agentVars == <<proc, link, token>>
messageVars == <<regs, beats, deregs>>
registryVars == <<serverVars, tableVars, agentVars, messageVars, used>>

Owed == [host : Hosts, agent : Agents]

Spend(k) == used[k] < MaxUses[k] /\ used' = [used EXCEPT ![k] = @ + 1]

InitRegistry ==
    /\ agents = [a \in Agents |-> None]
    /\ seen = [a \in Agents |-> FALSE]
    /\ hostIndex = [h \in Hosts |-> None]
    /\ status = [h \in Hosts |-> "error"]
    /\ lastSeen = [h \in Hosts |-> FALSE]
    /\ owed = [x \in Handlers |-> None]
    /\ late = [h \in Hosts |-> 0]
    /\ proc = [a \in Agents |-> "down"]
    /\ link = [a \in Agents |-> FALSE]
    /\ token \in [Agents -> Hosts]
    /\ regs = {} /\ beats = {} /\ deregs = {}
    /\ closing = {}
    /\ used = [k \in Kinds |-> 0]

--------------------------------------------------------------------------------
(* hosts.status *)

\* UpdateStatus, or its failure, which every caller only logs.
UpdateStatus(h, s) ==
    \/ /\ status' = [status EXCEPT ![h] = s]
       /\ lastSeen' = [lastSeen EXCEPT ![h] = TRUE]
       /\ UNCHANGED used
    \/ Spend("fault") /\ UNCHANGED tableVars

\* Two minutes pass without a write.
Age(h) ==
    /\ lastSeen[h]
    /\ lastSeen' = [lastSeen EXCEPT ![h] = FALSE]
    /\ UNCHANGED <<serverVars, status, agentVars, messageVars, used>>

\* Mutant of MarkStaleHostsOffline: the hosts seen recently instead of the stale ones.
MarkFreshHostsOffline ==
    LET fresh == {h \in Hosts : status[h] = "online" /\ lastSeen[h]} IN
    /\ fresh # {}
    /\ status' = [h \in Hosts |-> IF h \in fresh THEN "offline" ELSE status[h]]
    /\ UNCHANGED <<serverVars, lastSeen, agentVars, messageVars, used>>

\* The health check of the host service.
MarkStaleHostsOffline ==
    LET stale == {h \in Hosts : status[h] = "online" /\ ~lastSeen[h]} IN
    /\ stale # {}
    /\ status' = [h \in Hosts |-> IF h \in stale THEN "offline" ELSE status[h]]
    /\ UNCHANGED <<serverVars, lastSeen, agentVars, messageVars, used>>

--------------------------------------------------------------------------------
(* The agent *)

\* Run up to the registration request, with the token h it is configured with.
AgentStart(a, h) ==
    /\ proc[a] = "down"
    /\ Spend(IF h = token[a] THEN "start" ELSE "move")
    /\ token' = [token EXCEPT ![a] = h]
    /\ proc' = [proc EXCEPT ![a] = "registering"]
    /\ link' = [link EXCEPT ![a] = TRUE]
    /\ regs' = regs \cup {<<a, h>>}
    /\ UNCHANGED <<serverVars, tableVars, beats, deregs>>

\* The request fails or gets no answer in 30 seconds: Run returns.
RegisterTimeout(a) ==
    /\ proc[a] = "registering"
    /\ proc' = [proc EXCEPT ![a] = "down"]
    /\ link' = [link EXCEPT ![a] = FALSE]
    /\ UNCHANGED <<serverVars, tableVars, token, messageVars, used>>

\* subscribeToCommands, after which the loops start.
Subscribe(a) ==
    /\ proc[a] = "registered"
    /\ proc' = [proc EXCEPT ![a] = "up"]
    /\ UNCHANGED <<serverVars, tableVars, link, token, messageVars, used>>

SendHeartbeat(a) ==
    /\ proc[a] = "up" /\ link[a] /\ a \notin beats
    /\ beats' = beats \cup {a}
    /\ UNCHANGED <<serverVars, tableVars, agentVars, regs, deregs, used>>

\* Shutdown on request: deregister, then the process ends.  Without a
\* connection the message stays in the client's buffer and is lost.
AgentStop(a) ==
    /\ proc[a] = "up"
    /\ proc' = [proc EXCEPT ![a] = "down"]
    /\ link' = [link EXCEPT ![a] = FALSE]
    /\ deregs' = IF link[a] THEN deregs \cup {a} ELSE deregs
    /\ UNCHANGED <<serverVars, tableVars, token, regs, beats, used>>

AgentCrash(a) ==
    /\ proc[a] \in {"registered", "up"}
    /\ proc' = [proc EXCEPT ![a] = "down"]
    /\ link' = [link EXCEPT ![a] = FALSE]
    /\ UNCHANGED <<serverVars, tableVars, token, messageVars, used>>

LinkLost(a) ==
    /\ link[a]
    /\ Spend("drop")
    /\ link' = [link EXCEPT ![a] = FALSE]
    /\ UNCHANGED <<serverVars, tableVars, proc, token, messageVars>>

\* The reconnect handler registers again, whatever the agent is doing.
Reconnected(a) ==
    /\ proc[a] # "down" /\ ~link[a]
    /\ link' = [link EXCEPT ![a] = TRUE]
    /\ regs' = regs \cup {<<a, token[a]>>}
    /\ UNCHANGED <<serverVars, tableVars, proc, token, beats, deregs, used>>

--------------------------------------------------------------------------------
(* The gateway *)

\* Mutant of Remove: the index entry stays, as in DisconnectAgent.
RemoveFromAgents(S) ==
    /\ agents' = [a \in Agents |-> IF a \in S THEN None ELSE agents[a]]
    /\ UNCHANGED hostIndex

\* The maps without the connections of the agents in S.
Remove(S) ==
    /\ agents' = [a \in Agents |-> IF a \in S THEN None ELSE agents[a]]
    /\ hostIndex' = [h \in Hosts |->
                        IF \E a \in S : agents[a] = h THEN None ELSE hostIndex[h]]

\* Mutant of Connect: the host's old connection is not removed.
ConnectOnly(a, h) ==
    /\ agents' = [agents EXCEPT ![a] = h]
    /\ hostIndex' = [hostIndex EXCEPT ![h] = a]
    /\ seen' = [seen EXCEPT ![a] = TRUE]

\* handleRegistration under s.mu: a's connection replaces that of the host.
Connect(a, h) ==
    /\ agents' = [b \in Agents |-> IF b = a THEN h
                                   ELSE IF b = hostIndex[h] THEN None
                                   ELSE agents[b]]
    /\ hostIndex' = [hostIndex EXCEPT ![h] = a]
    /\ seen' = [seen EXCEPT ![a] = TRUE]

HandleRegister(a, h) ==
    /\ owed["register"] = None /\ <<a, h>> \in regs
    /\ regs' = regs \ {<<a, h>>}
    /\ Connect(a, h)
    /\ owed' = [owed EXCEPT !["register"] = [host |-> h, agent |-> a]]
    /\ UNCHANGED <<tableVars, agentVars, beats, deregs, late, closing, used>>

\* GetByAgentToken fails: Run returns the rejection, the reconnect handler logs it.
RejectRegister(a, h) ==
    /\ owed["register"] = None /\ <<a, h>> \in regs
    /\ regs' = regs \ {<<a, h>>}
    /\ IF proc[a] = "registering"
       THEN /\ proc' = [proc EXCEPT ![a] = "down"]
            /\ link' = [link EXCEPT ![a] = FALSE]
       ELSE UNCHANGED <<proc, link>>
    /\ UNCHANGED <<serverVars, tableVars, token, beats, deregs, used>>

\* The rest of handleRegistration: the status, then the answer to an agent
\* that still waits for it.
FinishRegister ==
    /\ owed["register"] # None
    /\ LET o == owed["register"]
           waits == proc[o.agent] = "registering" /\ link[o.agent]
                    /\ token[o.agent] = o.host
       IN  /\ UpdateStatus(o.host, "online")
           /\ proc' = IF waits THEN [proc EXCEPT ![o.agent] = "registered"] ELSE proc
    /\ owed' = [owed EXCEPT !["register"] = None]
    /\ UNCHANGED <<agents, seen, hostIndex, late, closing, link, token, messageVars>>

\* Mutant of HandleHeartbeat: a heartbeat refreshes the connection and not the host.
HandleHeartbeatQuietly(a) ==
    /\ owed["heartbeat"] = None /\ a \in beats
    /\ beats' = beats \ {a}
    /\ seen' = [seen EXCEPT ![a] = agents[a] # None]
    /\ UNCHANGED <<agents, hostIndex, owed, late, closing, tableVars, agentVars, regs,
                   deregs, used>>

\* Mutant of HandleHeartbeat: the result of the map lookup is not checked.
HandleAnyHeartbeat(a) ==
    /\ owed["heartbeat"] = None /\ a \in beats
    /\ beats' = beats \ {a}
    /\ seen' = [seen EXCEPT ![a] = TRUE]
    /\ owed' = [owed EXCEPT !["heartbeat"] = [host |-> agents[a], agent |-> a]]
    /\ UNCHANGED <<agents, hostIndex, late, closing, tableVars, agentVars, regs,
                   deregs, used>>

\* A heartbeat of an agent without a connection is only logged.
HandleHeartbeat(a) ==
    /\ owed["heartbeat"] = None /\ a \in beats
    /\ beats' = beats \ {a}
    /\ IF agents[a] # None
       THEN /\ seen' = [seen EXCEPT ![a] = TRUE]
            /\ owed' = [owed EXCEPT !["heartbeat"] = [host |-> agents[a], agent |-> a]]
       ELSE UNCHANGED <<seen, owed>>
    /\ UNCHANGED <<agents, hostIndex, late, closing, tableVars, agentVars, regs,
                   deregs, used>>

FinishHeartbeat ==
    /\ owed["heartbeat"] # None
    /\ UpdateStatus(owed["heartbeat"].host, "online")
    /\ owed' = [owed EXCEPT !["heartbeat"] = None]
    /\ UNCHANGED <<agents, seen, hostIndex, late, closing, agentVars, messageVars>>

HandleDeregister(a) ==
    /\ owed["deregister"] = None /\ a \in deregs
    /\ deregs' = deregs \ {a}
    /\ IF agents[a] # None
       THEN /\ Remove({a})
            /\ owed' = [owed EXCEPT !["deregister"] = [host |-> agents[a], agent |-> a]]
       ELSE UNCHANGED <<agents, hostIndex, owed>>
    /\ UNCHANGED <<seen, late, closing, tableVars, agentVars, regs, beats, used>>

FinishDeregister ==
    /\ owed["deregister"] # None
    /\ UpdateStatus(owed["deregister"].host, "offline")
    /\ owed' = [owed EXCEPT !["deregister"] = None]
    /\ UNCHANGED <<agents, seen, hostIndex, late, closing, agentVars, messageVars>>

\* HeartbeatTimeout passes without a heartbeat: the agent is gone, or its
\* heartbeats are late.
Lapse(a) ==
    /\ agents[a] # None /\ seen[a]
    /\ seen' = [seen EXCEPT ![a] = FALSE]
    /\ UNCHANGED <<agents, hostIndex, owed, late, closing, tableVars, agentVars,
                   messageVars, used>>

CleanupStaleAgents ==
    LET stale == {a \in Agents : agents[a] # None /\ ~seen[a]}
        hosts == {agents[a] : a \in stale}
    IN  /\ stale # {}
        /\ \A h \in hosts : late[h] < MaxLate
        /\ Remove(stale)
        /\ late' = [h \in Hosts |-> IF h \in hosts THEN late[h] + 1 ELSE late[h]]
        /\ UNCHANGED <<seen, owed, closing, tableVars, agentVars, messageVars, used>>

\* One of the goroutines of cleanupStaleAgents writes; it writes the LastSeen
\* of the connection, which is old.  (The write of initializeConnections leaves the
\* column, which nobody reads while the host is offline.)
LateOffline(h) ==
    /\ late[h] > 0
    /\ late' = [late EXCEPT ![h] = @ - 1]
    /\ \/ /\ status' = [status EXCEPT ![h] = "offline"]
          /\ lastSeen' = [lastSeen EXCEPT ![h] = FALSE]
          /\ UNCHANGED used
       \/ Spend("fault") /\ UNCHANGED tableVars
    /\ UNCHANGED <<agents, seen, hostIndex, owed, closing, agentVars, messageVars>>

\* DisconnectAgent of the API: the agent is looked up, sent a command it does
\* not know, and whatever the answer, its entry in agents is deleted.
DisconnectAgent(a) ==
    /\ agents[a] # None /\ a \notin closing
    /\ Spend("disconnect")
    /\ closing' = closing \cup {a}
    /\ UNCHANGED <<agents, seen, hostIndex, owed, late, tableVars, agentVars, messageVars>>

DisconnectDone(a) ==
    /\ a \in closing
    /\ closing' = closing \ {a}
    /\ agents' = [agents EXCEPT ![a] = None]
    /\ UNCHANGED <<seen, hostIndex, owed, late, tableVars, agentVars, messageVars, used>>

\* The host service, when it starts, lists the hosts that are online, unless the query
\* fails, and a goroutine marks those offline to which it cannot connect, which it
\* never can to an agent's.
InitializeConnections ==
    \E listed \in {{}, {h \in Hosts : status[h] = "online"}} :
        late' = [h \in Hosts |-> IF h \in listed THEN 1 ELSE 0]

\* The master stops or crashes and starts again: the maps are empty, messages
\* that waited for a handler are lost, and nobody tells the agents.
GatewayRestart ==
    /\ agents' = [a \in Agents |-> None]
    /\ seen' = [a \in Agents |-> FALSE]
    /\ hostIndex' = [h \in Hosts |-> None]
    /\ owed' = [x \in Handlers |-> None]
    /\ InitializeConnections
    /\ closing' = {}
    /\ regs' = {} /\ beats' = {} /\ deregs' = {}
    /\ UNCHANGED <<tableVars, agentVars, used>>

--------------------------------------------------------------------------------
AgentStep(a) ==
    \/ \E h \in Hosts : AgentStart(a, h)
    \/ RegisterTimeout(a) \/ Subscribe(a) \/ SendHeartbeat(a)
    \/ AgentStop(a) \/ AgentCrash(a) \/ LinkLost(a) \/ Reconnected(a)

GatewayStep ==
    \/ \E a \in Agents, h \in Hosts : HandleRegister(a, h) \/ RejectRegister(a, h)
    \/ FinishRegister
    \/ \E a \in Agents : \/ HandleHeartbeat(a) \/ HandleDeregister(a) \/ Lapse(a)
                         \/ DisconnectAgent(a) \/ DisconnectDone(a)
    \/ FinishHeartbeat \/ FinishDeregister
    \/ CleanupStaleAgents \/ (\E h \in Hosts : LateOffline(h))
    \/ GatewayRestart

TableStep == MarkStaleHostsOffline \/ (\E h \in Hosts : Age(h))

NextRegistry ==
    \/ \E a \in Agents : AgentStep(a)
    \/ GatewayStep
    \/ TableStep

SpecRegistry == InitRegistry /\ [][NextRegistry]_registryVars

\* The loops and tickers run on; NATS keeps the order of the messages of one
\* subscription, so that each gets its turn although its handler is busy
\* between two of them (strong fairness).
FairnessRegistry ==
    /\ \A a \in Agents :
          /\ WF_registryVars(Subscribe(a)) /\ WF_registryVars(SendHeartbeat(a))
          /\ SF_registryVars(HandleHeartbeat(a)) /\ SF_registryVars(HandleDeregister(a))
          /\ \A h \in Hosts : SF_registryVars(HandleRegister(a, h))
          /\ WF_registryVars(Lapse(a) /\ ~(proc[a] = "up" /\ link[a]))
    /\ WF_registryVars(FinishRegister) /\ WF_registryVars(FinishHeartbeat)
    /\ WF_registryVars(FinishDeregister)
    /\ WF_registryVars(CleanupStaleAgents)
    /\ WF_registryVars(MarkStaleHostsOffline)
    /\ \A h \in Hosts : WF_registryVars(LateOffline(h)) /\ WF_registryVars(Age(h))

FairSpecRegistry == SpecRegistry /\ FairnessRegistry

--------------------------------------------------------------------------------
(* Properties *)

TypeOKRegistry ==
    /\ agents \in [Agents -> Hosts \cup {None}]
    /\ seen \in [Agents -> BOOLEAN]
    /\ hostIndex \in [Hosts -> Agents \cup {None}]
    /\ status \in [Hosts -> {"online", "offline", "error"}]
    /\ lastSeen \in [Hosts -> BOOLEAN]
    /\ owed \in [Handlers -> Owed \cup {None}]
    /\ late \in [Hosts -> 0 .. MaxLate]
    /\ proc \in [Agents -> {"down", "registering", "registered", "up"}]
    /\ link \in [Agents -> BOOLEAN]
    /\ token \in [Agents -> Hosts]
    /\ regs \subseteq Agents \X Hosts
    /\ beats \subseteq Agents /\ deregs \subseteq Agents
    /\ closing \subseteq Agents
    /\ used \in [Kinds -> Nat]

\* Every connection the gateway lists is the one its host's index leads to,
\* whatever registrations, deregistrations, clean-ups and disconnections
\* overlap: no host has two connections, and the deletions of
\* handleDeregistration and cleanupStaleAgents never hit another agent's entry.
AgentsAreIndexed ==
    \A a \in Agents : agents[a] # None => hostIndex[agents[a]] = a

\* GetAgentByHost returns "the agent for a host": an index entry leads to a
\* connection of that host.  DisconnectAgent does not keep it.
IndexIsLive ==
    \A h \in Hosts : hostIndex[h] # None => agents[hostIndex[h]] = h

\* What breaks the index is DisconnectAgent, or an agent ID that moves to
\* another host; without them it is live in every interleaving.
IndexIsLiveOtherwise ==
    used["disconnect"] = 0 /\ used["move"] = 0 => IndexIsLive

Connected(h) == \E a \in Agents : agents[a] = h

\* A host whose agent stays connected is shown online again and again: no
\* delayed offline write of an earlier deregistration or clean-up lasts.
ConnectedIsOnline ==
    \A h \in Hosts : <>[]Connected(h) => []<>(status[h] = "online")

\* A host without an agent stops being shown online, although a
\* heartbeat's write may land after the deregistration's and a restart of the
\* gateway forgets the agents it should have declared stale.
GoneIsNotOnline ==
    \A h \in Hosts : <>[]~Connected(h) => <>[](status[h] # "online")
================================================================================
