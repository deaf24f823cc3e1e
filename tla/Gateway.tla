-------------------------------- MODULE Gateway --------------------------------
(***************************************************************************)
(* Commands over the registry of AgentRegistry: CommandDispatcher.         *)
(* SendCommand (internal/gateway/commands.go), which the API, a broadcast  *)
(* and DisconnectAgent call from goroutines of their own, and the agent's  *)
(* handleCommand (internal/agent/agent.go).                                *)
(*                                                                         *)
(* A command is published on the subject of the agent's ID and answered on *)
(* a subject of its own.  Both are core NATS: a message for a subject that *)
(* nobody is subscribed to is dropped.                                     *)
(***************************************************************************)
EXTENDS AgentRegistry

CONSTANT Cmds      \* commands; each has an ID of its own

ASSUME CmdAssumption == None \notin Cmds

VARIABLES
    call,          \* where the SendCommand of a command is, or what it returned
    goal,          \* the host it is for
    target,        \* the connection GetAgentByHost returned, None for a nil pointer
    inbox,         \* commands in the agent's subscription
    busy,          \* the command its handler executes
    outbox,        \* results on their way to the gateway
    replied,       \* commands whose result is in replyCh
    runs, ranOn    \* how often, and on which agent, a command was started

callVars == <<call, goal, target, replied>>
workVars == <<inbox, busy, outbox, runs, ranOn>>
commandVars == <<callVars, workVars>>
vars == <<registryVars, commandVars>>

Returned == {"completed", "timeout", "canceled", "unavailable", "error", "panic", "aborted"}

Init ==
    /\ InitRegistry
    /\ call = [c \in Cmds |-> "idle"]
    /\ goal = [c \in Cmds |-> None]
    /\ target = [c \in Cmds |-> None]
    /\ inbox = [a \in Agents |-> {}]
    /\ busy = [a \in Agents |-> None]
    /\ outbox = [a \in Agents |-> {}]
    /\ replied = {}
    /\ runs = [c \in Cmds |-> 0]
    /\ ranOn = [c \in Cmds |-> None]

--------------------------------------------------------------------------------
(* SendCommand *)

\* GetAgentByHost: no entry in hostIndex is an error; an entry that leads to
\* no connection is a nil pointer and no error.
Lookup(c, h) ==
    /\ call[c] = "idle"
    /\ goal' = [goal EXCEPT ![c] = h]
    /\ IF hostIndex[h] = None
       THEN /\ call' = [call EXCEPT ![c] = "unavailable"]
            /\ UNCHANGED target
       ELSE /\ call' = [call EXCEPT ![c] = "found"]
            /\ target' = [target EXCEPT ![c] =
                  IF agents[hostIndex[h]] = None THEN None ELSE hostIndex[h]]
    /\ UNCHANGED <<replied, workVars, registryVars>>

\* The subject is made of conn.AgentID.
Panic(c) ==
    /\ call[c] = "found" /\ target[c] = None
    /\ call' = [call EXCEPT ![c] = "panic"]
    /\ UNCHANGED <<goal, target, replied, workVars, registryVars>>

\* Mutant of Publish: the command is published on a subject every agent listens to.
PublishToAll(c) ==
    /\ call[c] = "found" /\ target[c] # None
    /\ call' = [call EXCEPT ![c] = "waiting"]
    /\ inbox' = [a \in Agents |-> IF proc[a] = "up" /\ link[a] THEN inbox[a] \cup {c}
                                  ELSE inbox[a]]
    /\ UNCHANGED <<goal, target, replied, busy, outbox, runs, ranOn, registryVars>>

\* The reply subscription exists already; the agent's is there once it is up.
Publish(c) ==
    /\ call[c] = "found" /\ target[c] # None
    /\ call' = [call EXCEPT ![c] = "waiting"]
    /\ inbox' = IF proc[target[c]] = "up" /\ link[target[c]]
                THEN [inbox EXCEPT ![target[c]] = @ \cup {c}]
                ELSE inbox
    /\ UNCHANGED <<goal, target, replied, busy, outbox, runs, ranOn, registryVars>>

PublishError(c) ==
    /\ call[c] = "found" /\ target[c] # None
    /\ call' = [call EXCEPT ![c] = "error"]
    /\ UNCHANGED <<goal, target, replied, workVars, registryVars>>

\* The select: a result in replyCh, the timeout or the end of the caller's
\* context, in any order when several are ready.  The deferred Unsubscribe
\* drops a result that comes later.
Answer(c, r) ==
    /\ call[c] = "waiting"
    /\ r = "completed" => c \in replied
    /\ call' = [call EXCEPT ![c] = r]
    /\ replied' = replied \ {c}
    /\ UNCHANGED <<goal, target, workVars, registryVars>>

--------------------------------------------------------------------------------
(* The agent's handleCommand *)

\* Mutant of Execute: the command is delivered again after it was executed.
ExecuteAgain(a, c) ==
    /\ proc[a] = "up" /\ busy[a] = None /\ c \in inbox[a]
    /\ busy' = [busy EXCEPT ![a] = c]
    /\ runs' = [runs EXCEPT ![c] = @ + 1]
    /\ ranOn' = [ranOn EXCEPT ![c] = a]
    /\ UNCHANGED <<callVars, inbox, outbox, registryVars>>

\* One handler at a time: a command waits for the one before it, and is
\* executed however long ago its sender gave up.
Execute(a, c) ==
    /\ proc[a] = "up" /\ busy[a] = None /\ c \in inbox[a]
    /\ inbox' = [inbox EXCEPT ![a] = @ \ {c}]
    /\ busy' = [busy EXCEPT ![a] = c]
    /\ runs' = [runs EXCEPT ![c] = @ + 1]
    /\ ranOn' = [ranOn EXCEPT ![c] = a]
    /\ UNCHANGED <<callVars, outbox, registryVars>>

\* Mutant of PublishResult: a result is published although no command was executed.
PublishAnyResult(a) ==
    /\ outbox' = [outbox EXCEPT ![a] = @ \cup {busy[a]}]
    /\ busy' = [busy EXCEPT ![a] = None]
    /\ UNCHANGED <<callVars, inbox, runs, ranOn, registryVars>>

PublishResult(a) ==
    /\ busy[a] # None
    /\ outbox' = [outbox EXCEPT ![a] = @ \cup {busy[a]}]
    /\ busy' = [busy EXCEPT ![a] = None]
    /\ UNCHANGED <<callVars, inbox, runs, ranOn, registryVars>>

\* The result reaches the gateway: replyCh of a SendCommand that still waits.
DeliverResult(a, c) ==
    /\ c \in outbox[a] /\ link[a]
    /\ outbox' = [outbox EXCEPT ![a] = @ \ {c}]
    /\ replied' = IF call[c] = "waiting" THEN replied \cup {c} ELSE replied
    /\ UNCHANGED <<call, goal, target, inbox, busy, runs, ranOn, registryVars>>

\* The process ends with what it has received and not answered.
LoseWork(a) ==
    /\ inbox' = [inbox EXCEPT ![a] = {}]
    /\ busy' = [busy EXCEPT ![a] = None]
    /\ outbox' = [outbox EXCEPT ![a] = {}]
    /\ UNCHANGED <<callVars, runs, ranOn>>

\* The goroutines in SendCommand end with their process.
AbortCalls ==
    /\ call' = [c \in Cmds |-> IF call[c] \in {"found", "waiting"} THEN "aborted"
                               ELSE call[c]]
    /\ replied' = {}
    /\ UNCHANGED <<goal, target, workVars>>

--------------------------------------------------------------------------------
SendCommand(c) ==
    \/ \E h \in Hosts : Lookup(c, h)
    \/ Panic(c) \/ Publish(c) \/ PublishError(c)
    \/ \E r \in {"completed", "timeout", "canceled"} : Answer(c, r)

HandleCommand(a) ==
    \/ \E c \in Cmds : Execute(a, c) \/ DeliverResult(a, c)
    \/ PublishResult(a)

\* A step of the registry, with what it means for the commands.
RegistryStep ==
    \/ \E a \in Agents : (AgentStop(a) \/ AgentCrash(a)) /\ LoseWork(a)
    \/ GatewayRestart /\ AbortCalls
    \/ /\ \/ \E a \in Agents :
                \/ RegisterTimeout(a) \/ Subscribe(a)
                \/ SendHeartbeat(a) \/ LinkLost(a) \/ Reconnected(a)
                \/ HandleHeartbeat(a) \/ HandleDeregister(a) \/ Lapse(a)
                \/ DisconnectAgent(a) \/ DisconnectDone(a)
                \/ \E h \in Hosts : \/ AgentStart(a, h) \/ HandleRegister(a, h)
                                    \/ RejectRegister(a, h)
          \/ FinishRegister \/ FinishHeartbeat \/ FinishDeregister
          \/ CleanupStaleAgents \/ (\E h \in Hosts : LateOffline(h))
          \/ TableStep
       /\ UNCHANGED commandVars

Next ==
    \/ \E c \in Cmds : SendCommand(c)
    \/ \E a \in Agents : HandleCommand(a)
    \/ RegistryStep

Spec == Init /\ [][Next]_vars

--------------------------------------------------------------------------------
(* Properties *)

TypeOK ==
    /\ TypeOKRegistry
    /\ call \in [Cmds -> {"idle", "found", "waiting"} \cup Returned]
    /\ goal \in [Cmds -> Hosts \cup {None}]
    /\ target \in [Cmds -> Agents \cup {None}]
    /\ inbox \in [Agents -> SUBSET Cmds]
    /\ busy \in [Agents -> Cmds \cup {None}]
    /\ outbox \in [Agents -> SUBSET Cmds]
    /\ replied \subseteq Cmds
    /\ runs \in [Cmds -> Nat]
    /\ ranOn \in [Cmds -> Agents \cup {None}]

\* A command for a host runs on an agent that is configured with the token of
\* that host, although the agent may have been replaced, restarted or removed
\* between GetAgentByHost and the execution (as long as no agent ID moved to
\* another host).
RunsOnItsHost ==
    \A c \in Cmds :
        ranOn[c] # None /\ used["move"] = 0 => token[ranOn[c]] = goal[c]

\* The promise of SendCommand, in terms of RemoteCall.
Phase(c) ==
    CASE call[c] = "idle" -> "idle"
      [] call[c] \in {"found", "waiting"} -> "open"
      [] call[c] = "completed" -> "done"
      [] call[c] \in {"timeout", "canceled", "aborted"} -> "unknown"
      [] call[c] \in {"unavailable", "error", "panic"} -> "refused"

Rpc == INSTANCE RemoteCall WITH phase <- [c \in Cmds |-> Phase(c)]

\* Every behaviour of SendCommand and handleCommand over the registry is one of
\* an at-most-once remote call: no command runs twice or after it was refused,
\* and no result is returned for a command that did not run.
AtMostOnceCall == Rpc!Spec
================================================================================
