----------------------------- MODULE CronRegistry -----------------------------
(***************************************************************************)
(* Scheduled jobs: the scheduled_jobs table of Postgres, the cron library's *)
(* table of entries and the map cronEntries that leads from one to the     *)
(* other (internal/scheduler/scheduler.go).  What an entry does when it     *)
(* fires, EnqueueJob, is the EnqCreate of JobScheduler.                    *)
(*                                                                         *)
(* A client is a goroutine that serves an API or web request.  cronMu makes *)
(* registerCronJob and unregisterCronJob atomic; nothing holds it across   *)
(* them and the SQL statements.                                            *)
(***************************************************************************)
EXTENDS Naturals, FiniteSets

CONSTANTS
    Ids,           \* IDs of scheduled jobs (uuid.New: an ID is used once)
    Clients,
    NoId,          \* no job at hand
    Schedules,     \* schedules that cron.ParseStandard accepts
    Registrable,   \* the ones among them that cron.AddFunc accepts
    MaxRequests, MaxFaults, MaxStarts

ASSUME CronAssumption ==
    /\ IsFiniteSet(Ids) /\ NoId \notin Ids
    /\ Registrable \subseteq Schedules
    /\ {MaxRequests, MaxFaults, MaxStarts} \subseteq Nat

\* A scheduled job: what the table holds and what an entry has captured.
ScheduledJob == [enabled : BOOLEAN, schedule : Schedules]
NoJob == [enabled |-> FALSE, schedule |-> "none"]

VARIABLES
    rows,          \* the scheduled_jobs table
    cronEntries,   \* job ID to entry ID, 0 when there is none
    cron,          \* the library's live entries
    nextEntry,     \* the library's next entry ID
    pc, id, snap,  \* the clients: where they are, the job's ID, their copy of it
    gone,          \* jobs whose deletion was reported as successful
    disturbed,     \* jobs with overlapping requests or a failed statement since Start
    used           \* requests, failed statements and starts so far

registry == <<cronEntries, cron, nextEntry>>
vars == <<rows, cronEntries, cron, nextEntry, pc, id, snap, gone, disturbed, used>>

Kinds == {"request", "fault", "start"}
Limit == [request |-> MaxRequests, fault |-> MaxFaults, start |-> MaxStarts]
Spend(k) == used[k] < Limit[k] /\ used' = [used EXCEPT ![k] = @ + 1]

Init ==
    /\ rows = [i \in Ids |-> NoJob]
    /\ cronEntries = [i \in Ids |-> 0]
    /\ cron = {}
    /\ nextEntry = 1
    /\ pc = [c \in Clients |-> "idle"]
    /\ id = [c \in Clients |-> NoId]
    /\ snap = [c \in Clients |-> NoJob]
    /\ gone = {}
    /\ disturbed = {}
    /\ used = [k \in Kinds |-> 0]

-------------------------------------------------------------------------------
(* The registry *)

Entry(e, i, j) == [entry |-> e, id |-> i, job |-> j]

\* Mutant of Registered: the entry that is there already stays.
RegisteredTwice(i, j) ==
    IF j.schedule \in Registrable
    THEN /\ cron' = cron \cup {Entry(nextEntry, i, j)}
         /\ cronEntries' = [cronEntries EXCEPT ![i] = nextEntry]
         /\ nextEntry' = nextEntry + 1
    ELSE UNCHANGED registry

\* registerCronJob: the entry in the map is removed, and replaced unless AddFunc
\* refuses the schedule (then the map keeps the ID of the removed entry).
Registered(i, j) ==
    LET others == {x \in cron : x.entry # cronEntries[i]} IN
    IF j.schedule \in Registrable
    THEN /\ cron' = others \cup {Entry(nextEntry, i, j)}
         /\ cronEntries' = [cronEntries EXCEPT ![i] = nextEntry]
         /\ nextEntry' = nextEntry + 1
    ELSE /\ cron' = others
         /\ UNCHANGED <<cronEntries, nextEntry>>

\* unregisterCronJob.
Unregistered(i) ==
    /\ cron' = {x \in cron : x.entry # cronEntries[i]}
    /\ cronEntries' = [cronEntries EXCEPT ![i] = 0]
    /\ UNCHANGED nextEntry

-------------------------------------------------------------------------------
(* Requests *)

At(c, l) == pc[c] = l
Goto(c, l) == pc' = [pc EXCEPT ![c] = l]

\* A request on a job that another request is working on.
Accept(c, i, l) ==
    /\ At(c, "idle") /\ Spend("request")
    /\ Goto(c, l)
    /\ id' = [id EXCEPT ![c] = i]
    /\ disturbed' = IF \E d \in Clients : id[d] = i THEN disturbed \cup {i} ELSE disturbed

Reply(c) ==
    /\ Goto(c, "idle")
    /\ id' = [id EXCEPT ![c] = NoId]
    /\ snap' = [snap EXCEPT ![c] = NoJob]

\* An ID that no request has created yet.
Unborn(i) == rows[i] = NoJob /\ i \notin gone /\ \A c \in Clients : id[c] # i

\* CreateScheduledJob: the row, then the entry if the job is enabled.
Create(c, i, j) ==
    /\ Unborn(i) /\ Accept(c, i, "register")
    /\ rows' = [rows EXCEPT ![i] = j]
    /\ snap' = [snap EXCEPT ![c] = j]
    /\ UNCHANGED <<registry, gone>>

\* UpdateScheduledJob reads the row, ...
UpdateGet(c, i) ==
    /\ rows[i] # NoJob /\ Accept(c, i, "update")
    /\ snap' = [snap EXCEPT ![c] = rows[i]]
    /\ UNCHANGED <<rows, registry, gone>>

\* ... writes it back with the fields of the request changed, which may be any
\* (an error when the row is gone), ...
UpdatePut(c, j) ==
    /\ At(c, "update")
    /\ IF rows[id[c]] = NoJob
       THEN Reply(c) /\ UNCHANGED rows
       ELSE /\ rows' = [rows EXCEPT ![id[c]] = j]
            /\ snap' = [snap EXCEPT ![c] = j]
            /\ Goto(c, "unregister") /\ UNCHANGED id
    /\ UNCHANGED <<registry, gone, disturbed, used>>

\* Mutant of UpdateUnregister: the entry is left for registerCronJob to replace.
UpdateKeepsEntry(c) ==
    /\ At(c, "unregister")
    /\ Goto(c, "register")
    /\ UNCHANGED <<rows, registry, id, snap, gone, disturbed, used>>

\* ... and replaces the entry in two critical sections.
UpdateUnregister(c) ==
    /\ At(c, "unregister")
    /\ Unregistered(id[c])
    /\ Goto(c, "register")
    /\ UNCHANGED <<rows, id, snap, gone, disturbed, used>>

\* Mutant of Register: a job that was switched off is registered too.
RegisterAny(c) ==
    /\ At(c, "register")
    /\ Registered(id[c], snap[c])
    /\ Reply(c)
    /\ UNCHANGED <<rows, gone, disturbed, used>>

Register(c) ==
    /\ At(c, "register")
    /\ IF snap[c].enabled THEN Registered(id[c], snap[c]) ELSE UNCHANGED registry
    /\ Reply(c)
    /\ UNCHANGED <<rows, gone, disturbed, used>>

\* DeleteScheduledJob: the entry, then the row.
DeleteUnregister(c, i) ==
    /\ rows[i] # NoJob \/ i \in gone
    /\ Accept(c, i, "delete")
    /\ Unregistered(i)
    /\ UNCHANGED <<rows, snap, gone>>

DeleteRow(c) ==
    /\ At(c, "delete")
    /\ rows' = [rows EXCEPT ![id[c]] = NoJob]
    /\ gone' = IF rows[id[c]] = NoJob THEN gone ELSE gone \cup {id[c]}
    /\ Reply(c)
    /\ UNCHANGED <<registry, disturbed, used>>

\* The UPDATE or the DELETE fails, or the request is canceled before it.
StatementFails(c) ==
    /\ pc[c] \in {"update", "delete"} /\ Spend("fault")
    /\ disturbed' = disturbed \cup {id[c]}
    /\ Reply(c)
    /\ UNCHANGED <<rows, registry, gone>>

-------------------------------------------------------------------------------
(* A new process *)

Enabled == {i \in Ids : rows[i].enabled}

\* The entries loadScheduledJobs makes of a set of jobs, numbered in any order.
Loaded(js) ==
    {f \in [js -> 1..Cardinality(js)] : \A i, j \in js : f[i] = f[j] => i = j}

\* Crash or Stop, then Start: loadScheduledJobs lists the enabled rows and
\* registers each.  Requests are served only afterwards.  An error of the list
\* is logged, and the scheduler runs without any entry.
Start(listed) ==
    /\ Spend("start")
    /\ LET js == IF listed THEN {i \in Enabled : rows[i].schedule \in Registrable} ELSE {} IN
       \E f \in Loaded(js) :
          /\ cron' = {Entry(f[i], i, rows[i]) : i \in js}
          /\ cronEntries' = [i \in Ids |-> IF i \in js THEN f[i] ELSE 0]
          /\ nextEntry' = Cardinality(js) + 1
    /\ disturbed' = IF listed THEN {} ELSE Ids
    /\ pc' = [c \in Clients |-> "idle"]
    /\ id' = [c \in Clients |-> NoId]
    /\ snap' = [c \in Clients |-> NoJob]
    /\ UNCHANGED <<rows, gone>>

-------------------------------------------------------------------------------
ClientStep(c) ==
    \/ \E j \in ScheduledJob : UpdatePut(c, j)
    \/ UpdateUnregister(c) \/ Register(c) \/ DeleteRow(c) \/ StatementFails(c)

Request(c) ==
    \E i \in Ids : \/ \E j \in ScheduledJob : Create(c, i, j)
                   \/ UpdateGet(c, i) \/ DeleteUnregister(c, i)

Next ==
    \/ \E c \in Clients : Request(c) \/ ClientStep(c)
    \/ \E listed \in BOOLEAN : Start(listed)

Spec == Init /\ [][Next]_vars

-------------------------------------------------------------------------------
(* Properties *)

TypeOK ==
    /\ rows \in [Ids -> ScheduledJob \cup {NoJob}]
    /\ cronEntries \in [Ids -> Nat]
    /\ cron \subseteq [entry : Nat \ {0}, id : Ids,
                       job : [enabled : {TRUE}, schedule : Registrable]]
    /\ nextEntry \in Nat \ {0}
    /\ pc \in [Clients -> {"idle", "update", "unregister", "register", "delete"}]
    /\ id \in [Clients -> Ids \cup {NoId}]
    /\ snap \in [Clients -> ScheduledJob \cup {NoJob}]
    /\ gone \subseteq Ids /\ disturbed \subseteq Ids
    /\ used \in [Kinds -> Nat]

\* Every live cron entry is the one cronEntries names for its job, whatever
\* requests overlap: an entry the map does not lead to could never be removed, and
\* its job would run twice at every tick until the process ends.
EntriesTracked == \A x \in cron : cronEntries[x.id] = x.entry

\* The job has an entry exactly when it is enabled and its schedule is one cron
\* takes, and the entry has captured the current row.
Agrees(i) ==
    /\ \A x \in cron : x.id = i => x.job = rows[i]
    /\ (\E x \in cron : x.id = i) <=> (rows[i].enabled /\ rows[i].schedule \in Registrable)

\* Requests that are done with a job and did not overlap on it leave cron and the
\* table in agreement.  A restart makes up for whatever overlapping requests and
\* failed statements have left behind.
RegistryAgrees ==
    \A i \in Ids \ disturbed : (\A c \in Clients : id[c] # i) => Agrees(i)

-------------------------------------------------------------------------------
(* What a comment of the code says, and the code does not do *)

\* scheduler.go: "DeleteScheduledJob deletes a scheduled job".  Once it has returned
\* nil and no request is working on the job, nothing fires the job any more.
DeletedIsNotFired ==
    \A x \in cron : x.id \in gone => \E c \in Clients : id[c] = x.id

===============================================================================
