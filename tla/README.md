# usulnet: models and proofs

usulnet is a self-hosted management plane for Docker hosts, written in Go: one
server process with Postgres and Redis behind it, and agents on remote hosts. This
directory holds TLA+ models of the parts of it where several goroutines, several
processes or several stores have to agree, the TLC runs that check them, and the
theorems TLAPS proves about them. `PROJECT.json` maps every definition to its lines.

## Inventory

| Part | State it keeps | Operations | What is hard about it |
|---|---|---|---|
| Job queue (`internal/scheduler/queue.go`) | Redis: a data key per job, four priority queues, a running set of leases, a dead letter set | Enqueue, Dequeue, Complete, Fail, Cancel, recovery, cleanup | read-modify-write without a lock; several commands per operation, each can fail or be the last before a crash; leases |
| Worker pool (`internal/scheduler/workers/pool.go`) | a bounded channel, cancel functions by job ID | Submit, CancelJob, Stop; the worker loop | two workers on one job; a full channel; shutdown |
| Scheduler (`internal/scheduler/scheduler.go`) | the `jobs` and `scheduled_jobs` tables, the cron table | EnqueueJob, CancelJob, DeleteJob, the queue, recovery and cleanup processors, cron registration | reports the same execution twice; two stores that must agree |
| Gateway and agents (`internal/gateway`, `internal/agent`) | two maps of connections and hosts, `hosts.status`, commands in flight | register, heartbeat, deregister, clean-up, disconnect, SendCommand, handleCommand | handlers in different goroutines write the table after the unlock; lost and late messages, timeouts, restarts |
| ACME (`internal/services/dns/acme.go`) | order rows, TXT records at the provider, their rows | start, process, complete, fail, resume | crash between provider and database; concurrent processing |
| Updates (`internal/services/update`) | the containers of a service, update rows | UpdateContainer, its compensations, RollbackUpdate | a saga of Docker calls, each can fail; overlapping updates; the request's context |
| Stacks and rollback (`internal/services/stack`, `services/rollback`) | stack rows, compose files, versions, per-stack locks | Update, Deploy, RestoreVersion, Execute | row, file and containers in separate steps; two lock tables |
| Redis lock (`internal/repository/redis/lock.go`) | keys with a TTL and a token | acquire, extend, release, semaphore | expiry under a live holder |
| Sessions, JWT blacklist (`internal/repository/redis`) | session keys, user index, revoked tokens | create, touch, delete, revoke | index and keys in separate commands |
| Authentication (`internal/services/auth`) | users, refresh tokens, signing keys | login, refresh, key rotation | rotation while tokens are in use |
| Backups (`internal/services/backup`) | backup rows, archives | create, restore, retention | row and archive in separate steps |
| Deploy, GitOps, ephemeral environments, alerts, notifications, docker configuration | rows and running containers | see `PROJECT.json` | partial failure |
| Web UI, API, repositories, Docker client, scanners, generators | none of their own | handlers, SQL, calls | left out: thin layers and I/O |

The parts interact by direct calls inside one process, through Redis and Postgres, and
(gateway and agents) by NATS messages. Jobs are the common mechanism: backups, scans,
updates and rollbacks run as jobs, and cron entries create them.

## Modules

| Module | Part | Extends | Theorems in |
|---|---|---|---|
| `JobScheduler` | queue, pool and scheduler with their stores, crash and restart | | `JobScheduler_proofs`, `JobScheduler_life` |
| `CronRegistry` | scheduled jobs, the cron table, `scheduled_jobs` | | `CronRegistry_proofs` |
| `AgentRegistry` | the gateway's registry, agents, `hosts.status` | | `AgentRegistry_proofs` |
| `Gateway` | SendCommand and handleCommand, composed with the registry | `AgentRegistry` | `Gateway_proofs` |
| `RemoteCall` | what SendCommand promises, implemented by `Gateway` | | `Gateway_proofs` |
| `AcmeOrder` | a DNS-01 order, its TXT records, concurrent requests | | `AcmeOrder_proofs` |
| `ContainerUpdate` | the update of a container, its compensations, the rollback | | `ContainerUpdate_proofs` |

Each `MC...` module gives the bounds, the symmetry and the constraints of its runs. Every
model has a record `used` (JobScheduler, AgentRegistry, AcmeOrder, ContainerUpdate) or
counters (CronRegistry) that bound the events of the environment, and properties that
only hold without some of them say so by `used`.

What is left of the plan, in this order: sessions and the JWT blacklist; stack versions,
restores and deploys; retention of backups. Every safety property that a passing run checks
has a theorem, except OneOverlapKeepsOneUp. Automated rollback comes last, if at all: its only entry point consumes the
change feed, on which nothing in the repository records an event.

## JobScheduler

### State and actions

A thread is a goroutine: an API client, the queue processor (`Poller`), the recovery
processor (`Recoverer`) or a pool worker. Each has a program counter `pc`, a job at
hand and a copy `snap` of the job it read. Redis is `data` (the data keys; `Absent` when
there is none), `queue` (out, delayed until its score, ready), `running` (out, a fresh
lease, a stale one) and `dead`; Postgres is `db`; the pool is `jobChan`, `cancelFns`, `ctx`
and `phase` (how far `Scheduler.Stop` has gone).

Every Redis command and every SQL statement is a step of its own, because nothing in the
code makes two of them atomic; the one exception is the Lua script that moves a job to
the running set. So `queue.Fail` is FailGet, FailSet, FailRem, FailAdd, and any other
thread can run between them.

* Clients: EnqCreate, EnqSet, EnqAdd, EnqDel (when its ZADD has failed);
  CancelInPool ... CancelDbPut; DeleteJob.
* Queue processor: PollTick, DeqMove, DeqNone, DeqGet, DeqSet, Submit, SubmitRefused.
* Workers: Take, Register, Execute, then queue.Complete or queue.Fail and the update of
  the jobs table (DbGet, DbPut), all of it twice (`round`), then Unregister. It is twice
  because `processQueue` passes `handleComplete` as the job's callback and `New` also sets
  it as the pool's callback. This is what makes retries work: `Fail` retries only a job
  whose stored status is already `failed`, which is what the first report leaves.
* Recoverer: RecoverList, RecoverNext, requeueJob. Cleanup of the dead letter set.
* Time: a delay elapses, a lease expires, a data key reaches its TTL.
* Failures: a Redis command fails without effect (`RedisError`), or it takes its effect and
  its reply is lost (`SetUnanswered`, `AddUnanswered`, `MoveUnanswered`; of a GET, a ZREM or a
  DEL whose error the code handles nothing depends on which of the two it was); a SQL
  statement fails (`CallbackDbError`, `CancelDbError`); the process crashes; `Stop` runs
  through its phases while the workers go on.

Left out on purpose: priorities (which of two ready jobs goes first; either may),
payloads, results, progress, events, statistics and backoff lengths. `UpdateProgress` is
not an action since no worker is given the callback that leads to it. A job's own
timeout and panics are errors of its own (`FailingJobs`).

### Runs

| Run | Instance | Shows |
|---|---|---|
| `job_live` | 2 jobs, 2 workers, 2 attempts, a channel for 1, 1 deleted row, fair goroutines | EveryJobFinishes, FailedOnlyWhenExhausted, DbAgreesOnCompleted, CompletedIsFinal, CancelFnsOwned |
| `job_crash` | 2 jobs, 1 worker, 2 attempts, a channel for 1, 1 crash, 1 Stop | LeasedWhileInPool, RetryBudget, NoLostJob |
| `job_fault` | 1 job, 1 worker, 2 clients, 2 attempts; 2 failed commands or 1 and a cancellation, each with or without effect; 1 expired key; or 1 lease that expires under its holder (`OneTrouble`) | TypeOK, EntryHasData, NoLostJob |

`canceled_is_not_run` is expected to fail: it states what a comment of the code says, and
TLC shows how the code does otherwise (`findings` in `PROJECT.json`). Other consequences of
the code have no run:

* A job that outlives its lease of 5 minutes is executed a second time in parallel.
* A worker that leaves a job deletes the cancel function of a retry that already runs
  elsewhere (`CancelFnsOwned` says that the reverse, a cancel function that outlives its
  execution, cannot happen).
* A job that the pool refuses is reported as failed once (scheduler.go:685, under the comment
  "Re-queue the job"). `Fail` then finds the status `running`, for which `CanRetry` is false,
  and puts the job into the dead letter set with attempts left. `FailedOnlyWhenExhausted`
  tells these jobs from the others by `refused`, and shows that nothing else ends a job early.
* A ZADD of Enqueue that took its effect and whose reply was lost leaves an entry without
  data: Enqueue deletes the data key (queue.go:128) and EnqueueJob returns an error with the
  row still pending. The entry is dequeued, stays in the running set and is requeued in vain by
  every recovery. `EntryHasData` excepts these jobs, by `unanswered`, and no others.
* A crash between the ZREM and the ZADD of `Fail` or `requeueJob` leaves the job in no set, and
  nothing looks for it: it is lost. `NoLostJob` speaks of behaviours without crashes, and
  `LeasedWhileInPool` of a job up to the end of its execution.
* The row of a job in the dead letter set stays `retrying`: the callbacks write what the first
  of the two reports made of it.
* With an expired lease a completed record can be overwritten by the other execution; after a
  retry or a cancellation that overlaps a report, table and Redis can disagree
  (`CompletedIsFinal` and `DbAgreesOnCompleted` are about the other behaviours).

### Bounds

Two jobs and two workers are enough for every pair of goroutines to meet on one job and
on two; two attempts give one retry and one exhaustion. `MaxUses` bounds each kind of
environment event (one is the smallest number that lets it happen between any two
steps, and in `job_fault` two commands can fail, so that the command that handles a failure
fails as well). `MaxExecs` bounds the history count of executions, which saturates. The
channel holds one job, so that with two jobs it can be full and the pool refuses one. Jobs
and workers are interchangeable, hence the symmetry (not used for liveness). `job_crash` has a
view without the jobs table and the history of refusals, which steer nothing in it.

### Fairness

`job_live` assumes weak fairness of each goroutine (the Go scheduler runs a runnable
goroutine in the end, and every tick loop comes back), and that delays elapse and the
lease of a job nobody holds expires. Nothing is assumed of clients' requests, failures
or of time for live leases. With an expired lease the property is false: two overlapping
executions overwrite each other's count of attempts and can retry for ever.

## CronRegistry

A scheduled job exists three times: as a row of `scheduled_jobs` (`rows`), as an entry of
the cron library that fires it (`cron`, whose closure holds a copy of the row), and in
the map `cronEntries` that leads from the job to its entry. A client is a goroutine that
serves a request. `cronMu` makes `registerCronJob` and `unregisterCronJob` atomic, and
nothing holds it across them and the SQL, so a request is several steps: Create, Register
for CreateScheduledJob; UpdateGet, UpdatePut, UpdateUnregister, Register for
UpdateScheduledJob; DeleteUnregister, DeleteRow for DeleteScheduledJob. A statement can
fail (StatementFails), and the process can end at any point and start again, with
`loadScheduledJobs` (Start), whose list of rows can fail too. `Schedules` are what
`cron.ParseStandard` accepts when the job is saved, `Registrable` the ones among them that
`AddFunc`, whose parser has a field for seconds, accepts as well. `gone` and `disturbed` are
history: deletions reported as successful, and jobs whose requests have overlapped or
failed since the last start.

What an entry does when it fires is EnqCreate of `JobScheduler`. Names, payloads, priorities
and the last-run columns are left out.

| Run | Instance | Shows |
|---|---|---|
| `cron_registry` | 2 jobs, 2 clients, 3 schedules (one not registrable), 4 requests, 1 failed statement, 1 start | TypeOK, EntriesTracked, RegistryAgrees |

Four requests are a creation, and three more that overlap in pairs on its job or work on
the other. Deadlock is not checked, because the model stops when its requests are used
up. One run is expected to fail (`findings`): `deleted_is_not_fired`, where an update
re-registers a job that a delete has removed. For the same reason two overlapping updates
can leave an enabled row without an entry, which is why `RegistryAgrees` excepts the jobs
in `disturbed`. A deletion whose DELETE fails has already removed the cron entry: its caller
gets an error, and the enabled row is without an entry until the next start.

## AgentRegistry and Gateway

### State and actions

`agents` and `hostIndex` are the two maps of the gateway, under `s.mu`. Its handlers change
them in one step and write `hosts.status` in another one, since they write after they
unlock; the write a handler owes is `owed`, and NATS runs the handlers of one subscription
one after the other, so there is at most one per subscription. `late` counts the offline
writes that are executed whenever they like: those that `cleanupStaleAgents` started as
goroutines, and, after a restart, those of the host service, whose `initializeConnections`
fails to connect to an agent's host and marks it offline (`InitializeConnections`). Time is
two bits: `seen` (a connection's LastSeen is within the heartbeat timeout) and `lastSeen`
(the row's is within the threshold of the host service's health check, which sets hosts
offline too). An agent has a process, a link to NATS and a configured token, which names
its host; AgentStart may give it another one. Registrations, heartbeats and deregistrations
are messages that are delivered late or never. The gateway may restart at any time, with
empty maps.

`Gateway` adds the commands: Lookup, Panic, Publish, and the ways SendCommand returns
(answered, timed out, canceled, an error, aborted by a restart); the agent's subscription
(`inbox`), its handler, which executes one command at a time (`busy`), and the results on
their way (`outbox`). Commands are core NATS messages: with no subscriber they are gone.

Left out: the inventory and events (no state of the gateway depends on them),
SendCommandAsync (no caller), the host service's Reconnect, a second DisconnectAgent request
for an agent while one waits, and what commands do to Docker.

### Runs

| Run | Instance | Shows |
|---|---|---|
| `agent_registry` | 1 agent that starts twice, 1 lost link, 1 disconnection, 1 failed write, restarts | ConnectedIsOnline, GoneIsNotOnline, TypeOKRegistry |
| `gateway` | 2 agents, 2 hosts, 1 command; 2 registrations and 1 mishap (`FewEvents`) | AtMostOnceCall (the refinement of `RemoteCall`), AgentsAreIndexed, IndexIsLiveOtherwise, RunsOnItsHost, TypeOK |

Two agents and two hosts are what replacement needs: an agent that takes over a host, and
one that moves. Commands do not share state, so that one is enough. `gateway` uses a view
without `hosts.status` and `last_seen_at`, which steer nothing but whether an offline write is
owed, and such a write may never be executed; and symmetry. `RunsOnItsHost` excepts the agents
that have moved: a command looked up before the move runs on the agent's new host. The status properties are liveness properties and are checked for one agent,
without symmetry: every status write is about one host.

`RemoteCall` is the promise of SendCommand: a command runs at most once; a result is
returned only for one that ran; a refused one never runs; one the caller gave up on may
still run. `Phase` maps the ways SendCommand stands or returned to its phases (timeouts,
cancellations and restarts are "unknown", errors before the publication "refused").

### Fairness

Handlers that were begun are finished, messages are handled (strongly fair: handlers of one
subscription alternate, and NATS keeps the order of a subscription, so no message is passed
over for ever), the clean-up and the health check run again and again, a connected agent
goes on sending heartbeats, and time passes for the connection of one that has gone and for
`last_seen_at`. Nothing is assumed of starts, crashes, losses,
disconnections and restarts: the properties speak of agents that in the end stay
connected, or stay gone.

Two consequences have no run. DisconnectAgent deletes the connection and leaves the host's
index entry, unlike the other handlers: until the agent registers again, GetAgentByHost answers
a nil connection and true, which SendCommand dereferences (`Panic`). `IndexIsLiveOtherwise`
says that only this request and a moved agent do that. And after a restart of the gateway, and after a clean-up that came
too early, an agent's heartbeats are those of an unknown agent and only logged, so that the
host stays offline until the agent's own link to NATS breaks.

## AcmeOrder

One order: its row (`order`), the records at the provider (`upstream`), the rows of
`dns_records` (`rows`), and up to two requests at a time, of ProcessOrder, MarkOrderCompleted
and FailOrder; the resumption on boot processes the order like a request. Each has a `copy` of
the order and writes all of its columns back. Every SQL statement and every provider call is
a step; a statement can fail (`fault`), a provider call can fail with the record left behind
(`lost`), the process can crash. The foreign key of `record_id` is `Dangling`. Orders share no
state, so that one is enough; a DNS record that a user deletes by hand is left out.

| Run | Instance | Shows |
|---|---|---|
| `acme_order` | 2 requests at a time, 3 records, 2 look-ups, 1 crash, 1 failed statement, 1 lost call | LeakPerFailure, CompletedIsClean, TerminalIsFinal, Settles, TypeOK |
| `completion_is_accepted` | the same | expected to fail: the update that completes the order has the ID of a deleted row |

Three records are one more than one crash and one lost call can leave behind. Fairness: a
request runs to its end, and somebody processes the order again while no request is in
flight (its owner polls, as ProcessOrder's result asks for). Deadlock is not checked: a
finished order may be left alone.

Consequences without a run: a failed update at acme.go:233, or a crash before it, leaves a
row that the order does not refer to, and the next request creates a second TXT record;
overlapping requests can revive a finished order, since Update has no version
(`TerminalIsFinal` excepts them by `tangled`).

## ContainerUpdate

`box` is Docker: containers by ID, with a unique name, an image and whether they run. A
request is a call of UpdateContainer or RollbackUpdate with a place `pc` in the list of
steps and what it has read (`job`). Each call to Docker is a `Call`: it succeeds, fails
without effect (`refused`), has its effect and is reported as failed (`lost`), or is
impossible, or the context of the request has ended (`canceled`). Forward: prepare (scan,
backup, pull; for a rollback the restore of the backup, `Restore`, whose error is only logged),
inspect, stop, rename, create, start, health, remove, record; the compensations undo them from
the step that failed. The semaphore bounds updates and is not about a container, so that
requests may overlap. RollbackUpdate runs the same steps without a compensation for the
first two. A crash ends every request; nothing is resumed. The new container is created with
the HostConfig of the old one, so that when the service publishes ports (`published`, fixed from
the start) Docker refuses to start a container while another one runs (`Startable`); this is no
mishap.

| Run | Instance | Shows |
|---|---|---|
| `container_update` | 3 requests, 2 versions, 2 slots, with and without published ports; 2 mishaps or 2 overlaps or one of each, 1 rollback, 1 stray request (`FewMishaps`) | ServiceSurvives, NeverTwoRun, OverlapKeepsOneUp, OneOverlapKeepsOneUp, LeftoverPerMishap, TypeOK |
| `rollback_restores` | 2 requests one after the other, no mishap | expected to fail: RollbackUpdate inspects the container that the update removed |

`used` counts the events of each kind. `hurt` is how many mishaps have been met since the
requests now being served began: none, one, or more. The first one is forgotten when a
request begins and no other is being served; a second one never is. The properties about
requests one after the other say `hurt < 2`: each request may meet one mishap, not only
the first.

Two requests are an update and another one that finds what it left; the third is for
overlaps in which an update ends and one begins while another is still being undone. With two
overlaps only a sick container is a mishap, and with one there is one other mishap at most,
which keeps the run small. Deadlock is not checked: requests are used up.

`rollback_restores` is a finding: RollbackUpdate (service.go:711, "rolls back a completed
update") works on `TargetID`, which the update has removed, and fails at the inspection (754).

The properties bound what can go wrong; these consequences of the code are not promised
otherwise and have no run:

* With published ports an overlap can leave nothing running. One request replaces the first
  container, a second one replaces the new container; the first finds its own stopped, removes
  it and starts the old one, which Docker refuses since the second's holds the port; if that is
  then found sick, or if a third request replaces and removes it, the container it would go
  back to is gone. `OverlapKeepsOneUp` is therefore stated for containers without published
  ports, where the old one does start; `OneOverlapKeepsOneUp` is what is left with them: two
  requests and no mishap.
* When the removal of the old container has failed, RollbackUpdate recreates the stopped
  backup container beside the service and reports success.
* Without published ports two overlapping updates of one container can leave both the old and
  a new one running, and so can two mishaps in one request, or one call that had its effect and
  was reported as failed, followed by another update.
* An update runs in the context of the HTTP request: when the client goes away the
  compensations fail as well as the write of the row, and the service stays stopped
  (`LeftoverPerMishap` counts containers, whether they run or not).
* A crash leaves a stopped container under a backup name and a row in an active state that
  no code looks for.
* The ID that a webhook stores is stale after the first update of its container.

Left out: the containers that the restore of a backup may stop and start (an update's backup is
of type volume, update_adapters.go:29-33, for which it moves none), the search for updates,
policies, webhooks, statistics, the image that is pulled under a tag, and callers that pass a
container's name instead of its ID (models/update.go:68 says ID; with a name, step 10 would
remove the new container).

## Proofs

`JobScheduler_proofs` is about any sets of jobs, workers and clients and any bounds.

* `TypeCorrect`: `Spec => []TypeOK`. The inductive invariant adds `JobAtHand`: a
  goroutine in the middle of an operation has a job, without which the actions would
  index Redis with no job.
* `NoJobIsLost`: `Spec => []NoLostJob`. The argument is job by job. `Safe(j)` says that an
  unfinished, not canceled job is in a queue, in the channel or in the hands of a thread
  that is `Responsible` for it. Every step of a thread frames the other threads
  (`Frame`), so a job can only become unsafe by what the step itself does (`KeepSafe`),
  and where it does something it makes the job safe again (`NowSafe`). Three facts
  support this (`Support`): a worker that has not reported yet is in its first callback
  round, so that its report of a failure will be followed by a second one; `CancelJob`
  removes only what it marked; and the scheduler has not been stopped. `NoLostJob` speaks
  of behaviours without failed commands, crashes, expired keys and shutdowns (`Calm`), which
  is an assumption that, once broken, stays broken (`CalmBefore`).

* `CancelReachesItsJob`: `Spec => []CancelFnsOwned`. All steps but Register, Unregister and a
  new process leave `cancelFns` alone and keep a registered worker with its job
  (`Undisturbed`). The invariant adds that a worker is always at a worker's label
  (`Owned`): a failed command then never sends it back to its idle loop past the deferred
  delete.

`JobScheduler_life` is about the same instances and looks at one job at a time. A step is either
about another job, which it shows not to matter (`Foreign`), or one of about ten kinds of step
on this job (of a client, of Fail, of a requeue, of a worker, of the recoverer, ...), and each
invariant has one lemma per kind. The type invariant is strengthened by what a goroutine has
in its locals at each label (`Ground`).

* `EntriesHaveData`: `Spec => []EntryHasData`, as long as no key outlives its TTL, for the jobs
  that are not `unanswered`. `Entry(j)` adds that a goroutine about to add an entry has the key
  in place, and that while EnqueueJob writes the key, which it deletes again when its ZADD
  fails, nobody else has an entry or is about to add one, unless that ZADD was the one that
  took its effect unanswered. It holds through any command that fails, with or without effect,
  any crash and any cancellation.
* `LeasedInPool`: `Spec => []LeasedWhileInPool`, without failed commands and leases that expire under
  their holder, and with any crash. That a lease is there follows from who may
  remove it, so that `SoleInv` says that a job is in one place only (`Exclusive`: in a queue, in
  the channel once, or with one owner), that the owner has the lease (`Leased`), and that the data
  key does not say failed before the first of the two reports, so that this one does not requeue
  the job under the worker that will report it again (`FirstReport`).
* `CompletedStaysCompleted`: `Spec => CompletedIsFinal`, an action property. `StageInv` gives the
  status that the data key, and the copy in a goroutine's hands, has at each label (`Stage`).
  The SETs that could bring a job back are those of a goroutine with a copy from before the
  completion, and there is none.
* `TableAgreesOnCompleted`: `Spec => []DbAgreesOnCompleted`, with where the two reports of an
  execution are and what the row then says (`DbStage`).
* `FailedAfterAllAttempts`: `Spec => []FailedOnlyWhenExhausted`, for any number of jobs and any
  size of the channel. `Spent(j)` relates the attempts in the data key to the executions at each
  place the job can be. A refusal ends a job with an attempt that was not an execution
  (`Turned`, `SpentRefusal`), after which nothing brings it back (`Buried`), so that it was
  executed less than MaxAttempts times; every other job that has failed was executed exactly
  that often.
* `ExecutionsWithinBudget`: `Spec => []RetryBudget`. `Budget(j)` bounds the executions by the
  attempts in the data key, and those by `Limit`: MaxAttempts, and one for each crash and each
  shutdown that was followed by a new process.

`CronRegistry_proofs` is about any finite set of jobs, any clients and schedules and any
bounds.

* `CronTypeCorrect`, `NoEntryEscapes`, `RegistryStaysInAgreement`: `TypeOK`, `EntriesTracked`
  and `RegistryAgrees` hold always. `CronInv` is the inductive invariant. Beside the three
  properties it says that the library's numbers are fresh (`Numbered`: an entry, live or
  still in the map, is below `nextEntry`, without which a stale number in the map could
  remove another job's entry), that a job outside `disturbed` has at most one client
  (`Solo`), and what that client has done so far (`Progress`: how row, copy and entry relate
  at each of its steps).

`AgentRegistry_proofs` and `Gateway_proofs` are about any finite sets of agents and hosts and any
commands and bounds.

* `RegistryTypeCorrect`, `ConnectionsStayIndexed`, `IndexStaysLive`. The inductive invariant
  `IndexInv` adds `TokensHold` (registrations, connections and index entries are about the
  host of the agent's token, as long as none moved), without which a replaced agent's
  removal could take the entry of another host, and `NotClosing`.
* `GatewayTypeCorrect`, `CommandsRunOnTheirHost` (with `HostInv`: the connection that was looked
  up belongs to the command's host), and `CallsAreAtMostOnce`, the refinement. `CallInv` says
  of a command that it has not been started while it is in the subscription of the agent it was
  sent to (`Waits`), has been once it is executed or has a result (`Started`), has not been when
  it was never published (`Unsent`), and is counted once and on that agent (`Counted`); steps of the registry are stutters of
  `RemoteCall`, except the restart, which gives up on all calls at once.

`AcmeOrder_proofs` is about any finite sets of requests and records and any bounds.

* `AcmeTypeCorrect`: the count of look-ups stays below its limit, for which the invariant
  knows the state of each copy at each step (`Fresh`, `Staged`) and who holds a record
  (`Holding`).
* `LeaksAreCounted`: with `Known` (a row is deleted only after its record) a step that neither
  crashes nor loses a call leaves `Leaked` as it is or smaller, and a crash adds at most one
  record per request.
* `FinalStatesStay` (with `Alone`: requests that have not overlapped are one at a time, and a
  finished order has none) and `CompletedOrdersAreClean` (with `QuietInv`: what is kept at each
  step of the one request in flight).

`ContainerUpdate_proofs` is about any requests, versions and bounds.

* `UpdateTypeCorrect`: `JobsKnown` adds that a request in flight has a job, and so has the one
  whose row it writes.
* `NewAndOldNeverTogether`: `NeverTwoRun` says nothing of who may start next, so `SagaInv` shows
  instead that whatever runs has the service's name, and names are unique. The rest is what
  the one request in flight may rely on at its place (`PlaceInv`): after the rename the name is
  free, after the creation the new container alone has it, and while steps are taken back the
  request's one mishap has happened, so that no further call fails unless the context has
  ended, and then the old container is not started at all. It is enough that each request
  meets one mishap at most, since the next one starts from a state in which one container,
  or none, runs.
* `AnsweredServiceRuns`: `Spec => []ServiceSurvives`, with and without published ports: where a
  single request starts a container nothing else runs (`StartableFacts`). `SurviveInv` adds where the promised
  version is while a request is served (`Hold`): the service runs, or the old container is kept
  under its backup name and image, with the calls that bring it back still ahead, or the new
  one runs and is the one that will be promised.
* `OverlapLeavesOneUp`: `Spec => []OverlapKeepsOneUp`, for containers without published ports and
  requests that meet no mishap. With overlaps nothing can be said of
  names. A container is `Solid` when it is the first one or was seen healthy. A solid one is
  removed only by a request that makes another solid one (`Replaced`), and is down only
  while a request that will start it again, or remove it, is at work (`Awaited`). Containers
  are replaced by newer ones (`Newest`: in any set of them one is not the target of another),
  so that the newest solid container is there and, when no request is served, up.
* `LeftoversAreCharged`: `Spec => []LeftoverPerMishap`. Containers and requests that may still
  create one (`Load`) are compared with the mishaps (`Charged`). A step may add to the load one
  more than it is charged only in a state in which each request will remove what it creates
  unless it meets a mishap (`AllCalm`).

Assumptions: `ThreadsDistinct`, `BoundsAssumption`, `CronAssumption`, `RegistryAssumption`,
`CmdAssumption`, `AcmeAssumption` (at least one look-up, the default of service.go:169) and
`UpdateAssumption`: finite sets, special values that are distinct from the others, bounds that
are numbers. TLC evaluates them in every run.

Only model-checked: the liveness properties EveryJobFinishes, ConnectedIsOnline,
GoneIsNotOnline and Settles, which are beyond the proof system (fairness and ENABLED), and
OneOverlapKeepsOneUp, whose argument is a case analysis of two requests that TLC does. Every
other property of a passing run is the statement of a theorem. The runs that find a violation
are counterexamples and need no proof.

## Not modelled

See the components of `PROJECT.json`. Most of the repository's lines are the user interface,
HTTP handlers, SQL, generated templates, and thin layers over Docker, SSH and external
tools; they keep no state of their own and there is nothing in them to interleave. The Redis
lock, the change feed with the automated rollback, and a second worker pool are not called
from anywhere. Candidates for further modules are named under "Modules".
