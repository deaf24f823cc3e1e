----------------------------- MODULE JobScheduler -----------------------------
(***************************************************************************)
(* The background-job system: the Redis queue (internal/scheduler/         *)
(* queue.go), the worker pool (internal/scheduler/workers/pool.go), the    *)
(* jobs table of Postgres and the scheduler that drives them               *)
(* (internal/scheduler/scheduler.go).                                      *)
(*                                                                         *)
(* A thread is a goroutine: an API client, the queue processor (Poller),   *)
(* the recovery processor (Recoverer) or a pool worker.  Every Redis       *)
(* command and every SQL statement is one step, because nothing in the     *)
(* code makes two of them atomic (the one exception is the Lua script of   *)
(* atomicMoveToRunning).                                                   *)
(***************************************************************************)
EXTENDS Naturals, Sequences, FiniteSets

CONSTANTS
    Jobs,          \* job IDs (uuid.New: an ID is used once)
    Workers,       \* pool goroutines (PoolConfig.Size)
    Clients,       \* goroutines that call EnqueueJob, CancelJob, DeleteJob
    Poller,        \* the goroutine of queueProcessor
    Recoverer,     \* the goroutine of recoveryProcessor
    Nobody,        \* no job, no worker
    MaxAttempts,   \* Job.MaxAttempts
    ChanCap,       \* capacity of Pool.jobChan
    HasRepo,       \* whether the scheduler has a repository (the jobs table)
    FailingJobs,   \* jobs whose worker may return an error of its own
    MaxExecs,      \* bound of the count of executions kept per job (it saturates)
    MaxUses        \* bound on each kind of environment event, see Kinds

\* The environment events that are bounded: a failed Redis or SQL command,
\* a crash of the process, a lease that expires under a live holder, a data
\* key that outlives its TTL, a call of CancelJob, of DeleteJob, of Stop.
Kinds == {"fault", "crash", "lease", "ttl", "cancel", "delete", "stop"}

Threads == Workers \cup Clients \cup {Poller, Recoverer}

ASSUME ThreadsDistinct ==
    /\ Workers \cap Clients = {}
    /\ Poller \notin Workers \cup Clients
    /\ Recoverer \notin Workers \cup Clients
    /\ Poller # Recoverer
    /\ Nobody \notin Jobs \cup Workers

ASSUME BoundsAssumption ==
    /\ MaxAttempts \in Nat \ {0}
    /\ ChanCap \in Nat \ {0}
    /\ HasRepo \in BOOLEAN
    /\ FailingJobs \subseteq Jobs
    /\ MaxUses \in [Kinds -> Nat]
    /\ MaxExecs \in Nat /\ MaxExecs > MaxAttempts + MaxUses["crash"] + MaxUses["stop"]

VARIABLES
    \* Redis: the job data keys, the priority queues, the running set (the
    \* leases) and the dead letter set.
    data, queue, running, dead,
    \* Postgres: the jobs table.
    db,
    \* The pool: its channel, its cancel functions, the job contexts, and how
    \* far Scheduler.Stop has gone.
    jobChan, cancelFns, ctx, phase,
    \* The goroutines: program counter, job at hand, copy of the job read from
    \* Redis or Postgres, the worker's callback round and outcome, and the
    \* stale jobs the recoverer has listed.
    pc, job, snap, round, outcome, stale,
    \* History: unused IDs, environment events so far, executions per job,
    \* jobs whose data CancelJob overwrote, jobs whose CancelJob returned nil,
    \* jobs the pool refused, jobs whose ZADD by Enqueue took effect unanswered.
    fresh, used, execs, canceled, acked, refused, unanswered

redis == <<data, queue, running, dead>>
pool == <<jobChan, cancelFns, ctx, phase>>
callback == <<round, outcome>>
history == <<fresh, used, execs, canceled, acked, refused, unanswered>>
vars == <<data, queue, running, dead, db, jobChan, cancelFns, ctx, phase,
          pc, job, snap, round, outcome, stale,
          fresh, used, execs, canceled, acked, refused, unanswered>>

-------------------------------------------------------------------------------
(* Job records *)

Unfinished == {"pending", "running", "retrying"}
Finished == {"completed", "failed", "canceled"}
JobRecord == [status : Unfinished \cup Finished \cup {"absent"}, attempts : Nat]
Absent == [status |-> "absent", attempts |-> 0]

IsFinished(r) == r.status \in Finished
\* Mutant of CanRetry: one attempt too many.
CanRetryOnceMore(r) == r.status = "failed" /\ r.attempts <= MaxAttempts

CanRetry(r) == r.status = "failed" /\ r.attempts < MaxAttempts

WithStatus(r, s) == [status |-> s, attempts |-> r.attempts]

-------------------------------------------------------------------------------
(* Control *)

FailLabels == {"fail_get", "fail_set", "fail_rem", "fail_add"}
RequeueLabels == {"req_get", "req_rem", "req_set", "req_add"}
ClientLabels == {"idle", "enq_set", "enq_add", "enq_del", "can_get", "can_set",
                 "can_remq", "can_remr", "can_dbget", "can_dbput"}
PollerLabels == {"idle", "deq", "deq_get", "deq_set", "submit", "exited"}
                    \cup FailLabels \cup RequeueLabels
RecovererLabels == {"idle", "rec", "exited"} \cup RequeueLabels
WorkerLabels == {"idle", "register", "exec", "comp_get", "comp_set", "comp_rem",
                 "db_get", "db_put", "unreg", "exited"} \cup FailLabels
Labels == ClientLabels \cup PollerLabels \cup RecovererLabels \cup WorkerLabels

At(t, l) == pc[t] = l
Goto(t, l) == pc' = [pc EXCEPT ![t] = l]
\* The caller of queue.Fail and of queue.requeueJob continues here.
AfterFail(t) == IF t \in Workers THEN "db_get" ELSE "deq"
AfterRequeue(t) == IF t = Poller THEN "deq" ELSE "rec"

Spend(k) == used[k] < MaxUses[k] /\ used' = [used EXCEPT ![k] = @ + 1]

\* GetJob, and the jobs table's Get: copy the record the thread reads.
Read(t, r) == snap' = [snap EXCEPT ![t] = r]
\* A queue operation returns to its caller, which drops its copy of the job (a
\* worker still holds the job itself).
Return(t, l) ==
    /\ Goto(t, l)
    /\ job' = [job EXCEPT ![t] = IF t \in Workers THEN @ ELSE Nobody]
    /\ Read(t, Absent)

\* Nobody in this process is working on j.
Idle(j) == /\ \A t \in Threads : job[t] # j
           /\ \A i \in 1..Len(jobChan) : jobChan[i] # j

Init ==
    /\ data = [j \in Jobs |-> Absent]
    /\ queue = [j \in Jobs |-> "out"]
    /\ running = [j \in Jobs |-> "out"]
    /\ dead = {}
    /\ db = [j \in Jobs |-> Absent]
    /\ jobChan = <<>>
    /\ cancelFns = [j \in Jobs |-> Nobody]
    /\ ctx = [w \in Workers |-> "live"]
    /\ phase = "running"
    /\ pc = [t \in Threads |-> "idle"]
    /\ job = [t \in Threads |-> Nobody]
    /\ snap = [t \in Threads |-> Absent]
    /\ round = [w \in Workers |-> 1]
    /\ outcome = [w \in Workers |-> "ok"]
    /\ stale = {}
    /\ fresh = Jobs
    /\ used = [k \in Kinds |-> 0]
    /\ execs = [j \in Jobs |-> 0]
    /\ canceled = {}
    /\ acked = {}
    /\ refused = {}
    /\ unanswered = {}

-------------------------------------------------------------------------------
(* API clients *)

\* EnqueueJob up to repo.Create.  Without a repository the job has no row, and
\* whatever looks for one finds none.
EnqCreate(c, j) ==
    /\ At(c, "idle") /\ j \in fresh
    /\ fresh' = fresh \ {j}
    /\ db' = IF HasRepo THEN [db EXCEPT ![j] = WithStatus(Absent, "pending")] ELSE db
    /\ job' = [job EXCEPT ![c] = j]
    /\ Goto(c, "enq_set")
    /\ UNCHANGED <<redis, pool, snap, callback, stale, used, execs, canceled, acked,
                   refused, unanswered>>

\* queue.Enqueue: SET of the data key, then ZADD to the priority queue, scored
\* now or at ScheduledAt.
EnqSet(c) ==
    /\ At(c, "enq_set")
    /\ data' = [data EXCEPT ![job[c]] = WithStatus(Absent, "pending")]
    /\ Goto(c, "enq_add")
    /\ UNCHANGED <<queue, running, dead, db, pool, job, snap, callback, stale, history>>

EnqAdd(c) ==
    /\ At(c, "enq_add")
    /\ \E q \in {"ready", "delayed"} : queue' = [queue EXCEPT ![job[c]] = q]
    /\ Return(c, "idle")
    /\ UNCHANGED <<data, running, dead, db, pool, callback, stale, history>>

\* After a failed ZADD Enqueue deletes the data key again and returns the error.
EnqDel(c) ==
    /\ At(c, "enq_del")
    /\ data' = [data EXCEPT ![job[c]] = Absent]
    /\ Return(c, "idle")
    /\ UNCHANGED <<queue, running, dead, db, pool, callback, stale, history>>

\* CancelJob: pool.CancelJob calls the registered cancel function, if any.
CancelInPool(c, j) ==
    /\ At(c, "idle") /\ j \notin fresh
    /\ Spend("cancel")
    /\ ctx' = [w \in Workers |-> IF cancelFns[j] = w THEN "canceled" ELSE ctx[w]]
    /\ job' = [job EXCEPT ![c] = j]
    /\ Goto(c, "can_get")
    /\ UNCHANGED <<redis, db, jobChan, cancelFns, phase, snap, callback, stale,
                   fresh, execs, canceled, acked, refused, unanswered>>

\* queue.Cancel refuses a job that is unknown or finished.
CancelGet(c) ==
    /\ At(c, "can_get")
    /\ IF data[job[c]] = Absent \/ IsFinished(data[job[c]])
       THEN Return(c, "idle")
       ELSE Goto(c, "can_set") /\ Read(c, data[job[c]]) /\ UNCHANGED job
    /\ UNCHANGED <<redis, db, pool, callback, stale, history>>

CancelSet(c) ==
    /\ At(c, "can_set")
    /\ data' = [data EXCEPT ![job[c]] = WithStatus(snap[c], "canceled")]
    /\ canceled' = canceled \cup {job[c]}
    /\ Goto(c, "can_remq")
    /\ UNCHANGED <<queue, running, dead, db, pool, job, snap, callback, stale,
                   fresh, used, execs, acked, refused, unanswered>>

\* removeFromAllQueues: the priority queues, then the running set.
CancelRemQueue(c) ==
    /\ At(c, "can_remq")
    /\ queue' = [queue EXCEPT ![job[c]] = "out"]
    /\ Goto(c, "can_remr")
    /\ UNCHANGED <<data, running, dead, db, pool, job, snap, callback, stale, history>>

CancelRemRunning(c) ==
    /\ At(c, "can_remr")
    /\ running' = [running EXCEPT ![job[c]] = "out"]
    /\ Goto(c, "can_dbget")
    /\ UNCHANGED <<data, queue, dead, db, pool, job, snap, callback, stale, history>>

\* CancelJob's repo.Get and repo.Update, and its return of nil.
CancelDbGet(c) ==
    /\ At(c, "can_dbget")
    /\ Goto(c, "can_dbput") /\ Read(c, db[job[c]])
    /\ UNCHANGED <<redis, db, pool, job, callback, stale, history>>

\* UPDATE ... WHERE id changes nothing when the row is gone.
DbUpdate(j, r) ==
    db' = [db EXCEPT ![j] = IF @ = Absent THEN @ ELSE r]

CancelDbPut(c) ==
    /\ At(c, "can_dbput")
    /\ IF snap[c] = Absent
       THEN UNCHANGED db
       ELSE DbUpdate(job[c], WithStatus(snap[c], "canceled"))
    /\ acked' = acked \cup {job[c]}
    /\ Return(c, "idle")
    /\ UNCHANGED <<redis, pool, callback, stale, fresh, used, execs, canceled,
                   refused, unanswered>>

\* DeleteJob: DELETE FROM jobs, whatever the job's status.
DeleteJob(j) ==
    /\ db[j] # Absent
    /\ Spend("delete")
    /\ db' = [db EXCEPT ![j] = Absent]
    /\ UNCHANGED <<redis, pool, pc, job, snap, callback, stale,
                   fresh, execs, canceled, acked, refused, unanswered>>

-------------------------------------------------------------------------------
(* queue.Fail and queue.requeueJob, called by several threads *)

FailGet(t) ==
    /\ At(t, "fail_get")
    /\ IF data[job[t]] = Absent
       THEN Return(t, AfterFail(t))
       ELSE Goto(t, "fail_set") /\ Read(t, data[job[t]]) /\ UNCHANGED job
    /\ UNCHANGED <<redis, db, pool, callback, stale, history>>

FailSet(t) ==
    /\ At(t, "fail_set")
    /\ LET r == WithStatus(snap[t], IF CanRetry(snap[t]) THEN "retrying" ELSE "failed")
       IN  data' = [data EXCEPT ![job[t]] = r] /\ Read(t, r)
    /\ Goto(t, "fail_rem")
    /\ UNCHANGED <<queue, running, dead, db, pool, job, callback, stale, history>>

\* Mutant of FailRem: removeFromAllQueues instead of the running set alone.
FailRemEverywhere(t) ==
    /\ At(t, "fail_rem")
    /\ running' = [running EXCEPT ![job[t]] = "out"]
    /\ queue' = [queue EXCEPT ![job[t]] = "out"]
    /\ Goto(t, "fail_add")
    /\ UNCHANGED <<data, dead, db, pool, job, snap, callback, stale, history>>

FailRem(t) ==
    /\ At(t, "fail_rem")
    /\ running' = [running EXCEPT ![job[t]] = "out"]
    /\ Goto(t, "fail_add")
    /\ UNCHANGED <<data, queue, dead, db, pool, job, snap, callback, stale, history>>

\* Mutant of FailAdd: a retry is marked but not put back into its queue.
FailAddForgets(t) ==
    /\ At(t, "fail_add")
    /\ IF snap[t].status = "retrying"
       THEN UNCHANGED <<queue, dead>>
       ELSE dead' = dead \cup {job[t]} /\ UNCHANGED queue
    /\ Return(t, AfterFail(t))
    /\ UNCHANGED <<data, running, db, pool, callback, stale, history>>

\* The backoff delay, or the dead letter set.
FailAdd(t) ==
    /\ At(t, "fail_add")
    /\ IF snap[t].status = "retrying"
       THEN queue' = [queue EXCEPT ![job[t]] = "delayed"] /\ UNCHANGED dead
       ELSE dead' = dead \cup {job[t]} /\ UNCHANGED queue
    /\ Return(t, AfterFail(t))
    /\ UNCHANGED <<data, running, db, pool, callback, stale, history>>

RequeueGet(t) ==
    /\ At(t, "req_get")
    /\ IF data[job[t]] = Absent
       THEN Return(t, AfterRequeue(t))
       ELSE Goto(t, "req_rem") /\ Read(t, data[job[t]]) /\ UNCHANGED job
    /\ UNCHANGED <<redis, db, pool, callback, stale, history>>

RequeueRem(t) ==
    /\ At(t, "req_rem")
    /\ running' = [running EXCEPT ![job[t]] = "out"]
    /\ Goto(t, "req_set")
    /\ UNCHANGED <<data, queue, dead, db, pool, job, snap, callback, stale, history>>

RequeueSet(t) ==
    /\ At(t, "req_set")
    /\ data' = [data EXCEPT ![job[t]] = WithStatus(snap[t], "pending")]
    /\ Goto(t, "req_add")
    /\ UNCHANGED <<queue, running, dead, db, pool, job, snap, callback, stale, history>>

RequeueAdd(t) ==
    /\ At(t, "req_add")
    /\ queue' = [queue EXCEPT ![job[t]] = "ready"]
    /\ Return(t, AfterRequeue(t))
    /\ UNCHANGED <<data, running, dead, db, pool, callback, stale, history>>

-------------------------------------------------------------------------------
(* The queue processor *)

\* queueProcessor: a tick, or the closed stopCh (select takes either).
PollTick ==
    /\ At(Poller, "idle") /\ Goto(Poller, "deq")
    /\ UNCHANGED <<redis, db, pool, job, snap, callback, stale, history>>

PollExit ==
    /\ At(Poller, "idle") /\ phase # "running"
    /\ Goto(Poller, "exited")
    /\ UNCHANGED <<redis, db, pool, job, snap, callback, stale, history>>

\* Dequeue: atomicMoveToRunning of a ready job.  The priority of a job decides
\* which of two ready jobs goes first; here either may.
DeqMove(j) ==
    /\ At(Poller, "deq") /\ queue[j] = "ready"
    /\ queue' = [queue EXCEPT ![j] = "out"]
    /\ running' = [running EXCEPT ![j] = "fresh"]
    /\ job' = [job EXCEPT ![Poller] = j]
    /\ Goto(Poller, "deq_get")
    /\ UNCHANGED <<data, dead, db, pool, snap, callback, stale, history>>

\* No job is ready: processQueue returns.
DeqNone ==
    /\ At(Poller, "deq") /\ \A j \in Jobs : queue[j] # "ready"
    /\ Goto(Poller, "idle")
    /\ UNCHANGED <<redis, db, pool, job, snap, callback, stale, history>>

DeqGet ==
    /\ At(Poller, "deq_get")
    /\ Read(Poller, data[job[Poller]])
    /\ Goto(Poller, IF data[job[Poller]] = Absent THEN "req_get" ELSE "deq_set")
    /\ UNCHANGED <<redis, db, pool, job, callback, stale, history>>

DeqSet ==
    /\ At(Poller, "deq_set")
    /\ data' = [data EXCEPT ![job[Poller]] =
                   [status |-> "running", attempts |-> snap[Poller].attempts + 1]]
    /\ Goto(Poller, "submit")
    /\ UNCHANGED <<queue, running, dead, db, pool, job, snap, callback, stale, history>>

\* SubmitWithCallbacks never blocks: the pool takes the job, or it refuses it
\* (stopped, or jobChan full) and processQueue calls queue.Fail.
PoolAccepts == phase \in {"running", "closing"} /\ Len(jobChan) < ChanCap

Submit ==
    /\ At(Poller, "submit") /\ PoolAccepts
    /\ jobChan' = Append(jobChan, job[Poller])
    /\ Return(Poller, "deq")
    /\ UNCHANGED <<redis, db, cancelFns, ctx, phase, callback, stale, history>>

\* Mutant of SubmitRefused: a refusal is only logged.
SubmitRefusedLogged ==
    /\ At(Poller, "submit") /\ ~PoolAccepts
    /\ Return(Poller, "deq")
    /\ UNCHANGED <<redis, db, pool, callback, stale, history>>

SubmitRefused ==
    /\ At(Poller, "submit") /\ ~PoolAccepts
    /\ refused' = refused \cup {job[Poller]}
    /\ Goto(Poller, "fail_get")
    /\ UNCHANGED <<redis, db, pool, job, snap, callback, stale,
                   fresh, used, execs, canceled, acked, unanswered>>

-------------------------------------------------------------------------------
(* Pool workers *)

WorkerExit(w) ==
    /\ At(w, "idle") /\ phase \in {"stopped", "canceled"}
    /\ Goto(w, "exited")
    /\ UNCHANGED <<redis, db, pool, job, snap, callback, stale, history>>

Take(w) ==
    /\ At(w, "idle") /\ jobChan # <<>>
    /\ job' = [job EXCEPT ![w] = Head(jobChan)]
    /\ jobChan' = Tail(jobChan)
    /\ Goto(w, "register")
    /\ UNCHANGED <<redis, db, cancelFns, ctx, phase, snap, callback, stale, history>>

\* processJob: a new context, its cancel function registered under the job's
\* ID, and the worker starts.
Register(w) ==
    /\ At(w, "register")
    /\ cancelFns' = [cancelFns EXCEPT ![job[w]] = w]
    /\ ctx' = [ctx EXCEPT ![w] = "live"]
    /\ execs' = [execs EXCEPT ![job[w]] = IF @ < MaxExecs THEN @ + 1 ELSE @]
    /\ Goto(w, "exec")
    /\ UNCHANGED <<redis, db, jobChan, phase, job, snap, callback, stale,
                   fresh, used, canceled, acked, refused, unanswered>>

\* Execute returns: nil, or an error of the job's own, or the context's.
FirstStep(o) == IF o = "ok" THEN "comp_get" ELSE "fail_get"

Execute(w, o) ==
    /\ At(w, "exec")
    /\ o = "err" => job[w] \in FailingJobs \/ ctx[w] = "canceled"
    /\ outcome' = [outcome EXCEPT ![w] = o]
    /\ Goto(w, FirstStep(o))
    /\ UNCHANGED <<redis, db, pool, job, snap, round, stale, history>>

\* handleComplete on success: queue.Complete.
CompleteGet(w) ==
    /\ At(w, "comp_get")
    /\ Read(w, data[job[w]])
    /\ Goto(w, IF data[job[w]] = Absent THEN "db_get" ELSE "comp_set")
    /\ UNCHANGED <<redis, db, pool, job, callback, stale, history>>

CompleteSet(w) ==
    /\ At(w, "comp_set")
    /\ data' = [data EXCEPT ![job[w]] = WithStatus(snap[w], "completed")]
    /\ Goto(w, "comp_rem")
    /\ UNCHANGED <<queue, running, dead, db, pool, job, snap, callback, stale, history>>

CompleteRem(w) ==
    /\ At(w, "comp_rem")
    /\ running' = [running EXCEPT ![job[w]] = "out"]
    /\ Goto(w, "db_get")
    /\ UNCHANGED <<data, queue, dead, db, pool, job, snap, callback, stale, history>>

\* Mutant of NextCallback: only one of the two callbacks is called.
NextCallbackOnce(w) ==
    /\ Goto(w, "unreg") /\ UNCHANGED round
    /\ Read(w, Absent)

\* Mutant of NextCallback: the second callback is given an error.
NextCallbackFails(w) ==
    /\ IF round[w] = 1
       THEN round' = [round EXCEPT ![w] = 2] /\ Goto(w, "fail_get")
       ELSE round' = [round EXCEPT ![w] = 1] /\ Goto(w, "unreg")
    /\ Read(w, Absent)

\* Mutant of NextCallback: the round is not reset for the worker's next job.
NextCallbackNoReset(w) ==
    /\ round' = [round EXCEPT ![w] = @ + 1]
    /\ Goto(w, IF round[w] = 1 THEN FirstStep(outcome[w]) ELSE "unreg")
    /\ Read(w, Absent)

\* handleCompletion calls the job's OnComplete and then the pool's onComplete.
\* Both are Scheduler.handleComplete: every execution is reported twice.
NextCallback(w) ==
    /\ IF round[w] = 1
       THEN round' = [round EXCEPT ![w] = 2] /\ Goto(w, FirstStep(outcome[w]))
       ELSE round' = [round EXCEPT ![w] = 1] /\ Goto(w, "unreg")
    /\ Read(w, Absent)

\* handleComplete's update of the jobs table.  The row's attempts stay 0: no
\* statement writes Redis's count into it.
DbGet(w) ==
    /\ At(w, "db_get")
    /\ IF db[job[w]] = Absent
       THEN NextCallback(w)
       ELSE Goto(w, "db_put") /\ Read(w, db[job[w]]) /\ UNCHANGED round
    /\ UNCHANGED <<redis, db, pool, job, outcome, stale, history>>

\* Mutant of ReportedStatus: a success leaves the status of the row alone.
ReportedErrorOnly(r, o) ==
    CASE o = "ok" -> r.status
      [] o = "err" /\ CanRetry(r) -> "retrying"
      [] OTHER -> "failed"

ReportedStatus(r, o) ==
    CASE o = "ok" -> "completed"
      [] o = "err" /\ CanRetry(r) -> "retrying"
      [] OTHER -> "failed"

DbPut(w) ==
    /\ At(w, "db_put")
    /\ DbUpdate(job[w], WithStatus(snap[w], ReportedStatus(snap[w], outcome[w])))
    /\ NextCallback(w)
    /\ UNCHANGED <<redis, pool, job, outcome, stale, history>>

\* Mutant of Unregister: the cancel function stays registered.
UnregisterForgets(w) ==
    /\ At(w, "unreg")
    /\ ctx' = [ctx EXCEPT ![w] = "live"]
    /\ outcome' = [outcome EXCEPT ![w] = "ok"]
    /\ job' = [job EXCEPT ![w] = Nobody]
    /\ Goto(w, "idle")
    /\ UNCHANGED <<redis, db, jobChan, cancelFns, phase, snap, round, stale, history>>

\* The deferred delete of processJob, by job ID whoever registered it.
Unregister(w) ==
    /\ At(w, "unreg")
    /\ cancelFns' = [cancelFns EXCEPT ![job[w]] = Nobody]
    /\ ctx' = [ctx EXCEPT ![w] = "live"]
    /\ outcome' = [outcome EXCEPT ![w] = "ok"]
    /\ job' = [job EXCEPT ![w] = Nobody]
    /\ Goto(w, "idle")
    /\ UNCHANGED <<redis, db, jobChan, phase, snap, round, stale, history>>

-------------------------------------------------------------------------------
(* The recovery and cleanup processors *)

\* Mutant of RecoverList: every lease counts as expired.
RecoverListAll ==
    /\ At(Recoverer, "idle")
    /\ stale' = {j \in Jobs : running[j] # "out"}
    /\ stale' # {}
    /\ Goto(Recoverer, "rec")
    /\ UNCHANGED <<redis, db, pool, job, snap, callback, history>>

\* RecoverStaleJobs lists the leases past their timeout and requeues each.  A
\* tick that finds none changes nothing.
RecoverList ==
    /\ At(Recoverer, "idle")
    /\ stale' = {j \in Jobs : running[j] = "stale"}
    /\ stale' # {}
    /\ Goto(Recoverer, "rec")
    /\ UNCHANGED <<redis, db, pool, job, snap, callback, history>>

RecoverNext(j) ==
    /\ At(Recoverer, "rec") /\ j \in stale
    /\ stale' = stale \ {j}
    /\ job' = [job EXCEPT ![Recoverer] = j]
    /\ Goto(Recoverer, "req_get")
    /\ UNCHANGED <<redis, db, pool, snap, callback, history>>

RecoverDone ==
    /\ At(Recoverer, "rec") /\ stale = {}
    /\ Goto(Recoverer, "idle")
    /\ UNCHANGED <<redis, db, pool, job, snap, callback, stale, history>>

RecoverExit ==
    /\ At(Recoverer, "idle") /\ phase # "running"
    /\ Goto(Recoverer, "exited")
    /\ UNCHANGED <<redis, db, pool, job, snap, callback, stale, history>>

\* CleanupDeadLetterQueue removes entries older than seven days, and their
\* data.  Backoff is at most an hour and a job at most half an hour, so after
\* seven days nobody works on the job any more: the two commands are one step.
Cleanup(j) ==
    /\ j \in dead /\ Idle(j) /\ queue[j] = "out" /\ running[j] = "out"
    /\ data' = [data EXCEPT ![j] = Absent]
    /\ dead' = dead \ {j}
    /\ UNCHANGED <<queue, running, db, pool, pc, job, snap, callback, stale, history>>

-------------------------------------------------------------------------------
(* Time *)

DelayElapses(j) ==
    /\ queue[j] = "delayed"
    /\ queue' = [queue EXCEPT ![j] = "ready"]
    /\ UNCHANGED <<data, running, dead, db, pool, pc, job, snap, callback, stale, history>>

\* The visibility timeout (5 min) passes.  MaxJobDuration is 30 min and no
\* worker can reach UpdateProgress, so a live holder does not stop the clock.
LeaseExpires(j) ==
    /\ running[j] = "fresh"
    /\ running' = [running EXCEPT ![j] = "stale"]
    /\ IF Idle(j) THEN UNCHANGED used ELSE Spend("lease")
    /\ UNCHANGED <<data, queue, dead, db, pool, pc, job, snap, callback, stale,
                   fresh, execs, canceled, acked, refused, unanswered>>

\* The TTL of the data key (24 h after its last SET, 7 days once dead).
DataExpires(j) ==
    /\ data[j] # Absent /\ Idle(j)
    /\ Spend("ttl")
    /\ data' = [data EXCEPT ![j] = Absent]
    /\ UNCHANGED <<queue, running, dead, db, pool, pc, job, snap, callback, stale,
                   fresh, execs, canceled, acked, refused, unanswered>>

-------------------------------------------------------------------------------
(* Shutdown, crash and failed commands *)

\* Scheduler.Stop closes stopCh ...
Stop ==
    /\ phase = "running" /\ Spend("stop")
    /\ phase' = "closing"
    /\ UNCHANGED <<redis, db, jobChan, cancelFns, ctx, pc, job, snap, callback,
                   stale, fresh, execs, canceled, acked, refused, unanswered>>

\* ... and stops the pool, ...
PoolStop ==
    /\ phase = "closing"
    /\ phase' = "stopped"
    /\ UNCHANGED <<redis, db, jobChan, cancelFns, ctx, pc, job, snap, callback,
                   stale, history>>

\* ... which, with the ShutdownTimeout of 0 that New leaves, cancels at once
\* every job that is registered.
CancelAllJobs ==
    /\ phase = "stopped"
    /\ phase' = "canceled"
    /\ ctx' = [w \in Workers |->
                  IF \E j \in Jobs : cancelFns[j] = w THEN "canceled" ELSE ctx[w]]
    /\ UNCHANGED <<redis, db, jobChan, cancelFns, pc, job, snap, callback, stale,
                   history>>

\* The process ends and starts again; Redis and Postgres keep their state.
NewProcess ==
    /\ jobChan' = <<>>
    /\ cancelFns' = [j \in Jobs |-> Nobody]
    /\ ctx' = [w \in Workers |-> "live"]
    /\ phase' = "running"
    /\ pc' = [t \in Threads |-> "idle"]
    /\ job' = [t \in Threads |-> Nobody]
    /\ snap' = [t \in Threads |-> Absent]
    /\ round' = [w \in Workers |-> 1]
    /\ outcome' = [w \in Workers |-> "ok"]
    /\ stale' = {}
    /\ UNCHANGED <<redis, db, fresh, execs, canceled, acked, refused, unanswered>>

Crash == Spend("crash") /\ NewProcess

\* After Stop: nothing waits for the workers.
Restart == phase = "canceled" /\ NewProcess /\ UNCHANGED used

\* Where a goroutine goes on after its Redis command has returned an error.
ErrorTarget(t) ==
    CASE pc[t] \in {"enq_set", "enq_del", "can_get", "can_set", "deq"} -> "idle"
      [] pc[t] \in {"fail_get", "fail_set", "fail_add"} -> AfterFail(t)
      [] pc[t] \in {"req_get", "req_set", "req_add"} -> AfterRequeue(t)
      [] pc[t] = "enq_add" -> "enq_del"
      [] pc[t] = "deq_get" -> "req_get"
      [] pc[t] = "deq_set" -> "submit"
      [] pc[t] = "fail_rem" -> "fail_add"
      [] pc[t] = "req_rem" -> "req_set"
      [] pc[t] = "can_remq" -> "can_remr"
      [] pc[t] = "can_remr" -> "can_dbget"
      [] pc[t] \in {"comp_get", "comp_set", "comp_rem"} -> "db_get"

ReturnsError == {"enq_set", "enq_del", "can_get", "can_set", "deq", "fail_get",
                 "fail_set", "fail_add", "req_get", "req_set", "req_add"}
GoesOn == {"enq_add", "deq_get", "deq_set", "fail_rem", "req_rem", "can_remq",
           "can_remr", "comp_get", "comp_set", "comp_rem"}

AfterError(t) ==
    IF pc[t] \in ReturnsError
    THEN Return(t, ErrorTarget(t))
    ELSE Goto(t, ErrorTarget(t)) /\ UNCHANGED <<job, snap>>

\* Mutant of RedisError: Enqueue goes on after its SET has failed.
RedisErrorIgnored(t) ==
    /\ pc[t] \in ReturnsError \cup GoesOn
    /\ Spend("fault")
    /\ IF pc[t] = "enq_set"
       THEN Goto(t, "enq_add") /\ UNCHANGED <<job, snap>>
       ELSE AfterError(t)
    /\ UNCHANGED <<redis, db, pool, callback, stale,
                   fresh, execs, canceled, acked, refused, unanswered>>

\* A Redis command of queue.go fails without any effect, ...
RedisError(t) ==
    /\ pc[t] \in ReturnsError \cup GoesOn
    /\ Spend("fault")
    /\ AfterError(t)
    /\ UNCHANGED <<redis, db, pool, callback, stale,
                   fresh, execs, canceled, acked, refused, unanswered>>

\* ... or it takes its effect and its reply is lost.  Where the error changes
\* nothing (a read, a command whose error is ignored) that is one of the two
\* outcomes above; it makes a difference to a SET, ...
Record(t) ==
    CASE pc[t] \in {"enq_set", "req_set"} -> WithStatus(snap[t], "pending")
      [] pc[t] = "can_set" -> WithStatus(snap[t], "canceled")
      [] pc[t] = "comp_set" -> WithStatus(snap[t], "completed")
      [] pc[t] = "fail_set" /\ CanRetry(snap[t]) -> WithStatus(snap[t], "retrying")
      [] pc[t] = "fail_set" /\ ~CanRetry(snap[t]) -> WithStatus(snap[t], "failed")

SetUnanswered(t) ==
    /\ pc[t] \in {"enq_set", "can_set", "req_set", "comp_set", "fail_set"}
    /\ Spend("fault")
    /\ data' = [data EXCEPT ![job[t]] = Record(t)]
    /\ canceled' = canceled \cup (IF pc[t] = "can_set" THEN {job[t]} ELSE {})
    /\ AfterError(t)
    /\ UNCHANGED <<queue, running, dead, db, pool, callback, stale,
                   fresh, execs, acked, refused, unanswered>>

\* ... to the ZADD of Enqueue and of requeueJob, ...
AddUnanswered(t) ==
    /\ pc[t] \in {"enq_add", "req_add"}
    /\ Spend("fault")
    /\ \E q \in {"ready", "delayed"} :
          /\ pc[t] = "req_add" => q = "ready"
          /\ queue' = [queue EXCEPT ![job[t]] = q]
    /\ unanswered' = unanswered \cup (IF pc[t] = "enq_add" THEN {job[t]} ELSE {})
    /\ AfterError(t)
    /\ UNCHANGED <<data, running, dead, db, pool, callback, stale,
                   fresh, execs, canceled, acked, refused>>

\* ... and to the script of atomicMoveToRunning.
MoveUnanswered(j) ==
    /\ At(Poller, "deq") /\ queue[j] = "ready"
    /\ Spend("fault")
    /\ queue' = [queue EXCEPT ![j] = "out"]
    /\ running' = [running EXCEPT ![j] = "fresh"]
    /\ AfterError(Poller)
    /\ UNCHANGED <<data, dead, db, pool, callback, stale,
                   fresh, execs, canceled, acked, refused, unanswered>>

CommandFails(t) ==
    \/ RedisError(t) \/ SetUnanswered(t) \/ AddUnanswered(t)
    \/ t = Poller /\ \E j \in Jobs : MoveUnanswered(j)

\* A statement on the jobs table fails: handleComplete and CancelJob go on.
CallbackDbError(w) ==
    /\ pc[w] \in {"db_get", "db_put"}
    /\ Spend("fault")
    /\ NextCallback(w)
    /\ UNCHANGED <<redis, db, pool, job, outcome, stale, fresh, execs,
                   canceled, acked, refused, unanswered>>

CancelDbError(c) ==
    /\ pc[c] \in {"can_dbget", "can_dbput"}
    /\ Spend("fault")
    /\ acked' = acked \cup {job[c]}
    /\ Return(c, "idle")
    /\ UNCHANGED <<redis, db, pool, callback, stale, fresh, execs, canceled,
                   refused, unanswered>>

-------------------------------------------------------------------------------
ClientStep(c) ==
    \/ EnqSet(c) \/ EnqAdd(c) \/ EnqDel(c)
    \/ CancelGet(c) \/ CancelSet(c) \/ CancelRemQueue(c) \/ CancelRemRunning(c)
    \/ CancelDbGet(c) \/ CancelDbPut(c)

FailStep(t) == FailGet(t) \/ FailSet(t) \/ FailRem(t) \/ FailAdd(t)
RequeueStep(t) == RequeueGet(t) \/ RequeueRem(t) \/ RequeueSet(t) \/ RequeueAdd(t)

PollerStep ==
    \/ PollTick \/ PollExit \/ DeqNone \/ DeqGet \/ DeqSet \/ Submit \/ SubmitRefused
    \/ \E j \in Jobs : DeqMove(j)
    \/ FailStep(Poller) \/ RequeueStep(Poller)

WorkerStep(w) ==
    \/ WorkerExit(w) \/ Take(w) \/ Register(w)
    \/ \E o \in {"ok", "err"} : Execute(w, o)
    \/ CompleteGet(w) \/ CompleteSet(w) \/ CompleteRem(w) \/ FailStep(w)
    \/ DbGet(w) \/ DbPut(w) \/ Unregister(w)

RecovererStep ==
    \/ RecoverList \/ RecoverDone \/ RecoverExit
    \/ \E j \in Jobs : RecoverNext(j)
    \/ RequeueStep(Recoverer)

Request(c) == \E j \in Jobs : EnqCreate(c, j) \/ CancelInPool(c, j)

Environment ==
    \/ \E j \in Jobs : \/ DeleteJob(j) \/ Cleanup(j) \/ LeaseExpires(j)
                       \/ DataExpires(j) \/ DelayElapses(j)
    \/ Stop \/ PoolStop \/ CancelAllJobs \/ Crash \/ Restart
    \/ \E t \in Threads : CommandFails(t)
    \/ \E w \in Workers : CallbackDbError(w)
    \/ \E c \in Clients : CancelDbError(c)

Next ==
    \/ \E c \in Clients : Request(c) \/ ClientStep(c)
    \/ PollerStep
    \/ \E w \in Workers : WorkerStep(w)
    \/ RecovererStep
    \/ Environment

Spec == Init /\ [][Next]_vars

\* Goroutines run and time passes; nobody has to send a request, and nothing
\* has to fail.
Fairness ==
    /\ \A c \in Clients : WF_vars(ClientStep(c))
    /\ WF_vars(PollerStep)
    /\ \A w \in Workers : WF_vars(WorkerStep(w))
    /\ WF_vars(RecovererStep)
    /\ \A j \in Jobs : WF_vars(DelayElapses(j)) /\ WF_vars(LeaseExpires(j) /\ Idle(j))

FairSpec == Spec /\ Fairness

-------------------------------------------------------------------------------
(* Properties *)

TypeOK ==
    /\ data \in [Jobs -> JobRecord]
    /\ queue \in [Jobs -> {"out", "delayed", "ready"}]
    /\ running \in [Jobs -> {"out", "fresh", "stale"}]
    /\ dead \subseteq Jobs
    /\ db \in [Jobs -> JobRecord]
    /\ jobChan \in Seq(Jobs)
    /\ cancelFns \in [Jobs -> Workers \cup {Nobody}]
    /\ ctx \in [Workers -> {"live", "canceled"}]
    /\ phase \in {"running", "closing", "stopped", "canceled"}
    /\ pc \in [Threads -> Labels]
    /\ job \in [Threads -> Jobs \cup {Nobody}]
    /\ snap \in [Threads -> JobRecord]
    /\ round \in [Workers -> {1, 2}]
    /\ outcome \in [Workers -> {"ok", "err"}]
    /\ stale \subseteq Jobs
    /\ fresh \subseteq Jobs
    /\ used \in [Kinds -> Nat]
    /\ execs \in [Jobs -> Nat]
    /\ canceled \subseteq Jobs
    /\ acked \subseteq Jobs
    /\ refused \subseteq Jobs
    /\ unanswered \subseteq Jobs

\* None of these environment events has happened.
Without(ks) == \A k \in ks : used[k] = 0

InChan(j) == \E i \in 1..Len(jobChan) : jobChan[i] = j

\* The thread will still requeue the job, hand it on, or finish it.
Responsible(t, j) ==
    /\ job[t] = j
    /\ \/ pc[t] \in {"enq_add", "deq_get", "deq_set", "submit", "req_add",
                     "register", "exec"}
       \/ /\ pc[t] \in {"fail_get", "fail_set", "comp_get", "comp_set"}
          /\ t \in Workers => round[t] = 1
       \/ pc[t] \in {"fail_rem", "fail_add"} /\ snap[t].status = "retrying"

\* A job that queue.go has accepted and nobody has finished is never forgotten:
\* it is in a priority queue, in the pool's channel, or in the hands of a
\* goroutine that will requeue or finish it.  Leases may expire and the
\* recoverer may race the worker that still runs the job; the job must survive
\* every overwrite of its data key.
NoLostJob ==
    \A j \in Jobs :
        (/\ data[j].status \in Unfinished
         /\ j \notin canceled
         /\ Without({"fault", "crash", "ttl", "stop"}))
        => \/ queue[j] # "out"
           \/ InChan(j)
           \/ \E t \in Threads : Responsible(t, j)

InPool(j) ==
    \/ InChan(j)
    \/ \E t \in Threads :
          job[t] = j /\ pc[t] \in {"deq_get", "deq_set", "submit", "register", "exec"}

\* A job between Dequeue and the end of its execution has a lease in the running
\* set, so that RecoverStaleJobs finds it after a crash: no other goroutine's
\* ZREM takes the lease away (as long as no lease expired under its holder).
LeasedWhileInPool ==
    \A j \in Jobs :
        (InPool(j) /\ j \notin canceled /\ Without({"fault", "lease"}))
        => running[j] # "out"

\* Fail and CanRetry allow MaxAttempts executions; each crash or shutdown can
\* add one, because requeueJob does not look at the count.
RetryBudget ==
    \A j \in Jobs :
        (j \notin canceled /\ Without({"fault", "lease", "ttl"}))
        => execs[j] <= MaxAttempts + used["crash"] + used["stop"]

Settled(j) == Idle(j) /\ queue[j] = "out" /\ running[j] = "out"

\* When nobody works on a failed job any more, it is in the dead letter set, and
\* it has been executed MaxAttempts times.  Only a job that the pool refused has
\* not: the one queue.Fail that processQueue calls finds it "running", for which
\* CanRetry is false, and buries it with attempts left.
FailedOnlyWhenExhausted ==
    \A j \in Jobs :
        (/\ Settled(j) /\ data[j].status = "failed" /\ j \notin canceled
         /\ Without({"fault", "crash", "lease", "ttl", "stop"}))
        => /\ j \in dead
           /\ IF j \in refused THEN execs[j] < MaxAttempts ELSE execs[j] = MaxAttempts

\* When nobody works any more on a job that completed at its first execution, the
\* jobs table says so too (unless the row was deleted).  It need not after a
\* retry: the second report of the first execution may reach the table last.
DbAgreesOnCompleted ==
    \A j \in Jobs :
        (/\ Settled(j) /\ data[j].status = "completed" /\ j \notin canceled
         /\ execs[j] = 1
         /\ Without({"fault", "crash", "lease", "stop"}))
        => db[j].status \in {"completed", "absent"}

\* Pool.CancelJob(id) reaches only a worker that is processing that very job: a
\* cancel function does not outlive its job in cancelFns, even when two workers
\* run the same job and each deletes the other's entry.
CancelFnsOwned ==
    \A j \in Jobs, w \in Workers :
        cancelFns[j] = w => job[w] = j /\ pc[w] \notin {"idle", "register", "exited"}

\* No overwrite of a data key brings a completed job back.
CompletedIsFinal ==
    [][\A j \in Jobs :
         (/\ data[j].status = "completed" /\ j \notin canceled'
          /\ Without({"fault", "crash", "lease", "stop"})')
         => data'[j] \in {data[j], Absent}]_vars

\* Every job a client created is executed, retried and finished in the end.
EveryJobFinishes ==
    \A j \in Jobs :
        (j \notin fresh) ~>
            (Settled(j) /\ data[j].status \in {"completed", "failed", "absent"})

\* An entry of a priority queue or of the running set has its data key, whatever
\* command fails with or without effect, and whatever crashes; without it Dequeue
\* could never run the job and the recoverer would trip over it for ever.  Two
\* things break this: the TTL of the key, and Enqueue itself, which deletes the
\* key after a ZADD that took effect and was not answered.
EntryHasData ==
    \A j \in Jobs :
        (/\ Without({"ttl"}) /\ j \notin unanswered
         /\ queue[j] # "out" \/ running[j] # "out")
        => data[j] # Absent

-------------------------------------------------------------------------------
(* What the comments of the code say, and the code does not do *)

\* scheduler.go: "CancelJob cancels a pending or running job".  Once it has
\* returned nil the job is not started again.
CanceledIsNotRun ==
    [][\A j \in acked : execs'[j] = execs[j]]_vars

===============================================================================
