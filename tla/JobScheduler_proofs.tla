------------------------- MODULE JobScheduler_proofs -------------------------
(***************************************************************************)
(* Proofs about JobScheduler, for any number of jobs, workers and clients  *)
(* and any bounds.                                                         *)
(***************************************************************************)
EXTENDS JobScheduler, TLAPS

Statuses == Unfinished \cup Finished \cup {"absent"}

\* A goroutine in the middle of an operation has a job at hand.
JobAtHand ==
    \A t \in Threads : pc[t] \notin {"idle", "exited", "deq", "rec"} => job[t] \in Jobs

\* The part of the type invariant about the goroutines.
LocalsOK ==
    /\ pc \in [Threads -> Labels]
    /\ job \in [Threads -> Jobs \cup {Nobody}]
    /\ snap \in [Threads -> JobRecord]
    /\ JobAtHand

-------------------------------------------------------------------------------
(* The helpers the actions are built from *)

\* The record operators return job records.
LEMMA RecordFacts ==
    /\ Absent \in JobRecord
    /\ \A r \in JobRecord, s \in Statuses : WithStatus(r, s) \in JobRecord
    /\ \A r \in JobRecord : [status |-> "running", attempts |-> r.attempts + 1] \in JobRecord
  BY DEF Absent, JobRecord, WithStatus, Statuses, Unfinished, Finished

\* The status of a record is the one it was given.
LEMMA StatusFacts ==
    /\ Absent.status = "absent"
    /\ \A r, s : WithStatus(r, s).status = s
  BY DEF Absent, WithStatus

\* Every status the code writes is a status.
LEMMA StatusNames ==
    {"pending", "running", "retrying", "completed", "failed", "canceled"} \subseteq Statuses
  BY DEF Statuses, Unfinished, Finished

\* Every label a goroutine is sent to is a label.
LEMMA LabelNames ==
    /\ {"idle", "enq_set", "enq_add", "enq_del", "can_get", "can_set", "can_remq",
        "can_remr", "can_dbget", "can_dbput"} \subseteq Labels
    /\ {"deq", "deq_get", "deq_set", "submit", "exited", "fail_get", "fail_set",
        "fail_rem", "fail_add", "req_get", "req_rem", "req_set", "req_add"} \subseteq Labels
    /\ {"rec", "register", "exec", "comp_get", "comp_set", "comp_rem", "db_get",
        "db_put", "unreg"} \subseteq Labels
  BY DEF Labels, ClientLabels, PollerLabels, RecovererLabels, WorkerLabels, FailLabels,
         RequeueLabels

\* The two background goroutines, the clients and the workers are threads.
LEMMA ThreadFacts ==
    /\ Poller \in Threads /\ Recoverer \in Threads
    /\ Workers \subseteq Threads /\ Clients \subseteq Threads
    /\ Poller \notin Workers /\ Recoverer \notin Workers /\ Poller # Recoverer
    /\ \A c \in Clients : c \notin Workers /\ c # Poller /\ c # Recoverer
  BY ThreadsDistinct DEF Threads

\* A goroutine that moves on with a job at hand keeps its locals well typed.
LEMMA GotoType ==
    ASSUME LocalsOK, NEW t \in Threads, NEW l \in Labels, Goto(t, l),
           job[t] \in Jobs \/ l \in {"idle", "exited", "deq", "rec"},
           UNCHANGED job
    PROVE  pc' \in [Threads -> Labels] /\ job' \in [Threads -> Jobs \cup {Nobody}] /\ JobAtHand'
  BY DEF LocalsOK, JobAtHand, Goto

\* So does one that takes up a job.
LEMMA TakeUpType ==
    ASSUME LocalsOK, NEW t \in Threads, NEW l \in Labels, NEW j \in Jobs, Goto(t, l),
           job' = [job EXCEPT ![t] = j]
    PROVE  pc' \in [Threads -> Labels] /\ job' \in [Threads -> Jobs \cup {Nobody}] /\ JobAtHand'
  BY DEF LocalsOK, JobAtHand, Goto

\* So does one that reads a record.
LEMMA ReadType ==
    ASSUME LocalsOK, NEW t \in Threads, NEW r \in JobRecord, Read(t, r)
    PROVE  snap' \in [Threads -> JobRecord]
  BY DEF LocalsOK, Read

\* So does one that returns from a queue operation.
LEMMA ReturnType ==
    ASSUME LocalsOK, NEW t \in Threads, NEW l \in Labels, Return(t, l),
           (t \in Workers /\ job[t] \in Jobs) \/ l \in {"idle", "deq", "rec"}
    PROVE  LocalsOK'
  <1>1. snap' \in [Threads -> JobRecord]
    BY ReadType, RecordFacts DEF Return
  <1>2. job' \in [Threads -> Jobs \cup {Nobody}]
    BY DEF LocalsOK, Return
  <1>3. pc' \in [Threads -> Labels]
    BY DEF LocalsOK, Return, Goto
  <1>4. JobAtHand'
    <2> SUFFICES ASSUME NEW u \in Threads,
                        pc'[u] \notin {"idle", "exited", "deq", "rec"}
                 PROVE  job'[u] \in Jobs
      BY DEF JobAtHand
    <2>1. CASE u = t
      BY <2>1 DEF LocalsOK, Return, Goto
    <2>2. CASE u # t
      BY <2>2 DEF LocalsOK, JobAtHand, Return, Goto
    <2> QED
      BY <2>1, <2>2
  <1> QED
    BY <1>1, <1>2, <1>3, <1>4 DEF LocalsOK

\* A bounded event is counted.
LEMMA SpendType ==
    ASSUME used \in [Kinds -> Nat], NEW k \in Kinds, Spend(k)
    PROVE  used' \in [Kinds -> Nat]
  BY DEF Spend

\* The part of the type invariant about everything but the goroutines' locals.
RestOK ==
    /\ data \in [Jobs -> JobRecord]
    /\ queue \in [Jobs -> {"out", "delayed", "ready"}]
    /\ running \in [Jobs -> {"out", "fresh", "stale"}]
    /\ dead \subseteq Jobs
    /\ db \in [Jobs -> JobRecord]
    /\ jobChan \in Seq(Jobs)
    /\ cancelFns \in [Jobs -> Workers \cup {Nobody}]
    /\ ctx \in [Workers -> {"live", "canceled"}]
    /\ phase \in {"running", "closing", "stopped", "canceled"}
    /\ round \in [Workers -> {1, 2}]
    /\ outcome \in [Workers -> {"ok", "err"}]
    /\ stale \subseteq Jobs
    /\ fresh \subseteq Jobs
    /\ used \in [Kinds -> Nat]
    /\ execs \in [Jobs -> Nat]
    /\ canceled \subseteq Jobs
    /\ acked \subseteq Jobs
    /\ refused \subseteq Jobs
    /\ unanswered \subseteq Jobs

\* The two parts make up the type invariant.
LEMMA TypeParts == TypeOK /\ JobAtHand <=> RestOK /\ LocalsOK
  BY DEF TypeOK, RestOK, LocalsOK

\* The jobs table keeps its type under an UPDATE.
LEMMA DbUpdateType ==
    ASSUME db \in [Jobs -> JobRecord], NEW j \in Jobs, NEW r \in JobRecord, DbUpdate(j, r)
    PROVE  db' \in [Jobs -> JobRecord]
  BY DEF DbUpdate

\* The pool's channel holds jobs.
LEMMA ChannelFacts ==
    ASSUME jobChan \in Seq(Jobs)
    PROVE  /\ \A j \in Jobs : Append(jobChan, j) \in Seq(Jobs)
           /\ jobChan # <<>> => Head(jobChan) \in Jobs /\ Tail(jobChan) \in Seq(Jobs)
  OBVIOUS

\* A goroutine that has a job at hand has one of the jobs.
LEMMA AtHand ==
    ASSUME LocalsOK, NEW t \in Threads, pc[t] \notin {"idle", "exited", "deq", "rec"}
    PROVE  job[t] \in Jobs /\ snap[t] \in JobRecord
  BY DEF LocalsOK, JobAtHand

-------------------------------------------------------------------------------
(* Type correctness *)

\* The state initially has its type.
LEMMA InitType == Init => RestOK /\ LocalsOK
  BY RecordFacts, LabelNames DEF Init, RestOK, LocalsOK, JobAtHand

\* The steps of the API clients keep the types.
LEMMA ClientType ==
    ASSUME RestOK, LocalsOK, NEW c \in Clients, Request(c) \/ ClientStep(c)
    PROVE  RestOK' /\ LocalsOK'
  <1>1. c \in Threads
    BY ThreadFacts
  <1> USE <1>1, RecordFacts DEF At
  <1>2. ASSUME NEW j \in Jobs, EnqCreate(c, j) PROVE RestOK' /\ LocalsOK'
    <2>1. LocalsOK'
      BY <1>2, TakeUpType, LabelNames DEF EnqCreate, LocalsOK
    <2>2. RestOK'
      BY <1>2, StatusNames DEF EnqCreate, RestOK, redis, pool, callback
    <2> QED
      BY <2>1, <2>2
  <1>3. ASSUME NEW j \in Jobs, CancelInPool(c, j) PROVE RestOK' /\ LocalsOK'
    <2>1. LocalsOK'
      BY <1>3, TakeUpType, LabelNames DEF CancelInPool, LocalsOK
    <2>2. RestOK'
      BY <1>3, SpendType DEF CancelInPool, RestOK, redis, callback, Kinds
    <2> QED
      BY <2>1, <2>2
  <1>4. CASE EnqSet(c)
    <2>1. LocalsOK'
      BY <1>4, GotoType, AtHand, LabelNames DEF EnqSet, LocalsOK
    <2>2. RestOK'
      BY <1>4, AtHand, StatusNames DEF EnqSet, RestOK, pool, callback, history
    <2> QED
      BY <2>1, <2>2
  <1>5. CASE EnqAdd(c)
    <2>1. LocalsOK'
      BY <1>5, ReturnType, LabelNames DEF EnqAdd
    <2>2. queue' \in [Jobs -> {"out", "delayed", "ready"}]
      BY <1>5, AtHand DEF EnqAdd, RestOK
    <2>3. RestOK'
      BY <1>5, <2>2 DEF EnqAdd, RestOK, pool, callback, history
    <2> QED
      BY <2>1, <2>3
  <1>6. CASE CancelGet(c)
    <2>1. LocalsOK'
      BY <1>6, ReturnType, GotoType, ReadType, AtHand, LabelNames DEF CancelGet, LocalsOK, RestOK
    <2>2. RestOK'
      BY <1>6 DEF CancelGet, RestOK, redis, pool, callback, history
    <2> QED
      BY <2>1, <2>2
  <1>7. CASE CancelSet(c)
    <2>1. LocalsOK'
      BY <1>7, GotoType, AtHand, LabelNames DEF CancelSet, LocalsOK
    <2>2. RestOK'
      BY <1>7, AtHand, StatusNames DEF CancelSet, RestOK, pool, callback
    <2> QED
      BY <2>1, <2>2
  <1>8. CASE CancelRemQueue(c)
    <2>1. LocalsOK'
      BY <1>8, GotoType, AtHand, LabelNames DEF CancelRemQueue, LocalsOK
    <2>2. RestOK'
      BY <1>8, AtHand DEF CancelRemQueue, RestOK, pool, callback, history
    <2> QED
      BY <2>1, <2>2
  <1>9. CASE CancelRemRunning(c)
    <2>1. LocalsOK'
      BY <1>9, GotoType, AtHand, LabelNames DEF CancelRemRunning, LocalsOK
    <2>2. RestOK'
      BY <1>9, AtHand DEF CancelRemRunning, RestOK, pool, callback, history
    <2> QED
      BY <2>1, <2>2
  <1>10. CASE CancelDbGet(c)
    <2>1. LocalsOK'
      BY <1>10, GotoType, ReadType, AtHand, LabelNames DEF CancelDbGet, LocalsOK, RestOK
    <2>2. RestOK'
      BY <1>10 DEF CancelDbGet, RestOK, redis, pool, callback, history
    <2> QED
      BY <2>1, <2>2
  <1>11. CASE CancelDbPut(c)
    <2>1. LocalsOK'
      BY <1>11, ReturnType, LabelNames DEF CancelDbPut
    <2>2. db' \in [Jobs -> JobRecord]
      BY <1>11, AtHand, DbUpdateType, StatusNames DEF CancelDbPut, RestOK
    <2>3. RestOK'
      BY <1>11, <2>2, AtHand DEF CancelDbPut, RestOK, redis, pool, callback
    <2> QED
      BY <2>1, <2>3
  <1>12. CASE EnqDel(c)
    <2>1. LocalsOK'
      BY <1>12, ReturnType, LabelNames DEF EnqDel
    <2>2. RestOK'
      BY <1>12, AtHand DEF EnqDel, RestOK, pool, callback, history
    <2> QED
      BY <2>1, <2>2
  <1> QED
    BY <1>2, <1>3, <1>4, <1>5, <1>6, <1>7, <1>8, <1>9, <1>10, <1>11, <1>12
       DEF Request, ClientStep

\* The steps of queue.Fail keep the types.
LEMMA FailType ==
    ASSUME RestOK, LocalsOK, NEW t \in Workers \cup {Poller}, FailStep(t)
    PROVE  RestOK' /\ LocalsOK'
  <1>1. t \in Threads
    BY ThreadFacts
  <1> USE <1>1, RecordFacts DEF At
  <1>2. CASE FailGet(t)
    <2>1. LocalsOK'
      BY <1>2, ReturnType, GotoType, ReadType, AtHand, LabelNames DEF FailGet, AfterFail, LocalsOK, RestOK
    <2>2. RestOK'
      BY <1>2 DEF FailGet, RestOK, redis, pool, callback, history
    <2> QED
      BY <2>1, <2>2
  <1>3. CASE FailSet(t)
    <2>1. LocalsOK'
      BY <1>3, GotoType, ReadType, AtHand, LabelNames, StatusNames DEF FailSet, LocalsOK
    <2>2. RestOK'
      BY <1>3, AtHand, StatusNames DEF FailSet, RestOK, pool, callback, history
    <2> QED
      BY <2>1, <2>2
  <1>4. CASE FailRem(t)
    <2>1. LocalsOK'
      BY <1>4, GotoType, AtHand, LabelNames DEF FailRem, LocalsOK
    <2>2. RestOK'
      BY <1>4, AtHand DEF FailRem, RestOK, pool, callback, history
    <2> QED
      BY <2>1, <2>2
  <1>5. CASE FailAdd(t)
    <2>1. LocalsOK'
      BY <1>5, ReturnType, AtHand, LabelNames DEF FailAdd, AfterFail
    <2>2. queue' \in [Jobs -> {"out", "delayed", "ready"}] /\ dead' \subseteq Jobs
      <3>1. job[t] \in Jobs
        BY <1>5, AtHand DEF FailAdd
      <3>2. CASE snap[t].status = "retrying"
        BY <1>5, <3>1, <3>2 DEF FailAdd, RestOK
      <3>3. CASE snap[t].status # "retrying"
        BY <1>5, <3>1, <3>3 DEF FailAdd, RestOK
      <3> QED
        BY <3>2, <3>3
    <2>3. RestOK'
      BY <1>5, <2>2 DEF FailAdd, RestOK, pool, callback, history
    <2> QED
      BY <2>1, <2>3
  <1> QED
    BY <1>2, <1>3, <1>4, <1>5
       DEF FailStep

\* The steps of queue.requeueJob keep the types.
LEMMA RequeueType ==
    ASSUME RestOK, LocalsOK, NEW t \in {Poller, Recoverer}, RequeueStep(t)
    PROVE  RestOK' /\ LocalsOK'
  <1>1. t \in Threads
    BY ThreadFacts
  <1> USE <1>1, RecordFacts DEF At
  <1>2. CASE RequeueGet(t)
    <2>1. LocalsOK'
      BY <1>2, ReturnType, GotoType, ReadType, AtHand, LabelNames DEF RequeueGet, AfterRequeue, LocalsOK, RestOK
    <2>2. RestOK'
      BY <1>2 DEF RequeueGet, RestOK, redis, pool, callback, history
    <2> QED
      BY <2>1, <2>2
  <1>3. CASE RequeueRem(t)
    <2>1. LocalsOK'
      BY <1>3, GotoType, AtHand, LabelNames DEF RequeueRem, LocalsOK
    <2>2. RestOK'
      BY <1>3, AtHand DEF RequeueRem, RestOK, pool, callback, history
    <2> QED
      BY <2>1, <2>2
  <1>4. CASE RequeueSet(t)
    <2>1. LocalsOK'
      BY <1>4, GotoType, AtHand, LabelNames DEF RequeueSet, LocalsOK
    <2>2. RestOK'
      BY <1>4, AtHand, StatusNames DEF RequeueSet, RestOK, pool, callback, history
    <2> QED
      BY <2>1, <2>2
  <1>5. CASE RequeueAdd(t)
    <2>1. LocalsOK'
      BY <1>5, ReturnType, LabelNames DEF RequeueAdd, AfterRequeue
    <2>2. RestOK'
      BY <1>5, AtHand DEF RequeueAdd, RestOK, pool, callback, history
    <2> QED
      BY <2>1, <2>2
  <1> QED
    BY <1>2, <1>3, <1>4, <1>5
       DEF RequeueStep

\* The steps of the queue processor keep the types.
LEMMA PollerType ==
    ASSUME RestOK, LocalsOK, PollerStep
    PROVE  RestOK' /\ LocalsOK'
  <1>1. Poller \in Threads
    BY ThreadFacts
  <1> USE <1>1, RecordFacts DEF At
  <1>2. CASE PollTick
    <2>1. LocalsOK'
      BY <1>2, GotoType, LabelNames DEF PollTick, LocalsOK
    <2>2. RestOK'
      BY <1>2 DEF PollTick, RestOK, redis, pool, callback, history
    <2> QED
      BY <2>1, <2>2
  <1>3. CASE PollExit
    <2>1. LocalsOK'
      BY <1>3, GotoType, LabelNames DEF PollExit, LocalsOK
    <2>2. RestOK'
      BY <1>3 DEF PollExit, RestOK, redis, pool, callback, history
    <2> QED
      BY <2>1, <2>2
  <1>4. CASE DeqNone
    <2>1. LocalsOK'
      BY <1>4, GotoType, LabelNames DEF DeqNone, LocalsOK
    <2>2. RestOK'
      BY <1>4 DEF DeqNone, RestOK, redis, pool, callback, history
    <2> QED
      BY <2>1, <2>2
  <1>5. ASSUME NEW j \in Jobs, DeqMove(j) PROVE RestOK' /\ LocalsOK'
    <2>1. LocalsOK'
      BY <1>5, TakeUpType, LabelNames DEF DeqMove, LocalsOK
    <2>2. RestOK'
      BY <1>5 DEF DeqMove, RestOK, pool, callback, history
    <2> QED
      BY <2>1, <2>2
  <1>6. CASE DeqGet
    <2>1. LocalsOK'
      BY <1>6, GotoType, ReadType, AtHand, LabelNames DEF DeqGet, LocalsOK, RestOK
    <2>2. RestOK'
      BY <1>6 DEF DeqGet, RestOK, redis, pool, callback, history
    <2> QED
      BY <2>1, <2>2
  <1>7. CASE DeqSet
    <2>1. LocalsOK'
      BY <1>7, GotoType, AtHand, LabelNames DEF DeqSet, LocalsOK
    <2>2. data' \in [Jobs -> JobRecord]
      BY <1>7, AtHand DEF DeqSet, RestOK
    <2>3. RestOK'
      BY <1>7, <2>2 DEF DeqSet, RestOK, pool, callback, history
    <2> QED
      BY <2>1, <2>3
  <1>8. CASE Submit
    <2>1. LocalsOK'
      BY <1>8, ReturnType, LabelNames DEF Submit
    <2>2. RestOK'
      BY <1>8, AtHand, ChannelFacts DEF Submit, RestOK, redis, callback, history
    <2> QED
      BY <2>1, <2>2
  <1>9. CASE SubmitRefused
    <2>1. LocalsOK'
      BY <1>9, GotoType, AtHand, LabelNames DEF SubmitRefused, LocalsOK
    <2>2. RestOK'
      BY <1>9, AtHand DEF SubmitRefused, RestOK, redis, pool, callback
    <2> QED
      BY <2>1, <2>2
  <1> QED
    BY <1>2, <1>3, <1>4, <1>5, <1>6, <1>7, <1>8, <1>9, FailType, RequeueType
       DEF PollerStep

\* The end of a callback keeps the types.
LEMMA NextCallbackType ==
    ASSUME RestOK, LocalsOK, NEW w \in Workers, job[w] \in Jobs, NextCallback(w),
           UNCHANGED job
    PROVE  LocalsOK' /\ round' \in [Workers -> {1, 2}]
  <1>1. w \in Threads
    BY ThreadFacts
  <1>2. snap' \in [Threads -> JobRecord]
    BY <1>1, ReadType, RecordFacts DEF NextCallback
  <1>3. round' \in [Workers -> {1, 2}]
    BY DEF NextCallback, RestOK
  <1>4. PICK l \in Labels : Goto(w, l)
    BY LabelNames DEF NextCallback, FirstStep
  <1> QED
    BY <1>1, <1>2, <1>3, <1>4, GotoType DEF LocalsOK

\* The steps of a pool worker keep the types.
LEMMA WorkerType ==
    ASSUME RestOK, LocalsOK, NEW w \in Workers, WorkerStep(w)
    PROVE  RestOK' /\ LocalsOK'
  <1>1. w \in Threads
    BY ThreadFacts
  <1> USE <1>1, RecordFacts DEF At
  <1>2. CASE WorkerExit(w)
    <2>1. LocalsOK'
      BY <1>2, GotoType, LabelNames DEF WorkerExit, LocalsOK
    <2>2. RestOK'
      BY <1>2 DEF WorkerExit, RestOK, redis, pool, callback, history
    <2> QED
      BY <2>1, <2>2
  <1>3. CASE Take(w)
    <2>1. LocalsOK'
      BY <1>3, TakeUpType, LabelNames, ChannelFacts DEF Take, LocalsOK, RestOK
    <2>2. RestOK'
      BY <1>3, ChannelFacts DEF Take, RestOK, redis, callback, history
    <2> QED
      BY <2>1, <2>2
  <1>4. CASE Register(w)
    <2>1. LocalsOK'
      BY <1>4, GotoType, AtHand, LabelNames DEF Register, LocalsOK
    <2>2. execs' \in [Jobs -> Nat]
      <3>1. /\ job[w] \in Jobs
            /\ execs' = [execs EXCEPT ![job[w]] = IF @ < MaxExecs THEN @ + 1 ELSE @]
        BY <1>4, AtHand DEF Register
      <3> QED
        BY <3>1 DEF RestOK
    <2>3. RestOK'
      BY <1>4, <2>2, AtHand DEF Register, RestOK, redis, callback
    <2> QED
      BY <2>1, <2>3
  <1>5. ASSUME NEW o \in {"ok", "err"}, Execute(w, o) PROVE RestOK' /\ LocalsOK'
    <2>1. LocalsOK'
      BY <1>5, GotoType, AtHand, LabelNames DEF Execute, FirstStep, LocalsOK
    <2>2. RestOK'
      BY <1>5 DEF Execute, RestOK, redis, pool, history
    <2> QED
      BY <2>1, <2>2
  <1>6. CASE CompleteGet(w)
    <2>1. LocalsOK'
      BY <1>6, GotoType, ReadType, AtHand, LabelNames DEF CompleteGet, LocalsOK, RestOK
    <2>2. RestOK'
      BY <1>6 DEF CompleteGet, RestOK, redis, pool, callback, history
    <2> QED
      BY <2>1, <2>2
  <1>7. CASE CompleteSet(w)
    <2>1. LocalsOK'
      BY <1>7, GotoType, AtHand, LabelNames DEF CompleteSet, LocalsOK
    <2>2. RestOK'
      BY <1>7, AtHand, StatusNames DEF CompleteSet, RestOK, pool, callback, history
    <2> QED
      BY <2>1, <2>2
  <1>8. CASE CompleteRem(w)
    <2>1. LocalsOK'
      BY <1>8, GotoType, AtHand, LabelNames DEF CompleteRem, LocalsOK
    <2>2. RestOK'
      BY <1>8, AtHand DEF CompleteRem, RestOK, pool, callback, history
    <2> QED
      BY <2>1, <2>2
  <1>9. CASE FailStep(w)
    BY <1>9, FailType
  <1>10. CASE DbGet(w)
    <2>1. LocalsOK'
      BY <1>10, NextCallbackType, GotoType, ReadType, AtHand, LabelNames DEF DbGet, LocalsOK, RestOK
    <2>2. round' \in [Workers -> {1, 2}]
      BY <1>10, NextCallbackType, AtHand DEF DbGet, RestOK
    <2>3. RestOK'
      BY <1>10, <2>2 DEF DbGet, RestOK, redis, pool, history
    <2> QED
      BY <2>1, <2>3
  <1>11. CASE DbPut(w)
    <2>1. LocalsOK'
      BY <1>11, NextCallbackType, AtHand, LabelNames DEF DbPut
    <2>2. db' \in [Jobs -> JobRecord] /\ round' \in [Workers -> {1, 2}]
      BY <1>11, NextCallbackType, AtHand, DbUpdateType, StatusNames DEF DbPut, RestOK, ReportedStatus
    <2>3. RestOK'
      BY <1>11, <2>2 DEF DbPut, RestOK, redis, pool, history
    <2> QED
      BY <2>1, <2>3
  <1>12. CASE Unregister(w)
    <2>1. LocalsOK'
      BY <1>12, LabelNames DEF Unregister, LocalsOK, JobAtHand, Goto
    <2>2. RestOK'
      BY <1>12, AtHand DEF Unregister, RestOK, redis, history
    <2> QED
      BY <2>1, <2>2
  <1> QED
    BY <1>2, <1>3, <1>4, <1>5, <1>6, <1>7, <1>8, <1>9, <1>10, <1>11, <1>12
       DEF WorkerStep

\* The steps of the recovery processor keep the types.
LEMMA RecovererType ==
    ASSUME RestOK, LocalsOK, RecovererStep
    PROVE  RestOK' /\ LocalsOK'
  <1>1. Recoverer \in Threads
    BY ThreadFacts
  <1> USE <1>1, RecordFacts DEF At
  <1>2. CASE RecoverList
    <2>1. LocalsOK'
      BY <1>2, GotoType, LabelNames DEF RecoverList, LocalsOK
    <2>2. RestOK'
      BY <1>2 DEF RecoverList, RestOK, redis, pool, callback, history
    <2> QED
      BY <2>1, <2>2
  <1>3. ASSUME NEW j \in Jobs, RecoverNext(j) PROVE RestOK' /\ LocalsOK'
    <2>1. LocalsOK'
      BY <1>3, TakeUpType, LabelNames DEF RecoverNext, LocalsOK
    <2>2. RestOK'
      BY <1>3 DEF RecoverNext, RestOK, redis, pool, callback, history
    <2> QED
      BY <2>1, <2>2
  <1>4. CASE RecoverDone
    <2>1. LocalsOK'
      BY <1>4, GotoType, LabelNames DEF RecoverDone, LocalsOK
    <2>2. RestOK'
      BY <1>4 DEF RecoverDone, RestOK, redis, pool, callback, history
    <2> QED
      BY <2>1, <2>2
  <1>5. CASE RecoverExit
    <2>1. LocalsOK'
      BY <1>5, GotoType, LabelNames DEF RecoverExit, LocalsOK
    <2>2. RestOK'
      BY <1>5 DEF RecoverExit, RestOK, redis, pool, callback, history
    <2> QED
      BY <2>1, <2>2
  <1> QED
    BY <1>2, <1>3, <1>4, <1>5, RequeueType
       DEF RecovererStep

\* Time, the clean-up, the stop of the scheduler and DeleteJob keep the types.
LEMMA TimeType ==
    ASSUME RestOK, LocalsOK, 
           \/ \E j \in Jobs : \/ DeleteJob(j) \/ Cleanup(j) \/ LeaseExpires(j)
                              \/ DataExpires(j) \/ DelayElapses(j)
           \/ Stop \/ PoolStop \/ CancelAllJobs
    PROVE  RestOK' /\ LocalsOK'
  <1> USE RecordFacts DEF At
  <1>1. ASSUME NEW j \in Jobs, DeleteJob(j) PROVE RestOK' /\ LocalsOK'
    <2>1. LocalsOK'
      BY <1>1 DEF DeleteJob, LocalsOK, JobAtHand
    <2>2. RestOK'
      BY <1>1, SpendType DEF DeleteJob, RestOK, redis, pool, callback, Kinds
    <2> QED
      BY <2>1, <2>2
  <1>2. ASSUME NEW j \in Jobs, Cleanup(j) PROVE RestOK' /\ LocalsOK'
    <2>1. LocalsOK'
      BY <1>2 DEF Cleanup, LocalsOK, JobAtHand
    <2>2. RestOK'
      BY <1>2 DEF Cleanup, RestOK, pool, callback, history
    <2> QED
      BY <2>1, <2>2
  <1>3. ASSUME NEW j \in Jobs, LeaseExpires(j) PROVE RestOK' /\ LocalsOK'
    <2>1. LocalsOK'
      BY <1>3 DEF LeaseExpires, LocalsOK, JobAtHand
    <2>2. used' \in [Kinds -> Nat]
      BY <1>3, SpendType DEF LeaseExpires, RestOK, Kinds
    <2>3. RestOK'
      BY <1>3, <2>2 DEF LeaseExpires, RestOK, pool, callback
    <2> QED
      BY <2>1, <2>3
  <1>4. ASSUME NEW j \in Jobs, DataExpires(j) PROVE RestOK' /\ LocalsOK'
    <2>1. LocalsOK'
      BY <1>4 DEF DataExpires, LocalsOK, JobAtHand
    <2>2. RestOK'
      BY <1>4, SpendType DEF DataExpires, RestOK, pool, callback, Kinds
    <2> QED
      BY <2>1, <2>2
  <1>5. ASSUME NEW j \in Jobs, DelayElapses(j) PROVE RestOK' /\ LocalsOK'
    <2>1. LocalsOK'
      BY <1>5 DEF DelayElapses, LocalsOK, JobAtHand
    <2>2. RestOK'
      BY <1>5 DEF DelayElapses, RestOK, pool, callback, history
    <2> QED
      BY <2>1, <2>2
  <1>6. CASE Stop
    <2>1. LocalsOK'
      BY <1>6 DEF Stop, LocalsOK, JobAtHand
    <2>2. RestOK'
      BY <1>6, SpendType DEF Stop, RestOK, redis, callback, Kinds
    <2> QED
      BY <2>1, <2>2
  <1>7. CASE PoolStop
    <2>1. LocalsOK'
      BY <1>7 DEF PoolStop, LocalsOK, JobAtHand
    <2>2. RestOK'
      BY <1>7 DEF PoolStop, RestOK, redis, callback, history
    <2> QED
      BY <2>1, <2>2
  <1>8. CASE CancelAllJobs
    <2>1. LocalsOK'
      BY <1>8 DEF CancelAllJobs, LocalsOK, JobAtHand
    <2>2. RestOK'
      BY <1>8 DEF CancelAllJobs, RestOK, redis, callback, history
    <2> QED
      BY <2>1, <2>2
  <1> QED
    BY <1>1, <1>2, <1>3, <1>4, <1>5, <1>6, <1>7, <1>8
       DEF At

\* A new process has the types of the initial state.
LEMMA NewProcessType ==
    ASSUME RestOK, LocalsOK, Crash \/ Restart
    PROVE  RestOK' /\ LocalsOK'
  <1>1. NewProcess
    BY DEF Crash, Restart
  <1>2. LocalsOK'
    BY <1>1, RecordFacts, LabelNames DEF NewProcess, LocalsOK, JobAtHand
  <1>3. used' \in [Kinds -> Nat]
    BY SpendType DEF Crash, Restart, RestOK, Kinds
  <1>4. RestOK'
    BY <1>1, <1>3 DEF NewProcess, RestOK, redis
  <1> QED
    BY <1>2, <1>4

\* What every failed Redis command has in common, with or without an effect: the
\* goroutine goes on where the error takes it, and the rest of the state stays.
LEMMA FailedCommand ==
    ASSUME NEW t \in Threads, CommandFails(t)
    PROVE  /\ pc[t] \in ReturnsError \cup GoesOn /\ Spend("fault") /\ AfterError(t)
           /\ UNCHANGED <<dead, db, jobChan, cancelFns, ctx, phase, round, outcome, stale,
                          fresh, execs, acked, refused>>
  <1>1. CASE RedisError(t)
    BY <1>1 DEF RedisError, redis, pool, callback
  <1>2. CASE SetUnanswered(t)
    BY <1>2 DEF SetUnanswered, ReturnsError, GoesOn, pool, callback
  <1>3. CASE AddUnanswered(t)
    BY <1>3 DEF AddUnanswered, ReturnsError, GoesOn, pool, callback
  <1>4. ASSUME t = Poller, NEW j \in Jobs, MoveUnanswered(j)
        PROVE  /\ pc[t] \in ReturnsError \cup GoesOn /\ Spend("fault") /\ AfterError(t)
               /\ UNCHANGED <<dead, db, jobChan, cancelFns, ctx, phase, round, outcome, stale,
                              fresh, execs, acked, refused>>
    BY <1>4 DEF MoveUnanswered, ReturnsError, At, pool, callback
  <1> QED
    BY <1>1, <1>2, <1>3, <1>4 DEF CommandFails

\* A failed command keeps the locals well typed.
LEMMA FailedType ==
    ASSUME RestOK, LocalsOK, NEW t \in Threads, CommandFails(t)
    PROVE  LocalsOK'
  <1>1. pc[t] \in ReturnsError \cup GoesOn /\ AfterError(t)
    BY FailedCommand
  <1>2. CASE pc[t] \in {"enq_set", "enq_del", "can_get", "can_set", "deq"}
    BY <1>1, <1>2, ReturnType, LabelNames DEF AfterError, ErrorTarget, ReturnsError
  <1>3. CASE pc[t] \in ReturnsError \ {"enq_set", "enq_del", "can_get", "can_set", "deq"}
    BY <1>1, <1>3, AtHand, ReturnType, LabelNames, ThreadFacts
       DEF AfterError, ErrorTarget, ReturnsError, AfterFail, AfterRequeue
  <1>4. CASE pc[t] \notin ReturnsError
    <2>1. ErrorTarget(t) \in Labels /\ job[t] \in Jobs
      BY <1>1, <1>4, LabelNames, AtHand DEF ErrorTarget, GoesOn
    <2> QED
      BY <1>1, <1>4, <2>1, GotoType DEF AfterError, LocalsOK
  <1> QED
    BY <1>2, <1>3, <1>4

\* A SET writes a record.
LEMMA RecordType ==
    ASSUME NEW t \in Threads, snap[t] \in JobRecord,
           pc[t] \in {"enq_set", "can_set", "req_set", "comp_set", "fail_set"}
    PROVE  Record(t) \in JobRecord /\ Record(t) # Absent
  <1> DEFINE W(st) == WithStatus(snap[t], st)
  <1>1. \/ Record(t) = W("pending") \/ Record(t) = W("canceled") \/ Record(t) = W("completed")
        \/ Record(t) = W("retrying") \/ Record(t) = W("failed")
    <2>1. CASE pc[t] \in {"enq_set", "req_set"}
      BY <2>1 DEF Record
    <2>2. CASE pc[t] = "can_set"
      BY <2>2 DEF Record
    <2>3. CASE pc[t] = "comp_set"
      BY <2>3 DEF Record
    <2>4. CASE pc[t] = "fail_set" /\ CanRetry(snap[t])
      BY <2>4 DEF Record
    <2>5. CASE pc[t] = "fail_set" /\ ~CanRetry(snap[t])
      BY <2>5 DEF Record
    <2> QED
      BY <2>1, <2>2, <2>3, <2>4, <2>5
  <1>2. \A st \in Statuses \ {"absent"} : W(st) \in JobRecord /\ W(st) # Absent
    BY RecordFacts DEF WithStatus, Absent
  <1> QED
    BY <1>1, <1>2, StatusNames

\* A failed command keeps the types.
LEMMA ErrorType ==
    ASSUME RestOK, LocalsOK,
           \/ \E t \in Threads : CommandFails(t)
           \/ \E w \in Workers : CallbackDbError(w)
           \/ \E c \in Clients : CancelDbError(c)
    PROVE  RestOK' /\ LocalsOK'
  <1>1. ASSUME NEW t \in Threads, CommandFails(t) PROVE RestOK' /\ LocalsOK'
    <2>1. used' \in [Kinds -> Nat]
      BY <1>1, FailedCommand, SpendType DEF RestOK, Kinds
    <2>2. pc[t] # "deq" => job[t] \in Jobs /\ snap[t] \in JobRecord
      BY <1>1, FailedCommand, AtHand DEF ReturnsError, GoesOn
    <2>3. /\ data' \in [Jobs -> JobRecord] /\ queue' \in [Jobs -> {"out", "delayed", "ready"}]
          /\ running' \in [Jobs -> {"out", "fresh", "stale"}]
          /\ canceled' \subseteq Jobs /\ unanswered' \subseteq Jobs
      <3>1. CASE RedisError(t)
        BY <3>1 DEF RedisError, RestOK, redis
      <3>2. CASE SetUnanswered(t)
        BY <2>2, <3>2, RecordType DEF SetUnanswered, RestOK
      <3>3. CASE AddUnanswered(t)
        BY <2>2, <3>3 DEF AddUnanswered, RestOK
      <3>4. CASE \E j \in Jobs : MoveUnanswered(j)
        BY <3>4 DEF MoveUnanswered, RestOK
      <3> QED
        BY <1>1, <3>1, <3>2, <3>3, <3>4 DEF CommandFails
    <2>4. RestOK'
      BY <1>1, <2>1, <2>3, FailedCommand DEF RestOK
    <2> QED
      BY <1>1, <2>4, FailedType
  <1>2. ASSUME NEW w \in Workers, CallbackDbError(w) PROVE RestOK' /\ LocalsOK'
    <2>1. job[w] \in Jobs
      BY <1>2, AtHand, ThreadFacts DEF CallbackDbError
    <2>2. LocalsOK' /\ round' \in [Workers -> {1, 2}]
      BY <1>2, <2>1, NextCallbackType DEF CallbackDbError
    <2>3. RestOK'
      BY <1>2, <2>2, SpendType DEF CallbackDbError, RestOK, redis, pool, Kinds
    <2> QED
      BY <2>2, <2>3
  <1>3. ASSUME NEW c \in Clients, CancelDbError(c) PROVE RestOK' /\ LocalsOK'
    <2>1. c \in Threads /\ job[c] \in Jobs
      BY <1>3, AtHand, ThreadFacts DEF CancelDbError
    <2>2. LocalsOK'
      BY <1>3, <2>1, ReturnType, LabelNames DEF CancelDbError
    <2>3. RestOK'
      BY <1>3, <2>1, SpendType DEF CancelDbError, RestOK, redis, pool, callback, Kinds
    <2> QED
      BY <2>2, <2>3
  <1> QED
    BY <1>1, <1>2, <1>3

\* Every step keeps the types.
LEMMA NextType == RestOK /\ LocalsOK /\ [Next]_vars => RestOK' /\ LocalsOK'
  <1> SUFFICES ASSUME RestOK, LocalsOK, [Next]_vars PROVE RestOK' /\ LocalsOK'
    OBVIOUS
  <1>1. CASE Next
    BY <1>1, ClientType, PollerType, WorkerType, RecovererType, TimeType, NewProcessType,
       ErrorType DEF Next, Environment
  <1>2. CASE UNCHANGED vars
    BY <1>2 DEF vars, RestOK, LocalsOK, JobAtHand
  <1> QED
    BY <1>1, <1>2

\* The type invariant of the job system: every field of Redis, Postgres, the pool
\* and the goroutines always has a value the code can put there.
THEOREM TypeCorrect == Spec => []TypeOK
  <1>1. Init => RestOK /\ LocalsOK
    BY InitType
  <1>2. RestOK /\ LocalsOK /\ [Next]_vars => (RestOK /\ LocalsOK)'
    BY NextType
  <1>3. RestOK /\ LocalsOK => TypeOK
    BY TypeParts
  <1> QED
    BY <1>1, <1>2, <1>3, PTL DEF Spec


-------------------------------------------------------------------------------
(* No accepted job is forgotten *)

Calm == Without({"fault", "crash", "ttl", "stop"})

\* A worker that has not reported yet is in its first callback round.
FirstRound ==
    \A w \in Workers :
        pc[w] \in {"idle", "register", "exec", "unreg", "exited"} => round[w] = 1

\* CancelJob removes only jobs it has marked canceled.
CancelMarked == \A c \in Clients : pc[c] = "can_remq" => job[c] \in canceled

\* What NoLostJob needs to be inductive.
Support == Calm => FirstRound /\ CancelMarked /\ phase = "running"

Safe(j) ==
    (data[j].status \in Unfinished /\ j \notin canceled)
    => queue[j] # "out" \/ InChan(j) \/ \E t \in Threads : Responsible(t, j)

\* NoLostJob, job by job.
LEMMA NoLostByJob == NoLostJob <=> (Calm => \A j \in Jobs : Safe(j))
  BY DEF NoLostJob, Safe, Calm

\* A step of thread t leaves every other thread alone.
Frame(t) ==
    \A u \in Threads : u # t =>
        /\ pc'[u] = pc[u] /\ job'[u] = job[u] /\ snap'[u] = snap[u]
        /\ u \in Workers => round'[u] = round[u]

\* Responsibility is a matter of the thread's own locals.
LEMMA OthersStayResponsible ==
    ASSUME NEW t \in Threads, Frame(t), NEW u \in Threads, u # t, NEW j, Responsible(u, j)
    PROVE  Responsible(u, j)'
  BY DEF Frame, Responsible

\* A step of thread t keeps a job safe if it keeps whatever made it safe.
LEMMA KeepSafe ==
    ASSUME NEW t \in Threads, NEW j \in Jobs, Safe(j), Frame(t),
           data'[j].status \in Unfinished => data[j].status \in Unfinished,
           canceled \subseteq canceled',
           queue[j] # "out" => queue'[j] # "out",
           InChan(j) => InChan(j)' \/ Responsible(t, j)',
           Responsible(t, j) => Responsible(t, j)'
    PROVE  Safe(j)'
  BY OthersStayResponsible DEF Safe

\* So does a step that touches no goroutine and no channel.
LEMMA KeepSafeIdle ==
    ASSUME NEW j \in Jobs, Safe(j), UNCHANGED <<pc, job, snap, round, jobChan, canceled>>,
           data'[j].status \in Unfinished => data[j].status \in Unfinished,
           queue[j] # "out" => queue'[j] # "out"
    PROVE  Safe(j)'
  BY DEF Safe, InChan, Responsible

\* A job is safe as soon as it is queued, handed to a goroutine or finished.
LEMMA NowSafe ==
    ASSUME NEW t \in Threads, NEW j \in Jobs,
           \/ queue'[j] # "out" \/ Responsible(t, j)' \/ j \in canceled'
           \/ data'[j].status \notin Unfinished
    PROVE  Safe(j)'
  BY DEF Safe

\* An unchanged channel holds the same jobs.
LEMMA SameChannel == ASSUME UNCHANGED jobChan, NEW j PROVE InChan(j) => InChan(j)'
  BY DEF InChan

\* The moves of a goroutine frame the others.
LEMMA FrameFacts ==
    ASSUME LocalsOK, RestOK, NEW t \in Threads
    PROVE  /\ \A l : Goto(t, l) /\ UNCHANGED <<job, snap, round>> => Frame(t)
           /\ \A l, r : Goto(t, l) /\ Read(t, r) /\ UNCHANGED <<job, round>> => Frame(t)
           /\ \A l, j : Goto(t, l) /\ job' = [job EXCEPT ![t] = j] /\ UNCHANGED <<snap, round>>
                        => Frame(t)
           /\ \A l : Return(t, l) /\ UNCHANGED round => Frame(t)
  BY DEF LocalsOK, RestOK, Frame, Goto, Read, Return

\* Submit puts the job in the channel and keeps the others there.
LEMMA InChanAppend ==
    ASSUME RestOK, NEW i \in Jobs, jobChan' = Append(jobChan, i), NEW j \in Jobs
    PROVE  /\ InChan(i)'
           /\ InChan(j) => InChan(j)'
  <1>1. /\ Len(jobChan') = Len(jobChan) + 1 /\ jobChan'[Len(jobChan) + 1] = i
        /\ Len(jobChan) \in Nat
        /\ \A k \in 1..Len(jobChan) : jobChan'[k] = jobChan[k]
    BY DEF RestOK
  <1> QED
    BY <1>1 DEF InChan

\* Taking the head of the channel leaves the other jobs in it.
LEMMA InChanTail ==
    ASSUME RestOK, jobChan # <<>>, jobChan' = Tail(jobChan), NEW j \in Jobs,
           j # Head(jobChan), InChan(j)
    PROVE  InChan(j)'
  <1>1. PICK k \in 1..Len(jobChan) : jobChan[k] = j
    BY DEF InChan
  <1>2. k # 1
    BY <1>1 DEF RestOK
  <1>3. k - 1 \in 1..Len(Tail(jobChan)) /\ Tail(jobChan)[k - 1] = jobChan[k]
    BY <1>1, <1>2 DEF RestOK
  <1> QED
    BY <1>1, <1>3 DEF InChan

\* The steps of the API clients keep every job safe.
LEMMA ClientSafe ==
    ASSUME RestOK, LocalsOK, CancelMarked,
           NEW c \in Clients, Request(c) \/ ClientStep(c),
           NEW j \in Jobs, Safe(j)
    PROVE  Safe(j)'
  <1>1. c \in Threads
    BY ThreadFacts
  <1> USE <1>1, ThreadFacts DEF At
  <1>2. ASSUME NEW i \in Jobs, EnqCreate(c, i) PROVE Safe(j)'
    <2>1. Frame(c)
      BY <1>2, FrameFacts DEF EnqCreate, callback
    <2> QED
      BY <1>2, <2>1, KeepSafe, SameChannel
         DEF EnqCreate, Responsible, Goto, LocalsOK, pool, redis, history
  <1>3. ASSUME NEW i \in Jobs, CancelInPool(c, i) PROVE Safe(j)'
    <2>1. Frame(c)
      BY <1>3, FrameFacts DEF CancelInPool, callback
    <2> QED
      BY <1>3, <2>1, KeepSafe, SameChannel
         DEF CancelInPool, Responsible, Goto, LocalsOK, pool, redis, history
  <1>4. CASE EnqSet(c)
    <2>1. Frame(c)
      BY <1>4, FrameFacts DEF EnqSet, callback
    <2>2. CASE j = job[c]
      BY <1>4, <2>1, <2>2, NowSafe
         DEF EnqSet, RestOK, LocalsOK, Responsible, pool, redis, history, Goto
    <2>3. CASE j # job[c]
      BY <1>4, <2>1, <2>3, KeepSafe, SameChannel
         DEF EnqSet, RestOK, Responsible, pool, redis, history
    <2> QED
      BY <2>2, <2>3
  <1>5. CASE EnqAdd(c)
    <2>1. Frame(c)
      BY <1>5, FrameFacts DEF EnqAdd, callback
    <2>2. CASE j = job[c]
      BY <1>5, <2>1, <2>2, NowSafe, AtHand
         DEF EnqAdd, RestOK, LocalsOK, Responsible, pool, redis, history
    <2>3. CASE j # job[c]
      BY <1>5, <2>1, <2>3, KeepSafe, SameChannel
         DEF EnqAdd, RestOK, Responsible, pool, redis, history
    <2> QED
      BY <2>2, <2>3
  <1>6. CASE CancelGet(c)
    <2>1. Frame(c)
      BY <1>6, FrameFacts DEF CancelGet, callback
    <2> QED
      BY <1>6, <2>1, KeepSafe, SameChannel
         DEF CancelGet, Responsible, Goto, LocalsOK, pool, redis, history, Return, Read
  <1>7. CASE CancelSet(c)
    <2>1. Frame(c)
      BY <1>7, FrameFacts DEF CancelSet, callback
    <2>2. CASE j = job[c]
      BY <1>7, <2>1, <2>2, NowSafe
         DEF CancelSet, RestOK, LocalsOK, Responsible, pool, redis, history
    <2>3. CASE j # job[c]
      BY <1>7, <2>1, <2>3, KeepSafe, SameChannel
         DEF CancelSet, RestOK, Responsible, pool, redis, history
    <2> QED
      BY <2>2, <2>3
  <1>8. CASE CancelRemQueue(c)
    <2>1. Frame(c)
      BY <1>8, FrameFacts DEF CancelRemQueue, callback
    <2>2. CASE j = job[c]
      BY <1>8, <2>1, <2>2, NowSafe
         DEF CancelRemQueue, RestOK, LocalsOK, Responsible, pool, redis, history,
             CancelMarked
    <2>3. CASE j # job[c]
      BY <1>8, <2>1, <2>3, KeepSafe, SameChannel
         DEF CancelRemQueue, RestOK, Responsible, pool, redis, history
    <2> QED
      BY <2>2, <2>3
  <1>9. CASE CancelRemRunning(c)
    <2>1. Frame(c)
      BY <1>9, FrameFacts DEF CancelRemRunning, callback
    <2> QED
      BY <1>9, <2>1, KeepSafe, SameChannel
         DEF CancelRemRunning, Responsible, Goto, LocalsOK, pool, redis, history
  <1>10. CASE CancelDbGet(c)
    <2>1. Frame(c)
      BY <1>10, FrameFacts DEF CancelDbGet, callback
    <2> QED
      BY <1>10, <2>1, KeepSafe, SameChannel
         DEF CancelDbGet, Responsible, Goto, LocalsOK, pool, redis, history
  <1>11. CASE CancelDbPut(c)
    <2>1. Frame(c)
      BY <1>11, FrameFacts DEF CancelDbPut, callback
    <2> QED
      BY <1>11, <2>1, KeepSafe, SameChannel
         DEF CancelDbPut, Responsible, Goto, LocalsOK, pool, redis, history, Return
  <1>12. CASE EnqDel(c)
    <2>1. Frame(c)
      BY <1>12, FrameFacts DEF EnqDel, callback
    <2>2. CASE j = job[c]
      BY <1>12, <2>2, StatusFacts DEF EnqDel, RestOK, Safe, Unfinished
    <2>3. CASE j # job[c]
      BY <1>12, <2>1, <2>3, KeepSafe, SameChannel
         DEF EnqDel, RestOK, Responsible, pool, redis, history
    <2> QED
      BY <2>2, <2>3
  <1> QED
    BY <1>2, <1>3, <1>4, <1>5, <1>6, <1>7, <1>8, <1>9, <1>10, <1>11, <1>12
       DEF Request, ClientStep

\* The steps of queue.Fail keep every job safe.
LEMMA FailSafe ==
    ASSUME RestOK, LocalsOK, NEW t \in Workers \cup {Poller}, FailStep(t),
           NEW j \in Jobs, Safe(j)
    PROVE  Safe(j)'
  <1>1. t \in Threads
    BY ThreadFacts
  <1> USE <1>1, ThreadFacts, StatusFacts DEF At
  <1>2. CASE FailGet(t)
    <2>1. Frame(t)
      BY <1>2, FrameFacts DEF FailGet, callback
    <2>2. CASE j = job[t]
      BY <1>2, <2>1, <2>2, NowSafe, KeepSafe, SameChannel
         DEF FailGet, RestOK, LocalsOK, Responsible, pool, redis, history, Goto,
             Unfinished, callback
    <2>3. CASE j # job[t]
      BY <1>2, <2>1, <2>3, KeepSafe, SameChannel
         DEF FailGet, RestOK, Responsible, pool, redis, history
    <2> QED
      BY <2>2, <2>3
  <1>3. CASE FailSet(t)
    <2>1. Frame(t)
      BY <1>3, FrameFacts DEF FailSet, callback
    <2>2. CASE j = job[t]
      <3>1. CASE CanRetry(snap[t])
        <4>1. Responsible(t, j)'
          BY <1>3, <2>2, <3>1 DEF FailSet, LocalsOK, Responsible, Goto, Read
        <4> QED
          BY <4>1, NowSafe
      <3>2. CASE ~CanRetry(snap[t])
        <4>1. data'[j].status = "failed"
          BY <1>3, <2>2, <3>2 DEF FailSet, RestOK
        <4> QED
          BY <4>1, NowSafe DEF Unfinished
      <3> QED
        BY <3>1, <3>2
    <2>3. CASE j # job[t]
      BY <1>3, <2>1, <2>3, KeepSafe, SameChannel
         DEF FailSet, RestOK, Responsible, pool, redis, history
    <2> QED
      BY <2>2, <2>3
  <1>4. CASE FailRem(t)
    <2>1. Frame(t)
      BY <1>4, FrameFacts DEF FailRem, callback
    <2>2. CASE j = job[t]
      BY <1>4, <2>1, <2>2, KeepSafe, SameChannel
         DEF FailRem, RestOK, LocalsOK, Responsible, pool, redis, history, Goto
    <2>3. CASE j # job[t]
      BY <1>4, <2>1, <2>3, KeepSafe, SameChannel
         DEF FailRem, RestOK, Responsible, pool, redis, history
    <2> QED
      BY <2>2, <2>3
  <1>5. CASE FailAdd(t)
    <2>1. Frame(t)
      BY <1>5, FrameFacts DEF FailAdd, callback
    <2>2. CASE j = job[t]
      BY <1>5, <2>1, <2>2, NowSafe, KeepSafe, SameChannel, AtHand
         DEF FailAdd, RestOK, LocalsOK, Responsible, pool, redis, history
    <2>3. CASE j # job[t]
      BY <1>5, <2>1, <2>3, KeepSafe, SameChannel
         DEF FailAdd, RestOK, Responsible, pool, redis, history
    <2> QED
      BY <2>2, <2>3
  <1> QED
    BY <1>2, <1>3, <1>4, <1>5 DEF FailStep

\* The steps of queue.requeueJob keep every job safe.
LEMMA RequeueSafe ==
    ASSUME RestOK, LocalsOK, NEW t \in {Poller, Recoverer}, RequeueStep(t),
           NEW j \in Jobs, Safe(j)
    PROVE  Safe(j)'
  <1>1. t \in Threads
    BY ThreadFacts
  <1> USE <1>1, ThreadFacts, StatusFacts DEF At
  <1>2. CASE RequeueGet(t)
    <2>1. Frame(t)
      BY <1>2, FrameFacts DEF RequeueGet, callback
    <2> QED
      BY <1>2, <2>1, KeepSafe, SameChannel
         DEF RequeueGet, Responsible, Goto, LocalsOK, pool, redis, history, Return, Read
  <1>3. CASE RequeueRem(t)
    <2>1. Frame(t)
      BY <1>3, FrameFacts DEF RequeueRem, callback
    <2> QED
      BY <1>3, <2>1, KeepSafe, SameChannel
         DEF RequeueRem, Responsible, Goto, LocalsOK, pool, redis, history
  <1>4. CASE RequeueSet(t)
    <2>1. Frame(t)
      BY <1>4, FrameFacts DEF RequeueSet, callback
    <2>2. CASE j = job[t]
      BY <1>4, <2>1, <2>2, NowSafe
         DEF RequeueSet, RestOK, LocalsOK, Responsible, pool, redis, history, Goto
    <2>3. CASE j # job[t]
      BY <1>4, <2>1, <2>3, KeepSafe, SameChannel
         DEF RequeueSet, RestOK, Responsible, pool, redis, history
    <2> QED
      BY <2>2, <2>3
  <1>5. CASE RequeueAdd(t)
    <2>1. Frame(t)
      BY <1>5, FrameFacts DEF RequeueAdd, callback
    <2>2. CASE j = job[t]
      BY <1>5, <2>1, <2>2, NowSafe, AtHand
         DEF RequeueAdd, RestOK, LocalsOK, Responsible, pool, redis, history
    <2>3. CASE j # job[t]
      BY <1>5, <2>1, <2>3, KeepSafe, SameChannel
         DEF RequeueAdd, RestOK, Responsible, pool, redis, history
    <2> QED
      BY <2>2, <2>3
  <1> QED
    BY <1>2, <1>3, <1>4, <1>5 DEF RequeueStep

\* The steps of the queue processor keep every job safe.
LEMMA PollerSafe ==
    ASSUME RestOK, LocalsOK, PollerStep,
           NEW j \in Jobs, Safe(j)
    PROVE  Safe(j)'
  <1>1. Poller \in Threads
    BY ThreadFacts
  <1> USE <1>1, ThreadFacts, StatusFacts DEF At
  <1>2. CASE PollTick
    <2>1. Frame(Poller)
      BY <1>2, FrameFacts DEF PollTick, callback
    <2> QED
      BY <1>2, <2>1, KeepSafe, SameChannel
         DEF PollTick, Responsible, Goto, LocalsOK, pool, redis, history
  <1>3. CASE PollExit
    <2>1. Frame(Poller)
      BY <1>3, FrameFacts DEF PollExit, callback
    <2> QED
      BY <1>3, <2>1, KeepSafe, SameChannel
         DEF PollExit, Responsible, Goto, LocalsOK, pool, redis, history
  <1>4. CASE DeqNone
    <2>1. Frame(Poller)
      BY <1>4, FrameFacts DEF DeqNone, callback
    <2> QED
      BY <1>4, <2>1, KeepSafe, SameChannel
         DEF DeqNone, Responsible, Goto, LocalsOK, pool, redis, history
  <1>5. ASSUME NEW i \in Jobs, DeqMove(i) PROVE Safe(j)'
    <2>1. Frame(Poller)
      BY <1>5, FrameFacts DEF DeqMove, callback
    <2>2. CASE j = i
      BY <1>5, <2>1, <2>2, NowSafe
         DEF DeqMove, RestOK, LocalsOK, Responsible, pool, redis, history, Goto
    <2>3. CASE j # i
      BY <1>5, <2>1, <2>3, KeepSafe, SameChannel
         DEF DeqMove, RestOK, Responsible, pool, redis, history
    <2> QED
      BY <2>2, <2>3
  <1>6. CASE DeqGet
    <2>1. Frame(Poller)
      BY <1>6, FrameFacts DEF DeqGet, callback
    <2>2. CASE j = job[Poller]
      BY <1>6, <2>1, <2>2, NowSafe
         DEF DeqGet, RestOK, LocalsOK, Responsible, pool, redis, history, Goto,
             Unfinished
    <2>3. CASE j # job[Poller]
      BY <1>6, <2>1, <2>3, KeepSafe, SameChannel
         DEF DeqGet, RestOK, Responsible, pool, redis, history
    <2> QED
      BY <2>2, <2>3
  <1>7. CASE DeqSet
    <2>1. Frame(Poller)
      BY <1>7, FrameFacts DEF DeqSet, callback
    <2>2. CASE j = job[Poller]
      BY <1>7, <2>1, <2>2, NowSafe
         DEF DeqSet, RestOK, LocalsOK, Responsible, pool, redis, history, Goto
    <2>3. CASE j # job[Poller]
      BY <1>7, <2>1, <2>3, KeepSafe, SameChannel
         DEF DeqSet, RestOK, Responsible, pool, redis, history
    <2> QED
      BY <2>2, <2>3
  <1>8. CASE Submit
    <2>1. Frame(Poller)
      BY <1>8, FrameFacts DEF Submit, callback
    <2>2. CASE j = job[Poller]
      BY <1>8, <2>2, InChanAppend DEF Submit, Safe
    <2>3. CASE j # job[Poller]
      <3>1. job[Poller] \in Jobs
        BY <1>8, AtHand DEF Submit
      <3>2. InChan(j) => InChan(j)'
        BY <1>8, <3>1, InChanAppend DEF Submit
      <3> QED
        BY <1>8, <2>1, <2>3, <3>2, KeepSafe DEF Submit, Responsible, redis, history
    <2> QED
      BY <2>2, <2>3
  <1>9. CASE SubmitRefused
    <2>1. Frame(Poller)
      BY <1>9, FrameFacts DEF SubmitRefused, callback
    <2>2. CASE j = job[Poller]
      BY <1>9, <2>1, <2>2, NowSafe
         DEF SubmitRefused, RestOK, LocalsOK, Responsible, pool, redis, history, Goto
    <2>3. CASE j # job[Poller]
      BY <1>9, <2>1, <2>3, KeepSafe, SameChannel
         DEF SubmitRefused, RestOK, Responsible, pool, redis, history
    <2> QED
      BY <2>2, <2>3
  <1> QED
    BY <1>2, <1>3, <1>4, <1>5, <1>6, <1>7, <1>8, <1>9, FailSafe, RequeueSafe
       DEF PollerStep

\* The steps of a pool worker keep every job safe.
LEMMA WorkerSafe ==
    ASSUME RestOK, LocalsOK, FirstRound, NEW w \in Workers,
           WorkerStep(w),
           NEW j \in Jobs, Safe(j)
    PROVE  Safe(j)'
  <1>1. w \in Threads
    BY ThreadFacts
  <1> USE <1>1, ThreadFacts, StatusFacts DEF At
  <1>2. CASE WorkerExit(w)
    <2>1. Frame(w)
      BY <1>2, FrameFacts DEF WorkerExit, callback
    <2> QED
      BY <1>2, <2>1, KeepSafe, SameChannel
         DEF WorkerExit, Responsible, Goto, LocalsOK, pool, redis, history
  <1>3. CASE Take(w)
    <2>1. Frame(w)
      BY <1>3, FrameFacts DEF Take, callback
    <2>2. CASE j = Head(jobChan)
      BY <1>3, <2>1, <2>2, NowSafe, ChannelFacts
         DEF Take, RestOK, LocalsOK, Responsible, pool, redis, history, Goto
    <2>3. CASE j # Head(jobChan)
      BY <1>3, <2>1, <2>3, KeepSafe, SameChannel, InChanTail
         DEF Take, RestOK, Responsible, pool, redis, history
    <2> QED
      BY <2>2, <2>3
  <1>4. CASE Register(w)
    <2>1. Frame(w)
      BY <1>4, FrameFacts DEF Register, callback
    <2>2. CASE j = job[w]
      BY <1>4, <2>1, <2>2, NowSafe
         DEF Register, RestOK, LocalsOK, Responsible, pool, redis, history, Goto
    <2>3. CASE j # job[w]
      BY <1>4, <2>1, <2>3, KeepSafe, SameChannel
         DEF Register, RestOK, Responsible, pool, redis, history
    <2> QED
      BY <2>2, <2>3
  <1>5. ASSUME NEW o \in {"ok", "err"}, Execute(w, o) PROVE Safe(j)'
    <2>1. Frame(w)
      BY <1>5, FrameFacts DEF Execute, callback
    <2>2. CASE j = job[w]
      BY <1>5, <2>1, <2>2, NowSafe
         DEF Execute, RestOK, LocalsOK, Responsible, pool, redis, history, Goto,
             FirstStep, FirstRound
    <2>3. CASE j # job[w]
      BY <1>5, <2>1, <2>3, KeepSafe, SameChannel
         DEF Execute, RestOK, Responsible, pool, redis, history
    <2> QED
      BY <2>2, <2>3
  <1>6. CASE CompleteGet(w)
    <2>1. Frame(w)
      BY <1>6, FrameFacts DEF CompleteGet, callback
    <2>2. CASE j = job[w]
      BY <1>6, <2>1, <2>2, NowSafe, KeepSafe, SameChannel
         DEF CompleteGet, RestOK, LocalsOK, Responsible, pool, redis, history, Goto,
             Unfinished, callback
    <2>3. CASE j # job[w]
      BY <1>6, <2>1, <2>3, KeepSafe, SameChannel
         DEF CompleteGet, RestOK, Responsible, pool, redis, history
    <2> QED
      BY <2>2, <2>3
  <1>7. CASE CompleteSet(w)
    <2>1. Frame(w)
      BY <1>7, FrameFacts DEF CompleteSet, callback
    <2>2. CASE j = job[w]
      <3>1. data'[j].status = "completed"
        BY <1>7, <2>2 DEF CompleteSet, RestOK
      <3> QED
        BY <3>1, NowSafe DEF Unfinished
    <2>3. CASE j # job[w]
      BY <1>7, <2>1, <2>3, KeepSafe, SameChannel
         DEF CompleteSet, RestOK, Responsible, pool, redis, history
    <2> QED
      BY <2>2, <2>3
  <1>8. CASE CompleteRem(w)
    <2>1. Frame(w)
      BY <1>8, FrameFacts DEF CompleteRem, callback
    <2> QED
      BY <1>8, <2>1, KeepSafe, SameChannel
         DEF CompleteRem, Responsible, Goto, LocalsOK, pool, redis, history
  <1>9. CASE DbGet(w)
    <2>1. Frame(w)
      BY <1>9, FrameFacts DEF DbGet, NextCallback, Frame, Goto, Read, LocalsOK, RestOK
    <2> QED
      BY <1>9, <2>1, KeepSafe, SameChannel
         DEF DbGet, Responsible, Goto, LocalsOK, pool, redis, history
  <1>10. CASE DbPut(w)
    <2>1. Frame(w)
      BY <1>10, FrameFacts DEF DbPut, NextCallback, Frame, Goto, Read, LocalsOK, RestOK
    <2> QED
      BY <1>10, <2>1, KeepSafe, SameChannel
         DEF DbPut, Responsible, Goto, LocalsOK, pool, redis, history
  <1>11. CASE Unregister(w)
    <2>1. Frame(w)
      BY <1>11, FrameFacts DEF Unregister, Frame, Goto, LocalsOK
    <2> QED
      BY <1>11, <2>1, KeepSafe, SameChannel
         DEF Unregister, Responsible, Goto, LocalsOK, pool, redis, history
  <1> QED
    BY <1>2, <1>3, <1>4, <1>5, <1>6, <1>7, <1>8, <1>9, <1>10, <1>11, FailSafe
       DEF WorkerStep

\* The steps of the recovery processor keep every job safe.
LEMMA RecovererSafe ==
    ASSUME RestOK, LocalsOK, RecovererStep,
           NEW j \in Jobs, Safe(j)
    PROVE  Safe(j)'
  <1>1. Recoverer \in Threads
    BY ThreadFacts
  <1> USE <1>1, ThreadFacts DEF At
  <1>2. CASE RecoverList
    <2>1. Frame(Recoverer)
      BY <1>2, FrameFacts DEF RecoverList, callback
    <2> QED
      BY <1>2, <2>1, KeepSafe, SameChannel
         DEF RecoverList, Responsible, Goto, LocalsOK, pool, redis, history
  <1>3. ASSUME NEW i \in Jobs, RecoverNext(i) PROVE Safe(j)'
    <2>1. Frame(Recoverer)
      BY <1>3, FrameFacts DEF RecoverNext, callback
    <2> QED
      BY <1>3, <2>1, KeepSafe, SameChannel
         DEF RecoverNext, Responsible, Goto, LocalsOK, pool, redis, history
  <1>4. CASE RecoverDone
    <2>1. Frame(Recoverer)
      BY <1>4, FrameFacts DEF RecoverDone, callback
    <2> QED
      BY <1>4, <2>1, KeepSafe, SameChannel
         DEF RecoverDone, Responsible, Goto, LocalsOK, pool, redis, history
  <1>5. CASE RecoverExit
    <2>1. Frame(Recoverer)
      BY <1>5, FrameFacts DEF RecoverExit, callback
    <2> QED
      BY <1>5, <2>1, KeepSafe, SameChannel
         DEF RecoverExit, Responsible, Goto, LocalsOK, pool, redis, history
  <1> QED
    BY <1>2, <1>3, <1>4, <1>5, RequeueSafe DEF RecovererStep

\* Time, DeleteJob and the cleanup keep every job safe.
LEMMA EnvironmentSafe ==
    ASSUME RestOK, LocalsOK, NEW j \in Jobs, Safe(j),
           \E i \in Jobs : DeleteJob(i) \/ Cleanup(i) \/ LeaseExpires(i) \/ DelayElapses(i)
    PROVE  Safe(j)'
  <1>1. ASSUME NEW i \in Jobs, DeleteJob(i) PROVE Safe(j)'
    BY <1>1, KeepSafeIdle DEF DeleteJob, redis, pool, callback
  <1>2. ASSUME NEW i \in Jobs, Cleanup(i) PROVE Safe(j)'
    <2>1. data'[j].status \in Unfinished => data[j].status \in Unfinished
      BY <1>2, StatusFacts DEF Cleanup, RestOK, Unfinished
    <2> QED
      BY <1>2, <2>1, KeepSafeIdle DEF Cleanup, pool, callback, history
  <1>3. ASSUME NEW i \in Jobs, LeaseExpires(i) PROVE Safe(j)'
    BY <1>3, KeepSafeIdle DEF LeaseExpires, pool, callback
  <1>4. ASSUME NEW i \in Jobs, DelayElapses(i) PROVE Safe(j)'
    BY <1>4, KeepSafeIdle DEF DelayElapses, RestOK, pool, callback, history
  <1> QED
    BY <1>1, <1>2, <1>3, <1>4

\* An event that is counted is no longer absent.
LEMMA SpendFacts ==
    ASSUME RestOK, NEW k \in Kinds, Spend(k)
    PROVE  /\ used'[k] # 0
           /\ \A i \in Kinds : used'[i] = 0 => used[i] = 0
  BY DEF RestOK, Spend

\* The steps that leave the counts of events alone.
LEMMA Uncounted ==
    ASSUME [Next]_vars
    PROVE  UNCHANGED used \/ \E k \in Kinds : Spend(k)
  <1>1. CASE \E c \in Clients : Request(c) \/ ClientStep(c)
    BY <1>1 DEF Request, ClientStep, EnqCreate, EnqSet, EnqAdd, EnqDel, CancelInPool, CancelGet, CancelSet,
        CancelRemQueue, CancelRemRunning, CancelDbGet, CancelDbPut, history, Kinds
  <1>2. ASSUME NEW t, FailStep(t) \/ RequeueStep(t) PROVE UNCHANGED used
    BY <1>2 DEF FailStep, FailGet, FailSet, FailRem, FailAdd, RequeueStep, RequeueGet,
        RequeueRem, RequeueSet, RequeueAdd, history
  <1>3. CASE PollerStep
    BY <1>2, <1>3 DEF PollerStep, PollTick, PollExit, DeqMove, DeqNone, DeqGet, DeqSet, Submit,
        SubmitRefused, history
  <1>4. CASE \E w \in Workers : WorkerStep(w)
    BY <1>2, <1>4 DEF WorkerStep, WorkerExit, Take, Register, Execute, CompleteGet, CompleteSet,
        CompleteRem, DbGet, DbPut, Unregister, history
  <1>5. CASE RecovererStep
    BY <1>2, <1>5 DEF RecovererStep, RecoverList, RecoverNext, RecoverDone, RecoverExit, history
  <1>6. CASE Environment
    BY <1>6, FailedCommand DEF Environment, DeleteJob, Cleanup, LeaseExpires, DataExpires,
        DelayElapses, Stop, PoolStop, CancelAllJobs, Crash, Restart, CallbackDbError, CancelDbError,
        history, Kinds
  <1>7. CASE UNCHANGED vars
    BY <1>7 DEF vars
  <1> QED
    BY <1>1, <1>3, <1>4, <1>5, <1>6, <1>7 DEF Next

\* Calm ends once and for all.
LEMMA CalmBefore == RestOK /\ [Next]_vars /\ Calm' => Calm
  BY Uncounted, SpendFacts DEF Calm, Without, Kinds

\* What a calm step can be.
LEMMA CalmSteps ==
    ASSUME RestOK, [Next]_vars, Calm', phase = "running"
    PROVE  \/ \E c \in Clients : Request(c) \/ ClientStep(c)
           \/ PollerStep
           \/ \E w \in Workers : WorkerStep(w)
           \/ RecovererStep
           \/ \E i \in Jobs : DeleteJob(i) \/ Cleanup(i) \/ LeaseExpires(i) \/ DelayElapses(i)
           \/ UNCHANGED vars
  <1>1. \A k \in {"fault", "crash", "ttl", "stop"} : ~Spend(k)
    BY SpendFacts DEF Calm, Without, Kinds
  <1> QED
    BY <1>1, FailedCommand DEF Next, Environment, DataExpires, Stop, PoolStop, CancelAllJobs,
        Crash, Restart, CallbackDbError, CancelDbError

\* The support of NoLostJob is preserved by every step.
LEMMA SupportStep ==
    ASSUME RestOK, LocalsOK, Support, [Next]_vars
    PROVE  Support'
  <1> SUFFICES ASSUME Calm' PROVE FirstRound' /\ CancelMarked' /\ phase' = "running"
    BY DEF Support
  <1>1. FirstRound /\ CancelMarked /\ phase = "running"
    BY CalmBefore DEF Support
  <1> USE <1>1, ThreadFacts DEF At
  <1>2. ASSUME NEW c \in Clients, Request(c) \/ ClientStep(c)
        PROVE  FirstRound' /\ CancelMarked' /\ phase' = "running"
    <2>1. round' = round /\ phase' = "running" /\ \A w \in Workers : pc'[w] = pc[w]
      BY <1>2 DEF Request, ClientStep, EnqCreate, EnqSet, EnqAdd, EnqDel, CancelInPool, CancelGet,
         CancelSet, CancelRemQueue, CancelRemRunning, CancelDbGet, CancelDbPut, callback, pool,
         Goto, Return, LocalsOK
    <2>2. CancelMarked'
      BY <1>2 DEF Request, ClientStep, EnqCreate, EnqSet, EnqAdd, EnqDel, CancelInPool, CancelGet,
         CancelSet, CancelRemQueue, CancelRemRunning, CancelDbGet, CancelDbPut, history,
         Goto, Return, LocalsOK, CancelMarked
    <2> QED
      BY <2>1, <2>2 DEF FirstRound
  <1>3. ASSUME NEW t \in Threads, FailStep(t) \/ RequeueStep(t), t \notin Clients
        PROVE  FirstRound' /\ CancelMarked' /\ phase' = "running"
    <2>1. /\ round' = round /\ phase' = "running" /\ canceled' = canceled
          /\ \A u \in Threads : u # t => pc'[u] = pc[u] /\ job'[u] = job[u]
      BY <1>3 DEF FailStep, FailGet, FailSet, FailRem, FailAdd, RequeueStep, RequeueGet,
         RequeueRem, RequeueSet, RequeueAdd, callback, pool, history, Goto, Return, LocalsOK
    <2>2. pc'[t] \notin {"idle", "register", "exec", "unreg", "exited"}
      BY <1>3 DEF FailStep, FailGet, FailSet, FailRem, FailAdd, RequeueStep, RequeueGet,
         RequeueRem, RequeueSet, RequeueAdd, Goto, Return, LocalsOK, AfterFail, AfterRequeue
    <2> QED
      BY <1>3, <2>1, <2>2 DEF FirstRound, CancelMarked
  <1>4. CASE PollerStep
    <2>1. CASE FailStep(Poller) \/ RequeueStep(Poller)
      BY <1>3, <2>1
    <2>2. CASE ~(FailStep(Poller) \/ RequeueStep(Poller))
      <3>1. /\ round' = round /\ phase' = "running" /\ canceled' = canceled
            /\ \A u \in Threads : u # Poller => pc'[u] = pc[u] /\ job'[u] = job[u]
        BY <1>4, <2>2 DEF PollerStep, PollTick, PollExit, DeqMove, DeqNone, DeqGet, DeqSet,
           Submit, SubmitRefused, callback, pool, history, Goto, Return, LocalsOK
      <3> QED
        BY <3>1 DEF FirstRound, CancelMarked
    <2> QED
      BY <2>1, <2>2
  <1>5. ASSUME NEW w \in Workers, WorkerStep(w)
        PROVE  FirstRound' /\ CancelMarked' /\ phase' = "running"
    <2>1. CASE FailStep(w)
      BY <1>3, <2>1
    <2>2. CASE ~FailStep(w)
      <3>1. /\ phase' = "running" /\ canceled' = canceled
            /\ \A u \in Threads : u # w => pc'[u] = pc[u] /\ job'[u] = job[u]
            /\ \A v \in Workers : v # w => round'[v] = round[v]
        BY <1>5, <2>2 DEF WorkerStep, WorkerExit, Take, Register, Execute, CompleteGet,
           CompleteSet, CompleteRem, DbGet, DbPut, Unregister, NextCallback, callback, pool,
           history, Goto, LocalsOK, RestOK
      <3>2. pc'[w] \in {"idle", "register", "exec", "unreg", "exited"} => round'[w] = 1
        BY <1>5, <2>2 DEF WorkerStep, WorkerExit, Take, Register, Execute, CompleteGet,
           CompleteSet, CompleteRem, DbGet, DbPut, Unregister, NextCallback, FirstStep, callback,
           Goto, LocalsOK, RestOK, FirstRound
      <3> QED
        BY <3>1, <3>2 DEF FirstRound, CancelMarked
    <2> QED
      BY <2>1, <2>2
  <1>6. CASE RecovererStep
    <2>1. CASE RequeueStep(Recoverer)
      BY <1>3, <2>1
    <2>2. CASE ~RequeueStep(Recoverer)
      <3>1. /\ round' = round /\ phase' = "running" /\ canceled' = canceled
            /\ \A u \in Threads : u # Recoverer => pc'[u] = pc[u] /\ job'[u] = job[u]
        BY <1>6, <2>2 DEF RecovererStep, RecoverList, RecoverNext, RecoverDone, RecoverExit,
           callback, pool, history, Goto, LocalsOK
      <3> QED
        BY <3>1 DEF FirstRound, CancelMarked
    <2> QED
      BY <2>1, <2>2
  <1>7. CASE \E i \in Jobs : DeleteJob(i) \/ Cleanup(i) \/ LeaseExpires(i) \/ DelayElapses(i)
    BY <1>7 DEF DeleteJob, Cleanup, LeaseExpires, DelayElapses, callback, pool, history,
       FirstRound, CancelMarked
  <1>8. CASE UNCHANGED vars
    BY <1>8 DEF vars, FirstRound, CancelMarked
  <1> QED
    BY <1>2, <1>4, <1>5, <1>6, <1>7, <1>8, CalmSteps

\* The inductive invariant behind NoLostJob.
NoLostInv == RestOK /\ LocalsOK /\ Support /\ NoLostJob

\* It holds in the beginning, when there is no job.
LEMMA NoLostInit == Init => NoLostInv
  <1> SUFFICES ASSUME Init PROVE NoLostInv
    OBVIOUS
  <1>1. Support
    BY ThreadFacts DEF Init, Support, FirstRound, CancelMarked
  <1>2. NoLostJob
    BY StatusFacts DEF Init, NoLostJob, Unfinished
  <1> QED
    BY <1>1, <1>2, InitType DEF NoLostInv

\* Every step preserves it.
LEMMA NoLostStep == NoLostInv /\ [Next]_vars => NoLostInv'
  <1> SUFFICES ASSUME RestOK, LocalsOK, Support, NoLostJob, [Next]_vars PROVE NoLostInv'
    BY DEF NoLostInv
  <1>1. RestOK' /\ LocalsOK' /\ Support'
    BY NextType, SupportStep
  <1>2. NoLostJob'
    <2> SUFFICES ASSUME Calm', NEW j \in Jobs PROVE Safe(j)'
      BY DEF NoLostJob, Safe, Calm
    <2>1. Safe(j) /\ FirstRound /\ CancelMarked /\ phase = "running"
      BY CalmBefore, NoLostByJob DEF Support
    <2>2. CASE UNCHANGED vars
      BY <2>1, <2>2, KeepSafeIdle DEF vars
    <2> QED
      BY <2>1, <2>2, CalmSteps, ClientSafe, PollerSafe, WorkerSafe, RecovererSafe,
         EnvironmentSafe
  <1> QED
    BY <1>1, <1>2 DEF NoLostInv

\* Without a failed command, a crash, an expired data key or a shutdown, a job that
\* queue.go accepted is never forgotten, however many leases expire and however
\* the recoverer, the queue processor, the workers and CancelJob interleave.
THEOREM NoJobIsLost == Spec => []NoLostJob
  <1>1. NoLostInv => NoLostJob
    BY DEF NoLostInv
  <1> QED
    BY <1>1, NoLostInit, NoLostStep, PTL DEF Spec

-------------------------------------------------------------------------------
(* The cancel functions *)

\* Labels at which a worker has no cancel function of its own.
Unregistered == {"idle", "register", "exited"}

\* A step that keeps every worker where it owns what it owns.
Undisturbed ==
    /\ UNCHANGED cancelFns
    /\ \A w \in Workers :
          \/ pc'[w] = pc[w] /\ job'[w] = job[w]
          \/ /\ pc'[w] \in WorkerLabels
             /\ \/ pc[w] \in Unregistered
                \/ pc'[w] \notin Unregistered /\ job'[w] = job[w]

\* The invariant: owned cancel functions, and workers that do a worker's work (so
\* that no failed command of Enqueue or Dequeue could send one to its idle loop).
Owned == CancelFnsOwned /\ \A w \in Workers : pc[w] \in WorkerLabels

\* Such a step keeps the cancel functions owned.
LEMMA OwnedKept ==
    ASSUME RestOK, Owned, Undisturbed
    PROVE  Owned'
  BY DEF RestOK, Owned, CancelFnsOwned, Undisturbed, Unregistered

\* A goroutine that moves on and keeps its job does not disturb, when it is a worker
\* that has nothing registered or goes on with what it has.
LEMMA GotoUndisturbed ==
    ASSUME LocalsOK, NEW t \in Threads, NEW l, Goto(t, l), UNCHANGED <<cancelFns, job>>,
           t \in Workers => /\ l \in WorkerLabels
                            /\ pc[t] \in Unregistered \/ l \notin Unregistered
    PROVE  Undisturbed
  BY ThreadFacts DEF LocalsOK, Goto, Undisturbed

\* Nor does one that returns from a queue operation.
LEMMA ReturnUndisturbed ==
    ASSUME LocalsOK, NEW t \in Threads, NEW l, Return(t, l), UNCHANGED cancelFns,
           t \in Workers => l \in WorkerLabels \ Unregistered
    PROVE  Undisturbed
  BY ThreadFacts DEF LocalsOK, Goto, Return, Undisturbed

\* Nor does one that takes up a job without being a registered worker.
LEMMA TakeUpUndisturbed ==
    ASSUME LocalsOK, NEW t \in Threads, NEW l, NEW j, Goto(t, l), UNCHANGED cancelFns,
           job' = [job EXCEPT ![t] = j],
           t \in Workers => l \in WorkerLabels /\ pc[t] \in Unregistered
    PROVE  Undisturbed
  BY ThreadFacts DEF LocalsOK, Goto, Undisturbed

\* The clients leave the workers' cancel functions alone.
LEMMA ClientUndisturbed ==
    ASSUME LocalsOK, NEW c \in Clients, Request(c) \/ ClientStep(c)
    PROVE  Undisturbed
  <1>0. c \in Threads /\ c \notin Workers
    BY ThreadFacts
  <1> USE <1>0 DEF At, Unregistered, WorkerLabels, FailLabels
  <1>1. ASSUME NEW j \in Jobs, EnqCreate(c, j) PROVE Undisturbed
    BY <1>1, TakeUpUndisturbed DEF EnqCreate, pool
  <1>2. ASSUME NEW j \in Jobs, CancelInPool(c, j) PROVE Undisturbed
    BY <1>2, TakeUpUndisturbed DEF CancelInPool
  <1>3. CASE EnqSet(c)
    BY <1>3, GotoUndisturbed DEF EnqSet, pool
  <1>4. CASE EnqAdd(c)
    BY <1>4, ReturnUndisturbed DEF EnqAdd, pool
  <1>5. CASE CancelGet(c)
    BY <1>5, GotoUndisturbed, ReturnUndisturbed DEF CancelGet, pool
  <1>6. CASE CancelSet(c)
    BY <1>6, GotoUndisturbed DEF CancelSet, pool
  <1>7. CASE CancelRemQueue(c)
    BY <1>7, GotoUndisturbed DEF CancelRemQueue, pool
  <1>8. CASE CancelRemRunning(c)
    BY <1>8, GotoUndisturbed DEF CancelRemRunning, pool
  <1>9. CASE CancelDbGet(c)
    BY <1>9, GotoUndisturbed DEF CancelDbGet, pool
  <1>10. CASE CancelDbPut(c)
    BY <1>10, ReturnUndisturbed DEF CancelDbPut, pool
  <1>11. CASE EnqDel(c)
    BY <1>11, ReturnUndisturbed DEF EnqDel, pool
  <1> QED
    BY <1>1, <1>2, <1>3, <1>4, <1>5, <1>6, <1>7, <1>8, <1>9, <1>10, <1>11 DEF Request, ClientStep

\* queue.Fail leaves them alone, and a worker in it keeps its own.
LEMMA FailUndisturbed ==
    ASSUME LocalsOK, NEW t \in Workers \cup {Poller}, FailStep(t)
    PROVE  Undisturbed
  <1>0. t \in Threads
    BY ThreadFacts
  <1> USE <1>0 DEF At, Unregistered, WorkerLabels, FailLabels
  <1>1. CASE FailGet(t)
    BY <1>1, GotoUndisturbed, ReturnUndisturbed DEF FailGet, AfterFail, pool
  <1>2. CASE FailSet(t)
    BY <1>2, GotoUndisturbed DEF FailSet, pool
  <1>3. CASE FailRem(t)
    BY <1>3, GotoUndisturbed DEF FailRem, pool
  <1>4. CASE FailAdd(t)
    BY <1>4, ReturnUndisturbed DEF FailAdd, AfterFail, pool
  <1> QED
    BY <1>1, <1>2, <1>3, <1>4 DEF FailStep

\* So does requeueJob.
LEMMA RequeueUndisturbed ==
    ASSUME LocalsOK, NEW t \in {Poller, Recoverer}, RequeueStep(t)
    PROVE  Undisturbed
  <1>0. t \in Threads /\ t \notin Workers
    BY ThreadFacts
  <1> USE <1>0 DEF At, Unregistered, WorkerLabels, FailLabels
  <1>1. CASE RequeueGet(t)
    BY <1>1, GotoUndisturbed, ReturnUndisturbed DEF RequeueGet, pool
  <1>2. CASE RequeueRem(t)
    BY <1>2, GotoUndisturbed DEF RequeueRem, pool
  <1>3. CASE RequeueSet(t)
    BY <1>3, GotoUndisturbed DEF RequeueSet, pool
  <1>4. CASE RequeueAdd(t)
    BY <1>4, ReturnUndisturbed DEF RequeueAdd, pool
  <1> QED
    BY <1>1, <1>2, <1>3, <1>4 DEF RequeueStep

\* So does the queue processor.
LEMMA PollerUndisturbed ==
    ASSUME LocalsOK, PollerStep
    PROVE  Undisturbed
  <1>0. Poller \in Threads /\ Poller \notin Workers
    BY ThreadFacts
  <1> USE <1>0 DEF At, Unregistered, WorkerLabels, FailLabels
  <1>1. CASE PollTick
    BY <1>1, GotoUndisturbed DEF PollTick, pool
  <1>2. CASE PollExit
    BY <1>2, GotoUndisturbed DEF PollExit, pool
  <1>3. CASE DeqNone
    BY <1>3, GotoUndisturbed DEF DeqNone, pool
  <1>4. CASE DeqGet
    BY <1>4, GotoUndisturbed DEF DeqGet, pool
  <1>5. CASE DeqSet
    BY <1>5, GotoUndisturbed DEF DeqSet, pool
  <1>6. CASE Submit
    BY <1>6, ReturnUndisturbed DEF Submit
  <1>7. CASE SubmitRefused
    BY <1>7, GotoUndisturbed DEF SubmitRefused, pool
  <1>8. ASSUME NEW j \in Jobs, DeqMove(j) PROVE Undisturbed
    BY <1>8, TakeUpUndisturbed DEF DeqMove, pool
  <1>9. CASE FailStep(Poller)
    BY <1>9, FailUndisturbed DEF FailStep
  <1>10. CASE RequeueStep(Poller)
    BY <1>10, RequeueUndisturbed DEF RequeueStep
  <1> QED
    BY <1>1, <1>2, <1>3, <1>4, <1>5, <1>6, <1>7, <1>8, <1>9, <1>10 DEF PollerStep

\* So does the recovery processor.
LEMMA RecovererUndisturbed ==
    ASSUME LocalsOK, RecovererStep
    PROVE  Undisturbed
  <1>0. Recoverer \in Threads /\ Recoverer \notin Workers
    BY ThreadFacts
  <1> USE <1>0 DEF At, Unregistered, WorkerLabels, FailLabels
  <1>1. CASE RecoverList
    BY <1>1, GotoUndisturbed DEF RecoverList, pool
  <1>2. CASE RecoverDone
    BY <1>2, GotoUndisturbed DEF RecoverDone, pool
  <1>3. CASE RecoverExit
    BY <1>3, GotoUndisturbed DEF RecoverExit, pool
  <1>4. ASSUME NEW j \in Jobs, RecoverNext(j) PROVE Undisturbed
    BY <1>4, TakeUpUndisturbed DEF RecoverNext, pool
  <1>5. CASE RequeueStep(Recoverer)
    BY <1>5, RequeueUndisturbed DEF RequeueStep
  <1> QED
    BY <1>1, <1>2, <1>3, <1>4, <1>5 DEF RecovererStep

\* The callbacks keep a worker where its cancel function is registered.
LEMMA NextCallbackUndisturbed ==
    ASSUME LocalsOK, NEW w \in Workers, NextCallback(w), UNCHANGED <<cancelFns, job>>
    PROVE  Undisturbed
  <1>1. w \in Threads
    BY ThreadFacts
  <1>2. CASE round[w] = 1
    BY <1>1, <1>2, GotoUndisturbed DEF NextCallback, FirstStep, Unregistered, WorkerLabels, FailLabels
  <1>3. CASE round[w] # 1
    BY <1>1, <1>3, GotoUndisturbed DEF NextCallback, Unregistered, WorkerLabels
  <1> QED
    BY <1>2, <1>3

\* A worker registers its own cancel function and deletes whatever is registered
\* for its job; its other steps keep it busy with the job.
LEMMA WorkerOwned ==
    ASSUME RestOK, LocalsOK, Owned, NEW w \in Workers, WorkerStep(w)
    PROVE  Owned'
  <1>0. w \in Threads
    BY ThreadFacts
  <1> USE <1>0 DEF At, Unregistered, WorkerLabels, FailLabels
  <1>1. CASE WorkerExit(w)
    BY <1>1, GotoUndisturbed, OwnedKept DEF WorkerExit, pool
  <1>2. CASE Take(w)
    BY <1>2, TakeUpUndisturbed, OwnedKept DEF Take
  <1>3. CASE Register(w)
    <2>1. job[w] \in Jobs
      BY <1>3, AtHand DEF Register
    <2>2. pc'[w] = "exec" /\ job' = job /\ \A v \in Workers : v # w => pc'[v] = pc[v]
      BY <1>3, ThreadFacts DEF Register, Goto, LocalsOK
    <2>3. CancelFnsOwned'
      BY <1>3, <2>1, <2>2 DEF Register, Owned, CancelFnsOwned, RestOK
    <2>4. \A v \in Workers : pc'[v] \in WorkerLabels
      BY <2>2 DEF Owned
    <2> QED
      BY <2>3, <2>4 DEF Owned
  <1>4. ASSUME NEW o \in {"ok", "err"}, Execute(w, o) PROVE Owned'
    BY <1>4, GotoUndisturbed, OwnedKept DEF Execute, FirstStep, pool
  <1>5. CASE CompleteGet(w)
    BY <1>5, GotoUndisturbed, OwnedKept DEF CompleteGet, pool
  <1>6. CASE CompleteSet(w)
    BY <1>6, GotoUndisturbed, OwnedKept DEF CompleteSet, pool
  <1>7. CASE CompleteRem(w)
    BY <1>7, GotoUndisturbed, OwnedKept DEF CompleteRem, pool
  <1>8. CASE FailStep(w)
    BY <1>8, FailUndisturbed, OwnedKept
  <1>9. CASE DbGet(w)
    <2>1. CASE db[job[w]] = Absent
      BY <1>9, <2>1, NextCallbackUndisturbed, OwnedKept DEF DbGet, pool
    <2>2. CASE db[job[w]] # Absent
      BY <1>9, <2>2, GotoUndisturbed, OwnedKept DEF DbGet, pool
    <2> QED
      BY <2>1, <2>2
  <1>10. CASE DbPut(w)
    BY <1>10, NextCallbackUndisturbed, OwnedKept DEF DbPut, pool
  <1>11. CASE Unregister(w)
    <2>1. job[w] \in Jobs
      BY <1>11, AtHand DEF Unregister
    <2>2. \A v \in Workers : v # w => pc'[v] = pc[v] /\ job'[v] = job[v]
      BY <1>11, ThreadFacts DEF Unregister, Goto, LocalsOK
    <2>3. \A j \in Jobs : cancelFns'[j] # w
      BY <1>11, <2>1, ThreadsDistinct DEF Unregister, Owned, CancelFnsOwned, RestOK
    <2>4. \A j \in Jobs, v \in Workers : cancelFns'[j] = v => cancelFns[j] = v
      BY <1>11, <2>1, ThreadsDistinct DEF Unregister, RestOK
    <2>5. pc'[w] = "idle"
      BY <1>11 DEF Unregister, Goto, LocalsOK
    <2> QED
      BY <2>2, <2>3, <2>4, <2>5 DEF Owned, CancelFnsOwned
  <1> QED
    BY <1>1, <1>2, <1>3, <1>4, <1>5, <1>6, <1>7, <1>8, <1>9, <1>10, <1>11 DEF WorkerStep

\* A new process starts without cancel functions.
LEMMA NewProcessOwned ==
    ASSUME NewProcess
    PROVE  Owned'
  BY ThreadsDistinct DEF NewProcess, Owned, CancelFnsOwned, WorkerLabels, Threads

\* A failed Redis command sends a worker on with its job.
LEMMA FailedUndisturbed ==
    ASSUME LocalsOK, Owned, NEW t \in Threads, CommandFails(t)
    PROVE  Undisturbed
  <1>1. ASSUME t \in Workers PROVE ErrorTarget(t) \in WorkerLabels \ Unregistered
    <2>1. pc[t] \in FailLabels \cup {"comp_get", "comp_set", "comp_rem"}
      BY <1>1, FailedCommand DEF Owned, ReturnsError, GoesOn, WorkerLabels, FailLabels
    <2> QED
      BY <1>1, <2>1 DEF ErrorTarget, AfterFail, Unregistered, WorkerLabels, FailLabels
  <1> QED
    BY <1>1, FailedCommand, GotoUndisturbed, ReturnUndisturbed DEF AfterError

\* The environment leaves the cancel functions alone or makes a new process.
LEMMA EnvironmentOwned ==
    ASSUME RestOK, LocalsOK, Owned, Environment
    PROVE  Owned'
  <1>1. ASSUME NEW j \in Jobs,
               \/ DeleteJob(j) \/ Cleanup(j) \/ LeaseExpires(j)
               \/ DataExpires(j) \/ DelayElapses(j)
        PROVE  UNCHANGED <<cancelFns, pc, job>>
    BY <1>1 DEF DeleteJob, Cleanup, LeaseExpires, DataExpires, DelayElapses, pool
  <1>2. ASSUME Stop \/ PoolStop \/ CancelAllJobs
        PROVE  UNCHANGED <<cancelFns, pc, job>>
    BY <1>2 DEF Stop, PoolStop, CancelAllJobs
  <1>3. UNCHANGED <<cancelFns, pc, job>> => Owned'
    BY DEF Owned, CancelFnsOwned
  <1>4. ASSUME Crash \/ Restart PROVE Owned'
    BY <1>4, NewProcessOwned DEF Crash, Restart
  <1>5. ASSUME NEW t \in Threads, CommandFails(t) PROVE Owned'
    BY <1>5, FailedUndisturbed, OwnedKept
  <1>6. ASSUME NEW w \in Workers, CallbackDbError(w) PROVE Owned'
    BY <1>6, NextCallbackUndisturbed, OwnedKept DEF CallbackDbError, pool
  <1>7. ASSUME NEW c \in Clients, CancelDbError(c) PROVE Owned'
    BY <1>7, ReturnUndisturbed, OwnedKept, ThreadFacts DEF CancelDbError, pool
  <1> QED
    BY <1>1, <1>2, <1>3, <1>4, <1>5, <1>6, <1>7 DEF Environment

\* cancelFns never leads to a worker that has gone on to something else: the entry
\* under a job's ID belongs to a worker that is still processing that job, for any
\* number of workers that process the same job at once, expired leases, crashes,
\* shutdowns and failed commands (pool.go, processJob and CancelJob).
THEOREM CancelReachesItsJob == Spec => []CancelFnsOwned
  <1> DEFINE Inv == RestOK /\ LocalsOK /\ Owned
  <1>1. Init => Inv
    BY InitType, ThreadsDistinct DEF Init, Owned, CancelFnsOwned, WorkerLabels, Threads
  <1>2. Inv /\ [Next]_vars => Inv'
    <2> SUFFICES ASSUME Inv, [Next]_vars PROVE Owned'
      BY NextType
    <2>1. ASSUME NEW c \in Clients, Request(c) \/ ClientStep(c) PROVE Owned'
      BY <2>1, ClientUndisturbed, OwnedKept
    <2>2. CASE PollerStep
      BY <2>2, PollerUndisturbed, OwnedKept
    <2>3. ASSUME NEW w \in Workers, WorkerStep(w) PROVE Owned'
      BY <2>3, WorkerOwned
    <2>4. CASE RecovererStep
      BY <2>4, RecovererUndisturbed, OwnedKept
    <2>5. CASE Environment
      BY <2>5, EnvironmentOwned
    <2>6. CASE UNCHANGED vars
      BY <2>6 DEF vars, Owned, CancelFnsOwned, pool
    <2> QED
      BY <2>1, <2>2, <2>3, <2>4, <2>5, <2>6 DEF Next
  <1> QED
    BY <1>1, <1>2, PTL DEF Spec, Owned

===============================================================================
