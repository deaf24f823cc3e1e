-------------------------- MODULE JobScheduler_life --------------------------
(***************************************************************************)
(* Proofs about the life of one job in JobScheduler: who holds it, what    *)
(* its data key says at each point, and how often it may be executed.      *)
(***************************************************************************)
EXTENDS JobScheduler_proofs

-------------------------------------------------------------------------------
(* One step, seen from one job *)

\* A goroutine between two operations holds no job.
Resting == \A t \in Threads : pc[t] \in {"idle", "exited", "deq", "rec"} => job[t] = Nobody

\* The job is in the pool's channel at most once.
ChanOnce(j) ==
    \A i, k \in 1..Len(jobChan) : jobChan[i] = j /\ jobChan[k] = j => i = k

\* A step of thread t leaves the locals of every other thread alone.
Others(t) ==
    \A u \in Threads \ {t} :
        /\ pc'[u] = pc[u] /\ job'[u] = job[u] /\ snap'[u] = snap[u]
        /\ u \in Workers => round'[u] = round[u] /\ outcome'[u] = outcome[u]

\* What Redis, Postgres, the channel and the history hold about job j stays.
SameJob(j) ==
    /\ data'[j] = data[j] /\ queue'[j] = queue[j] /\ running'[j] = running[j]
    /\ db'[j] = db[j] /\ execs'[j] = execs[j]
    /\ j \in dead' <=> j \in dead
    /\ j \in stale' <=> j \in stale
    /\ j \in fresh' <=> j \in fresh
    /\ j \in canceled' <=> j \in canceled
    /\ j \in refused' <=> j \in refused
    /\ j \in unanswered' <=> j \in unanswered
    /\ InChan(j)' <=> InChan(j)
    /\ ChanOnce(j) => ChanOnce(j)'

\* So do the locals of the goroutines that hold it, and nobody takes it up.
SameHolders(j) ==
    \A t \in Threads :
        /\ job'[t] = j <=> job[t] = j
        /\ job[t] = j =>
             /\ pc'[t] = pc[t] /\ snap'[t] = snap[t]
             /\ t \in Workers => round'[t] = round[t] /\ outcome'[t] = outcome[t]

\* The step has nothing to do with job j.
Foreign(j) == SameJob(j) /\ SameHolders(j)

\* An unchanged channel holds each job as before.
LEMMA SameChan == ASSUME UNCHANGED jobChan, NEW j PROVE (InChan(j)' <=> InChan(j)) /\ (ChanOnce(j) => ChanOnce(j)')
  BY DEF InChan, ChanOnce

\* A step of a thread that does not hold j and does not take it up, and that leaves
\* what the servers and the channel say of j alone, has nothing to do with j.
LEMMA ForeignStep ==
    ASSUME NEW t \in Threads, NEW j \in Jobs, Others(t), job[t] # j, job'[t] # j, SameJob(j)
    PROVE  Foreign(j)
  BY DEF Foreign, SameHolders, Others

\* The moves of a goroutine leave the others alone.
LEMMA OthersFacts ==
    ASSUME LocalsOK, RestOK, NEW t \in Threads
    PROVE  /\ \A l : Goto(t, l) /\ UNCHANGED <<job, snap, round, outcome>> => Others(t)
           /\ \A l, r : Goto(t, l) /\ Read(t, r) /\ UNCHANGED <<job, round, outcome>> => Others(t)
           /\ \A l, j : Goto(t, l) /\ job' = [job EXCEPT ![t] = j] /\ UNCHANGED <<snap, round, outcome>>
                        => Others(t)
           /\ \A l : Return(t, l) /\ UNCHANGED <<round, outcome>> => Others(t)
           /\ AfterError(t) /\ UNCHANGED <<round, outcome>> => Others(t)
           /\ NextCallback(t) /\ UNCHANGED <<job, outcome>> => Others(t)
  BY DEF LocalsOK, RestOK, Others, Goto, Read, Return, NextCallback, AfterError

\* What a client's step does to the goroutines and to the jobs it is not about.
LEMMA ClientView ==
    ASSUME RestOK, LocalsOK, Resting, NEW c \in Clients, Request(c) \/ ClientStep(c),
           NEW j \in Jobs
    PROVE  Others(c) /\ (job[c] # j /\ job'[c] # j => Foreign(j))
  <1>1. c \in Threads
    BY ThreadFacts
  <1> USE <1>1 DEF At
  <1>2. Others(c)
    <2>1. ASSUME NEW i \in Jobs, EnqCreate(c, i) \/ CancelInPool(c, i) PROVE Others(c)
      BY <2>1, OthersFacts DEF EnqCreate, CancelInPool, callback
    <2>2. CASE ClientStep(c)
      BY <2>2, OthersFacts DEF ClientStep, EnqSet, EnqAdd, EnqDel, CancelGet, CancelSet, CancelRemQueue,
         CancelRemRunning, CancelDbGet, CancelDbPut, callback
    <2> QED
      BY <2>1, <2>2 DEF Request
  <1>3. ASSUME job[c] # j, job'[c] # j PROVE SameJob(j)
    <2>1. ASSUME NEW i \in Jobs, EnqCreate(c, i) PROVE SameJob(j)
      BY <1>3, <2>1, SameChan DEF EnqCreate, SameJob, RestOK, LocalsOK, redis, pool, history
    <2>2. ASSUME NEW i \in Jobs, CancelInPool(c, i) PROVE SameJob(j)
      BY <1>3, <2>2, SameChan DEF CancelInPool, SameJob, RestOK, LocalsOK, redis, pool, history
    <2>3. CASE ClientStep(c)
      BY <1>3, <2>3, SameChan DEF ClientStep, EnqSet, EnqAdd, EnqDel, CancelGet, CancelSet, CancelRemQueue,
         CancelRemRunning, CancelDbGet, CancelDbPut, DbUpdate, SameJob, RestOK, redis, pool, history
    <2> QED
      BY <2>1, <2>2, <2>3 DEF Request
  <1> QED
    BY <1>2, <1>3, ForeignStep

\* What a step of queue.Fail does to them.
LEMMA FailView ==
    ASSUME RestOK, LocalsOK, NEW t \in Threads, FailStep(t), NEW j \in Jobs
    PROVE  Others(t) /\ (job[t] # j => Foreign(j))
  <1> USE DEF At
  <1>1. Others(t)
    BY OthersFacts DEF FailStep, FailGet, FailSet, FailRem, FailAdd, callback
  <1>2. ASSUME job[t] # j PROVE SameJob(j) /\ job'[t] # j
    <2>1. SameJob(j)
      BY <1>2, SameChan DEF FailStep, FailGet, FailSet, FailRem, FailAdd, SameJob, RestOK, redis,
         pool, history
    <2>2. job'[t] # j
      BY <1>2, ThreadsDistinct DEF FailStep, FailGet, FailSet, FailRem, FailAdd, Return, LocalsOK
    <2> QED
      BY <2>1, <2>2
  <1> QED
    BY <1>1, <1>2, ForeignStep

\* What a step of queue.requeueJob does to them.
LEMMA RequeueView ==
    ASSUME RestOK, LocalsOK, NEW t \in Threads, RequeueStep(t), NEW j \in Jobs
    PROVE  Others(t) /\ (job[t] # j => Foreign(j))
  <1> USE DEF At
  <1>1. Others(t)
    BY OthersFacts DEF RequeueStep, RequeueGet, RequeueRem, RequeueSet, RequeueAdd, callback
  <1>2. ASSUME job[t] # j PROVE SameJob(j) /\ job'[t] # j
    <2>1. SameJob(j)
      BY <1>2, SameChan DEF RequeueStep, RequeueGet, RequeueRem, RequeueSet, RequeueAdd, SameJob,
         RestOK, redis, pool, history
    <2>2. job'[t] # j
      BY <1>2, ThreadsDistinct DEF RequeueStep, RequeueGet, RequeueRem, RequeueSet, RequeueAdd,
         Return, LocalsOK
    <2> QED
      BY <2>1, <2>2
  <1> QED
    BY <1>1, <1>2, ForeignStep

\* Submit adds its job to the channel and changes nothing for the others.
LEMMA ChanAppend ==
    ASSUME RestOK, NEW i \in Jobs, jobChan' = Append(jobChan, i), NEW j \in Jobs
    PROVE  /\ InChan(i)'
           /\ ~InChan(i) => ChanOnce(i)'
           /\ j # i => (InChan(j)' <=> InChan(j)) /\ (ChanOnce(j) => ChanOnce(j)')
  <1>1. /\ Len(jobChan') = Len(jobChan) + 1 /\ jobChan'[Len(jobChan) + 1] = i
        /\ Len(jobChan) \in Nat
        /\ \A k \in 1..Len(jobChan) : jobChan'[k] = jobChan[k]
    BY DEF RestOK
  <1>2. InChan(i)'
    BY <1>1 DEF InChan
  <1>3. ~InChan(i) => ChanOnce(i)'
    BY <1>1 DEF InChan, ChanOnce
  <1>4. j # i => (InChan(j)' <=> InChan(j))
    BY <1>1 DEF InChan
  <1>5. j # i => (ChanOnce(j) => ChanOnce(j)')
    BY <1>1 DEF ChanOnce
  <1> QED
    BY <1>2, <1>3, <1>4, <1>5

\* A worker takes its job out of the channel and changes nothing for the others.
LEMMA ChanTail ==
    ASSUME RestOK, jobChan # <<>>, jobChan' = Tail(jobChan), NEW j \in Jobs
    PROVE  /\ InChan(Head(jobChan))
           /\ ChanOnce(j) => ChanOnce(j)'
           /\ j # Head(jobChan) => (InChan(j)' <=> InChan(j))
           /\ j = Head(jobChan) /\ ChanOnce(j) => ~InChan(j)'
  <1>1. /\ Len(jobChan) \in Nat \ {0} /\ Len(jobChan') = Len(jobChan) - 1
        /\ Head(jobChan) = jobChan[1]
        /\ \A k \in 1..Len(jobChan') : jobChan'[k] = jobChan[k + 1]
    BY DEF RestOK
  <1>2. InChan(Head(jobChan))
    BY <1>1 DEF InChan
  <1>3. ChanOnce(j) => ChanOnce(j)'
    <2> SUFFICES ASSUME ChanOnce(j), NEW i \in 1..Len(jobChan'), NEW k \in 1..Len(jobChan'),
                        jobChan'[i] = j, jobChan'[k] = j
                 PROVE  i = k
      BY DEF ChanOnce
    <2>1. i + 1 \in 1..Len(jobChan) /\ k + 1 \in 1..Len(jobChan)
      BY <1>1
    <2>2. jobChan[i + 1] = j /\ jobChan[k + 1] = j
      BY <1>1
    <2>3. i + 1 = k + 1
      BY <2>1, <2>2 DEF ChanOnce
    <2> QED
      BY <2>3
  <1>4. InChan(j)' => InChan(j)
    BY <1>1 DEF InChan
  <1>5. j # Head(jobChan) => (InChan(j) => InChan(j)')
    BY InChanTail
  <1>6. j = Head(jobChan) /\ ChanOnce(j) => ~InChan(j)'
    <2> SUFFICES ASSUME j = Head(jobChan), ChanOnce(j), NEW k \in 1..Len(jobChan'), jobChan'[k] = j
                 PROVE  FALSE
      BY DEF InChan
    <2>1. k + 1 \in 1..Len(jobChan) /\ 1 \in 1..Len(jobChan) /\ jobChan[k + 1] = j /\ jobChan[1] = j
      BY <1>1
    <2>2. k + 1 = 1
      BY <2>1 DEF ChanOnce
    <2> QED
      BY <2>2
  <1> QED
    BY <1>2, <1>3, <1>4, <1>5, <1>6

\* What a step of the queue processor does to them.
LEMMA PollerView ==
    ASSUME RestOK, LocalsOK, Resting, PollerStep, NEW j \in Jobs
    PROVE  Others(Poller) /\ (job[Poller] # j /\ job'[Poller] # j => Foreign(j))
  <1>1. Poller \in Threads
    BY ThreadFacts
  <1> USE <1>1 DEF At
  <1>2. CASE PollTick \/ PollExit \/ DeqNone \/ DeqGet \/ DeqSet \/ SubmitRefused
    <2>1. Others(Poller)
      BY <1>2, OthersFacts DEF PollTick, PollExit, DeqNone, DeqGet, DeqSet, SubmitRefused, callback
    <2>2. ASSUME job[Poller] # j PROVE SameJob(j)
      BY <1>2, <2>2, SameChan DEF PollTick, PollExit, DeqNone, DeqGet, DeqSet, SubmitRefused,
         SameJob, RestOK, redis, pool, history
    <2> QED
      BY <2>1, <2>2, ForeignStep
  <1>3. ASSUME NEW i \in Jobs, DeqMove(i)
        PROVE  Others(Poller) /\ (job[Poller] # j /\ job'[Poller] # j => Foreign(j))
    <2>1. Others(Poller)
      BY <1>3, OthersFacts DEF DeqMove, callback
    <2>2. ASSUME job'[Poller] # j PROVE SameJob(j)
      <3>1. i # j
        BY <1>3, <2>2 DEF DeqMove, LocalsOK
      <3> QED
        BY <1>3, <3>1, SameChan DEF DeqMove, SameJob, RestOK, pool, history
    <2> QED
      BY <2>1, <2>2, ForeignStep
  <1>4. CASE Submit
    <2>1. Others(Poller)
      BY <1>4, OthersFacts DEF Submit, callback
    <2>2. ASSUME job[Poller] # j PROVE SameJob(j)
      <3>1. job[Poller] \in Jobs
        BY <1>4, AtHand DEF Submit
      <3>2. (InChan(j)' <=> InChan(j)) /\ (ChanOnce(j) => ChanOnce(j)')
        BY <1>4, <2>2, <3>1, ChanAppend DEF Submit
      <3> QED
        BY <1>4, <3>2 DEF Submit, SameJob, redis, history
    <2> QED
      BY <2>1, <2>2, ForeignStep
  <1> QED
    BY <1>2, <1>3, <1>4, FailView, RequeueView DEF PollerStep

\* A pool worker leaves the other goroutines alone.
LEMMA WorkerOthers ==
    ASSUME RestOK, LocalsOK, NEW w \in Workers, WorkerStep(w)
    PROVE  Others(w)
  <1>1. w \in Threads
    BY ThreadFacts
  <1> USE <1>1 DEF At
  <1>2. CASE WorkerExit(w) \/ Register(w) \/ CompleteGet(w) \/ CompleteSet(w) \/ CompleteRem(w)
    BY <1>2, OthersFacts DEF WorkerExit, Register, CompleteGet, CompleteSet, CompleteRem, callback
  <1>3. CASE Take(w)
    BY <1>3, OthersFacts DEF Take, callback
  <1>4. ASSUME NEW o, Execute(w, o) PROVE Others(w)
    BY <1>4 DEF Execute, Others, Goto, LocalsOK, RestOK
  <1>5. CASE DbGet(w) \/ DbPut(w)
    BY <1>5, OthersFacts DEF DbGet, DbPut, callback
  <1>6. CASE Unregister(w)
    BY <1>6 DEF Unregister, Others, Goto, LocalsOK, RestOK
  <1>7. CASE FailStep(w)
    BY <1>7, OthersFacts DEF FailStep, FailGet, FailSet, FailRem, FailAdd, callback
  <1> QED
    BY <1>2, <1>3, <1>4, <1>5, <1>6, <1>7 DEF WorkerStep

\* What a step of a pool worker does to the jobs it is not about.
LEMMA WorkerView ==
    ASSUME RestOK, LocalsOK, Resting, NEW w \in Workers, WorkerStep(w), NEW j \in Jobs
    PROVE  Others(w) /\ (job[w] # j /\ job'[w] # j => Foreign(j))
  <1>1. w \in Threads /\ Others(w)
    BY ThreadFacts, WorkerOthers
  <1> SUFFICES ASSUME job[w] # j, job'[w] # j PROVE Foreign(j)
    BY <1>1
  <1> USE <1>1 DEF At
  <1>2. CASE WorkerExit(w) \/ Register(w) \/ CompleteGet(w) \/ CompleteSet(w) \/ CompleteRem(w)
    <2>1. SameJob(j)
      BY <1>2, SameChan DEF WorkerExit, Register, CompleteGet, CompleteSet, CompleteRem,
         SameJob, RestOK, redis, pool, history
    <2> QED
      BY <2>1, ForeignStep
  <1>3. CASE Take(w)
    <2>1. Head(jobChan) # j
      BY <1>3 DEF Take, LocalsOK
    <2>2. (InChan(j)' <=> InChan(j)) /\ (ChanOnce(j) => ChanOnce(j)')
      BY <1>3, <2>1, ChanTail DEF Take
    <2>3. SameJob(j)
      BY <1>3, <2>2 DEF Take, SameJob, redis, history
    <2> QED
      BY <2>3, ForeignStep
  <1>4. ASSUME NEW o, Execute(w, o) PROVE Foreign(j)
    <2>1. SameJob(j)
      BY <1>4, SameChan DEF Execute, SameJob, redis, pool, history
    <2> QED
      BY <2>1, ForeignStep
  <1>5. CASE DbGet(w) \/ DbPut(w)
    <2>1. SameJob(j)
      BY <1>5, SameChan DEF DbGet, DbPut, DbUpdate, SameJob, RestOK, redis, pool, history
    <2> QED
      BY <2>1, ForeignStep
  <1>6. CASE Unregister(w)
    <2>1. SameJob(j)
      BY <1>6, SameChan DEF Unregister, SameJob, redis, pool, history
    <2> QED
      BY <2>1, ForeignStep
  <1> QED
    BY <1>2, <1>3, <1>4, <1>5, <1>6, FailView DEF WorkerStep

\* So do the queue processor and the recovery processor.
LEMMA PollerOthers == ASSUME RestOK, LocalsOK, PollerStep PROVE Others(Poller)
  <1>1. Poller \in Threads
    BY ThreadFacts
  <1>2. ASSUME NEW i \in Jobs, DeqMove(i) PROVE Others(Poller)
    BY <1>1, <1>2, OthersFacts DEF DeqMove, callback
  <1>3. CASE FailStep(Poller) \/ RequeueStep(Poller)
    BY <1>1, <1>3, OthersFacts DEF FailStep, FailGet, FailSet, FailRem, FailAdd, RequeueStep,
       RequeueGet, RequeueRem, RequeueSet, RequeueAdd, callback
  <1>4. CASE PollTick \/ PollExit \/ DeqNone \/ DeqGet \/ DeqSet \/ Submit \/ SubmitRefused
    BY <1>1, <1>4, OthersFacts DEF PollTick, PollExit, DeqNone, DeqGet, DeqSet, Submit,
       SubmitRefused, callback
  <1> QED
    BY <1>2, <1>3, <1>4 DEF PollerStep

LEMMA RecovererOthers == ASSUME RestOK, LocalsOK, RecovererStep PROVE Others(Recoverer)
  <1>1. Recoverer \in Threads
    BY ThreadFacts
  <1>2. ASSUME NEW i \in Jobs, RecoverNext(i) PROVE Others(Recoverer)
    BY <1>1, <1>2, OthersFacts DEF RecoverNext, callback
  <1>3. CASE RequeueStep(Recoverer)
    BY <1>1, <1>3, OthersFacts DEF RequeueStep, RequeueGet, RequeueRem, RequeueSet, RequeueAdd,
       callback
  <1>4. CASE RecoverList \/ RecoverDone \/ RecoverExit
    BY <1>1, <1>4, OthersFacts DEF RecoverList, RecoverDone, RecoverExit, callback
  <1> QED
    BY <1>2, <1>3, <1>4 DEF RecovererStep

\* What a step of the recovery processor, other than its listing, does to them.
LEMMA RecovererView ==
    ASSUME RestOK, LocalsOK, Resting, RecovererStep, ~RecoverList, NEW j \in Jobs
    PROVE  Others(Recoverer) /\ (job[Recoverer] # j /\ job'[Recoverer] # j => Foreign(j))
  <1>1. Recoverer \in Threads
    BY ThreadFacts
  <1> USE <1>1 DEF At
  <1>2. CASE RecoverDone \/ RecoverExit
    <2>1. Others(Recoverer)
      BY <1>2, OthersFacts DEF RecoverDone, RecoverExit, callback
    <2>2. SameJob(j)
      BY <1>2, SameChan DEF RecoverDone, RecoverExit, SameJob, redis, pool, history
    <2> QED
      BY <2>1, <2>2, ForeignStep
  <1>3. ASSUME NEW i \in Jobs, RecoverNext(i)
        PROVE  Others(Recoverer) /\ (job[Recoverer] # j /\ job'[Recoverer] # j => Foreign(j))
    <2>1. Others(Recoverer)
      BY <1>3, OthersFacts DEF RecoverNext, callback
    <2>2. ASSUME job'[Recoverer] # j PROVE SameJob(j)
      BY <1>3, <2>2, SameChan DEF RecoverNext, SameJob, LocalsOK, redis, pool, history
    <2> QED
      BY <2>1, <2>2, ForeignStep
  <1> QED
    BY <1>2, <1>3, RequeueView DEF RecovererStep

\* Time, DeleteJob and the clean-up touch one job, Stop none.
LEMMA TimeView ==
    ASSUME RestOK, NEW j \in Jobs,
           \/ \E i \in Jobs \ {j} : \/ DeleteJob(i) \/ Cleanup(i) \/ LeaseExpires(i)
                                    \/ DataExpires(i) \/ DelayElapses(i)
           \/ Stop \/ PoolStop \/ CancelAllJobs
           \/ UNCHANGED vars
    PROVE  Foreign(j)
  <1>1. ASSUME NEW i \in Jobs \ {j}, DeleteJob(i) \/ Cleanup(i) \/ LeaseExpires(i)
                                     \/ DataExpires(i) \/ DelayElapses(i)
        PROVE  SameJob(j) /\ UNCHANGED <<pc, job, snap, round, outcome>>
    BY <1>1, SameChan DEF DeleteJob, Cleanup, LeaseExpires, DataExpires, DelayElapses, SameJob,
       RestOK, redis, pool, callback, history
  <1>2. CASE Stop \/ PoolStop \/ CancelAllJobs
    <2>1. SameJob(j) /\ UNCHANGED <<pc, job, snap, round, outcome>>
      BY <1>2, SameChan DEF Stop, PoolStop, CancelAllJobs, SameJob, redis, callback, history
    <2> QED
      BY <2>1 DEF Foreign, SameHolders
  <1>3. CASE UNCHANGED vars
    <2>1. SameJob(j) /\ UNCHANGED <<pc, job, snap, round, outcome>>
      BY <1>3, SameChan DEF vars, SameJob
    <2> QED
      BY <2>1 DEF Foreign, SameHolders
  <1> QED
    BY <1>1, <1>2, <1>3 DEF Foreign, SameHolders

-------------------------------------------------------------------------------
(* What a goroutine can be doing *)

\* A goroutine is at the labels of its role and holds no job between two operations;
\* a worker reports what its execution returned, first in round 1; CancelJob goes on
\* to the queues only after it has marked its job.
ThreadShape(t) ==
    /\ t \in Clients =>
         /\ pc[t] \in ClientLabels
         /\ pc[t] \in {"can_remq", "can_remr", "can_dbget", "can_dbput"} => job[t] \in canceled
    /\ t \in Workers =>
         /\ pc[t] \in WorkerLabels
         /\ pc[t] \in {"idle", "register", "exec", "unreg", "exited"} => round[t] = 1
         /\ pc[t] \in FailLabels => outcome[t] = "err"
         /\ pc[t] \in {"comp_get", "comp_set", "comp_rem"} => outcome[t] = "ok"
    /\ t = Poller => pc[t] \in PollerLabels
    /\ t = Recoverer => pc[t] \in RecovererLabels
    /\ pc[t] \in {"idle", "exited", "deq", "rec"} => job[t] = Nobody

Shape == \A t \in Threads : ThreadShape(t)

\* Between two operations a goroutine holds no job.
LEMMA ShapeRests == Shape => Resting
  BY DEF Shape, ThreadShape, Resting

\* A step of thread t keeps the shape if it keeps that of t.
LEMMA ShapeKept ==
    ASSUME Shape, NEW t \in Threads, Others(t), canceled \subseteq canceled', ThreadShape(t)'
    PROVE  Shape'
  <1> SUFFICES ASSUME NEW u \in Threads, u # t PROVE ThreadShape(u)'
    BY DEF Shape
  <1> QED
    BY DEF Shape, ThreadShape, Others

\* The clients keep the shape.
LEMMA ClientShape ==
    ASSUME RestOK, LocalsOK, Shape, NEW c \in Clients, Request(c) \/ ClientStep(c)
    PROVE  Shape'
  <1>1. c \in Threads /\ c \notin Workers /\ c # Poller /\ c # Recoverer
    BY ThreadFacts
  <1> USE <1>1 DEF At, ClientLabels
  <1>2. ThreadShape(c)
    BY DEF Shape
  <1>3. ASSUME NEW i \in Jobs, EnqCreate(c, i) \/ CancelInPool(c, i)
        PROVE  ThreadShape(c)' /\ Others(c) /\ canceled \subseteq canceled'
    BY <1>3, OthersFacts DEF EnqCreate, CancelInPool, ThreadShape, Goto, LocalsOK, callback
  <1>4. CASE ClientStep(c)
    <2>1. ThreadShape(c)'
      BY <1>2, <1>4 DEF ClientStep, EnqSet, EnqAdd, EnqDel, CancelGet, CancelSet, CancelRemQueue,
         CancelRemRunning, CancelDbGet, CancelDbPut, ThreadShape, Goto, Return, LocalsOK, history
    <2>2. Others(c)
      BY <1>4, OthersFacts DEF ClientStep, EnqSet, EnqAdd, EnqDel, CancelGet, CancelSet, CancelRemQueue,
         CancelRemRunning, CancelDbGet, CancelDbPut, callback
    <2>3. canceled \subseteq canceled'
      BY <1>4 DEF ClientStep, EnqSet, EnqAdd, EnqDel, CancelGet, CancelSet, CancelRemQueue,
         CancelRemRunning, CancelDbGet, CancelDbPut, history
    <2> QED
      BY <2>1, <2>2, <2>3, ShapeKept
  <1> QED
    BY <1>3, <1>4, ShapeKept DEF Request

\* queue.Fail keeps the shape.
LEMMA FailShape ==
    ASSUME RestOK, LocalsOK, Shape, NEW t \in Workers \cup {Poller}, FailStep(t)
    PROVE  Shape'
  <1>1. t \in Threads /\ t \notin Clients /\ t # Recoverer /\ (t \in Workers => t # Poller)
    BY ThreadFacts
  <1> USE <1>1 DEF At
  <1>2. ThreadShape(t)
    BY DEF Shape
  <1>3. ThreadShape(t)'
    BY <1>2 DEF FailStep, FailGet, FailSet, FailRem, FailAdd, AfterFail, ThreadShape, Goto, Return,
       LocalsOK, callback, WorkerLabels, PollerLabels, FailLabels
  <1>4. Others(t) /\ canceled' = canceled
    BY OthersFacts DEF FailStep, FailGet, FailSet, FailRem, FailAdd, callback, history
  <1> QED
    BY <1>3, <1>4, ShapeKept

\* queue.requeueJob keeps the shape.
LEMMA RequeueShape ==
    ASSUME RestOK, LocalsOK, Shape, NEW t \in {Poller, Recoverer}, RequeueStep(t)
    PROVE  Shape'
  <1>1. t \in Threads /\ t \notin Clients /\ t \notin Workers /\ Poller # Recoverer
    BY ThreadFacts
  <1> USE <1>1 DEF At
  <1>2. ThreadShape(t)
    BY DEF Shape
  <1>3. ThreadShape(t)'
    BY <1>2 DEF RequeueStep, RequeueGet, RequeueRem, RequeueSet, RequeueAdd, AfterRequeue,
       ThreadShape, Goto, Return, LocalsOK, PollerLabels, RecovererLabels, RequeueLabels, FailLabels
  <1>4. Others(t) /\ canceled' = canceled
    BY OthersFacts DEF RequeueStep, RequeueGet, RequeueRem, RequeueSet, RequeueAdd, callback, history
  <1> QED
    BY <1>3, <1>4, ShapeKept

\* The queue processor keeps the shape.
LEMMA PollerShape ==
    ASSUME RestOK, LocalsOK, Shape, PollerStep
    PROVE  Shape'
  <1>1. Poller \in Threads /\ Poller \notin Clients /\ Poller \notin Workers /\ Poller # Recoverer
    BY ThreadFacts
  <1> USE <1>1 DEF At
  <1>2. ThreadShape(Poller)
    BY DEF Shape
  <1>3. CASE PollTick \/ PollExit \/ DeqNone \/ DeqGet \/ DeqSet \/ SubmitRefused \/ Submit
    <2>1. ThreadShape(Poller)'
      BY <1>2, <1>3 DEF PollTick, PollExit, DeqNone, DeqGet, DeqSet, SubmitRefused, Submit,
         ThreadShape, Goto, Return, LocalsOK, PollerLabels, RequeueLabels, FailLabels
    <2>2. Others(Poller) /\ canceled' = canceled
      BY <1>3, OthersFacts DEF PollTick, PollExit, DeqNone, DeqGet, DeqSet, SubmitRefused, Submit,
         callback, history
    <2> QED
      BY <2>1, <2>2, ShapeKept
  <1>4. ASSUME NEW i \in Jobs, DeqMove(i) PROVE Shape'
    <2>1. ThreadShape(Poller)'
      BY <1>4 DEF DeqMove, ThreadShape, Goto, LocalsOK, PollerLabels
    <2>2. Others(Poller) /\ canceled' = canceled
      BY <1>4, OthersFacts DEF DeqMove, callback, history
    <2> QED
      BY <2>1, <2>2, ShapeKept
  <1> QED
    BY <1>3, <1>4, FailShape, RequeueShape DEF PollerStep

\* The end of a callback keeps the shape of its worker.
LEMMA CallbackShape ==
    ASSUME RestOK, LocalsOK, NEW w \in Workers, ThreadShape(w), NextCallback(w),
           UNCHANGED <<job, outcome>>
    PROVE  ThreadShape(w)'
  <1>1. w \in Threads /\ w \notin Clients /\ w # Poller /\ w # Recoverer
    BY ThreadFacts
  <1>2. outcome[w] \in {"ok", "err"} /\ round[w] \in {1, 2}
    BY DEF RestOK
  <1> QED
    BY <1>1, <1>2 DEF NextCallback, FirstStep, ThreadShape, Goto, LocalsOK, RestOK, WorkerLabels,
       FailLabels

\* The workers keep the shape.
LEMMA WorkerShape ==
    ASSUME RestOK, LocalsOK, Shape, NEW w \in Workers, WorkerStep(w)
    PROVE  Shape'
  <1>1. w \in Threads /\ w \notin Clients /\ w # Poller /\ w # Recoverer
    BY ThreadFacts
  <1> USE <1>1 DEF At
  <1>2. ThreadShape(w)
    BY DEF Shape
  <1>3. Others(w)
    BY WorkerOthers
  <1>4. CASE WorkerExit(w) \/ Take(w) \/ Register(w) \/ CompleteGet(w) \/ CompleteSet(w) \/ CompleteRem(w)
    <2>1. ThreadShape(w)'
      BY <1>2, <1>4, ThreadsDistinct DEF WorkerExit, Take, Register, CompleteGet, CompleteSet, CompleteRem,
         ThreadShape, Goto, LocalsOK, RestOK, WorkerLabels, FailLabels, callback
    <2>2. canceled' = canceled
      BY <1>4 DEF WorkerExit, Take, Register, CompleteGet, CompleteSet, CompleteRem, history
    <2> QED
      BY <1>3, <2>1, <2>2, ShapeKept
  <1>5. ASSUME NEW o \in {"ok", "err"}, Execute(w, o) PROVE Shape'
    <2>1. ThreadShape(w)'
      BY <1>2, <1>5 DEF Execute, FirstStep, ThreadShape, Goto, LocalsOK, RestOK, WorkerLabels,
         FailLabels
    <2> QED
      BY <1>3, <1>5, <2>1, ShapeKept DEF Execute, history
  <1>6. CASE DbGet(w) /\ db[job[w]] # Absent
    <2>1. ThreadShape(w)'
      BY <1>2, <1>6 DEF DbGet, ThreadShape, Goto, LocalsOK, WorkerLabels, FailLabels
    <2> QED
      BY <1>3, <1>6, <2>1, ShapeKept DEF DbGet, history
  <1>7. CASE (DbGet(w) /\ db[job[w]] = Absent) \/ DbPut(w)
    <2>1. NextCallback(w) /\ UNCHANGED <<job, outcome, canceled>>
      BY <1>7 DEF DbGet, DbPut, history
    <2> QED
      BY <1>2, <1>3, <2>1, CallbackShape, ShapeKept
  <1>8. CASE Unregister(w)
    <2>1. ThreadShape(w)'
      BY <1>2, <1>8 DEF Unregister, ThreadShape, Goto, LocalsOK, RestOK, WorkerLabels, FailLabels
    <2> QED
      BY <1>3, <1>8, <2>1, ShapeKept DEF Unregister, history
  <1> QED
    BY <1>4, <1>5, <1>6, <1>7, <1>8, FailShape DEF WorkerStep

\* The recovery processor keeps the shape.
LEMMA RecovererShape ==
    ASSUME RestOK, LocalsOK, Shape, RecovererStep
    PROVE  Shape'
  <1>1. /\ Recoverer \in Threads /\ Recoverer \notin Clients /\ Recoverer \notin Workers
        /\ Poller # Recoverer
    BY ThreadFacts
  <1> USE <1>1 DEF At
  <1>2. ThreadShape(Recoverer)
    BY DEF Shape
  <1>3. CASE RecoverList \/ RecoverDone \/ RecoverExit
    <2>1. ThreadShape(Recoverer)'
      BY <1>2, <1>3 DEF RecoverList, RecoverDone, RecoverExit, ThreadShape, Goto, LocalsOK,
         RecovererLabels
    <2>2. Others(Recoverer) /\ canceled' = canceled
      BY <1>3, OthersFacts DEF RecoverList, RecoverDone, RecoverExit, callback, history
    <2> QED
      BY <2>1, <2>2, ShapeKept
  <1>4. ASSUME NEW i \in Jobs, RecoverNext(i) PROVE Shape'
    <2>1. ThreadShape(Recoverer)'
      BY <1>4 DEF RecoverNext, ThreadShape, Goto, LocalsOK, RecovererLabels, RequeueLabels
    <2>2. Others(Recoverer) /\ canceled' = canceled
      BY <1>4, OthersFacts DEF RecoverNext, callback, history
    <2> QED
      BY <2>1, <2>2, ShapeKept
  <1> QED
    BY <1>3, <1>4, RequeueShape DEF RecovererStep

\* A failed command sends a goroutine to a label of its role.
LEMMA ErrorShape ==
    ASSUME RestOK, LocalsOK, Shape, NEW t \in Threads,
           \/ CommandFails(t)
           \/ t \in Workers /\ CallbackDbError(t)
           \/ t \in Clients /\ CancelDbError(t)
    PROVE  Shape'
  <1>1. ThreadShape(t)
    BY DEF Shape
  <1>2. Others(t)
    BY OthersFacts, FailedCommand DEF CallbackDbError, CancelDbError, callback
  <1>6. canceled \subseteq canceled'
    BY DEF CommandFails, RedisError, SetUnanswered, AddUnanswered, MoveUnanswered,
       CallbackDbError, CancelDbError
  <1>3. CASE CommandFails(t)
    <2>1. CASE pc[t] \in ReturnsError
      <3>1. Return(t, ErrorTarget(t)) /\ UNCHANGED <<round, outcome>>
        BY <1>3, <2>1, FailedCommand DEF AfterError
      <3>2. ASSUME pc[t] \in {"enq_set", "enq_del", "can_get", "can_set", "deq"} PROVE ThreadShape(t)'
        <4>1. ErrorTarget(t) = "idle" /\ t \notin Workers
          BY <1>1, <3>2, ThreadFacts DEF ErrorTarget, ThreadShape, WorkerLabels, FailLabels
        <4> QED
          BY <1>1, <3>1, <4>1 DEF Return, Goto, LocalsOK, ThreadShape, ClientLabels, PollerLabels,
             RecovererLabels
      <3>3. ASSUME pc[t] \in {"fail_get", "fail_set", "fail_add"} PROVE ThreadShape(t)'
        <4>1. ErrorTarget(t) = AfterFail(t) /\ t \in Workers \cup {Poller}
          BY <1>1, <3>3, ThreadFacts DEF ErrorTarget, ThreadShape, ClientLabels, RecovererLabels,
             RequeueLabels, Threads
        <4> QED
          BY <1>1, <3>1, <3>3, <4>1, ThreadFacts DEF AfterFail, Return, Goto, LocalsOK,
             ThreadShape, WorkerLabels, PollerLabels
      <3>4. ASSUME pc[t] \in {"req_get", "req_set", "req_add"} PROVE ThreadShape(t)'
        <4>1. ErrorTarget(t) = AfterRequeue(t) /\ t \in {Poller, Recoverer}
          BY <1>1, <3>4, ThreadFacts DEF ErrorTarget, ThreadShape, ClientLabels, WorkerLabels,
             FailLabels, Threads
        <4> QED
          BY <1>1, <3>1, <3>4, <4>1, ThreadFacts DEF AfterRequeue, Return, Goto, LocalsOK,
             ThreadShape, RecovererLabels, PollerLabels
      <3>5. ThreadShape(t)'
        BY <2>1, <3>2, <3>3, <3>4 DEF ReturnsError
      <3> QED
        BY <1>2, <1>6, <3>5, ShapeKept
    <2>2. CASE pc[t] \notin ReturnsError
      <3>1. Goto(t, ErrorTarget(t)) /\ UNCHANGED <<job, round, outcome>> /\ pc[t] \in GoesOn
        BY <1>3, <2>2, FailedCommand DEF AfterError
      <3>2. ASSUME pc[t] \in {"deq_get", "deq_set", "fail_rem", "req_rem"} PROVE ThreadShape(t)'
        <4>1. ErrorTarget(t) \in {"req_get", "submit", "fail_add", "req_set"}
              /\ (pc[t] = "fail_rem" => ErrorTarget(t) = "fail_add")
              /\ (pc[t] = "req_rem" => ErrorTarget(t) = "req_set")
          BY <3>2 DEF ErrorTarget
        <4> QED
          BY <1>1, <3>1, <3>2, <4>1, ThreadFacts DEF Goto, LocalsOK, ThreadShape, ClientLabels,
             PollerLabels, WorkerLabels, RecovererLabels, FailLabels, RequeueLabels
      <3>3. ASSUME pc[t] \in {"can_remq", "can_remr"} PROVE ThreadShape(t)'
        <4>1. ErrorTarget(t) \in {"can_remr", "can_dbget"}
          BY <3>3 DEF ErrorTarget
        <4> QED
          BY <1>1, <1>6, <3>1, <3>3, <4>1, ThreadFacts DEF Goto, LocalsOK, ThreadShape,
             ClientLabels, PollerLabels, WorkerLabels, RecovererLabels, FailLabels, RequeueLabels
      <3>4. ASSUME pc[t] \in {"comp_get", "comp_set", "comp_rem"} PROVE ThreadShape(t)'
        <4>1. ErrorTarget(t) = "db_get"
          BY <3>4 DEF ErrorTarget
        <4> QED
          BY <1>1, <3>1, <3>4, <4>1, ThreadFacts DEF Goto, LocalsOK, ThreadShape,
             ClientLabels, PollerLabels, WorkerLabels, RecovererLabels, FailLabels, RequeueLabels
      <3>5. ASSUME pc[t] = "enq_add" PROVE ThreadShape(t)'
        <4>1. ErrorTarget(t) = "enq_del"
          BY <3>5 DEF ErrorTarget
        <4> QED
          BY <1>1, <3>1, <3>5, <4>1, ThreadFacts DEF Goto, LocalsOK, ThreadShape,
             ClientLabels, PollerLabels, WorkerLabels, RecovererLabels, FailLabels, RequeueLabels
      <3>6. ThreadShape(t)'
        BY <3>1, <3>2, <3>3, <3>4, <3>5 DEF GoesOn
      <3> QED
        BY <1>2, <1>6, <3>6, ShapeKept
    <2> QED
      BY <2>1, <2>2
  <1>4. CASE t \in Workers /\ CallbackDbError(t)
    BY <1>1, <1>2, <1>4, <1>6, CallbackShape, ShapeKept DEF CallbackDbError
  <1>5. CASE t \in Clients /\ CancelDbError(t)
    <2>1. ThreadShape(t)'
      BY <1>5, ThreadFacts DEF CancelDbError, Return, Goto, LocalsOK, ThreadShape, ClientLabels
    <2> QED
      BY <1>2, <1>6, <2>1, ShapeKept
  <1> QED
    BY <1>3, <1>4, <1>5

\* Every step keeps the shape.
LEMMA ShapeStep ==
    ASSUME RestOK, LocalsOK, Shape, [Next]_vars
    PROVE  Shape'
  <1>1. ASSUME UNCHANGED <<pc, job, round, outcome, canceled>> PROVE Shape'
    BY <1>1 DEF Shape, ThreadShape
  <1>2. CASE \/ \E j \in Jobs : \/ DeleteJob(j) \/ Cleanup(j) \/ LeaseExpires(j)
                                \/ DataExpires(j) \/ DelayElapses(j)
             \/ Stop \/ PoolStop \/ CancelAllJobs
    BY <1>1, <1>2 DEF DeleteJob, Cleanup, LeaseExpires, DataExpires, DelayElapses, Stop, PoolStop,
       CancelAllJobs, callback, history
  <1>3. CASE Crash \/ Restart
    BY <1>3 DEF Crash, Restart, NewProcess, Shape, ThreadShape, ClientLabels, WorkerLabels,
       PollerLabels, RecovererLabels, FailLabels
  <1>4. CASE UNCHANGED vars
    BY <1>1, <1>4 DEF vars
  <1>5. CASE \/ \E t \in Threads : CommandFails(t)
             \/ \E w \in Workers : CallbackDbError(w)
             \/ \E c \in Clients : CancelDbError(c)
    BY <1>5, ErrorShape, ThreadFacts
  <1> QED
    BY <1>2, <1>3, <1>4, <1>5, ClientShape, PollerShape, WorkerShape, RecovererShape
       DEF Next, Environment

\* It holds initially.
LEMMA ShapeInit == Init => Shape
  BY DEF Init, Shape, ThreadShape, ClientLabels, WorkerLabels, PollerLabels, RecovererLabels,
     FailLabels

-------------------------------------------------------------------------------
(* The steps about one job *)

\* A client, the queue processor, a worker, the recoverer works on job j or takes it up.
ClientOn(c, j) ==
    /\ Others(c)
    /\ \/ EnqCreate(c, j) \/ CancelInPool(c, j)
       \/ job[c] = j /\ ClientStep(c) /\ ~EnqDel(c)

PollerOn(j) ==
    /\ Others(Poller)
    /\ \/ DeqMove(j)
       \/ job[Poller] = j /\ (DeqGet \/ DeqSet \/ Submit \/ SubmitRefused)

WorkerOn(w, j) ==
    /\ Others(w)
    /\ \/ Take(w) /\ Head(jobChan) = j
       \/ /\ job[w] = j
          /\ \/ Register(w) \/ Execute(w, "ok") \/ Execute(w, "err")
             \/ CompleteGet(w) \/ CompleteSet(w) \/ CompleteRem(w)
             \/ DbGet(w) \/ DbPut(w) \/ Unregister(w)

RecovererOn(j) == Others(Recoverer) /\ (RecoverList \/ RecoverNext(j))

\* One of them is inside queue.Fail or queue.requeueJob.
FailOn(t, j) == t \in Workers \cup {Poller} /\ Others(t) /\ job[t] = j /\ FailStep(t)
RequeueOn(t, j) == t \in {Poller, Recoverer} /\ Others(t) /\ job[t] = j /\ RequeueStep(t)

\* A command about job j fails, with or without its effect, or EnqueueJob undoes its
\* SET after one that failed.
ErrorOn(t, j) ==
    /\ Others(t)
    /\ \/ /\ job[t] = j
          /\ \/ RedisError(t) \/ SetUnanswered(t) \/ AddUnanswered(t)
             \/ t \in Workers /\ CallbackDbError(t)
             \/ t \in Clients /\ (CancelDbError(t) \/ EnqDel(t))
       \/ t = Poller /\ MoveUnanswered(j)

\* Time passes for job j, or its row is deleted.
TimeOn(j) == DeleteJob(j) \/ Cleanup(j) \/ LeaseExpires(j) \/ DelayElapses(j)

\* What a failed command does to the goroutines and the jobs it is not about.
LEMMA ErrorView ==
    ASSUME RestOK, LocalsOK, Resting, NEW t \in Threads, NEW j \in Jobs,
           \/ CommandFails(t)
           \/ t \in Workers /\ CallbackDbError(t)
           \/ t \in Clients /\ CancelDbError(t)
    PROVE  Foreign(j) \/ ErrorOn(t, j)
  <1>1. Others(t)
    BY OthersFacts, FailedCommand DEF CallbackDbError, CancelDbError, callback
  <1>2. job'[t] \in {job[t], Nobody}
    BY FailedCommand DEF CallbackDbError, CancelDbError, AfterError, Return, LocalsOK
  <1>3. ASSUME job[t] # j,
               \/ RedisError(t) \/ SetUnanswered(t) \/ AddUnanswered(t)
               \/ t \in Workers /\ CallbackDbError(t)
               \/ t \in Clients /\ CancelDbError(t)
        PROVE  Foreign(j)
    <2>1. SameJob(j)
      BY <1>3, SameChan DEF RedisError, SetUnanswered, AddUnanswered, CallbackDbError,
         CancelDbError, SameJob, RestOK, redis, pool, history
    <2> QED
      BY <1>1, <1>2, <1>3, <2>1, ForeignStep, ThreadsDistinct
  <1>4. ASSUME t = Poller, NEW i \in Jobs, MoveUnanswered(i), i # j
        PROVE  Foreign(j)
    <2>1. SameJob(j)
      BY <1>4, SameChan DEF MoveUnanswered, SameJob, RestOK, redis, pool, history
    <2>2. job[t] # j
      BY <1>4, ThreadsDistinct DEF MoveUnanswered, Resting, At
    <2> QED
      BY <1>1, <1>2, <2>1, <2>2, ForeignStep, ThreadsDistinct
  <1> QED
    BY <1>1, <1>3, <1>4 DEF CommandFails, ErrorOn

\* Every step is foreign to job j or one of these.
LEMMA StepOn ==
    ASSUME RestOK, LocalsOK, Shape, [Next]_vars, NEW j \in Jobs
    PROVE  \/ Foreign(j)
           \/ \E c \in Clients : ClientOn(c, j)
           \/ \E t \in Threads : FailOn(t, j) \/ RequeueOn(t, j) \/ ErrorOn(t, j)
           \/ PollerOn(j)
           \/ \E w \in Workers : WorkerOn(w, j)
           \/ RecovererOn(j)
           \/ TimeOn(j) \/ DataExpires(j)
           \/ Crash \/ Restart
  <1> USE ThreadFacts, ShapeRests DEF At
  <1>1. \A t \in Threads : job[t] = j => pc[t] \notin {"idle", "exited", "deq", "rec"}
    BY ThreadsDistinct DEF Resting
  <1>2. ASSUME NEW c \in Clients, Request(c) \/ ClientStep(c)
        PROVE  Foreign(j) \/ ClientOn(c, j) \/ ErrorOn(c, j)
    <2>1. Others(c) /\ (job[c] # j /\ job'[c] # j => Foreign(j))
      BY <1>2, ClientView
    <2>2. ASSUME NEW i \in Jobs, EnqCreate(c, i) \/ CancelInPool(c, i), ~Foreign(j)
          PROVE  i = j
      BY <1>1, <2>1, <2>2 DEF EnqCreate, CancelInPool, LocalsOK
    <2>3. ASSUME ClientStep(c), ~Foreign(j)
          PROVE  job[c] = j
      <3>1. job'[c] # job[c] => job'[c] = Nobody
        BY <2>3 DEF ClientStep, EnqSet, EnqAdd, EnqDel, CancelGet, CancelSet, CancelRemQueue,
           CancelRemRunning, CancelDbGet, CancelDbPut, Return, LocalsOK
      <3> QED
        BY <2>1, <2>3, <3>1, ThreadsDistinct
    <2> QED
      BY <1>2, <2>1, <2>2, <2>3 DEF Request, ClientOn, ErrorOn
  <1>3. ASSUME PollerStep
        PROVE  \/ Foreign(j) \/ PollerOn(j)
               \/ FailOn(Poller, j) \/ RequeueOn(Poller, j)
    <2>1. Others(Poller) /\ (job[Poller] # j /\ job'[Poller] # j => Foreign(j))
      BY <1>3, PollerView
    <2>2. ASSUME NEW i \in Jobs, DeqMove(i), ~Foreign(j) PROVE i = j
      BY <1>1, <2>1, <2>2 DEF DeqMove, LocalsOK
    <2>3. ASSUME PollTick \/ PollExit \/ DeqNone PROVE Foreign(j)
      BY <1>1, <2>1, <2>3 DEF PollTick, PollExit, DeqNone
    <2>4. ASSUME DeqGet \/ DeqSet \/ Submit \/ SubmitRefused, ~Foreign(j) PROVE job[Poller] = j
      <3>1. job'[Poller] # job[Poller] => job'[Poller] = Nobody
        BY <2>4 DEF DeqGet, DeqSet, Submit, SubmitRefused, Return, LocalsOK
      <3> QED
        BY <2>1, <2>4, <3>1, ThreadsDistinct
    <2> QED
      BY <1>3, <2>1, <2>2, <2>3, <2>4, FailView, RequeueView
         DEF PollerStep, PollerOn, FailOn, RequeueOn
  <1>4. ASSUME NEW w \in Workers, WorkerStep(w)
        PROVE  Foreign(j) \/ WorkerOn(w, j) \/ FailOn(w, j)
    <2>1. Others(w) /\ (job[w] # j /\ job'[w] # j => Foreign(j))
      BY <1>4, WorkerView
    <2>2. ASSUME Take(w), ~Foreign(j) PROVE Head(jobChan) = j
      BY <1>1, <2>1, <2>2 DEF Take, LocalsOK
    <2>3. ASSUME WorkerExit(w) PROVE Foreign(j)
      BY <1>1, <2>1, <2>3 DEF WorkerExit
    <2>4. ASSUME \/ Register(w) \/ Execute(w, "ok") \/ Execute(w, "err")
                 \/ CompleteGet(w) \/ CompleteSet(w) \/ CompleteRem(w)
                 \/ DbGet(w) \/ DbPut(w) \/ Unregister(w),
                 ~Foreign(j)
          PROVE  job[w] = j
      <3>1. job'[w] # job[w] => job'[w] = Nobody
        BY <2>4 DEF Register, Execute, CompleteGet, CompleteSet, CompleteRem, DbGet, DbPut,
           Unregister, LocalsOK
      <3> QED
        BY <2>1, <2>4, <3>1, ThreadsDistinct
    <2> QED
      BY <1>4, <2>1, <2>2, <2>3, <2>4, FailView DEF WorkerStep, WorkerOn, FailOn
  <1>5. ASSUME RecovererStep
        PROVE  Foreign(j) \/ RecovererOn(j) \/ RequeueOn(Recoverer, j)
    <2>1. CASE RecoverList
      BY <2>1, OthersFacts DEF RecoverList, RecovererOn, callback
    <2>2. CASE ~RecoverList
      <3>1. Others(Recoverer) /\ (job[Recoverer] # j /\ job'[Recoverer] # j => Foreign(j))
        BY <1>5, <2>2, RecovererView
      <3>2. ASSUME NEW i \in Jobs, RecoverNext(i), ~Foreign(j) PROVE i = j
        BY <1>1, <3>1, <3>2 DEF RecoverNext, LocalsOK
      <3>3. ASSUME RecoverDone \/ RecoverExit PROVE Foreign(j)
        BY <1>1, <3>1, <3>3 DEF RecoverDone, RecoverExit
      <3> QED
        BY <1>5, <2>2, <3>1, <3>2, <3>3, RequeueView DEF RecovererStep, RecovererOn, RequeueOn
    <2> QED
      BY <2>1, <2>2
  <1>6. ASSUME Environment
        PROVE  \/ Foreign(j) \/ TimeOn(j) \/ DataExpires(j) \/ Crash \/ Restart
               \/ \E t \in Threads : ErrorOn(t, j)
    <2>1. ASSUME NEW i \in Jobs, \/ DeleteJob(i) \/ Cleanup(i) \/ LeaseExpires(i)
                                 \/ DataExpires(i) \/ DelayElapses(i)
          PROVE  Foreign(j) \/ TimeOn(j) \/ DataExpires(j)
      BY <2>1, TimeView DEF TimeOn
    <2>2. ASSUME NEW t \in Threads,
                 \/ CommandFails(t)
                 \/ t \in Workers /\ CallbackDbError(t)
                 \/ t \in Clients /\ CancelDbError(t)
          PROVE  Foreign(j) \/ ErrorOn(t, j)
      BY <2>2, ErrorView
    <2> QED
      BY <1>6, <2>1, <2>2, TimeView DEF Environment
  <1>7. CASE UNCHANGED vars
    BY <1>7, TimeView
  <1> QED
    BY <1>2, <1>3, <1>4, <1>5, <1>6, <1>7 DEF Next

-------------------------------------------------------------------------------
(* A job that was not created yet *)

\* Nothing anywhere knows of a job before EnqueueJob creates it.
NewJob(j) ==
    j \in fresh =>
        /\ data[j] = Absent /\ db[j] = Absent /\ queue[j] = "out" /\ running[j] = "out"
        /\ execs[j] = 0 /\ j \notin stale /\ j \notin dead /\ j \notin refused
        /\ ~InChan(j) /\ \A t \in Threads : job[t] # j

\* No ID is used twice, and a ZADD of Enqueue that took effect unanswered is not
\* forgotten.
LEMMA HistoryKept ==
    ASSUME [Next]_vars
    PROVE  /\ fresh' \subseteq fresh /\ unanswered \subseteq unanswered'
           /\ unanswered' # unanswered => Spend("fault")
  <1>1. CASE \E c \in Clients : Request(c) \/ ClientStep(c)
    BY <1>1 DEF Request, ClientStep, EnqCreate, EnqSet, EnqAdd, EnqDel, CancelInPool, CancelGet,
       CancelSet, CancelRemQueue, CancelRemRunning, CancelDbGet, CancelDbPut, history
  <1>2. CASE PollerStep
    BY <1>2 DEF PollerStep, PollTick, PollExit, DeqMove, DeqNone, DeqGet, DeqSet, Submit,
       SubmitRefused, FailStep, FailGet, FailSet, FailRem, FailAdd, RequeueStep, RequeueGet,
       RequeueRem, RequeueSet, RequeueAdd, history
  <1>3. CASE \E w \in Workers : WorkerStep(w)
    BY <1>3 DEF WorkerStep, WorkerExit, Take, Register, Execute, CompleteGet, CompleteSet,
       CompleteRem, DbGet, DbPut, Unregister, FailStep, FailGet, FailSet, FailRem, FailAdd, history
  <1>4. CASE RecovererStep
    BY <1>4 DEF RecovererStep, RecoverList, RecoverNext, RecoverDone, RecoverExit, RequeueStep,
       RequeueGet, RequeueRem, RequeueSet, RequeueAdd, history
  <1>5. CASE Environment
    BY <1>5 DEF Environment, DeleteJob, Cleanup, LeaseExpires, DataExpires, DelayElapses, Stop,
       PoolStop, CancelAllJobs, Crash, Restart, NewProcess, CommandFails, RedisError,
       SetUnanswered, AddUnanswered, MoveUnanswered, CallbackDbError, CancelDbError, history
  <1>6. CASE UNCHANGED vars
    BY <1>6 DEF vars
  <1> QED
    BY <1>1, <1>2, <1>3, <1>4, <1>5, <1>6 DEF Next

\* No step before its creation changes that.
LEMMA NewJobStep ==
    ASSUME RestOK, LocalsOK, Shape, [Next]_vars, NEW j \in Jobs, NewJob(j)
    PROVE  NewJob(j)'
  <1>1. CASE Foreign(j)
    BY <1>1 DEF Foreign, SameJob, SameHolders, NewJob
  <1>2. fresh' \subseteq fresh
    BY HistoryKept
  <1>3. CASE j \notin fresh'
    BY <1>3 DEF NewJob
  <1>4. CASE j \in fresh' /\ ~Foreign(j)
    <2>1. /\ data[j] = Absent /\ db[j] = Absent /\ queue[j] = "out" /\ running[j] = "out"
          /\ execs[j] = 0 /\ j \notin stale /\ j \notin dead /\ j \notin refused
          /\ ~InChan(j) /\ \A t \in Threads : job[t] # j
      BY <1>2, <1>4 DEF NewJob
    <2>2. ASSUME NEW c \in Clients, ClientOn(c, j) PROVE FALSE
      BY <1>2, <1>4, <2>1, <2>2, ThreadFacts DEF ClientOn, EnqCreate, CancelInPool
    <2>3. ASSUME NEW t \in Threads, FailOn(t, j) \/ RequeueOn(t, j) \/ ErrorOn(t, j) PROVE FALSE
      BY <2>1, <2>3 DEF FailOn, RequeueOn, ErrorOn, MoveUnanswered
    <2>4. ~PollerOn(j)
      BY <2>1, ThreadFacts DEF PollerOn, DeqMove
    <2>5. ASSUME NEW w \in Workers, WorkerOn(w, j) PROVE FALSE
      <3>1. ~(Take(w) /\ Head(jobChan) = j)
        BY <2>1, ChanTail DEF Take
      <3> QED
        BY <2>1, <2>5, <3>1, ThreadFacts DEF WorkerOn
    <2>6. ASSUME RecovererOn(j) PROVE NewJob(j)'
      <3>1. RecoverList
        BY <2>1, <2>6 DEF RecovererOn, RecoverNext
      <3> QED
        BY <2>1, <3>1, SameChan DEF RecoverList, NewJob, redis, pool, history
    <2>7. ~TimeOn(j) /\ ~DataExpires(j)
      BY <2>1 DEF TimeOn, DeleteJob, Cleanup, LeaseExpires, DelayElapses, DataExpires
    <2>8. ASSUME Crash \/ Restart PROVE NewJob(j)'
      BY <2>1, <2>8, ThreadsDistinct DEF Crash, Restart, NewProcess, NewJob, InChan, redis
    <2> QED
      BY <1>4, <2>2, <2>3, <2>4, <2>5, <2>6, <2>7, <2>8, StepOn
  <1> QED
    BY <1>1, <1>3, <1>4

-------------------------------------------------------------------------------
(* An entry has its data *)

\* An entry of a priority queue or of the running set has its data key, and so has
\* the goroutine that is about to add one.  While EnqueueJob writes the key, which it
\* deletes again when its ZADD fails, nobody else has an entry or is about to.
Entry(j) ==
    /\ (queue[j] # "out" \/ running[j] # "out") => data[j] # Absent
    /\ \A t \in Threads :
         (job[t] = j /\ pc[t] \in {"enq_add", "req_add", "fail_rem", "fail_add"})
         => data[j] # Absent
    /\ \A c \in Clients :
         (job[c] = j /\ pc[c] \in {"enq_set", "enq_add", "enq_del"})
         => /\ queue[j] = "out" /\ running[j] = "out" /\ ~InChan(j) /\ j \notin stale
            /\ \A t \in Threads \ {c} :
                  job[t] = j => t \in Clients /\ pc[t] \notin {"enq_set", "enq_add", "enq_del"}

\* A step that is foreign to the job keeps its entry.
LEMMA EntryForeign ==
    ASSUME NEW j \in Jobs, Entry(j), Foreign(j)
    PROVE  Entry(j)'
  <1> USE ThreadFacts DEF Foreign, SameJob, SameHolders
  <1>1. (queue'[j] # "out" \/ running'[j] # "out") => data'[j] # Absent
    BY DEF Entry
  <1>2. \A t \in Threads :
          (job'[t] = j /\ pc'[t] \in {"enq_add", "req_add", "fail_rem", "fail_add"})
          => data'[j] # Absent
    BY DEF Entry
  <1>3. ASSUME NEW c \in Clients, job'[c] = j, pc'[c] \in {"enq_set", "enq_add", "enq_del"}
        PROVE  /\ queue'[j] = "out" /\ running'[j] = "out" /\ ~InChan(j)' /\ j \notin stale'
               /\ \A t \in Threads \ {c} :
                     job'[t] = j =>
                        t \in Clients /\ pc'[t] \notin {"enq_set", "enq_add", "enq_del"}
    BY <1>3 DEF Entry
  <1> QED
    BY <1>1, <1>2, <1>3 DEF Entry

\* The records the queue operations write are not absent.
LEMMA Written ==
    \A r, s : s # "absent" => WithStatus(r, s) # Absent
  BY DEF WithStatus, Absent

\* The clients keep the entry.
LEMMA EntryClient ==
    ASSUME RestOK, LocalsOK, Shape, NEW j \in Jobs, NewJob(j), Entry(j),
           NEW c \in Clients, ClientOn(c, j)
    PROVE  Entry(j)'
  <1> USE ThreadFacts, Written DEF At, ClientOn
  <1>1. CASE EnqCreate(c, j)
    BY <1>1, SameChan DEF EnqCreate, NewJob, Entry, Others, Goto, LocalsOK, redis, pool
  <1>2. CASE CancelInPool(c, j)
    BY <1>2, SameChan DEF CancelInPool, Entry, Others, Goto, LocalsOK, redis, pool
  <1>3. CASE job[c] = j /\ EnqSet(c)
    BY <1>3, SameChan DEF EnqSet, Entry, Others, Goto, LocalsOK, RestOK, redis, pool
  <1>4. CASE job[c] = j /\ EnqAdd(c)
    BY <1>4, SameChan DEF EnqAdd, Entry, Others, Goto, Return, LocalsOK, RestOK, redis, pool
  <1>5. CASE job[c] = j /\ CancelGet(c)
    BY <1>5, SameChan DEF CancelGet, Entry, Others, Goto, Return, LocalsOK, redis, pool
  <1>6. CASE job[c] = j /\ CancelSet(c)
    BY <1>6, SameChan DEF CancelSet, Entry, Others, Goto, LocalsOK, RestOK, redis, pool
  <1>7. CASE job[c] = j /\ CancelRemQueue(c)
    BY <1>7, SameChan DEF CancelRemQueue, Entry, Others, Goto, LocalsOK, RestOK, redis, pool
  <1>8. CASE job[c] = j /\ CancelRemRunning(c)
    BY <1>8, SameChan DEF CancelRemRunning, Entry, Others, Goto, LocalsOK, RestOK, redis, pool
  <1>9. CASE job[c] = j /\ CancelDbGet(c)
    BY <1>9, SameChan DEF CancelDbGet, Entry, Others, Goto, LocalsOK, redis, pool
  <1>10. CASE job[c] = j /\ CancelDbPut(c)
    BY <1>10, SameChan DEF CancelDbPut, Entry, Others, Goto, Return, LocalsOK, redis, pool
  <1> QED
    BY <1>1, <1>2, <1>3, <1>4, <1>5, <1>6, <1>7, <1>8, <1>9, <1>10 DEF ClientStep

\* queue.Fail keeps the entry.
LEMMA EntryFail ==
    ASSUME RestOK, LocalsOK, Shape, NEW j \in Jobs, Entry(j), NEW t \in Threads, FailOn(t, j)
    PROVE  Entry(j)'
  <1> USE ThreadFacts, Written DEF At, FailOn, AfterFail
  <1>1. CASE FailGet(t)
    BY <1>1, SameChan DEF FailGet, Entry, Others, Goto, Return, LocalsOK, redis, pool
  <1>2. CASE FailSet(t)
    BY <1>2, SameChan DEF FailSet, Entry, Others, Goto, LocalsOK, RestOK, redis, pool
  <1>3. CASE FailRem(t)
    BY <1>3, SameChan DEF FailRem, Entry, Others, Goto, LocalsOK, RestOK, redis, pool
  <1>4. CASE FailAdd(t)
    BY <1>4, SameChan DEF FailAdd, Entry, Others, Goto, Return, LocalsOK, RestOK, redis, pool
  <1> QED
    BY <1>1, <1>2, <1>3, <1>4 DEF FailStep

\* queue.requeueJob keeps the entry.
LEMMA EntryRequeue ==
    ASSUME RestOK, LocalsOK, Shape, NEW j \in Jobs, Entry(j), NEW t \in Threads, RequeueOn(t, j)
    PROVE  Entry(j)'
  <1> USE ThreadFacts, Written DEF At, RequeueOn, AfterRequeue
  <1>1. CASE RequeueGet(t)
    BY <1>1, SameChan DEF RequeueGet, Entry, Others, Goto, Return, LocalsOK, redis, pool
  <1>2. CASE RequeueRem(t)
    BY <1>2, SameChan DEF RequeueRem, Entry, Others, Goto, LocalsOK, RestOK, redis, pool
  <1>3. CASE RequeueSet(t)
    BY <1>3, SameChan DEF RequeueSet, Entry, Others, Goto, LocalsOK, RestOK, redis, pool
  <1>4. CASE RequeueAdd(t)
    BY <1>4, SameChan DEF RequeueAdd, Entry, Others, Goto, Return, LocalsOK, RestOK, redis, pool
  <1> QED
    BY <1>1, <1>2, <1>3, <1>4 DEF RequeueStep

\* The queue processor keeps the entry.
LEMMA EntryPoller ==
    ASSUME RestOK, LocalsOK, Shape, NEW j \in Jobs, Entry(j), PollerOn(j)
    PROVE  Entry(j)'
  <1> USE ThreadFacts, Written DEF At, PollerOn
  <1>1. CASE DeqMove(j)
    BY <1>1, SameChan DEF DeqMove, Entry, Others, Goto, LocalsOK, RestOK, redis, pool
  <1>2. CASE job[Poller] = j /\ DeqGet
    BY <1>2, SameChan DEF DeqGet, Entry, Others, Goto, LocalsOK, redis, pool
  <1>3. CASE job[Poller] = j /\ DeqSet
    <2>1. data'[j] # Absent
      BY <1>3 DEF DeqSet, Absent, RestOK
    <2> QED
      BY <1>3, <2>1, SameChan DEF DeqSet, Entry, Others, Goto, LocalsOK, RestOK, redis, pool
  <1>4. CASE job[Poller] = j /\ Submit
    BY <1>4, SameChan DEF Submit, Entry, Others, Goto, Return, LocalsOK, redis, pool
  <1>5. CASE job[Poller] = j /\ SubmitRefused
    BY <1>5, SameChan DEF SubmitRefused, Entry, Others, Goto, LocalsOK, redis, pool
  <1> QED
    BY <1>1, <1>2, <1>3, <1>4, <1>5

\* The workers keep the entry.
LEMMA EntryWorker ==
    ASSUME RestOK, LocalsOK, Shape, NEW j \in Jobs, Entry(j), NEW w \in Workers, WorkerOn(w, j)
    PROVE  Entry(j)'
  <1> USE ThreadFacts, Written DEF At, WorkerOn
  <1>1. CASE Take(w) /\ Head(jobChan) = j
    BY <1>1, ChanTail DEF Take, Entry, Others, Goto, LocalsOK, redis, pool
  <1>2. CASE job[w] = j /\ Register(w)
    BY <1>2, SameChan DEF Register, Entry, Others, Goto, LocalsOK, redis, pool
  <1>3. CASE job[w] = j /\ (Execute(w, "ok") \/ Execute(w, "err"))
    BY <1>3, SameChan DEF Execute, FirstStep, Entry, Others, Goto, LocalsOK, redis, pool
  <1>4. CASE job[w] = j /\ CompleteGet(w)
    BY <1>4, SameChan DEF CompleteGet, Entry, Others, Goto, LocalsOK, redis, pool
  <1>5. CASE job[w] = j /\ CompleteSet(w)
    BY <1>5, SameChan DEF CompleteSet, Entry, Others, Goto, LocalsOK, RestOK, redis, pool
  <1>6. CASE job[w] = j /\ CompleteRem(w)
    BY <1>6, SameChan DEF CompleteRem, Entry, Others, Goto, LocalsOK, RestOK, redis, pool
  <1>7. CASE job[w] = j /\ (DbGet(w) \/ DbPut(w))
    BY <1>7, SameChan DEF DbGet, DbPut, NextCallback, FirstStep, Entry, Others, Goto, LocalsOK,
       redis, pool
  <1>8. CASE job[w] = j /\ Unregister(w)
    BY <1>8, SameChan DEF Unregister, Entry, Others, Goto, LocalsOK, redis, pool
  <1> QED
    BY <1>1, <1>2, <1>3, <1>4, <1>5, <1>6, <1>7, <1>8

\* The recovery processor keeps the entry: it lists entries of the running set only.
LEMMA EntryRecoverer ==
    ASSUME RestOK, LocalsOK, Shape, NEW j \in Jobs, Entry(j), RecovererOn(j)
    PROVE  Entry(j)'
  <1> USE ThreadFacts DEF At, RecovererOn
  <1>1. CASE RecoverList
    <2>1. running[j] = "out" => j \notin stale'
      BY <1>1 DEF RecoverList
    <2> QED
      BY <1>1, <2>1, SameChan DEF RecoverList, Entry, Others, Goto, LocalsOK, redis, pool
  <1>2. CASE RecoverNext(j)
    BY <1>2, SameChan DEF RecoverNext, Entry, Others, Goto, LocalsOK, redis, pool
  <1> QED
    BY <1>1, <1>2

\* Time and the clean-up keep the entry, unless the TTL of its data key passes.
LEMMA EntryTime ==
    ASSUME RestOK, LocalsOK, NEW j \in Jobs, Entry(j), TimeOn(j)
    PROVE  Entry(j)'
  <1> USE ThreadFacts DEF TimeOn
  <1>1. CASE DeleteJob(j)
    BY <1>1, SameChan DEF DeleteJob, Entry, redis, pool
  <1>2. CASE Cleanup(j)
    BY <1>2, SameChan DEF Cleanup, Idle, Entry, pool
  <1>3. CASE LeaseExpires(j)
    BY <1>3, SameChan DEF LeaseExpires, Entry, RestOK, pool
  <1>4. CASE DelayElapses(j)
    BY <1>4, SameChan DEF DelayElapses, Entry, RestOK, pool
  <1> QED
    BY <1>1, <1>2, <1>3, <1>4

\* EnqueueJob deletes the key while there is no entry and nobody is about to add one.
LEMMA EntryUndo ==
    ASSUME RestOK, LocalsOK, Shape, NEW j \in Jobs, Entry(j), NEW c \in Clients, Others(c),
           job[c] = j, EnqDel(c)
    PROVE  Entry(j)'
  <1> USE ThreadFacts DEF At
  <1>1. /\ pc[c] = "enq_del" /\ pc'[c] = "idle" /\ job'[c] = Nobody /\ Nobody # j
        /\ UNCHANGED <<queue, running>>
    BY ThreadsDistinct DEF EnqDel, Goto, Return, LocalsOK
  <1>2. /\ queue[j] = "out" /\ running[j] = "out"
        /\ \A u \in Threads \ {c} :
              job[u] = j => u \in Clients /\ pc[u] \notin {"enq_set", "enq_add", "enq_del"}
    BY <1>1 DEF Entry
  <1>3. \A u \in Threads : ~(/\ job'[u] = j
                            /\ pc'[u] \in {"enq_set", "enq_add", "enq_del", "req_add",
                                          "fail_rem", "fail_add"})
    BY <1>1, <1>2 DEF Shape, ThreadShape, ClientLabels, Others
  <1> QED
    BY <1>1, <1>2, <1>3 DEF Entry

\* A failed command keeps the entry, or Enqueue has added it unanswered.
LEMMA EntryError ==
    ASSUME RestOK, LocalsOK, Shape, NEW j \in Jobs, Entry(j), NEW t \in Threads, ErrorOn(t, j)
    PROVE  Entry(j)' \/ j \in unanswered'
  <1> USE ThreadFacts DEF ErrorOn
  <1>1. CASE t \in Workers /\ CallbackDbError(t) /\ job[t] = j
    <2>1. /\ pc'[t] \in {"comp_get", "fail_get", "unreg"} /\ job'[t] = j /\ t \notin Clients
          /\ UNCHANGED <<data, queue, running, jobChan, stale>>
      BY <1>1 DEF CallbackDbError, NextCallback, FirstStep, Goto, LocalsOK, redis, pool
    <2>2. \A c \in Clients : ~(job'[c] = j /\ pc'[c] \in {"enq_set", "enq_add", "enq_del"})
      BY <1>1, <2>1 DEF Entry, Others
    <2> QED
      BY <1>1, <2>1, <2>2 DEF Entry, Others
  <1>2. CASE t \in Clients /\ CancelDbError(t) /\ job[t] = j
    BY <1>2, SameChan DEF CancelDbError, Entry, Others, Goto, Return, LocalsOK, redis, pool
  <1>3. CASE t \in Clients /\ EnqDel(t) /\ job[t] = j
    BY <1>3, EntryUndo
  <1>4. ASSUME CommandFails(t)
        PROVE  /\ pc'[t] = ErrorTarget(t) /\ job'[t] \in {job[t], Nobody} /\ Nobody # j
               /\ UNCHANGED <<jobChan, stale>>
               /\ (InChan(j)' <=> InChan(j))
    BY <1>4, FailedCommand, ThreadsDistinct, SameChan DEF AfterError, Goto, Return, LocalsOK
  <1>5. ASSUME CommandFails(t)
        PROVE  /\ ErrorTarget(t) \notin {"enq_set", "enq_add", "req_add", "fail_rem"}
               /\ ErrorTarget(t) = "fail_add" => pc[t] = "fail_rem"
               /\ ErrorTarget(t) = "enq_del" => pc[t] = "enq_add"
    <2>1. pc[t] \in ReturnsError \cup GoesOn
      BY <1>5, FailedCommand
    <2>2. AfterFail(t) \in {"db_get", "deq"} /\ AfterRequeue(t) \in {"deq", "rec"}
      BY DEF AfterFail, AfterRequeue
    <2> QED
      BY <2>1, <2>2 DEF ErrorTarget, ReturnsError, GoesOn
  <1>6. CASE job[t] = j /\ RedisError(t)
    <2>1. UNCHANGED <<data, queue, running>>
      BY <1>6 DEF RedisError, redis
    <2> QED
      BY <1>4, <1>5, <1>6, <2>1 DEF CommandFails, Entry, Others
  <1>7. CASE job[t] = j /\ SetUnanswered(t)
    <2>1. UNCHANGED <<queue, running>> /\ data'[j] # Absent
      BY <1>7, RecordType DEF SetUnanswered, LocalsOK, RestOK
    <2>2. CommandFails(t)
      BY <1>7 DEF CommandFails
    <2> QED
      BY <1>4, <1>5, <2>1, <2>2 DEF Entry, Others
  <1>8. CASE job[t] = j /\ AddUnanswered(t) /\ pc[t] = "enq_add"
    BY <1>8 DEF AddUnanswered
  <1>9. CASE job[t] = j /\ AddUnanswered(t) /\ pc[t] = "req_add"
    <2>1. UNCHANGED <<data, running>> /\ data[j] # Absent
      BY <1>9 DEF AddUnanswered, Entry
    <2>2. t \notin Clients
      BY <1>9 DEF Shape, ThreadShape, ClientLabels
    <2>3. \A c \in Clients : ~(job[c] = j /\ pc[c] \in {"enq_set", "enq_add", "enq_del"})
      BY <1>9, <2>2 DEF Entry
    <2> QED
      BY <1>4, <1>5, <1>9, <2>1, <2>2, <2>3 DEF CommandFails, Entry, Others
  <1>10. CASE t = Poller /\ MoveUnanswered(j)
    <2>1. UNCHANGED data /\ queue[j] = "ready"
      BY <1>10 DEF MoveUnanswered
    <2>2. data[j] # Absent
      BY <2>1 DEF Entry
    <2>3. \A c \in Clients : ~(job[c] = j /\ pc[c] \in {"enq_set", "enq_add", "enq_del"})
      BY <2>1 DEF Entry
    <2>4. job[t] # j
      BY <1>10, ThreadsDistinct, ShapeRests DEF MoveUnanswered, Resting, At
    <2> QED
      BY <1>4, <1>5, <1>10, <2>1, <2>2, <2>3, <2>4 DEF CommandFails, Entry, Others
  <1> QED
    BY <1>1, <1>2, <1>3, <1>6, <1>7, <1>8, <1>9, <1>10 DEF AddUnanswered

\* So does a new process.
LEMMA EntryProcess ==
    ASSUME NEW j \in Jobs, Entry(j), Crash \/ Restart
    PROVE  Entry(j)'
  <1>1. NewProcess
    BY DEF Crash, Restart
  <1> QED
    BY <1>1, ThreadFacts DEF NewProcess, Entry, redis

\* The events that have happened stay counted.
LEMMA StillWithout ==
    ASSUME RestOK, [Next]_vars, NEW K \in SUBSET Kinds, Without(K)'
    PROVE  Without(K) /\ \A k \in K : ~Spend(k)
  BY Uncounted, SpendFacts DEF Without

\* EnqueueJob deletes a data key only after a command has failed, and only a failed
\* command is unanswered.
NoUndo ==
    Without({"fault"}) => unanswered = {} /\ \A c \in Clients : pc[c] # "enq_del"

\* Every step preserves that.
LEMMA NoUndoStep ==
    ASSUME RestOK, LocalsOK, Shape, NoUndo, [Next]_vars
    PROVE  NoUndo'
  <1>8. Without({"fault"})' => unanswered' = {}
    BY HistoryKept, StillWithout DEF NoUndo, Kinds
  <1> SUFFICES ASSUME Without({"fault"})', NEW c \in Clients PROVE pc'[c] # "enq_del"
    BY <1>8 DEF NoUndo
  <1>1. {"fault"} \in SUBSET Kinds
    BY DEF Kinds
  <1>2. pc[c] # "enq_del" /\ ~Spend("fault")
    BY <1>1, StillWithout DEF NoUndo
  <1>3. ASSUME NEW t \in Threads \ {c}, Others(t) PROVE pc'[c] # "enq_del"
    BY <1>2, <1>3, ThreadFacts DEF Others
  <1>4. CASE \E d \in Clients : Request(d) \/ ClientStep(d)
    <2> PICK d \in Clients : Request(d) \/ ClientStep(d)
      BY <1>4
    <2>1. CASE d # c
      <3>1. Others(d)
        <4>1. ASSUME NEW i \in Jobs PROVE Others(d)
          BY <4>1, ClientView, ShapeRests
        <4>2. CASE ClientStep(d)
          BY <4>2, OthersFacts, ThreadFacts DEF ClientStep, EnqSet, EnqAdd, EnqDel, CancelGet,
             CancelSet, CancelRemQueue, CancelRemRunning, CancelDbGet, CancelDbPut, callback
        <4> QED
          BY <4>1, <4>2 DEF Request
      <3> QED
        BY <1>3, <2>1, <3>1, ThreadFacts
    <2>2. CASE d = c
      BY <2>2, ThreadFacts DEF Request, EnqCreate, CancelInPool, ClientStep, EnqSet, EnqAdd, EnqDel,
         CancelGet, CancelSet, CancelRemQueue, CancelRemRunning, CancelDbGet, CancelDbPut, Goto,
         Return, LocalsOK
    <2> QED
      BY <2>1, <2>2
  <1>5. CASE PollerStep \/ RecovererStep \/ \E w \in Workers : WorkerStep(w)
    <2>1. ASSUME PollerStep PROVE Others(Poller)
      BY <2>1, PollerOthers
    <2>2. ASSUME RecovererStep PROVE Others(Recoverer)
      BY <2>2, RecovererOthers
    <2> QED
      BY <1>3, <1>5, <2>1, <2>2, WorkerOthers, ThreadFacts
  <1>6. CASE Environment
    <2>1. ~ \/ \E t \in Threads : CommandFails(t)
            \/ \E w \in Workers : CallbackDbError(w)
            \/ \E d \in Clients : CancelDbError(d)
      BY <1>2, FailedCommand DEF CallbackDbError, CancelDbError
    <2>2. CASE Crash \/ Restart
      BY <2>2, ThreadFacts DEF Crash, Restart, NewProcess
    <2>3. CASE ~(Crash \/ Restart)
      BY <1>2, <1>6, <2>1, <2>3 DEF Environment, DeleteJob, Cleanup, LeaseExpires, DataExpires,
         DelayElapses, Stop, PoolStop, CancelAllJobs
    <2> QED
      BY <2>2, <2>3
  <1>7. CASE UNCHANGED vars
    BY <1>2, <1>7 DEF vars
  <1> QED
    BY <1>4, <1>5, <1>6, <1>7 DEF Next

\* What the invariants about one job build on.
Ground == RestOK /\ LocalsOK /\ Shape /\ NoUndo /\ \A j \in Jobs : NewJob(j)

\* It holds initially.
LEMMA GroundInit == Init => Ground
  <1> SUFFICES ASSUME Init PROVE NoUndo /\ \A j \in Jobs : NewJob(j)
    BY InitType, ShapeInit DEF Ground
  <1> QED
    BY ThreadsDistinct, ThreadFacts DEF Init, NewJob, InChan, NoUndo

\* Every step preserves it.
LEMMA GroundStep == Ground /\ [Next]_vars => Ground'
  BY NextType, ShapeStep, NewJobStep, NoUndoStep DEF Ground

\* The inductive invariant behind EntryHasData.
EntryInv == Ground /\ (Without({"ttl"}) => \A j \in Jobs \ unanswered : Entry(j))

\* Every step preserves it.
LEMMA EntryStep == EntryInv /\ [Next]_vars => EntryInv'
  <1> SUFFICES ASSUME Ground, Without({"ttl"}) => \A j \in Jobs \ unanswered : Entry(j),
                      [Next]_vars, Without({"ttl"})', NEW j \in Jobs, j \notin unanswered'
               PROVE  Entry(j)'
    BY GroundStep DEF EntryInv
  <1>1. RestOK /\ LocalsOK /\ Shape /\ NewJob(j)
    BY DEF Ground
  <1>2. {"ttl"} \in SUBSET Kinds
    BY DEF Kinds
  <1>3. Entry(j) /\ ~DataExpires(j)
    BY <1>1, <1>2, StillWithout, HistoryKept DEF DataExpires
  <1> QED
    BY <1>1, <1>3, StepOn, EntryForeign, EntryClient, EntryFail, EntryRequeue, EntryPoller,
       EntryWorker, EntryRecoverer, EntryTime, EntryError, EntryProcess

\* Whatever crashes, and whatever command fails before or after its effect, an entry
\* of a priority queue or of the running set has its data key: no interleaving of
\* Enqueue's roll-back, Cancel, Fail and requeueJob leaves an entry that no Dequeue
\* can run.  The exceptions are a key that outlives its TTL and the job whose ZADD
\* in Enqueue took effect although Enqueue was told that it had failed.
THEOREM EntriesHaveData == Spec => []EntryHasData
  <1>1. Init => EntryInv
    BY GroundInit, ThreadsDistinct, ThreadFacts DEF Init, EntryInv, Entry
  <1>2. EntryInv /\ [Next]_vars => EntryInv'
    BY EntryStep
  <1>3. EntryInv => EntryHasData
    BY DEF EntryInv, Entry, EntryHasData
  <1> QED
    BY <1>1, <1>2, <1>3, PTL DEF Spec

-------------------------------------------------------------------------------
(* One holder at a time *)

\* The goroutine decides what becomes of its job: it is inside a queue operation on
\* it, between Dequeue and Submit, or a worker that has yet to report it twice.
Mine(t) ==
    \/ pc[t] \in {"enq_set", "enq_add", "deq_get", "deq_set", "submit", "register", "exec",
                  "comp_get", "comp_set", "comp_rem"}
    \/ pc[t] \in FailLabels \cup RequeueLabels
    \/ pc[t] \in {"db_get", "db_put"} /\ round[t] = 1

Owner(t, j) == job[t] = j /\ Mine(t)
Unowned(j) == \A t \in Threads : ~Owner(t, j)

\* The job is in one place: a queue, the channel, the recoverer's list, or the hands
\* of one goroutine.
Exclusive(j) ==
    /\ queue[j] # "out" => ~InChan(j) /\ Unowned(j) /\ running[j] = "out"
    /\ InChan(j) => Unowned(j) /\ ChanOnce(j)
    /\ \A t, u \in Threads : Owner(t, j) /\ Owner(u, j) => t = u
    /\ j \in stale => ~InChan(j) /\ Unowned(j) /\ queue[j] = "out" /\ running[j] # "fresh"
    /\ running[j] = "stale" => ~InChan(j) /\ \A t \in Threads : Owner(t, j) => t = Recoverer
    /\ \A t \in Threads :
         Owner(t, j) /\ pc[t] \in {"enq_set", "enq_add", "req_set", "req_add", "fail_add"}
         => running[j] = "out"

\* Nobody has reported the execution yet.
Unreported(j) ==
    \/ InChan(j)
    \/ \E t \in Threads :
         /\ Owner(t, j)
         /\ \/ pc[t] \in {"submit", "register", "exec"}
            \/ t \in Workers /\ round[t] = 1 /\ pc[t] \in {"comp_get", "fail_get"}

\* Until then the data key does not say failed, so that the first report does not
\* requeue the job under the worker that will report it a second time.
FirstReport(j) ==
    /\ Unreported(j) => data[j].status # "failed"
    /\ \A w \in Workers :
         job[w] = j /\ round[w] = 1 =>
             /\ pc[w] = "fail_set" => snap[w].status # "failed"
             /\ pc[w] \in {"fail_rem", "fail_add"} => snap[w].status # "retrying"

\* The job has a fresh lease from Dequeue to the end of its execution.
Leased(j) ==
    j \notin canceled =>
        /\ InChan(j) => running[j] = "fresh"
        /\ \A t \in Threads :
             Owner(t, j) /\ pc[t] \in {"deq_get", "deq_set", "submit", "register", "exec"}
             => running[j] = "fresh"

Sole(j) == Exclusive(j) /\ FirstReport(j) /\ Leased(j)

\* Ownership is a matter of the goroutine's own locals.
LEMMA OwnerKept ==
    ASSUME RestOK, LocalsOK, Shape, NEW t \in Threads, Others(t), NEW u \in Threads \ {t}, NEW j
    PROVE  Owner(u, j)' <=> Owner(u, j)
  <1>1. pc[u] \in {"db_get", "db_put"} => u \in Workers
    BY DEF Shape, ThreadShape, ClientLabels, PollerLabels, RecovererLabels, FailLabels,
       RequeueLabels, Threads
  <1> QED
    BY <1>1 DEF Others, Owner, Mine

\* While one goroutine owns the job it is nowhere else.
LEMMA OwnerAlone ==
    ASSUME RestOK, LocalsOK, Shape, NEW j \in Jobs, Exclusive(j), NEW t \in Threads, Owner(t, j),
           Others(t)
    PROVE  /\ queue[j] = "out" /\ ~InChan(j) /\ j \notin stale
           /\ running[j] = "stale" => t = Recoverer
           /\ \A u \in Threads \ {t} : ~Owner(u, j) /\ ~Owner(u, j)'
  BY OwnerKept DEF Exclusive, Unowned

\* A step of the owner keeps the job in one place if it leaves it in one place.
LEMMA ExclusiveOwner ==
    ASSUME NEW j \in Jobs, NEW t \in Threads, \A u \in Threads \ {t} : ~Owner(u, j)',
           queue'[j] # "out" => ~InChan(j)' /\ ~Owner(t, j)' /\ running'[j] = "out",
           InChan(j)' => ~Owner(t, j)' /\ ChanOnce(j)',
           j \notin stale',
           running'[j] = "stale" => ~InChan(j)' /\ (Owner(t, j)' => t = Recoverer),
           Owner(t, j)' /\ pc'[t] \in {"enq_set", "enq_add", "req_set", "req_add", "fail_add"}
           => running'[j] = "out"
    PROVE  Exclusive(j)'
  BY DEF Exclusive, Unowned

\* Its lease is then the owner's business.
LEMMA LeasedOwner ==
    ASSUME NEW j \in Jobs, NEW t \in Threads, \A u \in Threads \ {t} : ~Owner(u, j)',
           j \notin canceled' /\ InChan(j)' => running'[j] = "fresh",
           j \notin canceled' /\ Owner(t, j)'
           /\ pc'[t] \in {"deq_get", "deq_set", "submit", "register", "exec"}
           => running'[j] = "fresh"
    PROVE  Leased(j)'
  BY DEF Leased

\* The same for its first report.
LEMMA FirstReportOwner ==
    ASSUME NEW j \in Jobs, NEW t \in Threads, \A u \in Threads \ {t} : ~Owner(u, j)',
           InChan(j)' => data'[j].status # "failed",
           Owner(t, j)' =>
             /\ pc'[t] \in {"submit", "register", "exec"} => data'[j].status # "failed"
             /\ t \in Workers /\ round'[t] = 1 =>
                  /\ pc'[t] \in {"comp_get", "fail_get"} => data'[j].status # "failed"
                  /\ pc'[t] = "fail_set" => snap'[t].status # "failed"
                  /\ pc'[t] \in {"fail_rem", "fail_add"} => snap'[t].status # "retrying"
    PROVE  FirstReport(j)'
  <1>1. Unreported(j)' => data'[j].status # "failed"
    BY DEF Unreported
  <1>2. ASSUME NEW w \in Workers, job'[w] = j, round'[w] = 1,
               pc'[w] \in {"fail_set", "fail_rem", "fail_add"}
        PROVE  w = t /\ Owner(t, j)'
    BY <1>2, ThreadFacts DEF Owner, Mine, FailLabels
  <1> QED
    BY <1>1, <1>2 DEF FirstReport

\* A step of the job's only owner keeps the job with one holder, if it leaves it so.
LEMMA SoleOwner ==
    ASSUME NEW j \in Jobs, NEW t \in Threads, \A u \in Threads \ {t} : ~Owner(u, j)',
           queue'[j] # "out" => ~InChan(j)' /\ ~Owner(t, j)' /\ running'[j] = "out",
           InChan(j)' => /\ ~Owner(t, j)' /\ ChanOnce(j)' /\ data'[j].status # "failed"
                         /\ running'[j] # "stale" /\ (j \notin canceled' => running'[j] = "fresh"),
           j \notin stale',
           Owner(t, j)' =>
             /\ running'[j] = "stale" => t = Recoverer
             /\ pc'[t] \in {"enq_set", "enq_add", "req_set", "req_add", "fail_add"}
                => running'[j] = "out"
             /\ j \notin canceled' /\ pc'[t] \in {"deq_get", "deq_set", "submit", "register", "exec"}
                => running'[j] = "fresh"
             /\ pc'[t] \in {"submit", "register", "exec"} => data'[j].status # "failed"
             /\ t \in Workers /\ round'[t] = 1 =>
                  /\ pc'[t] \in {"comp_get", "fail_get"} => data'[j].status # "failed"
                  /\ pc'[t] = "fail_set" => snap'[t].status # "failed"
                  /\ pc'[t] \in {"fail_rem", "fail_add"} => snap'[t].status # "retrying"
    PROVE  Sole(j)'
  <1>1. Exclusive(j)'
    BY ExclusiveOwner
  <1>2. FirstReport(j)'
    BY FirstReportOwner
  <1>3. Leased(j)'
    BY LeasedOwner
  <1> QED
    BY <1>1, <1>2, <1>3 DEF Sole

\* So does a step of a goroutine that does not own it and does not take it up, such
\* as CancelJob, if it puts the job nowhere.
LEMMA SoleBystander ==
    ASSUME RestOK, LocalsOK, Shape, NEW j \in Jobs, Sole(j), NEW t \in Threads, Others(t),
           ~Owner(t, j), ~Owner(t, j)',
           queue'[j] # "out" => queue[j] # "out",
           running'[j] = running[j] \/ (running'[j] = "out" /\ j \in canceled'),
           data'[j].status = "failed" => data[j].status = "failed",
           j \in canceled => j \in canceled',
           UNCHANGED <<jobChan, stale>>
    PROVE  Sole(j)'
  <1>1. \A u \in Threads : Owner(u, j)' <=> Owner(u, j)
    BY OwnerKept
  <1>2. (InChan(j)' <=> InChan(j)) /\ (ChanOnce(j) => ChanOnce(j)')
    BY SameChan
  <1>3. \A u \in Threads : Owner(u, j) => pc'[u] = pc[u] /\ snap'[u] = snap[u]
                                          /\ (u \in Workers => round'[u] = round[u])
    BY DEF Others
  <1>4. Exclusive(j)'
    BY <1>1, <1>2, <1>3 DEF Sole, Exclusive, Unowned
  <1>5. Unreported(j)' => Unreported(j)
    BY <1>1, <1>2, <1>3 DEF Unreported
  <1>6. \A w \in Workers : job'[w] = j /\ round'[w] = 1 /\ pc'[w] \in {"fail_set", "fail_rem", "fail_add"}
          => Owner(w, j)'
    BY DEF Owner, Mine, FailLabels
  <1>7. FirstReport(j)'
    BY <1>1, <1>3, <1>5, <1>6, ThreadFacts DEF Sole, FirstReport, Owner
  <1>8. Leased(j)'
    BY <1>1, <1>2, <1>3 DEF Sole, Leased
  <1> QED
    BY <1>4, <1>7, <1>8 DEF Sole

\* A step that is foreign to the job keeps it with its holder.
LEMMA SoleForeign ==
    ASSUME RestOK, LocalsOK, Shape, NEW j \in Jobs, Sole(j), Foreign(j)
    PROVE  Sole(j)'
  <1> USE DEF Foreign, SameJob
  <1>1. \A t \in Threads : pc[t] \in {"db_get", "db_put"} => t \in Workers
    BY DEF Shape, ThreadShape, ClientLabels, PollerLabels, RecovererLabels, FailLabels,
       RequeueLabels, Threads
  <1>2. \A u \in Threads : Owner(u, j)' <=> Owner(u, j)
    BY <1>1 DEF SameHolders, Owner, Mine
  <1>3. \A u \in Threads : Owner(u, j) => pc'[u] = pc[u] /\ snap'[u] = snap[u]
                                          /\ (u \in Workers => round'[u] = round[u])
    BY DEF SameHolders, Owner
  <1>4. Exclusive(j)'
    BY <1>2, <1>3 DEF Sole, Exclusive, Unowned
  <1>5. Unreported(j)' => Unreported(j)
    BY <1>2, <1>3 DEF Unreported
  <1>6. FirstReport(j)'
    BY <1>5, ThreadFacts DEF Sole, FirstReport, SameHolders
  <1>7. Leased(j)'
    BY <1>2, <1>3 DEF Sole, Leased
  <1> QED
    BY <1>4, <1>6, <1>7 DEF Sole

\* The clients keep the job with one holder.
LEMMA SoleClient ==
    ASSUME RestOK, LocalsOK, Shape, NEW j \in Jobs, NewJob(j), Sole(j),
           NEW c \in Clients, ClientOn(c, j)
    PROVE  Sole(j)'
  <1>1. c \in Threads /\ c \notin Workers
    BY ThreadFacts
  <1> USE <1>1 DEF At, ClientOn
  <1>2. CASE EnqCreate(c, j)
    <2>1. \A u \in Threads \ {c} : ~Owner(u, j)'
      BY <1>2 DEF EnqCreate, NewJob, Others, Owner
    <2> QED
      BY <1>2, <2>1, SoleOwner, SameChan DEF EnqCreate, NewJob, Goto, LocalsOK, redis, pool
  <1>3. CASE job[c] = j /\ (EnqSet(c) \/ EnqAdd(c))
    <2>1. Owner(c, j)
      BY <1>3 DEF EnqSet, EnqAdd, Owner, Mine
    <2>2. /\ queue[j] = "out" /\ ~InChan(j) /\ j \notin stale
          /\ \A u \in Threads \ {c} : ~Owner(u, j)'
      BY <2>1, OwnerAlone DEF Sole
    <2>3. running[j] = "out"
      BY <1>3, <2>1 DEF Sole, Exclusive, EnqSet, EnqAdd
    <2>4. CASE EnqSet(c)
      BY <1>3, <2>2, <2>3, <2>4, SoleOwner, SameChan DEF EnqSet, Goto, LocalsOK, redis, pool
    <2>5. CASE EnqAdd(c)
      <3>1. ~Owner(c, j)'
        BY <1>3, <2>5 DEF EnqAdd, Return, Goto, LocalsOK, Owner, Mine, FailLabels, RequeueLabels
      <3> QED
        BY <1>3, <2>2, <2>3, <2>5, <3>1, SoleOwner, SameChan DEF EnqAdd, redis, pool
    <2> QED
      BY <1>3, <2>4, <2>5
  <1>4. ASSUME \/ CancelInPool(c, j)
               \/ job[c] = j /\ (\/ CancelGet(c) \/ CancelSet(c) \/ CancelRemQueue(c)
                                 \/ CancelRemRunning(c) \/ CancelDbGet(c) \/ CancelDbPut(c))
        PROVE  Sole(j)'
    <2>1. ~Owner(c, j) /\ ~Owner(c, j)'
      BY <1>4 DEF CancelInPool, CancelGet, CancelSet, CancelRemQueue, CancelRemRunning,
         CancelDbGet, CancelDbPut, Return, Goto, LocalsOK, Owner, Mine, FailLabels, RequeueLabels
    <2>2. queue'[j] # "out" => queue[j] # "out"
      BY <1>4 DEF CancelInPool, CancelGet, CancelSet, CancelRemQueue, CancelRemRunning,
         CancelDbGet, CancelDbPut, RestOK, redis
    <2>3. running'[j] = running[j] \/ (running'[j] = "out" /\ j \in canceled')
      BY <1>4 DEF CancelInPool, CancelGet, CancelSet, CancelRemQueue, CancelRemRunning,
         CancelDbGet, CancelDbPut, RestOK, redis, history, Shape, ThreadShape
    <2>4. data'[j].status = "failed" => data[j].status = "failed"
      BY <1>4, StatusFacts DEF CancelInPool, CancelGet, CancelSet, CancelRemQueue, CancelRemRunning,
         CancelDbGet, CancelDbPut, RestOK, redis
    <2>5. (j \in canceled => j \in canceled') /\ UNCHANGED <<jobChan, stale>>
      BY <1>4 DEF CancelInPool, CancelGet, CancelSet, CancelRemQueue, CancelRemRunning,
         CancelDbGet, CancelDbPut, pool, history
    <2> QED
      BY <2>1, <2>2, <2>3, <2>4, <2>5, SoleBystander
  <1> QED
    BY <1>2, <1>3, <1>4 DEF ClientStep

\* queue.Fail keeps the job with one holder.
LEMMA SoleFail ==
    ASSUME RestOK, LocalsOK, Shape, NEW j \in Jobs, Sole(j), NEW t \in Threads, FailOn(t, j)
    PROVE  Sole(j)'
  <1> USE ThreadFacts, StatusFacts DEF At, FailOn, AfterFail
  <1>1. Owner(t, j)
    BY DEF FailStep, FailGet, FailSet, FailRem, FailAdd, Owner, Mine, FailLabels
  <1>2. /\ queue[j] = "out" /\ ~InChan(j) /\ j \notin stale
        /\ running[j] = "stale" => t = Recoverer
        /\ \A u \in Threads \ {t} : ~Owner(u, j)'
    BY <1>1, OwnerAlone DEF Sole
  <1>3. ~InChan(j)' /\ j \notin stale' /\ round' = round
    BY <1>2, SameChan DEF FailStep, FailGet, FailSet, FailRem, FailAdd, pool, callback
  <1>4. FirstReport(j)
    BY DEF Sole
  <1>5. CASE FailGet(t)
    <2>1. t \in Workers /\ round[t] = 1 => data[j].status # "failed"
      BY <1>1, <1>4, <1>5 DEF FirstReport, Unreported, FailGet
    <2> QED
      BY <1>2, <1>3, <1>5, <2>1, SoleOwner DEF FailGet, Return, Read, Goto, LocalsOK, redis
  <1>6. CASE FailSet(t)
    <2>1. t \in Workers /\ round[t] = 1 => ~CanRetry(snap[t])
      BY <1>4, <1>6 DEF FirstReport, FailSet, CanRetry
    <2>2. t \in Workers /\ round[t] = 1 => snap'[t].status # "retrying"
      BY <1>6, <2>1 DEF FailSet, Read, LocalsOK
    <2> QED
      BY <1>2, <1>3, <1>6, <2>2, SoleOwner DEF FailSet, Goto, LocalsOK
  <1>7. CASE FailRem(t)
    <2>1. t \in Workers /\ round[t] = 1 => snap[t].status # "retrying"
      BY <1>4, <1>7 DEF FirstReport, FailRem
    <2>2. running'[j] = "out"
      BY <1>7 DEF FailRem, RestOK
    <2> QED
      BY <1>2, <1>3, <1>7, <2>1, <2>2, SoleOwner DEF FailRem, Goto, LocalsOK
  <1>8. CASE FailAdd(t)
    <2>1. running'[j] = "out"
      BY <1>1, <1>8 DEF FailAdd, Sole, Exclusive
    <2>2. t \in Workers /\ round[t] = 1 => queue'[j] = "out"
      BY <1>2, <1>4, <1>8 DEF FirstReport, FailAdd
    <2>3. pc'[t] = "db_get" \/ ~Owner(t, j)'
      BY <1>8, ThreadsDistinct DEF FailAdd, Return, Goto, LocalsOK, Owner
    <2>4. (t \notin Workers \/ round'[t] # 1) => ~Owner(t, j)'
      BY <1>8, ThreadsDistinct DEF FailAdd, Return, Goto, LocalsOK, Owner, Mine, FailLabels, RequeueLabels
    <2> QED
      BY <1>2, <1>3, <1>8, <2>1, <2>2, <2>3, <2>4, SoleOwner
  <1> QED
    BY <1>5, <1>6, <1>7, <1>8 DEF FailStep

\* queue.requeueJob keeps the job with one holder.
LEMMA SoleRequeue ==
    ASSUME RestOK, LocalsOK, Shape, NEW j \in Jobs, Sole(j), NEW t \in Threads, RequeueOn(t, j)
    PROVE  Sole(j)'
  <1> USE ThreadFacts, StatusFacts DEF At, RequeueOn, AfterRequeue
  <1>1. Owner(t, j) /\ t \notin Workers
    BY DEF RequeueStep, RequeueGet, RequeueRem, RequeueSet, RequeueAdd, Owner, Mine, RequeueLabels
  <1>2. /\ queue[j] = "out" /\ ~InChan(j) /\ j \notin stale
        /\ running[j] = "stale" => t = Recoverer
        /\ \A u \in Threads \ {t} : ~Owner(u, j)'
    BY <1>1, OwnerAlone DEF Sole
  <1>3. ~InChan(j)' /\ j \notin stale'
    BY <1>2, SameChan DEF RequeueStep, RequeueGet, RequeueRem, RequeueSet, RequeueAdd, pool
  <1>4. CASE RequeueGet(t)
    BY <1>1, <1>2, <1>3, <1>4, SoleOwner DEF RequeueGet, Return, Goto, LocalsOK, redis
  <1>5. CASE RequeueRem(t)
    <2>1. running'[j] = "out"
      BY <1>5 DEF RequeueRem, RestOK
    <2> QED
      BY <1>1, <1>2, <1>3, <1>5, <2>1, SoleOwner DEF RequeueRem, Goto, LocalsOK
  <1>6. CASE RequeueSet(t)
    <2>1. running[j] = "out"
      BY <1>1, <1>6 DEF RequeueSet, Sole, Exclusive
    <2> QED
      BY <1>1, <1>2, <1>3, <1>6, <2>1, SoleOwner DEF RequeueSet, Goto, LocalsOK
  <1>7. CASE RequeueAdd(t)
    <2>1. running[j] = "out"
      BY <1>1, <1>7 DEF RequeueAdd, Sole, Exclusive
    <2>2. ~Owner(t, j)'
      BY <1>1, <1>7, ThreadsDistinct DEF RequeueAdd, Return, Goto, LocalsOK, Owner
    <2> QED
      BY <1>1, <1>2, <1>3, <1>7, <2>1, <2>2, SoleOwner DEF RequeueAdd
  <1> QED
    BY <1>4, <1>5, <1>6, <1>7 DEF RequeueStep

\* The queue processor keeps the job with one holder.
LEMMA SolePoller ==
    ASSUME RestOK, LocalsOK, Shape, NEW j \in Jobs, Sole(j), PollerOn(j)
    PROVE  Sole(j)'
  <1>1. Poller \in Threads /\ Poller \notin Workers /\ Poller # Recoverer
    BY ThreadFacts
  <1> USE <1>1 DEF At, PollerOn
  <1>2. CASE DeqMove(j)
    <2>1. ~InChan(j) /\ Unowned(j) /\ j \notin stale
      BY <1>2 DEF DeqMove, Sole, Exclusive
    <2>2. \A u \in Threads \ {Poller} : ~Owner(u, j)'
      BY <2>1, OwnerKept DEF Unowned
    <2>3. running'[j] = "fresh" /\ queue'[j] = "out" /\ pc'[Poller] = "deq_get"
      BY <1>2 DEF DeqMove, Goto, LocalsOK, RestOK
    <2>4. ~InChan(j)' /\ j \notin stale'
      BY <1>2, <2>1, SameChan DEF DeqMove, pool
    <2> QED
      BY <2>2, <2>3, <2>4, SoleOwner
  <1>3. ASSUME job[Poller] = j, DeqGet \/ DeqSet \/ Submit \/ SubmitRefused PROVE Sole(j)'
    <2>1. Owner(Poller, j)
      BY <1>3 DEF DeqGet, DeqSet, Submit, SubmitRefused, Owner, Mine
    <2>2. /\ queue[j] = "out" /\ ~InChan(j) /\ j \notin stale
          /\ running[j] # "stale"
          /\ \A u \in Threads \ {Poller} : ~Owner(u, j)'
      BY <2>1, OwnerAlone DEF Sole
    <2>3. j \notin canceled => running[j] = "fresh"
      BY <1>3, <2>1 DEF Sole, Leased, DeqGet, DeqSet, Submit, SubmitRefused
    <2>4. /\ queue'[j] = "out" /\ j \notin stale' /\ running'[j] = running[j]
          /\ canceled' = canceled
      BY <1>3, <2>2 DEF DeqGet, DeqSet, Submit, SubmitRefused, redis, history
    <2>5. CASE DeqGet
      BY <2>2, <2>3, <2>4, <2>5, SoleOwner, SameChan DEF DeqGet, Goto, LocalsOK, pool
    <2>6. CASE DeqSet
      <3>1. data'[j].status = "running"
        BY <1>3, <2>6 DEF DeqSet, RestOK
      <3> QED
        BY <2>2, <2>3, <2>4, <2>6, <3>1, SoleOwner, SameChan DEF DeqSet, Goto, LocalsOK, pool
    <2>7. CASE Submit
      <3>1. data'[j].status # "failed"
        BY <1>3, <2>1, <2>7 DEF Submit, Sole, FirstReport, Unreported, redis
      <3>2. ChanOnce(j)'
        BY <1>3, <2>2, <2>7, ChanAppend DEF Submit
      <3>3. ~Owner(Poller, j)'
        BY <2>7, ThreadsDistinct DEF Submit, Return, LocalsOK, Owner
      <3> QED
        BY <2>2, <2>3, <2>4, <3>1, <3>2, <3>3, SoleOwner
    <2>8. CASE SubmitRefused
      BY <2>2, <2>3, <2>4, <2>8, SoleOwner, SameChan DEF SubmitRefused, Goto, LocalsOK, pool
    <2> QED
      BY <1>3, <2>5, <2>6, <2>7, <2>8
  <1> QED
    BY <1>2, <1>3

\* The workers keep the job with one holder.
LEMMA SoleWorker ==
    ASSUME RestOK, LocalsOK, Shape, NEW j \in Jobs, Sole(j), NEW w \in Workers, WorkerOn(w, j)
    PROVE  Sole(j)'
  <1>1. w \in Threads /\ w # Recoverer
    BY ThreadFacts
  <1>2. ThreadShape(w) /\ round[w] \in {1, 2}
    BY <1>1 DEF Shape, RestOK
  <1> USE <1>1 DEF At, WorkerOn
  <1>3. CASE Take(w) /\ Head(jobChan) = j
    <2>1. InChan(j) /\ j \notin stale /\ queue[j] = "out" /\ Unowned(j) /\ running[j] # "stale"
          /\ ChanOnce(j) /\ data[j].status # "failed" /\ (j \notin canceled => running[j] = "fresh")
      <3>1. InChan(j)
        BY <1>3, ChanTail DEF Take
      <3> QED
        BY <3>1 DEF Sole, Exclusive, Leased, FirstReport, Unreported
    <2>2. ~InChan(j)'
      BY <1>3, <2>1, ChanTail DEF Take
    <2>3. \A u \in Threads \ {w} : ~Owner(u, j)'
      BY <2>1, OwnerKept DEF Unowned
    <2> QED
      BY <1>3, <2>1, <2>2, <2>3, SoleOwner DEF Take, Goto, LocalsOK, redis, history
  <1>4. ASSUME job[w] = j, Owner(w, j),
               \/ Register(w) \/ Execute(w, "ok") \/ Execute(w, "err")
               \/ CompleteGet(w) \/ CompleteSet(w) \/ CompleteRem(w)
               \/ DbGet(w) \/ DbPut(w)
        PROVE  Sole(j)'
    <2>1. /\ queue[j] = "out" /\ ~InChan(j) /\ j \notin stale /\ running[j] # "stale"
          /\ \A u \in Threads \ {w} : ~Owner(u, j)'
      BY <1>4, OwnerAlone DEF Sole
    <2>2. queue'[j] = "out" /\ ~InChan(j)' /\ j \notin stale' /\ running'[j] # "stale"
      BY <1>4, <2>1, SameChan DEF Register, Execute, CompleteGet, CompleteSet, CompleteRem, DbGet,
         DbPut, RestOK, redis, pool
    <2>3. CASE Register(w)
      <3>1. data[j].status # "failed" /\ (j \notin canceled => running[j] = "fresh")
        BY <1>4, <2>3 DEF Register, Sole, FirstReport, Unreported, Leased
      <3> QED
        BY <2>1, <2>2, <2>3, <3>1, SoleOwner DEF Register, Goto, LocalsOK, redis
    <2>4. CASE Execute(w, "ok") \/ Execute(w, "err")
      <3>1. data[j].status # "failed"
        BY <1>4, <2>4 DEF Execute, Sole, FirstReport, Unreported
      <3>2. pc'[w] \in {"comp_get", "fail_get"} /\ data' = data
        BY <2>4 DEF Execute, FirstStep, Goto, LocalsOK, redis
      <3> QED
        BY <2>1, <2>2, <3>1, <3>2, SoleOwner
    <2>5. CASE CompleteGet(w) \/ CompleteSet(w) \/ CompleteRem(w)
      <3>1. pc'[w] \in {"comp_set", "comp_rem", "db_get"}
        BY <2>5 DEF CompleteGet, CompleteSet, CompleteRem, Goto, LocalsOK
      <3> QED
        BY <2>1, <2>2, <3>1, SoleOwner
    <2>6. CASE DbGet(w) \/ DbPut(w)
      <3>1. round[w] = 1
        BY <1>4, <2>6 DEF DbGet, DbPut, Owner, Mine, FailLabels, RequeueLabels
      <3>2. NextCallback(w) => round'[w] = 2 /\ pc'[w] \in {"comp_get", "fail_get"}
        BY <3>1 DEF NextCallback, FirstStep, Goto, LocalsOK, RestOK
      <3>3. pc'[w] = "db_put" \/ NextCallback(w)
        BY <2>6 DEF DbGet, DbPut, Goto, LocalsOK
      <3> QED
        BY <2>1, <2>2, <3>2, <3>3, SoleOwner
    <2> QED
      BY <1>4, <2>3, <2>4, <2>5, <2>6
  <1>5. ASSUME job[w] = j, ~Owner(w, j), DbGet(w) \/ DbPut(w) \/ Unregister(w)
        PROVE  Sole(j)'
    <2>1. pc'[w] \in {"db_put", "unreg", "idle"} /\ (pc'[w] = "db_put" => round'[w] = 2)
      BY <1>2, <1>5 DEF DbGet, DbPut, Unregister, Owner, Mine, NextCallback, Goto, LocalsOK, RestOK
    <2>2. ~Owner(w, j)'
      BY <2>1 DEF Owner, Mine, FailLabels, RequeueLabels
    <2>3. UNCHANGED <<data, queue, running, canceled, jobChan, stale>>
      BY <1>5 DEF DbGet, DbPut, Unregister, redis, pool, history
    <2> QED
      BY <1>5, <2>2, <2>3, SoleBystander
  <1>6. ASSUME job[w] = j,
               \/ Register(w) \/ Execute(w, "ok") \/ Execute(w, "err")
               \/ CompleteGet(w) \/ CompleteSet(w) \/ CompleteRem(w)
        PROVE  Owner(w, j)
    BY <1>6 DEF Register, Execute, CompleteGet, CompleteSet, CompleteRem, Owner, Mine
  <1>7. ASSUME job[w] = j, Unregister(w) PROVE ~Owner(w, j)
    BY <1>7 DEF Unregister, Owner, Mine, FailLabels, RequeueLabels
  <1> QED
    BY <1>3, <1>4, <1>5, <1>6, <1>7

\* The recovery processor keeps the job with one holder.
LEMMA SoleRecoverer ==
    ASSUME RestOK, LocalsOK, Shape, NEW j \in Jobs, Sole(j), RecovererOn(j)
    PROVE  Sole(j)'
  <1>1. Recoverer \in Threads /\ Recoverer \notin Workers
    BY ThreadFacts
  <1> USE <1>1 DEF At, RecovererOn
  <1>2. CASE RecoverList
    <2>1. ~Owner(Recoverer, j) /\ ~Owner(Recoverer, j)'
      BY <1>2 DEF RecoverList, Owner, Mine, FailLabels, RequeueLabels, Goto, LocalsOK
    <2>2. \A u \in Threads : Owner(u, j)' <=> Owner(u, j)
      BY <2>1, OwnerKept
    <2>3. /\ UNCHANGED <<data, queue, running, canceled, jobChan>>
          /\ j \in stale' <=> running[j] = "stale"
      BY <1>2 DEF RecoverList, redis, pool, history
    <2>4. (InChan(j)' <=> InChan(j)) /\ (ChanOnce(j) => ChanOnce(j)')
      BY <2>3, SameChan
    <2>5. \A u \in Threads : Owner(u, j) => pc'[u] = pc[u] /\ snap'[u] = snap[u]
                                            /\ (u \in Workers => round'[u] = round[u])
      BY <2>1 DEF Others
    <2>6. Exclusive(j)'
      BY <2>1, <2>2, <2>3, <2>4, <2>5 DEF Sole, Exclusive, Unowned
    <2>7. Unreported(j)' => Unreported(j)
      BY <2>2, <2>4, <2>5 DEF Unreported
    <2>8. FirstReport(j)'
      BY <2>3, <2>7, ThreadFacts DEF Sole, FirstReport, Others
    <2>9. Leased(j)'
      BY <2>2, <2>3, <2>4, <2>5 DEF Sole, Leased
    <2> QED
      BY <2>6, <2>8, <2>9 DEF Sole
  <1>3. CASE RecoverNext(j)
    <2>1. ~InChan(j) /\ Unowned(j) /\ queue[j] = "out"
      BY <1>3 DEF RecoverNext, Sole, Exclusive
    <2>2. \A u \in Threads \ {Recoverer} : ~Owner(u, j)'
      BY <2>1, OwnerKept DEF Unowned
    <2> QED
      BY <1>3, <2>1, <2>2, SoleOwner, SameChan DEF RecoverNext, Goto, LocalsOK, redis, pool
  <1> QED
    BY <1>2, <1>3

\* Time keeps the job with one holder, as long as no lease expires under a holder.
LEMMA SoleTime ==
    ASSUME RestOK, LocalsOK, Shape, NEW j \in Jobs, Sole(j), TimeOn(j) \/ DataExpires(j),
           ~Spend("lease")
    PROVE  Sole(j)'
  <1> USE ThreadFacts, StatusFacts DEF TimeOn
  <1>1. UNCHANGED <<pc, job, snap, round, jobChan, stale, canceled>>
    BY DEF DeleteJob, Cleanup, LeaseExpires, DataExpires, DelayElapses, pool, callback, history
  <1>2. \A u \in Threads : Owner(u, j)' <=> Owner(u, j)
    BY <1>1 DEF Owner, Mine
  <1>3. InChan(j)' <=> InChan(j)
    BY <1>1, SameChan
  <1>4. ChanOnce(j) => ChanOnce(j)'
    BY <1>1, SameChan
  <1>5. (Unreported(j)' <=> Unreported(j)) /\ (Unowned(j)' <=> Unowned(j))
    BY <1>1, <1>2, <1>3 DEF Unreported, Unowned
  <1>6. Idle(j) => Unowned(j) /\ ~InChan(j)
    BY DEF Idle, Unowned, Owner, InChan
  <1>7. CASE DeleteJob(j) \/ Cleanup(j) \/ DataExpires(j)
    <2>1. UNCHANGED <<queue, running>>
      BY <1>7 DEF DeleteJob, Cleanup, DataExpires, redis
    <2>2. data'[j].status = "failed" => data[j].status = "failed"
      BY <1>7 DEF DeleteJob, Cleanup, DataExpires, redis, RestOK
    <2>3. Exclusive(j)'
      BY <1>1, <1>2, <1>3, <1>4, <1>5, <2>1 DEF Sole, Exclusive
    <2>4. FirstReport(j)'
      BY <1>1, <1>5, <2>2 DEF Sole, FirstReport
    <2>5. Leased(j)'
      BY <1>1, <1>2, <1>3, <2>1 DEF Sole, Leased
    <2> QED
      BY <2>3, <2>4, <2>5 DEF Sole
  <1>8. CASE LeaseExpires(j)
    <2>1. Unowned(j) /\ ~InChan(j) /\ running[j] = "fresh" /\ running'[j] = "stale"
      BY <1>6, <1>8 DEF LeaseExpires, RestOK
    <2>2. UNCHANGED <<queue, data>>
      BY <1>8 DEF LeaseExpires
    <2>3. Exclusive(j)'
      BY <1>1, <1>2, <1>3, <1>5, <2>1, <2>2 DEF Sole, Exclusive, Unowned
    <2>4. FirstReport(j)'
      BY <1>1, <1>5, <2>2 DEF Sole, FirstReport
    <2>5. Leased(j)'
      BY <1>2, <1>3, <2>1 DEF Leased, Unowned
    <2> QED
      BY <2>3, <2>4, <2>5 DEF Sole
  <1>9. CASE DelayElapses(j)
    <2>1. queue[j] # "out" /\ queue'[j] # "out" /\ UNCHANGED <<running, data>>
      BY <1>9 DEF DelayElapses, RestOK
    <2>2. Exclusive(j)'
      BY <1>1, <1>2, <1>3, <1>4, <1>5, <2>1 DEF Sole, Exclusive
    <2>3. FirstReport(j)'
      BY <1>1, <1>5, <2>1 DEF Sole, FirstReport
    <2>4. Leased(j)'
      BY <1>1, <1>2, <1>3, <2>1 DEF Sole, Leased
    <2> QED
      BY <2>2, <2>3, <2>4 DEF Sole
  <1> QED
    BY <1>7, <1>8, <1>9

\* A new process holds nothing.
LEMMA NewProcessFree ==
    ASSUME NEW j \in Jobs, Crash \/ Restart
    PROVE  /\ ~InChan(j)' /\ Unowned(j)' /\ j \notin stale'
           /\ UNCHANGED <<data[j], queue[j], running[j], db[j], execs[j], canceled, dead>>
           /\ \A t \in Threads : job'[t] # j /\ pc'[t] = "idle"
  <1>1. NewProcess
    BY DEF Crash, Restart
  <1>2. jobChan' = <<>> /\ stale' = {} /\ \A t \in Threads : job'[t] # j /\ pc'[t] = "idle"
    BY <1>1, ThreadsDistinct DEF NewProcess
  <1>3. ~InChan(j)'
    BY <1>2 DEF InChan
  <1>4. Unowned(j)'
    BY <1>2 DEF Unowned, Owner
  <1> QED
    BY <1>1, <1>2, <1>3, <1>4 DEF NewProcess, redis

\* So it keeps the job with one holder.
LEMMA SoleProcess ==
    ASSUME NEW j \in Jobs, Sole(j), Crash \/ Restart
    PROVE  Sole(j)'
  <1>1. /\ ~InChan(j)' /\ Unowned(j)' /\ j \notin stale'
        /\ UNCHANGED <<queue[j], running[j]>>
        /\ \A t \in Threads : job'[t] # j
    BY NewProcessFree
  <1>2. Exclusive(j)'
    BY <1>1 DEF Sole, Exclusive, Unowned
  <1>3. FirstReport(j)'
    BY <1>1, ThreadFacts DEF FirstReport, Unreported, Unowned
  <1>4. Leased(j)'
    BY <1>1 DEF Leased, Unowned
  <1> QED
    BY <1>2, <1>3, <1>4 DEF Sole

\* The inductive invariant behind LeasedWhileInPool.
Undisputed == Without({"fault", "lease"})
SoleInv == Ground /\ (Undisputed => \A j \in Jobs : Sole(j))

\* What a step without a failed command and without a lease expiring under its holder
\* can be for one job.
LEMMA UndisputedStep ==
    ASSUME Ground, [Next]_vars, Undisputed', NEW j \in Jobs
    PROVE  /\ Undisputed /\ ~Spend("lease")
           /\ \/ Foreign(j)
              \/ \E c \in Clients : ClientOn(c, j)
              \/ \E t \in Threads : FailOn(t, j) \/ RequeueOn(t, j)
              \/ PollerOn(j)
              \/ \E w \in Workers : WorkerOn(w, j)
              \/ RecovererOn(j)
              \/ TimeOn(j) \/ DataExpires(j)
              \/ Crash \/ Restart
  <1>1. {"fault", "lease"} \in SUBSET Kinds
    BY DEF Kinds
  <1>2. Undisputed /\ ~Spend("lease") /\ ~Spend("fault")
    BY <1>1, StillWithout DEF Ground, Undisputed
  <1>3. \A t : ~ErrorOn(t, j)
    BY <1>2 DEF ErrorOn, RedisError, SetUnanswered, AddUnanswered, MoveUnanswered,
       CallbackDbError, CancelDbError, EnqDel, At, Ground, NoUndo, Undisputed, Without
  <1> QED
    BY <1>2, <1>3, StepOn DEF Ground

\* Every step preserves it.
LEMMA SoleStep == SoleInv /\ [Next]_vars => SoleInv'
  <1> SUFFICES ASSUME Ground, Undisputed => \A j \in Jobs : Sole(j), [Next]_vars,
                      Undisputed', NEW j \in Jobs
               PROVE  Sole(j)'
    BY GroundStep DEF SoleInv
  <1>1. RestOK /\ LocalsOK /\ Shape /\ NewJob(j)
    BY DEF Ground
  <1>2. Sole(j) /\ ~Spend("lease")
    BY UndisputedStep
  <1> QED
    BY <1>1, <1>2, UndisputedStep, SoleForeign, SoleClient, SoleFail, SoleRequeue, SolePoller,
       SoleWorker, SoleRecoverer, SoleTime, SoleProcess

\* It holds initially.
LEMMA SoleInit == Init => SoleInv
  <1> SUFFICES ASSUME Init, NEW j \in Jobs PROVE Sole(j)
    BY GroundInit DEF SoleInv
  <1>1. ~InChan(j) /\ Unowned(j) /\ j \notin stale /\ queue[j] = "out" /\ running[j] = "out"
        /\ \A t \in Threads : job[t] # j
    BY ThreadsDistinct DEF Init, InChan, Unowned, Owner
  <1>2. Exclusive(j) /\ Leased(j)
    BY <1>1 DEF Exclusive, Leased, Unowned
  <1>3. FirstReport(j)
    BY <1>1, ThreadFacts DEF FirstReport, Unreported, Unowned
  <1> QED
    BY <1>2, <1>3 DEF Sole

\* A job between Dequeue and the end of its execution has its lease: whatever crashes,
\* expires or is canceled elsewhere, no other goroutine's ZREM takes it away.
THEOREM LeasedInPool == Spec => []LeasedWhileInPool
  <1>1. SoleInv => LeasedWhileInPool
    <2> SUFFICES ASSUME SoleInv, NEW j \in Jobs, InPool(j), j \notin canceled,
                        Without({"fault", "lease"})
                 PROVE  running[j] # "out"
      BY DEF LeasedWhileInPool
    <2>1. Leased(j)
      BY DEF SoleInv, Undisputed, Sole
    <2> QED
      BY <2>1 DEF Leased, InPool, Owner, Mine
  <1> QED
    BY <1>1, SoleInit, SoleStep, PTL DEF Spec

-------------------------------------------------------------------------------
(* What the data key says *)

\* What the data key of a queued job says, unless it expired in the queue.
Waiting(j) == data[j] = Absent \/ data[j].status \in {"pending", "retrying"}

\* What the data key says of a job its owner is working on, label by label.
StageOf(t, j) ==
    /\ pc[t] = "enq_set" => data[j] = Absent
    /\ pc[t] = "enq_add" => data[j].status = "pending"
    /\ pc[t] = "deq_get" => Waiting(j)
    /\ pc[t] = "deq_set" => data[j].status \in {"pending", "retrying"}
    /\ pc[t] \in {"submit", "register", "exec"} => data[j].status = "running"
    /\ pc[t] = "req_get" => data[j] = Absent
    /\ pc[t] \notin {"req_rem", "req_set", "req_add"}
    /\ pc[t] \in {"comp_get", "comp_set"} =>
         data[j].status = IF round[t] = 1 THEN "running" ELSE "completed"
    /\ pc[t] = "comp_rem" => data[j].status = "completed"
    /\ pc[t] \in {"fail_get", "fail_set"} =>
         data[j].status = IF t \in Workers /\ round[t] = 2 THEN "failed" ELSE "running"
    /\ pc[t] \in {"fail_rem", "fail_add"} =>
         \/ data[j].status = "failed"
         \/ data[j].status = "retrying" /\ t \in Workers /\ round[t] = 2
    /\ pc[t] \in {"db_get", "db_put"} =>
         data[j].status = IF outcome[t] = "ok" THEN "completed" ELSE "failed"
    /\ pc[t] \in {"deq_set", "comp_set", "fail_set", "fail_rem", "fail_add"} =>
         snap[t] = data[j]

\* The same for a job that is in a queue, in the channel or nowhere.  A lease nobody
\* works on is the remainder of a job whose data expired in the queue.
Stage(j) ==
    /\ queue[j] # "out" => Waiting(j)
    /\ running[j] # "out" /\ ~InChan(j) /\ Unowned(j) => data[j] = Absent
    /\ running[j] = "stale" => data[j] = Absent
    /\ j \in stale => data[j] = Absent
    /\ InChan(j) => data[j].status = "running"
    /\ \A t \in Threads : Owner(t, j) => StageOf(t, j)

\* The step leaves a completed job alone.
Final(j) == data[j].status = "completed" => data'[j] \in {data[j], Absent}

\* A step of the job's only owner keeps the stage, if it leaves the job in a stage.
LEMMA StageOwner ==
    ASSUME NEW j \in Jobs, NEW t \in Threads, \A u \in Threads \ {t} : ~Owner(u, j)',
           queue'[j] # "out" => Waiting(j)',
           running'[j] # "out" /\ ~InChan(j)' /\ ~Owner(t, j)' => data'[j] = Absent,
           running'[j] = "stale" => data'[j] = Absent,
           j \notin stale',
           InChan(j)' => data'[j].status = "running",
           Owner(t, j)' => StageOf(t, j)'
    PROVE  Stage(j)'
  BY DEF Stage, Waiting, Unowned

\* A stage is a matter of the job and of its owner's locals.
LEMMA StageKept ==
    ASSUME NEW j \in Jobs, Stage(j), UNCHANGED <<data[j], queue[j], running[j]>>,
           InChan(j)' <=> InChan(j), j \in stale' => j \in stale,
           \A u \in Threads : Owner(u, j)' <=> Owner(u, j),
           \A u \in Threads : Owner(u, j) =>
             /\ pc'[u] = pc[u] /\ snap'[u] = snap[u]
             /\ u \in Workers => round'[u] = round[u] /\ outcome'[u] = outcome[u],
           \A u \in Threads :
             pc[u] \in {"comp_get", "comp_set", "db_get", "db_put"} => u \in Workers
    PROVE  Stage(j)' /\ Final(j)
  <1>1. \A u \in Threads : Owner(u, j)' => StageOf(u, j)'
    BY DEF Stage, Waiting, StageOf
  <1>2. Unowned(j)' <=> Unowned(j)
    BY DEF Unowned
  <1> QED
    BY <1>1, <1>2 DEF Stage, Waiting, Final

\* Only workers are at the labels of a worker.
LEMMA WorkersOnly ==
    Shape => \A u \in Threads :
               pc[u] \in {"comp_get", "comp_set", "comp_rem", "db_get", "db_put"} => u \in Workers
  BY DEF Shape, ThreadShape, ClientLabels, PollerLabels, RecovererLabels, FailLabels,
     RequeueLabels, Threads

\* A step that is foreign to the job keeps its stage.
LEMMA StageForeign ==
    ASSUME RestOK, LocalsOK, Shape, NEW j \in Jobs, Stage(j), Foreign(j)
    PROVE  Stage(j)' /\ Final(j)
  <1>1. \A u \in Threads : Owner(u, j)' <=> Owner(u, j)
    BY WorkersOnly DEF Foreign, SameHolders, Owner, Mine
  <1>2. \A u \in Threads : Owner(u, j) =>
             /\ pc'[u] = pc[u] /\ snap'[u] = snap[u]
             /\ u \in Workers => round'[u] = round[u] /\ outcome'[u] = outcome[u]
    BY DEF Foreign, SameHolders, Owner
  <1> QED
    BY <1>1, <1>2, StageKept, WorkersOnly DEF Foreign, SameJob

\* So does a step of a goroutine that neither owns the job nor touches its entries.
LEMMA StageBystander ==
    ASSUME RestOK, LocalsOK, Shape, NEW j \in Jobs, Stage(j), NEW t \in Threads, Others(t),
           ~Owner(t, j), ~Owner(t, j)',
           UNCHANGED <<data[j], queue[j], running[j], jobChan, stale>>
    PROVE  Stage(j)' /\ Final(j)
  <1>1. \A u \in Threads : Owner(u, j)' <=> Owner(u, j)
    BY OwnerKept
  <1>2. \A u \in Threads : Owner(u, j) =>
             /\ pc'[u] = pc[u] /\ snap'[u] = snap[u]
             /\ u \in Workers => round'[u] = round[u] /\ outcome'[u] = outcome[u]
    BY DEF Others
  <1>3. InChan(j)' <=> InChan(j)
    BY SameChan
  <1> QED
    BY <1>1, <1>2, <1>3, StageKept, WorkersOnly

\* CancelJob's steps, seen from a job it has not canceled.
LEMMA CancelBystander ==
    ASSUME RestOK, LocalsOK, Shape, NEW j \in Jobs, j \notin canceled', NEW c \in Clients,
           \/ CancelInPool(c, j)
           \/ job[c] = j /\ (\/ CancelGet(c) \/ CancelSet(c) \/ CancelRemQueue(c)
                             \/ CancelRemRunning(c) \/ CancelDbGet(c) \/ CancelDbPut(c))
    PROVE  /\ ~Owner(c, j) /\ ~Owner(c, j)'
           /\ UNCHANGED <<data[j], queue[j], running[j], db[j], jobChan, stale, execs, dead,
                          refused>>
  <1>1. c \in Threads
    BY ThreadFacts
  <1> USE <1>1 DEF At
  <1>2. ~Owner(c, j) /\ ~Owner(c, j)'
    BY DEF CancelInPool, CancelGet, CancelSet, CancelRemQueue, CancelRemRunning,
       CancelDbGet, CancelDbPut, Return, Goto, LocalsOK, Owner, Mine, FailLabels, RequeueLabels
  <1>3. \/ CancelInPool(c, j) \/ CancelGet(c)
    <2>1. ThreadShape(c)
      BY DEF Shape
    <2> QED
      BY <2>1 DEF CancelGet, CancelSet, CancelRemQueue, CancelRemRunning,
         CancelDbGet, CancelDbPut, ThreadShape, history
  <1> QED
    BY <1>2, <1>3 DEF CancelInPool, CancelGet, redis, pool, history

\* The clients keep the stage of a job that they do not cancel.
LEMMA StageClient ==
    ASSUME RestOK, LocalsOK, Shape, NEW j \in Jobs, NewJob(j), Sole(j), Stage(j), j \notin canceled',
           NEW c \in Clients, ClientOn(c, j)
    PROVE  Stage(j)' /\ Final(j)
  <1>1. c \in Threads /\ c \notin Workers /\ c # Recoverer
    BY ThreadFacts
  <1> USE <1>1, StatusFacts DEF At, ClientOn
  <1>2. CASE EnqCreate(c, j)
    <2>1. \A u \in Threads \ {c} : ~Owner(u, j)'
      BY <1>2 DEF EnqCreate, NewJob, Others, Owner
    <2>2. StageOf(c, j)'
      BY <1>2 DEF EnqCreate, NewJob, StageOf, Waiting, Goto, LocalsOK, redis
    <2>3. Owner(c, j)'
      BY <1>2 DEF EnqCreate, Owner, Mine, Goto, LocalsOK
    <2>4. Stage(j)'
      BY <1>2, <2>1, <2>2, <2>3, StageOwner, SameChan DEF EnqCreate, NewJob, redis, pool
    <2> QED
      BY <1>2, <2>4 DEF EnqCreate, Final, redis
  <1>3. CASE job[c] = j /\ (EnqSet(c) \/ EnqAdd(c))
    <2>1. Owner(c, j)
      BY <1>3 DEF EnqSet, EnqAdd, Owner, Mine
    <2>2. /\ queue[j] = "out" /\ ~InChan(j) /\ j \notin stale
          /\ \A u \in Threads \ {c} : ~Owner(u, j)'
      BY <2>1, OwnerAlone DEF Sole
    <2>3. running[j] = "out"
      BY <1>3, <2>1 DEF Sole, Exclusive, EnqSet, EnqAdd
    <2>4. StageOf(c, j)
      BY <2>1 DEF Stage, Waiting
    <2>5. ~InChan(j)' /\ j \notin stale' /\ running'[j] = "out"
      BY <1>3, <2>2, <2>3, SameChan DEF EnqSet, EnqAdd, pool
    <2>6. CASE EnqSet(c)
      <3>1. data'[j].status = "pending" /\ data[j] = Absent
        BY <1>3, <2>4, <2>6 DEF EnqSet, RestOK, StageOf, Waiting
      <3>2. StageOf(c, j)'
        BY <2>6, <3>1 DEF EnqSet, StageOf, Waiting, Goto, LocalsOK
      <3> QED
        BY <2>2, <2>5, <3>1, <3>2, StageOwner DEF Final, Waiting
    <2>7. CASE EnqAdd(c)
      <3>1. data[j].status = "pending"
        BY <2>4, <2>7 DEF EnqAdd, StageOf, Waiting
      <3>2. ~Owner(c, j)'
        BY <1>3, <2>7, ThreadsDistinct DEF EnqAdd, Return, LocalsOK, Owner
      <3> QED
        BY <2>2, <2>5, <2>7, <3>1, <3>2, StageOwner DEF EnqAdd, Final, Waiting
    <2> QED
      BY <1>3, <2>6, <2>7
  <1>4. CASE \/ CancelInPool(c, j)
             \/ job[c] = j /\ (\/ CancelGet(c) \/ CancelSet(c) \/ CancelRemQueue(c)
                               \/ CancelRemRunning(c) \/ CancelDbGet(c) \/ CancelDbPut(c))
    BY <1>4, CancelBystander, StageBystander
  <1> QED
    BY <1>2, <1>3, <1>4 DEF ClientStep

\* queue.Fail keeps the stage.
LEMMA StageFail ==
    ASSUME RestOK, LocalsOK, Shape, NEW j \in Jobs, Sole(j), Stage(j),
           NEW t \in Threads, FailOn(t, j)
    PROVE  Stage(j)' /\ Final(j)
  <1> USE ThreadFacts, StatusFacts DEF At, FailOn, AfterFail
  <1>1. Owner(t, j)
    BY DEF FailStep, FailGet, FailSet, FailRem, FailAdd, Owner, Mine, FailLabels
  <1>2. /\ queue[j] = "out" /\ ~InChan(j) /\ j \notin stale
        /\ running[j] # "stale"
        /\ \A u \in Threads \ {t} : ~Owner(u, j)'
    BY <1>1, OwnerAlone DEF Sole
  <1>3. ~InChan(j)' /\ j \notin stale' /\ round' = round /\ outcome' = outcome
    BY <1>2, SameChan DEF FailStep, FailGet, FailSet, FailRem, FailAdd, pool, callback
  <1>4. StageOf(t, j)
    BY <1>1 DEF Stage, Waiting
  <1>5. CASE FailGet(t)
    <2>1. data[j].status \in {"running", "failed"} /\ data[j] # Absent
      BY <1>4, <1>5 DEF FailGet, StageOf, Waiting
    <2>2. pc'[t] = "fail_set" /\ snap'[t] = data[j] /\ data' = data /\ queue' = queue /\ running' = running
          /\ job'[t] = j
      BY <1>5, <2>1 DEF FailGet, Goto, Read, LocalsOK, redis
    <2>3. StageOf(t, j)'
      BY <1>3, <1>4, <1>5, <2>2 DEF FailGet, StageOf, Waiting
    <2>4. Owner(t, j)'
      BY <2>2 DEF Owner, Mine, FailLabels
    <2> QED
      BY <1>2, <1>3, <2>2, <2>3, <2>4, StageOwner DEF Final
  <1>6. CASE FailSet(t)
    <2>1. snap[t] = data[j]
          /\ data[j].status = IF t \in Workers /\ round[t] = 2 THEN "failed" ELSE "running"
      BY <1>4, <1>6 DEF FailSet, StageOf, Waiting
    <2>2. data'[j] = WithStatus(snap[t], IF CanRetry(snap[t]) THEN "retrying" ELSE "failed")
          /\ snap'[t] = data'[j] /\ pc'[t] = "fail_rem" /\ job'[t] = j
          /\ queue' = queue /\ running' = running
      BY <1>6 DEF FailSet, Goto, Read, LocalsOK, RestOK
    <2>3. CanRetry(snap[t]) => t \in Workers /\ round[t] = 2
      BY <2>1 DEF CanRetry
    <2>4. StageOf(t, j)'
      BY <1>3, <2>2, <2>3 DEF StageOf, Waiting
    <2>5. Owner(t, j)'
      BY <2>2 DEF Owner, Mine, FailLabels
    <2> QED
      BY <1>2, <1>3, <2>1, <2>2, <2>4, <2>5, StageOwner DEF Final
  <1>7. CASE FailRem(t)
    <2>1. running'[j] = "out" /\ data' = data /\ queue' = queue /\ snap' = snap
          /\ pc'[t] = "fail_add"
      BY <1>7 DEF FailRem, RestOK, Goto, LocalsOK
    <2>2. StageOf(t, j)'
      BY <1>3, <1>4, <1>7, <2>1 DEF FailRem, StageOf, Waiting
    <2> QED
      BY <1>2, <1>3, <2>1, <2>2, StageOwner DEF Final
  <1>8. CASE FailAdd(t)
    <2>1. running'[j] = "out" /\ data' = data
      BY <1>1, <1>8 DEF FailAdd, Sole, Exclusive
    <2>2. snap[t] = data[j] /\ (\/ data[j].status = "failed"
                                \/ data[j].status = "retrying" /\ t \in Workers /\ round[t] = 2)
      BY <1>4, <1>8 DEF FailAdd, StageOf, Waiting
    <2>3. queue'[j] # "out" => data[j].status = "retrying"
      BY <1>2, <1>8, <2>2 DEF FailAdd
    <2>4. Owner(t, j)' => t \in Workers /\ pc'[t] = "db_get" /\ round[t] = 1
      BY <1>3, <1>8, ThreadsDistinct DEF FailAdd, Return, Goto, LocalsOK, Owner, Mine, FailLabels,
         RequeueLabels
    <2>5. t \in Workers => outcome[t] = "err"
      BY <1>8 DEF FailAdd, Shape, ThreadShape, FailLabels
    <2>6. Owner(t, j)' => StageOf(t, j)'
      BY <1>3, <2>1, <2>2, <2>4, <2>5 DEF StageOf, Waiting
    <2> QED
      BY <1>2, <1>3, <2>1, <2>3, <2>6, StageOwner DEF Final, Waiting
  <1> QED
    BY <1>5, <1>6, <1>7, <1>8 DEF FailStep

\* queue.requeueJob finds no data.
LEMMA StageRequeue ==
    ASSUME RestOK, LocalsOK, Shape, NEW j \in Jobs, Sole(j), Stage(j),
           NEW t \in Threads, RequeueOn(t, j)
    PROVE  Stage(j)' /\ Final(j)
  <1> USE ThreadFacts, StatusFacts DEF At, RequeueOn, AfterRequeue
  <1>1. Owner(t, j) /\ t \notin Workers
    BY DEF RequeueStep, RequeueGet, RequeueRem, RequeueSet, RequeueAdd, Owner, Mine, RequeueLabels
  <1>2. /\ queue[j] = "out" /\ ~InChan(j) /\ j \notin stale
        /\ \A u \in Threads \ {t} : ~Owner(u, j)'
    BY <1>1, OwnerAlone DEF Sole
  <1>3. RequeueGet(t) /\ data[j] = Absent
    BY <1>1 DEF Stage, Waiting, StageOf, RequeueStep, RequeueGet, RequeueRem, RequeueSet, RequeueAdd
  <1>4. ~Owner(t, j)'
    BY <1>1, <1>3, ThreadsDistinct DEF RequeueGet, Return, LocalsOK, Owner
  <1> QED
    BY <1>2, <1>3, <1>4, StageOwner, SameChan DEF RequeueGet, redis, pool, Final

\* The queue processor keeps the stage.
LEMMA StagePoller ==
    ASSUME RestOK, LocalsOK, Shape, NEW j \in Jobs, Sole(j), Stage(j), PollerOn(j)
    PROVE  Stage(j)' /\ Final(j)
  <1>1. Poller \in Threads /\ Poller \notin Workers /\ Poller # Recoverer
    BY ThreadFacts
  <1> USE <1>1, StatusFacts DEF At, PollerOn
  <1>2. CASE DeqMove(j)
    <2>1. ~InChan(j) /\ Unowned(j) /\ j \notin stale
      BY <1>2 DEF DeqMove, Sole, Exclusive
    <2>2. \A u \in Threads \ {Poller} : ~Owner(u, j)'
      BY <2>1, OwnerKept DEF Unowned
    <2>3. /\ running'[j] = "fresh" /\ queue'[j] = "out" /\ pc'[Poller] = "deq_get"
          /\ job'[Poller] = j /\ data' = data
      BY <1>2 DEF DeqMove, Goto, LocalsOK, RestOK
    <2>4. ~InChan(j)' /\ j \notin stale'
      BY <1>2, <2>1, SameChan DEF DeqMove, pool
    <2>5. Waiting(j)
      BY <1>2 DEF DeqMove, Stage
    <2>6. StageOf(Poller, j)' /\ Owner(Poller, j)'
      BY <2>3, <2>5 DEF StageOf, Owner, Mine, Waiting
    <2> QED
      BY <2>2, <2>3, <2>4, <2>6, StageOwner DEF Final
  <1>3. ASSUME job[Poller] = j, DeqGet \/ DeqSet \/ Submit \/ SubmitRefused
        PROVE  Stage(j)' /\ Final(j)
    <2>1. Owner(Poller, j)
      BY <1>3 DEF DeqGet, DeqSet, Submit, SubmitRefused, Owner, Mine
    <2>2. /\ queue[j] = "out" /\ ~InChan(j) /\ j \notin stale
          /\ running[j] # "stale"
          /\ \A u \in Threads \ {Poller} : ~Owner(u, j)'
      BY <2>1, OwnerAlone DEF Sole
    <2>3. queue'[j] = "out" /\ j \notin stale' /\ running'[j] # "stale"
      BY <1>3, <2>2 DEF DeqGet, DeqSet, Submit, SubmitRefused, redis
    <2>4. StageOf(Poller, j)
      BY <2>1 DEF Stage
    <2>5. CASE DeqGet
      <3>1. /\ data' = data /\ snap'[Poller] = data[j] /\ job'[Poller] = j
            /\ pc'[Poller] = IF data[j] = Absent THEN "req_get" ELSE "deq_set"
        BY <1>3, <2>5 DEF DeqGet, Read, Goto, LocalsOK, redis
      <3>2. StageOf(Poller, j)' /\ Owner(Poller, j)'
        BY <2>4, <2>5, <3>1 DEF DeqGet, StageOf, Waiting, Owner, Mine, RequeueLabels
      <3> QED
        BY <2>2, <2>3, <2>5, <3>1, <3>2, StageOwner, SameChan DEF DeqGet, pool, Final
    <2>6. CASE DeqSet
      <3>1. /\ data'[j].status = "running" /\ job'[Poller] = j /\ pc'[Poller] = "submit"
            /\ data[j].status # "completed"
        BY <1>3, <2>4, <2>6 DEF DeqSet, RestOK, StageOf, Goto, LocalsOK
      <3>2. StageOf(Poller, j)' /\ Owner(Poller, j)'
        BY <3>1 DEF StageOf, Owner, Mine
      <3> QED
        BY <2>2, <2>3, <2>6, <3>1, <3>2, StageOwner, SameChan DEF DeqSet, pool, Final
    <2>7. CASE Submit
      <3>1. data'[j].status = "running" /\ data' = data
        BY <2>4, <2>7 DEF Submit, StageOf, redis
      <3>2. InChan(j)'
        BY <1>3, <2>7, ChanAppend DEF Submit
      <3>3. ~Owner(Poller, j)'
        BY <2>7, ThreadsDistinct DEF Submit, Return, LocalsOK, Owner
      <3> QED
        BY <2>2, <2>3, <3>1, <3>2, <3>3, StageOwner DEF Final
    <2>8. CASE SubmitRefused
      <3>1. data'[j].status = "running" /\ data' = data /\ job'[Poller] = j /\ pc'[Poller] = "fail_get"
        BY <1>3, <2>4, <2>8 DEF SubmitRefused, StageOf, Goto, LocalsOK, redis
      <3>2. StageOf(Poller, j)' /\ Owner(Poller, j)'
        BY <3>1 DEF StageOf, Owner, Mine, FailLabels
      <3> QED
        BY <2>2, <2>3, <2>8, <3>1, <3>2, StageOwner, SameChan DEF SubmitRefused, pool, Final
    <2> QED
      BY <1>3, <2>5, <2>6, <2>7, <2>8
  <1> QED
    BY <1>2, <1>3

\* The workers keep the stage: the second report of an execution finds the first.
LEMMA StageWorker ==
    ASSUME RestOK, LocalsOK, Shape, NEW j \in Jobs, Sole(j), Stage(j),
           NEW w \in Workers, WorkerOn(w, j)
    PROVE  Stage(j)' /\ Final(j)
  <1>1. w \in Threads /\ w # Recoverer
    BY ThreadFacts
  <1>2. ThreadShape(w) /\ round[w] \in {1, 2} /\ outcome[w] \in {"ok", "err"}
    BY <1>1 DEF Shape, RestOK
  <1> USE <1>1, StatusFacts DEF At, WorkerOn
  <1>3. CASE Take(w) /\ Head(jobChan) = j
    <2>1. InChan(j)
      BY <1>3, ChanTail DEF Take
    <2>2. /\ j \notin stale /\ queue[j] = "out" /\ Unowned(j) /\ running[j] # "stale"
          /\ ChanOnce(j)
      BY <2>1 DEF Sole, Exclusive
    <2>3. ~InChan(j)'
      BY <1>3, <2>2, ChanTail DEF Take
    <2>4. \A u \in Threads \ {w} : ~Owner(u, j)'
      BY <2>2, OwnerKept DEF Unowned
    <2>5. data[j].status = "running" /\ data' = data /\ pc'[w] = "register" /\ job'[w] = j
      BY <1>3, <2>1 DEF Take, Stage, Goto, LocalsOK, redis
    <2>6. StageOf(w, j)' /\ Owner(w, j)'
      BY <2>5 DEF StageOf, Owner, Mine
    <2> QED
      BY <1>3, <2>2, <2>3, <2>4, <2>5, <2>6, StageOwner DEF Take, redis, Final
  <1>4. ASSUME job[w] = j, Owner(w, j),
               \/ Register(w) \/ Execute(w, "ok") \/ Execute(w, "err")
               \/ CompleteGet(w) \/ CompleteSet(w) \/ CompleteRem(w)
               \/ DbGet(w) \/ DbPut(w)
        PROVE  Stage(j)' /\ Final(j)
    <2>1. /\ queue[j] = "out" /\ ~InChan(j) /\ j \notin stale /\ running[j] # "stale"
          /\ \A u \in Threads \ {w} : ~Owner(u, j)'
      BY <1>4, OwnerAlone DEF Sole
    <2>2. queue'[j] = "out" /\ ~InChan(j)' /\ j \notin stale' /\ running'[j] # "stale" /\ job'[w] = j
      BY <1>4, <2>1, SameChan DEF Register, Execute, CompleteGet, CompleteSet, CompleteRem, DbGet,
         DbPut, RestOK, redis, pool
    <2>3. StageOf(w, j)
      BY <1>4 DEF Stage
    <2>4. CASE Register(w)
      <3>1. data' = data /\ pc'[w] = "exec" /\ data[j].status = "running"
        BY <2>3, <2>4 DEF Register, StageOf, Goto, LocalsOK, redis
      <3>2. StageOf(w, j)' /\ Owner(w, j)'
        BY <2>2, <3>1 DEF StageOf, Owner, Mine
      <3> QED
        BY <2>1, <2>2, <3>1, <3>2, StageOwner DEF Final
    <2>5. CASE Execute(w, "ok") \/ Execute(w, "err")
      <3>1. /\ data' = data /\ pc'[w] \in {"comp_get", "fail_get"} /\ data[j].status = "running"
            /\ round' = round /\ round[w] = 1
        BY <1>2, <2>3, <2>5 DEF Execute, FirstStep, StageOf, ThreadShape, Goto, LocalsOK, redis
      <3>2. StageOf(w, j)' /\ Owner(w, j)'
        BY <2>2, <3>1 DEF StageOf, Owner, Mine, FailLabels
      <3> QED
        BY <2>1, <2>2, <3>1, <3>2, StageOwner DEF Final
    <2>6. CASE CompleteGet(w)
      <3>1. /\ data[j].status = IF round[w] = 1 THEN "running" ELSE "completed"
            /\ data[j] # Absent
        BY <2>3, <2>6 DEF CompleteGet, StageOf
      <3>2. data' = data /\ pc'[w] = "comp_set" /\ snap'[w] = data[j] /\ round' = round
        BY <1>4, <2>6, <3>1 DEF CompleteGet, Goto, Read, LocalsOK, redis, callback
      <3>3. StageOf(w, j)' /\ Owner(w, j)'
        BY <2>2, <3>1, <3>2 DEF StageOf, Owner, Mine
      <3> QED
        BY <2>1, <2>2, <3>2, <3>3, StageOwner DEF Final
    <2>7. CASE CompleteSet(w)
      <3>1. snap[w] = data[j] /\ data'[j] = WithStatus(data[j], "completed") /\ pc'[w] = "comp_rem"
        BY <1>4, <2>3, <2>7 DEF CompleteSet, StageOf, Goto, LocalsOK, RestOK
      <3>2. StageOf(w, j)' /\ Owner(w, j)'
        BY <2>2, <3>1 DEF StageOf, Owner, Mine
      <3>3. data[j].status = "completed" => data'[j] = data[j]
        BY <3>1 DEF WithStatus, RestOK, JobRecord
      <3> QED
        BY <2>1, <2>2, <3>1, <3>2, <3>3, StageOwner DEF Final
    <2>8. CASE CompleteRem(w)
      <3>1. /\ data' = data /\ pc'[w] = "db_get" /\ data[j].status = "completed"
            /\ round' = round /\ outcome' = outcome /\ outcome[w] = "ok" /\ running'[j] = "out"
        BY <1>2, <1>4, <2>3, <2>8 DEF CompleteRem, StageOf, ThreadShape, Goto, LocalsOK, RestOK, callback
      <3>2. StageOf(w, j)'
        BY <3>1 DEF StageOf
      <3> QED
        BY <2>1, <2>2, <3>1, <3>2, StageOwner DEF Final
    <2>9. CASE DbGet(w) \/ DbPut(w)
      <3>1. round[w] = 1
        BY <1>4, <2>9 DEF DbGet, DbPut, Owner, Mine, FailLabels, RequeueLabels
      <3>2. data[j].status = IF outcome[w] = "ok" THEN "completed" ELSE "failed"
        BY <2>3, <2>9 DEF DbGet, DbPut, StageOf
      <3>3. data' = data /\ outcome' = outcome
        BY <2>9 DEF DbGet, DbPut, redis
      <3>4. CASE NextCallback(w)
        <4>1. round'[w] = 2 /\ pc'[w] = IF outcome[w] = "ok" THEN "comp_get" ELSE "fail_get"
          BY <3>1, <3>4 DEF NextCallback, FirstStep, Goto, LocalsOK, RestOK
        <4>2. StageOf(w, j)' /\ Owner(w, j)'
          BY <1>2, <2>2, <3>2, <3>3, <4>1 DEF StageOf, Owner, Mine, FailLabels
        <4> QED
          BY <2>1, <2>2, <3>3, <4>2, StageOwner DEF Final
      <3>5. CASE ~NextCallback(w)
        <4>1. pc'[w] = "db_put" /\ round' = round
          BY <2>9, <3>5 DEF DbGet, DbPut, Goto, LocalsOK
        <4>2. StageOf(w, j)' /\ Owner(w, j)'
          BY <2>2, <3>1, <3>2, <3>3, <4>1 DEF StageOf, Owner, Mine
        <4> QED
          BY <2>1, <2>2, <3>3, <4>2, StageOwner DEF Final
      <3> QED
        BY <3>4, <3>5
    <2> QED
      BY <1>4, <2>4, <2>5, <2>6, <2>7, <2>8, <2>9
  <1>5. ASSUME job[w] = j, ~Owner(w, j), DbGet(w) \/ DbPut(w) \/ Unregister(w)
        PROVE  Stage(j)' /\ Final(j)
    <2>1. pc'[w] \in {"db_put", "unreg", "idle"} /\ (pc'[w] = "db_put" => round'[w] = 2)
      BY <1>2, <1>5 DEF DbGet, DbPut, Unregister, Owner, Mine, NextCallback, Goto, LocalsOK, RestOK
    <2>2. ~Owner(w, j)'
      BY <2>1 DEF Owner, Mine, FailLabels, RequeueLabels
    <2>3. UNCHANGED <<data, queue, running, canceled, jobChan, stale>>
      BY <1>5 DEF DbGet, DbPut, Unregister, redis, pool, history
    <2> QED
      BY <1>5, <2>2, <2>3, StageBystander
  <1>6. ASSUME job[w] = j,
               \/ Register(w) \/ Execute(w, "ok") \/ Execute(w, "err")
               \/ CompleteGet(w) \/ CompleteSet(w) \/ CompleteRem(w)
        PROVE  Owner(w, j)
    BY <1>6 DEF Register, Execute, CompleteGet, CompleteSet, CompleteRem, Owner, Mine
  <1>7. ASSUME job[w] = j, Unregister(w) PROVE ~Owner(w, j)
    BY <1>7 DEF Unregister, Owner, Mine, FailLabels, RequeueLabels
  <1> QED
    BY <1>3, <1>4, <1>5, <1>6, <1>7

\* The recovery processor keeps the stage.
LEMMA StageRecoverer ==
    ASSUME RestOK, LocalsOK, Shape, NEW j \in Jobs, Sole(j), Stage(j), RecovererOn(j)
    PROVE  Stage(j)' /\ Final(j)
  <1>1. Recoverer \in Threads /\ Recoverer \notin Workers
    BY ThreadFacts
  <1> USE <1>1, StatusFacts DEF At, RecovererOn
  <1>2. CASE RecoverList
    <2>1. ~Owner(Recoverer, j) /\ ~Owner(Recoverer, j)'
      BY <1>2 DEF RecoverList, Owner, Mine, FailLabels, RequeueLabels, Goto, LocalsOK
    <2>2. \A u \in Threads : Owner(u, j)' <=> Owner(u, j)
      BY <2>1, OwnerKept
    <2>3. /\ UNCHANGED <<data, queue, running, jobChan>>
          /\ j \in stale' <=> running[j] = "stale"
      BY <1>2 DEF RecoverList, redis, pool
    <2>4. InChan(j)' <=> InChan(j)
      BY <2>3, SameChan
    <2>5. \A u \in Threads : Owner(u, j)' => StageOf(u, j)'
      <3>1. \A u \in Threads : Owner(u, j) =>
              /\ pc'[u] = pc[u] /\ snap'[u] = snap[u]
              /\ u \in Workers => round'[u] = round[u] /\ outcome'[u] = outcome[u]
        BY <2>1 DEF Others
      <3> QED
        BY <2>2, <2>3, <3>1, WorkersOnly DEF Stage, StageOf, Waiting
    <2>6. Unowned(j)' <=> Unowned(j)
      BY <2>2 DEF Unowned
    <2> QED
      BY <2>3, <2>4, <2>5, <2>6 DEF Stage, Final, Waiting
  <1>3. CASE RecoverNext(j)
    <2>1. ~InChan(j) /\ Unowned(j) /\ queue[j] = "out"
      BY <1>3 DEF RecoverNext, Sole, Exclusive
    <2>2. \A u \in Threads \ {Recoverer} : ~Owner(u, j)'
      BY <2>1, OwnerKept DEF Unowned
    <2>3. data[j] = Absent /\ data' = data /\ job'[Recoverer] = j /\ pc'[Recoverer] = "req_get"
      BY <1>3 DEF RecoverNext, Stage, Goto, LocalsOK, redis
    <2>4. StageOf(Recoverer, j)'
      BY <2>3 DEF StageOf
    <2> QED
      BY <1>3, <2>1, <2>2, <2>3, <2>4, StageOwner, SameChan DEF RecoverNext, redis, pool, Final
  <1> QED
    BY <1>2, <1>3

\* Time keeps the stage.
LEMMA StageTime ==
    ASSUME RestOK, LocalsOK, Shape, NEW j \in Jobs, Sole(j), Stage(j), TimeOn(j) \/ DataExpires(j),
           ~Spend("lease")
    PROVE  Stage(j)' /\ Final(j)
  <1> USE ThreadFacts, StatusFacts DEF TimeOn
  <1>1. UNCHANGED <<pc, job, snap, round, outcome, jobChan, stale>>
    BY DEF DeleteJob, Cleanup, LeaseExpires, DataExpires, DelayElapses, pool, callback, history
  <1>2. \A u \in Threads : Owner(u, j)' <=> Owner(u, j)
    BY <1>1 DEF Owner, Mine
  <1>3. (InChan(j)' <=> InChan(j)) /\ (Unowned(j)' <=> Unowned(j))
    BY <1>1, <1>2, SameChan DEF Unowned
  <1>4. Idle(j) => Unowned(j) /\ ~InChan(j)
    BY DEF Idle, Unowned, Owner, InChan
  <1>5. CASE DeleteJob(j)
    BY <1>1, <1>2, <1>3, <1>5, StageKept, WorkersOnly DEF DeleteJob, redis
  <1>6. CASE Cleanup(j) \/ DataExpires(j)
    <2>1. data'[j] = Absent /\ Idle(j)
      BY <1>6 DEF Cleanup, DataExpires, RestOK
    <2> QED
      BY <1>2, <1>3, <1>4, <2>1 DEF Stage, Final, Waiting, Unowned
  <1>7. CASE LeaseExpires(j)
    <2>1. Unowned(j) /\ ~InChan(j) /\ running[j] = "fresh" /\ UNCHANGED <<queue, data>>
      BY <1>4, <1>7 DEF LeaseExpires
    <2> QED
      BY <1>1, <1>2, <1>3, <2>1 DEF Stage, Final, Waiting, Unowned
  <1>8. CASE DelayElapses(j)
    <2>1. queue[j] # "out" /\ UNCHANGED <<running, data>>
      BY <1>8 DEF DelayElapses
    <2>2. ~InChan(j) /\ Unowned(j)
      BY <2>1 DEF Sole, Exclusive
    <2> QED
      BY <1>1, <1>2, <1>3, <2>1, <2>2 DEF Stage, Final, Waiting, Unowned
  <1> QED
    BY <1>5, <1>6, <1>7, <1>8

\* Nothing failed, crashed or was stopped, and no lease expired under its holder.
Quiet == Without({"fault", "crash", "lease", "stop"})

\* The scheduler leaves the phase "running" only when Stop is called.
Steady == used["stop"] = 0 => phase = "running"

\* Every step preserves it.
LEMMA SteadyStep ==
    ASSUME RestOK, Steady, [Next]_vars
    PROVE  Steady'
  <1> SUFFICES ASSUME used'["stop"] = 0 PROVE phase' = "running"
    BY DEF Steady
  <1>1. used["stop"] = 0 /\ ~Spend("stop")
    BY Uncounted, SpendFacts DEF Kinds
  <1>2. phase = "running"
    BY <1>1 DEF Steady
  <1>3. CASE \E c \in Clients : Request(c) \/ ClientStep(c)
    BY <1>2, <1>3 DEF Request, ClientStep, EnqCreate, EnqSet, EnqAdd, EnqDel, CancelInPool, CancelGet,
       CancelSet, CancelRemQueue, CancelRemRunning, CancelDbGet, CancelDbPut, pool
  <1>4. ASSUME NEW t, FailStep(t) \/ RequeueStep(t) PROVE phase' = "running"
    BY <1>2, <1>4 DEF FailStep, FailGet, FailSet, FailRem, FailAdd, RequeueStep, RequeueGet,
       RequeueRem, RequeueSet, RequeueAdd, pool
  <1>5. CASE PollerStep
    BY <1>2, <1>4, <1>5 DEF PollerStep, PollTick, PollExit, DeqMove, DeqNone, DeqGet, DeqSet, Submit,
       SubmitRefused, pool
  <1>6. CASE \E w \in Workers : WorkerStep(w)
    BY <1>2, <1>4, <1>6 DEF WorkerStep, WorkerExit, Take, Register, Execute, CompleteGet,
       CompleteSet, CompleteRem, DbGet, DbPut, Unregister, pool
  <1>7. CASE RecovererStep
    BY <1>2, <1>4, <1>7 DEF RecovererStep, RecoverList, RecoverNext, RecoverDone, RecoverExit, pool
  <1>8. CASE Environment
    BY <1>1, <1>2, <1>8 DEF Environment, DeleteJob, Cleanup, LeaseExpires, DataExpires,
       DelayElapses, Stop, PoolStop, CancelAllJobs, Crash, Restart, NewProcess, CommandFails,
       RedisError, SetUnanswered, AddUnanswered, MoveUnanswered, CallbackDbError, CancelDbError,
       pool
  <1>9. CASE UNCHANGED vars
    BY <1>2, <1>9 DEF vars
  <1> QED
    BY <1>3, <1>5, <1>6, <1>7, <1>8, <1>9 DEF Next

\* A canceled job stays marked.
LEMMA CanceledGrows == [Next]_vars => canceled \subseteq canceled'
  <1> SUFFICES ASSUME [Next]_vars PROVE canceled \subseteq canceled'
    OBVIOUS
  <1>1. CASE \E c \in Clients : Request(c) \/ ClientStep(c)
    BY <1>1 DEF Request, ClientStep, EnqCreate, EnqSet, EnqAdd, EnqDel, CancelInPool, CancelGet,
       CancelSet, CancelRemQueue, CancelRemRunning, CancelDbGet, CancelDbPut, history
  <1>2. ASSUME NEW t, FailStep(t) \/ RequeueStep(t) PROVE canceled' = canceled
    BY <1>2 DEF FailStep, FailGet, FailSet, FailRem, FailAdd, RequeueStep, RequeueGet,
       RequeueRem, RequeueSet, RequeueAdd, history
  <1>3. CASE PollerStep
    BY <1>2, <1>3 DEF PollerStep, PollTick, PollExit, DeqMove, DeqNone, DeqGet, DeqSet, Submit,
       SubmitRefused, history
  <1>4. CASE \E w \in Workers : WorkerStep(w)
    BY <1>2, <1>4 DEF WorkerStep, WorkerExit, Take, Register, Execute, CompleteGet,
       CompleteSet, CompleteRem, DbGet, DbPut, Unregister, history
  <1>5. CASE RecovererStep
    BY <1>2, <1>5 DEF RecovererStep, RecoverList, RecoverNext, RecoverDone, RecoverExit, history
  <1>6. CASE Environment
    BY <1>6 DEF Environment, DeleteJob, Cleanup, LeaseExpires, DataExpires,
       DelayElapses, Stop, PoolStop, CancelAllJobs, Crash, Restart, NewProcess, CommandFails,
       RedisError, SetUnanswered, AddUnanswered, MoveUnanswered, CallbackDbError, CancelDbError,
       history
  <1>7. CASE UNCHANGED vars
    BY <1>7 DEF vars
  <1> QED
    BY <1>1, <1>3, <1>4, <1>5, <1>6, <1>7 DEF Next

\* What a quiet step can be for one job.
LEMMA QuietStep ==
    ASSUME Ground, Steady, [Next]_vars, Quiet', NEW j \in Jobs
    PROVE  /\ Quiet /\ Undisputed /\ Undisputed' /\ phase = "running" /\ ~Spend("lease")
           /\ \/ Foreign(j)
              \/ \E c \in Clients : ClientOn(c, j)
              \/ \E t \in Threads : FailOn(t, j) \/ RequeueOn(t, j)
              \/ PollerOn(j)
              \/ \E w \in Workers : WorkerOn(w, j)
              \/ RecovererOn(j)
              \/ TimeOn(j) \/ DataExpires(j)
  <1>1. {"fault", "crash", "lease", "stop"} \in SUBSET Kinds
    BY DEF Kinds
  <1>2. Quiet /\ ~Spend("crash")
    BY <1>1, StillWithout DEF Ground, Quiet
  <1>3. Undisputed'
    BY DEF Quiet, Undisputed, Without
  <1>4. Undisputed
    BY <1>2 DEF Quiet, Undisputed, Without
  <1>5. phase = "running"
    BY <1>2 DEF Quiet, Without, Steady
  <1>6. ~Crash /\ ~Restart
    BY <1>2, <1>5 DEF Crash, Restart
  <1> QED
    BY <1>2, <1>3, <1>4, <1>5, <1>6, UndisputedStep

\* The inductive invariant behind CompletedIsFinal.
StageInv ==
    /\ SoleInv /\ Steady
    /\ Quiet => \A j \in Jobs : j \notin canceled => Stage(j)

\* A quiet step keeps the stage of a job that is not canceled, and a completed job.
LEMMA StageJobStep ==
    ASSUME StageInv, [Next]_vars, Quiet', NEW j \in Jobs, j \notin canceled'
    PROVE  Stage(j)' /\ Final(j)
  <1>1. Ground /\ Steady
    BY DEF StageInv, SoleInv
  <1>2. RestOK /\ LocalsOK /\ Shape /\ NewJob(j)
    BY <1>1 DEF Ground
  <1>3. Quiet /\ Undisputed /\ ~Spend("lease")
    BY <1>1, QuietStep
  <1>4. Sole(j)
    BY <1>3 DEF StageInv, SoleInv
  <1>5. Stage(j)
    BY <1>3, CanceledGrows DEF StageInv
  <1> QED
    BY <1>1, <1>2, <1>3, <1>4, <1>5, QuietStep, StageForeign, StageClient, StageFail, StageRequeue,
       StagePoller, StageWorker, StageRecoverer, StageTime

\* It holds initially.
LEMMA StageInit == Init => StageInv
  <1> SUFFICES ASSUME Init PROVE Steady /\ \A j \in Jobs : Stage(j)
    BY SoleInit DEF StageInv
  <1>1. Steady
    BY DEF Init, Steady
  <1>2. ASSUME NEW j \in Jobs PROVE Stage(j)
    BY <1>2, ThreadsDistinct DEF Init, Stage, Owner, InChan
  <1> QED
    BY <1>1, <1>2

\* Every step preserves it.
LEMMA StageStep == StageInv /\ [Next]_vars => StageInv'
  <1> SUFFICES ASSUME StageInv, [Next]_vars PROVE StageInv'
    OBVIOUS
  <1>1. SoleInv' /\ Steady'
    BY SoleStep, SteadyStep DEF StageInv, SoleInv, Ground
  <1> QED
    BY <1>1, StageJobStep DEF StageInv

\* No overwrite of a data key brings a completed job back, however the two reports of
\* its execution, the recoverer and the other goroutines interleave, as long as
\* nothing fails and no lease expires under its holder.
THEOREM CompletedStaysCompleted == Spec => CompletedIsFinal
  <1>1. StageInv /\ [Next]_vars =>
          [\A j \in Jobs :
             (/\ data[j].status = "completed" /\ j \notin canceled'
              /\ Without({"fault", "crash", "lease", "stop"})')
             => data'[j] \in {data[j], Absent}]_vars
    BY StageJobStep DEF Final, Quiet
  <1> QED
    BY <1>1, StageInit, StageStep, PTL DEF Spec, CompletedIsFinal

-------------------------------------------------------------------------------
(* What the jobs table says *)

\* The worker has started to execute the job and has not returned to the pool.
Past(w, j) == job[w] = j /\ pc[w] # "register"

\* It has reported the execution to the jobs table at least once.
Reported(w) == round[w] = 2 \/ pc[w] = "unreg"

\* The first execution is one worker's.  When it has completed the job, that worker
\* returned no error, and once it has reported, the jobs table says completed.
DbStage(j) ==
    /\ execs[j] = 0 => \A w \in Workers : ~Past(w, j)
    /\ execs[j] = 1 => \A v, w \in Workers : Past(v, j) /\ Past(w, j) => v = w
    /\ execs[j] = 1 /\ data[j].status = "completed" =>
         /\ \A w \in Workers : Past(w, j) => outcome[w] = "ok"
         /\ (\A w \in Workers : Past(w, j) => Reported(w))
            => db[j].status \in {"completed", "absent"}

\* A step that no worker takes on the job and that does not complete it keeps this.
LEMMA DbKept ==
    ASSUME NEW j \in Jobs, DbStage(j), execs'[j] = execs[j],
           db'[j] = db[j] \/ db'[j].status = "absent",
           data'[j].status = "completed" => data[j].status = "completed",
           \A w \in Workers : /\ job'[w] = j <=> job[w] = j
                              /\ job[w] = j => /\ pc'[w] = pc[w] /\ round'[w] = round[w]
                                               /\ outcome'[w] = outcome[w]
    PROVE  DbStage(j)'
  <1>1. \A w \in Workers : /\ Past(w, j)' <=> Past(w, j)
                           /\ Past(w, j) => (Reported(w)' <=> Reported(w)) /\ outcome'[w] = outcome[w]
    BY DEF Past, Reported
  <1> QED
    BY <1>1 DEF DbStage

\* Nothing but a worker's report changes what the table says of a job not canceled.
LEMMA DbOthers ==
    ASSUME RestOK, LocalsOK, Shape, NEW j \in Jobs, NewJob(j), DbStage(j), j \notin canceled',
           \/ Foreign(j)
           \/ \E c \in Clients : ClientOn(c, j)
           \/ \E t \in Threads : FailOn(t, j) \/ RequeueOn(t, j)
           \/ PollerOn(j) \/ RecovererOn(j)
           \/ TimeOn(j) \/ DataExpires(j)
    PROVE  DbStage(j)'
  <1> USE ThreadFacts, StatusFacts DEF At
  <1>1. CASE Foreign(j)
    BY <1>1, DbKept DEF Foreign, SameJob, SameHolders
  <1>2. ASSUME NEW c \in Clients, ClientOn(c, j) PROVE DbStage(j)'
    <2>1. \A w \in Workers : UNCHANGED <<job[w], pc[w], round[w], outcome[w]>>
      BY <1>2 DEF ClientOn, Others
    <2>2. CASE EnqCreate(c, j)
      BY <2>1, <2>2 DEF EnqCreate, NewJob, DbStage, Past, redis
    <2>3. CASE job[c] = j /\ (EnqSet(c) \/ EnqAdd(c))
      <3>1. UNCHANGED <<execs, db>> /\ (data'[j].status = "completed" => data[j].status = "completed")
        BY <2>3 DEF EnqSet, EnqAdd, RestOK, history
      <3> QED
        BY <2>1, <3>1, DbKept
    <2>4. CASE \/ CancelInPool(c, j)
               \/ job[c] = j /\ (\/ CancelGet(c) \/ CancelSet(c) \/ CancelRemQueue(c)
                                 \/ CancelRemRunning(c) \/ CancelDbGet(c) \/ CancelDbPut(c))
      <3>1. UNCHANGED <<execs, db[j], data[j]>>
        BY <2>4, CancelBystander
      <3> QED
        BY <2>1, <3>1, DbKept
    <2> QED
      BY <1>2, <2>2, <2>3, <2>4 DEF ClientOn, ClientStep
  <1>3. ASSUME NEW t \in Threads, FailOn(t, j) PROVE DbStage(j)'
    <2>1. /\ UNCHANGED <<execs, db, round, outcome>>
          /\ data'[j].status = "completed" => data[j].status = "completed"
      BY <1>3 DEF FailOn, FailStep, FailGet, FailSet, FailRem, FailAdd, RestOK, redis, callback, history
    <2>2. CASE t \notin Workers
      <3>1. \A w \in Workers : UNCHANGED <<job[w], pc[w]>>
        BY <1>3, <2>2 DEF FailOn, Others
      <3> QED
        BY <2>1, <3>1, DbKept
    <2>3. CASE t \in Workers
      <3>1. /\ \A w \in Workers : job'[w] = job[w]
            /\ pc[t] \notin {"register", "unreg"} /\ pc'[t] \notin {"register", "unreg"}
        BY <1>3, <2>3 DEF FailOn, FailStep, FailGet, FailSet, FailRem, FailAdd, AfterFail, Return,
           Goto, LocalsOK
      <3>2. \A w \in Workers : (Past(w, j)' <=> Past(w, j)) /\ (Reported(w)' <=> Reported(w))
        BY <1>3, <2>1, <3>1 DEF FailOn, Others, Past, Reported
      <3> QED
        BY <2>1, <3>2 DEF DbStage
    <2> QED
      BY <2>2, <2>3
  <1>4. ASSUME NEW t \in Threads, RequeueOn(t, j) PROVE DbStage(j)'
    <2>1. /\ UNCHANGED <<execs, db, round, outcome>>
          /\ data'[j].status = "completed" => data[j].status = "completed"
      BY <1>4 DEF RequeueOn, RequeueStep, RequeueGet, RequeueRem, RequeueSet, RequeueAdd, RestOK,
         redis, callback, history
    <2>2. \A w \in Workers : UNCHANGED <<job[w], pc[w]>>
      BY <1>4 DEF RequeueOn, Others
    <2> QED
      BY <2>1, <2>2, DbKept
  <1>5. CASE PollerOn(j)
    <2>1. /\ UNCHANGED <<execs, db, round, outcome>>
          /\ data'[j].status = "completed" => data[j].status = "completed"
      BY <1>5 DEF PollerOn, DeqMove, DeqGet, DeqSet, Submit, SubmitRefused, RestOK, redis, callback,
         history
    <2>2. \A w \in Workers : UNCHANGED <<job[w], pc[w]>>
      BY <1>5 DEF PollerOn, Others
    <2> QED
      BY <2>1, <2>2, DbKept
  <1>6. CASE RecovererOn(j)
    <2>1. UNCHANGED <<execs, db, data, round, outcome>>
      BY <1>6 DEF RecovererOn, RecoverList, RecoverNext, redis, callback, history
    <2>2. \A w \in Workers : UNCHANGED <<job[w], pc[w]>>
      BY <1>6 DEF RecovererOn, Others
    <2> QED
      BY <2>1, <2>2, DbKept
  <1>7. CASE TimeOn(j) \/ DataExpires(j)
    <2>1. UNCHANGED <<pc, job, round, outcome, execs>>
      BY <1>7 DEF TimeOn, DeleteJob, Cleanup, LeaseExpires, DataExpires, DelayElapses, callback, history
    <2>2. /\ db'[j] = db[j] \/ db'[j].status = "absent"
          /\ data'[j].status = "completed" => data[j].status = "completed"
      BY <1>7 DEF TimeOn, DeleteJob, Cleanup, LeaseExpires, DataExpires, DelayElapses, RestOK, redis
    <2> QED
      BY <2>1, <2>2, DbKept
  <1> QED
    BY <1>1, <1>2, <1>3, <1>4, <1>5, <1>6, <1>7

\* The workers keep it.
LEMMA DbWorker ==
    ASSUME RestOK, LocalsOK, Shape, NEW j \in Jobs, Sole(j), Stage(j), DbStage(j),
           NEW w \in Workers, WorkerOn(w, j)
    PROVE  DbStage(j)'
  <1>1. w \in Threads /\ ThreadShape(w) /\ round[w] \in {1, 2} /\ outcome[w] \in {"ok", "err"}
    BY ThreadFacts DEF Shape, RestOK
  <1> USE <1>1, StatusFacts DEF At, WorkerOn
  <1>2. \A v \in Workers \ {w} : UNCHANGED <<job[v], pc[v], round[v], outcome[v]>>
    BY ThreadFacts DEF Others
  <1>3. \A v \in Workers \ {w} : (Past(v, j)' <=> Past(v, j)) /\ (Reported(v)' <=> Reported(v))
    BY <1>2 DEF Past, Reported
  <1>4. CASE Take(w) /\ Head(jobChan) = j
    <2>1. ~Past(w, j)' /\ ~Past(w, j)
      BY <1>4, ThreadsDistinct DEF Take, Past, Goto, LocalsOK, ThreadShape
    <2>2. UNCHANGED <<execs, db, data, outcome>>
      BY <1>4 DEF Take, redis, callback, history
    <2> QED
      BY <1>3, <2>1, <2>2 DEF DbStage
  <1>5. CASE job[w] = j /\ Register(w)
    <2>1. ~Past(w, j) /\ pc'[w] = "exec" /\ UNCHANGED <<data, outcome>>
      BY <1>5 DEF Register, Past, Goto, LocalsOK, redis, callback
    <2>2. data[j].status = "running"
      BY <1>5 DEF Register, Stage, StageOf, Owner, Mine
    <2>3. execs[j] \in Nat /\ execs'[j] \in Nat /\ execs'[j] # 0 /\ (execs'[j] = 1 => execs[j] = 0)
      <3>1. execs'[j] = IF execs[j] < MaxExecs THEN execs[j] + 1 ELSE execs[j]
        BY <1>5 DEF Register, RestOK
      <3>2. MaxExecs \in Nat /\ MaxExecs >= 2 /\ execs[j] \in Nat
        <4>1. MaxUses["crash"] \in Nat /\ MaxUses["stop"] \in Nat
          BY BoundsAssumption DEF Kinds
        <4> QED
          BY <4>1, BoundsAssumption DEF RestOK
      <3> QED
        BY <3>1, <3>2
    <2>4. execs'[j] = 1 => \A u, v \in Workers : Past(u, j)' /\ Past(v, j)' => u = v
      BY <1>3, <2>3 DEF DbStage
    <2> QED
      BY <2>1, <2>2, <2>3, <2>4 DEF DbStage
  <1>6. CASE job[w] = j /\ (Execute(w, "ok") \/ Execute(w, "err"))
    <2>1. data[j].status = "running" /\ UNCHANGED <<data, execs>>
      BY <1>6 DEF Execute, Stage, StageOf, Owner, Mine, redis, history
    <2>2. Past(w, j)' /\ Past(w, j)
      BY <1>6 DEF Execute, FirstStep, Past, Goto, LocalsOK
    <2> QED
      BY <1>3, <2>1, <2>2 DEF DbStage
  <1>7. CASE job[w] = j /\ (CompleteGet(w) \/ CompleteSet(w) \/ CompleteRem(w))
    <2>1. Past(w, j)' /\ Past(w, j) /\ (Reported(w)' <=> Reported(w)) /\ outcome[w] = "ok"
          /\ (Reported(w) <=> round[w] = 2)
      BY <1>7 DEF CompleteGet, CompleteSet, CompleteRem, Past, Reported, Goto, LocalsOK, callback,
         ThreadShape
    <2>2. UNCHANGED <<execs, db, outcome>>
      BY <1>7 DEF CompleteGet, CompleteSet, CompleteRem, redis, callback, history
    <2>3. data'[j].status = "completed" => data[j].status = "completed" \/ round[w] = 1
      BY <1>7 DEF CompleteGet, CompleteSet, CompleteRem, Stage, StageOf, Owner, Mine, redis, RestOK
    <2>4. execs'[j] = 1 => \A v \in Workers : Past(v, j)' => v = w
      BY <1>3, <2>1, <2>2 DEF DbStage
    <2> QED
      BY <1>3, <2>1, <2>2, <2>3, <2>4 DEF DbStage
  <1>8. CASE job[w] = j /\ (DbGet(w) \/ DbPut(w))
    <2>1. Past(w, j)' /\ Past(w, j) /\ UNCHANGED <<execs, data, outcome>>
      BY <1>8 DEF DbGet, DbPut, NextCallback, FirstStep, Past, Goto, LocalsOK, redis, history
    <2>2. execs[j] = 1 => \A v \in Workers : Past(v, j) => v = w
      BY <2>1 DEF DbStage
    <2>3. execs[j] = 1 /\ data[j].status = "completed" => outcome[w] = "ok"
      BY <2>1 DEF DbStage
    <2>4. CASE DbGet(w) /\ db[j] # Absent
      <3>1. db' = db /\ round' = round /\ pc'[w] = "db_put"
        BY <1>8, <2>4 DEF DbGet, Goto, LocalsOK
      <3>2. Reported(w)' <=> Reported(w)
        BY <2>4, <3>1 DEF Reported, DbGet
      <3> QED
        BY <1>3, <2>1, <3>1, <3>2 DEF DbStage
    <2>5. ASSUME ~(DbGet(w) /\ db[j] # Absent) PROVE DbStage(j)'
      <3>1. outcome[w] = "ok" => db'[j].status \in {"completed", "absent"}
        BY <1>8, <2>5 DEF DbGet, DbPut, DbUpdate, ReportedStatus, RestOK
      <3> QED
        BY <1>3, <2>1, <2>2, <2>3, <3>1 DEF DbStage
    <2> QED
      BY <2>4, <2>5
  <1>9. CASE job[w] = j /\ Unregister(w)
    <2>1. ~Past(w, j)' /\ Past(w, j) /\ Reported(w)
      BY <1>9, ThreadsDistinct DEF Unregister, Past, Reported, Goto, LocalsOK
    <2>2. UNCHANGED <<execs, db, data>>
      BY <1>9 DEF Unregister, redis, history
    <2> QED
      BY <1>2, <1>3, <2>1, <2>2 DEF DbStage
  <1> QED
    BY <1>4, <1>5, <1>6, <1>7, <1>8, <1>9

\* The inductive invariant behind DbAgreesOnCompleted.
DbInv == StageInv /\ (Quiet => \A j \in Jobs : j \notin canceled => DbStage(j))

\* It holds initially.
LEMMA DbInit == Init => DbInv
  <1> SUFFICES ASSUME Init, NEW j \in Jobs PROVE DbStage(j)
    BY StageInit DEF DbInv
  <1> QED
    BY ThreadFacts, ThreadsDistinct DEF Init, DbStage, Past

\* Every step preserves it.
LEMMA DbStep == DbInv /\ [Next]_vars => DbInv'
  <1> SUFFICES ASSUME DbInv, [Next]_vars, Quiet', NEW j \in Jobs, j \notin canceled'
               PROVE  DbStage(j)'
    BY StageStep DEF DbInv
  <1>1. Ground /\ Steady /\ StageInv
    BY DEF DbInv, StageInv, SoleInv
  <1>2. RestOK /\ LocalsOK /\ Shape /\ NewJob(j)
    BY <1>1 DEF Ground
  <1>3. Quiet /\ Undisputed /\ j \notin canceled
    BY <1>1, QuietStep, CanceledGrows
  <1>4. Sole(j) /\ Stage(j) /\ DbStage(j)
    BY <1>1, <1>3 DEF DbInv, StageInv, SoleInv
  <1> QED
    BY <1>1, <1>2, <1>4, QuietStep, DbOthers, DbWorker

\* When nobody works any more on a job that completed at its first execution, the jobs
\* table says so too, whichever of the two reports reached it first.
THEOREM TableAgreesOnCompleted == Spec => []DbAgreesOnCompleted
  <1>1. DbInv => DbAgreesOnCompleted
    <2> SUFFICES ASSUME DbInv, NEW j \in Jobs, Settled(j), data[j].status = "completed",
                        j \notin canceled, execs[j] = 1,
                        Without({"fault", "crash", "lease", "stop"})
                 PROVE  db[j].status \in {"completed", "absent"}
      BY DEF DbAgreesOnCompleted
    <2>1. \A w \in Workers : ~Past(w, j)
      BY ThreadFacts DEF Settled, Idle, Past
    <2> QED
      BY <2>1 DEF DbInv, Quiet, DbStage
  <1> QED
    BY <1>1, DbInit, DbStep, PTL DEF Spec
-------------------------------------------------------------------------------
(* Executions and attempts *)

\* The count of attempts in the data key is the number of executions, and there is
\* another one to come; Dequeue has counted it; it has begun; the pool refused it.
Owed(j) ==
    execs[j] = data[j].attempts /\ data[j].attempts < MaxAttempts /\ j \notin refused
Counted(j) ==
    execs[j] + 1 = data[j].attempts /\ data[j].attempts <= MaxAttempts /\ j \notin refused
Executed(j) ==
    execs[j] = data[j].attempts /\ data[j].attempts <= MaxAttempts /\ j \notin refused
Turned(j) == execs[j] < MaxAttempts /\ j \in refused

\* A job in the dead letter set has had all its attempts, or the pool refused it.
Buried(j) ==
    /\ j \in dead
    /\ IF j \in refused THEN execs[j] < MaxAttempts ELSE execs[j] = MaxAttempts

\* Which of these holds while a goroutine owns the job, label by label.  The second
\* report retries the job exactly when there is another attempt.
SpentOf(t, j) ==
    /\ pc[t] \in {"enq_set", "enq_add"} =>
         execs[j] = 0 /\ data[j].attempts = 0 /\ j \notin refused
    /\ pc[t] \in {"deq_get", "deq_set"} => Owed(j)
    /\ pc[t] \in {"submit", "register"} => Counted(j)
    /\ t = Poller /\ pc[t] \in FailLabels => Turned(j)
    /\ t \in Workers /\ pc[t] # "register" => Executed(j)
    /\ t \in Workers /\ round[t] = 2 /\ pc[t] \in {"fail_rem", "fail_add"} =>
         (data[j].attempts < MaxAttempts <=> data[j].status = "retrying")

\* The same for a job in a queue, in the channel or nowhere.
Spent(j) ==
    /\ queue[j] # "out" => Owed(j)
    /\ InChan(j) => Counted(j)
    /\ \A t \in Threads : Owner(t, j) => SpentOf(t, j)
    /\ Unowned(j) /\ data[j].status = "failed" => Buried(j)

\* A step of the job's only owner keeps this, if it leaves the job so.
LEMMA SpentOwner ==
    ASSUME NEW j \in Jobs, NEW t \in Threads, \A u \in Threads \ {t} : ~Owner(u, j)',
           queue'[j] # "out" => Owed(j)',
           InChan(j)' => Counted(j)',
           Owner(t, j)' => SpentOf(t, j)',
           ~Owner(t, j)' /\ data'[j].status = "failed" => Buried(j)'
    PROVE  Spent(j)'
  BY DEF Spent, Owed, Counted, Unowned

\* It is a matter of the job and of its owner's locals.
LEMMA SpentKept ==
    ASSUME NEW j \in Jobs, Spent(j), UNCHANGED <<data[j], queue[j], execs[j]>>,
           InChan(j)' <=> InChan(j), j \in dead' <=> j \in dead, j \in refused' <=> j \in refused,
           \A u \in Threads : Owner(u, j)' <=> Owner(u, j),
           \A u \in Threads : Owner(u, j) =>
             pc'[u] = pc[u] /\ (u \in Workers => round'[u] = round[u])
    PROVE  Spent(j)'
  <1>1. \A u \in Threads : Owner(u, j)' => SpentOf(u, j)'
    BY DEF Spent, SpentOf, Owed, Counted, Executed, Turned
  <1>2. Unowned(j)' <=> Unowned(j)
    BY DEF Unowned
  <1> QED
    BY <1>1, <1>2 DEF Spent, Owed, Counted, Buried

\* A step that is foreign to the job keeps it.
LEMMA SpentForeign ==
    ASSUME RestOK, LocalsOK, Shape, NEW j \in Jobs, Spent(j), Foreign(j)
    PROVE  Spent(j)'
  <1>1. \A u \in Threads : Owner(u, j)' <=> Owner(u, j)
    BY WorkersOnly DEF Foreign, SameHolders, Owner, Mine
  <1>2. \A u \in Threads : Owner(u, j) =>
             pc'[u] = pc[u] /\ (u \in Workers => round'[u] = round[u])
    BY DEF Foreign, SameHolders, Owner
  <1> QED
    BY <1>1, <1>2, SpentKept DEF Foreign, SameJob

\* So does a step of a goroutine that neither owns the job nor touches its entries.
LEMMA SpentBystander ==
    ASSUME RestOK, LocalsOK, Shape, NEW j \in Jobs, Spent(j), NEW t \in Threads, Others(t),
           ~Owner(t, j), ~Owner(t, j)',
           UNCHANGED <<data[j], queue[j], execs[j], jobChan, dead, refused>>
    PROVE  Spent(j)'
  <1>1. \A u \in Threads : Owner(u, j)' <=> Owner(u, j)
    BY OwnerKept
  <1>2. \A u \in Threads : Owner(u, j) =>
             pc'[u] = pc[u] /\ (u \in Workers => round'[u] = round[u])
    BY DEF Others
  <1>3. InChan(j)' <=> InChan(j)
    BY SameChan
  <1> QED
    BY <1>1, <1>2, <1>3, SpentKept

\* The clients keep it.
LEMMA SpentClient ==
    ASSUME RestOK, LocalsOK, Shape, NEW j \in Jobs, NewJob(j), Sole(j), Stage(j), Spent(j),
           j \notin canceled', NEW c \in Clients, ClientOn(c, j)
    PROVE  Spent(j)'
  <1>1. c \in Threads /\ c \notin Workers /\ c # Poller /\ MaxAttempts \in Nat \ {0}
    BY ThreadFacts, BoundsAssumption
  <1> USE <1>1, StatusFacts DEF At, ClientOn
  <1>2. CASE EnqCreate(c, j)
    <2>1. \A u \in Threads \ {c} : ~Owner(u, j)'
      BY <1>2 DEF EnqCreate, NewJob, Others, Owner
    <2>2. /\ pc'[c] = "enq_set" /\ execs'[j] = 0 /\ data'[j] = Absent /\ j \notin refused'
          /\ queue'[j] = "out" /\ ~InChan(j)' /\ Owner(c, j)'
      BY <1>2, SameChan DEF EnqCreate, NewJob, Goto, LocalsOK, redis, pool, Owner, Mine
    <2>3. SpentOf(c, j)'
      BY <2>2 DEF SpentOf, Absent
    <2> QED
      BY <2>1, <2>2, <2>3, SpentOwner
  <1>3. CASE job[c] = j /\ (EnqSet(c) \/ EnqAdd(c))
    <2>1. Owner(c, j)
      BY <1>3 DEF EnqSet, EnqAdd, Owner, Mine
    <2>2. /\ queue[j] = "out" /\ ~InChan(j)
          /\ \A u \in Threads \ {c} : ~Owner(u, j)'
      BY <2>1, OwnerAlone DEF Sole
    <2>3. SpentOf(c, j) /\ StageOf(c, j)
      BY <2>1 DEF Spent, Stage
    <2>4. ~InChan(j)'
      BY <1>3, <2>2, SameChan DEF EnqSet, EnqAdd, pool
    <2>5. CASE EnqSet(c)
      <3>1. /\ pc'[c] = "enq_add" /\ job'[c] = j /\ execs'[j] = 0 /\ queue' = queue
            /\ data'[j] = WithStatus(Absent, "pending") /\ j \notin refused'
        BY <1>3, <2>3, <2>5 DEF EnqSet, RestOK, SpentOf, Goto, LocalsOK, history
      <3>2. SpentOf(c, j)' /\ Owner(c, j)'
        BY <3>1 DEF SpentOf, Owner, Mine, WithStatus, Absent
      <3> QED
        BY <2>2, <2>4, <3>1, <3>2, SpentOwner
    <2>6. CASE EnqAdd(c)
      <3>1. /\ execs'[j] = 0 /\ data'[j].attempts = 0 /\ data'[j].status = "pending"
            /\ j \notin refused'
        BY <2>3, <2>6 DEF EnqAdd, SpentOf, StageOf, history
      <3>2. ~Owner(c, j)'
        BY <1>3, <2>6, ThreadsDistinct DEF EnqAdd, Return, LocalsOK, Owner
      <3> QED
        BY <2>2, <2>4, <3>1, <3>2, SpentOwner DEF Owed
    <2> QED
      BY <1>3, <2>5, <2>6
  <1>4. CASE \/ CancelInPool(c, j)
             \/ job[c] = j /\ (\/ CancelGet(c) \/ CancelSet(c) \/ CancelRemQueue(c)
                               \/ CancelRemRunning(c) \/ CancelDbGet(c) \/ CancelDbPut(c))
    BY <1>4, CancelBystander, SpentBystander
  <1> QED
    BY <1>2, <1>3, <1>4 DEF ClientStep

\* The queue.Fail of a worker keeps it: its second call retries the job, or puts it
\* into the dead letter set after its last attempt.
LEMMA SpentFail ==
    ASSUME RestOK, LocalsOK, Shape, NEW j \in Jobs, Sole(j), Stage(j), Spent(j),
           NEW t \in Workers, FailOn(t, j)
    PROVE  Spent(j)'
  <1> USE ThreadFacts, StatusFacts, BoundsAssumption DEF At, FailOn, AfterFail
  <1>1. Owner(t, j) /\ pc[t] \in FailLabels
    BY DEF FailStep, FailGet, FailSet, FailRem, FailAdd, Owner, Mine, FailLabels
  <1>2. /\ queue[j] = "out" /\ ~InChan(j)
        /\ \A u \in Threads \ {t} : ~Owner(u, j)'
    BY <1>1, OwnerAlone DEF Sole
  <1>3. ~InChan(j)' /\ round' = round /\ execs' = execs /\ refused' = refused
    BY <1>2, SameChan DEF FailStep, FailGet, FailSet, FailRem, FailAdd, pool, callback, history
  <1>4. StageOf(t, j) /\ SpentOf(t, j)
    BY <1>1 DEF Stage, Spent
  <1>5. t # Poller /\ Executed(j) /\ round[t] \in {1, 2}
    BY <1>1, <1>4 DEF SpentOf, FailLabels, RestOK
  <1>6. execs[j] \in Nat /\ data[j] \in JobRecord
    BY DEF RestOK
  <1>7. CASE FailGet(t)
    <2>1. data[j] # Absent
      BY <1>4, <1>7 DEF FailGet, StageOf
    <2>2. pc'[t] = "fail_set" /\ data' = data /\ queue' = queue /\ job'[t] = j
      BY <1>7, <2>1 DEF FailGet, Goto, LocalsOK, redis
    <2>3. SpentOf(t, j)' /\ Owner(t, j)'
      BY <1>3, <1>5, <2>2 DEF SpentOf, Executed, Owner, Mine, FailLabels
    <2> QED
      BY <1>2, <1>3, <2>2, <2>3, SpentOwner
  <1>8. CASE FailSet(t)
    <2>1. snap[t] = data[j]
          /\ data[j].status = IF t \in Workers /\ round[t] = 2 THEN "failed" ELSE "running"
      BY <1>4, <1>8 DEF FailSet, StageOf
    <2>2. data'[j] = WithStatus(snap[t], IF CanRetry(snap[t]) THEN "retrying" ELSE "failed")
          /\ pc'[t] = "fail_rem" /\ job'[t] = j /\ queue' = queue
      BY <1>8 DEF FailSet, Goto, LocalsOK, RestOK
    <2>3. /\ data'[j].attempts = data[j].attempts
          /\ round[t] = 2 => (data[j].attempts < MaxAttempts <=> data'[j].status = "retrying")
      BY <1>5, <2>1, <2>2 DEF CanRetry, WithStatus
    <2>4. SpentOf(t, j)' /\ Owner(t, j)'
      BY <1>3, <1>5, <2>2, <2>3 DEF SpentOf, Executed, Owner, Mine, FailLabels
    <2> QED
      BY <1>2, <1>3, <2>2, <2>4, SpentOwner
  <1>9. CASE FailRem(t)
    <2>1. data' = data /\ queue' = queue /\ pc'[t] = "fail_add" /\ job'[t] = j
      BY <1>9 DEF FailRem, Goto, LocalsOK
    <2>2. SpentOf(t, j)' /\ Owner(t, j)'
      BY <1>3, <1>4, <1>5, <1>9, <2>1 DEF FailRem, SpentOf, Executed, Owner, Mine, FailLabels
    <2> QED
      BY <1>2, <1>3, <2>1, <2>2, SpentOwner
  <1>10. CASE FailAdd(t)
    <2>1. data' = data /\ pc'[t] = "db_get" /\ job'[t] = j /\ snap[t] = data[j]
      BY <1>4, <1>5, <1>10 DEF FailAdd, Return, Goto, LocalsOK, StageOf
    <2>2. SpentOf(t, j)'
      BY <1>3, <1>5, <2>1 DEF SpentOf, Executed
    <2>3. ~Owner(t, j)' => round[t] = 2
      BY <1>3, <1>5, <2>1 DEF Owner, Mine
    <2>4. queue'[j] # "out" => data[j].status = "retrying" /\ round[t] = 2
      BY <1>2, <1>4, <1>10, <2>1 DEF FailAdd, StageOf
    <2>5. queue'[j] # "out" => Owed(j)'
      BY <1>3, <1>4, <1>5, <1>10, <2>1, <2>4 DEF FailAdd, SpentOf, Owed, Executed
    <2>6. data[j].status = "failed" => j \in dead'
      BY <1>10, <2>1 DEF FailAdd
    <2>7. round[t] = 2 /\ data[j].status = "failed" => execs[j] = MaxAttempts /\ j \notin refused
      BY <1>4, <1>5, <1>6, <1>10 DEF FailAdd, SpentOf, Executed, JobRecord
    <2> QED
      BY <1>2, <1>3, <2>1, <2>2, <2>3, <2>5, <2>6, <2>7, SpentOwner DEF Buried
  <1> QED
    BY <1>7, <1>8, <1>9, <1>10 DEF FailStep

\* The one queue.Fail of a job that the pool refused finds it running, which is
\* nothing to retry, and puts it into the dead letter set.
LEMMA SpentRefusal ==
    ASSUME RestOK, LocalsOK, Shape, NEW j \in Jobs, Sole(j), Stage(j), Spent(j),
           FailOn(Poller, j)
    PROVE  Spent(j)'
  <1> USE ThreadFacts, StatusFacts DEF At, FailOn
  <1>1. Owner(Poller, j) /\ pc[Poller] \in FailLabels
    BY DEF FailStep, FailGet, FailSet, FailRem, FailAdd, Owner, Mine, FailLabels
  <1>2. /\ queue[j] = "out" /\ ~InChan(j)
        /\ \A u \in Threads \ {Poller} : ~Owner(u, j)'
    BY <1>1, OwnerAlone DEF Sole
  <1>3. ~InChan(j)' /\ execs' = execs /\ refused' = refused
    BY <1>2, SameChan DEF FailStep, FailGet, FailSet, FailRem, FailAdd, pool, history
  <1>4. StageOf(Poller, j) /\ Turned(j)
    BY <1>1 DEF Stage, Spent, SpentOf
  <1>5. CASE FailGet(Poller) \/ FailSet(Poller) \/ FailRem(Poller)
    <2>1. FailGet(Poller) => data[j] # Absent
      BY <1>4 DEF FailGet, StageOf
    <2>2. /\ pc'[Poller] \in {"fail_set", "fail_rem", "fail_add"} /\ job'[Poller] = j
          /\ queue' = queue
      BY <1>5, <2>1 DEF FailGet, FailSet, FailRem, Goto, LocalsOK, redis
    <2>3. SpentOf(Poller, j)' /\ Owner(Poller, j)'
      BY <1>3, <1>4, <2>2 DEF SpentOf, Turned, Owner, Mine, FailLabels
    <2> QED
      BY <1>2, <1>3, <2>2, <2>3, SpentOwner
  <1>6. CASE FailAdd(Poller)
    <2>1. snap[Poller].status = "failed"
      BY <1>4, <1>6 DEF FailAdd, StageOf
    <2>2. queue' = queue /\ j \in dead'
      BY <1>6, <2>1 DEF FailAdd
    <2>3. ~Owner(Poller, j)'
      BY <1>6, ThreadsDistinct DEF FailAdd, Return, LocalsOK, Owner
    <2>4. Buried(j)'
      BY <1>3, <1>4, <2>2 DEF Buried, Turned
    <2> QED
      BY <1>2, <1>3, <2>2, <2>3, <2>4, SpentOwner
  <1> QED
    BY <1>5, <1>6 DEF FailStep

\* queue.requeueJob finds no data and keeps it.
LEMMA SpentRequeue ==
    ASSUME RestOK, LocalsOK, Shape, NEW j \in Jobs, Sole(j), Stage(j), Spent(j),
           NEW t \in Threads, RequeueOn(t, j)
    PROVE  Spent(j)'
  <1> USE ThreadFacts, StatusFacts DEF At, RequeueOn, AfterRequeue
  <1>1. Owner(t, j) /\ t \notin Workers
    BY DEF RequeueStep, RequeueGet, RequeueRem, RequeueSet, RequeueAdd, Owner, Mine, RequeueLabels
  <1>2. /\ queue[j] = "out" /\ ~InChan(j)
        /\ \A u \in Threads \ {t} : ~Owner(u, j)'
    BY <1>1, OwnerAlone DEF Sole
  <1>3. RequeueGet(t) /\ data[j] = Absent
    BY <1>1 DEF Stage, StageOf, RequeueStep, RequeueGet, RequeueRem, RequeueSet, RequeueAdd
  <1>4. ~Owner(t, j)'
    BY <1>1, <1>3, ThreadsDistinct DEF RequeueGet, Return, LocalsOK, Owner
  <1> QED
    BY <1>2, <1>3, <1>4, SpentOwner, SameChan DEF RequeueGet, redis, pool

\* The queue processor keeps it: an attempt that Dequeue has counted is handed to the
\* pool, or the job is turned away with that attempt left.
LEMMA SpentPoller ==
    ASSUME RestOK, LocalsOK, Shape, NEW j \in Jobs, Sole(j), Stage(j), Spent(j), PollerOn(j)
    PROVE  Spent(j)'
  <1>1. Poller \in Threads /\ Poller \notin Workers /\ MaxAttempts \in Nat /\ execs[j] \in Nat
        /\ data[j] \in JobRecord
    BY ThreadFacts, BoundsAssumption DEF RestOK
  <1> USE <1>1, StatusFacts DEF At, PollerOn
  <1>2. CASE DeqMove(j)
    <2>1. ~InChan(j) /\ Unowned(j) /\ Owed(j)
      BY <1>2 DEF DeqMove, Sole, Exclusive, Spent
    <2>2. \A u \in Threads \ {Poller} : ~Owner(u, j)'
      BY <2>1, OwnerKept DEF Unowned
    <2>3. /\ queue'[j] = "out" /\ pc'[Poller] = "deq_get" /\ job'[Poller] = j
          /\ data' = data /\ execs' = execs /\ refused' = refused
      BY <1>2 DEF DeqMove, Goto, LocalsOK, RestOK, history
    <2>4. ~InChan(j)'
      BY <1>2, <2>1, SameChan DEF DeqMove, pool
    <2>5. SpentOf(Poller, j)' /\ Owner(Poller, j)'
      BY <2>1, <2>3 DEF SpentOf, Owed, Owner, Mine, FailLabels
    <2> QED
      BY <2>2, <2>3, <2>4, <2>5, SpentOwner
  <1>3. ASSUME job[Poller] = j, DeqGet \/ DeqSet \/ Submit \/ SubmitRefused
        PROVE  Spent(j)'
    <2>1. Owner(Poller, j)
      BY <1>3 DEF DeqGet, DeqSet, Submit, SubmitRefused, Owner, Mine
    <2>2. /\ queue[j] = "out" /\ ~InChan(j)
          /\ \A u \in Threads \ {Poller} : ~Owner(u, j)'
      BY <2>1, OwnerAlone DEF Sole
    <2>3. queue'[j] = "out" /\ execs' = execs
      BY <1>3, <2>2 DEF DeqGet, DeqSet, Submit, SubmitRefused, redis, history
    <2>4. StageOf(Poller, j) /\ SpentOf(Poller, j)
      BY <2>1 DEF Stage, Spent
    <2>9. ~SubmitRefused => refused' = refused
      BY <1>3 DEF DeqGet, DeqSet, Submit, history
    <2>10. SubmitRefused => pc[Poller] = "submit"
      BY DEF SubmitRefused
    <2>5. CASE DeqGet
      <3>1. /\ data' = data /\ job'[Poller] = j /\ pc'[Poller] \in {"req_get", "deq_set"}
        BY <1>3, <2>5 DEF DeqGet, Goto, LocalsOK, redis
      <3>2. SpentOf(Poller, j)' /\ Owner(Poller, j)'
        BY <2>3, <2>4, <2>5, <2>9, <2>10, <3>1
           DEF DeqGet, SpentOf, Owed, Owner, Mine, RequeueLabels, FailLabels
      <3> QED
        BY <2>2, <2>3, <2>5, <3>1, <3>2, SpentOwner, SameChan DEF DeqGet, pool
    <2>6. CASE DeqSet
      <3>1. snap[Poller] = data[j] /\ Owed(j)
        BY <2>4, <2>6 DEF DeqSet, StageOf, SpentOf
      <3>2. /\ data'[j].attempts = data[j].attempts + 1 /\ data'[j].status = "running"
            /\ job'[Poller] = j /\ pc'[Poller] = "submit"
        BY <1>3, <2>6, <3>1 DEF DeqSet, RestOK, Goto, LocalsOK
      <3>3. Counted(j)'
        BY <2>3, <2>6, <2>9, <2>10, <3>1, <3>2 DEF DeqSet, Owed, Counted, JobRecord
      <3>4. SpentOf(Poller, j)' /\ Owner(Poller, j)'
        BY <3>2, <3>3 DEF SpentOf, Owner, Mine, FailLabels
      <3> QED
        BY <2>2, <2>3, <2>6, <3>4, SpentOwner, SameChan DEF DeqSet, pool
    <2>7. CASE Submit
      <3>1. Counted(j)' /\ data'[j].status = "running"
        BY <2>3, <2>4, <2>7 DEF Submit, SpentOf, StageOf, Counted, redis, history
      <3>2. ~Owner(Poller, j)'
        BY <2>7, ThreadsDistinct DEF Submit, Return, LocalsOK, Owner
      <3> QED
        BY <2>2, <2>3, <3>1, <3>2, SpentOwner
    <2>8. CASE SubmitRefused
      <3>1. /\ refused' = refused \cup {j} /\ data' = data
            /\ job'[Poller] = j /\ pc'[Poller] = "fail_get"
        BY <1>3, <2>8 DEF SubmitRefused, Goto, LocalsOK, redis
      <3>2. Turned(j)'
        BY <2>3, <2>4, <2>8, <3>1 DEF SubmitRefused, SpentOf, Counted, Turned, JobRecord
      <3>3. SpentOf(Poller, j)' /\ Owner(Poller, j)'
        BY <3>1, <3>2 DEF SpentOf, Owner, Mine, FailLabels
      <3> QED
        BY <2>2, <2>3, <2>8, <3>3, SpentOwner, SameChan DEF SubmitRefused, pool
    <2> QED
      BY <1>3, <2>5, <2>6, <2>7, <2>8
  <1> QED
    BY <1>2, <1>3

\* The workers keep it.
LEMMA SpentWorker ==
    ASSUME RestOK, LocalsOK, Shape, NEW j \in Jobs, Sole(j), Stage(j), Spent(j),
           NEW w \in Workers, WorkerOn(w, j)
    PROVE  Spent(j)'
  <1>1. w \in Threads /\ w # Poller /\ MaxAttempts \in Nat /\ MaxExecs \in Nat
        /\ MaxAttempts < MaxExecs
    <2>1. MaxUses["crash"] \in Nat /\ MaxUses["stop"] \in Nat
      BY BoundsAssumption DEF Kinds
    <2> QED
      BY <2>1, BoundsAssumption, ThreadFacts
  <1>2. ThreadShape(w) /\ round[w] \in {1, 2} /\ execs[j] \in Nat /\ data[j] \in JobRecord
    BY <1>1 DEF Shape, RestOK
  <1> USE <1>1, StatusFacts DEF At, WorkerOn
  <1>3. CASE Take(w) /\ Head(jobChan) = j
    <2>1. InChan(j)
      BY <1>3, ChanTail DEF Take
    <2>2. queue[j] = "out" /\ Unowned(j) /\ ChanOnce(j) /\ Counted(j)
      BY <2>1 DEF Sole, Exclusive, Spent
    <2>3. ~InChan(j)'
      BY <1>3, <2>2, ChanTail DEF Take
    <2>4. \A u \in Threads \ {w} : ~Owner(u, j)'
      BY <2>2, OwnerKept DEF Unowned
    <2>5. data' = data /\ execs' = execs /\ queue' = queue /\ pc'[w] = "register" /\ job'[w] = j
          /\ refused' = refused
      BY <1>3 DEF Take, Goto, LocalsOK, redis, history
    <2>6. SpentOf(w, j)' /\ Owner(w, j)'
      BY <2>2, <2>5 DEF SpentOf, Counted, Owner, Mine
    <2> QED
      BY <2>2, <2>3, <2>4, <2>5, <2>6, SpentOwner
  <1>4. ASSUME job[w] = j, Owner(w, j),
               \/ Register(w) \/ Execute(w, "ok") \/ Execute(w, "err")
               \/ CompleteGet(w) \/ CompleteSet(w) \/ CompleteRem(w)
               \/ DbGet(w) \/ DbPut(w)
        PROVE  Spent(j)'
    <2>1. /\ queue[j] = "out" /\ ~InChan(j)
          /\ \A u \in Threads \ {w} : ~Owner(u, j)'
      BY <1>4, OwnerAlone DEF Sole
    <2>2. queue'[j] = "out" /\ ~InChan(j)' /\ job'[w] = j
      BY <1>4, <2>1, SameChan DEF Register, Execute, CompleteGet, CompleteSet, CompleteRem, DbGet,
         DbPut, RestOK, redis, pool
    <2>3. StageOf(w, j) /\ SpentOf(w, j)
      BY <1>4 DEF Stage, Spent
    <2>4. Executed(j)'
      <3>1. CASE Register(w)
        <4>1. Counted(j) /\ data' = data /\ refused' = refused
          BY <2>3, <3>1 DEF Register, SpentOf, redis
        <4>2. execs'[j] = IF execs[j] < MaxExecs THEN execs[j] + 1 ELSE execs[j]
          BY <1>4, <3>1 DEF Register, RestOK
        <4> QED
          BY <1>2, <4>1, <4>2 DEF Counted, Executed, JobRecord
      <3>2. CASE ~Register(w)
        <4>1. Executed(j) /\ execs' = execs /\ refused' = refused
          BY <1>4, <2>3, <3>2 DEF SpentOf, Execute, CompleteGet, CompleteSet, CompleteRem,
             DbGet, DbPut, history
        <4>2. data'[j].attempts = data[j].attempts
          BY <1>4, <2>3, <3>2 DEF StageOf, Execute, CompleteGet, CompleteSet, CompleteRem,
             DbGet, DbPut, WithStatus, RestOK, redis
        <4> QED
          BY <4>1, <4>2 DEF Executed
      <3> QED
        BY <3>1, <3>2
    <2>5. pc'[w] \notin {"enq_set", "enq_add", "deq_get", "deq_set", "submit", "register",
                         "fail_rem", "fail_add"}
      BY <1>4 DEF Register, Execute, FirstStep, CompleteGet, CompleteSet, CompleteRem, DbGet, DbPut,
         NextCallback, Goto, LocalsOK
    <2>6. SpentOf(w, j)'
      BY <2>4, <2>5 DEF SpentOf
    <2>7. ~Owner(w, j)' => data'[j].status # "failed"
      <3>1. CASE CompleteRem(w)
        BY <2>3, <3>1 DEF CompleteRem, StageOf
      <3>2. CASE ~CompleteRem(w)
        <4>1. CASE DbGet(w) \/ DbPut(w)
          <5>1. round[w] = 1
            BY <1>4, <4>1 DEF DbGet, DbPut, Owner, Mine, FailLabels, RequeueLabels
          <5> QED
            BY <2>2, <4>1, <5>1 DEF DbGet, DbPut, NextCallback, FirstStep, Goto, LocalsOK, RestOK,
               Owner, Mine, FailLabels
        <4>2. CASE Register(w) \/ Execute(w, "ok") \/ Execute(w, "err") \/ CompleteSet(w)
          BY <2>2, <4>2 DEF Register, Execute, FirstStep, CompleteSet, Goto, LocalsOK,
             Owner, Mine, FailLabels
        <4>3. CASE CompleteGet(w)
          BY <2>2, <2>3, <4>3 DEF CompleteGet, StageOf, Goto, LocalsOK, Owner, Mine, redis
        <4> QED
          BY <1>4, <3>2, <4>1, <4>2, <4>3
      <3> QED
        BY <3>1, <3>2
    <2> QED
      BY <2>1, <2>2, <2>6, <2>7, SpentOwner
  <1>5. ASSUME job[w] = j, ~Owner(w, j), DbGet(w) \/ DbPut(w) \/ Unregister(w)
        PROVE  Spent(j)'
    <2>1. pc'[w] \in {"db_put", "unreg", "idle"} /\ (pc'[w] = "db_put" => round'[w] = 2)
      BY <1>2, <1>5 DEF DbGet, DbPut, Unregister, Owner, Mine, NextCallback, Goto, LocalsOK, RestOK
    <2>2. ~Owner(w, j)'
      BY <2>1 DEF Owner, Mine, FailLabels, RequeueLabels
    <2>3. UNCHANGED <<data, queue, execs, jobChan, dead, refused>>
      BY <1>5 DEF DbGet, DbPut, Unregister, redis, pool, history
    <2> QED
      BY <1>5, <2>2, <2>3, SpentBystander
  <1>6. ASSUME job[w] = j,
               \/ Register(w) \/ Execute(w, "ok") \/ Execute(w, "err")
               \/ CompleteGet(w) \/ CompleteSet(w) \/ CompleteRem(w)
        PROVE  Owner(w, j)
    BY <1>6 DEF Register, Execute, CompleteGet, CompleteSet, CompleteRem, Owner, Mine
  <1>7. ASSUME job[w] = j, Unregister(w) PROVE ~Owner(w, j)
    BY <1>7 DEF Unregister, Owner, Mine, FailLabels, RequeueLabels
  <1> QED
    BY <1>3, <1>4, <1>5, <1>6, <1>7

\* The recovery processor keeps it.
LEMMA SpentRecoverer ==
    ASSUME RestOK, LocalsOK, Shape, NEW j \in Jobs, Sole(j), Stage(j), Spent(j), RecovererOn(j)
    PROVE  Spent(j)'
  <1>1. Recoverer \in Threads /\ Recoverer \notin Workers /\ Recoverer # Poller
    BY ThreadFacts
  <1> USE <1>1, StatusFacts DEF At, RecovererOn
  <1>2. CASE RecoverList
    <2>1. ~Owner(Recoverer, j) /\ ~Owner(Recoverer, j)'
      BY <1>2 DEF RecoverList, Owner, Mine, FailLabels, RequeueLabels, Goto, LocalsOK
    <2> QED
      BY <1>2, <2>1, SpentBystander DEF RecoverList, redis, pool, history
  <1>3. CASE RecoverNext(j)
    <2>1. ~InChan(j) /\ Unowned(j) /\ queue[j] = "out"
      BY <1>3 DEF RecoverNext, Sole, Exclusive
    <2>2. \A u \in Threads \ {Recoverer} : ~Owner(u, j)'
      BY <2>1, OwnerKept DEF Unowned
    <2>3. data' = data /\ queue' = queue /\ job'[Recoverer] = j /\ pc'[Recoverer] = "req_get"
      BY <1>3 DEF RecoverNext, Goto, LocalsOK, redis
    <2>4. SpentOf(Recoverer, j)' /\ Owner(Recoverer, j)'
      BY <2>3 DEF SpentOf, Owner, Mine, RequeueLabels
    <2> QED
      BY <1>3, <2>1, <2>2, <2>3, <2>4, SpentOwner, SameChan DEF RecoverNext, pool
  <1> QED
    BY <1>2, <1>3

\* Time keeps it, as long as no data key expires.
LEMMA SpentTime ==
    ASSUME RestOK, LocalsOK, Shape, NEW j \in Jobs, Spent(j), TimeOn(j)
    PROVE  Spent(j)'
  <1> USE ThreadFacts, StatusFacts DEF TimeOn
  <1>1. UNCHANGED <<pc, job, round, jobChan, execs, refused>>
    BY DEF DeleteJob, Cleanup, LeaseExpires, DelayElapses, pool, callback, history
  <1>2. \A u \in Threads : Owner(u, j)' <=> Owner(u, j)
    BY <1>1 DEF Owner, Mine
  <1>3. (InChan(j)' <=> InChan(j)) /\ (Unowned(j)' <=> Unowned(j))
    BY <1>1, <1>2, SameChan DEF Unowned
  <1>4. CASE DeleteJob(j) \/ LeaseExpires(j)
    BY <1>1, <1>2, <1>3, <1>4, SpentKept DEF DeleteJob, LeaseExpires, redis
  <1>5. CASE Cleanup(j)
    <2>1. data'[j] = Absent /\ Unowned(j) /\ ~InChan(j) /\ queue'[j] = "out"
      BY <1>5 DEF Cleanup, RestOK, Idle, Unowned, Owner, InChan
    <2> QED
      BY <1>2, <1>3, <2>1 DEF Spent, Unowned
  <1>6. CASE DelayElapses(j)
    <2>1. queue[j] # "out" /\ UNCHANGED <<data, dead>>
      BY <1>6 DEF DelayElapses
    <2>2. \A u \in Threads : Owner(u, j)' => SpentOf(u, j)'
      BY <1>1, <1>2, <2>1 DEF Spent, SpentOf, Owed, Counted, Executed, Turned
    <2> QED
      BY <1>1, <1>3, <2>1, <2>2 DEF Spent, Owed, Counted, Buried
  <1> QED
    BY <1>4, <1>5, <1>6

\* Nor did a data key outlive its TTL.
Smooth == Without({"fault", "crash", "lease", "ttl", "stop"})

\* The inductive invariant behind FailedOnlyWhenExhausted.
SpentInv == StageInv /\ (Smooth => \A j \in Jobs : j \notin canceled => Spent(j))

\* It holds initially.
LEMMA SpentInit == Init => SpentInv
  <1> SUFFICES ASSUME Init, NEW j \in Jobs PROVE Spent(j)
    BY StageInit DEF SpentInv
  <1>1. ~InChan(j) /\ Unowned(j) /\ queue[j] = "out" /\ data[j].status = "absent"
    BY ThreadsDistinct DEF Init, InChan, Unowned, Owner, Absent
  <1> QED
    BY <1>1 DEF Spent, Unowned

\* Every step preserves it.
LEMMA SpentStep == SpentInv /\ [Next]_vars => SpentInv'
  <1> SUFFICES ASSUME SpentInv, [Next]_vars, Smooth', NEW j \in Jobs, j \notin canceled'
               PROVE  Spent(j)'
    BY StageStep DEF SpentInv
  <1>1. Ground /\ Steady /\ StageInv
    BY DEF SpentInv, StageInv, SoleInv
  <1>2. RestOK /\ LocalsOK /\ Shape /\ NewJob(j)
    BY <1>1 DEF Ground
  <1>3. {"fault", "crash", "lease", "ttl", "stop"} \in SUBSET Kinds
    BY DEF Kinds
  <1>4. Smooth /\ ~DataExpires(j)
    BY <1>2, <1>3, StillWithout DEF Smooth, DataExpires
  <1>5. Quiet'
    BY DEF Smooth, Quiet, Without
  <1>6. Quiet /\ Undisputed /\ j \notin canceled
    BY <1>1, <1>5, QuietStep, CanceledGrows
  <1>7. Sole(j) /\ Stage(j) /\ Spent(j)
    BY <1>1, <1>4, <1>6 DEF SpentInv, StageInv, SoleInv
  <1>8. \A t \in Threads : FailOn(t, j) => t \in Workers \/ t = Poller
    BY DEF FailOn
  <1> QED
    BY <1>1, <1>2, <1>4, <1>5, <1>6, <1>7, <1>8, QuietStep, SpentForeign, SpentClient, SpentFail,
       SpentRefusal, SpentRequeue, SpentPoller, SpentWorker, SpentRecoverer, SpentTime

\* A failed job that nobody works on any more is in the dead letter set, and has had
\* all its attempts unless the pool refused it: no attempt that Dequeue counted is
\* lost in any other way, whatever the capacity of the channel and however many jobs.
THEOREM FailedAfterAllAttempts == Spec => []FailedOnlyWhenExhausted
  <1>1. SpentInv /\ [Next]_vars => SpentInv'
    BY SpentStep
  <1>2. SpentInv => FailedOnlyWhenExhausted
    <2> SUFFICES ASSUME SpentInv, NEW j \in Jobs, Settled(j), data[j].status = "failed",
                        j \notin canceled, Without({"fault", "crash", "lease", "ttl", "stop"})
                 PROVE  Buried(j)
      BY DEF FailedOnlyWhenExhausted, Buried
    <2>1. Unowned(j)
      BY DEF Settled, Idle, Unowned, Owner
    <2> QED
      BY <2>1 DEF SpentInv, Smooth, Spent
  <1> QED
    BY <1>1, <1>2, SpentInit, PTL DEF Spec

-------------------------------------------------------------------------------
(* The retry budget *)

\* The executions a job may have had: MaxAttempts, and one more for each crash and for
\* each shutdown that has led to a new process.
Limit ==
    MaxAttempts + (IF phase = "running" THEN used["crash"] + used["stop"]
                                        ELSE used["crash"] + (used["stop"] - 1))

\* The attempts in the data key cover the executions: the job may be dequeued once
\* more; Dequeue has counted the execution that is to begin; it has begun.
Eligible(j) == execs[j] <= data[j].attempts /\ data[j].attempts < Limit
Claimed(j) == execs[j] < data[j].attempts /\ data[j].attempts <= Limit
Within(j) == execs[j] <= data[j].attempts /\ data[j].attempts <= Limit

\* Which of these holds while a goroutine owns the job.  Its copy has the attempts of
\* the data key that it will overwrite.
BudgetOf(t, j) ==
    /\ pc[t] = "enq_set" => execs[j] = 0
    /\ pc[t] \in {"enq_add", "deq_get", "deq_set"} \cup RequeueLabels => Eligible(j)
    /\ pc[t] \in {"submit", "register"} => Claimed(j)
    /\ pc[t] # "enq_set" => Within(j)
    /\ pc[t] \in {"deq_set", "comp_set", "fail_set", "fail_rem", "fail_add",
                  "req_rem", "req_set", "req_add"} => snap[t].attempts = data[j].attempts
    /\ pc[t] \in {"fail_rem", "fail_add"} /\ snap[t].status = "retrying" =>
         data[j].attempts < MaxAttempts

\* The same for a job in a queue, in the channel, or left in the running set by a
\* process that has ended.
Budget(j) ==
    /\ execs[j] <= Limit
    /\ queue[j] # "out" => Eligible(j)
    /\ running[j] # "out" /\ ~InChan(j) /\ Unowned(j) => Eligible(j)
    /\ j \in stale => running[j] # "out"
    /\ InChan(j) => Claimed(j)
    /\ \A t \in Threads : Owner(t, j) => BudgetOf(t, j)

\* The limit never falls, and a new process raises it.
LEMMA LimitStep ==
    ASSUME RestOK, Steady, [Next]_vars
    PROVE  /\ Limit \in Nat /\ Limit' \in Nat /\ Limit' >= Limit /\ Limit >= MaxAttempts
           /\ Crash \/ Restart => Limit' > Limit
  <1>1. /\ MaxAttempts \in Nat /\ used["crash"] \in Nat /\ used["stop"] \in Nat
        /\ used'["crash"] \in Nat /\ used'["stop"] \in Nat
        /\ used'["crash"] >= used["crash"] /\ used'["stop"] >= used["stop"]
    <2>1. used \in [Kinds -> Nat] /\ {"crash", "stop"} \subseteq Kinds /\ MaxAttempts \in Nat
      BY BoundsAssumption DEF RestOK, Kinds
    <2>2. ASSUME NEW k \in Kinds, Spend(k)
          PROVE  \A i \in Kinds : used'[i] \in Nat /\ used'[i] >= used[i]
      BY <2>1, <2>2 DEF Spend
    <2> QED
      BY <2>1, <2>2, Uncounted
  <1>2. phase # "running" => used["stop"] > 0
    BY <1>1 DEF Steady
  <1>3. CASE phase' = phase /\ ~Crash /\ ~Restart
    BY <1>1, <1>2, <1>3 DEF Limit
  <1>4. CASE Crash
    <2>1. phase' = "running" /\ used'["crash"] = used["crash"] + 1
      BY <1>4 DEF Crash, NewProcess, Spend, RestOK, Kinds
    <2> QED
      BY <1>1, <1>2, <2>1 DEF Limit
  <1>5. CASE Restart
    <2>1. phase' = "running" /\ used' = used /\ phase = "canceled"
      BY <1>5 DEF Restart, NewProcess
    <2> QED
      BY <1>1, <1>2, <2>1 DEF Limit
  <1>6. CASE Stop \/ PoolStop \/ CancelAllJobs
    <2>1. phase' # "running"
      BY <1>6 DEF Stop, PoolStop, CancelAllJobs
    <2>2. IF phase = "running" THEN used'["stop"] = used["stop"] + 1 ELSE used'["stop"] = used["stop"]
      BY <1>6 DEF Stop, PoolStop, CancelAllJobs, Spend, RestOK, Kinds, history
    <2>3. ~Crash /\ ~Restart
      BY <2>1 DEF Crash, Restart, NewProcess
    <2> QED
      BY <1>1, <1>2, <2>1, <2>2, <2>3 DEF Limit
  <1>7. ASSUME ~Crash, ~Restart, ~Stop, ~PoolStop, ~CancelAllJobs PROVE phase' = phase
    <2>1. CASE \E c \in Clients : Request(c) \/ ClientStep(c)
      BY <2>1 DEF Request, ClientStep, EnqCreate, EnqSet, EnqAdd, EnqDel, CancelInPool, CancelGet,
         CancelSet, CancelRemQueue, CancelRemRunning, CancelDbGet, CancelDbPut, pool
    <2>2. ASSUME NEW t, FailStep(t) \/ RequeueStep(t) PROVE phase' = phase
      BY <2>2 DEF FailStep, FailGet, FailSet, FailRem, FailAdd, RequeueStep, RequeueGet,
         RequeueRem, RequeueSet, RequeueAdd, pool
    <2>3. CASE PollerStep
      BY <2>2, <2>3 DEF PollerStep, PollTick, PollExit, DeqMove, DeqNone, DeqGet, DeqSet, Submit,
         SubmitRefused, pool
    <2>4. CASE \E w \in Workers : WorkerStep(w)
      BY <2>2, <2>4 DEF WorkerStep, WorkerExit, Take, Register, Execute, CompleteGet,
         CompleteSet, CompleteRem, DbGet, DbPut, Unregister, pool
    <2>5. CASE RecovererStep
      BY <2>2, <2>5 DEF RecovererStep, RecoverList, RecoverNext, RecoverDone, RecoverExit, pool
    <2>6. CASE Environment
      BY <1>7, <2>6 DEF Environment, DeleteJob, Cleanup, LeaseExpires, DataExpires,
         DelayElapses, CommandFails, RedisError, SetUnanswered, AddUnanswered, MoveUnanswered,
         CallbackDbError, CancelDbError, pool
    <2>7. CASE UNCHANGED vars
      BY <2>7 DEF vars
    <2> QED
      BY <2>1, <2>3, <2>4, <2>5, <2>6, <2>7 DEF Next
  <1> QED
    BY <1>3, <1>4, <1>5, <1>6, <1>7

\* What a step without a failed command, an expired lease or an expired key finds: the
\* limit does not fall and the counts are numbers.
Numbers(j) ==
    /\ Limit \in Nat /\ Limit' \in Nat /\ Limit' >= Limit /\ Limit >= MaxAttempts
    /\ MaxAttempts \in Nat \ {0}
    /\ execs[j] \in Nat /\ data[j].attempts \in Nat

\* The same data and executions stay within a limit that does not fall.
LEMMA StaysWithin ==
    ASSUME NEW j \in Jobs, Numbers(j), data'[j].attempts = data[j].attempts, execs'[j] = execs[j]
    PROVE  /\ Eligible(j) => Eligible(j)'
           /\ Claimed(j) => Claimed(j)'
           /\ Within(j) => Within(j)'
           /\ execs[j] <= Limit => execs'[j] <= Limit'
  BY DEF Numbers, Eligible, Claimed, Within

\* A step of the job's only owner keeps the budget, if it leaves the job within it.
LEMMA BudgetOwner ==
    ASSUME NEW j \in Jobs, NEW t \in Threads, \A u \in Threads \ {t} : ~Owner(u, j)',
           execs'[j] <= Limit',
           queue'[j] # "out" => Eligible(j)',
           running'[j] # "out" /\ ~InChan(j)' /\ ~Owner(t, j)' => Eligible(j)',
           j \notin stale',
           InChan(j)' => Claimed(j)',
           Owner(t, j)' => BudgetOf(t, j)'
    PROVE  Budget(j)'
  BY DEF Budget, Eligible, Claimed, Unowned

\* The budget is a matter of the job and of its owner's locals.
LEMMA BudgetKept ==
    ASSUME NEW j \in Jobs, Budget(j), Numbers(j), UNCHANGED <<data[j], execs[j]>>,
           queue'[j] # "out" => queue[j] # "out", running'[j] # "out" <=> running[j] # "out",
           InChan(j)' <=> InChan(j), j \in stale' => j \in stale,
           \A u \in Threads : Owner(u, j)' <=> Owner(u, j),
           \A u \in Threads : Owner(u, j) => pc'[u] = pc[u] /\ snap'[u] = snap[u]
    PROVE  Budget(j)'
  <1>1. \A u \in Threads : Owner(u, j)' => BudgetOf(u, j)'
    BY StaysWithin DEF Budget, BudgetOf
  <1>2. Unowned(j)' <=> Unowned(j)
    BY DEF Unowned
  <1> QED
    BY <1>1, <1>2, StaysWithin DEF Budget

\* A step that is foreign to the job keeps its budget.
LEMMA BudgetForeign ==
    ASSUME RestOK, LocalsOK, Shape, NEW j \in Jobs, Budget(j), Numbers(j), Foreign(j)
    PROVE  Budget(j)'
  <1>1. \A u \in Threads : Owner(u, j)' <=> Owner(u, j)
    BY WorkersOnly DEF Foreign, SameHolders, Owner, Mine
  <1>2. \A u \in Threads : Owner(u, j) => pc'[u] = pc[u] /\ snap'[u] = snap[u]
    BY DEF Foreign, SameHolders, Owner
  <1> QED
    BY <1>1, <1>2, BudgetKept DEF Foreign, SameJob

\* So does a step of a goroutine that neither owns the job nor touches its entries.
LEMMA BudgetBystander ==
    ASSUME RestOK, LocalsOK, Shape, NEW j \in Jobs, Budget(j), Numbers(j),
           NEW t \in Threads, Others(t), ~Owner(t, j), ~Owner(t, j)',
           UNCHANGED <<data[j], queue[j], running[j], execs[j], jobChan, stale>>
    PROVE  Budget(j)'
  <1>1. \A u \in Threads : Owner(u, j)' <=> Owner(u, j)
    BY OwnerKept
  <1>2. \A u \in Threads : Owner(u, j) => pc'[u] = pc[u] /\ snap'[u] = snap[u]
    BY DEF Others
  <1>3. InChan(j)' <=> InChan(j)
    BY SameChan
  <1> QED
    BY <1>1, <1>2, <1>3, BudgetKept

\* The clients keep the budget of a job that they do not cancel.
LEMMA BudgetClient ==
    ASSUME RestOK, LocalsOK, Shape, NEW j \in Jobs, NewJob(j), Sole(j), Budget(j), Numbers(j),
           j \notin canceled', NEW c \in Clients, ClientOn(c, j)
    PROVE  Budget(j)'
  <1>1. c \in Threads /\ c \notin Workers
    BY ThreadFacts
  <1> USE <1>1 DEF At, ClientOn
  <1>2. CASE EnqCreate(c, j)
    <2>1. \A u \in Threads \ {c} : ~Owner(u, j)'
      BY <1>2 DEF EnqCreate, NewJob, Others, Owner
    <2>2. /\ pc'[c] = "enq_set" /\ execs'[j] = 0 /\ j \notin stale'
          /\ queue'[j] = "out" /\ running'[j] = "out" /\ ~InChan(j)'
      BY <1>2, SameChan DEF EnqCreate, NewJob, Goto, LocalsOK, redis, pool
    <2>3. BudgetOf(c, j)'
      BY <2>2 DEF BudgetOf, RequeueLabels
    <2> QED
      BY <2>1, <2>2, <2>3, BudgetOwner DEF Numbers
  <1>3. CASE job[c] = j /\ (EnqSet(c) \/ EnqAdd(c))
    <2>1. Owner(c, j)
      BY <1>3 DEF EnqSet, EnqAdd, Owner, Mine
    <2>2. /\ queue[j] = "out" /\ ~InChan(j) /\ j \notin stale
          /\ \A u \in Threads \ {c} : ~Owner(u, j)'
      BY <2>1, OwnerAlone DEF Sole
    <2>3. BudgetOf(c, j) /\ running[j] = "out"
      BY <1>3, <2>1 DEF Budget, Sole, Exclusive, EnqSet, EnqAdd
    <2>4. ~InChan(j)' /\ j \notin stale' /\ running'[j] = "out" /\ execs' = execs
      BY <1>3, <2>2, <2>3, SameChan DEF EnqSet, EnqAdd, pool, history
    <2>5. CASE EnqSet(c)
      <3>1. /\ pc'[c] = "enq_add" /\ execs'[j] = 0 /\ queue' = queue
            /\ data'[j].attempts = 0
        BY <1>3, <2>3, <2>4, <2>5 DEF EnqSet, RestOK, BudgetOf, Goto, LocalsOK, WithStatus, Absent
      <3>2. Eligible(j)' /\ Within(j)' /\ execs'[j] <= Limit'
        BY <3>1 DEF Numbers, Eligible, Within
      <3>3. BudgetOf(c, j)'
        BY <3>1, <3>2 DEF BudgetOf, RequeueLabels
      <3> QED
        BY <2>2, <2>4, <3>1, <3>2, <3>3, BudgetOwner
    <2>6. CASE EnqAdd(c)
      <3>1. Eligible(j)' /\ execs'[j] <= Limit'
        BY <2>3, <2>4, <2>6, StaysWithin DEF EnqAdd, BudgetOf, Budget
      <3>2. ~Owner(c, j)'
        BY <1>3, <2>6, ThreadsDistinct DEF EnqAdd, Return, LocalsOK, Owner
      <3> QED
        BY <2>2, <2>4, <3>1, <3>2, BudgetOwner
    <2> QED
      BY <1>3, <2>5, <2>6
  <1>4. CASE \/ CancelInPool(c, j)
             \/ job[c] = j /\ (\/ CancelGet(c) \/ CancelSet(c) \/ CancelRemQueue(c)
                               \/ CancelRemRunning(c) \/ CancelDbGet(c) \/ CancelDbPut(c))
    BY <1>4, CancelBystander, BudgetBystander
  <1> QED
    BY <1>2, <1>3, <1>4 DEF ClientStep

\* queue.Fail keeps the budget: it retries only a job with an attempt left.
LEMMA BudgetFail ==
    ASSUME RestOK, LocalsOK, Shape, NEW j \in Jobs, Sole(j), Entry(j), Budget(j), Numbers(j),
           NEW t \in Threads, FailOn(t, j)
    PROVE  Budget(j)'
  <1> USE ThreadFacts, StatusFacts DEF At, FailOn, AfterFail
  <1>1. Owner(t, j) /\ pc[t] \in FailLabels
    BY DEF FailStep, FailGet, FailSet, FailRem, FailAdd, Owner, Mine, FailLabels
  <1>2. /\ queue[j] = "out" /\ ~InChan(j) /\ j \notin stale
        /\ \A u \in Threads \ {t} : ~Owner(u, j)'
    BY <1>1, OwnerAlone DEF Sole
  <1>3. ~InChan(j)' /\ j \notin stale' /\ execs' = execs
    BY <1>2, SameChan DEF FailStep, FailGet, FailSet, FailRem, FailAdd, pool, history
  <1>4. BudgetOf(t, j) /\ Within(j) /\ execs[j] <= Limit
    BY <1>1 DEF Budget, BudgetOf, FailLabels
  <1>5. CASE FailGet(t) /\ data[j] # Absent
    <2>1. pc'[t] = "fail_set" /\ snap'[t] = data[j] /\ data' = data /\ queue' = queue /\ job'[t] = j
      BY <1>5 DEF FailGet, Goto, Read, LocalsOK, redis
    <2>2. Within(j)' /\ execs'[j] <= Limit'
      BY <1>3, <1>4, <2>1, StaysWithin
    <2>3. BudgetOf(t, j)' /\ Owner(t, j)'
      BY <2>1, <2>2 DEF BudgetOf, Owner, Mine, FailLabels, RequeueLabels
    <2> QED
      BY <1>2, <1>3, <2>1, <2>2, <2>3, BudgetOwner
  <1>6. CASE FailGet(t) /\ data[j] = Absent
    <2>1. pc'[t] \in {"db_get", "deq"} /\ data' = data /\ queue' = queue /\ running' = running
      BY <1>6 DEF FailGet, Return, Goto, LocalsOK, redis
    <2>2. running[j] = "out"
      BY <1>6 DEF Entry
    <2>3. Within(j)' /\ execs'[j] <= Limit'
      BY <1>3, <1>4, <2>1, StaysWithin
    <2>4. BudgetOf(t, j)'
      BY <2>1, <2>3 DEF BudgetOf, RequeueLabels
    <2> QED
      BY <1>2, <1>3, <2>1, <2>2, <2>3, <2>4, BudgetOwner
  <1>7. CASE FailSet(t)
    <2>1. snap[t].attempts = data[j].attempts
      BY <1>4, <1>7 DEF FailSet, BudgetOf
    <2>2. data'[j] = WithStatus(snap[t], IF CanRetry(snap[t]) THEN "retrying" ELSE "failed")
          /\ snap'[t] = data'[j] /\ pc'[t] = "fail_rem" /\ job'[t] = j /\ queue' = queue
      BY <1>7 DEF FailSet, Goto, Read, LocalsOK, RestOK
    <2>3. /\ data'[j].attempts = data[j].attempts
          /\ snap'[t].status = "retrying" => data'[j].attempts < MaxAttempts
      BY <2>1, <2>2 DEF CanRetry, WithStatus
    <2>4. Within(j)' /\ execs'[j] <= Limit'
      BY <1>3, <1>4, <2>3, StaysWithin
    <2>5. BudgetOf(t, j)' /\ Owner(t, j)'
      BY <2>2, <2>3, <2>4 DEF BudgetOf, Owner, Mine, FailLabels, RequeueLabels
    <2> QED
      BY <1>2, <1>3, <2>2, <2>4, <2>5, BudgetOwner
  <1>8. CASE FailRem(t)
    <2>1. data' = data /\ queue' = queue /\ snap' = snap /\ pc'[t] = "fail_add" /\ job'[t] = j
      BY <1>8 DEF FailRem, Goto, LocalsOK
    <2>2. Within(j)' /\ execs'[j] <= Limit'
      BY <1>3, <1>4, <2>1, StaysWithin
    <2>3. BudgetOf(t, j)' /\ Owner(t, j)'
      BY <1>4, <1>8, <2>1, <2>2 DEF FailRem, BudgetOf, Owner, Mine, FailLabels, RequeueLabels
    <2> QED
      BY <1>2, <1>3, <2>1, <2>2, <2>3, BudgetOwner
  <1>9. CASE FailAdd(t)
    <2>1. data' = data /\ pc'[t] \in {"db_get", "deq"} /\ running'[j] = "out"
      BY <1>1, <1>9 DEF FailAdd, Return, Goto, LocalsOK, Sole, Exclusive
    <2>2. Within(j)' /\ execs'[j] <= Limit'
      BY <1>3, <1>4, <2>1, StaysWithin
    <2>3. BudgetOf(t, j)'
      BY <2>1, <2>2 DEF BudgetOf, RequeueLabels
    <2>4. queue'[j] # "out" => data[j].attempts < MaxAttempts
      BY <1>2, <1>4, <1>9 DEF FailAdd, BudgetOf
    <2>5. queue'[j] # "out" => Eligible(j)'
      BY <2>1, <2>2, <2>4 DEF Eligible, Within, Numbers
    <2> QED
      BY <1>2, <1>3, <2>1, <2>2, <2>3, <2>5, BudgetOwner
  <1> QED
    BY <1>5, <1>6, <1>7, <1>8, <1>9 DEF FailStep

\* queue.requeueJob keeps the budget, and does not look at the count.
LEMMA BudgetRequeue ==
    ASSUME RestOK, LocalsOK, Shape, NEW j \in Jobs, Sole(j), Budget(j), Numbers(j),
           NEW t \in Threads, RequeueOn(t, j)
    PROVE  Budget(j)'
  <1> USE ThreadFacts, StatusFacts DEF At, RequeueOn, AfterRequeue
  <1>1. Owner(t, j) /\ t \notin Workers /\ pc[t] \in RequeueLabels
    BY DEF RequeueStep, RequeueGet, RequeueRem, RequeueSet, RequeueAdd, Owner, Mine, RequeueLabels
  <1>2. /\ queue[j] = "out" /\ ~InChan(j) /\ j \notin stale
        /\ \A u \in Threads \ {t} : ~Owner(u, j)'
    BY <1>1, OwnerAlone DEF Sole
  <1>3. ~InChan(j)' /\ j \notin stale' /\ execs' = execs
    BY <1>2, SameChan DEF RequeueStep, RequeueGet, RequeueRem, RequeueSet, RequeueAdd, pool, history
  <1>4. BudgetOf(t, j) /\ Eligible(j) /\ Within(j) /\ execs[j] <= Limit
    BY <1>1 DEF Budget, BudgetOf, RequeueLabels
  <1>5. data'[j].attempts = data[j].attempts
    <2>1. RequeueSet(t) => snap[t].attempts = data[j].attempts
      BY <1>4 DEF RequeueSet, BudgetOf
    <2> QED
      BY <2>1 DEF RequeueStep, RequeueGet, RequeueRem, RequeueSet, RequeueAdd, WithStatus, redis,
         RestOK
  <1>6. Eligible(j)' /\ Within(j)' /\ execs'[j] <= Limit'
    BY <1>3, <1>4, <1>5, StaysWithin
  <1>7. CASE RequeueGet(t) \/ RequeueAdd(t)
    <2>1. Owner(t, j)' => BudgetOf(t, j)'
      <3>1. CASE data[j] = Absent \/ RequeueAdd(t)
        BY <1>1, <1>7, <3>1, ThreadsDistinct DEF RequeueGet, RequeueAdd, Return, Owner, LocalsOK
      <3>2. CASE RequeueGet(t) /\ data[j] # Absent
        <4>1. pc'[t] = "req_rem" /\ snap'[t] = data[j]
          BY <3>2 DEF RequeueGet, Goto, Read, LocalsOK
        <4> QED
          BY <1>5, <1>6, <4>1 DEF BudgetOf, RequeueLabels
      <3> QED
        BY <1>7, <3>1, <3>2
    <2> QED
      BY <1>2, <1>3, <1>6, <2>1, BudgetOwner
  <1>8. CASE RequeueRem(t) \/ RequeueSet(t)
    <2>1. /\ queue' = queue /\ snap' = snap /\ pc'[t] \in {"req_set", "req_add"}
          /\ snap[t].attempts = data[j].attempts
      BY <1>4, <1>8 DEF RequeueRem, RequeueSet, BudgetOf, Goto, LocalsOK
    <2>2. BudgetOf(t, j)'
      BY <1>5, <1>6, <2>1 DEF BudgetOf, RequeueLabels
    <2> QED
      BY <1>2, <1>3, <1>6, <2>1, <2>2, BudgetOwner
  <1> QED
    BY <1>7, <1>8 DEF RequeueStep

\* The queue processor keeps the budget: Dequeue counts the attempt before the pool
\* gets the job.
LEMMA BudgetPoller ==
    ASSUME RestOK, LocalsOK, Shape, NEW j \in Jobs, Sole(j), Budget(j), Numbers(j), PollerOn(j)
    PROVE  Budget(j)'
  <1>1. Poller \in Threads /\ Poller \notin Workers
    BY ThreadFacts
  <1> USE <1>1 DEF At, PollerOn
  <1>2. CASE DeqMove(j)
    <2>1. ~InChan(j) /\ Unowned(j) /\ j \notin stale /\ Eligible(j) /\ execs[j] <= Limit
      BY <1>2 DEF DeqMove, Sole, Exclusive, Budget
    <2>2. \A u \in Threads \ {Poller} : ~Owner(u, j)'
      BY <2>1, OwnerKept DEF Unowned
    <2>3. /\ queue'[j] = "out" /\ pc'[Poller] = "deq_get" /\ job'[Poller] = j
          /\ data' = data /\ execs' = execs
      BY <1>2 DEF DeqMove, Goto, LocalsOK, RestOK, history
    <2>4. ~InChan(j)' /\ j \notin stale'
      BY <1>2, <2>1, SameChan DEF DeqMove, pool
    <2>5. Eligible(j)' /\ execs'[j] <= Limit'
      BY <2>1, <2>3, StaysWithin
    <2>6. Within(j)'
      BY <2>3, <2>5 DEF Eligible, Within, Numbers
    <2>7. BudgetOf(Poller, j)'
      BY <2>3, <2>5, <2>6 DEF BudgetOf
    <2> QED
      BY <2>2, <2>3, <2>4, <2>5, <2>7, BudgetOwner
  <1>3. ASSUME job[Poller] = j, DeqGet \/ DeqSet \/ Submit \/ SubmitRefused
        PROVE  Budget(j)'
    <2>1. Owner(Poller, j)
      BY <1>3 DEF DeqGet, DeqSet, Submit, SubmitRefused, Owner, Mine
    <2>2. /\ queue[j] = "out" /\ ~InChan(j) /\ j \notin stale
          /\ \A u \in Threads \ {Poller} : ~Owner(u, j)'
      BY <2>1, OwnerAlone DEF Sole
    <2>3. queue'[j] = "out" /\ j \notin stale' /\ execs' = execs
      BY <1>3, <2>2 DEF DeqGet, DeqSet, Submit, SubmitRefused, redis, history
    <2>4. BudgetOf(Poller, j) /\ execs[j] <= Limit
      BY <2>1 DEF Budget
    <2>5. execs'[j] <= Limit'
      BY <2>3, <2>4 DEF Numbers
    <2>6. CASE DeqGet
      <3>1. /\ data' = data /\ job'[Poller] = j /\ pc'[Poller] \in {"req_get", "deq_set"}
            /\ snap'[Poller] = data[j]
        BY <1>3, <2>6 DEF DeqGet, Goto, Read, LocalsOK, redis
      <3>2. Eligible(j)' /\ Within(j)'
        BY <2>3, <2>4, <2>6, <3>1, StaysWithin DEF DeqGet, BudgetOf
      <3>3. BudgetOf(Poller, j)' /\ Owner(Poller, j)'
        BY <3>1, <3>2 DEF BudgetOf, Owner, Mine, RequeueLabels
      <3> QED
        BY <2>2, <2>3, <2>5, <2>6, <3>3, BudgetOwner, SameChan DEF DeqGet, pool
    <2>7. CASE DeqSet
      <3>1. snap[Poller].attempts = data[j].attempts /\ Eligible(j)
        BY <2>4, <2>7 DEF DeqSet, BudgetOf
      <3>2. /\ data'[j].attempts = data[j].attempts + 1
            /\ job'[Poller] = j /\ pc'[Poller] = "submit"
        BY <1>3, <2>7, <3>1 DEF DeqSet, RestOK, Goto, LocalsOK
      <3>3. Claimed(j)' /\ Within(j)'
        BY <2>3, <3>1, <3>2 DEF Eligible, Claimed, Within, Numbers
      <3>4. BudgetOf(Poller, j)' /\ Owner(Poller, j)'
        BY <3>2, <3>3 DEF BudgetOf, Owner, Mine, RequeueLabels
      <3> QED
        BY <2>2, <2>3, <2>5, <2>7, <3>4, BudgetOwner, SameChan DEF DeqSet, pool
    <2>8. CASE Submit
      <3>1. Claimed(j)'
        BY <2>3, <2>4, <2>8, StaysWithin DEF Submit, BudgetOf, redis
      <3>2. ~Owner(Poller, j)' /\ InChan(j)'
        BY <1>3, <2>8, ThreadsDistinct, ChanAppend DEF Submit, Return, LocalsOK, Owner
      <3> QED
        BY <2>2, <2>3, <2>5, <3>1, <3>2, BudgetOwner
    <2>9. CASE SubmitRefused
      <3>1. data' = data /\ job'[Poller] = j /\ pc'[Poller] = "fail_get"
        BY <1>3, <2>9 DEF SubmitRefused, Goto, LocalsOK, redis
      <3>2. Within(j)'
        BY <2>3, <2>4, <2>9, <3>1, StaysWithin DEF SubmitRefused, BudgetOf
      <3>3. BudgetOf(Poller, j)' /\ Owner(Poller, j)'
        BY <3>1, <3>2 DEF BudgetOf, Owner, Mine, FailLabels, RequeueLabels
      <3> QED
        BY <2>2, <2>3, <2>5, <2>9, <3>3, BudgetOwner, SameChan DEF SubmitRefused, pool
    <2> QED
      BY <1>3, <2>6, <2>7, <2>8, <2>9
  <1> QED
    BY <1>2, <1>3

\* The workers keep the budget: every execution was counted.
LEMMA BudgetWorker ==
    ASSUME RestOK, LocalsOK, Shape, NEW j \in Jobs, Sole(j), Entry(j), Budget(j), Numbers(j),
           NEW w \in Workers, WorkerOn(w, j)
    PROVE  Budget(j)'
  <1>1. w \in Threads
    BY ThreadFacts
  <1>2. ThreadShape(w) /\ round[w] \in {1, 2}
    BY <1>1 DEF Shape, RestOK
  <1> USE <1>1, StatusFacts DEF At, WorkerOn
  <1>3. CASE Take(w) /\ Head(jobChan) = j
    <2>1. InChan(j)
      BY <1>3, ChanTail DEF Take
    <2>2. /\ queue[j] = "out" /\ Unowned(j) /\ ChanOnce(j) /\ Claimed(j) /\ j \notin stale
          /\ execs[j] <= Limit
      BY <2>1 DEF Sole, Exclusive, Budget
    <2>3. ~InChan(j)'
      BY <1>3, <2>2, ChanTail DEF Take
    <2>4. \A u \in Threads \ {w} : ~Owner(u, j)'
      BY <2>2, OwnerKept DEF Unowned
    <2>5. /\ data' = data /\ execs' = execs /\ queue' = queue /\ stale' = stale
          /\ pc'[w] = "register" /\ job'[w] = j
      BY <1>3 DEF Take, Goto, LocalsOK, redis, history
    <2>6. Claimed(j)' /\ execs'[j] <= Limit'
      BY <2>2, <2>5, StaysWithin
    <2>7. Within(j)'
      BY <2>5, <2>6 DEF Claimed, Within, Numbers
    <2>8. BudgetOf(w, j)' /\ Owner(w, j)'
      BY <2>5, <2>6, <2>7 DEF BudgetOf, Owner, Mine, RequeueLabels
    <2> QED
      BY <2>2, <2>3, <2>4, <2>5, <2>6, <2>8, BudgetOwner
  <1>4. ASSUME job[w] = j, Owner(w, j),
               \/ Register(w) \/ Execute(w, "ok") \/ Execute(w, "err")
               \/ CompleteGet(w) \/ CompleteSet(w) \/ CompleteRem(w)
               \/ DbGet(w) \/ DbPut(w)
        PROVE  Budget(j)'
    <2>1. /\ queue[j] = "out" /\ ~InChan(j) /\ j \notin stale
          /\ \A u \in Threads \ {w} : ~Owner(u, j)'
      BY <1>4, OwnerAlone DEF Sole
    <2>2. queue'[j] = "out" /\ ~InChan(j)' /\ job'[w] = j /\ j \notin stale'
      BY <1>4, <2>1, SameChan DEF Register, Execute, CompleteGet, CompleteSet, CompleteRem, DbGet,
         DbPut, RestOK, redis, pool
    <2>3. BudgetOf(w, j) /\ execs[j] <= Limit
      BY <1>4 DEF Budget
    <2>4. Within(j)' /\ execs'[j] <= Limit'
      <3>1. CASE Register(w)
        <4>1. Claimed(j) /\ data' = data
          BY <2>3, <3>1 DEF Register, BudgetOf, redis
        <4>2. execs'[j] = IF execs[j] < MaxExecs THEN execs[j] + 1 ELSE execs[j]
          BY <1>4, <3>1 DEF Register, RestOK
        <4> QED
          BY <4>1, <4>2 DEF Claimed, Within, Numbers
      <3>2. CASE ~Register(w)
        <4>1. Within(j) /\ execs' = execs
          BY <1>4, <2>3, <3>2 DEF BudgetOf, Execute, CompleteGet, CompleteSet, CompleteRem,
             DbGet, DbPut, history
        <4>2. data'[j].attempts = data[j].attempts
          BY <1>4, <2>3, <3>2 DEF BudgetOf, Execute, CompleteGet, CompleteSet, CompleteRem,
             DbGet, DbPut, WithStatus, RestOK, redis
        <4> QED
          BY <2>3, <4>1, <4>2, StaysWithin
      <3> QED
        BY <3>1, <3>2
    <2>5. /\ pc'[w] \notin {"enq_set", "enq_add", "deq_get", "deq_set", "submit", "register",
                            "fail_set", "fail_rem", "fail_add"} \cup RequeueLabels
          /\ pc'[w] = "comp_set" => CompleteGet(w)
      BY <1>4 DEF Register, Execute, FirstStep, CompleteGet, CompleteSet, CompleteRem, DbGet, DbPut,
         NextCallback, Goto, LocalsOK, RequeueLabels
    <2>6. CompleteGet(w) => snap'[w] = data[j] /\ data' = data
      BY <1>4 DEF CompleteGet, Read, LocalsOK, redis
    <2>7. BudgetOf(w, j)'
      BY <2>4, <2>5, <2>6 DEF BudgetOf, RequeueLabels
    <2>8. ~Owner(w, j)' => running'[j] = "out"
      <3>1. CASE CompleteRem(w)
        BY <1>4, <3>1 DEF CompleteRem, RestOK
      <3>2. CASE DbGet(w) \/ DbPut(w)
        <4>1. round[w] = 1
          BY <1>4, <3>2 DEF DbGet, DbPut, Owner, Mine, FailLabels, RequeueLabels
        <4> QED
          BY <2>2, <3>2, <4>1 DEF DbGet, DbPut, NextCallback, FirstStep, Goto, LocalsOK, RestOK,
             Owner, Mine, FailLabels
      <3>3. CASE Register(w) \/ Execute(w, "ok") \/ Execute(w, "err") \/ CompleteSet(w)
        BY <2>2, <3>3 DEF Register, Execute, FirstStep, CompleteSet, Goto, LocalsOK,
           Owner, Mine, FailLabels
      <3>4. CASE CompleteGet(w)
        <4>1. data[j] = Absent => running[j] = "out"
          BY DEF Entry
        <4> QED
          BY <1>4, <2>2, <3>4, <4>1 DEF CompleteGet, Goto, LocalsOK, Owner, Mine, redis
      <3> QED
        BY <1>4, <3>1, <3>2, <3>3, <3>4
    <2> QED
      BY <2>1, <2>2, <2>4, <2>7, <2>8, BudgetOwner
  <1>5. ASSUME job[w] = j, ~Owner(w, j), DbGet(w) \/ DbPut(w) \/ Unregister(w)
        PROVE  Budget(j)'
    <2>1. pc'[w] \in {"db_put", "unreg", "idle"} /\ (pc'[w] = "db_put" => round'[w] = 2)
      BY <1>2, <1>5 DEF DbGet, DbPut, Unregister, Owner, Mine, NextCallback, Goto, LocalsOK, RestOK
    <2>2. ~Owner(w, j)'
      BY <2>1 DEF Owner, Mine, FailLabels, RequeueLabels
    <2>3. UNCHANGED <<data, queue, running, execs, jobChan, stale>>
      BY <1>5 DEF DbGet, DbPut, Unregister, redis, pool, history
    <2> QED
      BY <1>5, <2>2, <2>3, BudgetBystander
  <1>6. ASSUME job[w] = j,
               \/ Register(w) \/ Execute(w, "ok") \/ Execute(w, "err")
               \/ CompleteGet(w) \/ CompleteSet(w) \/ CompleteRem(w)
        PROVE  Owner(w, j)
    BY <1>6 DEF Register, Execute, CompleteGet, CompleteSet, CompleteRem, Owner, Mine
  <1>7. ASSUME job[w] = j, Unregister(w) PROVE ~Owner(w, j)
    BY <1>7 DEF Unregister, Owner, Mine, FailLabels, RequeueLabels
  <1> QED
    BY <1>3, <1>4, <1>5, <1>6, <1>7

\* The recovery processor keeps the budget.
LEMMA BudgetRecoverer ==
    ASSUME RestOK, LocalsOK, Shape, NEW j \in Jobs, Sole(j), Budget(j), Numbers(j), RecovererOn(j)
    PROVE  Budget(j)'
  <1>1. Recoverer \in Threads /\ Recoverer \notin Workers
    BY ThreadFacts
  <1> USE <1>1 DEF At, RecovererOn
  <1>2. CASE RecoverList
    <2>1. ~Owner(Recoverer, j) /\ ~Owner(Recoverer, j)'
      BY <1>2 DEF RecoverList, Owner, Mine, FailLabels, RequeueLabels, Goto, LocalsOK
    <2>2. \A u \in Threads : Owner(u, j)' <=> Owner(u, j)
      BY <2>1, OwnerKept
    <2>3. /\ UNCHANGED <<data, queue, running, jobChan, execs>>
          /\ j \in stale' => running[j] # "out"
      BY <1>2 DEF RecoverList, redis, pool, history
    <2>4. (InChan(j)' <=> InChan(j)) /\ (Unowned(j)' <=> Unowned(j))
      BY <2>2, <2>3, SameChan DEF Unowned
    <2>5. \A u \in Threads : Owner(u, j)' => BudgetOf(u, j)'
      <3>1. \A u \in Threads : Owner(u, j) => pc'[u] = pc[u] /\ snap'[u] = snap[u]
        BY <2>1 DEF Others
      <3> QED
        BY <2>2, <2>3, <3>1, StaysWithin DEF Budget, BudgetOf
    <2> QED
      BY <2>3, <2>4, <2>5, StaysWithin DEF Budget
  <1>3. CASE RecoverNext(j)
    <2>1. ~InChan(j) /\ Unowned(j) /\ queue[j] = "out"
      BY <1>3 DEF RecoverNext, Sole, Exclusive
    <2>2. \A u \in Threads \ {Recoverer} : ~Owner(u, j)'
      BY <2>1, OwnerKept DEF Unowned
    <2>3. Eligible(j) /\ execs[j] <= Limit
      BY <1>3, <2>1 DEF RecoverNext, Budget
    <2>4. /\ data' = data /\ queue' = queue /\ execs' = execs /\ j \notin stale'
          /\ job'[Recoverer] = j /\ pc'[Recoverer] = "req_get"
      BY <1>3 DEF RecoverNext, Goto, LocalsOK, redis, history
    <2>5. Eligible(j)' /\ execs'[j] <= Limit'
      BY <2>3, <2>4, StaysWithin
    <2>6. Within(j)'
      BY <2>4, <2>5 DEF Eligible, Within, Numbers
    <2>7. BudgetOf(Recoverer, j)'
      BY <2>4, <2>5, <2>6 DEF BudgetOf
    <2> QED
      BY <1>3, <2>1, <2>2, <2>4, <2>5, <2>7, BudgetOwner, SameChan DEF RecoverNext, pool
  <1> QED
    BY <1>2, <1>3

\* Time keeps the budget, as long as no data key expires.
LEMMA BudgetTime ==
    ASSUME RestOK, LocalsOK, Shape, NEW j \in Jobs, Budget(j), Numbers(j), TimeOn(j)
    PROVE  Budget(j)'
  <1> USE ThreadFacts DEF TimeOn
  <1>1. UNCHANGED <<pc, job, snap, round, jobChan, execs, stale>>
    BY DEF DeleteJob, Cleanup, LeaseExpires, DelayElapses, pool, callback, history
  <1>2. \A u \in Threads : Owner(u, j)' <=> Owner(u, j)
    BY <1>1 DEF Owner, Mine
  <1>3. (InChan(j)' <=> InChan(j)) /\ (Unowned(j)' <=> Unowned(j))
    BY <1>1, <1>2, SameChan DEF Unowned
  <1>4. CASE DeleteJob(j) \/ LeaseExpires(j) \/ DelayElapses(j)
    <2>1. /\ data' = data /\ (queue'[j] # "out" => queue[j] # "out")
          /\ running'[j] # "out" <=> running[j] # "out"
      BY <1>4 DEF DeleteJob, LeaseExpires, DelayElapses, redis, RestOK
    <2> QED
      BY <1>1, <1>2, <1>3, <2>1, BudgetKept
  <1>5. CASE Cleanup(j)
    <2>1. Unowned(j) /\ ~InChan(j) /\ queue'[j] = "out" /\ running'[j] = "out" /\ running' = running
      BY <1>5 DEF Cleanup, Idle, Unowned, Owner, InChan
    <2>2. execs'[j] <= Limit'
      BY <1>1 DEF Budget, Numbers
    <2> QED
      BY <1>1, <1>2, <1>3, <2>1, <2>2 DEF Budget, Unowned
  <1> QED
    BY <1>4, <1>5

\* A new process finds every job of the old one within the limit it has raised.
LEMMA BudgetProcess ==
    ASSUME NEW j \in Jobs, Sole(j), Budget(j), Numbers(j), Limit' > Limit, Crash \/ Restart
    PROVE  Budget(j)'
  <1>1. /\ ~InChan(j)' /\ Unowned(j)' /\ j \notin stale'
        /\ UNCHANGED <<data[j], queue[j], running[j], execs[j]>>
    BY NewProcessFree
  <1>2. running[j] # "out" => Within(j) \/ Eligible(j)
    <2>1. CASE InChan(j)
      BY <2>1 DEF Budget, Claimed, Within, Numbers
    <2>2. ASSUME NEW t \in Threads, Owner(t, j), running[j] # "out" PROVE Within(j)
      BY <2>2 DEF Budget, BudgetOf, Sole, Exclusive
    <2> QED
      BY <2>1, <2>2 DEF Budget, Unowned
  <1>3. running[j] # "out" => Eligible(j)'
    BY <1>1, <1>2 DEF Within, Eligible, Numbers
  <1> QED
    BY <1>1, <1>3, StaysWithin DEF Budget, Unowned

\* No command failed, no lease expired under its holder, no key outlived its TTL.
Orderly == Without({"fault", "lease", "ttl"})

\* The inductive invariant behind RetryBudget.
BudgetInv ==
    /\ SoleInv /\ EntryInv /\ Steady
    /\ Orderly => \A j \in Jobs : j \notin canceled => Budget(j)

\* It holds initially.
LEMMA BudgetInit == Init => BudgetInv
  <1> SUFFICES ASSUME Init PROVE EntryInv /\ \A j \in Jobs : Budget(j)
    BY SoleInit, StageInit DEF BudgetInv, StageInv
  <1>1. EntryInv
    BY GroundInit, ThreadsDistinct, ThreadFacts DEF Init, EntryInv, Entry
  <1>2. ASSUME NEW j \in Jobs PROVE Budget(j)
    <2>1. /\ ~InChan(j) /\ Unowned(j) /\ queue[j] = "out" /\ running[j] = "out" /\ j \notin stale
          /\ execs[j] = 0
      BY ThreadsDistinct DEF Init, InChan, Unowned, Owner
    <2>2. 0 <= Limit
      BY BoundsAssumption DEF Init, Limit, Kinds
    <2> QED
      BY <2>1, <2>2 DEF Budget, Unowned
  <1> QED
    BY <1>1, <1>2

\* Every step preserves it.
LEMMA BudgetStep == BudgetInv /\ [Next]_vars => BudgetInv'
  <1> SUFFICES ASSUME BudgetInv, [Next]_vars PROVE BudgetInv'
    OBVIOUS
  <1>1. RestOK /\ LocalsOK /\ Shape /\ Steady /\ SoleInv /\ EntryInv /\ Ground
    BY DEF BudgetInv, SoleInv, Ground
  <1>2. SoleInv' /\ EntryInv' /\ Steady'
    BY <1>1, SoleStep, EntryStep, SteadyStep
  <1>3. ASSUME Orderly', NEW j \in Jobs, j \notin canceled' PROVE Budget(j)'
    <2>1. {"fault", "lease", "ttl"} \in SUBSET Kinds
      BY DEF Kinds
    <2>2. Orderly /\ ~DataExpires(j)
      BY <1>1, <1>3, <2>1, StillWithout DEF Orderly, DataExpires
    <2>3. Undisputed'
      BY <1>3 DEF Orderly, Undisputed, Without
    <2>4. Undisputed /\ Without({"ttl"})
      BY <2>2 DEF Orderly, Undisputed, Without
    <2>5. Sole(j) /\ Entry(j) /\ NewJob(j)
      BY <1>1, <2>4 DEF SoleInv, EntryInv, Ground, NoUndo, Undisputed, Without
    <2>6. Budget(j)
      BY <1>3, <2>2, CanceledGrows DEF BudgetInv
    <2>7. Numbers(j) /\ (Crash \/ Restart => Limit' > Limit)
      BY <1>1, LimitStep, BoundsAssumption DEF Numbers, RestOK, JobRecord
    <2> QED
      BY <1>1, <1>3, <2>2, <2>3, <2>5, <2>6, <2>7, UndisputedStep, BudgetForeign, BudgetClient,
         BudgetFail, BudgetRequeue, BudgetPoller, BudgetWorker, BudgetRecoverer, BudgetTime,
         BudgetProcess
  <1> QED
    BY <1>2, <1>3 DEF BudgetInv

\* However its executions, crashes and restarts interleave, a job is executed at most
\* MaxAttempts times, and once more for each crash and each shutdown.
THEOREM ExecutionsWithinBudget == Spec => []RetryBudget
  <1>1. BudgetInv => RetryBudget
    <2> SUFFICES ASSUME BudgetInv, NEW j \in Jobs, j \notin canceled,
                        Without({"fault", "lease", "ttl"})
                 PROVE  execs[j] <= MaxAttempts + used["crash"] + used["stop"]
      BY DEF RetryBudget
    <2>1. RestOK /\ Steady /\ execs[j] <= Limit
      BY DEF BudgetInv, SoleInv, Ground, Orderly, Budget
    <2>2. used["crash"] \in Nat /\ used["stop"] \in Nat /\ execs[j] \in Nat /\ MaxAttempts \in Nat
      BY <2>1, BoundsAssumption DEF RestOK, Kinds
    <2>3. phase # "running" => used["stop"] > 0
      BY <2>1, <2>2 DEF Steady
    <2> QED
      BY <2>1, <2>2, <2>3 DEF Limit
  <1> QED
    BY <1>1, BudgetInit, BudgetStep, PTL DEF Spec


===============================================================================
