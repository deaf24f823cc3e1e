---------------------------- MODULE ContainerUpdate ----------------------------
(***************************************************************************)
(* The update of a container and its rollback                              *)
(* (internal/services/update/service.go): UpdateContainer, executeUpdate,  *)
(* rollbackContainer, waitForHealthy, failUpdate and RollbackUpdate.       *)
(*                                                                         *)
(* Docker has no transaction: an update stops the container, renames it,   *)
(* creates another one under its name, starts that and removes the old     *)
(* one, each with a call of its own that can fail, and takes back what it   *)
(* did in the opposite order.  Requests for one container may overlap: the *)
(* semaphore bounds their number and does not ask for whom they are.       *)
(***************************************************************************)
EXTENDS Naturals, FiniteSets

CONSTANTS
    Requests,       \* calls of UpdateContainer and RollbackUpdate
    First,          \* the container there is to begin with
    Service,        \* its name
    Versions, None,
    MaxConcurrent,  \* MaxConcurrentUpdates
    MaxUses         \* bounds on the kinds of event below

\* refused: a call fails without effect; lost: it has its effect and its caller
\* gets an error; sick: the new container is not seen to be healthy; cancel: the
\* context of a request ends; crash: the process ends; overlap: a request
\* begins while another is being served; stray: it is for a container that is
\* not the service's; rollback: a call of RollbackUpdate.
Kinds == {"refused", "lost", "sick", "cancel", "crash", "overlap", "stray", "rollback"}

VARIABLES
    box,       \* Docker: the containers by ID
    pc,        \* where a request is
    job,       \* what it has read
    published, \* whether the service publishes ports of the host
    row,       \* the status of the row of an update
    promised,  \* the version the last answer said the service runs
    canceled,  \* requests whose context has ended
    used,
    hurt       \* the mishaps met since the requests that are served began: none, one,
               \* or more, which is never forgotten

counts == <<used, hurt>>
vars == <<box, published, pc, job, row, promised, canceled, used, hurt>>

\* A request creates at most one container: its ID is the request, and so is
\* the name that the old one gets, which is made of the time.
Ids == Requests \cup {First}
Names == Requests \cup {Service}
Boxes == [name : Names, image : Versions, up : BOOLEAN]
Jobs == [kind : {"update", "rollback"}, of : Requests, target : Ids, name : Names,
         from : Versions, to : Versions]

ASSUME UpdateAssumption ==
    /\ IsFiniteSet(Requests)
    /\ {First, Service, None} \cap Requests = {}
    /\ First # None /\ Service # None
    /\ None \notin Versions \cup Boxes
    /\ MaxConcurrent \in Nat \ {0}
    /\ MaxUses \in [Kinds -> Nat]

Forward == {"prepare", "inspect", "stop", "rename", "create", "start", "health", "remove",
            "record"}
Undo == {"undoStop", "undoRemove", "undoRename", "undoStart", "fail"}
Places == {"idle", "queued", "ended"} \cup Forward \cup Undo

Init ==
    /\ \E v \in Versions :
          /\ box = [i \in Ids |-> IF i = First
                                  THEN [name |-> Service, image |-> v, up |-> TRUE]
                                  ELSE None]
          /\ promised = v
    /\ published \in BOOLEAN
    /\ pc = [p \in Requests |-> "idle"]
    /\ job = [p \in Requests |-> None]
    /\ row = [p \in Requests |-> "none"]
    /\ canceled = {}
    /\ used = [k \in Kinds |-> 0]
    /\ hurt = 0

--------------------------------------------------------------------------------
(* Docker (external) *)

Exists(i) == box[i] # None
Free(n) == \A i \in Ids : Exists(i) => box[i].name # n

\* A container is created with the HostConfig of the one it replaces, and a port of
\* the host serves one running container: Docker refuses to start another.
Startable(i) == Exists(i) /\ (published => \A j \in Ids \ {i} : ~(Exists(j) /\ box[j].up))

Stopped(i) == [box EXCEPT ![i].up = FALSE]
Started(i) == [box EXCEPT ![i].up = TRUE]
Renamed(i, n) == [box EXCEPT ![i].name = n]
Removed(i) == [box EXCEPT ![i] = None]
Created(i, n, v) == [box EXCEPT ![i] = [name |-> n, image |-> v, up |-> FALSE]]

--------------------------------------------------------------------------------
Spend(K) ==
    /\ \A k \in K : used[k] < MaxUses[k]
    /\ used' = [k \in Kinds |-> IF k \in K THEN used[k] + 1 ELSE used[k]]

Mishap(k) ==
    /\ Spend({k})
    /\ hurt' = IF hurt = 0 THEN 1 ELSE 2

Goto(p, l) == pc' = [pc EXCEPT ![p] = l]

\* A call to Docker by p.  It is answered with an error when it is not possible
\* or the context of p has ended.
Call(p, possible, effect, ok, bad) ==
    \/ /\ possible /\ p \notin canceled
       /\ \/ Goto(p, ok) /\ box' = effect /\ UNCHANGED counts
          \/ Goto(p, bad) /\ box' = effect /\ Mishap("lost")
          \/ Goto(p, bad) /\ UNCHANGED box /\ Mishap("refused")
    \/ /\ ~possible \/ p \in canceled
       /\ Goto(p, bad) /\ UNCHANGED <<box, counts>>

\* A write of the row of p's update, which nobody repeats.
Write(p, s) ==
    \/ /\ p \notin canceled
       /\ row' = [row EXCEPT ![job[p].of] = s]
       /\ UNCHANGED counts
    \/ p \notin canceled /\ Mishap("refused") /\ UNCHANGED row
    \/ p \in canceled /\ UNCHANGED <<row, counts>>

Active == {p \in Requests : pc[p] \notin {"idle", "ended"}}
Updating(p) == job[p].kind = "update"

\* The updates that hold a slot of updateSem.
Executing ==
    {p \in Active : pc[p] # "queued" /\ Updating(p)}

--------------------------------------------------------------------------------
(* UpdateContainer up to executeUpdate *)

Overlaps == IF Active = {} THEN {} ELSE {"overlap"}

Begin(K) ==
    /\ Spend(Overlaps \cup K)
    /\ hurt' = IF Active = {} /\ hurt = 1 THEN 0 ELSE hurt

\* Container i is inspected and the row created.  A request that fails up to
\* here, or finds the container up to date, has changed nothing.
UpdateContainer(p, i, v) ==
    /\ pc[p] = "idle" /\ Exists(i)
    /\ Begin(IF box[i].name = Service THEN {} ELSE {"stray"})
    /\ job' = [job EXCEPT ![p] = [kind |-> "update", of |-> p, target |-> i,
                                  name |-> box[i].name, from |-> box[i].image, to |-> v]]
    /\ row' = [row EXCEPT ![p] = "pending"]
    /\ Goto(p, "queued")
    /\ UNCHANGED <<box, promised, canceled>>

DryRun(p) ==
    /\ pc[p] = "queued"
    /\ Write(p, "skipped")
    /\ Goto(p, "ended")
    /\ UNCHANGED <<box, job, promised, canceled>>

Acquire(p) ==
    /\ pc[p] = "queued" /\ Cardinality(Executing) < MaxConcurrent
    /\ Goto(p, "prepare")
    /\ UNCHANGED <<box, job, row, promised, canceled, counts>>

GiveUp(p) ==
    /\ pc[p] = "queued" /\ p \in canceled
    /\ Goto(p, "ended")
    /\ UNCHANGED <<box, job, row, promised, canceled, counts>>

--------------------------------------------------------------------------------
(* RollbackUpdate *)

RollbackUpdate(p, u) ==
    /\ pc[p] = "idle" /\ row[u] = "completed"
    /\ Begin({"rollback"})
    /\ job' = [job EXCEPT ![p] = [kind |-> "rollback", of |-> u, target |-> job[u].target,
                                  name |-> Service, from |-> job[u].from,
                                  to |-> job[u].from]]
    /\ Goto(p, "prepare")
    /\ UNCHANGED <<box, row, promised, canceled>>

Inspect(p) ==
    /\ pc[p] = "inspect"
    /\ LET t == job[p].target IN
       \/ /\ Exists(t) /\ p \notin canceled
          /\ job' = [job EXCEPT ![p].name = box[t].name]
          /\ Goto(p, "stop") /\ UNCHANGED counts
       \/ /\ Exists(t) => p \in canceled
          /\ Goto(p, "fail") /\ UNCHANGED <<job, counts>>
       \/ /\ Exists(t) /\ p \notin canceled /\ Mishap("refused")
          /\ Goto(p, "fail") /\ UNCHANGED job
    /\ UNCHANGED <<box, row, promised, canceled>>

--------------------------------------------------------------------------------
(* executeUpdate, and the same steps of RollbackUpdate, which does not look at *)
(* the errors of Stop and Rename.                                              *)

\* The scan, the backup and the pull of the image.
Prepare(p) ==
    /\ pc[p] = "prepare" /\ Updating(p)
    /\ Call(p, TRUE, box, "stop", "fail")
    /\ row' = IF p \in canceled THEN row ELSE [row EXCEPT ![p] = "active"]
    /\ UNCHANGED <<job, promised, canceled>>

\* The backup is restored and the old image pulled.  Only the pull can fail the
\* request; the backups of updates are of volumes, and to restore one moves no
\* container.
Restore(p) ==
    /\ pc[p] = "prepare" /\ ~Updating(p)
    /\ Call(p, TRUE, box, "inspect", "fail")
    /\ UNCHANGED <<job, row, promised, canceled>>

Stop(p) ==
    /\ pc[p] = "stop"
    /\ Call(p, Exists(job[p].target), Stopped(job[p].target),
            "rename", IF Updating(p) THEN "fail" ELSE "rename")
    /\ UNCHANGED <<job, row, promised, canceled>>

\* Mutant of Rename: the backup name is used before it is set.
RenameToNothing(p) ==
    /\ pc[p] = "rename"
    /\ Call(p, Exists(job[p].target), Renamed(job[p].target, None), "create", "undoStart")
    /\ UNCHANGED <<job, row, promised, canceled>>

Rename(p) ==
    /\ pc[p] = "rename"
    /\ Call(p, Exists(job[p].target) /\ Free(p), Renamed(job[p].target, p),
            "create", IF Updating(p) THEN "undoStart" ELSE "create")
    /\ UNCHANGED <<job, row, promised, canceled>>

\* Mutant of Create: when it fails the old container keeps its backup name.
CreateForgetsName(p) ==
    /\ pc[p] = "create"
    /\ Call(p, Free(job[p].name), Created(p, job[p].name, job[p].to), "start", "undoStart")
    /\ UNCHANGED <<job, row, promised, canceled>>

Create(p) ==
    /\ pc[p] = "create"
    /\ Call(p, Free(job[p].name), Created(p, job[p].name, job[p].to), "start", "undoRename")
    /\ UNCHANGED <<job, row, promised, canceled>>

Start(p) ==
    /\ pc[p] = "start"
    /\ Call(p, Startable(p), Started(p),
            IF Updating(p) THEN "health" ELSE "remove",
            IF Updating(p) THEN "undoStop" ELSE "undoRemove")
    /\ UNCHANGED <<job, row, promised, canceled>>

\* Mutant of Health: the old container is put back while the new one runs.
HealthKeepsNew(p) ==
    /\ pc[p] = "health"
    /\ \/ Goto(p, "remove") /\ UNCHANGED counts
       \/ Goto(p, "undoRename") /\ Mishap("sick")
    /\ UNCHANGED <<box, job, row, promised, canceled>>

\* waitForHealthy: a running container is seen to be healthy, or the attempts
\* or the context end first.
Health(p) ==
    /\ pc[p] = "health"
    /\ LET up == Exists(p) /\ p \notin canceled /\ (Exists(p) => box[p].up) IN
       \/ up /\ Goto(p, "remove") /\ UNCHANGED counts
       \/ ~up /\ Goto(p, "undoStop") /\ UNCHANGED counts
       \/ up /\ Goto(p, "undoStop") /\ Mishap("sick")
    /\ UNCHANGED <<box, job, row, promised, canceled>>

\* Its error is only logged.
Remove(p) ==
    /\ pc[p] = "remove"
    /\ Call(p, Exists(job[p].target), Removed(job[p].target), "record", "record")
    /\ UNCHANGED <<job, row, promised, canceled>>

\* The request is answered with success, whatever becomes of the row.
Record(p) ==
    /\ pc[p] = "record"
    /\ Write(p, IF Updating(p) THEN "completed" ELSE "rolled_back")
    /\ promised' = job[p].to
    /\ Goto(p, "ended")
    /\ UNCHANGED <<box, job, canceled>>

--------------------------------------------------------------------------------
(* rollbackContainer, and the ends of it where less has been done *)

UndoStop(p) ==
    /\ pc[p] = "undoStop"
    /\ Call(p, Exists(p), Stopped(p), "undoRemove", "undoRemove")
    /\ UNCHANGED <<job, row, promised, canceled>>

\* Mutant of UndoRemove: the new container is stopped and stays.
UndoRemoveNothing(p) ==
    /\ pc[p] = "undoRemove"
    /\ Goto(p, "undoRename")
    /\ UNCHANGED <<box, job, row, promised, canceled, counts>>

UndoRemove(p) ==
    /\ pc[p] = "undoRemove"
    /\ Call(p, Exists(p), Removed(p), "undoRename", "undoRename")
    /\ UNCHANGED <<job, row, promised, canceled>>

UndoRename(p) ==
    /\ pc[p] = "undoRename"
    /\ Call(p, Exists(job[p].target) /\ Free(job[p].name),
            Renamed(job[p].target, job[p].name), "undoStart", "undoStart")
    /\ UNCHANGED <<job, row, promised, canceled>>

\* Mutant of UndoStart: the old container is renamed and not started.
UndoStartNothing(p) ==
    /\ pc[p] = "undoStart"
    /\ Goto(p, "fail")
    /\ UNCHANGED <<box, job, row, promised, canceled, counts>>

UndoStart(p) ==
    /\ pc[p] = "undoStart"
    /\ Call(p, Startable(job[p].target), Started(job[p].target), "fail", "fail")
    /\ UNCHANGED <<job, row, promised, canceled>>

\* failUpdate; a rollback leaves the row as it is.
Fail(p) ==
    /\ pc[p] = "fail"
    /\ IF Updating(p) THEN Write(p, "failed") ELSE UNCHANGED <<row, counts>>
    /\ Goto(p, "ended")
    /\ UNCHANGED <<box, job, promised, canceled>>

--------------------------------------------------------------------------------
(* The client goes away or the deadline of the job passes. *)
Cancel(p) ==
    /\ p \in Active \ canceled
    /\ Mishap("cancel")
    /\ canceled' = canceled \cup {p}
    /\ UNCHANGED <<box, pc, job, row, promised>>

\* Nothing looks for unfinished updates when the process starts again.
Crash ==
    /\ Active # {}
    /\ Mishap("crash")
    /\ pc' = [p \in Requests |-> IF p \in Active THEN "ended" ELSE pc[p]]
    /\ UNCHANGED <<box, job, row, promised, canceled>>

--------------------------------------------------------------------------------
Step(p) ==
    \/ Acquire(p) \/ GiveUp(p) \/ DryRun(p)
    \/ Inspect(p) \/ Prepare(p) \/ Restore(p) \/ Stop(p) \/ Rename(p) \/ Create(p) \/ Start(p)
    \/ Health(p) \/ Remove(p) \/ Record(p)
    \/ UndoStop(p) \/ UndoRemove(p) \/ UndoRename(p) \/ UndoStart(p) \/ Fail(p)

\* The ports are part of the HostConfig, which an update hands on.
Next ==
    /\ \/ \E p \in Requests :
             \/ \E i \in Ids, v \in Versions : UpdateContainer(p, i, v)
             \/ \E u \in Requests : RollbackUpdate(p, u)
             \/ Step(p) \/ Cancel(p)
       \/ Crash
    /\ UNCHANGED published

Spec == Init /\ [][Next]_vars

--------------------------------------------------------------------------------
(* Properties *)

TypeOK ==
    /\ box \in [Ids -> Boxes \cup {None}]
    /\ published \in BOOLEAN
    /\ pc \in [Requests -> Places]
    /\ job \in [Requests -> Jobs \cup {None}]
    /\ row \in [Requests -> {"none", "pending", "active", "completed", "failed", "skipped",
                             "rolled_back"}]
    /\ promised \in Versions
    /\ canceled \subseteq Requests
    /\ used \in [Kinds -> Nat]
    /\ hurt \in 0..2

Up == {i \in Ids : Exists(i) /\ box[i].up}
Without(K) == \A k \in K : used[k] = 0

\* Requests one after the other, each with one mishap at most, a refused call at
\* any place or a sick container: once they are answered, the container with the
\* service's name runs, alone, and in the version the last answer promised.
ServiceSurvives ==
    Active = {} /\ Without(Kinds \ {"refused", "sick"}) /\ hurt < 2
    => \E i \in Up : /\ Up = {i}
                     /\ box[i].name = Service /\ box[i].image = promised

\* The old and the new container share their volumes: at no time, not even between
\* two steps, after a crash or the end of the context, do both run, if no request
\* meets two mishaps.  The order of the steps sees to it also where Docker does
\* not, because no ports are published.  (Two mishaps, or one call that did what it
\* reported as failed, and another update are enough to have both run.)
NeverTwoRun ==
    Without({"overlap", "stray", "rollback", "lost"}) /\ hurt < 2
    => \A i, j \in Up : i = j

\* Updates of one container, of the one it replaces and of the one that replaces
\* it may overlap, and end and be undone in any order: when no ports are published
\* and nothing goes wrong but that new containers are sick, some container runs in
\* the end.
OverlapKeepsOneUp ==
    ~published /\ Active = {} /\ Without(Kinds \ {"overlap", "sick", "stray"}) => Up # {}

\* With published ports the start that is to undo an update can be refused, because
\* the container of the other one holds them.  A sick container, or a third request,
\* then leaves nothing running; two requests that overlap and meet nothing else do not.
OneOverlapKeepsOneUp ==
    Active = {} /\ Without(Kinds \ {"overlap", "stray"}) /\ used["overlap"] <= 1
    => Up # {}

\* A container beyond the service's own is the work of a request that is still
\* being served, or what a failure, a crash or an overlap has left behind.
LeftoverPerMishap ==
    Cardinality({i \in Ids : Exists(i)})
        <= 1 + used["refused"] + used["lost"] + used["cancel"] + used["crash"]
             + used["overlap"] + Cardinality(Active)

\* "RollbackUpdate rolls back a completed update" (service.go:711): a rollback that
\* is answered, after requests one after the other without any mishap.
RollbackRestores ==
    \A p \in Requests :
        pc[p] = "ended" /\ ~Updating(p) /\ Without(Kinds \ {"rollback"})
        => row[job[p].of] = "rolled_back"
================================================================================
