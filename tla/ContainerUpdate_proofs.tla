------------------------- MODULE ContainerUpdate_proofs -------------------------
(* Theorems about ContainerUpdate, for any requests, versions and bounds. *)
EXTENDS ContainerUpdate, FiniteSetTheorems, TLAPS

--------------------------------------------------------------------------------
(* Types *)

\* A request that has begun has a job, and so has the one whose row it writes.
JobsKnown ==
    \A p \in Requests : /\ pc[p] # "idle" => job[p] \in Jobs /\ pc[job[p].of] # "idle"
                        /\ row[p] # "none" => pc[p] # "idle"

TypeInv == TypeOK /\ JobsKnown

LEMMA SpendFacts ==
  ASSUME TypeOK, NEW K, Spend(K)
  PROVE  /\ used' \in [Kinds -> Nat]
         /\ \A k \in Kinds : used'[k] = IF k \in K THEN used[k] + 1 ELSE used[k]
  BY DEF Spend, TypeOK

\* A mishap is counted, and is the first of those that are served or a further one.
LEMMA MishapFacts ==
  ASSUME TypeOK, NEW k, Mishap(k)
  PROVE  /\ used' \in [Kinds -> Nat] /\ hurt' \in 0..2
         /\ \A l \in Kinds : used'[l] = IF l = k THEN used[l] + 1 ELSE used[l]
         /\ hurt' = IF hurt = 0 THEN 1 ELSE 2
  <1>1. Spend({k}) BY DEF Mishap
  <1> QED BY <1>1, SpendFacts DEF Mishap

\* A request that is not served beside another one starts with no mishap.
LEMMA BeginFacts ==
  ASSUME TypeOK, NEW K, Begin(K)
  PROVE  /\ used' \in [Kinds -> Nat] /\ hurt' \in 0..2
         /\ \A k \in Kinds : used'[k] >= used[k]
         /\ \A k \in Kinds \cap (Overlaps \cup K) : used'[k] # 0
         /\ hurt = 2 => hurt' = 2
  <1>1. Spend(Overlaps \cup K) BY DEF Begin
  <1>2. /\ used' \in [Kinds -> Nat]
        /\ \A k \in Kinds : used'[k] = IF k \in Overlaps \cup K THEN used[k] + 1 ELSE used[k]
    BY <1>1, SpendFacts
  <1>3. used \in [Kinds -> Nat] BY DEF TypeOK
  <1>4. hurt' \in 0..2 /\ (hurt = 2 => hurt' = 2) BY DEF Begin, TypeOK
  <1> QED BY <1>2, <1>3, <1>4

LEMMA EffectTypes ==
  ASSUME TypeOK, NEW i \in Ids
  PROVE  /\ Exists(i) => /\ Stopped(i) \in [Ids -> Boxes \cup {None}]
                         /\ Started(i) \in [Ids -> Boxes \cup {None}]
                         /\ \A n \in Names : Renamed(i, n) \in [Ids -> Boxes \cup {None}]
         /\ Removed(i) \in [Ids -> Boxes \cup {None}]
         /\ \A n \in Names, v \in Versions :
               Created(i, n, v) \in [Ids -> Boxes \cup {None}]
  BY DEF TypeOK, Exists, Stopped, Started, Renamed, Removed, Created, Boxes

\* What can be started exists, and it can when no other container runs or none
\* publishes ports.
LEMMA StartableFacts ==
  ASSUME NEW i \in Ids
  PROVE  /\ Startable(i) \in BOOLEAN
         /\ Startable(i) => Exists(i)
         /\ ~published \/ (\A j \in Up : j = i) => (Startable(i) <=> Exists(i))
  BY DEF Startable, Up, Exists

LEMMA WriteFacts ==
  ASSUME TypeInv, NEW p \in Requests, pc[p] # "idle",
         NEW s \in {"completed", "failed", "skipped", "rolled_back"}, Write(p, s)
  PROVE  /\ row' \in [Requests -> {"none", "pending", "active", "completed", "failed",
                                   "skipped", "rolled_back"}]
         /\ used' \in [Kinds -> Nat] /\ hurt' \in 0..2
         /\ \A k \in Kinds : used'[k] >= used[k]
         /\ \A q \in Requests : row'[q] # "none" => row[q] # "none" \/ q = job[p].of
  <1>0. job[p] \in Jobs BY DEF TypeInv, JobsKnown
  <1>1. CASE row' = [row EXCEPT ![job[p].of] = s] /\ UNCHANGED counts
    BY <1>0, <1>1 DEF TypeInv, TypeOK, Jobs, counts
  <1>2. CASE Mishap("refused") /\ UNCHANGED row
    BY <1>2, MishapFacts DEF TypeInv, TypeOK
  <1>3. CASE UNCHANGED <<row, counts>>
    BY <1>3 DEF TypeInv, TypeOK, counts
  <1> QED BY <1>1, <1>2, <1>3 DEF Write

\* A step of a request that has begun keeps the types, when it keeps the jobs.
LEMMA StepTypes ==
  ASSUME TypeInv, NEW p \in Requests, Step(p), UNCHANGED published
  PROVE  TypeInv'
  <1>0. /\ TypeOK /\ pc[p] # "idle" /\ job[p] \in Jobs
        /\ job[p].of \in Requests /\ job[p].target \in Ids /\ p \in Ids
        /\ job[p].name \in Names /\ job[p].to \in Versions /\ p \in Names
    BY DEF TypeInv, JobsKnown, Jobs, Ids, Names, Step, Acquire, GiveUp, DryRun, Inspect,
           Prepare, Restore, Stop, Rename, Create, Start, Health, Remove, Record,
           UndoStop, UndoRemove, UndoRename, UndoStart, Fail
  <1> DEFINE t == job[p].target
  <1>p. Forward \cup Undo \cup {"ended"} \subseteq Places /\ "idle" \notin Forward \cup Undo
    BY DEF Places, Forward, Undo
  <1>1. ASSUME pc' \in [Requests -> Places], pc'[p] # "idle",
               \A q \in Requests \ {p} : pc'[q] = pc[q],
               box' \in [Ids -> Boxes \cup {None}], used' \in [Kinds -> Nat], hurt' \in 0..2,
               job' \in [Requests -> Jobs \cup {None}],
               \A q \in Requests : job[q] \in Jobs => job'[q] \in Jobs /\ job'[q].of = job[q].of,
               row' \in [Requests -> {"none", "pending", "active", "completed", "failed",
                                      "skipped", "rolled_back"}],
               \A q \in Requests : row'[q] # "none" => row[q] # "none" \/ q \in {p, job[p].of},
               promised' \in Versions, UNCHANGED canceled
        PROVE  TypeInv'
    BY <1>0, <1>1 DEF TypeInv, TypeOK, JobsKnown, Jobs
  <1>2. CASE Acquire(p) \/ GiveUp(p)
    BY <1>0, <1>1, <1>2, <1>p DEF Acquire, GiveUp, Goto, TypeOK, Forward, counts
  <1>3. CASE DryRun(p) \/ Record(p) \/ Fail(p)
    <2>1. /\ row' \in [Requests -> {"none", "pending", "active", "completed", "failed",
                                    "skipped", "rolled_back"}]
          /\ used' \in [Kinds -> Nat] /\ hurt' \in 0..2
          /\ \A q \in Requests : row'[q] # "none" => row[q] # "none" \/ q = job[p].of
      BY <1>0, <1>3, WriteFacts DEF DryRun, Record, Fail, TypeOK, counts
    <2> QED BY <1>0, <1>1, <1>3, <1>p, <2>1 DEF DryRun, Record, Fail, Goto, TypeOK
  <1>4. CASE Inspect(p)
    <2>1. used' \in [Kinds -> Nat] /\ hurt' \in 0..2
      BY <1>0, <1>4, MishapFacts DEF Inspect, TypeOK, counts
    <2>2. Exists(t) => box[t].name \in Names
      BY <1>0 DEF Exists, TypeOK, Boxes
    <2>3. /\ job' \in [Requests -> Jobs \cup {None}]
          /\ \A q \in Requests : job[q] \in Jobs => job'[q] \in Jobs /\ job'[q].of = job[q].of
      BY <1>0, <1>4, <2>2 DEF Inspect, Jobs, TypeOK
    <2> QED BY <1>0, <1>1, <1>4, <1>p, <2>1, <2>3 DEF Inspect, Goto, TypeOK, Forward, Undo
  <1>5. CASE Health(p)
    BY <1>0, <1>1, <1>5, <1>p, MishapFacts DEF Health, Goto, TypeOK, Forward, Undo, counts
  <1>6. ASSUME NEW possible \in BOOLEAN, NEW effect, NEW ok \in Forward \cup Undo,
               NEW bad \in Forward \cup Undo,
               Call(p, possible, effect, ok, bad),
               possible => effect \in [Ids -> Boxes \cup {None}],
               row' \in [Requests -> {"none", "pending", "active", "completed", "failed",
                                      "skipped", "rolled_back"}],
               \A q \in Requests : row'[q] # "none" => row[q] # "none" \/ q = p,
               UNCHANGED <<job, promised, canceled>>
        PROVE  TypeInv'
    <2>1. ok \in Places /\ bad \in Places /\ ok # "idle" /\ bad # "idle" BY <1>p, <1>6
    <2>2. /\ box' \in [Ids -> Boxes \cup {None}] /\ pc' \in [Requests -> Places]
          /\ used' \in [Kinds -> Nat] /\ hurt' \in 0..2
          /\ \A q \in Requests \ {p} : pc'[q] = pc[q]
          /\ pc'[p] \in {ok, bad}
      <3>1. CASE Goto(p, ok) /\ box' = effect /\ possible /\ UNCHANGED counts
        BY <1>0, <1>6, <2>1, <3>1 DEF Goto, TypeOK, counts
      <3>2. CASE Goto(p, bad) /\ box' = effect /\ possible /\ Mishap("lost")
        BY <1>0, <1>6, <2>1, <3>2, MishapFacts DEF Goto, TypeOK
      <3>3. CASE Goto(p, bad) /\ UNCHANGED box /\ Mishap("refused")
        BY <1>0, <2>1, <3>3, MishapFacts DEF Goto, TypeOK
      <3>4. CASE Goto(p, bad) /\ UNCHANGED <<box, counts>>
        BY <1>0, <2>1, <3>4 DEF Goto, TypeOK, counts
      <3> QED BY <1>6, <3>1, <3>2, <3>3, <3>4 DEF Call
    <2> QED BY <1>0, <1>1, <1>6, <2>1, <2>2 DEF TypeOK
  <1> USE <1>0, <1>6, EffectTypes DEF Forward, Undo
  <1>7. CASE Prepare(p) \/ Restore(p)
    BY <1>7 DEF Prepare, Restore, TypeOK
  <1>8. CASE Stop(p) BY <1>8 DEF Stop, TypeOK, Exists
  <1>9. CASE Rename(p)
    <2>1. (Exists(t) /\ Free(p)) \in BOOLEAN BY DEF Exists, Free
    <2> QED BY <1>9, <2>1 DEF Rename, TypeOK
  <1>10. CASE Create(p) BY <1>10 DEF Create, TypeOK, Free
  <1>11. CASE Start(p) BY <1>11, StartableFacts DEF Start, TypeOK
  <1>12. CASE Remove(p) BY <1>12 DEF Remove, TypeOK, Exists
  <1>13. CASE UndoStop(p) BY <1>13 DEF UndoStop, TypeOK, Exists
  <1>14. CASE UndoRemove(p) BY <1>14 DEF UndoRemove, TypeOK, Exists
  <1>15. CASE UndoRename(p)
    <2>1. (Exists(t) /\ Free(job[p].name)) \in BOOLEAN BY DEF Exists, Free
    <2> QED BY <1>15, <2>1 DEF UndoRename, TypeOK
  <1>16. CASE UndoStart(p) BY <1>16, StartableFacts DEF UndoStart, TypeOK
  <1> QED BY <1>2, <1>3, <1>4, <1>5, <1>7, <1>8, <1>9, <1>10, <1>11, <1>12, <1>13, <1>14,
             <1>15, <1>16 DEF Step

LEMMA NextTypes ==
  ASSUME TypeInv, [Next]_vars
  PROVE  TypeInv'
  <1>0. UNCHANGED published BY DEF Next, vars
  <1>1. ASSUME NEW p \in Requests, Step(p) PROVE TypeInv' BY <1>0, <1>1, StepTypes
  <1>2. ASSUME NEW p \in Requests, NEW i \in Ids, NEW v \in Versions, UpdateContainer(p, i, v)
        PROVE  TypeInv'
    <2>1. used' \in [Kinds -> Nat] /\ hurt' \in 0..2
      BY <1>2, BeginFacts DEF UpdateContainer, TypeInv
    <2>2. box[i].name \in Names /\ box[i].image \in Versions
      BY <1>2 DEF UpdateContainer, Exists, TypeInv, TypeOK, Boxes
    <2>3. [kind |-> "update", of |-> p, target |-> i, name |-> box[i].name,
           from |-> box[i].image, to |-> v] \in Jobs
      BY <2>2 DEF Jobs
    <2> QED BY <1>0, <1>2, <2>1, <2>3 DEF UpdateContainer, Goto, TypeInv, TypeOK, JobsKnown, Places
  <1>3. ASSUME NEW p \in Requests, NEW u \in Requests, RollbackUpdate(p, u) PROVE TypeInv'
    <2>1. used' \in [Kinds -> Nat] /\ hurt' \in 0..2
      BY <1>3, BeginFacts DEF RollbackUpdate, TypeInv
    <2>2. job[u] \in Jobs /\ pc[u] # "idle"
      BY <1>3 DEF RollbackUpdate, TypeInv, JobsKnown
    <2>3. [kind |-> "rollback", of |-> u, target |-> job[u].target, name |-> Service,
           from |-> job[u].from, to |-> job[u].from] \in Jobs
      BY <2>2 DEF Jobs, Names
    <2> QED BY <1>0, <1>3, <2>1, <2>2, <2>3
            DEF RollbackUpdate, Goto, TypeInv, TypeOK, JobsKnown, Places, Forward
  <1>4. ASSUME NEW p \in Requests, Cancel(p) PROVE TypeInv'
    BY <1>0, <1>4, MishapFacts DEF Cancel, Active, TypeInv, TypeOK, JobsKnown
  <1>5. CASE Crash
    BY <1>0, <1>5, MishapFacts DEF Crash, Active, TypeInv, TypeOK, JobsKnown, Places, Jobs
  <1>6. CASE UNCHANGED vars BY <1>6 DEF vars, TypeInv, TypeOK, JobsKnown
  <1> QED BY <1>1, <1>2, <1>3, <1>4, <1>5, <1>6 DEF Next

LEMMA InitTypes == Init => TypeInv
  <1> SUFFICES ASSUME Init PROVE TypeInv OBVIOUS
  <1>1. box \in [Ids -> Boxes \cup {None}]
    BY DEF Init, Boxes, Names
  <1>2. hurt \in 0..2 BY DEF Init
  <1>3. used \in [Kinds -> Nat] BY DEF Init
  <1>4. promised \in Versions BY DEF Init
  <1>5. /\ pc \in [Requests -> Places] /\ job \in [Requests -> Jobs \cup {None}]
        /\ row \in [Requests -> {"none", "pending", "active", "completed", "failed", "skipped",
                                 "rolled_back"}]
        /\ canceled \subseteq Requests /\ published \in BOOLEAN
    BY DEF Init, Places
  <1>6. JobsKnown BY DEF Init, JobsKnown
  <1> QED BY <1>1, <1>2, <1>3, <1>4, <1>5, <1>6 DEF TypeInv, TypeOK

\* Type correctness of the containers, the requests, their rows and the counts,
\* whatever fails, is cancelled or overlaps.
THEOREM UpdateTypeCorrect == Spec => []TypeOK
  <1>1. TypeInv => TypeOK BY DEF TypeInv
  <1> QED BY <1>1, InitTypes, NextTypes, PTL DEF Spec

--------------------------------------------------------------------------------
(* The old and the new container never run together *)

\* The hypothesis of NeverTwoRun.
Mild == Without({"overlap", "stray", "rollback", "lost"}) /\ hurt < 2

\* Docker's: no two containers have the same name.
NamesUnique ==
    \A i, j \in Ids : Exists(i) /\ Exists(j) /\ box[i].name = box[j].name => i = j

\* Without overlaps one request is served at a time.
Alone == used["overlap"] = 0 => \A p, q \in Active : p = q

\* What runs has the service's name: with unique names there is one such.
UpIsService == \A i \in Up : box[i].name = Service

OnlyNew(p) == \A i \in Ids : Exists(i) /\ box[i].name = Service => i = p

\* What a request may rely on at its place, when no other interferes.  A call that
\* is taken back has failed, so that no second one fails unless the context has
\* ended, and then all of them do.
PlaceInv(p) ==
    LET t == job[p].target IN
    /\ Updating(p) /\ job[p].name = Service /\ pc[p] # "inspect"
    /\ pc[p] \in {"queued", "prepare", "stop", "rename"} =>
          Exists(t) /\ box[t].name = Service
    /\ pc[p] = "rename" => ~box[t].up
    /\ pc[p] = "create" => Free(Service)
    /\ pc[p] \in {"start", "health", "undoStop", "undoRemove"} => OnlyNew(p)
    /\ pc[p] \in {"start", "health"} => Exists(p) /\ box[p].name = Service
    /\ pc[p] = "health" => box[p].up
    /\ pc[p] = "undoRename" /\ p \notin canceled => Free(Service)
    /\ pc[p] \in {"undoStop", "undoRemove", "undoRename"} /\ p \notin canceled => hurt >= 1
    /\ pc[p] = "undoStart" /\ p \notin canceled /\ Exists(t) => box[t].name = Service

Core == UpIsService /\ \A p \in Active : PlaceInv(p)

\* The inductive invariant: NeverTwoRun says nothing of who may run next, so
\* that it needs the names and the place of the request that is served.
SagaInv == TypeInv /\ NamesUnique /\ Alone /\ (Mild => Core)

\* The counts only grow and a second mishap is not forgotten, so that a step into
\* a mild state starts in one.
LEMMA MildBefore ==
  ASSUME TypeInv, TypeInv', \A k \in Kinds : used'[k] >= used[k], hurt = 2 => hurt' = 2, Mild'
  PROVE  Mild /\ used["overlap"] = 0 /\ hurt \in Nat /\ hurt' \in Nat
  <1>1. /\ \A k \in Kinds : used[k] \in Nat /\ used'[k] \in Nat
        /\ hurt \in 0..2 /\ hurt' \in 0..2
    BY DEF TypeInv, TypeOK
  <1>2. /\ \A k \in {"overlap", "stray", "rollback", "lost"} : used'[k] = 0
        /\ hurt' < 2
    BY DEF Mild, Without
  <1>3. \A k \in {"overlap", "stray", "rollback", "lost"} : used[k] = 0
    BY <1>1, <1>2 DEF Kinds
  <1>4. hurt < 2 BY <1>1, <1>2
  <1> QED BY <1>1, <1>3, <1>4 DEF Mild, Without

\* A mishap adds to the counts and is not forgotten.
LEMMA MishapGrows ==
  ASSUME TypeInv, NEW k \in Kinds, Mishap(k)
  PROVE  /\ \A l \in Kinds : used'[l] >= used[l]
         /\ used'[k] # 0 /\ hurt' >= hurt /\ (hurt = 2 => hurt' = 2)
  BY MishapFacts DEF TypeInv, TypeOK

\* In a mild step only one of four mishaps happens, and it is the request's first.
LEMMA MishapMild ==
  ASSUME TypeInv, TypeInv', Mild', NEW k \in Kinds, Mishap(k)
  PROVE  k \in {"refused", "sick", "cancel", "crash"} /\ hurt = 0 /\ hurt' = 1
  <1>1. used'[k] # 0 BY MishapGrows
  <1>2. /\ \A l \in {"overlap", "stray", "rollback", "lost"} : used'[l] = 0
        /\ hurt' < 2
    BY DEF Mild, Without
  <1>3. k \in {"refused", "sick", "cancel", "crash"} BY <1>1, <1>2 DEF Kinds
  <1> QED BY <1>2, <1>3 DEF Mishap

\* How a call to Docker can end, as long as the counts stay mild.
LEMMA CallMild ==
  ASSUME TypeInv, TypeInv', Mild', NEW p \in Requests, NEW possible \in BOOLEAN, NEW effect,
         NEW ok, NEW bad, Call(p, possible, effect, ok, bad)
  PROVE  \/ /\ possible /\ p \notin canceled /\ box' = effect
            /\ pc' = [pc EXCEPT ![p] = ok] /\ hurt' = hurt
         \/ /\ possible /\ p \notin canceled /\ box' = box
            /\ pc' = [pc EXCEPT ![p] = bad] /\ hurt = 0 /\ hurt' = 1
         \/ /\ ~possible \/ p \in canceled
            /\ box' = box /\ pc' = [pc EXCEPT ![p] = bad] /\ hurt' = hurt
  <1>1. "lost" \in Kinds /\ "refused" \in Kinds BY DEF Kinds
  <1>2. ~Mishap("lost") BY <1>1, MishapMild
  <1>3. Mishap("refused") => hurt = 0 /\ hurt' = 1 BY <1>1, MishapMild
  <1>4. UNCHANGED counts => hurt' = hurt BY DEF counts
  <1> QED BY <1>2, <1>3, <1>4 DEF Call, Goto

\* A step of a request moves that request only, and begins none.
LEMMA StepFrame ==
  ASSUME TypeInv, NEW p \in Requests, Step(p)
  PROVE  /\ p \in Active /\ Active' \subseteq Active
         /\ \A k \in Kinds : used'[k] >= used[k]
         /\ hurt' >= hurt /\ (hurt = 2 => hurt' = 2)
         /\ canceled' = canceled
         /\ job' = job \/ pc[p] = "inspect"
  <1>1. p \in Active
    BY DEF Active, Step, Acquire, GiveUp, DryRun, Inspect, Prepare, Restore, Stop, Rename,
           Create, Start, Health, Remove, Record, UndoStop, UndoRemove, UndoRename,
           UndoStart, Fail
  <1>2. /\ \E l : pc' = [pc EXCEPT ![p] = l]
        /\ canceled' = canceled
        /\ job' = job \/ pc[p] = "inspect"
        /\ UNCHANGED counts \/ \E k \in Kinds : Mishap(k)
    BY DEF Kinds, Step, Acquire, GiveUp, DryRun, Inspect, Prepare, Restore, Stop, Rename,
           Create, Start, Health, Remove, Record, UndoStop, UndoRemove, UndoRename,
           UndoStart, Fail, Call, Goto, Write
  <1>3. Active' \subseteq Active BY <1>1, <1>2 DEF Active, TypeInv, TypeOK
  <1>4. /\ \A k \in Kinds : used'[k] >= used[k]
        /\ hurt' >= hurt /\ (hurt = 2 => hurt' = 2)
    <2>1. CASE UNCHANGED counts BY <2>1 DEF TypeInv, TypeOK, counts
    <2>2. ASSUME NEW k \in Kinds, Mishap(k)
          PROVE  /\ \A l \in Kinds : used'[l] >= used[l]
                 /\ hurt' >= hurt /\ (hurt = 2 => hurt' = 2)
      BY <2>2, MishapGrows
    <2> QED BY <1>2, <2>1, <2>2
  <1> QED BY <1>1, <1>2, <1>3, <1>4

\* Docker's calls, done, refused or lost, keep the names of the containers unique.
LEMMA StepNames ==
  ASSUME TypeInv, NamesUnique, NEW p \in Requests, Step(p)
  PROVE  NamesUnique'
  <1>0. /\ p \in Ids /\ p \in Active /\ job[p] \in Jobs /\ job[p].target \in Ids
        /\ box \in [Ids -> Boxes \cup {None}] /\ None \notin Boxes
    BY StepFrame, UpdateAssumption DEF Active, Ids, TypeInv, TypeOK, JobsKnown, Jobs
  <1> DEFINE t == job[p].target
  <1>1. \/ box' = box
        \/ \E i \in {p, t} : Exists(i) /\ box' \in {Stopped(i), Started(i), Removed(i)}
        \/ \E n \in {p, job[p].name} : Exists(t) /\ Free(n) /\ box' = Renamed(t, n)
        \/ Free(job[p].name) /\ box' = Created(p, job[p].name, job[p].to)
    BY <1>0, StartableFacts
       DEF Step, Acquire, GiveUp, DryRun, Inspect, Prepare, Restore, Stop, Rename, Create,
           Start, Health, Remove, Record, UndoStop, UndoRemove, UndoRename, UndoStart,
           Fail, Call
  <1>2. CASE box' = box BY <1>2 DEF NamesUnique, Exists
  <1>3. ASSUME NEW i \in Ids, Exists(i), box' \in {Stopped(i), Started(i), Removed(i)}
        PROVE  NamesUnique'
    <2>1. \A j \in Ids : Exists(j)' => Exists(j) /\ box'[j].name = box[j].name
      BY <1>0, <1>3 DEF Exists, Stopped, Started, Removed, Boxes
    <2> QED BY <2>1 DEF NamesUnique
  <1>4. ASSUME NEW i \in Ids, NEW n, NEW r, Free(n), r.name = n,
               \A j \in Ids : box'[j] = IF j = i THEN r ELSE box[j]
        PROVE  NamesUnique'
    BY <1>4 DEF NamesUnique, Free, Exists
  <1>5. ASSUME NEW n, Exists(t), Free(n), box' = Renamed(t, n) PROVE NamesUnique'
    <2>1. box'[t].name = n /\ \A j \in Ids : box'[j] = IF j = t THEN box'[t] ELSE box[j]
      BY <1>0, <1>5 DEF Renamed, Exists, Boxes
    <2> QED BY <1>0, <1>4, <1>5, <2>1
  <1>6. CASE Free(job[p].name) /\ box' = Created(p, job[p].name, job[p].to)
    <2>1. /\ box'[p].name = job[p].name
          /\ \A j \in Ids : box'[j] = IF j = p THEN box'[p] ELSE box[j]
      BY <1>0, <1>6 DEF Created
    <2> QED BY <1>0, <1>4, <1>6, <2>1
  <1> QED BY <1>0, <1>1, <1>2, <1>3, <1>5, <1>6

\* One step of the one request that is served, while the counts stay mild.
LEMMA StepCore ==
  ASSUME SagaInv, TypeInv', Mild', NEW p \in Requests, Step(p)
  PROVE  Core'
  <1>0. /\ p \in Active /\ Active' \subseteq {p} /\ canceled' = canceled
        /\ UpIsService /\ PlaceInv(p) /\ job' = job /\ pc[p] # "inspect"
        /\ hurt \in Nat /\ hurt' \in Nat /\ hurt <= hurt' /\ hurt' <= 1
    <2>1. /\ p \in Active /\ Active' \subseteq Active /\ canceled' = canceled
          /\ \A k \in Kinds : used'[k] >= used[k]
          /\ hurt' >= hurt /\ (hurt = 2 => hurt' = 2)
          /\ job' = job \/ pc[p] = "inspect"
      BY StepFrame DEF SagaInv
    <2>2. Mild /\ used["overlap"] = 0 /\ hurt \in Nat /\ hurt' \in Nat /\ hurt <= hurt'
      BY <2>1, MildBefore DEF SagaInv
    <2>3. hurt' <= 1 BY <2>2 DEF Mild
    <2>4. Core BY <2>2 DEF SagaInv
    <2>5. Active \subseteq {p} BY <2>1, <2>2 DEF SagaInv, Alone
    <2> QED BY <2>1, <2>2, <2>3, <2>4, <2>5 DEF Core, PlaceInv
  <1> DEFINE t == job[p].target
  <1>1. /\ p \in Ids /\ t \in Ids /\ p # Service /\ job[p] \in Jobs
        /\ box \in [Ids -> Boxes \cup {None}] /\ None \notin Boxes
        /\ pc \in [Requests -> Places] /\ NamesUnique /\ TypeInv
    BY <1>0, UpdateAssumption
       DEF Active, Ids, SagaInv, TypeInv, TypeOK, JobsKnown, Jobs
  <1>2. Updating(p) /\ job[p].name = Service /\ Updating(p)' /\ job'[p].name = Service
        /\ t' = t
    BY <1>0 DEF PlaceInv, Updating
  <1>3. SUFFICES UpIsService' /\ (p \in Active' => PlaceInv(p)')
    BY <1>0 DEF Core
  <1>4. ASSUME box' = box PROVE UpIsService'
    BY <1>0, <1>4 DEF UpIsService, Up, Exists
  <1>5. CASE Acquire(p) \/ Prepare(p) \/ Restore(p)
    <2>1. /\ box' = box
          /\ \/ pc' = [pc EXCEPT ![p] = "prepare"] /\ pc[p] = "queued"
             \/ pc' = [pc EXCEPT ![p] = "stop"] /\ pc[p] = "prepare"
             \/ pc' = [pc EXCEPT ![p] = "fail"]
      BY <1>2, <1>5 DEF Acquire, Prepare, Restore, Call, Goto
    <2> QED BY <1>0, <1>1, <1>2, <1>4, <2>1 DEF PlaceInv, Exists
  <1>6. CASE GiveUp(p) \/ DryRun(p) \/ Record(p) \/ Fail(p)
    <2>1. box' = box /\ pc'[p] = "ended"
      BY <1>1, <1>6 DEF GiveUp, DryRun, Record, Fail, Goto
    <2> QED BY <1>4, <2>1 DEF Active
  <1>b. /\ Exists(t) \in BOOLEAN /\ Exists(p) \in BOOLEAN /\ Free(Service) \in BOOLEAN
        /\ (Exists(t) /\ Free(p)) \in BOOLEAN /\ (Exists(t) /\ Free(Service)) \in BOOLEAN
    BY DEF Exists, Free
  <1> USE <1>0, <1>1, <1>2
  <1>7. CASE Stop(p)
    <2>1. \/ Exists(t) /\ box' = Stopped(t) /\ pc' = [pc EXCEPT ![p] = "rename"]
          \/ box' = box /\ pc' = [pc EXCEPT ![p] = "fail"]
      BY <1>7, <1>b, CallMild DEF Stop
    <2>2. pc[p] = "stop" BY <1>7 DEF Stop
    <2>3. CASE Exists(t) /\ box' = Stopped(t) /\ pc' = [pc EXCEPT ![p] = "rename"]
      <3>1. /\ box'[t] = [box[t] EXCEPT !.up = FALSE] /\ box[t] \in Boxes
            /\ \A i \in Ids \ {t} : box'[i] = box[i]
        BY <2>3 DEF Stopped, Exists
      <3>2. Exists(t)' /\ ~box'[t].up /\ box'[t].name = box[t].name
        BY <3>1 DEF Exists, Boxes
      <3>3. UpIsService' BY <3>1, <3>2 DEF UpIsService, Up, Exists
      <3>4. PlaceInv(p)' BY <2>2, <2>3, <3>2 DEF PlaceInv
      <3> QED BY <3>3, <3>4
    <2>4. CASE box' = box /\ pc' = [pc EXCEPT ![p] = "fail"]
      BY <1>4, <2>4 DEF PlaceInv
    <2> QED BY <2>1, <2>3, <2>4
  <1>8. CASE Rename(p)
    <2>1. \/ Exists(t) /\ box' = Renamed(t, p) /\ pc' = [pc EXCEPT ![p] = "create"]
          \/ box' = box /\ pc' = [pc EXCEPT ![p] = "undoStart"]
      <3>1. (Exists(t) /\ Free(p)) \in BOOLEAN BY <1>b
      <3>2. Call(p, Exists(t) /\ Free(p), Renamed(t, p), "create", "undoStart")
        BY <1>8 DEF Rename
      <3>3. \/ /\ (Exists(t) /\ Free(p)) /\ box' = Renamed(t, p)
               /\ pc' = [pc EXCEPT ![p] = "create"]
            \/ box' = box /\ pc' = [pc EXCEPT ![p] = "undoStart"]
        BY ONLY TypeInv, TypeInv', Mild', p \in Requests, <3>1, <3>2, CallMild
      <3> QED BY <3>3
    <2>2. pc[p] = "rename" BY <1>8 DEF Rename
    <2>3. CASE Exists(t) /\ box' = Renamed(t, p) /\ pc' = [pc EXCEPT ![p] = "create"]
      <3>1. /\ box'[t] = [box[t] EXCEPT !.name = p] /\ box[t] \in Boxes
            /\ \A i \in Ids \ {t} : box'[i] = box[i]
        BY <2>3 DEF Renamed, Exists
      <3>2. Exists(t)' /\ ~box'[t].up /\ box'[t].name = p /\ box[t].name = Service
        <4>1. box'[t] \in Boxes BY <3>1 DEF Boxes, Names
        <4>2. ~box[t].up /\ box[t].name = Service BY <2>2 DEF PlaceInv
        <4> QED BY <3>1, <4>1, <4>2 DEF Exists, Boxes
      <3>3. UpIsService' BY <3>1, <3>2 DEF UpIsService, Up, Exists
      <3>4. Free(Service)'
        <4>1. \A i \in Ids \ {t} : box[i] # None => box[i].name # Service
          BY <2>3, <3>2 DEF Exists, NamesUnique
        <4> QED BY <3>1, <3>2, <4>1 DEF Free, Exists
      <3>5. pc'[p] = "create" BY <2>3
      <3> QED BY <3>3, <3>4, <3>5 DEF PlaceInv
    <2>4. CASE box' = box /\ pc' = [pc EXCEPT ![p] = "undoStart"]
      BY <1>4, <2>2, <2>4 DEF PlaceInv
    <2> QED BY <2>1, <2>3, <2>4
  <1>9. CASE Create(p)
    <2>1. pc[p] = "create" /\ Free(Service) BY <1>9 DEF Create, PlaceInv
    <2>2. \/ box' = Created(p, Service, job[p].to) /\ pc' = [pc EXCEPT ![p] = "start"]
          \/ /\ box' = box /\ pc' = [pc EXCEPT ![p] = "undoRename"]
             /\ p \in canceled \/ hurt' = 1
      <3>1. Free(job[p].name) \in BOOLEAN BY DEF Free
      <3>2. Free(job[p].name) BY <2>1
      <3> QED BY <1>9, <3>1, <3>2, CallMild DEF Create
    <2>3. CASE box' = Created(p, Service, job[p].to) /\ pc' = [pc EXCEPT ![p] = "start"]
      <3>1. /\ box'[p] = [name |-> Service, image |-> job[p].to, up |-> FALSE]
            /\ \A i \in Ids \ {p} : box'[i] = box[i]
        BY <2>3 DEF Created
      <3>2. Exists(p)'
        <4>1. box'[p] \in Boxes BY <3>1 DEF Boxes, Jobs, Names
        <4> QED BY <4>1 DEF Exists
      <3>3. UpIsService' BY <3>1 DEF UpIsService, Up, Exists
      <3>4. OnlyNew(p)' BY <2>1, <3>1 DEF OnlyNew, Free, Exists
      <3> QED BY <2>3, <3>1, <3>2, <3>3, <3>4 DEF PlaceInv
    <2>4. CASE /\ box' = box /\ pc' = [pc EXCEPT ![p] = "undoRename"]
               /\ p \in canceled \/ hurt' = 1
      <3>1. Free(Service)' BY <2>1, <2>4 DEF Free, Exists
      <3> QED BY <1>4, <2>4, <3>1 DEF PlaceInv
    <2> QED BY <2>2, <2>3, <2>4
  <1>10. CASE Start(p)
    <2>1. pc[p] = "start" /\ OnlyNew(p) /\ Exists(p) /\ box[p].name = Service
      BY <1>10 DEF Start, PlaceInv
    <2>s. Startable(p)
      <3>1. \A j \in Up : j = p BY <1>0, <2>1 DEF UpIsService, OnlyNew, Up
      <3> QED BY <2>1, <3>1, StartableFacts
    <2>2. \/ box' = Started(p) /\ pc' = [pc EXCEPT ![p] = "health"]
          \/ /\ box' = box /\ pc' = [pc EXCEPT ![p] = "undoStop"]
             /\ p \in canceled \/ hurt' = 1
      BY <1>10, <2>s, StartableFacts, CallMild DEF Start
    <2>3. CASE box' = Started(p) /\ pc' = [pc EXCEPT ![p] = "health"]
      <3>1. /\ box'[p] = [box[p] EXCEPT !.up = TRUE] /\ box[p] \in Boxes
            /\ \A i \in Ids \ {p} : box'[i] = box[i]
        BY <2>1, <2>3 DEF Started, Exists
      <3>2. Exists(p)' /\ box'[p].up /\ box'[p].name = Service
        BY <2>1, <3>1 DEF Exists, Boxes
      <3>3. UpIsService' BY <3>1, <3>2 DEF UpIsService, Up, Exists
      <3>4. OnlyNew(p)' BY <2>1, <3>1 DEF OnlyNew, Exists
      <3> QED BY <2>3, <3>2, <3>3, <3>4 DEF PlaceInv
    <2>4. CASE /\ box' = box /\ pc' = [pc EXCEPT ![p] = "undoStop"]
               /\ p \in canceled \/ hurt' = 1
      <3>1. OnlyNew(p)' BY <2>1, <2>4 DEF OnlyNew, Exists
      <3> QED BY <1>4, <2>4, <3>1 DEF PlaceInv
    <2> QED BY <2>2, <2>3, <2>4
  <1>11. CASE Health(p)
    <2>1. pc[p] = "health" /\ OnlyNew(p) /\ Exists(p) /\ box[p].up
      BY <1>11 DEF Health, PlaceInv
    <2>2. "sick" \in Kinds BY DEF Kinds
    <2>3. /\ box' = box
          /\ \/ pc' = [pc EXCEPT ![p] = "remove"]
             \/ /\ pc' = [pc EXCEPT ![p] = "undoStop"]
                /\ p \in canceled \/ Mishap("sick")
      BY <1>11, <2>1 DEF Health, Goto
    <2>4. Mishap("sick") => hurt' = 1 BY <2>2, MishapMild
    <2>5. OnlyNew(p)' BY <2>1, <2>3 DEF OnlyNew, Exists
    <2> QED BY <1>4, <2>3, <2>4, <2>5 DEF PlaceInv
  <1>12. CASE Remove(p)
    <2>1. pc' = [pc EXCEPT ![p] = "record"] /\ (box' = box \/ box' = Removed(t))
      BY <1>12, <1>b, CallMild DEF Remove
    <2>2. ASSUME box' = Removed(t) PROVE UpIsService'
      BY <2>2 DEF Removed, UpIsService, Up, Exists
    <2> QED BY <1>4, <2>1, <2>2 DEF PlaceInv
  <1>13. CASE UndoStop(p)
    <2>1. /\ pc[p] = "undoStop" /\ OnlyNew(p) /\ (p \notin canceled => hurt >= 1)
      BY <1>13 DEF UndoStop, PlaceInv
    <2>2. /\ pc' = [pc EXCEPT ![p] = "undoRemove"]
          /\ box' = box \/ (Exists(p) /\ box' = Stopped(p))
      BY <1>13, <1>b, CallMild DEF UndoStop
    <2>3. CASE box' = box
      <3>1. OnlyNew(p)' BY <2>1, <2>3 DEF OnlyNew, Exists
      <3> QED BY <1>4, <2>1, <2>2, <2>3, <3>1 DEF PlaceInv
    <2>4. CASE Exists(p) /\ box' = Stopped(p)
      <3>1. /\ box'[p] = [box[p] EXCEPT !.up = FALSE] /\ box[p] \in Boxes
            /\ \A i \in Ids \ {p} : box'[i] = box[i]
        BY <2>4 DEF Stopped, Exists
      <3>2. ~box'[p].up BY <3>1 DEF Boxes
      <3>3. UpIsService' BY <3>1, <3>2 DEF UpIsService, Up, Exists
      <3>4. OnlyNew(p)' BY <2>1, <3>1 DEF OnlyNew, Exists
      <3> QED BY <2>1, <2>2, <3>3, <3>4 DEF PlaceInv
    <2> QED BY <2>2, <2>3, <2>4
  <1>14. CASE UndoRemove(p)
    <2>1. /\ pc[p] = "undoRemove" /\ OnlyNew(p) /\ (p \notin canceled => hurt >= 1)
      BY <1>14 DEF UndoRemove, PlaceInv
    <2>2. /\ pc' = [pc EXCEPT ![p] = "undoRename"]
          /\ \/ box' = Removed(p)
             \/ box' = box /\ (p \in canceled \/ ~Exists(p))
      BY <1>14, <1>b, <2>1, CallMild DEF UndoRemove
    <2>3. UpIsService'
      <3>1. CASE box' = Removed(p) BY <3>1 DEF Removed, UpIsService, Up, Exists
      <3> QED BY <1>4, <2>2, <3>1
    <2>4. p \notin canceled => Free(Service)'
      <3>1. CASE box' = Removed(p) BY <2>1, <3>1 DEF Removed, OnlyNew, Free, Exists
      <3>2. CASE box' = box /\ ~Exists(p) BY <2>1, <3>2 DEF OnlyNew, Free, Exists
      <3> QED BY <2>2, <3>1, <3>2
    <2> QED BY <2>1, <2>2, <2>3, <2>4 DEF PlaceInv
  <1>15. CASE UndoRename(p)
    <2>1. /\ pc[p] = "undoRename"
          /\ p \notin canceled => Free(Service) /\ hurt >= 1
      BY <1>15 DEF UndoRename, PlaceInv
    <2>2. /\ pc' = [pc EXCEPT ![p] = "undoStart"]
          /\ \/ Exists(t) /\ box' = Renamed(t, job[p].name)
             \/ box' = box /\ (p \in canceled \/ ~Exists(t))
      <3>1. (Exists(t) /\ Free(job[p].name)) \in BOOLEAN BY DEF Exists, Free
      <3>2. p \notin canceled => Free(job[p].name) BY <2>1
      <3>3. /\ pc' = [pc EXCEPT ![p] = "undoStart"]
            /\ \/ (Exists(t) /\ Free(job[p].name)) /\ box' = Renamed(t, job[p].name)
               \/ p \notin canceled /\ box' = box /\ hurt = 0
               \/ (~(Exists(t) /\ Free(job[p].name)) \/ p \in canceled) /\ box' = box
        BY <1>15, <3>1, CallMild DEF UndoRename
      <3> QED BY <2>1, <3>2, <3>3
    <2>3. CASE Exists(t) /\ box' = Renamed(t, job[p].name)
      <3>1. /\ box'[t] = [box[t] EXCEPT !.name = Service] /\ box[t] \in Boxes
            /\ \A i \in Ids \ {t} : box'[i] = box[i]
        BY <2>3 DEF Renamed, Exists
      <3>2. box'[t].name = Service BY <3>1 DEF Boxes
      <3>3. UpIsService' BY <3>1, <3>2 DEF UpIsService, Up, Exists
      <3> QED BY <2>2, <3>2, <3>3 DEF PlaceInv
    <2>4. CASE box' = box /\ (p \in canceled \/ ~Exists(t))
      <3>1. p \notin canceled => ~Exists(t)' BY <2>4 DEF Exists
      <3> QED BY <1>4, <2>2, <2>4, <3>1 DEF PlaceInv
    <2> QED BY <2>2, <2>3, <2>4
  <1>16. CASE UndoStart(p)
    <2>1. pc[p] = "undoStart" /\ (p \notin canceled /\ Exists(t) => box[t].name = Service)
      BY <1>16 DEF UndoStart, PlaceInv
    <2>2. /\ pc' = [pc EXCEPT ![p] = "fail"]
          /\ box' = box \/ (Exists(t) /\ p \notin canceled /\ box' = Started(t))
      BY <1>16, StartableFacts, CallMild DEF UndoStart
    <2>3. ASSUME Exists(t), p \notin canceled, box' = Started(t) PROVE UpIsService'
      <3>1. /\ box'[t] = [box[t] EXCEPT !.up = TRUE] /\ box[t] \in Boxes
            /\ \A i \in Ids \ {t} : box'[i] = box[i]
        BY <2>3 DEF Started, Exists
      <3>2. box'[t].name = Service BY <2>1, <2>3, <3>1 DEF Boxes
      <3> QED BY <3>1, <3>2 DEF UpIsService, Up, Exists
    <2> QED BY <1>4, <2>2, <2>3 DEF PlaceInv
  <1>17. ~Inspect(p) BY DEF Inspect
  <1> QED BY <1>5, <1>6, <1>7, <1>8, <1>9, <1>10, <1>11, <1>12, <1>13, <1>14, <1>15, <1>16,
             <1>17 DEF Step

LEMMA NextSaga ==
  ASSUME SagaInv, [Next]_vars
  PROVE  SagaInv'
  <1>0. TypeInv /\ TypeInv' /\ NamesUnique BY NextTypes DEF SagaInv
  <1>1. ASSUME NEW p \in Requests, Step(p) PROVE SagaInv'
    <2>1. /\ Active' \subseteq Active
          /\ \A k \in Kinds : used'[k] >= used[k]
      BY <1>0, <1>1, StepFrame
    <2>2. used'["overlap"] = 0 => used["overlap"] = 0
      BY <1>0, <2>1 DEF Kinds, TypeInv, TypeOK
    <2>3. Alone' BY <2>1, <2>2 DEF SagaInv, Alone
    <2> QED BY <1>0, <1>1, <2>3, StepNames, StepCore DEF SagaInv
  <1>2. ASSUME NEW p \in Requests, NEW i \in Ids, NEW v \in Versions, UpdateContainer(p, i, v)
        PROVE  SagaInv'
    <2> DEFINE K == IF box[i].name = Service THEN {} ELSE {"stray"}
    <2>1. Begin(K) /\ box' = box /\ canceled' = canceled
          /\ pc' = [pc EXCEPT ![p] = "queued"] /\ pc[p] = "idle"
      BY <1>2 DEF UpdateContainer, Goto
    <2>2. /\ \A k \in Kinds : used'[k] >= used[k]
          /\ \A k \in Kinds \cap (Overlaps \cup K) : used'[k] # 0
          /\ hurt = 2 => hurt' = 2
      BY <1>0, <2>1, BeginFacts DEF TypeInv
    <2>3. NamesUnique' BY <1>0, <2>1 DEF NamesUnique, Exists
    <2>4. used'["overlap"] = 0 => Active = {}
      BY <2>2 DEF Overlaps, Kinds
    <2>5. used'["stray"] = 0 => box[i].name = Service
      BY <2>2 DEF Kinds
    <2>6. Active = {} => Active' = {p}
      BY <1>0, <2>1 DEF Active, TypeInv, TypeOK
    <2>7. Alone' BY <2>4, <2>6 DEF Alone
    <2>8. ASSUME Mild' PROVE Core'
      <3>1. Mild BY <1>0, <2>2, <2>8, MildBefore
      <3>2. used'["overlap"] = 0 /\ used'["stray"] = 0 BY <2>8 DEF Mild, Without
      <3>3. UpIsService' BY <2>1, <3>1 DEF SagaInv, Core, UpIsService, Up, Exists
      <3>4. job'[p] = [kind |-> "update", of |-> p, target |-> i, name |-> box[i].name,
                       from |-> box[i].image, to |-> v]
        BY <1>0, <1>2 DEF UpdateContainer, TypeInv, TypeOK
      <3>5. Exists(i)' /\ box'[i].name = Service
        BY <1>2, <2>1, <2>5, <3>2 DEF UpdateContainer, Exists
      <3>6. pc'[p] = "queued" BY <1>0, <2>1 DEF TypeInv, TypeOK
      <3>7. PlaceInv(p)'
        BY <2>1, <3>4, <3>5, <3>6 DEF PlaceInv, Updating
      <3> QED BY <2>4, <2>6, <3>2, <3>3, <3>7 DEF Core
    <2> QED BY <1>0, <2>3, <2>7, <2>8 DEF SagaInv
  <1>3. ASSUME NEW p \in Requests, NEW u \in Requests, RollbackUpdate(p, u) PROVE SagaInv'
    <2>1. Begin({"rollback"}) /\ box' = box
          /\ pc' = [pc EXCEPT ![p] = "prepare"] /\ pc[p] = "idle"
      BY <1>3 DEF RollbackUpdate, Goto
    <2>2. \A k \in Kinds \cap (Overlaps \cup {"rollback"}) : used'[k] # 0
      BY <1>0, <2>1, BeginFacts DEF TypeInv
    <2>3. NamesUnique' BY <1>0, <2>1 DEF NamesUnique, Exists
    <2>4. used'["overlap"] = 0 => Active = {} BY <2>2 DEF Overlaps, Kinds
    <2>5. Active = {} => Active' = {p}
      BY <1>0, <2>1 DEF Active, TypeInv, TypeOK
    <2>6. ~Mild' BY <2>2 DEF Mild, Without, Kinds
    <2> QED BY <1>0, <2>3, <2>4, <2>5, <2>6 DEF SagaInv, Alone
  <1>4. ASSUME NEW p \in Requests, Cancel(p) PROVE SagaInv'
    <2>1. Mishap("cancel") /\ UNCHANGED <<box, pc, job>> /\ canceled \subseteq canceled'
      BY <1>4 DEF Cancel
    <2>2. /\ \A k \in Kinds : used'[k] >= used[k]
          /\ hurt' >= hurt /\ (hurt = 2 => hurt' = 2)
      BY <1>0, <2>1, MishapGrows DEF Kinds
    <2>3. Active' = Active BY <2>1 DEF Active
    <2>4. NamesUnique' BY <1>0, <2>1 DEF NamesUnique, Exists
    <2>5. used'["overlap"] = 0 => used["overlap"] = 0
      BY <1>0, <2>2 DEF Kinds, TypeInv, TypeOK
    <2>6. ASSUME Mild' PROVE Core'
      <3>1. Mild /\ hurt \in Nat /\ hurt' \in Nat
        BY <1>0, <2>2, <2>6, MildBefore
      <3>2. UpIsService' BY <2>1, <3>1 DEF SagaInv, Core, UpIsService, Up, Exists
      <3>3. ASSUME NEW q \in Active PROVE PlaceInv(q)'
        <4>1. PlaceInv(q) BY <3>1, <3>3 DEF SagaInv, Core
        <4>2. /\ Free(Service)' = Free(Service) /\ OnlyNew(q)' = OnlyNew(q)
              /\ Updating(q)' = Updating(q)
          BY <2>1 DEF Free, OnlyNew, Exists, Updating
        <4> QED BY <2>1, <2>2, <3>1, <4>1, <4>2 DEF PlaceInv, Exists
      <3> QED BY <2>3, <3>2, <3>3 DEF Core
    <2> QED BY <1>0, <2>3, <2>4, <2>5, <2>6 DEF SagaInv, Alone
  <1>5. CASE Crash
    <2>1. Mishap("crash") /\ UNCHANGED box BY <1>5 DEF Crash
    <2>2. /\ \A k \in Kinds : used'[k] >= used[k]
          /\ hurt = 2 => hurt' = 2
      BY <1>0, <2>1, MishapGrows DEF Kinds
    <2>3. Active' = {} BY <1>5 DEF Crash, Active
    <2>4. NamesUnique' BY <1>0, <2>1 DEF NamesUnique, Exists
    <2>5. ASSUME Mild' PROVE Core'
      <3>1. Mild BY <1>0, <2>2, <2>5, MildBefore
      <3> QED BY <2>1, <2>3, <3>1 DEF SagaInv, Core, UpIsService, Up, Exists
    <2> QED BY <1>0, <2>3, <2>4, <2>5 DEF SagaInv, Alone
  <1>6. CASE UNCHANGED vars
    <2>1. UNCHANGED <<box, pc, job, canceled, used, hurt>> BY <1>6 DEF vars
    <2>2. NamesUnique' /\ Active' = Active /\ hurt' = hurt
      BY <1>0, <2>1 DEF NamesUnique, Exists, Active
    <2>3. Alone' BY <2>1, <2>2 DEF SagaInv, Alone
    <2>4. Mild' => Mild BY <2>1, <2>2 DEF Mild, Without
    <2>5. ASSUME Core PROVE Core'
      <3>1. UpIsService' BY <2>1, <2>5 DEF Core, UpIsService, Up, Exists
      <3>2. ASSUME NEW q \in Active PROVE PlaceInv(q)'
        <4>1. PlaceInv(q) BY <2>5, <3>2 DEF Core
        <4>2. /\ Free(Service)' = Free(Service) /\ OnlyNew(q)' = OnlyNew(q)
              /\ Updating(q)' = Updating(q)
          BY <2>1 DEF Free, OnlyNew, Exists, Updating
        <4> QED BY <2>1, <2>2, <4>1, <4>2 DEF PlaceInv, Exists
      <3> QED BY <2>2, <3>1, <3>2 DEF Core
    <2> QED BY <1>0, <2>2, <2>3, <2>4, <2>5 DEF SagaInv
  <1> QED BY <1>1, <1>2, <1>3, <1>4, <1>5, <1>6 DEF Next

LEMMA InitSaga == Init => SagaInv
  <1> SUFFICES ASSUME Init PROVE SagaInv OBVIOUS
  <1>1. Active = {} BY DEF Init, Active
  <1>2. \A i \in Ids : Exists(i) => i = First /\ box[i].name = Service
    BY DEF Init, Exists
  <1>3. NamesUnique BY <1>2 DEF NamesUnique
  <1>4. UpIsService BY <1>2 DEF UpIsService, Up
  <1> QED BY <1>1, <1>3, <1>4, InitTypes DEF SagaInv, Alone, Core

\* The old and the new container of an update never run together, with any number
\* of updates one after the other, of any versions, and in each of them one refused
\* call, sick container, cancelled request or crash anywhere in executeUpdate or
\* rollbackContainer: both would need the service's name.
THEOREM NewAndOldNeverTogether == Spec => []NeverTwoRun
  <1>1. SagaInv => NeverTwoRun
    <2> SUFFICES ASSUME SagaInv, Mild PROVE \A i, j \in Up : i = j
      BY DEF NeverTwoRun, Mild
    <2> QED BY DEF SagaInv, Core, UpIsService, NamesUnique, Up
  <1> QED BY <1>1, InitSaga, NextSaga, PTL DEF Spec
--------------------------------------------------------------------------------
(* What the calls to Docker do to a container *)

\* A stop, a start and a change of the name leave the rest of the container, and
\* every other container, as they were.
LEMMA PointEffects ==
  ASSUME TypeInv, NEW i \in Ids, Exists(i), NEW n \in Names,
         box' \in {Stopped(i), Started(i), Renamed(i, n)}
  PROVE  /\ Exists(i)' /\ box'[i].image = box[i].image
         /\ \A j \in Ids \ {i} : box'[j] = box[j]
         /\ \A j \in Ids : Exists(j)' <=> Exists(j)
         /\ box' = Stopped(i) => ~box'[i].up /\ box'[i].name = box[i].name
         /\ box' = Started(i) => box'[i].up /\ box'[i].name = box[i].name
         /\ box' = Renamed(i, n) => box'[i].up = box[i].up /\ box'[i].name = n
  <1>1. /\ box \in [Ids -> Boxes \cup {None}] /\ box[i] \in Boxes /\ None \notin Boxes
    BY UpdateAssumption DEF TypeInv, TypeOK, Exists
  <1>2. CASE box' = Stopped(i)
    <2>1. box' = [box EXCEPT ![i] = [box[i] EXCEPT !.up = FALSE]]
      BY <1>2 DEF Stopped
    <2>2. [box[i] EXCEPT !.up = FALSE] \in Boxes BY <1>1 DEF Boxes
    <2>3. box'[i] = [box[i] EXCEPT !.up = FALSE] /\ \A j \in Ids \ {i} : box'[j] = box[j]
      BY <1>1, <2>1
    <2>4. /\ ~box'[i].up /\ box'[i].name = box[i].name /\ box'[i].image = box[i].image
      BY <1>1, <2>3 DEF Boxes
    <2>6. box' = Started(i) => box'[i].up
      BY <1>1 DEF Started, Boxes
    <2>7. box' = Renamed(i, n) => box'[i].up = box[i].up /\ box'[i].name = n
      BY <1>1 DEF Renamed, Boxes
    <2> QED BY <1>1, <2>2, <2>3, <2>4, <2>6, <2>7 DEF Exists
  <1>3. CASE box' = Started(i)
    <2>1. box' = [box EXCEPT ![i] = [box[i] EXCEPT !.up = TRUE]]
      BY <1>3 DEF Started
    <2>2. [box[i] EXCEPT !.up = TRUE] \in Boxes BY <1>1 DEF Boxes
    <2>3. box'[i] = [box[i] EXCEPT !.up = TRUE] /\ \A j \in Ids \ {i} : box'[j] = box[j]
      BY <1>1, <2>1
    <2>4. box'[i].up /\ box'[i].name = box[i].name /\ box'[i].image = box[i].image
      BY <1>1, <2>3 DEF Boxes
    <2>6. box' = Stopped(i) => ~box'[i].up
      BY <1>1 DEF Stopped, Boxes
    <2>7. box' = Renamed(i, n) => box'[i].up = box[i].up /\ box'[i].name = n
      BY <1>1 DEF Renamed, Boxes
    <2> QED BY <1>1, <2>2, <2>3, <2>4, <2>6, <2>7 DEF Exists
  <1>4. CASE box' = Renamed(i, n)
    <2>1. box' = [box EXCEPT ![i] = [box[i] EXCEPT !.name = n]]
      BY <1>4 DEF Renamed
    <2>2. [box[i] EXCEPT !.name = n] \in Boxes BY <1>1 DEF Boxes
    <2>3. box'[i] = [box[i] EXCEPT !.name = n] /\ \A j \in Ids \ {i} : box'[j] = box[j]
      BY <1>1, <2>1
    <2>4. box'[i].up = box[i].up /\ box'[i].name = n /\ box'[i].image = box[i].image
      BY <1>1, <2>3 DEF Boxes
    <2>6. box' = Stopped(i) => ~box'[i].up /\ box'[i].name = box[i].name
      BY <1>1 DEF Stopped, Boxes
    <2>7. box' = Started(i) => box'[i].up /\ box'[i].name = box[i].name
      BY <1>1 DEF Started, Boxes
    <2> QED BY <1>1, <2>2, <2>3, <2>4, <2>6, <2>7 DEF Exists
  <1> QED BY <1>2, <1>3, <1>4

\* A new container is stopped and has the name and the image asked for.
LEMMA PointCreated ==
  ASSUME TypeInv, NEW i \in Ids, NEW n \in Names, NEW v \in Versions, box' = Created(i, n, v)
  PROVE  /\ Exists(i)' /\ ~box'[i].up /\ box'[i].name = n /\ box'[i].image = v
         /\ \A j \in Ids \ {i} : box'[j] = box[j]
  <1>1. box \in [Ids -> Boxes \cup {None}] /\ None \notin Boxes
    BY UpdateAssumption DEF TypeInv, TypeOK
  <1>2. /\ box'[i] = [name |-> n, image |-> v, up |-> FALSE]
        /\ \A j \in Ids \ {i} : box'[j] = box[j]
    BY <1>1 DEF Created
  <1>3. box'[i] \in Boxes BY <1>2 DEF Boxes
  <1>4. ~box'[i].up /\ box'[i].name = n /\ box'[i].image = v BY <1>2
  <1>5. Exists(i)' BY <1>1, <1>3 DEF Exists
  <1> QED BY <1>2, <1>4, <1>5

\* A container that is removed is gone, and no other is.
LEMMA PointRemoved ==
  ASSUME TypeInv, NEW i \in Ids, box' = Removed(i)
  PROVE  ~Exists(i)' /\ \A j \in Ids \ {i} : box'[j] = box[j]
  BY DEF TypeInv, TypeOK, Removed, Exists

\* What a step of a request can do to the containers: it creates its own, and
\* touches that and its target.
LEMMA StepBoxes ==
  ASSUME TypeInv, NEW p \in Requests, Step(p)
  PROVE  /\ p \in Ids /\ job[p].target \in Ids /\ job[p].name \in Names
         /\ job[p].to \in Versions
         /\ \/ box' = box
            \/ Exists(p) /\ box' \in {Stopped(p), Started(p)}
            \/ box' = Removed(p)
            \/ /\ Exists(job[p].target)
               /\ box' \in {Stopped(job[p].target), Started(job[p].target)}
            \/ box' = Removed(job[p].target)
            \/ /\ Exists(job[p].target)
               /\ \E n \in {p, job[p].name} : Free(n) /\ box' = Renamed(job[p].target, n)
            \/ pc[p] = "create" /\ box' = Created(p, job[p].name, job[p].to)
  <1>1. /\ p \in Ids /\ job[p].target \in Ids /\ job[p].name \in Names
        /\ job[p].to \in Versions
    BY StepFrame DEF Active, Ids, TypeInv, TypeOK, JobsKnown, Jobs
  <1> QED
    BY <1>1, StartableFacts
       DEF Step, Acquire, GiveUp, DryRun, Inspect, Prepare, Restore, Stop, Rename,
           Create, Start, Health, Remove, Record, UndoStop, UndoRemove, UndoRename,
           UndoStart, Fail, Call

\* No container has been created under the ID of a request that has not begun,
\* nor been given the backup name of that request.
Unborn(q) == ~Exists(q) /\ Free(q)

\* A step of one request for the service leaves the IDs and names of others alone.
LEMMA StepUnborn ==
  ASSUME TypeInv, NEW p \in Requests, Step(p), NEW q \in Requests, q # p, Unborn(q),
         job[p].name # q
  PROVE  Unborn(q)'
  <1> DEFINE t == job[p].target
  <1>1. /\ p \in Ids /\ t \in Ids /\ job[p].name \in Names /\ job[p].to \in Versions
        /\ q \in Ids /\ p \in Names
    BY StepBoxes DEF Ids, Names
  <1>2. ~Exists(q) /\ \A j \in Ids : Exists(j) => box[j].name # q
    BY DEF Unborn, Free
  <1>3. SUFFICES ~Exists(q)' /\ \A j \in Ids : Exists(j)' => box'[j].name # q
    BY DEF Unborn, Free
  <1>4. CASE box' = box BY <1>2, <1>4 DEF Exists
  <1>5. ASSUME NEW i \in {p, t}, Exists(i), box' \in {Stopped(i), Started(i)} PROVE <1>3!1
    BY <1>1, <1>2, <1>5, PointEffects DEF Exists
  <1>6. ASSUME NEW i \in {p, t}, box' = Removed(i) PROVE <1>3!1
    BY <1>1, <1>2, <1>6, PointRemoved DEF Exists
  <1>7. ASSUME Exists(t), NEW n \in {p, job[p].name}, box' = Renamed(t, n) PROVE <1>3!1
    BY <1>1, <1>2, <1>7, PointEffects DEF Exists
  <1>8. CASE box' = Created(p, job[p].name, job[p].to)
    BY <1>1, <1>2, <1>8, PointCreated DEF Exists
  <1> QED BY <1>4, <1>5, <1>6, <1>7, <1>8, StepBoxes
--------------------------------------------------------------------------------
(* The service survives one mishap *)

\* The hypothesis of ServiceSurvives.
Benign == Without(Kinds \ {"refused", "sick"}) /\ hurt < 2

Serving(i, v) == Exists(i) /\ box[i].up /\ box[i].name = Service /\ box[i].image = v

Runs == \E i \in Ids : Serving(i, promised)

\* The old container, stopped and with all that it takes to serve again.
Kept(i) == Exists(i) /\ ~box[i].up /\ box[i].image = promised

\* What is there at each place of a request that must be answered with the
\* service running: until the new container is seen to be healthy the old one is
\* kept, and when it is put back the one mishap has been used up.
Hold(p) ==
    LET t == job[p].target IN
    /\ t # p
    /\ pc[p] \in {"queued", "prepare", "stop"} => Serving(t, promised) /\ Unborn(p)
    /\ pc[p] = "rename" => Kept(t) /\ Unborn(p)
    /\ pc[p] \in {"create", "start", "health", "undoStop", "undoRemove", "undoRename",
                  "undoStart"} => Kept(t)
    /\ pc[p] = "create" => ~Exists(p)
    /\ pc[p] \in {"start", "health", "undoStop", "undoRemove"} => Exists(p)
    /\ pc[p] \in {"start", "health"} => box[p].image = job[p].to
    /\ pc[p] \in {"remove", "record"} => Serving(p, job[p].to)
    /\ pc[p] = "undoStart" => hurt >= 1
    /\ pc[p] = "fail" => Runs

Lasts ==
    /\ canceled = {}
    /\ \A q \in Requests : pc[q] = "idle" => Unborn(q)
    /\ Active = {} => Runs
    /\ \A p \in Active : Hold(p)

\* The inductive invariant: SagaInv says what has the service's name, and Lasts
\* which container can still serve.
SurviveInv == SagaInv /\ (Benign => Lasts)

\* A benign state is mild, and comes from a benign one.
LEMMA BenignBefore ==
  ASSUME TypeInv, TypeInv', \A k \in Kinds : used'[k] >= used[k], hurt = 2 => hurt' = 2,
         Benign'
  PROVE  Benign /\ Mild'
  <1>1. /\ \A k \in Kinds : used[k] \in Nat /\ used'[k] \in Nat
        /\ hurt \in 0..2 /\ hurt' \in 0..2
    BY DEF TypeInv, TypeOK
  <1>2. /\ \A k \in Kinds \ {"refused", "sick"} : used'[k] = 0
        /\ hurt' < 2
    BY DEF Benign, Without
  <1>3. \A k \in Kinds \ {"refused", "sick"} : used[k] = 0 BY <1>1, <1>2
  <1>4. hurt < 2 BY <1>1, <1>2
  <1>5. \A k \in {"overlap", "stray", "rollback", "lost"} : used'[k] = 0
    BY <1>2 DEF Kinds
  <1> QED BY <1>2, <1>3, <1>4, <1>5 DEF Benign, Mild, Without

\* One step of the one request that is served, while the counts stay benign.
LEMMA StepLasts ==
  ASSUME SagaInv, TypeInv', Benign', Lasts, NEW p \in Requests, Step(p)
  PROVE  Lasts'
  <1>0. /\ p \in Active /\ Active' \subseteq {p} /\ canceled' = canceled /\ canceled = {}
        /\ PlaceInv(p) /\ Hold(p) /\ job' = job /\ Mild'
        /\ UpIsService /\ NamesUnique
        /\ hurt \in Nat /\ hurt' \in Nat /\ hurt <= hurt'
    <2>1. /\ p \in Active /\ Active' \subseteq Active /\ canceled' = canceled
          /\ \A k \in Kinds : used'[k] >= used[k]
          /\ hurt' >= hurt /\ (hurt = 2 => hurt' = 2)
          /\ job' = job \/ pc[p] = "inspect"
      BY StepFrame DEF SagaInv
    <2>2. Mild' BY <2>1, BenignBefore DEF SagaInv
    <2>3. Mild /\ used["overlap"] = 0 /\ hurt \in Nat /\ hurt' \in Nat /\ hurt <= hurt'
      BY <2>1, <2>2, MildBefore DEF SagaInv
    <2>4. PlaceInv(p) /\ UpIsService /\ NamesUnique
      BY <2>1, <2>3 DEF SagaInv, Core
    <2>5. Active \subseteq {p} BY <2>1, <2>3 DEF SagaInv, Alone
    <2> QED BY <2>1, <2>2, <2>3, <2>4, <2>5 DEF Lasts, PlaceInv
  <1> DEFINE t == job[p].target
  <1>1. /\ p \in Ids /\ t \in Ids /\ t # p /\ p \in Names /\ Service \in Names
        /\ job[p].to \in Versions
        /\ pc \in [Requests -> Places] /\ TypeInv /\ None \notin Boxes
        /\ box \in [Ids -> Boxes \cup {None}]
    BY <1>0, StepBoxes, UpdateAssumption DEF Hold, Names, SagaInv, TypeInv, TypeOK
  <1>2. /\ Updating(p) /\ job[p].name = Service /\ t' = t /\ job'[p].to = job[p].to
    BY <1>0 DEF PlaceInv
  <1>3. ASSUME NEW q \in Requests, pc'[q] = "idle" PROVE Unborn(q)'
    <2>1. \E l : pc' = [pc EXCEPT ![p] = l]
      BY DEF Step, Acquire, GiveUp, DryRun, Inspect, Prepare, Restore, Stop, Rename,
             Create, Start, Health, Remove, Record, UndoStop, UndoRemove, UndoRename,
             UndoStart, Fail, Call, Goto
    <2>2. pc'[p] # "idle"
      BY <1>0, <1>1 DEF Active, Step, Acquire, GiveUp, DryRun, Inspect, Prepare, Restore,
             Stop, Rename, Create, Start, Health, Remove, Record, UndoStop, UndoRemove,
             UndoRename, UndoStart, Fail, Call, Goto
    <2>3. q # p /\ pc[q] = "idle" BY <1>1, <1>3, <2>1, <2>2
    <2>4. q # Service BY UpdateAssumption
    <2> QED BY <1>1, <1>2, <2>3, <2>4, StepUnborn DEF Lasts
  <1>4. SUFFICES IF p \in Active' THEN Hold(p)' ELSE Runs'
    <2>1. p \in Active' => Hold(p)' BY <1>4
    <2>2. Active' = {} => Runs' BY <1>4
    <2> QED BY <1>0, <1>3, <2>1, <2>2 DEF Lasts
  <1>5. ASSUME NEW l \in Places \ {"idle", "ended"}, pc' = [pc EXCEPT ![p] = l]
        PROVE  p \in Active' /\ pc'[p] = l
    BY <1>1, <1>5 DEF Active
  <1>6. ASSUME box' = box, promised' = promised
        PROVE  /\ \A v \in Versions, i \in Ids : Serving(i, v)' <=> Serving(i, v)
               /\ Kept(t)' <=> Kept(t)
               /\ Unborn(p)' <=> Unborn(p)
               /\ Exists(p)' <=> Exists(p)
               /\ Runs' <=> Runs
               /\ Serving(t, promised)' <=> Serving(t, promised)
    <2>1. \A i \in Ids : Exists(i)' <=> Exists(i) BY <1>6 DEF Exists
    <2>2. Unborn(p)' <=> Unborn(p) BY <1>1, <1>6, <2>1 DEF Unborn, Free
    <2> QED BY <1>0, <1>1, <1>2, <1>6, <2>1, <2>2 DEF Serving, Kept, Runs
  <1>c. /\ ~Mishap("lost")
        /\ Mishap("refused") => hurt = 0 /\ hurt' = 1
    <2>1. "lost" \in Kinds /\ "refused" \in Kinds BY DEF Kinds
    <2> QED BY <1>0, <1>1, <2>1, MishapMild
  <1> USE <1>0, <1>1, <1>2
  <1>7. CASE Acquire(p) \/ Prepare(p) \/ Restore(p)
    <2>1. /\ box' = box /\ promised' = promised /\ pc[p] \in {"queued", "prepare"}
          /\ \/ pc' = [pc EXCEPT ![p] = "prepare"]
             \/ pc' = [pc EXCEPT ![p] = "stop"]
             \/ pc' = [pc EXCEPT ![p] = "fail"]
      BY <1>7 DEF Acquire, Prepare, Restore, Call, Goto
    <2>2. Serving(t, promised) /\ Unborn(p) BY <2>1 DEF Hold
    <2>3. p \in Active' /\ pc'[p] \in {"prepare", "stop", "fail"}
      BY <1>5, <2>1 DEF Places, Forward, Undo
    <2>4. Serving(t, promised)' /\ Unborn(p)' /\ Runs'
      BY <1>6, <2>1, <2>2 DEF Runs
    <2> QED BY <2>3, <2>4 DEF Hold
  <1>8. CASE GiveUp(p) \/ DryRun(p) \/ Fail(p)
    <2>1. /\ box' = box /\ promised' = promised /\ pc[p] \in {"queued", "fail"}
          /\ p \notin Active'
      BY <1>8 DEF GiveUp, DryRun, Fail, Goto, Active
    <2>2. Runs BY <2>1 DEF Hold, Runs
    <2> QED BY <1>6, <2>1, <2>2
  <1>9. CASE Stop(p)
    <2>1. pc[p] = "stop" /\ promised' = promised BY <1>9 DEF Stop
    <2>2. Serving(t, promised) /\ Unborn(p) /\ Exists(t) BY <2>1 DEF Hold, Serving
    <2>3. \/ box' = Stopped(t) /\ pc' = [pc EXCEPT ![p] = "rename"]
          \/ box' = box /\ pc' = [pc EXCEPT ![p] = "fail"]
      BY <1>9, <1>c, <2>2 DEF Stop, Call, Goto
    <2>4. CASE box' = Stopped(t) /\ pc' = [pc EXCEPT ![p] = "rename"]
      <3>1. p \in Active' /\ pc'[p] = "rename" BY <1>5, <2>4 DEF Places, Forward
      <3>2. /\ Exists(t)' /\ ~box'[t].up /\ box'[t].image = box[t].image
            /\ box'[t].name = box[t].name
            /\ \A j \in Ids \ {t} : box'[j] = box[j]
        BY <2>2, <2>4, PointEffects
      <3>3. Kept(t)' BY <2>1, <2>2, <3>2 DEF Kept, Serving
      <3>4. Unborn(p)' BY <2>2, <3>2 DEF Unborn, Free, Exists
      <3> QED BY <3>1, <3>3, <3>4 DEF Hold
    <2>5. CASE box' = box /\ pc' = [pc EXCEPT ![p] = "fail"]
      <3>1. p \in Active' /\ pc'[p] = "fail" BY <1>5, <2>5 DEF Places, Undo
      <3>2. Runs' BY <1>6, <2>1, <2>2, <2>5 DEF Runs
      <3> QED BY <3>1, <3>2 DEF Hold
    <2> QED BY <2>3, <2>4, <2>5
  <1>10. CASE Rename(p)
    <2>1. pc[p] = "rename" /\ promised' = promised BY <1>10 DEF Rename
    <2>2. Kept(t) /\ Unborn(p) /\ Exists(t) /\ Free(p) BY <2>1 DEF Hold, Kept, Unborn
    <2>3. \/ box' = Renamed(t, p) /\ pc' = [pc EXCEPT ![p] = "create"]
          \/ box' = box /\ pc' = [pc EXCEPT ![p] = "undoStart"] /\ hurt' = 1
      BY <1>10, <1>c, <2>2 DEF Rename, Call, Goto
    <2>4. CASE box' = Renamed(t, p) /\ pc' = [pc EXCEPT ![p] = "create"]
      <3>1. p \in Active' /\ pc'[p] = "create" BY <1>5, <2>4 DEF Places, Forward
      <3>2. /\ Exists(t)' /\ box'[t].up = box[t].up /\ box'[t].image = box[t].image
            /\ \A j \in Ids \ {t} : box'[j] = box[j]
        BY <2>2, <2>4, PointEffects
      <3>3. Kept(t)' BY <2>1, <2>2, <3>2 DEF Kept
      <3>4. ~Exists(p)' BY <2>2, <3>2 DEF Unborn, Exists
      <3> QED BY <3>1, <3>3, <3>4 DEF Hold
    <2>5. CASE box' = box /\ pc' = [pc EXCEPT ![p] = "undoStart"] /\ hurt' = 1
      <3>1. p \in Active' /\ pc'[p] = "undoStart" BY <1>5, <2>5 DEF Places, Undo
      <3>2. Kept(t)' BY <1>6, <2>1, <2>2, <2>5
      <3> QED BY <2>5, <3>1, <3>2 DEF Hold
    <2> QED BY <2>3, <2>4, <2>5
  <1>11. CASE Create(p)
    <2>1. pc[p] = "create" /\ promised' = promised /\ Free(job[p].name)
      BY <1>11 DEF Create, PlaceInv
    <2>2. Kept(t) /\ ~Exists(p) BY <2>1 DEF Hold
    <2>3. \/ box' = Created(p, Service, job[p].to) /\ pc' = [pc EXCEPT ![p] = "start"]
          \/ box' = box /\ pc' = [pc EXCEPT ![p] = "undoRename"]
      BY <1>11, <1>c, <2>1 DEF Create, Call, Goto
    <2>4. CASE box' = Created(p, Service, job[p].to) /\ pc' = [pc EXCEPT ![p] = "start"]
      <3>1. p \in Active' /\ pc'[p] = "start" BY <1>5, <2>4 DEF Places, Forward
      <3>2. /\ Exists(p)' /\ box'[p].image = job[p].to
            /\ \A j \in Ids \ {p} : box'[j] = box[j]
        BY <2>4, PointCreated
      <3>3. Kept(t)' BY <2>1, <2>2, <3>2 DEF Kept, Exists
      <3> QED BY <3>1, <3>2, <3>3 DEF Hold
    <2>5. CASE box' = box /\ pc' = [pc EXCEPT ![p] = "undoRename"]
      <3>1. p \in Active' /\ pc'[p] = "undoRename" BY <1>5, <2>5 DEF Places, Undo
      <3>2. Kept(t)' BY <1>6, <2>1, <2>2, <2>5
      <3> QED BY <3>1, <3>2 DEF Hold
    <2> QED BY <2>3, <2>4, <2>5
  <1>12. CASE Start(p)
    <2>1. pc[p] = "start" /\ promised' = promised BY <1>12 DEF Start
    <2>2. Kept(t) /\ Exists(p) /\ box[p].image = job[p].to BY <2>1 DEF Hold
    <2>3. \/ box' = Started(p) /\ pc' = [pc EXCEPT ![p] = "health"]
          \/ box' = box /\ pc' = [pc EXCEPT ![p] = "undoStop"]
      BY <1>12, <1>c, <2>2 DEF Start, Call, Goto
    <2>4. CASE box' = Started(p) /\ pc' = [pc EXCEPT ![p] = "health"]
      <3>1. p \in Active' /\ pc'[p] = "health" BY <1>5, <2>4 DEF Places, Forward
      <3>2. /\ Exists(p)' /\ box'[p].image = box[p].image
            /\ \A j \in Ids \ {p} : box'[j] = box[j]
        BY <2>2, <2>4, PointEffects
      <3>3. Kept(t)' BY <2>1, <2>2, <3>2 DEF Kept, Exists
      <3> QED BY <2>2, <3>1, <3>2, <3>3 DEF Hold
    <2>5. CASE box' = box /\ pc' = [pc EXCEPT ![p] = "undoStop"]
      <3>1. p \in Active' /\ pc'[p] = "undoStop" BY <1>5, <2>5 DEF Places, Undo
      <3>2. Kept(t)' /\ Exists(p)' BY <1>6, <2>1, <2>2, <2>5
      <3> QED BY <3>1, <3>2 DEF Hold
    <2> QED BY <2>3, <2>4, <2>5
  <1>13. CASE Health(p)
    <2>1. /\ pc[p] = "health" /\ promised' = promised /\ box' = box /\ box[p].up
          /\ box[p].name = Service
          /\ pc' = [pc EXCEPT ![p] = "remove"] \/ pc' = [pc EXCEPT ![p] = "undoStop"]
      BY <1>13 DEF Health, PlaceInv, Goto
    <2>2. Kept(t) /\ Exists(p) /\ box[p].image = job[p].to BY <2>1 DEF Hold
    <2>3. p \in Active' /\ pc'[p] \in {"remove", "undoStop"}
      BY <1>5, <2>1 DEF Places, Forward, Undo
    <2>4. Serving(p, job[p].to)' BY <2>1, <2>2 DEF Serving, Exists
    <2>5. Kept(t)' /\ Exists(p)' BY <1>6, <2>1, <2>2
    <2> QED BY <2>3, <2>4, <2>5 DEF Hold
  <1>14. CASE Remove(p)
    <2>1. /\ pc[p] = "remove" /\ promised' = promised
          /\ pc' = [pc EXCEPT ![p] = "record"] /\ (box' = box \/ box' = Removed(t))
      BY <1>14 DEF Remove, Call, Goto
    <2>2. Serving(p, job[p].to) BY <2>1 DEF Hold
    <2>3. p \in Active' /\ pc'[p] = "record" BY <1>5, <2>1 DEF Places, Forward
    <2>4. box'[p] = box[p] BY <2>1, PointRemoved
    <2>5. Serving(p, job[p].to)' BY <2>2, <2>4 DEF Serving, Exists
    <2> QED BY <2>3, <2>5 DEF Hold
  <1>15. CASE Record(p)
    <2>1. /\ pc[p] = "record" /\ promised' = job[p].to /\ box' = box /\ p \notin Active'
      BY <1>15 DEF Record, Goto, Active
    <2>2. Serving(p, job[p].to) BY <2>1 DEF Hold
    <2>3. Serving(p, promised)' BY <2>1, <2>2 DEF Serving, Exists
    <2> QED BY <2>1, <2>3 DEF Runs
  <1>16. CASE UndoStop(p)
    <2>1. /\ pc[p] = "undoStop" /\ promised' = promised
          /\ pc' = [pc EXCEPT ![p] = "undoRemove"] /\ (box' = box \/ box' = Stopped(p))
      BY <1>16 DEF UndoStop, Call, Goto
    <2>2. Kept(t) /\ Exists(p) BY <2>1 DEF Hold
    <2>3. p \in Active' /\ pc'[p] = "undoRemove" BY <1>5, <2>1 DEF Places, Undo
    <2>4. Exists(p)' /\ box'[t] = box[t]
      <3>1. CASE box' = box BY <2>2, <3>1 DEF Exists
      <3>2. CASE box' = Stopped(p) BY <2>2, <3>2, PointEffects
      <3> QED BY <2>1, <3>1, <3>2
    <2>5. Kept(t)' BY <2>1, <2>2, <2>4 DEF Kept, Exists
    <2> QED BY <2>3, <2>4, <2>5 DEF Hold
  <1>17. CASE UndoRemove(p)
    <2>1. /\ pc[p] = "undoRemove" /\ promised' = promised
          /\ pc' = [pc EXCEPT ![p] = "undoRename"] /\ (box' = box \/ box' = Removed(p))
      BY <1>17 DEF UndoRemove, Call, Goto
    <2>2. Kept(t) BY <2>1 DEF Hold
    <2>3. p \in Active' /\ pc'[p] = "undoRename" BY <1>5, <2>1 DEF Places, Undo
    <2>4. box'[t] = box[t] BY <2>1, PointRemoved
    <2>5. Kept(t)' BY <2>1, <2>2, <2>4 DEF Kept, Exists
    <2> QED BY <2>3, <2>5 DEF Hold
  <1>18. CASE UndoRename(p)
    <2>1. /\ pc[p] = "undoRename" /\ promised' = promised /\ hurt >= 1
          /\ pc' = [pc EXCEPT ![p] = "undoStart"]
          /\ box' = box \/ box' = Renamed(t, Service)
      BY <1>18 DEF UndoRename, Call, Goto, PlaceInv
    <2>2. Kept(t) /\ Exists(t) BY <2>1 DEF Hold, Kept
    <2>3. p \in Active' /\ pc'[p] = "undoStart" BY <1>5, <2>1 DEF Places, Undo
    <2>4. Exists(t)' /\ box'[t].up = box[t].up /\ box'[t].image = box[t].image
      <3>1. CASE box' = box BY <2>2, <3>1 DEF Exists
      <3>2. CASE box' = Renamed(t, Service) BY <2>2, <3>2, PointEffects
      <3> QED BY <2>1, <3>1, <3>2
    <2>5. Kept(t)' BY <2>1, <2>2, <2>4 DEF Kept
    <2> QED BY <2>1, <2>3, <2>5 DEF Hold
  <1>19. CASE UndoStart(p)
    <2>1. /\ pc[p] = "undoStart" /\ promised' = promised /\ hurt >= 1
      BY <1>19 DEF UndoStart, Hold
    <2>2. Kept(t) /\ Exists(t) BY <2>1 DEF Hold, Kept
    <2>3. box[t].name = Service BY <2>1, <2>2 DEF PlaceInv
    <2>s. Startable(t)
      <3>1. \A j \in Up : j = t
        BY <1>0, <1>1, <2>2, <2>3 DEF UpIsService, NamesUnique, Up
      <3> QED BY <2>2, <3>1, StartableFacts
    <2>4. box' = Started(t) /\ pc' = [pc EXCEPT ![p] = "fail"]
      BY <1>19, <1>c, <2>1, <2>s DEF UndoStart, Call, Goto
    <2>5. p \in Active' /\ pc'[p] = "fail" BY <1>5, <2>4 DEF Places, Undo
    <2>6. /\ Exists(t)' /\ box'[t].up /\ box'[t].name = box[t].name
          /\ box'[t].image = box[t].image
      BY <2>2, <2>4, PointEffects
    <2>7. Serving(t, promised)' BY <2>1, <2>2, <2>3, <2>6 DEF Serving, Kept
    <2>8. Runs' BY <2>7 DEF Runs
    <2> QED BY <2>5, <2>8 DEF Hold
  <1>20. ~Inspect(p) BY DEF Inspect, PlaceInv
  <1> QED BY <1>7, <1>8, <1>9, <1>10, <1>11, <1>12, <1>13, <1>14, <1>15, <1>16, <1>17, <1>18,
             <1>19, <1>20 DEF Step
LEMMA NextSurvive ==
  ASSUME SurviveInv, [Next]_vars
  PROVE  SurviveInv'
  <1>0. SagaInv /\ SagaInv' /\ TypeInv /\ TypeInv' BY NextSaga DEF SurviveInv, SagaInv
  <1>1. SUFFICES ASSUME Benign' PROVE Lasts' BY <1>0 DEF SurviveInv
  <1>2. ASSUME \A k \in Kinds : used'[k] >= used[k], hurt = 2 => hurt' = 2
        PROVE  Lasts /\ Benign
    BY <1>0, <1>1, <1>2, BenignBefore DEF SurviveInv
  <1>3. \A k \in Kinds \ {"refused", "sick"} : used'[k] = 0
    BY <1>1 DEF Benign, Without
  <1>4. ASSUME NEW p \in Requests, Step(p) PROVE Lasts'
    BY <1>0, <1>1, <1>2, <1>4, StepFrame, StepLasts
  <1>5. ASSUME NEW p \in Requests, NEW i \in Ids, NEW v \in Versions, UpdateContainer(p, i, v)
        PROVE  Lasts'
    <2> DEFINE K == IF box[i].name = Service THEN {} ELSE {"stray"}
    <2>1. /\ Begin(K) /\ box' = box /\ canceled' = canceled /\ promised' = promised
          /\ pc' = [pc EXCEPT ![p] = "queued"] /\ pc[p] = "idle" /\ Exists(i)
      BY <1>5 DEF UpdateContainer, Goto
    <2>2. /\ \A k \in Kinds : used'[k] >= used[k]
          /\ \A k \in Kinds \cap (Overlaps \cup K) : used'[k] # 0
          /\ hurt = 2 => hurt' = 2
      BY <1>0, <2>1, BeginFacts DEF TypeInv
    <2>3. Lasts BY <1>2, <2>2
    <2>4. Active = {} /\ box[i].name = Service
      BY <1>3, <2>2 DEF Overlaps, Kinds
    <2>5. pc'[p] = "queued" /\ Active' = {p}
      BY <1>0, <2>1, <2>4 DEF Active, TypeInv, TypeOK
    <2>6. job'[p].target = i
      BY <1>0, <1>5 DEF UpdateContainer, TypeInv, TypeOK
    <2>7. PICK r \in Ids : Serving(r, promised) BY <2>3, <2>4 DEF Lasts, Runs
    <2>8. r = i
      BY <1>0, <2>1, <2>4, <2>7 DEF SagaInv, NamesUnique, Serving
    <2>9. Serving(i, promised)' BY <2>1, <2>7, <2>8 DEF Serving, Exists
    <2>10. \A q \in Requests : Unborn(q) => Unborn(q)'
      BY <2>1 DEF Unborn, Free, Exists
    <2>11. Unborn(p) /\ p # i BY <2>1, <2>3 DEF Lasts, Unborn
    <2>12. Hold(p)' BY <2>5, <2>6, <2>9, <2>10, <2>11 DEF Hold
    <2>13. \A q \in Requests : pc'[q] = "idle" => pc[q] = "idle"
      BY <1>0, <2>1 DEF TypeInv, TypeOK
    <2> QED BY <2>1, <2>3, <2>5, <2>10, <2>12, <2>13 DEF Lasts
  <1>6. ASSUME NEW p \in Requests, NEW u \in Requests, RollbackUpdate(p, u) PROVE FALSE
    <2>1. Begin({"rollback"}) BY <1>6 DEF RollbackUpdate
    <2> QED BY <1>0, <1>3, <2>1, BeginFacts DEF Kinds, TypeInv
  <1>7. ASSUME NEW p \in Requests, Cancel(p) PROVE FALSE
    <2>1. Mishap("cancel") BY <1>7 DEF Cancel
    <2> QED BY <1>0, <1>3, <2>1, MishapGrows DEF Kinds
  <1>8. ASSUME Crash PROVE FALSE
    <2>1. Mishap("crash") BY <1>8 DEF Crash
    <2> QED BY <1>0, <1>3, <2>1, MishapGrows DEF Kinds
  <1>9. CASE UNCHANGED vars
    <2>1. UNCHANGED <<box, pc, job, promised, canceled, used, hurt>> BY <1>9 DEF vars
    <2>2. Lasts BY <1>0, <1>2, <2>1 DEF TypeInv, TypeOK
    <2>3. /\ Active' = Active /\ Runs' = Runs /\ hurt' = hurt
          /\ \A q \in Ids : Exists(q)' = Exists(q) /\ Kept(q)' = Kept(q)
      BY <2>1 DEF Active, Runs, Serving, Exists, Kept
    <2>4. \A q \in Requests : Unborn(q)' <=> Unborn(q)
      BY <2>1 DEF Unborn, Free, Exists
    <2>5. ASSUME NEW q \in Active PROVE Hold(q)'
      <3>1. Hold(q) BY <2>2, <2>5 DEF Lasts
      <3> QED BY <2>1, <2>3, <2>4, <2>5, <3>1 DEF Hold, Serving, Exists, Kept, Active
    <2> QED BY <2>1, <2>2, <2>3, <2>4, <2>5 DEF Lasts
  <1> QED BY <1>4, <1>5, <1>6, <1>7, <1>8, <1>9 DEF Next

LEMMA InitSurvive == Init => SurviveInv
  <1> SUFFICES ASSUME Init PROVE SurviveInv OBVIOUS
  <1>1. Active = {} /\ canceled = {} BY DEF Init, Active
  <1>2. First \in Ids /\ First \notin Requests BY UpdateAssumption DEF Ids
  <1>3. \A i \in Ids : Exists(i) => i = First /\ box[i].name = Service
    BY DEF Init, Exists
  <1>4. \A q \in Requests : Unborn(q)
    BY <1>2, <1>3, UpdateAssumption DEF Unborn, Free, Ids
  <1>5. Runs
    <2>1. PICK v \in Versions :
             /\ box = [i \in Ids |-> IF i = First
                                     THEN [name |-> Service, image |-> v, up |-> TRUE]
                                     ELSE None]
             /\ promised = v
      BY DEF Init
    <2>2. box[First] = [name |-> Service, image |-> v, up |-> TRUE] BY <1>2, <2>1
    <2>3. box[First] \in Boxes BY <2>2 DEF Boxes, Names
    <2>4. Exists(First) BY <2>3, UpdateAssumption DEF Exists
    <2> QED BY <1>2, <2>1, <2>2, <2>4 DEF Runs, Serving
  <1> QED BY <1>1, <1>4, <1>5, InitSaga DEF SurviveInv, Lasts

\* With updates one after the other, any number of them, and in each one refused
\* call or sick container at any place of executeUpdate or rollbackContainer, an
\* update that has been answered leaves one container up, with the service's name and in
\* the version of the last answer that reported success.
THEOREM AnsweredServiceRuns == Spec => []ServiceSurvives
  <1>1. SurviveInv => ServiceSurvives
    <2> SUFFICES ASSUME SurviveInv, Active = {}, Benign
                 PROVE  \E i \in Up : /\ Up = {i}
                                      /\ box[i].name = Service /\ box[i].image = promised
      BY DEF ServiceSurvives, Benign
    <2>1. TypeInv /\ Mild
      <3>1. \A k \in {"overlap", "stray", "rollback", "lost"} : used[k] = 0
        BY DEF Benign, Without, Kinds
      <3> QED BY <3>1 DEF Benign, Mild, Without, SurviveInv, SagaInv
    <2>2. \A i, j \in Up : i = j
      BY <2>1 DEF SurviveInv, SagaInv, Core, UpIsService, NamesUnique, Up
    <2>3. PICK i \in Ids : Serving(i, promised) BY DEF SurviveInv, Lasts, Runs
    <2>4. i \in Up BY <2>3 DEF Up, Serving
    <2> QED BY <2>2, <2>3, <2>4 DEF Serving
  <1> QED BY <1>1, InitSurvive, NextSurvive, PTL DEF Spec
--------------------------------------------------------------------------------
(* Overlapping updates leave a container up *)

\* The hypothesis of OverlapKeepsOneUp.
Peace == ~published /\ Without(Kinds \ {"overlap", "sick", "stray"})

\* The container there is to begin with, and each new one that was seen healthy.
Solid(i) ==
    \/ i = First
    \/ i \in Requests /\ (pc[i] \in {"remove", "record"} \/ row[i] = "completed")

\* From the stop of the old container to its removal or its start.
Middle == {"rename", "create", "start", "health", "remove", "undoStop", "undoRemove",
           "undoRename", "undoStart"}

Begun(p) == pc[p] # "idle"

\* A request is for a container that was there before it began.
Earlier ==
    /\ \A p \in Requests : Exists(p) => Begun(p)
    /\ \A p \in Requests : Begun(p) =>
          /\ Updating(p) /\ job[p].of = p /\ pc[p] # "inspect"
          /\ job[p].target = First \/ Begun(job[p].target)
    /\ \A p \in Requests : row[p] = "completed" => pc[p] = "ended"

\* A solid container is replaced by a solid one only.
Replaced ==
    \A i \in Ids : Solid(i) => Exists(i) \/ \E x \in Requests : Solid(x) /\ job[x].target = i

\* A solid container is down only while a request is between its stop and start.
Awaited ==
    \A i \in Ids : Solid(i) /\ Exists(i) =>
        box[i].up \/ \E s \in Active : pc[s] \in Middle /\ job[s].target = i

\* In any set of containers one is the target of no other: the targets lead back
\* in time.
Newest ==
    \A X \in SUBSET Ids : X # {} =>
        \E m \in X : \A x \in X \cap Requests : Begun(x) => job[x].target # m

\* The inductive invariant: the newest solid container is there, since what
\* replaced it would be solid and newer, and is up once no request is served.
OverlapInv ==
    TypeInv /\ (Peace => canceled = {} /\ Earlier /\ Replaced /\ Awaited /\ Newest)

\* The counts only grow, so that a peaceful state comes from one.
LEMMA PeaceBefore ==
  ASSUME TypeInv, TypeInv', \A k \in Kinds : used'[k] >= used[k], Peace',
         UNCHANGED published
  PROVE  Peace
  <1>1. \A k \in Kinds : used[k] \in Nat /\ used'[k] \in Nat BY DEF TypeInv, TypeOK
  <1> QED BY <1>1 DEF Peace, Without

\* In peace nothing is refused, lost or cancelled and the master does not crash.
LEMMA MishapPeace ==
  ASSUME TypeInv, TypeInv', Peace', NEW k \in Kinds, Mishap(k)
  PROVE  k \in {"overlap", "sick", "stray"}
  <1>1. used'[k] # 0 BY MishapGrows
  <1>2. \A l \in Kinds \ {"overlap", "sick", "stray"} : used'[l] = 0 BY DEF Peace, Without
  <1> QED BY <1>1, <1>2

\* What a step in peace does to the solid containers: none stops being solid, the
\* one that becomes solid is up, and one that is removed or stopped is the target
\* of a request that stands for it.
LEMMA StepSolid ==
  ASSUME TypeInv, TypeInv', Peace', ~published, canceled = {}, Earlier,
         NEW p \in Requests, Step(p)
  PROVE  /\ canceled' = {} /\ job' = job /\ job[p].target \in Ids
         /\ \A q \in Requests \ {p} : pc'[q] = pc[q] /\ row'[q] = row[q]
         /\ pc[p] # "idle" /\ pc'[p] \notin {"idle", "inspect"}
         /\ row'[p] = "completed" => pc'[p] = "ended"
         /\ \A i \in Ids : Exists(i)' => Exists(i) \/ i = p
         /\ \A i \in Ids : Solid(i) => Solid(i)'
         /\ \A i \in Ids : Solid(i)' => Solid(i) \/ (Exists(i)' /\ box'[i].up)
         /\ \A i \in Ids : Solid(i)' /\ Exists(i) =>
               Exists(i)' \/ (i = job[p].target /\ Solid(p)')
         /\ \A i \in Ids : Solid(i)' /\ Exists(i)' => Exists(i)
         /\ \A i \in Ids : Solid(i)' /\ Exists(i)' /\ box[i].up =>
               box'[i].up \/ (i = job[p].target /\ pc'[p] \in Middle)
         /\ pc[p] \in Middle /\ Exists(job[p].target)' =>
               pc'[p] \in Middle \/ box'[job[p].target].up
  <1> DEFINE t == job[p].target
  <1>0. /\ p \in Active /\ canceled' = {} /\ pc[p] # "idle" /\ pc[p] # "ended"
        /\ Updating(p) /\ job[p].of = p /\ job' = job /\ row[p] # "completed"
    BY StepFrame DEF Active, Earlier, Begun
  <1>1. /\ p \in Ids /\ t \in Ids /\ p \in Names /\ job[p].name \in Names
        /\ job[p].to \in Versions /\ pc \in [Requests -> Places]
        /\ row \in [Requests -> {"none", "pending", "active", "completed", "failed", "skipped",
                                 "rolled_back"}]
        /\ First \notin Requests
    BY StepBoxes, UpdateAssumption DEF Names, TypeInv, TypeOK
  <1>2. ~Mishap("lost") /\ ~Mishap("refused")
    <2>1. "lost" \in Kinds /\ "refused" \in Kinds BY DEF Kinds
    <2> QED BY <2>1, MishapPeace
  <1>3. Solid(p) <=> pc[p] \in {"remove", "record"}
    BY <1>0, <1>1 DEF Solid
  <1>4. Solid(p)' <=> pc'[p] \in {"remove", "record"} \/ row'[p] = "completed"
    BY <1>1 DEF Solid
  <1>5. ASSUME \A q \in Requests \ {p} : pc'[q] = pc[q] /\ row'[q] = row[q]
        PROVE  \A i \in Ids \ {p} : Solid(i)' <=> Solid(i)
    BY <1>5 DEF Solid, Ids
  <1> USE <1>0, <1>1, <1>2
  <1>6. ASSUME NEW a, NEW l, pc[p] = a, pc' = [pc EXCEPT ![p] = l], row' = row
        PROVE  /\ pc'[p] = l /\ row'[p] # "completed"
               /\ \A q \in Requests \ {p} : pc'[q] = pc[q] /\ row'[q] = row[q]
               /\ \A i \in Ids \ {p} : Solid(i)' <=> Solid(i)
               /\ Solid(p) <=> a \in {"remove", "record"}
               /\ Solid(p)' <=> l \in {"remove", "record"}
    BY <1>3, <1>4, <1>5, <1>6
  <1>7. CASE Acquire(p) \/ GiveUp(p) \/ DryRun(p) \/ Prepare(p) \/ Restore(p) \/ Fail(p)
    <2>1. /\ box' = box /\ pc[p] \in {"queued", "prepare", "fail"}
          /\ pc'[p] \in {"prepare", "ended", "stop", "fail"} /\ row'[p] # "completed"
          /\ \A q \in Requests \ {p} : pc'[q] = pc[q] /\ row'[q] = row[q]
      BY <1>7 DEF Acquire, GiveUp, DryRun, Prepare, Restore, Fail, Call, Goto, Write
    <2>2. /\ ~Solid(p) /\ ~Solid(p)' /\ \A i \in Ids \ {p} : Solid(i)' <=> Solid(i)
          /\ pc[p] \notin Middle
      BY <1>3, <1>4, <1>5, <2>1 DEF Middle
    <2> QED BY <2>1, <2>2 DEF Exists
  <1>8. CASE Record(p)
    <2>1. /\ box' = box /\ pc[p] = "record" /\ pc'[p] = "ended" /\ row'[p] = "completed"
          /\ \A q \in Requests \ {p} : pc'[q] = pc[q] /\ row'[q] = row[q]
      BY <1>8 DEF Record, Goto, Write
    <2>2. /\ Solid(p) /\ Solid(p)' /\ \A i \in Ids \ {p} : Solid(i)' <=> Solid(i)
          /\ pc[p] \notin Middle
      BY <1>3, <1>4, <1>5, <2>1 DEF Middle
    <2> QED BY <2>1, <2>2 DEF Exists
  <1>9. CASE Stop(p)
    <2>1. /\ pc[p] = "stop" /\ row' = row
          /\ \/ Exists(t) /\ box' = Stopped(t) /\ pc' = [pc EXCEPT ![p] = "rename"]
             \/ box' = box /\ pc' = [pc EXCEPT ![p] = "fail"]
      BY <1>9 DEF Stop, Call, Goto
    <2>2. CASE Exists(t) /\ box' = Stopped(t) /\ pc' = [pc EXCEPT ![p] = "rename"]
      <3>1. /\ \A j \in Ids \ {t} : box'[j] = box[j]
            /\ \A j \in Ids : Exists(j)' <=> Exists(j)
        BY <2>2, PointEffects
      <3> QED BY <1>6, <2>1, <2>2, <3>1 DEF Middle
    <2>3. CASE box' = box /\ pc' = [pc EXCEPT ![p] = "fail"]
      BY <1>6, <2>1, <2>3 DEF Middle, Exists
    <2> QED BY <2>1, <2>2, <2>3
  <1>10. CASE Rename(p)
    <2>1. /\ pc[p] = "rename" /\ row' = row
          /\ \/ /\ Exists(t) /\ box' = Renamed(t, p) /\ pc' = [pc EXCEPT ![p] = "create"]
             \/ box' = box /\ pc' = [pc EXCEPT ![p] = "undoStart"]
      BY <1>10 DEF Rename, Call, Goto
    <2>2. CASE Exists(t) /\ box' = Renamed(t, p) /\ pc' = [pc EXCEPT ![p] = "create"]
      <3>1. /\ \A j \in Ids \ {t} : box'[j] = box[j]
            /\ \A j \in Ids : Exists(j)' <=> Exists(j)
            /\ box'[t].up = box[t].up
        BY <2>2, PointEffects
      <3> QED BY <1>6, <2>1, <2>2, <3>1 DEF Middle
    <2>3. CASE box' = box /\ pc' = [pc EXCEPT ![p] = "undoStart"]
      BY <1>6, <2>1, <2>3 DEF Middle, Exists
    <2> QED BY <2>1, <2>2, <2>3
  <1>11. CASE Create(p)
    <2>1. /\ pc[p] = "create" /\ row' = row
          /\ \/ /\ box' = Created(p, job[p].name, job[p].to)
                /\ pc' = [pc EXCEPT ![p] = "start"]
             \/ box' = box /\ pc' = [pc EXCEPT ![p] = "undoRename"]
      BY <1>11 DEF Create, Call, Goto
    <2>2. CASE /\ box' = Created(p, job[p].name, job[p].to)
               /\ pc' = [pc EXCEPT ![p] = "start"]
      <3>1. \A j \in Ids \ {p} : box'[j] = box[j]
        BY <2>2, PointCreated
      <3> QED BY <1>6, <2>1, <2>2, <3>1 DEF Middle, Exists
    <2>3. CASE box' = box /\ pc' = [pc EXCEPT ![p] = "undoRename"]
      BY <1>6, <2>1, <2>3 DEF Middle, Exists
    <2> QED BY <2>1, <2>2, <2>3
  <1>12. CASE Start(p)
    <2>1. /\ pc[p] = "start" /\ row' = row
          /\ \/ Exists(p) /\ box' = Started(p) /\ pc' = [pc EXCEPT ![p] = "health"]
             \/ box' = box /\ pc' = [pc EXCEPT ![p] = "undoStop"]
      BY <1>12, StartableFacts DEF Start, Call, Goto
    <2>2. CASE Exists(p) /\ box' = Started(p) /\ pc' = [pc EXCEPT ![p] = "health"]
      <3>1. /\ \A j \in Ids \ {p} : box'[j] = box[j]
            /\ \A j \in Ids : Exists(j)' <=> Exists(j)
        BY <2>2, PointEffects
      <3> QED BY <1>6, <2>1, <2>2, <3>1 DEF Middle
    <2>3. CASE box' = box /\ pc' = [pc EXCEPT ![p] = "undoStop"]
      BY <1>6, <2>1, <2>3 DEF Middle, Exists
    <2> QED BY <2>1, <2>2, <2>3
  <1>13. CASE Health(p)
    <2>1. /\ pc[p] = "health" /\ row' = row /\ box' = box
          /\ \/ Exists(p) /\ box[p].up /\ pc' = [pc EXCEPT ![p] = "remove"]
             \/ pc' = [pc EXCEPT ![p] = "undoStop"]
      BY <1>13 DEF Health, Goto
    <2>2. CASE Exists(p) /\ box[p].up /\ pc' = [pc EXCEPT ![p] = "remove"]
      BY <1>6, <2>1, <2>2 DEF Middle, Exists
    <2>3. CASE pc' = [pc EXCEPT ![p] = "undoStop"]
      BY <1>6, <2>1, <2>3 DEF Middle, Exists
    <2> QED BY <2>1, <2>2, <2>3
  <1>14. CASE Remove(p)
    <2>1. /\ pc[p] = "remove" /\ row' = row /\ pc' = [pc EXCEPT ![p] = "record"]
          /\ box' = Removed(t) \/ (box' = box /\ ~Exists(t))
      BY <1>14 DEF Remove, Call, Goto
    <2>2. ~Exists(t)' /\ \A j \in Ids \ {t} : box'[j] = box[j]
      <3>1. CASE box' = Removed(t) BY <3>1, PointRemoved
      <3>2. CASE box' = box /\ ~Exists(t) BY <3>2 DEF Exists
      <3> QED BY <2>1, <3>1, <3>2
    <2> QED BY <1>6, <2>1, <2>2 DEF Exists
  <1>15. CASE UndoStop(p)
    <2>1. /\ pc[p] = "undoStop" /\ row' = row /\ pc' = [pc EXCEPT ![p] = "undoRemove"]
          /\ box' = box \/ (Exists(p) /\ box' = Stopped(p))
      BY <1>15 DEF UndoStop, Call, Goto
    <2>2. /\ \A j \in Ids \ {p} : box'[j] = box[j]
          /\ \A j \in Ids : Exists(j)' <=> Exists(j)
      <3>1. CASE box' = box BY <3>1 DEF Exists
      <3>2. CASE Exists(p) /\ box' = Stopped(p) BY <3>2, PointEffects
      <3> QED BY <2>1, <3>1, <3>2
    <2> QED BY <1>6, <2>1, <2>2 DEF Middle
  <1>16. CASE UndoRemove(p)
    <2>1. /\ pc[p] = "undoRemove" /\ row' = row /\ pc' = [pc EXCEPT ![p] = "undoRename"]
          /\ box' = box \/ box' = Removed(p)
      BY <1>16 DEF UndoRemove, Call, Goto
    <2>2. /\ \A j \in Ids \ {p} : box'[j] = box[j]
          /\ \A j \in Ids : Exists(j)' => Exists(j)
      <3>1. CASE box' = box BY <3>1 DEF Exists
      <3>2. CASE box' = Removed(p) BY <3>2, PointRemoved DEF Exists
      <3> QED BY <2>1, <3>1, <3>2
    <2> QED BY <1>6, <2>1, <2>2 DEF Middle, Exists
  <1>17. CASE UndoRename(p)
    <2>1. /\ pc[p] = "undoRename" /\ row' = row /\ pc' = [pc EXCEPT ![p] = "undoStart"]
          /\ box' = box \/ (Exists(t) /\ box' = Renamed(t, job[p].name))
      BY <1>17 DEF UndoRename, Call, Goto
    <2>2. /\ \A j \in Ids \ {t} : box'[j] = box[j]
          /\ \A j \in Ids : Exists(j)' <=> Exists(j)
          /\ box[t].up = box'[t].up
      <3>1. CASE box' = box BY <3>1 DEF Exists
      <3>2. CASE Exists(t) /\ box' = Renamed(t, job[p].name) BY <3>2, PointEffects
      <3> QED BY <2>1, <3>1, <3>2
    <2> QED BY <1>6, <2>1, <2>2 DEF Middle
  <1>18. CASE UndoStart(p)
    <2>1. /\ pc[p] = "undoStart" /\ row' = row /\ pc' = [pc EXCEPT ![p] = "fail"]
          /\ (box' = box /\ ~Exists(t)) \/ (Exists(t) /\ box' = Started(t))
      <3>1. t \in Ids /\ ~published BY <1>1 DEF Peace
      <3>2. Startable(t) <=> Exists(t) BY <3>1, StartableFacts
      <3> QED BY <1>18, <3>2 DEF UndoStart, Call, Goto
    <2>2. /\ \A j \in Ids \ {t} : box'[j] = box[j]
          /\ \A j \in Ids : Exists(j)' <=> Exists(j)
          /\ Exists(t)' => box'[t].up
      <3>1. CASE box' = box /\ ~Exists(t) BY <3>1 DEF Exists
      <3>2. CASE Exists(t) /\ box' = Started(t) BY <3>2, PointEffects
      <3> QED BY <2>1, <3>1, <3>2
    <2> QED BY <1>6, <2>1, <2>2 DEF Middle
  <1>19. ~Inspect(p) BY DEF Inspect, Earlier, Begun
  <1> QED BY <1>7, <1>8, <1>9, <1>10, <1>11, <1>12, <1>13, <1>14, <1>15, <1>16, <1>17, <1>18,
             <1>19 DEF Step
\* A step in peace keeps what the newest solid container relies on.
LEMMA StepOverlap ==
  ASSUME TypeInv, TypeInv', Peace', ~published, canceled = {}, Earlier, Replaced, Awaited,
         Newest, NEW p \in Requests, Step(p)
  PROVE  canceled' = {} /\ Earlier' /\ Replaced' /\ Awaited' /\ Newest'
  <1> DEFINE t == job[p].target
  <1>1. /\ canceled' = {} /\ job' = job /\ t \in Ids
        /\ \A q \in Requests \ {p} : pc'[q] = pc[q] /\ row'[q] = row[q]
        /\ pc[p] # "idle" /\ pc'[p] \notin {"idle", "inspect"}
        /\ row'[p] = "completed" => pc'[p] = "ended"
    BY StepSolid
  <1>2. /\ \A i \in Ids : Exists(i)' => Exists(i) \/ i = p
        /\ \A i \in Ids : Solid(i) => Solid(i)'
        /\ \A i \in Ids : Solid(i)' => Solid(i) \/ (Exists(i)' /\ box'[i].up)
        /\ \A i \in Ids : Solid(i)' /\ Exists(i) => Exists(i)' \/ (i = t /\ Solid(p)')
        /\ \A i \in Ids : Solid(i)' /\ Exists(i)' => Exists(i)
        /\ \A i \in Ids : Solid(i)' /\ Exists(i)' /\ box[i].up =>
              box'[i].up \/ (i = t /\ pc'[p] \in Middle)
        /\ pc[p] \in Middle /\ Exists(t)' => pc'[p] \in Middle \/ box'[t].up
    BY StepSolid
  <1>3. \A q \in Requests : Begun(q)' <=> Begun(q) BY <1>1 DEF Begun
  <1>4. Requests \subseteq Ids BY DEF Ids
  <1>6. Earlier'
    <2>1. \A q \in Requests : Exists(q)' => Begun(q)'
      BY <1>1, <1>2, <1>3, <1>4 DEF Earlier, Begun
    <2>2. ASSUME NEW q \in Requests, Begun(q)'
          PROVE  /\ Updating(q)' /\ job'[q].of = q /\ pc'[q] # "inspect"
                 /\ job'[q].target = First \/ pc'[job'[q].target] # "idle"
      <3>1. /\ Updating(q) /\ job[q].of = q /\ pc[q] # "inspect"
            /\ job[q].target = First \/ Begun(job[q].target)
        BY <1>3, <2>2 DEF Earlier
      <3>2. job[q].target \in Ids
        BY <1>3, <2>2 DEF TypeInv, JobsKnown, Jobs, Begun
      <3>3. \A x \in Requests : pc[x] # "idle" => pc'[x] # "idle" BY <1>1
      <3>4. Begun(job[q].target) /\ job[q].target # First => pc'[job[q].target] # "idle"
        BY <3>2, <3>3 DEF Ids, Begun
      <3>5. pc'[q] # "inspect" BY <1>1, <3>1
      <3> QED BY <1>1, <3>1, <3>4, <3>5 DEF Updating
    <2>3. \A q \in Requests : row'[q] = "completed" => pc'[q] = "ended"
      BY <1>1 DEF Earlier
    <2> QED BY <2>1, <2>2, <2>3 DEF Earlier, Begun
  <1>7. Replaced'
    <2> SUFFICES ASSUME NEW i \in Ids, Solid(i)'
                 PROVE  Exists(i)' \/ \E x \in Requests : Solid(x)' /\ job'[x].target = i
      BY DEF Replaced
    <2>1. CASE ~Solid(i) BY <1>2, <2>1
    <2>2. CASE Solid(i) /\ Exists(i) BY <1>1, <1>2, <2>2
    <2>3. ASSUME NEW x \in Requests, Solid(x), job[x].target = i
          PROVE  Solid(x)' /\ job'[x].target = i
      BY <1>1, <1>2, <1>4, <2>3
    <2> QED BY <2>1, <2>2, <2>3 DEF Replaced
  <1>8. Awaited'
    <2> SUFFICES ASSUME NEW i \in Ids, Solid(i)', Exists(i)'
                 PROVE  \/ box'[i].up
                        \/ \E s \in Active' : pc'[s] \in Middle /\ job'[s].target = i
      BY DEF Awaited
    <2>1. pc'[p] \in Middle => p \in Active' BY DEF Middle, Active
    <2>2. CASE ~Solid(i) BY <1>2, <2>2
    <2>3. CASE box[i].up BY <1>1, <1>2, <2>1, <2>3
    <2>4. ASSUME Solid(i), Exists(i),
                 NEW s \in Active, pc[s] \in Middle, job[s].target = i
          PROVE  \/ box'[i].up
                 \/ \E r \in Active' : pc'[r] \in Middle /\ job'[r].target = i
      <3>1. CASE s = p BY <1>1, <1>2, <2>1, <2>4, <3>1
      <3>2. CASE s # p
        <4>1. s \in Requests BY DEF Active
        <4>2. pc'[s] = pc[s] /\ s \in Active' BY <1>1, <3>2, <4>1 DEF Active
        <4> QED BY <1>1, <2>4, <4>2
      <3> QED BY <3>1, <3>2
    <2> QED BY <1>2, <2>2, <2>3, <2>4 DEF Awaited
  <1>9. Newest' BY <1>1, <1>3 DEF Newest
  <1> QED BY <1>1, <1>6, <1>7, <1>8, <1>9

\* A request that begins is for a container there is, and is newer than all.
LEMMA BeginOverlap ==
  ASSUME TypeInv, TypeInv', canceled = {}, Earlier, Replaced, Awaited, Newest,
         NEW p \in Requests, NEW i \in Ids, NEW v \in Versions, UpdateContainer(p, i, v)
  PROVE  canceled' = {} /\ Earlier' /\ Replaced' /\ Awaited' /\ Newest'
  <1>1. /\ box' = box /\ canceled' = {} /\ pc[p] = "idle" /\ Exists(i)
        /\ pc' = [pc EXCEPT ![p] = "queued"] /\ row' = [row EXCEPT ![p] = "pending"]
        /\ job' = [job EXCEPT ![p] = [kind |-> "update", of |-> p, target |-> i,
                                      name |-> box[i].name, from |-> box[i].image, to |-> v]]
    BY DEF UpdateContainer, Goto
  <1>2. /\ pc \in [Requests -> Places] /\ job \in [Requests -> Jobs \cup {None}]
        /\ DOMAIN row = Requests
    BY DEF TypeInv, TypeOK
  <1>3. /\ pc'[p] = "queued" /\ row'[p] = "pending"
        /\ job'[p].kind = "update" /\ job'[p].of = p /\ job'[p].target = i
        /\ \A q \in Requests \ {p} : pc'[q] = pc[q] /\ row'[q] = row[q] /\ job'[q] = job[q]
    BY <1>1, <1>2
  <1>4. Requests \subseteq Ids /\ First \notin Requests BY UpdateAssumption DEF Ids
  <1>5. i # p /\ (i = First \/ Begun(i)) BY <1>1 DEF Earlier, Begun, Ids
  <1>6. /\ \A q \in Requests \ {p} : Begun(q)' <=> Begun(q)
        /\ Begun(p)' /\ ~Begun(p)
    BY <1>1, <1>3 DEF Begun
  <1>7. \A q \in Requests : Begun(q) => job[q].target \in Ids /\ q # p /\ job[q].target # p
    <2>1. \A q \in Requests : Begun(q) => job[q] \in Jobs BY DEF TypeInv, JobsKnown, Begun
    <2> QED BY <1>4, <1>6, <2>1 DEF Earlier, Jobs
  <1>8. /\ \A q \in Ids : Exists(q)' <=> Exists(q)
    BY <1>1 DEF Exists
  <1>9. \A q \in Ids : Solid(q)' <=> Solid(q)
    <2>1. ~Solid(p) /\ ~Solid(p)' BY <1>1, <1>3, <1>4 DEF Solid, Earlier
    <2>2. \A q \in Ids \ {p} : Solid(q)' <=> Solid(q) BY <1>3 DEF Solid, Ids
    <2> QED BY <2>1, <2>2
  <1>10. Earlier'
    <2>1. \A q \in Requests : Exists(q)' => Begun(q)'
      BY <1>4, <1>6, <1>8 DEF Earlier
    <2>2. ASSUME NEW q \in Requests, Begun(q)'
          PROVE  /\ Updating(q)' /\ job'[q].of = q /\ pc'[q] # "inspect"
                 /\ job'[q].target = First \/ pc'[job'[q].target] # "idle"
      <3>1. CASE q = p BY <1>3, <1>5, <1>6, <3>1 DEF Updating, Begun, Ids
      <3>2. CASE q # p
        <4>1. /\ Updating(q) /\ job[q].of = q /\ pc[q] # "inspect"
              /\ job[q].target = First \/ Begun(job[q].target)
          BY <1>6, <2>2, <3>2 DEF Earlier
        <4>2. job[q].target \in Ids /\ job[q].target # p BY <1>6, <1>7, <2>2, <3>2
        <4>3. job[q].target # First => pc'[job[q].target] = pc[job[q].target]
          BY <1>3, <4>2 DEF Ids
        <4> QED BY <1>3, <3>2, <4>1, <4>3 DEF Updating, Begun
      <3> QED BY <3>1, <3>2
    <2>3. \A q \in Requests : row'[q] = "completed" => pc'[q] = "ended"
      BY <1>3 DEF Earlier
    <2> QED BY <2>1, <2>2, <2>3 DEF Earlier, Begun
  <1>11. Replaced'
    <2> SUFFICES ASSUME NEW j \in Ids, Solid(j)'
                 PROVE  Exists(j)' \/ \E x \in Requests : Solid(x)' /\ job'[x].target = j
      BY DEF Replaced
    <2>1. CASE Exists(j) BY <1>8, <2>1
    <2>2. ASSUME NEW x \in Requests, Solid(x), job[x].target = j
          PROVE  Solid(x)' /\ job'[x].target = j
      <3>1. x # p BY <1>1, <1>4, <2>2 DEF Solid, Earlier
      <3> QED BY <1>3, <1>4, <1>9, <2>2, <3>1
    <2> QED BY <1>9, <2>1, <2>2 DEF Replaced
  <1>12. Awaited'
    <2> SUFFICES ASSUME NEW j \in Ids, Solid(j)', Exists(j)'
                 PROVE  \/ box'[j].up
                        \/ \E s \in Active' : pc'[s] \in Middle /\ job'[s].target = j
      BY DEF Awaited
    <2>1. CASE box[j].up BY <1>1, <2>1
    <2>2. ASSUME NEW s \in Active, pc[s] \in Middle, job[s].target = j
          PROVE  s \in Active' /\ pc'[s] \in Middle /\ job'[s].target = j
      <3>1. s \in Requests /\ s # p BY <1>1 DEF Active
      <3> QED BY <1>3, <2>2, <3>1 DEF Active
    <2> QED BY <1>8, <1>9, <2>1, <2>2 DEF Awaited
  <1>13. Newest'
    <2> SUFFICES ASSUME NEW X \in SUBSET Ids, X # {}
                 PROVE  \E m \in X : \A x \in X \cap Requests : Begun(x)' => job'[x].target # m
      BY DEF Newest
    <2>1. CASE p \in X
      <3>1. \A x \in X \cap Requests : Begun(x)' => job'[x].target # p
        BY <1>3, <1>5, <1>6, <1>7
      <3> QED BY <2>1, <3>1
    <2>2. CASE p \notin X
      <3>1. PICK m \in X : \A x \in X \cap Requests : Begun(x) => job[x].target # m
        BY DEF Newest
      <3> QED BY <1>3, <1>6, <2>2, <3>1
    <2> QED BY <2>1, <2>2
  <1> QED BY <1>1, <1>10, <1>11, <1>12, <1>13

LEMMA NextOverlap ==
  ASSUME OverlapInv, [Next]_vars
  PROVE  OverlapInv'
  <1>0. /\ TypeInv /\ TypeInv' /\ UNCHANGED published
        /\ Peace' => ~published
    BY NextTypes DEF OverlapInv, Next, vars, Peace
  <1> DEFINE I == canceled = {} /\ Earlier /\ Replaced /\ Awaited /\ Newest
  <1>1. SUFFICES ASSUME Peace' PROVE I' BY <1>0 DEF OverlapInv
  <1>2. ASSUME \A k \in Kinds : used'[k] >= used[k] PROVE I
    BY <1>0, <1>1, <1>2, PeaceBefore DEF OverlapInv
  <1>3. ASSUME NEW p \in Requests, Step(p) PROVE I'
    <2>1. I BY <1>0, <1>2, <1>3, StepFrame
    <2> QED BY <1>0, <1>1, <1>3, <2>1, StepOverlap
  <1>4. ASSUME NEW p \in Requests, NEW i \in Ids, NEW v \in Versions, UpdateContainer(p, i, v)
        PROVE  I'
    <2>1. I
      <3> DEFINE K == IF box[i].name = Service THEN {} ELSE {"stray"}
      <3>1. Begin(K) BY <1>4 DEF UpdateContainer
      <3>2. \A k \in Kinds : used'[k] >= used[k] BY <1>0, <3>1, BeginFacts DEF TypeInv
      <3> QED BY <1>2, <3>2
    <2> QED BY <1>0, <1>4, <2>1, BeginOverlap
  <1>5. ASSUME NEW p \in Requests, NEW u \in Requests, RollbackUpdate(p, u) PROVE FALSE
    <2>1. Begin({"rollback"}) BY <1>5 DEF RollbackUpdate
    <2>2. used'["rollback"] # 0 BY <1>0, <2>1, BeginFacts DEF TypeInv, Kinds
    <2> QED BY <1>1, <2>2 DEF Peace, Without, Kinds
  <1>6. ASSUME NEW p \in Requests, Cancel(p) PROVE FALSE
    <2>1. Mishap("cancel") BY <1>6 DEF Cancel
    <2> QED BY <1>0, <1>1, <2>1, MishapPeace DEF Kinds
  <1>7. ASSUME Crash PROVE FALSE
    <2>1. Mishap("crash") BY <1>7 DEF Crash
    <2> QED BY <1>0, <1>1, <2>1, MishapPeace DEF Kinds
  <1>8. CASE UNCHANGED vars
    <2>1. UNCHANGED <<box, pc, job, row, canceled, used>> BY <1>8 DEF vars
    <2>2. I BY <1>0, <1>2, <2>1 DEF TypeInv, TypeOK
    <2>3. /\ \A i : Exists(i)' <=> Exists(i)
          /\ \A i : Begun(i)' <=> Begun(i)
          /\ \A i : Solid(i)' <=> Solid(i)
          /\ \A i : Updating(i)' <=> Updating(i)
          /\ Active' = Active
      BY <2>1 DEF Exists, Begun, Solid, Updating, Active
    <2>4. Earlier' BY <2>1, <2>2, <2>3 DEF Earlier, Begun, Updating
    <2>5. Replaced' BY <2>1, <2>2, <2>3 DEF Replaced
    <2>6. Awaited' BY <2>1, <2>2, <2>3 DEF Awaited
    <2>7. Newest' BY <2>1, <2>2, <2>3 DEF Newest
    <2> QED BY <2>1, <2>2, <2>4, <2>5, <2>6, <2>7
  <1> QED BY <1>3, <1>4, <1>5, <1>6, <1>7, <1>8 DEF Next

LEMMA InitOverlap == Init => OverlapInv
  <1> SUFFICES ASSUME Init PROVE OverlapInv OBVIOUS
  <1>1. First \in Ids /\ First \notin Requests BY UpdateAssumption DEF Ids
  <1>2. /\ canceled = {} /\ \A q \in Requests : ~Begun(q) /\ row[q] = "none" /\ ~Solid(q)
    BY <1>1 DEF Init, Begun, Solid
  <1>3. /\ \A q \in Requests : ~Exists(q)
        /\ Exists(First) /\ box[First].up
    <2>1. PICK v \in Versions :
             box = [i \in Ids |-> IF i = First
                                  THEN [name |-> Service, image |-> v, up |-> TRUE]
                                  ELSE None]
      BY DEF Init
    <2>2. box[First] = [name |-> Service, image |-> v, up |-> TRUE] BY <1>1, <2>1
    <2>3. box[First] \in Boxes BY <2>2 DEF Boxes, Names
    <2>4. Exists(First) BY <2>3, UpdateAssumption DEF Exists
    <2> QED BY <1>1, <2>1, <2>2, <2>4 DEF Exists, Ids
  <1>4. Earlier BY <1>2, <1>3 DEF Earlier
  <1>5. Replaced /\ Awaited BY <1>2, <1>3 DEF Replaced, Awaited, Ids
  <1>6. Newest BY <1>2 DEF Newest
  <1> QED BY <1>2, <1>4, <1>5, <1>6, InitTypes DEF OverlapInv

\* However many updates of one container, of its backup and of what replaces it
\* overlap, in whatever order their steps and their rollbacks are made, and
\* however many new containers are not seen to be healthy: when all of them have
\* been answered a container runs.  executeUpdate takes no lock on its target and
\* needs none for this.
THEOREM OverlapLeavesOneUp == Spec => []OverlapKeepsOneUp
  <1>1. OverlapInv => OverlapKeepsOneUp
    <2> SUFFICES ASSUME OverlapInv, Active = {}, Peace PROVE Up # {}
      BY DEF OverlapKeepsOneUp, Peace
    <2> DEFINE X == {i \in Ids : Solid(i)}
    <2>1. First \in X BY DEF Ids, Solid
    <2>2. PICK m \in X : \A x \in X \cap Requests : Begun(x) => job[x].target # m
      BY <2>1 DEF OverlapInv, Newest
    <2>3. \A x \in Requests : Solid(x) => Begun(x) /\ x \in X
      BY UpdateAssumption DEF OverlapInv, Earlier, Solid, Begun, Ids
    <2>4. Exists(m) BY <2>2, <2>3 DEF OverlapInv, Replaced
    <2>5. box[m].up BY <2>2, <2>4 DEF OverlapInv, Awaited
    <2> QED BY <2>2, <2>4, <2>5 DEF Up
  <1> QED BY <1>1, InitOverlap, NextOverlap, PTL DEF Spec
--------------------------------------------------------------------------------
(* What is left behind *)

Here == {i \in Ids : Exists(i)}

\* The requests that may still create a container.
EarlyPlaces == {"queued", "prepare", "inspect", "stop", "rename", "create"}
Early == {p \in Requests : pc[p] \in EarlyPlaces}

\* The containers there are and are still to come.
Load == Cardinality(Here) + Cardinality(Early)

\* The service's own container and one for each mishap that may leave one.
Charged ==
    1 + used["refused"] + used["lost"] + used["cancel"] + used["crash"] + used["overlap"]

\* A request that will remove as many containers as it has created, unless one of
\* those mishaps happens first.
Calm(p) ==
    LET t == job[p].target IN
    /\ p \notin canceled
    /\ \/ /\ pc[p] \in EarlyPlaces
          /\ Updating(p) \/ pc[p] \in {"stop", "rename", "create"} => Exists(t)
       \/ pc[p] \in {"start", "health", "remove"} /\ Exists(p) /\ Exists(t)
       \/ pc[p] \in {"undoStop", "undoRemove"} /\ Exists(p)

AllCalm == Active # {} /\ \A p \in Active : Calm(p)

\* The inductive invariant: there is one more than is charged only while each
\* request that is served is calm.
LeftoverInv ==
    /\ TypeInv
    /\ \A p \in canceled : pc[p] # "idle"
    /\ Load <= Charged \/ (Load <= Charged + 1 /\ AllCalm)

LEMMA CountFinite ==
  ASSUME NEW S \in SUBSET Ids
  PROVE  IsFiniteSet(S) /\ Cardinality(S) \in Nat
  <1>1. IsFiniteSet({First}) BY FS_Singleton
  <1>2. IsFiniteSet(Ids) BY <1>1, FS_Union, UpdateAssumption DEF Ids
  <1>3. IsFiniteSet(S) BY <1>2, FS_Subset
  <1> QED BY <1>3, FS_CardinalityType

\* The containers and the requests are counted by numbers.
LEMMA LoadTypes ==
  /\ Cardinality(Here) \in Nat /\ Cardinality(Here)' \in Nat
  /\ Cardinality(Early) \in Nat /\ Cardinality(Early)' \in Nat
  <1>1. Here \in SUBSET Ids /\ Early \in SUBSET Ids BY DEF Here, Early, Ids
  <1>2. Here' \in SUBSET Ids /\ Early' \in SUBSET Ids BY DEF Here, Early, Ids
  <1> QED BY <1>1, <1>2, CountFinite

LEMMA ChargedTypes ==
  ASSUME TypeInv, TypeInv'
  PROVE  Charged \in Nat /\ Charged' \in Nat
  <1>1. \A k \in Kinds : used[k] \in Nat /\ used'[k] \in Nat BY DEF TypeInv, TypeOK
  <1> QED BY <1>1 DEF Charged, Kinds

\* One more is charged when a kind that counts is used.
LEMMA SpendCharged ==
  ASSUME TypeInv, TypeInv', NEW K, Spend(K),
         NEW k \in {"refused", "lost", "cancel", "crash", "overlap", "sick"},
         K \subseteq {k, "stray", "rollback"}
  PROVE  Charged' = IF k \in K /\ k # "sick" THEN Charged + 1 ELSE Charged
  <1>1. /\ \A l \in Kinds : used[l] \in Nat
        /\ \A l \in Kinds : used'[l] = IF l \in K THEN used[l] + 1 ELSE used[l]
    BY SpendFacts DEF TypeInv, TypeOK
  <1> DEFINE r == used["refused"]  l == used["lost"]  c == used["cancel"]
             d == used["crash"]  o == used["overlap"]
  <1>2. /\ r \in Nat /\ l \in Nat /\ c \in Nat /\ d \in Nat /\ o \in Nat
        /\ r' = IF "refused" \in K THEN r + 1 ELSE r
        /\ l' = IF "lost" \in K THEN l + 1 ELSE l
        /\ c' = IF "cancel" \in K THEN c + 1 ELSE c
        /\ d' = IF "crash" \in K THEN d + 1 ELSE d
        /\ o' = IF "overlap" \in K THEN o + 1 ELSE o
    BY <1>1 DEF Kinds
  <1>3. \A j \in {"refused", "lost", "cancel", "crash", "overlap"} : j \in K => j = k
    OBVIOUS
  <1>4. 1 + r' + l' + c' + d' + o' = IF k \in K /\ k # "sick" THEN 1 + r + l + c + d + o + 1
                                     ELSE 1 + r + l + c + d + o
    <2> HIDE DEF r, l, c, d, o
    <2>1. CASE k \in K /\ k # "sick" BY <1>2, <1>3, <2>1
    <2>2. CASE ~(k \in K /\ k # "sick") BY <1>2, <1>3, <2>2
    <2> QED BY <2>1, <2>2
  <1> QED BY <1>4 DEF Charged

\* How the number of requests that may still create changes when one moves.
LEMMA EarlyStep ==
  ASSUME NEW p \in Requests, \A q \in Requests \ {p} : pc'[q] = pc[q]
  PROVE  /\ pc[p] \in EarlyPlaces /\ pc'[p] \notin EarlyPlaces =>
               Cardinality(Early)' = Cardinality(Early) - 1
         /\ pc[p] \notin EarlyPlaces /\ pc'[p] \in EarlyPlaces =>
               Cardinality(Early)' = Cardinality(Early) + 1
         /\ (pc[p] \in EarlyPlaces <=> pc'[p] \in EarlyPlaces) =>
               Cardinality(Early)' = Cardinality(Early)
  <1>1. IsFiniteSet(Early)
    <2>1. Early \in SUBSET Ids BY DEF Early, Ids
    <2> QED BY <2>1, CountFinite
  <1>2. CASE pc[p] \in EarlyPlaces /\ pc'[p] \notin EarlyPlaces
    <2>1. p \in Early /\ Early' = Early \ {p} BY <1>2 DEF Early, EarlyPlaces
    <2> QED BY <1>1, <1>2, <2>1, FS_RemoveElement
  <1>3. CASE pc[p] \notin EarlyPlaces /\ pc'[p] \in EarlyPlaces
    <2>1. p \notin Early /\ Early' = Early \cup {p} BY <1>3 DEF Early, EarlyPlaces
    <2> QED BY <1>1, <1>3, <2>1, FS_AddElement
  <1>4. CASE pc[p] \in EarlyPlaces <=> pc'[p] \in EarlyPlaces
    <2>1. Early' = Early BY <1>4 DEF Early, EarlyPlaces
    <2> QED BY <1>4, <2>1
  <1> QED BY <1>2, <1>3, <1>4

\* How the number of containers changes when one comes or goes.
LEMMA HereStep ==
  ASSUME NEW i \in Ids, \A j \in Ids \ {i} : Exists(j)' <=> Exists(j)
  PROVE  /\ Exists(i) /\ ~Exists(i)' => Cardinality(Here)' = Cardinality(Here) - 1
         /\ ~Exists(i) /\ Exists(i)' => Cardinality(Here)' = Cardinality(Here) + 1
         /\ (Exists(i) <=> Exists(i)') => Cardinality(Here)' = Cardinality(Here)
  <1>1. IsFiniteSet(Here)
    <2>1. Here \in SUBSET Ids BY DEF Here
    <2> QED BY <2>1, CountFinite
  <1>2. CASE Exists(i) /\ ~Exists(i)'
    <2>1. i \in Here /\ Here' = Here \ {i} BY <1>2 DEF Here
    <2> QED BY <1>1, <1>2, <2>1, FS_RemoveElement
  <1>3. CASE ~Exists(i) /\ Exists(i)'
    <2>1. i \notin Here /\ Here' = Here \cup {i} BY <1>3 DEF Here
    <2> QED BY <1>1, <1>3, <2>1, FS_AddElement
  <1>4. CASE Exists(i) <=> Exists(i)'
    <2>1. Here' = Here BY <1>4 DEF Here
    <2> QED BY <1>4, <2>1
  <1> QED BY <1>2, <1>3, <1>4
\* No step of a request adds more to the containers than to what is charged, and
\* one that does not subtract leaves the others' containers and keeps its calm.
LEMMA StepLoad ==
  ASSUME TypeInv, TypeInv', NEW p \in Requests, Step(p)
  PROVE  /\ Load' + Charged <= Load + Charged'
         /\ \/ Load' + Charged + 1 <= Load + Charged'
            \/ /\ \A i \in Ids : Exists(i) => Exists(i)'
               /\ Calm(p) => Calm(p)' /\ p \in Active'
  <1> DEFINE t == job[p].target
  <1>1. /\ p \in Ids /\ t \in Ids /\ p \in Names /\ job[p].name \in Names
        /\ job[p].to \in Versions /\ pc \in [Requests -> Places] /\ canceled' = canceled
    BY StepBoxes, StepFrame, UpdateAssumption DEF Names, TypeInv, TypeOK
  <1>2. /\ Mishap("lost") \/ Mishap("refused") => Charged' = Charged + 1
        /\ Mishap("sick") \/ UNCHANGED counts => Charged' = Charged
    <2>1. \A k : Mishap(k) => Spend({k}) BY DEF Mishap
    <2>2. Mishap("lost") => Charged' = Charged + 1 BY <2>1, SpendCharged
    <2>3. Mishap("refused") => Charged' = Charged + 1 BY <2>1, SpendCharged
    <2>4. Mishap("sick") => Charged' = Charged BY <2>1, SpendCharged
    <2> QED BY <2>2, <2>3, <2>4 DEF Charged, counts
  <1>3. /\ Charged \in Nat /\ Charged' \in Nat
        /\ Cardinality(Here) \in Nat /\ Cardinality(Here)' \in Nat
        /\ Cardinality(Early) \in Nat /\ Cardinality(Early)' \in Nat
    BY ChargedTypes, LoadTypes
  <1>4. /\ Load = Cardinality(Here) + Cardinality(Early)
        /\ Load' = Cardinality(Here)' + Cardinality(Early)'
    BY DEF Load
  <1>5. ASSUME NEW l, pc' = [pc EXCEPT ![p] = l]
        PROVE  /\ pc'[p] = l
               /\ pc[p] \in EarlyPlaces /\ l \notin EarlyPlaces =>
                     Cardinality(Early)' = Cardinality(Early) - 1
               /\ (pc[p] \in EarlyPlaces <=> l \in EarlyPlaces) =>
                     Cardinality(Early)' = Cardinality(Early)
    BY <1>1, <1>5, EarlyStep
  <1>6. ASSUME \A i \in Ids : Exists(i)' <=> Exists(i)
        PROVE  Cardinality(Here)' = Cardinality(Here)
    BY <1>1, <1>6, HereStep
  <1>7. ASSUME box' = box PROVE \A i \in Ids : Exists(i)' <=> Exists(i)
    BY <1>7 DEF Exists
  <1>8. pc'[p] \notin {"idle", "ended"} => p \in Active' BY DEF Active
  <1> USE <1>1, <1>3, <1>4
  <1>9. CASE Acquire(p)
    <2>1. /\ pc[p] = "queued" /\ pc' = [pc EXCEPT ![p] = "prepare"] /\ box' = box
          /\ job' = job /\ Charged' = Charged
      BY <1>2, <1>9 DEF Acquire, Goto
    <2>2. /\ pc'[p] = "prepare" /\ Cardinality(Early)' = Cardinality(Early)
          /\ Cardinality(Here)' = Cardinality(Here)
      BY <1>5, <1>6, <1>7, <2>1 DEF EarlyPlaces
    <2>3. Calm(p) => Calm(p)' BY <1>7, <2>1, <2>2 DEF Calm, Updating, EarlyPlaces
    <2> QED BY <1>7, <1>8, <2>1, <2>2, <2>3
  <1>10. CASE GiveUp(p) \/ DryRun(p)
    <2>1. /\ pc[p] = "queued" /\ pc' = [pc EXCEPT ![p] = "ended"] /\ box' = box
          /\ Charged' = Charged \/ Charged' = Charged + 1
      BY <1>2, <1>10 DEF GiveUp, DryRun, Goto, Write
    <2>2. /\ Cardinality(Early)' = Cardinality(Early) - 1
          /\ Cardinality(Here)' = Cardinality(Here)
      BY <1>5, <1>6, <1>7, <2>1 DEF EarlyPlaces
    <2> QED BY <2>1, <2>2
  <1>11. CASE Prepare(p) \/ Restore(p)
    <2>1. /\ pc[p] = "prepare" /\ box' = box /\ job' = job
          /\ \/ /\ pc' = [pc EXCEPT ![p] = "stop"] /\ Updating(p) /\ Charged' = Charged
             \/ /\ pc' = [pc EXCEPT ![p] = "inspect"] /\ ~Updating(p) /\ Charged' = Charged
             \/ /\ pc' = [pc EXCEPT ![p] = "fail"]
                /\ Charged' = Charged \/ Charged' = Charged + 1
      BY <1>2, <1>11 DEF Prepare, Restore, Call, Goto
    <2>2. Cardinality(Here)' = Cardinality(Here) BY <1>6, <1>7, <2>1
    <2>3. CASE pc' = [pc EXCEPT ![p] = "fail"]
      <3>1. Cardinality(Early)' = Cardinality(Early) - 1
        BY <1>5, <2>1, <2>3 DEF EarlyPlaces
      <3>2. Charged' = Charged \/ Charged' = Charged + 1 BY <2>1
      <3> QED BY <2>2, <3>1, <3>2
    <2>4. ASSUME NEW l \in {"stop", "inspect"}, pc' = [pc EXCEPT ![p] = l],
                 l = "stop" <=> Updating(p), Charged' = Charged
          PROVE  /\ Load' + Charged <= Load + Charged'
                 /\ Calm(p) => Calm(p)' /\ p \in Active'
      <3>1. /\ pc'[p] = l /\ Cardinality(Early)' = Cardinality(Early)
        BY <1>5, <2>1, <2>4 DEF EarlyPlaces
      <3>2. Calm(p) => Calm(p)'
        BY <1>7, <2>1, <2>4, <3>1 DEF Calm, Updating, EarlyPlaces
      <3> QED BY <1>8, <2>2, <2>4, <3>1, <3>2
    <2> QED BY <1>7, <2>1, <2>3, <2>4
  <1>12. CASE Inspect(p)
    <2>1. /\ pc[p] = "inspect" /\ box' = box
          /\ \/ /\ pc' = [pc EXCEPT ![p] = "stop"] /\ Exists(t) /\ Charged' = Charged
                /\ job' = [job EXCEPT ![p].name = box[t].name]
             \/ /\ pc' = [pc EXCEPT ![p] = "fail"]
                /\ Charged' = Charged \/ Charged' = Charged + 1
      BY <1>2, <1>12 DEF Inspect, Goto
    <2>2. Cardinality(Here)' = Cardinality(Here) BY <1>6, <1>7, <2>1
    <2>3. CASE pc' = [pc EXCEPT ![p] = "fail"]
      <3>1. Cardinality(Early)' = Cardinality(Early) - 1
        BY <1>5, <2>1, <2>3 DEF EarlyPlaces
      <3>2. Charged' = Charged \/ Charged' = Charged + 1 BY <2>1
      <3> QED BY <2>2, <3>1, <3>2
    <2>4. CASE /\ pc' = [pc EXCEPT ![p] = "stop"] /\ Exists(t) /\ Charged' = Charged
               /\ job' = [job EXCEPT ![p].name = box[t].name]
      <3>1. /\ pc'[p] = "stop" /\ Cardinality(Early)' = Cardinality(Early)
        BY <1>5, <2>1, <2>4 DEF EarlyPlaces
      <3>2. job[p] \in Jobs /\ job \in [Requests -> Jobs \cup {None}]
        BY <2>1 DEF TypeInv, TypeOK, JobsKnown
      <3>3. job'[p].target = t BY <2>4, <3>2 DEF Jobs
      <3>4. Exists(job[p].target)' BY <2>1, <2>4, <3>3 DEF Exists
      <3>5. Calm(p) => Calm(p)' BY <3>1, <3>3, <3>4 DEF Calm, EarlyPlaces
      <3> QED BY <1>7, <1>8, <2>1, <2>2, <2>4, <3>1, <3>5
    <2> QED BY <2>1, <2>3, <2>4
  <1>13. CASE Stop(p)
    <2>1. /\ pc[p] = "stop" /\ job' = job
          /\ box' = box \/ (Exists(t) /\ box' = Stopped(t))
          /\ \/ /\ pc' = [pc EXCEPT ![p] = "rename"] /\ Exists(t) /\ Charged' = Charged
             \/ /\ pc' = [pc EXCEPT ![p] = "rename"] \/ pc' = [pc EXCEPT ![p] = "fail"]
                /\ Charged' = Charged + 1
             \/ /\ pc' = [pc EXCEPT ![p] = "rename"] \/ pc' = [pc EXCEPT ![p] = "fail"]
                /\ ~Exists(t) \/ p \in canceled
                /\ Charged' = Charged
      BY <1>2, <1>13 DEF Stop, Call, Goto
    <2>2. \A i \in Ids : Exists(i)' <=> Exists(i) BY <1>7, <2>1, PointEffects
    <2>3. /\ Cardinality(Here)' = Cardinality(Here)
          /\ pc'[p] \in {"rename", "fail"}
          /\ \/ Cardinality(Early)' = Cardinality(Early)
             \/ Cardinality(Early)' = Cardinality(Early) - 1
      BY <1>5, <1>6, <2>1, <2>2 DEF EarlyPlaces
    <2>4. Calm(p) => p \notin canceled /\ Exists(t) BY <2>1 DEF Calm, EarlyPlaces
    <2>5. ASSUME pc' = [pc EXCEPT ![p] = "rename"], Calm(p) PROVE Calm(p)' /\ p \in Active'
      <3>1. pc'[p] = "rename" BY <2>5
      <3> QED BY <1>8, <2>1, <2>2, <2>4, <2>5, <3>1 DEF Calm, EarlyPlaces
    <2> QED BY <2>1, <2>2, <2>3, <2>4, <2>5
  <1>14. CASE Rename(p)
    <2>1. /\ pc[p] = "rename" /\ job' = job
          /\ box' = box \/ (Exists(t) /\ box' = Renamed(t, p))
          /\ Charged' = Charged \/ Charged' = Charged + 1
          /\ pc' = [pc EXCEPT ![p] = "create"] \/ pc' = [pc EXCEPT ![p] = "undoStart"]
      BY <1>2, <1>14 DEF Rename, Call, Goto
    <2>2. \A i \in Ids : Exists(i)' <=> Exists(i) BY <1>7, <2>1, PointEffects
    <2>3. Cardinality(Here)' = Cardinality(Here) BY <1>6, <2>2
    <2>4. CASE pc' = [pc EXCEPT ![p] = "create"]
      <3>1. pc'[p] = "create" /\ Cardinality(Early)' = Cardinality(Early)
        BY <1>5, <2>1, <2>4 DEF EarlyPlaces
      <3>2. Calm(p) => Calm(p)' BY <2>1, <2>2, <3>1 DEF Calm, EarlyPlaces
      <3> QED BY <1>8, <2>1, <2>2, <2>3, <3>1, <3>2
    <2>5. CASE pc' = [pc EXCEPT ![p] = "undoStart"]
      <3>1. Cardinality(Early)' = Cardinality(Early) - 1
        BY <1>5, <2>1, <2>5 DEF EarlyPlaces
      <3> QED BY <2>1, <2>3, <3>1
    <2> QED BY <2>1, <2>4, <2>5
  <1>15. CASE Create(p)
    <2>1. /\ pc[p] = "create" /\ job' = job
          /\ box' = box \/ box' = Created(p, job[p].name, job[p].to)
          /\ \/ /\ pc' = [pc EXCEPT ![p] = "start"] /\ Charged' = Charged
                /\ box' = Created(p, job[p].name, job[p].to)
             \/ /\ pc' = [pc EXCEPT ![p] = "undoRename"] /\ Charged' = Charged + 1
             \/ /\ pc' = [pc EXCEPT ![p] = "undoRename"] /\ Charged' = Charged /\ box' = box
      BY <1>2, <1>15 DEF Create, Call, Goto
    <2>2. Cardinality(Early)' = Cardinality(Early) - 1 BY <1>5, <2>1 DEF EarlyPlaces
    <2>3. CASE box' = box
      <3>1. Cardinality(Here)' = Cardinality(Here) BY <1>6, <1>7, <2>3
      <3> QED BY <2>1, <2>2, <3>1
    <2>4. CASE box' = Created(p, job[p].name, job[p].to)
      <3>1. Exists(p)' /\ \A j \in Ids \ {p} : box'[j] = box[j] BY <2>4, PointCreated
      <3>2. \A j \in Ids \ {p} : Exists(j)' <=> Exists(j) BY <3>1 DEF Exists
      <3>3. \/ Cardinality(Here)' = Cardinality(Here) + 1
            \/ Cardinality(Here)' = Cardinality(Here)
        BY <3>1, <3>2, HereStep
      <3>4. \A i \in Ids : Exists(i) => Exists(i)' BY <3>1, <3>2
      <3>5. ASSUME pc' = [pc EXCEPT ![p] = "start"], Calm(p) PROVE Calm(p)' /\ p \in Active'
        <4>1. pc'[p] = "start" BY <3>5
        <4>2. Exists(t) /\ p \notin canceled BY <2>1, <3>5 DEF Calm, EarlyPlaces
        <4> QED BY <1>8, <2>1, <3>1, <3>4, <4>1, <4>2 DEF Calm
      <3>6. CASE pc' = [pc EXCEPT ![p] = "start"] /\ Charged' = Charged
        BY <2>2, <3>3, <3>4, <3>5, <3>6
      <3>7. CASE Charged' = Charged + 1 BY <2>2, <3>3, <3>7
      <3> QED BY <2>1, <2>3, <3>6, <3>7
    <2> QED BY <2>1, <2>3, <2>4
  <1>16. CASE Start(p) \/ UndoStop(p)
    <2>1. /\ pc[p] \in {"start", "undoStop"} /\ job' = job
          /\ box' = box \/ (Exists(p) /\ box' \in {Started(p), Stopped(p)})
          /\ \E l \in {"health", "remove", "undoStop", "undoRemove"} :
                pc' = [pc EXCEPT ![p] = l]
          /\ \/ /\ Charged' = Charged
                /\ \/ pc[p] = "start" /\ pc' = [pc EXCEPT ![p] = "health"]
                   \/ pc[p] = "start" /\ pc' = [pc EXCEPT ![p] = "remove"]
                   \/ pc' = [pc EXCEPT ![p] = "undoStop"]
                   \/ pc' = [pc EXCEPT ![p] = "undoRemove"]
             \/ Charged' = Charged + 1
             \/ Charged' = Charged /\ (~Exists(p) \/ p \in canceled)
      BY <1>1, <1>2, <1>16, StartableFacts DEF Start, UndoStop, Call, Goto
    <2>2. \A i \in Ids : Exists(i)' <=> Exists(i) BY <1>7, <2>1, PointEffects
    <2>3. /\ Cardinality(Here)' = Cardinality(Here)
          /\ Cardinality(Early)' = Cardinality(Early)
      BY <1>5, <1>6, <2>1, <2>2 DEF EarlyPlaces
    <2>4. Calm(p) => /\ p \notin canceled /\ Exists(p)
                     /\ pc[p] = "start" => Exists(t)
      BY <2>1 DEF Calm, EarlyPlaces
    <2>5. ASSUME Calm(p), \/ pc[p] = "start" /\ pc' = [pc EXCEPT ![p] = "health"]
                          \/ pc[p] = "start" /\ pc' = [pc EXCEPT ![p] = "remove"]
                          \/ pc' = [pc EXCEPT ![p] = "undoStop"]
                          \/ pc' = [pc EXCEPT ![p] = "undoRemove"]
          PROVE  Calm(p)' /\ p \in Active'
      <3>1. \/ pc[p] = "start" /\ pc'[p] \in {"health", "remove"}
            \/ pc'[p] \in {"undoStop", "undoRemove"}
        BY <2>5
      <3> QED BY <1>8, <2>1, <2>2, <2>4, <2>5, <3>1 DEF Calm
    <2> QED BY <2>1, <2>2, <2>3, <2>4, <2>5
  <1>17. CASE Health(p)
    <2>1. /\ pc[p] = "health" /\ job' = job /\ box' = box /\ Charged' = Charged
          /\ pc' = [pc EXCEPT ![p] = "remove"] \/ pc' = [pc EXCEPT ![p] = "undoStop"]
      BY <1>2, <1>17 DEF Health, Goto
    <2>2. /\ Cardinality(Here)' = Cardinality(Here)
          /\ Cardinality(Early)' = Cardinality(Early) /\ pc'[p] \in {"remove", "undoStop"}
      BY <1>5, <1>6, <1>7, <2>1 DEF EarlyPlaces
    <2>3. Calm(p) => Calm(p)' BY <1>7, <2>1, <2>2 DEF Calm, EarlyPlaces
    <2> QED BY <1>7, <1>8, <2>1, <2>2, <2>3
  <1>18. ASSUME NEW i \in {p, t}, Calm(p) => Exists(i) /\ p \notin canceled,
                pc[p] \notin EarlyPlaces,
                NEW l, l \notin EarlyPlaces, pc' = [pc EXCEPT ![p] = l],
                \/ box' = Removed(i) /\ Exists(i) /\ Charged' = Charged
                \/ (box' = box \/ box' = Removed(i)) /\ Charged' = Charged + 1
                \/ box' = box /\ Charged' = Charged /\ (~Exists(i) \/ p \in canceled)
         PROVE  /\ Load' + Charged <= Load + Charged'
                /\ \/ Load' + Charged + 1 <= Load + Charged'
                   \/ box' = box /\ ~Calm(p)
    <2>1. Cardinality(Early)' = Cardinality(Early) BY <1>5, <1>18
    <2>2. /\ box' = box => Cardinality(Here)' = Cardinality(Here)
          /\ box' = Removed(i) /\ Exists(i) => Cardinality(Here)' = Cardinality(Here) - 1
          /\ box' = Removed(i) /\ ~Exists(i) => Cardinality(Here)' = Cardinality(Here)
      <3>1. CASE box' = box BY <1>6, <1>7, <3>1, PointRemoved, HereStep, <1>18 DEF Exists
      <3>2. CASE box' = Removed(i)
        <4>1. ~Exists(i)' /\ \A j \in Ids \ {i} : Exists(j)' <=> Exists(j)
          BY <1>18, <3>2, PointRemoved DEF Exists
        <4> QED BY <1>6, <1>7, <1>18, <4>1, HereStep
      <3> QED BY <3>1, <3>2
    <2> QED BY <1>18, <2>1, <2>2
  <1>19. CASE Remove(p)
    <2>1. /\ pc[p] = "remove" /\ pc' = [pc EXCEPT ![p] = "record"]
          /\ \/ box' = Removed(t) /\ Exists(t) /\ Charged' = Charged
             \/ (box' = box \/ box' = Removed(t)) /\ Charged' = Charged + 1
             \/ box' = box /\ Charged' = Charged /\ (~Exists(t) \/ p \in canceled)
      BY <1>2, <1>19 DEF Remove, Call, Goto
    <2>2. Calm(p) => Exists(t) /\ p \notin canceled BY <2>1 DEF Calm, EarlyPlaces
    <2>3. pc[p] \notin EarlyPlaces /\ "record" \notin EarlyPlaces BY <2>1 DEF EarlyPlaces
    <2> QED BY <1>7, <1>18, <2>1, <2>2, <2>3
  <1>20. CASE UndoRemove(p)
    <2>1. /\ pc[p] = "undoRemove" /\ pc' = [pc EXCEPT ![p] = "undoRename"]
          /\ \/ box' = Removed(p) /\ Exists(p) /\ Charged' = Charged
             \/ (box' = box \/ box' = Removed(p)) /\ Charged' = Charged + 1
             \/ box' = box /\ Charged' = Charged /\ (~Exists(p) \/ p \in canceled)
      BY <1>2, <1>20 DEF UndoRemove, Call, Goto
    <2>2. Calm(p) => Exists(p) /\ p \notin canceled BY <2>1 DEF Calm, EarlyPlaces
    <2>3. pc[p] \notin EarlyPlaces /\ "undoRename" \notin EarlyPlaces
      BY <2>1 DEF EarlyPlaces
    <2> QED BY <1>7, <1>18, <2>1, <2>2, <2>3
  <1>21. CASE UndoRename(p) \/ UndoStart(p) \/ Record(p) \/ Fail(p)
    <2>1. /\ pc[p] \in {"undoRename", "undoStart", "record", "fail"}
          /\ \E l \in {"undoStart", "fail", "ended"} : pc' = [pc EXCEPT ![p] = l]
          /\ \/ box' = box
             \/ Exists(t) /\ box' \in {Started(t), Renamed(t, job[p].name)}
          /\ Charged' = Charged \/ Charged' = Charged + 1
      BY <1>1, <1>2, <1>21, StartableFacts DEF UndoRename, UndoStart, Record, Fail, Call, Goto, Write
    <2>2. \A i \in Ids : Exists(i)' <=> Exists(i) BY <1>7, <2>1, PointEffects
    <2>3. /\ Cardinality(Here)' = Cardinality(Here)
          /\ Cardinality(Early)' = Cardinality(Early)
      BY <1>5, <1>6, <2>1, <2>2 DEF EarlyPlaces
    <2>4. ~Calm(p) BY <2>1 DEF Calm, EarlyPlaces
    <2> QED BY <2>1, <2>2, <2>3, <2>4
  <1> QED BY <1>9, <1>10, <1>11, <1>12, <1>13, <1>14, <1>15, <1>16, <1>17, <1>19, <1>20, <1>21
          DEF Step
\* A bound on the load, before and after a step.
LEMMA LoadSums ==
  ASSUME NEW a \in Nat, NEW b \in Nat, NEW c \in Nat, NEW d \in Nat
  PROVE  /\ b + c <= a + d => (a <= c => b <= d) /\ (a <= c + 1 => b <= d + 1)
         /\ b + c + 1 <= a + d => (a <= c + 1 => b <= d)
  OBVIOUS

LEMMA BothOneMore ==
  ASSUME NEW a \in Nat, NEW b, NEW c \in Nat, NEW d, b = a + 1, d = c + 1
  PROVE  (a <= c => b <= d) /\ (a <= c + 1 => b <= d + 1)
  OBVIOUS

\* A request that begins may create a container: it is charged when it overlaps
\* another, and otherwise it is the only one and calm.
LEMMA BeginLoad ==
  ASSUME LeftoverInv, TypeInv', NEW p \in Requests, pc[p] = "idle",
         NEW l \in EarlyPlaces, pc' = [pc EXCEPT ![p] = l], box' = box, canceled' = canceled,
         \A q \in Requests \ {p} : job'[q] = job[q],
         l \notin {"stop", "rename", "create"},
         Updating(p)' => Exists(job[p].target)',
         Active # {} => Charged' = Charged + 1,
         Active = {} => Charged' = Charged
  PROVE  LeftoverInv'
  <1>0. TypeInv /\ pc \in [Requests -> Places] BY DEF LeftoverInv, TypeInv, TypeOK
  <1>1. pc'[p] = l /\ \A q \in Requests \ {p} : pc'[q] = pc[q] BY <1>0
  <1>2. /\ Charged \in Nat /\ Charged' \in Nat
        /\ Cardinality(Here) \in Nat /\ Cardinality(Early) \in Nat
    BY <1>0, ChargedTypes, LoadTypes
  <1>3. Cardinality(Early)' = Cardinality(Early) + 1
    BY <1>1, EarlyStep DEF EarlyPlaces
  <1>4. \A i : Exists(i)' <=> Exists(i) BY DEF Exists
  <1>5. Here' = Here BY <1>4 DEF Here
  <1>6. Load' = Load + 1 /\ Load \in Nat BY <1>2, <1>3, <1>5 DEF Load
  <1>7. p \notin canceled /\ \A q \in canceled : pc'[q] # "idle"
    BY <1>0, <1>1 DEF LeftoverInv, TypeInv, TypeOK
  <1>8. Active' = Active \cup {p} /\ p \notin Active
    BY <1>1 DEF Active, EarlyPlaces
  <1>9. Calm(p)' BY <1>1, <1>7 DEF Calm
  <1>10. ASSUME NEW q \in Active, Calm(q) PROVE Calm(q)'
    <2>1. q \in Requests \ {p} BY <1>8, <1>10 DEF Active
    <2> QED BY <1>1, <1>4, <1>10, <2>1 DEF Calm, Updating
  <1>11. CASE Active = {}
    <2>1. Load <= Charged BY <1>11 DEF LeftoverInv, AllCalm
    <2>2. AllCalm' BY <1>8, <1>9, <1>11 DEF AllCalm
    <2> QED BY <1>2, <1>6, <1>7, <1>11, <2>1, <2>2 DEF LeftoverInv
  <1>12. CASE Active # {}
    <2>1. AllCalm => AllCalm' BY <1>8, <1>9, <1>10 DEF AllCalm
    <2>2. Charged' = Charged + 1 BY <1>12
    <2>3. /\ Load <= Charged => Load' <= Charged'
          /\ Load <= Charged + 1 => Load' <= Charged' + 1
      BY <1>2, <1>6, <2>2, BothOneMore
    <2> QED BY <1>7, <2>1, <2>3 DEF LeftoverInv
  <1> QED BY <1>11, <1>12

LEMMA NextLeftover ==
  ASSUME LeftoverInv, [Next]_vars
  PROVE  LeftoverInv'
  <1>0. TypeInv /\ TypeInv' BY NextTypes DEF LeftoverInv
  <1>1. /\ Charged \in Nat /\ Charged' \in Nat /\ Load \in Nat /\ Load' \in Nat
    BY <1>0, ChargedTypes, LoadTypes DEF Load
  <1>2. ASSUME NEW p \in Requests, Step(p) PROVE LeftoverInv'
    <2>1. /\ p \in Active /\ canceled' = canceled
          /\ \E l : pc' = [pc EXCEPT ![p] = l]
          /\ \A q \in Requests \ {p} : job'[q] = job[q]
      <3>1. p \in Active /\ canceled' = canceled BY <1>0, <1>2, StepFrame
      <3>2. \E l : pc' = [pc EXCEPT ![p] = l]
        BY <1>2 DEF Step, Acquire, GiveUp, DryRun, Inspect, Prepare, Restore, Stop,
               Rename, Create, Start, Health, Remove, Record, UndoStop, UndoRemove,
               UndoRename, UndoStart, Fail, Call, Goto
      <3>3. \A q \in Requests \ {p} : job'[q] = job[q]
        <4>1. job' = job \/ Inspect(p)
          BY <1>2 DEF Step, Acquire, GiveUp, DryRun, Prepare, Restore, Stop, Rename, Create,
                 Start, Health, Remove, Record, UndoStop, UndoRemove, UndoRename, UndoStart, Fail
        <4>2. Inspect(p) => job' = job \/ \E n : job' = [job EXCEPT ![p].name = n]
          BY DEF Inspect
        <4> QED BY <1>0, <4>1, <4>2 DEF TypeInv, TypeOK
      <3> QED BY <3>1, <3>2, <3>3
    <2>2. \A q \in Requests \ {p} : pc'[q] = pc[q]
      BY <1>0, <2>1 DEF TypeInv, TypeOK
    <2>3. pc'[p] # "idle"
      BY <1>0, <1>2 DEF TypeInv, TypeOK, Step, Acquire, GiveUp, DryRun, Inspect, Prepare,
             Restore, Stop, Rename, Create, Start, Health, Remove, Record, UndoStop,
             UndoRemove, UndoRename, UndoStart, Fail, Call, Goto
    <2>4. \A q \in canceled : pc'[q] # "idle"
      BY <1>0, <2>2, <2>3 DEF LeftoverInv, TypeInv, TypeOK
    <2>5. /\ Load' + Charged <= Load + Charged'
          /\ \/ Load' + Charged + 1 <= Load + Charged'
             \/ /\ \A i \in Ids : Exists(i) => Exists(i)'
                /\ Calm(p) => Calm(p)' /\ p \in Active'
      BY <1>0, <1>2, StepLoad
    <2>6. /\ Load <= Charged => Load' <= Charged'
          /\ Load <= Charged + 1 => Load' <= Charged' + 1
          /\ Load' + Charged + 1 <= Load + Charged' =>
                (Load <= Charged + 1 => Load' <= Charged')
      BY <1>1, <2>5, LoadSums
    <2>7. ASSUME Load <= Charged + 1, AllCalm
          PROVE  Load' <= Charged' \/ (Load' <= Charged' + 1 /\ AllCalm')
      <3>1. CASE Load' + Charged + 1 <= Load + Charged' BY <2>6, <2>7, <3>1
      <3>2. CASE /\ \A i \in Ids : Exists(i) => Exists(i)'
                 /\ Calm(p) => Calm(p)' /\ p \in Active'
        <4>1. Calm(p)' /\ p \in Active' BY <2>1, <2>7, <3>2 DEF AllCalm
        <4>2. ASSUME NEW q \in Active', q # p PROVE Calm(q)'
          <5>1. q \in Requests /\ pc'[q] = pc[q] /\ q \in Active
            BY <2>2, <4>2 DEF Active
          <5>2. Calm(q) BY <2>7, <5>1 DEF AllCalm
          <5>3. job'[q] = job[q] BY <2>1, <4>2, <5>1
          <5>4. q \in Ids /\ job[q].target \in Ids
            BY <1>0, <5>1 DEF Ids, Active, TypeInv, JobsKnown, Jobs
          <5> QED BY <2>1, <3>2, <5>1, <5>2, <5>3, <5>4 DEF Calm, Updating
        <4>3. AllCalm' BY <4>1, <4>2 DEF AllCalm
        <4> QED BY <2>6, <2>7, <4>3
      <3> QED BY <2>5, <3>1, <3>2
    <2> QED BY <1>0, <2>1, <2>4, <2>6, <2>7 DEF LeftoverInv
  <1>3. ASSUME NEW p \in Requests, NEW i \in Ids, NEW v \in Versions, UpdateContainer(p, i, v)
        PROVE  LeftoverInv'
    <2> DEFINE K == Overlaps \cup (IF box[i].name = Service THEN {} ELSE {"stray"})
    <2>1. /\ Spend(K) /\ box' = box /\ canceled' = canceled /\ pc[p] = "idle" /\ Exists(i)
          /\ pc' = [pc EXCEPT ![p] = "queued"]
          /\ job' = [job EXCEPT ![p] = [kind |-> "update", of |-> p, target |-> i,
                                        name |-> box[i].name, from |-> box[i].image, to |-> v]]
      BY <1>3 DEF UpdateContainer, Goto, Begin
    <2>2. K \subseteq {"overlap", "stray", "rollback"} /\ ("overlap" \in K <=> Active # {})
      BY DEF Overlaps
    <2>3. Charged' = IF "overlap" \in K THEN Charged + 1 ELSE Charged
      <3> HIDE DEF K
      <3> QED BY <1>0, <2>1, <2>2, SpendCharged
    <2>4. job'[p].target = i /\ \A q \in Requests \ {p} : job'[q] = job[q]
      BY <1>0, <2>1 DEF TypeInv, TypeOK
    <2>5. Exists(job[p].target)' BY <2>1, <2>4 DEF Exists
    <2>6. "queued" \in EarlyPlaces BY DEF EarlyPlaces
    <2> HIDE DEF K
    <2> QED BY <1>0, <2>1, <2>2, <2>3, <2>4, <2>5, <2>6, BeginLoad
  <1>4. ASSUME NEW p \in Requests, NEW u \in Requests, RollbackUpdate(p, u) PROVE LeftoverInv'
    <2> DEFINE K == Overlaps \cup {"rollback"}
    <2>1. /\ Spend(K) /\ box' = box /\ canceled' = canceled /\ pc[p] = "idle"
          /\ pc' = [pc EXCEPT ![p] = "prepare"]
          /\ job' = [job EXCEPT ![p] = [kind |-> "rollback", of |-> u,
                                        target |-> job[u].target, name |-> Service,
                                        from |-> job[u].from, to |-> job[u].from]]
      BY <1>4 DEF RollbackUpdate, Goto, Begin
    <2>2. K \subseteq {"overlap", "stray", "rollback"} /\ ("overlap" \in K <=> Active # {})
      BY DEF Overlaps
    <2>3. Charged' = IF "overlap" \in K THEN Charged + 1 ELSE Charged
      <3> HIDE DEF K
      <3> QED BY <1>0, <2>1, <2>2, SpendCharged
    <2>4. job'[p].kind = "rollback" /\ \A q \in Requests \ {p} : job'[q] = job[q]
      BY <1>0, <2>1 DEF TypeInv, TypeOK
    <2>5. ~Updating(p)' BY <2>4 DEF Updating
    <2>6. "prepare" \in EarlyPlaces BY DEF EarlyPlaces
    <2> HIDE DEF K
    <2> QED BY <1>0, <2>1, <2>2, <2>3, <2>4, <2>5, <2>6, BeginLoad
  <1>5. ASSUME Charged' = Charged + 1, Load' <= Load, \A p \in canceled' : pc'[p] # "idle"
        PROVE  LeftoverInv'
    BY <1>0, <1>1, <1>5 DEF LeftoverInv
  <1>6. ASSUME NEW p \in Requests, Cancel(p) PROVE LeftoverInv'
    <2>1. /\ Spend({"cancel"}) /\ UNCHANGED <<box, pc>> /\ canceled' = canceled \cup {p}
          /\ pc[p] # "idle"
      BY <1>6 DEF Cancel, Active, Mishap
    <2>2. Charged' = Charged + 1 BY <1>0, <2>1, SpendCharged
    <2>3. Load' = Load BY <2>1 DEF Load, Here, Early, Exists
    <2>4. \A q \in canceled' : pc'[q] # "idle" BY <2>1 DEF LeftoverInv
    <2> QED BY <1>1, <1>5, <2>2, <2>3, <2>4
  <1>7. CASE Crash
    <2>1. /\ Spend({"crash"}) /\ UNCHANGED <<box, canceled>>
          /\ pc' = [p \in Requests |-> IF p \in Active THEN "ended" ELSE pc[p]]
      BY <1>7 DEF Crash, Mishap
    <2>2. Charged' = Charged + 1 BY <1>0, <2>1, SpendCharged
    <2>3. Here' = Here BY <2>1 DEF Here, Exists
    <2>4. Early' = {} BY <2>1 DEF Early, EarlyPlaces, Active
    <2>5. Cardinality(Early') = 0 BY <2>4, FS_EmptySet
    <2>6. Load' <= Load BY <2>3, <2>5, LoadTypes DEF Load
    <2>7. \A q \in canceled' : pc'[q] # "idle"
      BY <1>0, <2>1 DEF LeftoverInv, TypeInv, TypeOK, Active
    <2> QED BY <1>5, <2>2, <2>6, <2>7
  <1>8. CASE UNCHANGED vars
    <2>1. UNCHANGED <<box, pc, job, canceled, used>> BY <1>8 DEF vars
    <2>2. /\ Load' = Load /\ Charged' = Charged /\ Active' = Active
          /\ \A q \in Requests : Calm(q)' <=> Calm(q)
      BY <2>1 DEF Load, Here, Early, Exists, Charged, Active, Calm, Updating
    <2>3. AllCalm => AllCalm' BY <2>2 DEF AllCalm, Active
    <2> QED BY <1>0, <2>1, <2>2, <2>3 DEF LeftoverInv
  <1> QED BY <1>2, <1>3, <1>4, <1>6, <1>7, <1>8 DEF Next

LEMMA InitLeftover == Init => LeftoverInv
  <1> SUFFICES ASSUME Init PROVE LeftoverInv OBVIOUS
  <1>1. \A k \in Kinds : used[k] = 0 BY DEF Init
  <1>2. Charged = 1 BY <1>1 DEF Charged, Kinds
  <1>3. Early = {} /\ canceled = {} BY DEF Init, Early, EarlyPlaces
  <1>4. Here \subseteq {First} BY DEF Init, Here, Exists
  <1>5. Cardinality({First}) = 1 /\ IsFiniteSet({First}) BY FS_Singleton
  <1>6. Cardinality(Here) <= 1 BY <1>4, <1>5, FS_Subset
  <1>7. Cardinality(Early) = 0 BY <1>3, FS_EmptySet
  <1>8. Load <= Charged BY <1>2, <1>6, <1>7, LoadTypes DEF Load
  <1> QED BY <1>3, <1>8, InitTypes DEF LeftoverInv

\* Whatever fails, is cancelled, crashes, overlaps or is rolled back: there is one
\* container, and at most one more for each refused or lost call, cancelled
\* request, crash and overlap, and for each request that is being served.  So one
\* update after the other that meets no failure leaves no container behind, nor
\* does one that is undone because the new container is sick.
THEOREM LeftoversAreCharged == Spec => []LeftoverPerMishap
  <1>1. LeftoverInv => LeftoverPerMishap
    <2> SUFFICES ASSUME LeftoverInv PROVE Cardinality(Here) <= Charged + Cardinality(Active)
      BY DEF LeftoverPerMishap, Here, Charged
    <2>1. IsFiniteSet(Active) /\ Cardinality(Active) \in Nat
      <3>1. Active \in SUBSET Ids BY DEF Active, Ids
      <3> QED BY <3>1, CountFinite
    <2>2. Active # {} => Cardinality(Active) >= 1
      BY <2>1, FS_EmptySet
    <2>3. Charged \in Nat
      <3>1. \A k \in Kinds : used[k] \in Nat BY DEF LeftoverInv, TypeInv, TypeOK
      <3> QED BY <3>1 DEF Charged, Kinds
    <2>4. Cardinality(Here) <= Load /\ Load \in Nat BY LoadTypes DEF Load
    <2> QED BY <2>1, <2>2, <2>3, <2>4, LoadTypes DEF LeftoverInv, AllCalm
  <1> QED BY <1>1, InitLeftover, NextLeftover, PTL DEF Spec
================================================================================
