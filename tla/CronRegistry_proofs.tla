-------------------------- MODULE CronRegistry_proofs --------------------------
(***************************************************************************)
(* Proofs about CronRegistry, for any number of scheduled jobs, clients    *)
(* and requests.                                                           *)
(***************************************************************************)
EXTENDS CronRegistry, FiniteSetTheorems, TLAPS

-------------------------------------------------------------------------------
(* Types *)

\* A request in progress has a job at hand.
Busy == \A c \in Clients : pc[c] # "idle" => id[c] \in Ids
\* A request that is about to register has a job to register.
Holding == \A c \in Clients : pc[c] \in {"unregister", "register"} => snap[c] \in ScheduledJob

TypeInv == TypeOK /\ Busy /\ Holding

\* The job of a live entry is enabled and its schedule is one that cron takes.
EntryJob == [enabled : {TRUE}, schedule : Registrable]
Entries == [entry : Nat \ {0}, id : Ids, job : EntryJob]

\* The type of the registry.
RegistryOK ==
    /\ cronEntries \in [Ids -> Nat] /\ nextEntry \in Nat \ {0}
    /\ cron \subseteq Entries

\* The type of the rest.
RestOK ==
    /\ rows \in [Ids -> ScheduledJob \cup {NoJob}]
    /\ pc \in [Clients -> {"idle", "update", "unregister", "register", "delete"}]
    /\ id \in [Clients -> Ids \cup {NoId}]
    /\ snap \in [Clients -> ScheduledJob \cup {NoJob}]
    /\ gone \subseteq Ids /\ disturbed \subseteq Ids
    /\ used \in [Kinds -> Nat]
    /\ Busy /\ Holding

\* The two parts make up the type invariant.
LEMMA TypeParts == TypeInv <=> RegistryOK /\ RestOK
  BY DEF TypeInv, TypeOK, RegistryOK, RestOK, Entries, EntryJob

\* A job is told from no job by its switch.
LEMMA JobFacts ==
    /\ \A j \in ScheduledJob : j.enabled \in BOOLEAN /\ j.schedule \in Schedules
    /\ \A j \in ScheduledJob : j.enabled /\ j.schedule \in Registrable => j \in EntryJob
    /\ NoJob.enabled = FALSE
  BY CronAssumption DEF ScheduledJob, EntryJob, NoJob

\* An entry has the parts it was made of.
LEMMA EntryFacts ==
    /\ \A e \in Nat \ {0}, i \in Ids, j \in EntryJob : Entry(e, i, j) \in Entries
    /\ \A e, i, j : /\ Entry(e, i, j).entry = e
                    /\ Entry(e, i, j).id = i
                    /\ Entry(e, i, j).job = j
  BY DEF Entry, Entries

\* registerCronJob keeps the types of the registry.
LEMMA RegisteredType ==
    ASSUME RegistryOK, NEW i \in Ids, NEW j \in ScheduledJob, j.enabled, Registered(i, j)
    PROVE  RegistryOK'
  <1>1. CASE j.schedule \in Registrable
    <2>1. Entry(nextEntry, i, j) \in Entries
      BY <1>1, JobFacts, EntryFacts DEF RegistryOK
    <2> QED
      BY <1>1, <2>1 DEF Registered, RegistryOK
  <1>2. CASE j.schedule \notin Registrable
    BY <1>2 DEF Registered, RegistryOK
  <1> QED
    BY <1>1, <1>2

\* So does unregisterCronJob.
LEMMA UnregisteredType ==
    ASSUME RegistryOK, NEW i \in Ids, Unregistered(i)
    PROVE  RegistryOK'
  BY DEF Unregistered, RegistryOK

\* The numbers given to the entries loaded by a new process.
LEMMA LoadedFacts ==
    ASSUME NEW js \in SUBSET Ids, NEW f \in Loaded(js)
    PROVE  /\ Cardinality(js) \in Nat
           /\ \A i \in js : f[i] \in Nat \ {0} /\ f[i] <= Cardinality(js)
           /\ \A i, j \in js : f[i] = f[j] => i = j
  <1>1. Cardinality(js) \in Nat
    BY FS_Subset, FS_CardinalityType, CronAssumption
  <1> QED
    BY <1>1 DEF Loaded

\* The jobs that loadScheduledJobs registers, and what it makes of them.
LEMMA StartFacts ==
    ASSUME RestOK, NEW listed \in BOOLEAN, Start(listed)
    PROVE  \E js \in SUBSET Ids : \E f \in Loaded(js) :
               /\ \A i \in js : rows[i] \in EntryJob
               /\ listed => js = {i \in Ids : rows[i].enabled /\ rows[i].schedule \in Registrable}
               /\ cron' = {Entry(f[i], i, rows[i]) : i \in js}
               /\ cronEntries' = [i \in Ids |-> IF i \in js THEN f[i] ELSE 0]
               /\ nextEntry' = Cardinality(js) + 1
  <1> DEFINE js == IF listed THEN {i \in Enabled : rows[i].schedule \in Registrable} ELSE {}
  <1>1. js \in SUBSET Ids
    BY DEF Enabled
  <1>2. \A i \in js : rows[i] \in EntryJob
    BY JobFacts DEF Enabled, RestOK
  <1>3. listed => js = {i \in Ids : rows[i].enabled /\ rows[i].schedule \in Registrable}
    BY DEF Enabled
  <1>4. \E f \in Loaded(js) :
               /\ cron' = {Entry(f[i], i, rows[i]) : i \in js}
               /\ cronEntries' = [i \in Ids |-> IF i \in js THEN f[i] ELSE 0]
               /\ nextEntry' = Cardinality(js) + 1
    BY DEF Start
  <1> HIDE DEF js
  <1> QED
    BY <1>1, <1>2, <1>3, <1>4

\* A new process starts with well-typed entries.
LEMMA StartType ==
    ASSUME RestOK, NEW listed \in BOOLEAN, Start(listed)
    PROVE  RegistryOK'
  <1>1. PICK js \in SUBSET Ids : \E f \in Loaded(js) :
               /\ \A i \in js : rows[i] \in EntryJob
               /\ cron' = {Entry(f[i], i, rows[i]) : i \in js}
               /\ cronEntries' = [i \in Ids |-> IF i \in js THEN f[i] ELSE 0]
               /\ nextEntry' = Cardinality(js) + 1
    BY StartFacts
  <1>2. PICK f \in Loaded(js) :
               /\ \A i \in js : rows[i] \in EntryJob
               /\ cron' = {Entry(f[i], i, rows[i]) : i \in js}
               /\ cronEntries' = [i \in Ids |-> IF i \in js THEN f[i] ELSE 0]
               /\ nextEntry' = Cardinality(js) + 1
    BY <1>1
  <1>3. cron' \subseteq Entries
    BY <1>2, LoadedFacts, EntryFacts
  <1>4. cronEntries' \in [Ids -> Nat] /\ nextEntry' \in Nat \ {0}
    BY <1>2, LoadedFacts
  <1> QED
    BY <1>3, <1>4 DEF RegistryOK

\* A bounded event is counted.
LEMMA SpendType == ASSUME RestOK, NEW k \in Kinds, Spend(k) PROVE used' \in [Kinds -> Nat]
  BY DEF RestOK, Spend

\* Every step keeps the types.
LEMMA TypeStep == TypeInv /\ [Next]_vars => TypeInv'
  <1> SUFFICES ASSUME RegistryOK, RestOK, [Next]_vars PROVE RegistryOK' /\ RestOK'
    BY DEF TypeInv, TypeOK, RegistryOK, RestOK, Entries, EntryJob
  <1> USE DEF At, Goto
  <1>1. ASSUME NEW c \in Clients, NEW i \in Ids, NEW j \in ScheduledJob, Create(c, i, j)
        PROVE  RegistryOK' /\ RestOK'
    BY <1>1, SpendType DEF Create, Accept, registry, RegistryOK, RestOK, Busy, Holding, Kinds
  <1>2. ASSUME NEW c \in Clients, NEW i \in Ids, UpdateGet(c, i)
        PROVE  RegistryOK' /\ RestOK'
    BY <1>2, SpendType DEF UpdateGet, Accept, registry, RegistryOK, RestOK, Busy, Holding, Kinds
  <1>3. ASSUME NEW c \in Clients, NEW i \in Ids, DeleteUnregister(c, i)
        PROVE  RegistryOK' /\ RestOK'
    <2>1. RegistryOK'
      BY <1>3, UnregisteredType DEF DeleteUnregister
    <2>2. RestOK'
      BY <1>3, SpendType DEF DeleteUnregister, Accept, RestOK, Busy, Holding, Kinds
    <2> QED
      BY <2>1, <2>2
  <1>4. ASSUME NEW c \in Clients, NEW j \in ScheduledJob, UpdatePut(c, j)
        PROVE  RegistryOK' /\ RestOK'
    BY <1>4 DEF UpdatePut, Reply, registry, RegistryOK, RestOK, Busy, Holding
  <1>5. ASSUME NEW c \in Clients, UpdateUnregister(c)
        PROVE  RegistryOK' /\ RestOK'
    <2>1. RegistryOK'
      BY <1>5, UnregisteredType DEF UpdateUnregister, RestOK, Busy
    <2>2. RestOK'
      BY <1>5 DEF UpdateUnregister, RestOK, Busy, Holding
    <2> QED
      BY <2>1, <2>2
  <1>6. ASSUME NEW c \in Clients, Register(c)
        PROVE  RegistryOK' /\ RestOK'
    <2>1. RegistryOK'
      <3>1. CASE snap[c].enabled
        BY <1>6, <3>1, RegisteredType DEF Register, RestOK, Busy, Holding
      <3>2. CASE ~snap[c].enabled
        BY <1>6, <3>2 DEF Register, registry, RegistryOK
      <3> QED
        BY <3>1, <3>2
    <2>2. RestOK'
      BY <1>6 DEF Register, Reply, RestOK, Busy, Holding
    <2> QED
      BY <2>1, <2>2
  <1>7. ASSUME NEW c \in Clients, DeleteRow(c)
        PROVE  RegistryOK' /\ RestOK'
    BY <1>7 DEF DeleteRow, Reply, registry, RegistryOK, RestOK, Busy, Holding
  <1>8. ASSUME NEW c \in Clients, StatementFails(c)
        PROVE  RegistryOK' /\ RestOK'
    BY <1>8, SpendType DEF StatementFails, Reply, registry, RegistryOK, RestOK, Busy, Holding,
       Kinds
  <1>9. ASSUME NEW listed \in BOOLEAN, Start(listed)
        PROVE  RegistryOK' /\ RestOK'
    <2>1. RestOK'
      BY <1>9, SpendType DEF Start, RestOK, Busy, Holding, Kinds
    <2> QED
      BY <1>9, <2>1, StartType
  <1>10. CASE UNCHANGED vars
    BY <1>10 DEF vars, RegistryOK, RestOK, Busy, Holding
  <1> QED
    BY <1>1, <1>2, <1>3, <1>4, <1>5, <1>6, <1>7, <1>8, <1>9, <1>10
       DEF Next, Request, ClientStep

\* The types hold at the start.
LEMMA TypeInit == Init => TypeInv
  BY CronAssumption DEF Init, TypeInv, TypeOK, Busy, Holding, Kinds

\* The type invariant of the cron registry: in particular every entry that can fire
\* has captured an enabled job with a schedule that cron takes.
THEOREM CronTypeCorrect == Spec => []TypeOK
  <1>1. TypeInv => TypeOK
    BY DEF TypeInv
  <1> QED
    BY <1>1, TypeInit, TypeStep, PTL DEF Spec

-------------------------------------------------------------------------------
(* Entries and the map *)

\* Numbers of entries are used once, and the map gives no number to two jobs.
Numbered ==
    /\ \A x \in cron : x.entry < nextEntry
    /\ \A i \in Ids : cronEntries[i] < nextEntry
    /\ \A i, j \in Ids : cronEntries[i] = cronEntries[j] /\ cronEntries[i] # 0 => i = j

NoEntry(i) == \A x \in cron : x.id # i

\* The entries of the other jobs are left alone.
SameEntries(i) == \A x : x.id # i => (x \in cron' <=> x \in cron)

\* What is removed with the entry the map names for a job is all its entries, and
\* nothing else.
LEMMA RemoveFacts ==
    ASSUME RegistryOK, EntriesTracked, Numbered, NEW i \in Ids, NEW x \in cron
    PROVE  x.entry # cronEntries[i] <=> x.id # i
  <1>1. x.id \in Ids /\ x.entry \in Nat \ {0} /\ cronEntries[x.id] = x.entry
    BY DEF RegistryOK, Entries, EntriesTracked
  <1> QED
    BY <1>1 DEF Numbered

\* unregisterCronJob removes the entries of the job and no other.
LEMMA UnregisteredFacts ==
    ASSUME RegistryOK, EntriesTracked, Numbered, NEW i \in Ids, Unregistered(i)
    PROVE  EntriesTracked' /\ Numbered' /\ SameEntries(i) /\ NoEntry(i)'
  <1>1. \A x : x \in cron' <=> x \in cron /\ x.id # i
    BY RemoveFacts DEF Unregistered
  <1>2. EntriesTracked'
    BY <1>1 DEF Unregistered, EntriesTracked, RegistryOK, Entries
  <1>3. Numbered'
    BY <1>1 DEF Unregistered, Numbered, RegistryOK
  <1> QED
    BY <1>1, <1>2, <1>3 DEF SameEntries, NoEntry

\* registerCronJob leaves the job with one entry, or with none when cron refuses
\* its schedule.
LEMMA RegisteredFacts ==
    ASSUME RegistryOK, EntriesTracked, Numbered, NEW i \in Ids, NEW j, Registered(i, j)
    PROVE  /\ EntriesTracked' /\ Numbered' /\ SameEntries(i)
           /\ \A x \in cron' : x.id = i => x.job = j
           /\ (\E x \in cron' : x.id = i) <=> j.schedule \in Registrable
  <1>1. \A x \in cron : x.entry # cronEntries[i] <=> x.id # i
    BY RemoveFacts
  <1>2. CASE j.schedule \in Registrable
    <2>1. \A x : x \in cron' <=> (x \in cron /\ x.id # i) \/ x = Entry(nextEntry, i, j)
      BY <1>1, <1>2 DEF Registered
    <2>2. EntriesTracked'
      BY <1>2, <2>1, EntryFacts DEF Registered, EntriesTracked, RegistryOK, Entries
    <2>3. Numbered'
      <3>1. \A x \in cron' : x.entry < nextEntry'
        BY <1>2, <2>1, EntryFacts DEF Registered, Numbered, RegistryOK, Entries
      <3>2. \A k \in Ids : cronEntries'[k] < nextEntry'
        BY <1>2 DEF Registered, Numbered, RegistryOK
      <3>3. \A k, l \in Ids : cronEntries'[k] = cronEntries'[l] /\ cronEntries'[k] # 0 => k = l
        BY <1>2 DEF Registered, Numbered, RegistryOK
      <3> QED
        BY <3>1, <3>2, <3>3 DEF Numbered
    <2> QED
      BY <1>2, <2>1, <2>2, <2>3, EntryFacts DEF SameEntries
  <1>3. CASE j.schedule \notin Registrable
    <2>1. \A x : x \in cron' <=> x \in cron /\ x.id # i
      BY <1>1, <1>3 DEF Registered
    <2>2. EntriesTracked' /\ Numbered'
      BY <1>3, <2>1 DEF Registered, EntriesTracked, Numbered
    <2> QED
      BY <1>3, <2>1, <2>2 DEF SameEntries
  <1> QED
    BY <1>2, <1>3

\* A new process numbers its entries afresh, and in agreement with the table when
\* it could read it.
LEMMA StartedFacts ==
    ASSUME RestOK, NEW listed \in BOOLEAN, Start(listed)
    PROVE  /\ EntriesTracked' /\ Numbered'
           /\ listed => \A i \in Ids : Agrees(i)'
  <1>0. PICK js \in SUBSET Ids : \E f \in Loaded(js) :
               /\ listed => js = {i \in Ids : rows[i].enabled /\ rows[i].schedule \in Registrable}
               /\ cron' = {Entry(f[i], i, rows[i]) : i \in js}
               /\ cronEntries' = [i \in Ids |-> IF i \in js THEN f[i] ELSE 0]
               /\ nextEntry' = Cardinality(js) + 1
    BY StartFacts
  <1>1. PICK f \in Loaded(js) :
               /\ listed => js = {i \in Ids : rows[i].enabled /\ rows[i].schedule \in Registrable}
               /\ cron' = {Entry(f[i], i, rows[i]) : i \in js}
               /\ cronEntries' = [i \in Ids |-> IF i \in js THEN f[i] ELSE 0]
               /\ nextEntry' = Cardinality(js) + 1
    BY <1>0
  <1>2. EntriesTracked'
    BY <1>1, EntryFacts DEF EntriesTracked
  <1>3. Numbered'
    <2>1. \A x \in cron' : x.entry < nextEntry'
      BY <1>1, EntryFacts, LoadedFacts
    <2>2. \A i \in Ids : cronEntries'[i] < nextEntry'
      BY <1>1, LoadedFacts
    <2>3. \A i, j \in Ids : cronEntries'[i] = cronEntries'[j] /\ cronEntries'[i] # 0 => i = j
      BY <1>1, LoadedFacts
    <2> QED
      BY <2>1, <2>2, <2>3 DEF Numbered
  <1>4. ASSUME listed, NEW i \in Ids PROVE Agrees(i)'
    <2>1. rows' = rows
      BY DEF Start
    <2>2. \A x \in cron' : x.id = i => x.job = rows[i]
      BY <1>1, EntryFacts
    <2>3. (\E x \in cron' : x.id = i) <=> i \in js
      BY <1>1, EntryFacts
    <2> QED
      BY <1>1, <1>4, <2>1, <2>2, <2>3 DEF Agrees
  <1> QED
    BY <1>2, <1>3, <1>4

-------------------------------------------------------------------------------
(* Agreement of cron and the table *)

\* An idle client has no job.
IdleFree == \A c \in Clients : pc[c] = "idle" => id[c] = NoId

\* Only one request at a time works on an undisturbed job.
Solo(i) == \A c, d \in Clients : id[c] = i /\ id[d] = i => c = d

\* What a request has made sure of, at each of its steps.
Progress(i) ==
    \A c \in Clients : id[c] = i =>
        /\ pc[c] = "update" => Agrees(i)
        /\ pc[c] \in {"unregister", "register"} => rows[i] = snap[c]
        /\ pc[c] \in {"register", "delete"} => NoEntry(i)

Orderly(i) ==
    /\ Solo(i) /\ Progress(i)
    /\ (\A c \in Clients : id[c] # i) => Agrees(i)

\* The inductive invariant behind RegistryAgrees.
CronInv ==
    /\ RegistryOK /\ RestOK
    /\ EntriesTracked /\ Numbered /\ IdleFree
    /\ \A i \in Ids \ disturbed : Orderly(i)

\* A job without a row agrees with the registry when it has no entry.
LEMMA AgreesFacts ==
    ASSUME RestOK, NEW i \in Ids
    PROVE  /\ Agrees(i) /\ rows[i] = NoJob => NoEntry(i)
           /\ NoEntry(i) /\ ~rows[i].enabled => Agrees(i)
  BY JobFacts DEF Agrees, NoEntry

\* A step that is about another job keeps a job in order.
LEMMA KeepOrderly ==
    ASSUME RestOK, NEW k \in Ids, NEW i \in Ids, i # k, Orderly(i), SameEntries(k),
           rows'[i] = rows[i], NEW c \in Clients, id'[c] # i, id[c] # i,
           \A d \in Clients : d # c => pc'[d] = pc[d] /\ id'[d] = id[d] /\ snap'[d] = snap[d]
    PROVE  Orderly(i)'
  <1>1. Agrees(i) => Agrees(i)'
    BY DEF Agrees, SameEntries
  <1>2. NoEntry(i) => NoEntry(i)'
    BY DEF NoEntry, SameEntries
  <1> QED
    BY <1>1, <1>2 DEF Orderly, Solo, Progress

\* A step that leaves the registry alone keeps every entry.
LEMMA SameRegistry == UNCHANGED registry => \A i : SameEntries(i)
  BY DEF registry, SameEntries

\* CronInv holds at the start.
LEMMA CronInit == Init => CronInv
  <1> SUFFICES ASSUME Init PROVE CronInv
    OBVIOUS
  <1>1. RegistryOK /\ RestOK
    BY TypeInit, TypeParts
  <1>2. EntriesTracked /\ Numbered /\ IdleFree
    BY DEF Init, EntriesTracked, Numbered, IdleFree
  <1>3. ASSUME NEW i \in Ids PROVE Orderly(i)
    BY <1>3, JobFacts, CronAssumption DEF Init, Orderly, Solo, Progress, Agrees
  <1> QED
    BY <1>1, <1>2, <1>3 DEF CronInv

\* The beginning of a request keeps CronInv.
LEMMA AcceptStep ==
    ASSUME CronInv, NEW c \in Clients, NEW i \in Ids, NEW l, Accept(c, i, l),
           NEW k \in Ids \ disturbed'
    PROVE  /\ k \in Ids \ disturbed /\ Orderly(k)
           /\ id[c] # k
           /\ k = i => (\A d \in Clients : id[d] # i) /\ Agrees(i)
           /\ k # i => id'[c] # k
           /\ id'[c] = i /\ pc'[c] = l
           /\ \A d \in Clients : d # c => id'[d] = id[d] /\ pc'[d] = pc[d]
  <1>1. k \in Ids \ disturbed /\ id[c] = NoId
    BY CronAssumption DEF Accept, CronInv, IdleFree, At
  <1>2. id'[c] = i /\ pc'[c] = l /\ \A d \in Clients : d # c => id'[d] = id[d] /\ pc'[d] = pc[d]
    BY DEF Accept, Goto, CronInv, RestOK
  <1>3. k = i => \A d \in Clients : id[d] # i
    BY DEF Accept, CronInv
  <1> QED
    BY <1>1, <1>2, <1>3, CronAssumption DEF CronInv, Orderly

\* Every step preserves CronInv.
LEMMA CronStep == CronInv /\ [Next]_vars => CronInv'
  <1> SUFFICES ASSUME CronInv, [Next]_vars PROVE CronInv'
    OBVIOUS
  <1>0. RegistryOK' /\ RestOK'
    BY TypeStep, TypeParts DEF CronInv, TypeInv, TypeOK, RegistryOK, RestOK, Entries, EntryJob
  <1> DEFINE Rest == EntriesTracked' /\ Numbered' /\ IdleFree'
             Order == \A k \in Ids \ disturbed' : Orderly(k)'
  <1> SUFFICES Rest /\ Order
    BY <1>0 DEF CronInv
  <1> USE DEF At, Goto
  <1>1. ASSUME NEW c \in Clients, NEW i \in Ids, NEW j \in ScheduledJob, Create(c, i, j)
        PROVE  Rest /\ Order
    <2>1. Rest
      BY <1>1 DEF Create, Accept, registry, CronInv, EntriesTracked, Numbered, IdleFree, RestOK
    <2>2. ASSUME NEW k \in Ids \ disturbed' PROVE Orderly(k)'
      <3>1. CASE k = i
        <4>1. NoEntry(i)
          BY <1>1, <2>2, <3>1, AcceptStep, AgreesFacts DEF Create, Unborn, CronInv
        <4>2. NoEntry(i)' /\ rows'[i] = snap'[c]
          BY <1>1, <4>1 DEF Create, registry, NoEntry, CronInv, RestOK
        <4> QED
          BY <1>1, <2>2, <3>1, <4>2, AcceptStep DEF Create, Orderly, Solo, Progress
      <3>2. CASE k # i
        BY <1>1, <2>2, <3>2, AcceptStep, SameRegistry, KeepOrderly DEF Create, CronInv, RestOK
      <3> QED
        BY <3>1, <3>2
    <2> QED
      BY <2>1, <2>2
  <1>2. ASSUME NEW c \in Clients, NEW i \in Ids, UpdateGet(c, i)
        PROVE  Rest /\ Order
    <2>1. Rest
      BY <1>2 DEF UpdateGet, Accept, registry, CronInv, EntriesTracked, Numbered, IdleFree, RestOK
    <2>2. ASSUME NEW k \in Ids \ disturbed' PROVE Orderly(k)'
      <3>1. CASE k = i
        <4>1. Agrees(i)'
          BY <1>2, <2>2, <3>1, AcceptStep DEF UpdateGet, registry, Agrees
        <4> QED
          BY <1>2, <2>2, <3>1, <4>1, AcceptStep DEF UpdateGet, Orderly, Solo, Progress
      <3>2. CASE k # i
        BY <1>2, <2>2, <3>2, AcceptStep, SameRegistry, KeepOrderly DEF UpdateGet, CronInv, RestOK
      <3> QED
        BY <3>1, <3>2
    <2> QED
      BY <2>1, <2>2
  <1>3. ASSUME NEW c \in Clients, NEW i \in Ids, DeleteUnregister(c, i)
        PROVE  Rest /\ Order
    <2>1. EntriesTracked' /\ Numbered' /\ SameEntries(i) /\ NoEntry(i)'
      BY <1>3, UnregisteredFacts DEF DeleteUnregister, CronInv
    <2>2. IdleFree'
      BY <1>3 DEF DeleteUnregister, Accept, CronInv, IdleFree, RestOK
    <2>3. ASSUME NEW k \in Ids \ disturbed' PROVE Orderly(k)'
      <3>1. CASE k = i
        BY <1>3, <2>1, <2>3, <3>1, AcceptStep DEF DeleteUnregister, Orderly, Solo, Progress
      <3>2. CASE k # i
        BY <1>3, <2>1, <2>3, <3>2, AcceptStep, KeepOrderly DEF DeleteUnregister, CronInv
      <3> QED
        BY <3>1, <3>2
    <2> QED
      BY <2>1, <2>2, <2>3
  <1>4. ASSUME NEW c \in Clients, NEW j \in ScheduledJob, UpdatePut(c, j)
        PROVE  Rest /\ Order
    <2>1. Rest
      BY <1>4 DEF UpdatePut, Reply, registry, CronInv, EntriesTracked, Numbered, IdleFree, RestOK
    <2>2. id[c] \in Ids
      BY <1>4 DEF UpdatePut, CronInv, RestOK, Busy
    <2>3. ASSUME NEW k \in Ids \ disturbed' PROVE Orderly(k)'
      <3>1. k \in Ids \ disturbed /\ Orderly(k) /\ RestOK
        BY <1>4, <2>3 DEF UpdatePut, CronInv
      <3>2. CASE k = id[c]
        <4>1. CASE rows[k] = NoJob
          <5>1. Agrees(k)' /\ \A d \in Clients : id'[d] # k
            BY <1>4, <3>1, <3>2, <4>1, CronAssumption
               DEF UpdatePut, Reply, registry, Agrees, Orderly, Solo, Progress, RestOK
          <5> QED
            BY <5>1 DEF Orderly, Solo, Progress
        <4>2. CASE rows[k] # NoJob
          BY <1>4, <3>1, <3>2, <4>2 DEF UpdatePut, Orderly, Solo, Progress, RestOK
        <4> QED
          BY <4>1, <4>2
      <3>3. CASE k # id[c]
        BY <1>4, <2>2, <3>1, <3>3, SameRegistry, KeepOrderly, CronAssumption
           DEF UpdatePut, Reply, RestOK
      <3> QED
        BY <3>2, <3>3
    <2> QED
      BY <2>1, <2>3
  <1>5. ASSUME NEW c \in Clients, UpdateUnregister(c)
        PROVE  Rest /\ Order
    <2>1. id[c] \in Ids
      BY <1>5 DEF UpdateUnregister, CronInv, RestOK, Busy
    <2>2. EntriesTracked' /\ Numbered' /\ SameEntries(id[c]) /\ NoEntry(id[c])'
      BY <1>5, <2>1, UnregisteredFacts DEF UpdateUnregister, CronInv
    <2>3. IdleFree'
      BY <1>5 DEF UpdateUnregister, CronInv, IdleFree, RestOK
    <2>4. ASSUME NEW k \in Ids \ disturbed' PROVE Orderly(k)'
      <3>1. k \in Ids \ disturbed /\ Orderly(k) /\ RestOK
        BY <1>5, <2>4 DEF UpdateUnregister, CronInv
      <3>2. CASE k = id[c]
        BY <1>5, <2>2, <3>1, <3>2 DEF UpdateUnregister, Orderly, Solo, Progress, RestOK, NoEntry
      <3>3. CASE k # id[c]
        BY <1>5, <2>1, <2>2, <3>1, <3>3, KeepOrderly DEF UpdateUnregister, RestOK
      <3> QED
        BY <3>2, <3>3
    <2> QED
      BY <2>2, <2>3, <2>4
  <1>6. ASSUME NEW c \in Clients, Register(c)
        PROVE  Rest /\ Order
    <2>1. id[c] \in Ids /\ snap[c] \in ScheduledJob
      BY <1>6 DEF Register, CronInv, RestOK, Busy, Holding
    <2>2. IdleFree'
      BY <1>6 DEF Register, Reply, CronInv, IdleFree, RestOK
    <2>3. EntriesTracked' /\ Numbered' /\ SameEntries(id[c])
      BY <1>6, <2>1, RegisteredFacts, SameRegistry
         DEF Register, registry, CronInv, EntriesTracked, Numbered
    <2>4. ASSUME NEW k \in Ids \ disturbed' PROVE Orderly(k)'
      <3>1. k \in Ids \ disturbed /\ Orderly(k) /\ RestOK
        BY <1>6, <2>4 DEF Register, CronInv
      <3>2. CASE k = id[c]
        <4>1. rows'[k] = snap[c] /\ NoEntry(k)
          BY <1>6, <3>1, <3>2 DEF Register, Orderly, Progress
        <4>2. Agrees(k)'
          <5>1. CASE snap[c].enabled
            BY <1>6, <2>1, <3>2, <4>1, <5>1, RegisteredFacts DEF Register, CronInv, Agrees
          <5>2. CASE ~snap[c].enabled
            BY <1>6, <4>1, <5>2 DEF Register, registry, Agrees, NoEntry
          <5> QED
            BY <5>1, <5>2
        <4>3. \A d \in Clients : id'[d] # k
          BY <1>6, <3>1, <3>2, CronAssumption DEF Register, Reply, Orderly, Solo, RestOK
        <4> QED
          BY <4>2, <4>3 DEF Orderly, Solo, Progress
      <3>3. CASE k # id[c]
        BY <1>6, <2>1, <2>3, <3>1, <3>3, KeepOrderly, CronAssumption
           DEF Register, Reply, RestOK
      <3> QED
        BY <3>2, <3>3
    <2> QED
      BY <2>2, <2>3, <2>4
  <1>7. ASSUME NEW c \in Clients, DeleteRow(c)
        PROVE  Rest /\ Order
    <2>1. Rest
      BY <1>7 DEF DeleteRow, Reply, registry, CronInv, EntriesTracked, Numbered, IdleFree, RestOK
    <2>2. id[c] \in Ids
      BY <1>7 DEF DeleteRow, CronInv, RestOK, Busy
    <2>3. ASSUME NEW k \in Ids \ disturbed' PROVE Orderly(k)'
      <3>1. k \in Ids \ disturbed /\ Orderly(k) /\ RestOK
        BY <1>7, <2>3 DEF DeleteRow, CronInv
      <3>2. CASE k = id[c]
        <4>1. NoEntry(k)' /\ rows'[k] = NoJob
          BY <1>7, <3>1, <3>2 DEF DeleteRow, registry, Orderly, Progress, NoEntry, RestOK
        <4>2. Agrees(k)'
          BY <4>1, JobFacts DEF Agrees, NoEntry
        <4>3. \A d \in Clients : id'[d] # k
          BY <1>7, <3>1, <3>2, CronAssumption DEF DeleteRow, Reply, Orderly, Solo, RestOK
        <4> QED
          BY <4>2, <4>3 DEF Orderly, Solo, Progress
      <3>3. CASE k # id[c]
        BY <1>7, <2>2, <3>1, <3>3, SameRegistry, KeepOrderly, CronAssumption
           DEF DeleteRow, Reply, RestOK
      <3> QED
        BY <3>2, <3>3
    <2> QED
      BY <2>1, <2>3
  <1>8. ASSUME NEW c \in Clients, StatementFails(c)
        PROVE  Rest /\ Order
    <2>1. Rest
      BY <1>8 DEF StatementFails, Reply, registry, CronInv, EntriesTracked, Numbered, IdleFree,
         RestOK
    <2>2. ASSUME NEW k \in Ids \ disturbed' PROVE Orderly(k)'
      <3>1. k \in Ids \ disturbed /\ Orderly(k) /\ RestOK /\ k # id[c]
        BY <1>8, <2>2 DEF StatementFails, CronInv
      <3>2. id[c] \in Ids
        BY <1>8 DEF StatementFails, CronInv, RestOK, Busy
      <3> QED
        BY <1>8, <3>1, <3>2, SameRegistry, KeepOrderly, CronAssumption
           DEF StatementFails, Reply, RestOK
    <2> QED
      BY <2>1, <2>2
  <1>9. ASSUME NEW listed \in BOOLEAN, Start(listed)
        PROVE  Rest /\ Order
    <2>1. Rest
      BY <1>9, StartedFacts DEF Start, CronInv, IdleFree
    <2>2. ASSUME NEW k \in Ids \ disturbed' PROVE Orderly(k)'
      <3>1. Agrees(k)'
        BY <1>9, <2>2, StartedFacts DEF Start, CronInv
      <3>2. \A d \in Clients : id'[d] # k
        BY <1>9, CronAssumption DEF Start
      <3> QED
        BY <3>1, <3>2 DEF Orderly, Solo, Progress
    <2> QED
      BY <2>1, <2>2
  <1>10. CASE UNCHANGED vars
    <2>1. Rest
      BY <1>10 DEF vars, CronInv, EntriesTracked, Numbered, IdleFree
    <2>2. Order
      BY <1>10 DEF vars, CronInv, Orderly, Solo, Progress, Agrees, NoEntry
    <2> QED
      BY <2>1, <2>2
  <1> QED
    BY <1>1, <1>2, <1>3, <1>4, <1>5, <1>6, <1>7, <1>8, <1>9, <1>10
       DEF Next, Request, ClientStep

\* Whatever requests overlap, fail or are cut short, cronEntries leads to every live
\* entry: no entry can escape its removal.
THEOREM NoEntryEscapes == Spec => []EntriesTracked
  <1>1. CronInv => EntriesTracked
    BY DEF CronInv
  <1> QED
    BY <1>1, CronInit, CronStep, PTL DEF Spec

\* Requests that do not overlap on a job and whose statements succeed leave cron and
\* the table in agreement on it, from the last start on.
THEOREM RegistryStaysInAgreement == Spec => []RegistryAgrees
  <1>1. CronInv => RegistryAgrees
    BY DEF CronInv, Orderly, RegistryAgrees
  <1> QED
    BY <1>1, CronInit, CronStep, PTL DEF Spec

===============================================================================
