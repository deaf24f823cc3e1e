---------------------------- MODULE AcmeOrder_proofs ----------------------------
(* Theorems about AcmeOrder, for any number of requests, records and failures. *)
EXTENDS AcmeOrder, FiniteSetTheorems, TLAPS

--------------------------------------------------------------------------------
(* Types *)

\* The look-ups of an order that is propagating are not used up.
Fresh(o) == o.state = "propagating" => o.count < MaxChecks

\* The state of a copy at the steps that depend on it.
Staged(p, s) ==
    /\ p = "drop" => s = "dropping"
    /\ p \in {"propagate", "lookup"} => s = "propagating"
    /\ p = "complete" => s = "completing"

\* A request holds a record exactly at the steps that are about one.
Holding == {"persist", "rollback", "delete", "forget"}

TypeInv ==
    /\ TypeOK
    /\ Fresh(order)
    /\ \A w \in Workers :
          /\ Fresh(copy[w]) /\ Staged(pc[w], copy[w].state)
          /\ pc[w] \in Holding <=> hand[w] # None

LEMMA SpendType ==
  ASSUME used \in [Kinds -> Nat], NEW k \in Kinds, Spend(k)
  PROVE  /\ used' \in [Kinds -> Nat] /\ used'[k] = used[k] + 1
         /\ \A l \in Kinds \ {k} : used'[l] = used[l]
  BY DEF Spend

LEMMA NewOrderType == NewOrder \in Orders /\ Fresh(NewOrder)
  BY AcmeAssumption DEF NewOrder, Orders, States, Fresh

\* What one request changes of its own.
LEMMA LocalType ==
  ASSUME TypeInv, NEW w \in Workers, NEW p \in Steps, NEW o \in Orders,
         NEW r \in Recs \cup {None},
         pc' = [pc EXCEPT ![w] = p], copy' = [copy EXCEPT ![w] = o],
         hand' = [hand EXCEPT ![w] = r],
         Fresh(o), Staged(p, o.state), p \in Holding <=> r # None,
         order' \in Orders, Fresh(order'),
         rows' \subseteq Recs, upstream' \subseteq Recs, issued' \subseteq Recs,
         tangled' \in BOOLEAN, used' \in [Kinds -> Nat]
  PROVE  TypeInv'
  <1>1. TypeOK' BY DEF TypeInv, TypeOK
  <1>2. ASSUME NEW v \in Workers
        PROVE  (/\ Fresh(copy[v]) /\ Staged(pc[v], copy[v].state)
                /\ pc[v] \in Holding <=> hand[v] # None)'
    <2>1. CASE v = w BY <2>1 DEF TypeInv, TypeOK
    <2>2. CASE v # w BY <2>2 DEF TypeInv, TypeOK
    <2> QED BY <2>1, <2>2
  <1> QED BY <1>1, <1>2 DEF TypeInv

LEMMA InitType == Init => TypeInv
  <1> SUFFICES ASSUME Init PROVE TypeInv OBVIOUS
  <1>1. TypeOK BY NewOrderType DEF Init, TypeOK, Steps, Kinds
  <1> QED BY <1>1, NewOrderType DEF Init, TypeInv, Staged, Holding

LEMMA RequestType ==
  ASSUME TypeInv, NEW w \in Workers, NEW s \in States, NEW p \in Steps,
         Request(w, s, p), Staged(p, s), p \notin Holding,
         s = "propagating" => order.state = "propagating"
  PROVE  TypeInv'
  <1> DEFINE o == [order EXCEPT !.state = s]
  <1>0. order \in Orders BY DEF TypeInv, TypeOK
  <1>1. o \in Orders /\ o.state = s /\ o.count = order.count BY <1>0 DEF Orders
  <1>2. Fresh(o) BY <1>1 DEF TypeInv, Fresh
  <1>3. hand' = [hand EXCEPT ![w] = None]
    BY DEF Request, TypeInv, TypeOK, Holding
  <1>4. tangled' \in BOOLEAN BY DEF Request, TypeInv, TypeOK
  <1>5. /\ pc' = [pc EXCEPT ![w] = p] /\ copy' = [copy EXCEPT ![w] = o]
        /\ UNCHANGED <<order, rows, upstream, issued, used>>
    BY DEF Request, tables
  <1> HIDE DEF o
  <1> QED BY <1>1, <1>2, <1>3, <1>4, <1>5, LocalType DEF TypeInv, TypeOK

LEMMA StartType ==
  ASSUME TypeInv, NEW w \in Workers,
         ProcessOrder(w) \/ MarkOrderCompleted(w) \/ FailOrder(w)
  PROVE  TypeInv'
  <1> USE DEF States, Steps, Staged, Holding
  <1>1. CASE Request(w, "dropping", "drop") BY <1>1, RequestType
  <1>2. CASE order.state = "propagating" /\ Request(w, "propagating", "lookup")
    BY <1>2, RequestType
  <1>3. CASE Request(w, "completed", "clean") BY <1>3, RequestType
  <1>4. CASE Request(w, "completing", "complete") BY <1>4, RequestType
  <1>5. CASE Request(w, "failed", "clean") BY <1>5, RequestType
  <1> QED BY <1>1, <1>2, <1>3, <1>4, <1>5 DEF ProcessOrder, MarkOrderCompleted, FailOrder

LEMMA CopyFields ==
  ASSUME TypeInv, NEW w \in Workers
  PROVE  /\ copy[w] \in Orders /\ copy[w].state \in States
         /\ copy[w].rec \in Recs \cup {None} /\ copy[w].count \in 0 .. MaxChecks
         /\ copy = [copy EXCEPT ![w] = copy[w]] /\ hand = [hand EXCEPT ![w] = hand[w]]
  BY DEF TypeInv, TypeOK, Orders

LEMMA StateField ==
  ASSUME NEW o \in Orders, NEW s \in States
  PROVE  /\ [o EXCEPT !.state = s] \in Orders /\ [o EXCEPT !.state = s].state = s
         /\ [o EXCEPT !.state = s].rec = o.rec
         /\ s # "propagating" => Fresh([o EXCEPT !.state = s])
  BY DEF Orders, Fresh

LEMMA UpdateType ==
  ASSUME TypeInv, NEW w \in Workers, Update(w) \/ UpdateRefused(w)
  PROVE  TypeInv'
  <1>0. hand[w] = None /\ hand' = [hand EXCEPT ![w] = None] /\ pc[w] \in Updating
    BY CopyFields DEF Update, UpdateRefused, TypeInv, Updating, Holding
  <1>1. CASE UpdateRefused(w)
    <2>1. Go(w, "idle", NewOrder) /\ UNCHANGED <<order, rows, upstream, issued, tangled>>
      BY <1>1 DEF UpdateRefused, tables
    <2>2. used' \in [Kinds -> Nat]
      BY <1>1, SpendType DEF UpdateRefused, TypeInv, TypeOK, Kinds
    <2>3. Staged("idle", NewOrder.state) BY DEF Staged
    <2> QED BY <1>0, <2>1, <2>2, <2>3, NewOrderType, LocalType
            DEF Go, Steps, Holding, TypeInv, TypeOK
  <1>2. CASE Update(w)
    <2> DEFINE o == CASE pc[w] = "complete" -> [copy[w] EXCEPT !.state = "completed"]
                      [] pc[w] = "save" -> NewOrder
                      [] OTHER -> copy[w]
               p == AfterUpdate(pc[w])
    <2>1. Go(w, p, o) /\ order' = copy[w]
          /\ UNCHANGED <<rows, upstream, issued, tangled, used>>
      BY <1>2 DEF Update
    <2>2. p \in Steps /\ p \notin Holding /\ p \in {"create", "lookup", "clean", "idle"}
      BY <1>0 DEF AfterUpdate, Updating, Steps, Holding
    <2>3. o \in Orders /\ Fresh(o)
      BY CopyFields, StateField, NewOrderType DEF TypeInv, States
    <2>4. Staged(p, o.state)
      BY <1>0 DEF AfterUpdate, Updating, Staged, TypeInv
    <2>5. order' \in Orders /\ Fresh(order') BY <2>1, CopyFields DEF TypeInv
    <2> HIDE DEF o, p
    <2> QED BY <1>0, <2>1, <2>2, <2>3, <2>4, <2>5, LocalType DEF Go, TypeInv, TypeOK
  <1> QED BY <1>1, <1>2

LEMMA FailedType ==
  ASSUME TypeInv, NEW w \in Workers
  PROVE  LET o == [copy[w] EXCEPT !.state = "failed"] IN
         /\ o \in Orders /\ Fresh(o) /\ Staged("save", o.state)
         /\ "save" \in Steps /\ "save" \notin Holding
  BY CopyFields, StateField DEF States, Staged, Steps, Holding

LEMMA DropType ==
  ASSUME TypeInv, NEW w \in Workers,
         CreateRecord(w) \/ CreateFails(w) \/ Persist(w) \/ PersistFails(w) \/ Rollback(w)
  PROVE  TypeInv'
  <1> DEFINE f == [copy[w] EXCEPT !.state = "failed"]
  <1>0. /\ f \in Orders /\ Fresh(f) /\ Staged("save", f.state)
        /\ "save" \in Steps /\ "save" \notin Holding
    BY FailedType
  <1> HIDE DEF f
  <1>1. CASE CreateRecord(w)
    <2>1. PICK r \in Recs : /\ issued' = issued \cup {r} /\ upstream' = upstream \cup {r}
                            /\ hand' = [hand EXCEPT ![w] = r]
      BY <1>1 DEF CreateRecord
    <2>2. /\ pc' = [pc EXCEPT ![w] = "persist"] /\ copy' = [copy EXCEPT ![w] = copy[w]]
          /\ UNCHANGED <<order, rows, tangled, used>>
      BY <1>1, CopyFields DEF CreateRecord, tables
    <2>3. "persist" \in Steps /\ "persist" \in Holding /\ Staged("persist", copy[w].state)
          /\ r # None /\ Fresh(copy[w])
      BY AcmeAssumption DEF Steps, Holding, Staged, TypeInv
    <2> QED BY <2>1, <2>2, <2>3, CopyFields, LocalType DEF TypeInv, TypeOK
  <1>2. CASE CreateFails(w)
    <2>1. /\ pc' = [pc EXCEPT ![w] = "save"] /\ copy' = [copy EXCEPT ![w] = f]
          /\ UNCHANGED <<order, rows, hand, tangled>>
      BY <1>2 DEF CreateFails, Failed, Go, tables, f
    <2>2. hand' = [hand EXCEPT ![w] = None]
      BY <1>2, CopyFields DEF CreateFails, TypeInv, Holding
    <2>3. issued' \subseteq Recs /\ upstream' \subseteq Recs /\ used' \in [Kinds -> Nat]
      BY <1>2, SpendType DEF CreateFails, TypeInv, TypeOK, Kinds
    <2> QED BY <1>0, <2>1, <2>2, <2>3, LocalType DEF TypeInv, TypeOK
  <1>3. CASE Persist(w)
    <2> DEFINE o == [state |-> "propagating", rec |-> hand[w], count |-> 0]
    <2>1. /\ pc' = [pc EXCEPT ![w] = "propagate"] /\ copy' = [copy EXCEPT ![w] = o]
          /\ hand' = [hand EXCEPT ![w] = None] /\ rows' = rows \cup {hand[w]}
          /\ UNCHANGED <<order, upstream, issued, tangled, used>>
      BY <1>3 DEF Persist, Go
    <2>2. hand[w] \in Recs BY <1>3 DEF Persist, TypeInv, TypeOK, Holding
    <2>3. o \in Orders /\ Fresh(o) /\ Staged("propagate", o.state)
      BY <2>2, AcmeAssumption DEF Orders, States, Fresh, Staged
    <2> HIDE DEF o
    <2> QED BY <2>1, <2>2, <2>3, LocalType DEF TypeInv, TypeOK, Steps, Holding
  <1>4. CASE PersistFails(w)
    <2>1. /\ pc' = [pc EXCEPT ![w] = "rollback"] /\ copy' = [copy EXCEPT ![w] = copy[w]]
          /\ hand' = [hand EXCEPT ![w] = hand[w]]
          /\ UNCHANGED <<order, rows, upstream, issued, tangled>>
      BY <1>4, CopyFields DEF PersistFails, tables
    <2>2. used' \in [Kinds -> Nat] BY <1>4, SpendType DEF PersistFails, TypeInv, TypeOK, Kinds
    <2>3. "rollback" \in Steps /\ "rollback" \in Holding /\ Staged("rollback", copy[w].state)
          /\ hand[w] # None /\ Fresh(copy[w]) /\ hand[w] \in Recs \cup {None}
      BY <1>4 DEF PersistFails, Steps, Holding, Staged, TypeInv, TypeOK
    <2> QED BY <2>1, <2>2, <2>3, CopyFields, LocalType DEF TypeInv, TypeOK
  <1>5. CASE Rollback(w)
    <2>1. /\ pc' = [pc EXCEPT ![w] = "save"] /\ copy' = [copy EXCEPT ![w] = f]
          /\ hand' = [hand EXCEPT ![w] = None] /\ UNCHANGED <<order, rows, issued, tangled>>
      BY <1>5 DEF Rollback, Failed, Go, tables, f
    <2>2. upstream' \subseteq Recs /\ used' \in [Kinds -> Nat]
      BY <1>5, SpendType DEF Rollback, TypeInv, TypeOK, Kinds
    <2> QED BY <1>0, <2>1, <2>2, LocalType DEF TypeInv, TypeOK
  <1> QED BY <1>1, <1>2, <1>3, <1>4, <1>5

\* A record with its count and its state set.
LEMMA CountedFields ==
  ASSUME NEW o \in Orders, NEW s \in States, o.count < MaxChecks,
         s = "propagating" => o.count + 1 < MaxChecks
  PROVE  /\ [o EXCEPT !.count = @ + 1, !.state = s] \in Orders
         /\ Fresh([o EXCEPT !.count = @ + 1, !.state = s])
  <1> DEFINE q == [o EXCEPT !.count = @ + 1, !.state = s]
             m == [o EXCEPT !.count = o.count + 1]
  <1>1. o.count + 1 \in 0 .. MaxChecks BY AcmeAssumption DEF Orders
  <1>2. m \in Orders /\ m.count = o.count + 1 BY <1>1 DEF Orders
  <1>0. q = [m EXCEPT !.state = s] OBVIOUS
  <1> HIDE DEF m
  <1>3. q.state = s /\ q.count = o.count + 1 /\ q \in Orders BY <1>0, <1>2 DEF Orders
  <1> HIDE DEF q
  <1>4. Fresh(q) BY <1>3 DEF Fresh
  <1> QED BY <1>3, <1>4 DEF q

LEMMA CheckType ==
  ASSUME TypeInv, NEW w \in Workers, CheckPropagation(w)
  PROVE  TypeInv'
  <1> DEFINE n == copy[w].count
             ready == [copy[w] EXCEPT !.count = @ + 1, !.state = "ready"]
  <1>0. copy[w] \in Orders /\ copy[w].state = "propagating" /\ n \in Nat /\ n < MaxChecks
    BY CopyFields DEF CheckPropagation, TypeInv, Staged, Fresh
  <1>1. Checked(copy[w]) \in Orders /\ Fresh(Checked(copy[w]))
    <2>1. CASE n + 1 >= MaxChecks
      <3>1. Checked(copy[w]) = [copy[w] EXCEPT !.count = @ + 1, !.state = "failed"]
        BY <2>1 DEF Checked
      <3> QED BY <1>0, <3>1, CountedFields DEF States
    <2>2. CASE ~(n + 1 >= MaxChecks)
      <3>1. Checked(copy[w]) = [copy[w] EXCEPT !.count = @ + 1, !.state = "propagating"]
        BY <1>0, <2>2 DEF Checked, Orders
      <3>2. n + 1 < MaxChecks BY <1>0, <2>2, AcmeAssumption
      <3> QED BY <1>0, <3>1, <3>2, CountedFields DEF States
    <2> QED BY <2>1, <2>2
  <1>2. ready \in Orders /\ Fresh(ready)
    BY <1>0, CountedFields DEF States
  <1>3. \A o : Staged("save", o.state) BY DEF Staged
  <1>4. PICK o \in Orders : Go(w, "save", o) /\ Fresh(o)
    BY <1>1, <1>2 DEF CheckPropagation
  <1>5. hand' = [hand EXCEPT ![w] = None]
    BY CopyFields DEF CheckPropagation, TypeInv, Holding
  <1>6. UNCHANGED <<order, rows, upstream, issued, tangled, used>>
    BY DEF CheckPropagation, tables
  <1> QED BY <1>3, <1>4, <1>5, <1>6, LocalType DEF Go, TypeInv, TypeOK, Steps, Holding

LEMMA SkipType ==
  ASSUME TypeInv, NEW w \in Workers, Skip(w), UNCHANGED <<copy, upstream, issued, tangled>>,
         order' \in Orders, Fresh(order'), rows' \subseteq Recs, used' \in [Kinds -> Nat]
  PROVE  TypeInv'
  <1>1. Staged("save", copy[w].state) /\ Fresh(copy[w]) BY DEF Staged, TypeInv
  <1> QED BY <1>1, CopyFields, LocalType DEF Skip, TypeInv, TypeOK, Steps, Holding

LEMMA CleanupType ==
  ASSUME TypeInv, NEW w \in Workers,
         \/ CleanupFinds(w) \/ CleanupSkips(w) \/ DeleteRecord(w) \/ DeleteFails(w)
         \/ DeleteRow(w) \/ DeleteRowFails(w)
  PROVE  TypeInv'
  <1>0. order \in Orders /\ Fresh(order) /\ rows \subseteq Recs /\ used \in [Kinds -> Nat]
    BY DEF TypeInv, TypeOK
  <1>1. CASE CleanupFinds(w)
    <2>1. /\ pc' = [pc EXCEPT ![w] = "delete"] /\ copy' = [copy EXCEPT ![w] = copy[w]]
          /\ hand' = [hand EXCEPT ![w] = copy[w].rec]
          /\ UNCHANGED <<order, rows, upstream, issued, tangled, used>>
      BY <1>1, CopyFields DEF CleanupFinds, tables
    <2>2. copy[w].rec \in Recs /\ copy[w].rec # None
      BY <1>0, <1>1, AcmeAssumption DEF CleanupFinds
    <2>3. Staged("delete", copy[w].state) /\ Fresh(copy[w]) BY DEF Staged, TypeInv
    <2> QED BY <2>1, <2>2, <2>3, CopyFields, LocalType DEF TypeInv, TypeOK, Steps, Holding
  <1>2. CASE CleanupSkips(w)
    <2>1. used' \in [Kinds -> Nat] BY <1>0, <1>2, SpendType DEF CleanupSkips, Kinds
    <2> QED BY <1>0, <1>2, <2>1, SkipType DEF CleanupSkips, tables
  <1>3. CASE DeleteRecord(w)
    <2>1. /\ pc' = [pc EXCEPT ![w] = "forget"] /\ copy' = [copy EXCEPT ![w] = copy[w]]
          /\ hand' = [hand EXCEPT ![w] = hand[w]] /\ upstream' \subseteq Recs
          /\ UNCHANGED <<order, rows, issued, tangled, used>>
      BY <1>3, CopyFields DEF DeleteRecord, tables, TypeInv, TypeOK
    <2>2. hand[w] \in Recs /\ hand[w] # None
      BY <1>3 DEF DeleteRecord, TypeInv, TypeOK, Holding
    <2>3. Staged("forget", copy[w].state) /\ Fresh(copy[w]) BY DEF Staged, TypeInv
    <2> QED BY <2>1, <2>2, <2>3, CopyFields, LocalType DEF TypeInv, TypeOK, Steps, Holding
  <1>4. CASE DeleteFails(w)
    BY <1>0, <1>4, SpendType, SkipType DEF DeleteFails, tables, Kinds
  <1>5. CASE DeleteRow(w)
    <2>1. order' \in Orders /\ Fresh(order') /\ rows' \subseteq Recs
      BY <1>0, <1>5 DEF DeleteRow, Orders, Fresh
    <2> QED BY <1>0, <1>5, <2>1, SkipType DEF DeleteRow
  <1>6. CASE DeleteRowFails(w)
    BY <1>0, <1>6, SpendType, SkipType DEF DeleteRowFails, tables, Kinds
  <1> QED BY <1>1, <1>2, <1>3, <1>4, <1>5, <1>6

LEMMA CrashType ==
  ASSUME TypeInv, Crash
  PROVE  TypeInv'
  <1>1. used' \in [Kinds -> Nat] BY SpendType DEF Crash, TypeInv, TypeOK, Kinds
  <1>2. TypeOK' BY <1>1, NewOrderType DEF Crash, TypeInv, TypeOK, tables, Steps
  <1> QED BY <1>2, NewOrderType DEF Crash, TypeInv, tables, Staged, Holding

LEMMA StepType == TypeInv /\ [Next]_vars => TypeInv'
  <1> SUFFICES ASSUME TypeInv, [Next]_vars PROVE TypeInv'
    OBVIOUS
  <1>1. CASE UNCHANGED vars BY <1>1 DEF TypeInv, TypeOK, vars
  <1>2. CASE Next
    BY <1>2, StartType, UpdateType, DropType, CheckType, CleanupType, CrashType DEF Next, Step
  <1> QED BY <1>1, <1>2

LEMMA TypeHolds == Spec => []TypeInv
  BY InitType, StepType, PTL DEF Spec

\* Type correctness; in particular no interleaving and no restart lets the
\* count of look-ups pass PropagationCheckMaxAttempts.
THEOREM AcmeTypeCorrect == Spec => []TypeOK
  <1>1. TypeInv => TypeOK BY DEF TypeInv
  <1> QED BY <1>1, TypeHolds, PTL

--------------------------------------------------------------------------------
(* Records nobody knows of *)

\* Records are fresh when they are created; a row is deleted after its record.
Known ==
    /\ rows \subseteq issued /\ upstream \subseteq issued
    /\ \A w \in Workers :
          /\ hand[w] \in issued \cup {None}
          /\ pc[w] = "delete" => hand[w] \in rows \/ hand[w] \notin upstream
          /\ pc[w] = "forget" => hand[w] \notin upstream

LEMMA InitKnown == Init => Known
  BY DEF Init, Known

LEMMA StepKnown == TypeInv /\ TypeInv' /\ Known /\ [Next]_vars => Known'
  <1> SUFFICES ASSUME TypeInv, TypeInv', Known, [Next]_vars PROVE Known'
    OBVIOUS
  <1> USE DEF Known, TypeInv, TypeOK, tables
  <1>1. ASSUME NEW w \in Workers, ProcessOrder(w) \/ MarkOrderCompleted(w) \/ FailOrder(w)
        PROVE  Known'
    BY <1>1 DEF ProcessOrder, MarkOrderCompleted, FailOrder, Request
  <1>2. ASSUME NEW w \in Workers, Update(w) \/ UpdateRefused(w) PROVE Known'
    <2>1. /\ UNCHANGED <<rows, upstream, issued, hand>>
          /\ pc[w] \in Updating /\ \A v \in Workers \ {w} : pc'[v] = pc[v]
          /\ pc'[w] \notin {"delete", "forget"}
      BY <1>2 DEF Update, UpdateRefused, Go, AfterUpdate, Updating
    <2> QED BY <2>1
  <1>3. ASSUME NEW w \in Workers, CreateRecord(w) PROVE Known'
    <2>1. PICK r \in Recs \ issued : /\ issued' = issued \cup {r}
                                     /\ upstream' = upstream \cup {r}
                                     /\ hand' = [hand EXCEPT ![w] = r]
      BY <1>3 DEF CreateRecord
    <2>2. \A v \in Workers : hand[v] # r BY AcmeAssumption
    <2> QED BY <1>3, <2>1, <2>2 DEF CreateRecord
  <1>4. ASSUME NEW w \in Workers, CreateFails(w) PROVE Known'
    <2>1. CASE UNCHANGED <<issued, upstream, used>>
      BY <1>4, <2>1 DEF CreateFails, Failed, Go
    <2>2. ASSUME NEW r \in Recs \ issued, issued' = issued \cup {r},
                 upstream' = upstream \cup {r}
          PROVE  Known'
      <3>1. \A v \in Workers : hand[v] # r BY AcmeAssumption
      <3> QED BY <1>4, <2>2, <3>1 DEF CreateFails, Failed, Go
    <2> QED BY <1>4, <2>1, <2>2 DEF CreateFails
  <1>5. ASSUME NEW w \in Workers, Persist(w) PROVE Known'
    <2>1. hand[w] \in issued BY <1>5 DEF Persist, Holding
    <2> QED BY <1>5, <2>1 DEF Persist, Go
  <1>6. ASSUME NEW w \in Workers, PersistFails(w) \/ Rollback(w) PROVE Known'
    BY <1>6 DEF PersistFails, Rollback, Failed, Go
  <1>7. ASSUME NEW w \in Workers, CheckPropagation(w) PROVE Known'
    BY <1>7 DEF CheckPropagation, Go
  <1>8. ASSUME NEW w \in Workers, CleanupFinds(w) \/ CleanupSkips(w) PROVE Known'
    BY <1>8 DEF CleanupFinds, CleanupSkips, Skip
  <1>9. ASSUME NEW w \in Workers, DeleteRecord(w) PROVE Known'
    BY <1>9 DEF DeleteRecord
  <1>10. ASSUME NEW w \in Workers, DeleteFails(w) \/ DeleteRowFails(w) PROVE Known'
    BY <1>10 DEF DeleteFails, DeleteRowFails, Skip
  <1>11. ASSUME NEW w \in Workers, DeleteRow(w) PROVE Known'
    BY <1>11 DEF DeleteRow, Skip
  <1>12. CASE Crash BY <1>12 DEF Crash
  <1>13. CASE UNCHANGED vars BY <1>13 DEF vars
  <1> QED BY <1>1, <1>2, <1>3, <1>4, <1>5, <1>6, <1>7, <1>8, <1>9, <1>10, <1>11, <1>12, <1>13
          DEF Next, Step

LEMMA LeakedFinite == TypeInv => IsFiniteSet(Leaked) /\ Cardinality(Leaked) \in Nat
  <1> SUFFICES ASSUME TypeInv PROVE IsFiniteSet(Leaked) /\ Cardinality(Leaked) \in Nat
    OBVIOUS
  <1>1. Leaked \in SUBSET Recs BY DEF TypeInv, TypeOK, Leaked
  <1>2. IsFiniteSet(Leaked) BY <1>1, FS_Subset, AcmeAssumption
  <1> QED BY <1>2, FS_CardinalityType

LEMMA WorkersFinite == IsFiniteSet(Workers) /\ Cardinality(Workers) \in Nat
  BY AcmeAssumption, FS_CardinalityType

\* A step that leaks nothing.
LEMMA LeakNone ==
  ASSUME TypeInv, TypeInv', LeakPerFailure, Leaked' \subseteq Leaked,
         used'["crash"] = used["crash"], used'["lost"] >= used["lost"]
  PROVE  LeakPerFailure'
  <1>1. Cardinality(Leaked') <= Cardinality(Leaked) /\ Cardinality(Leaked') \in Nat
    BY LeakedFinite, FS_Subset, FS_CardinalityType
  <1> DEFINE budget == used["crash"] * Cardinality(Workers)
  <1>2. budget \in Nat /\ used["lost"] \in Nat /\ used'["lost"] \in Nat
    BY WorkersFinite DEF TypeInv, TypeOK, Kinds
  <1>3. Cardinality(Leaked) <= budget + used["lost"] /\ Cardinality(Leaked) \in Nat
    BY LeakedFinite DEF LeakPerFailure
  <1>4. used'["crash"] * Cardinality(Workers) = budget OBVIOUS
  <1> HIDE DEF budget
  <1>5. Cardinality(Leaked') <= budget + used'["lost"] BY <1>1, <1>2, <1>3
  <1> QED BY <1>4, <1>5 DEF LeakPerFailure

\* A step in which the provider loses one record.
LEMMA LeakOne ==
  ASSUME TypeInv, TypeInv', LeakPerFailure, NEW r, Leaked' \subseteq Leaked \cup {r},
         used'["crash"] = used["crash"], used'["lost"] = used["lost"] + 1
  PROVE  LeakPerFailure'
  <1>1. /\ IsFiniteSet(Leaked \cup {r}) /\ Cardinality(Leaked \cup {r}) \in Nat
        /\ Cardinality(Leaked \cup {r}) <= Cardinality(Leaked) + 1
    <2>1. IsFiniteSet(Leaked) /\ Cardinality(Leaked) \in Nat BY LeakedFinite
    <2>2. /\ IsFiniteSet(Leaked \cup {r})
          /\ Cardinality(Leaked \cup {r})
               = IF r \in Leaked THEN Cardinality(Leaked) ELSE Cardinality(Leaked) + 1
      BY <2>1, FS_AddElement
    <2> QED BY <2>1, <2>2
  <1>2. Cardinality(Leaked') <= Cardinality(Leaked \cup {r}) /\ Cardinality(Leaked') \in Nat
    BY <1>1, FS_Subset, FS_CardinalityType
  <1> DEFINE budget == used["crash"] * Cardinality(Workers)
  <1>3. budget \in Nat /\ used["lost"] \in Nat BY WorkersFinite DEF TypeInv, TypeOK, Kinds
  <1>4. Cardinality(Leaked) <= budget + used["lost"] /\ Cardinality(Leaked) \in Nat
    BY LeakedFinite DEF LeakPerFailure
  <1>5. used'["crash"] * Cardinality(Workers) = budget OBVIOUS
  <1> HIDE DEF budget
  <1>6. Cardinality(Leaked') <= budget + used'["lost"] BY <1>1, <1>2, <1>3, <1>4
  <1> QED BY <1>5, <1>6 DEF LeakPerFailure

\* A crash leaks no more than what the requests held.
LEMMA LeakCrash ==
  ASSUME TypeInv, TypeInv', LeakPerFailure, Crash
  PROVE  LeakPerFailure'
  <1> DEFINE held == {hand[w] : w \in Workers}
             W == Cardinality(Workers)
             n == used["crash"]
  <1>0. used'["crash"] = n + 1 /\ used'["lost"] = used["lost"]
    BY SpendType DEF Crash, TypeInv, TypeOK, Kinds
  <1>1. hand \in Surjection(Workers, held) BY DEF TypeInv, TypeOK, Surjection
  <1>2. IsFiniteSet(held) /\ Cardinality(held) <= W
    BY <1>1, WorkersFinite, FS_Surjection
  <1>3. Leaked' \subseteq Leaked \cup held
    BY DEF Crash, Leaked, tables
  <1> HIDE DEF held
  <1>4. /\ IsFiniteSet(Leaked \cup held)
        /\ Cardinality(Leaked \cup held)
             = Cardinality(Leaked) + Cardinality(held) - Cardinality(Leaked \cap held)
    BY <1>2, LeakedFinite, FS_Union
  <1>5. /\ Cardinality(Leaked \cap held) \in Nat /\ Cardinality(held) \in Nat
        /\ Cardinality(Leaked) \in Nat
    BY <1>2, LeakedFinite, FS_Intersection, FS_CardinalityType
  <1>6. /\ Cardinality(Leaked') <= Cardinality(Leaked \cup held)
        /\ Cardinality(Leaked') \in Nat /\ Cardinality(Leaked \cup held) \in Nat
    BY <1>3, <1>4, FS_Subset, FS_CardinalityType
  <1>7. W \in Nat /\ n \in Nat /\ used["lost"] \in Nat
    BY WorkersFinite DEF TypeInv, TypeOK, Kinds
  <1>8. Cardinality(Leaked) <= n * W + used["lost"] BY DEF LeakPerFailure
  <1> HIDE DEF W, n
  <1>9. (n + 1) * W = n * W + W /\ n * W \in Nat BY <1>7
  <1>10. Cardinality(Leaked') <= (n + 1) * W + used["lost"]
    BY <1>2, <1>4, <1>5, <1>6, <1>7, <1>8, <1>9
  <1> QED BY <1>0, <1>10 DEF LeakPerFailure, W, n

LEMMA StepLeak ==
    TypeInv /\ TypeInv' /\ Known /\ LeakPerFailure /\ [Next]_vars => LeakPerFailure'
  <1> SUFFICES ASSUME TypeInv, TypeInv', Known, LeakPerFailure, [Next]_vars
               PROVE  LeakPerFailure'
    OBVIOUS
  <1>0. used \in [Kinds -> Nat] /\ \A k \in Kinds : used[k] \in Nat /\ used[k] >= used[k]
    BY DEF TypeInv, TypeOK
  <1>k. "crash" \in Kinds /\ "fault" \in Kinds /\ "lost" \in Kinds BY DEF Kinds
  <1>f. Spend("fault") => used'["crash"] = used["crash"] /\ used'["lost"] = used["lost"]
    BY <1>0, SpendType DEF Kinds
  <1>l. Spend("lost") => used'["crash"] = used["crash"] /\ used'["lost"] = used["lost"] + 1
    BY <1>0, SpendType DEF Kinds
  <1> USE DEF tables
  <1>1. ASSUME NEW w \in Workers,
               \/ ProcessOrder(w) \/ MarkOrderCompleted(w) \/ FailOrder(w)
               \/ Update(w) \/ UpdateRefused(w) \/ PersistFails(w) \/ CheckPropagation(w)
        PROVE  LeakPerFailure'
    <2>1. UNCHANGED <<upstream, rows, hand>>
      BY <1>1 DEF ProcessOrder, MarkOrderCompleted, FailOrder, Request, Update, UpdateRefused,
         PersistFails, CheckPropagation
    <2>2. Leaked' \subseteq Leaked BY <2>1 DEF Leaked
    <2>3. used'["crash"] = used["crash"] /\ used'["lost"] = used["lost"]
      BY <1>1, <1>f DEF ProcessOrder, MarkOrderCompleted, FailOrder, Request, Update,
         UpdateRefused, PersistFails, CheckPropagation
    <2> QED BY <1>0, <1>k, <2>2, <2>3, LeakNone
  <1>2. ASSUME NEW w \in Workers, CreateRecord(w) PROVE LeakPerFailure'
    <2>1. Leaked' \subseteq Leaked
      <3>1. hand[w] = None BY <1>2 DEF CreateRecord, TypeInv, Holding
      <3>2. PICK r \in Recs \ issued : /\ upstream' = upstream \cup {r}
                                       /\ hand' = [hand EXCEPT ![w] = r]
        BY <1>2 DEF CreateRecord
      <3>3. hand'[w] = r /\ \A v \in Workers \ {w} : hand'[v] = hand[v]
        BY <3>2 DEF TypeInv, TypeOK
      <3>4. None \notin upstream BY AcmeAssumption DEF TypeInv, TypeOK
      <3> QED BY <1>2, <3>1, <3>2, <3>3, <3>4 DEF CreateRecord, Leaked
    <2> QED BY <1>0, <1>2, <1>k, <2>1, LeakNone DEF CreateRecord
  <1>3. ASSUME NEW w \in Workers, CreateFails(w) PROVE LeakPerFailure'
    <2>1. UNCHANGED <<rows, hand>> BY <1>3 DEF CreateFails
    <2>2. CASE UNCHANGED <<issued, upstream, used>>
      <3>1. Leaked' \subseteq Leaked BY <2>1, <2>2 DEF Leaked
      <3> QED BY <1>0, <1>k, <2>2, <3>1, LeakNone
    <2>3. CASE Spend("lost") /\ \E r \in Recs \ issued : upstream' = upstream \cup {r}
      <3>1. PICK r : upstream' = upstream \cup {r} BY <2>3
      <3>2. Leaked' \subseteq Leaked \cup {r} BY <2>1, <3>1 DEF Leaked
      <3> QED BY <1>l, <2>3, <3>2, LeakOne
    <2> QED BY <1>3, <2>2, <2>3 DEF CreateFails
  <1>4. ASSUME NEW w \in Workers, Persist(w) PROVE LeakPerFailure'
    <2>1. /\ rows' = rows \cup {hand[w]} /\ hand' = [hand EXCEPT ![w] = None]
          /\ UNCHANGED <<upstream, used>>
      BY <1>4 DEF Persist
    <2>2. Leaked' \subseteq Leaked BY <2>1 DEF Leaked, TypeInv, TypeOK
    <2> QED BY <1>0, <1>k, <2>1, <2>2, LeakNone
  <1>5. ASSUME NEW w \in Workers, Rollback(w) PROVE LeakPerFailure'
    <2>1. hand' = [hand EXCEPT ![w] = None] /\ UNCHANGED rows BY <1>5 DEF Rollback
    <2>2. CASE upstream' = upstream \ {hand[w]} /\ UNCHANGED used
      <3>1. Leaked' \subseteq Leaked BY <2>1, <2>2 DEF Leaked, TypeInv, TypeOK
      <3> QED BY <1>0, <1>k, <2>2, <3>1, LeakNone
    <2>3. CASE Spend("lost") /\ UNCHANGED upstream
      <3>1. Leaked' \subseteq Leaked \cup {hand[w]} BY <2>1, <2>3 DEF Leaked, TypeInv, TypeOK
      <3> QED BY <1>l, <2>3, <3>1, LeakOne
    <2> QED BY <1>5, <2>2, <2>3 DEF Rollback
  <1>6. ASSUME NEW w \in Workers, CleanupFinds(w) PROVE LeakPerFailure'
    <2>1. /\ hand' = [hand EXCEPT ![w] = copy[w].rec] /\ hand[w] = None
          /\ UNCHANGED <<rows, upstream, used>>
      BY <1>6 DEF CleanupFinds, TypeInv, Holding
    <2>2. None \notin upstream BY AcmeAssumption DEF TypeInv, TypeOK
    <2>3. Leaked' \subseteq Leaked BY <2>1, <2>2 DEF Leaked, TypeInv, TypeOK
    <2> QED BY <1>0, <1>k, <2>1, <2>3, LeakNone
  <1>7. ASSUME NEW w \in Workers, DeleteRecord(w) PROVE LeakPerFailure'
    <2>1. Leaked' \subseteq Leaked BY <1>7 DEF DeleteRecord, Leaked
    <2> QED BY <1>0, <1>7, <1>k, <2>1, LeakNone DEF DeleteRecord
  <1>8. ASSUME NEW w \in Workers,
               CleanupSkips(w) \/ DeleteFails(w) \/ DeleteRow(w) \/ DeleteRowFails(w)
        PROVE  LeakPerFailure'
    <2>1. hand' = [hand EXCEPT ![w] = None] /\ UNCHANGED upstream /\ rows \ {hand[w]} \subseteq rows'
      BY <1>8 DEF CleanupSkips, DeleteFails, DeleteRow, DeleteRowFails, Skip
    <2>2. hand[w] \in rows' \/ hand[w] \notin upstream
      <3>1. CASE CleanupSkips(w)
        BY <3>1, AcmeAssumption DEF CleanupSkips, TypeInv, TypeOK, Holding
      <3>2. CASE DeleteFails(w) BY <3>2 DEF DeleteFails, Known
      <3>3. CASE DeleteRow(w) \/ DeleteRowFails(w) BY <3>3 DEF DeleteRow, DeleteRowFails, Known
      <3> QED BY <1>8, <3>1, <3>2, <3>3
    <2>3. Leaked' \subseteq Leaked BY <2>1, <2>2 DEF Leaked, TypeInv, TypeOK
    <2>4. used'["crash"] = used["crash"] /\ used'["lost"] = used["lost"]
      BY <1>8, <1>f DEF CleanupSkips, DeleteFails, DeleteRow, DeleteRowFails
    <2> QED BY <1>0, <1>k, <2>3, <2>4, LeakNone
  <1>9. CASE Crash BY <1>9, LeakCrash
  <1>10. CASE UNCHANGED vars
    <2>1. Leaked' \subseteq Leaked BY <1>10 DEF vars, Leaked
    <2> QED BY <1>0, <1>10, <1>k, <2>1, LeakNone DEF vars
  <1> QED BY <1>1, <1>2, <1>3, <1>4, <1>5, <1>6, <1>7, <1>8, <1>9, <1>10 DEF Next, Step

\* However many requests overlap, a TXT record is forgotten only by a crash,
\* which costs at most one record per request in flight, or by a failed call
\* of the provider, which costs one.
THEOREM LeaksAreCounted == Spec => []LeakPerFailure
  <1>1. Init => LeakPerFailure
    <2> SUFFICES ASSUME Init PROVE LeakPerFailure OBVIOUS
    <2>1. Cardinality(Leaked) = 0 BY FS_EmptySet DEF Init, Leaked
    <2>2. used["crash"] = 0 /\ used["lost"] = 0 BY DEF Init, Kinds
    <2>3. 0 * Cardinality(Workers) = 0 BY WorkersFinite
    <2> QED BY <2>1, <2>2, <2>3 DEF LeakPerFailure
  <1> QED BY <1>1, StepLeak, InitKnown, StepKnown, TypeHolds, PTL DEF Spec

--------------------------------------------------------------------------------
(* One request at a time *)

Alone ==
    ~tangled =>
        /\ \A v, w \in Workers : pc[v] # "idle" /\ pc[w] # "idle" => v = w
        /\ IsTerminal(order.state) => \A w \in Workers : pc[w] = "idle"

Start(w) == ProcessOrder(w) \/ MarkOrderCompleted(w) \/ FailOrder(w)

LEMMA StartFrame ==
  ASSUME NEW w \in Workers, Start(w)
  PROVE  /\ ~IsTerminal(order.state)
         /\ UNCHANGED <<order, rows, upstream, issued, hand, used>>
         /\ tangled' = (tangled \/ \E v \in Workers : pc[v] # "idle")
         /\ pc' = [pc EXCEPT ![w] = pc'[w]]
  BY DEF Start, ProcessOrder, MarkOrderCompleted, FailOrder, Request, IsTerminal, tables

\* A step of a request, and the order it may write: only the last step of a
\* request writes a final state.
LEMMA StepFrame ==
  ASSUME TypeInv, NEW w \in Workers, Step(w)
  PROVE  /\ pc[w] # "idle" /\ UNCHANGED tangled
         /\ pc' = [pc EXCEPT ![w] = pc'[w]]
         /\ \/ order'.state = order.state
            \/ ~IsTerminal(order'.state)
            \/ pc'[w] = "idle"
  <1>1. CASE Update(w)
    <2>1. pc[w] \in Updating /\ order' = copy[w] /\ Staged(pc[w], copy[w].state)
      BY <1>1 DEF Update, TypeInv
    <2>2. pc' = [pc EXCEPT ![w] = AfterUpdate(pc[w])] /\ UNCHANGED tangled
      BY <1>1 DEF Update, Go
    <2>3. CASE pc[w] = "save" BY <2>1, <2>2, <2>3 DEF AfterUpdate, TypeInv, TypeOK
    <2>4. CASE pc[w] # "save"
      BY <2>1, <2>2, <2>4 DEF Updating, Staged, IsTerminal, TypeInv, TypeOK
    <2> QED BY <2>3, <2>4
  <1>2. CASE UpdateRefused(w)
    BY <1>2 DEF UpdateRefused, Go, Updating, tables
  <1>3. CASE CreateRecord(w) \/ CreateFails(w) \/ Persist(w) \/ PersistFails(w) \/ Rollback(w)
    BY <1>3 DEF CreateRecord, CreateFails, Persist, PersistFails, Rollback, Failed, Go, tables
  <1>4. CASE CheckPropagation(w)
    BY <1>4 DEF CheckPropagation, Go, tables
  <1>5. CASE CleanupFinds(w) \/ CleanupSkips(w) \/ DeleteRecord(w) \/ DeleteFails(w)
             \/ DeleteRowFails(w)
    BY <1>5 DEF CleanupFinds, CleanupSkips, DeleteRecord, DeleteFails, DeleteRowFails, Skip,
       tables
  <1>6. CASE DeleteRow(w)
    <2>1. order'.state = order.state BY <1>6 DEF DeleteRow, TypeInv, TypeOK, Orders
    <2> QED BY <1>6, <2>1 DEF DeleteRow, Skip
  <1> QED BY <1>1, <1>2, <1>3, <1>4, <1>5, <1>6 DEF Step

LEMMA StepAlone == TypeInv /\ Alone /\ [Next]_vars => Alone'
  <1> SUFFICES ASSUME TypeInv, Alone, [Next]_vars, ~tangled' PROVE Alone'
    BY DEF Alone
  <1>1. ASSUME NEW w \in Workers, Start(w) PROVE Alone'
    BY <1>1, StartFrame DEF Alone, TypeInv, TypeOK
  <1>2. ASSUME NEW w \in Workers, Step(w) PROVE Alone'
    <2>1. \A v \in Workers \ {w} : pc[v] = "idle" /\ pc'[v] = "idle"
      BY <1>2, StepFrame DEF Alone, TypeInv, TypeOK
    <2>2. ~IsTerminal(order.state) BY <1>2, StepFrame DEF Alone
    <2> QED BY <1>2, <2>1, <2>2, StepFrame DEF Alone, IsTerminal
  <1>3. CASE Crash BY <1>3 DEF Crash, Alone, tables
  <1>4. CASE UNCHANGED vars BY <1>4 DEF vars, Alone, IsTerminal
  <1> QED BY <1>1, <1>2, <1>3, <1>4 DEF Next, Start

LEMMA AloneHolds == Spec => []Alone
  <1>1. Init => Alone BY DEF Init, Alone
  <1> QED BY <1>1, StepAlone, TypeHolds, PTL DEF Spec

\* A completed or failed order stays so, through every crash and failure, as
\* long as no two requests for it overlap.
THEOREM FinalStatesStay == Spec => TerminalIsFinal
  <1>1. TypeInv /\ Alone /\ [Next]_vars
          => [IsTerminal(order.state) /\ ~tangled => order'.state = order.state]_vars
    <2> SUFFICES ASSUME TypeInv, Alone, Next, IsTerminal(order.state), ~tangled
                 PROVE  order'.state = order.state
      OBVIOUS
    <2>1. ASSUME NEW w \in Workers, Start(w) PROVE FALSE BY <2>1, StartFrame
    <2>2. ASSUME NEW w \in Workers, Step(w) PROVE FALSE BY <2>2, StepFrame DEF Alone
    <2>3. CASE Crash BY <2>3 DEF Crash, tables
    <2> QED BY <2>1, <2>2, <2>3 DEF Next, Start
  <1> QED BY <1>1, TypeHolds, AloneHolds, PTL DEF Spec, TerminalIsFinal

--------------------------------------------------------------------------------
(* What a quiet order leaves behind *)

Kept(S) == rows = S /\ upstream = S
Own(o) == {o.rec} \ {None}

\* Between requests the service keeps exactly the record of the order.
Settled ==
    /\ order.state \in {"pending", "dropping", "completed"} => order.rec = None
    /\ (\A w \in Workers : pc[w] = "idle") => Kept(Own(order))

\* What it keeps, and what the copy says of it, while a request is in flight.
Tidy(w) ==
    /\ pc[w] \in {"drop", "create"} =>
          Kept({}) /\ copy[w].rec = None /\ copy[w].state = "dropping" /\ order.rec = None
    /\ pc[w] = "persist" => rows = {} /\ upstream = {hand[w]}
    /\ pc[w] # "rollback"
    /\ pc[w] = "propagate" => Kept({copy[w].rec}) /\ copy[w].rec # None
    /\ pc[w] \in {"lookup", "complete", "clean"} =>
          Kept(Own(order)) /\ copy[w].rec = order.rec
    /\ pc[w] = "delete" => Kept({hand[w]}) /\ order.rec = hand[w] /\ copy[w].rec = hand[w]
    /\ pc[w] = "forget" => /\ rows = {hand[w]} /\ upstream = {} /\ order.rec = hand[w]
                           /\ copy[w].rec = hand[w]
    /\ pc[w] = "save" => /\ Kept(Own(order))
                         /\ copy[w].rec = None => rows = {}
                         /\ copy[w].state = "completed" => rows = {}
    /\ pc[w] \in {"clean", "delete", "forget", "save"} =>
          copy[w].state \notin {"pending", "dropping"}

QuietInv == Quiet => Settled /\ \A w \in Workers : Tidy(w)

\* In a quiet step nothing fails.
LEMMA QuietStep ==
  ASSUME TypeInv, Quiet', NEW k \in Kinds
  PROVE  ~Spend(k)
  <1> SUFFICES ASSUME Spend(k) PROVE FALSE OBVIOUS
  <1>1. used[k] \in Nat /\ used'[k] = used[k] + 1 BY SpendType DEF TypeInv, TypeOK
  <1>2. used'[k] = 0 BY DEF Quiet
  <1> QED BY <1>1, <1>2

\* A step of the only request in flight.
LEMMA TidyStep ==
  ASSUME TypeInv, NEW w \in Workers, \A v \in Workers \ {w} : pc[v] = "idle",
         pc' = [pc EXCEPT ![w] = pc'[w]], Tidy(w)',
         order'.state \in {"pending", "dropping", "completed"} => order'.rec = None,
         pc'[w] = "idle" => Kept(Own(order))'
  PROVE  QuietInv'
  <1>1. \A v \in Workers \ {w} : pc'[v] = "idle" BY DEF TypeInv, TypeOK
  <1>2. \A v \in Workers : Tidy(v)' BY <1>1 DEF Tidy
  <1>3. Settled' BY DEF Settled
  <1> QED BY <1>2, <1>3 DEF QuietInv

LEMMA StartQuiet ==
  ASSUME TypeInv, QuietInv, Quiet', NEW w \in Workers, Start(w)
  PROVE  QuietInv'
  <1>1. Quiet /\ \A v \in Workers : pc[v] = "idle"
    BY StartFrame DEF Quiet
  <1>2. Settled /\ Kept(Own(order)) BY <1>1 DEF QuietInv, Settled
  <1>3. /\ UNCHANGED <<order, rows, upstream>> /\ pc' = [pc EXCEPT ![w] = pc'[w]]
    BY StartFrame
  <1>4. PICK s \in States, p \in {"drop", "lookup", "complete", "clean"} :
            /\ pc'[w] = p /\ copy'[w] = [order EXCEPT !.state = s]
            /\ p = "drop" => s = "dropping" /\ order.state \in {"pending", "dropping"}
            /\ p = "clean" => s \notin {"pending", "dropping"}
    BY DEF Start, ProcessOrder, MarkOrderCompleted, FailOrder, Request, States, TypeInv, TypeOK
  <1>5. copy'[w].rec = order.rec /\ copy'[w].state = s
    BY <1>4, StateField DEF TypeInv, TypeOK
  <1>6. Tidy(w)' BY <1>2, <1>3, <1>4, <1>5 DEF Tidy, Settled, Kept, Own
  <1>7. order'.state \in {"pending", "dropping", "completed"} => order'.rec = None
    BY <1>2, <1>3 DEF Settled
  <1> QED BY <1>1, <1>3, <1>4, <1>6, <1>7, TidyStep


\* What TidyStep asks of a step.
Goal(w) ==
    /\ Tidy(w)
    /\ order.state \in {"pending", "dropping", "completed"} => order.rec = None
    /\ pc[w] = "idle" => Kept(Own(order))

LEMMA UpdateQuiet ==
  ASSUME TypeInv, Quiet', Settled, NEW w \in Workers, Tidy(w), Update(w) \/ UpdateRefused(w)
  PROVE  Goal(w)'
  <1>0. pc[w] \in Updating /\ UNCHANGED <<rows, upstream>> /\ None \notin rows
    BY AcmeAssumption DEF Update, UpdateRefused, tables, TypeInv, TypeOK
  <1>1. CASE UpdateRefused(w)
    <2>1. Dangling(copy[w]) BY <1>1, QuietStep DEF UpdateRefused, Kinds
    <2>2. pc'[w] = "idle" /\ UNCHANGED order
      BY <1>1 DEF UpdateRefused, Go, tables, TypeInv, TypeOK
    <2>3. Kept(Own(order)) BY <1>0, <2>1 DEF Dangling, Updating, Tidy, Kept, Own
    <2> QED BY <1>0, <2>2, <2>3 DEF Goal, Tidy, Kept, Own, Settled
  <1>2. CASE Update(w)
    <2>1. order' = copy[w] /\ ~Dangling(copy[w]) /\ Staged(pc[w], copy[w].state)
      BY <1>2 DEF Update, TypeInv
    <2>2. pc'[w] = AfterUpdate(pc[w]) BY <1>2 DEF Update, Go, TypeInv, TypeOK
    <2>3. CASE pc[w] = "drop"
      <3>1. pc'[w] = "create" /\ copy'[w] = copy[w]
        BY <1>2, <2>2, <2>3 DEF Update, Go, AfterUpdate, TypeInv, TypeOK
      <3> QED BY <1>0, <2>1, <2>3, <3>1 DEF Goal, Tidy, Kept
    <2>4. CASE pc[w] = "propagate"
      <3>1. pc'[w] = "lookup" /\ copy'[w] = copy[w]
        BY <1>2, <2>2, <2>4 DEF Update, Go, AfterUpdate, TypeInv, TypeOK
      <3> QED BY <1>0, <2>1, <2>4, <3>1 DEF Goal, Tidy, Kept, Own, Staged
    <2>5. CASE pc[w] = "complete"
      <3>1. pc'[w] = "clean" /\ copy'[w] = [copy[w] EXCEPT !.state = "completed"]
        BY <1>2, <2>2, <2>5 DEF Update, Go, AfterUpdate, TypeInv, TypeOK
      <3>2. copy'[w].rec = copy[w].rec /\ copy'[w].state = "completed"
        BY <3>1, StateField, CopyFields DEF States
      <3> QED BY <1>0, <2>1, <2>5, <3>1, <3>2 DEF Goal, Tidy, Kept, Own, Staged
    <2>6. CASE pc[w] = "save"
      <3>1. pc'[w] = "idle" BY <2>2, <2>6 DEF AfterUpdate
      <3>2. rows = Own(copy[w]) /\ (copy[w].state = "completed" => copy[w].rec = None)
        BY <1>0, <2>1, <2>6 DEF Tidy, Kept, Own, Dangling
      <3> QED BY <1>0, <2>1, <2>6, <3>1, <3>2 DEF Goal, Tidy, Kept, Own
    <2> QED BY <1>0, <2>3, <2>4, <2>5, <2>6 DEF Updating
  <1> QED BY <1>1, <1>2

LEMMA DropQuiet ==
  ASSUME TypeInv, Quiet', Settled, NEW w \in Workers, Tidy(w),
         CreateRecord(w) \/ CreateFails(w) \/ Persist(w) \/ PersistFails(w) \/ Rollback(w)
  PROVE  Goal(w)'
  <1>0. /\ UNCHANGED order /\ Settled
        /\ ~PersistFails(w) /\ ~Rollback(w)
    BY QuietStep DEF CreateRecord, CreateFails, Persist, PersistFails, Rollback, Tidy, tables,
       Kinds
  <1>1. CASE CreateRecord(w)
    <2>1. pc[w] = "create" /\ pc'[w] = "persist" /\ UNCHANGED rows
          /\ upstream' = upstream \cup {hand'[w]}
      BY <1>1 DEF CreateRecord, tables, TypeInv, TypeOK
    <2> QED BY <1>0, <2>1 DEF Goal, Tidy, Kept, Settled
  <1>2. CASE CreateFails(w)
    <2>1. /\ pc[w] = "create" /\ pc'[w] = "save" /\ UNCHANGED <<rows, upstream>>
          /\ copy'[w] = [copy[w] EXCEPT !.state = "failed"]
      BY <1>2, QuietStep DEF CreateFails, Failed, Go, tables, TypeInv, TypeOK, Kinds
    <2>2. copy'[w].rec = copy[w].rec /\ copy'[w].state = "failed"
      BY <2>1, StateField, CopyFields DEF States
    <2> QED BY <1>0, <2>1, <2>2 DEF Goal, Tidy, Kept, Own, Settled
  <1>3. CASE Persist(w)
    <2>1. /\ pc[w] = "persist" /\ pc'[w] = "propagate" /\ UNCHANGED upstream
          /\ rows' = rows \cup {hand[w]} /\ copy'[w].rec = hand[w] /\ hand[w] # None
      BY <1>3 DEF Persist, Go, TypeInv, TypeOK, Holding
    <2> QED BY <1>0, <2>1 DEF Goal, Tidy, Kept, Settled
  <1> QED BY <1>0, <1>1, <1>2, <1>3

LEMMA CheckQuiet ==
  ASSUME TypeInv, Settled, NEW w \in Workers, Tidy(w), CheckPropagation(w)
  PROVE  Goal(w)'
  <1>1. /\ pc[w] = "lookup" /\ pc'[w] = "save" /\ UNCHANGED <<order, rows, upstream>>
        /\ copy[w] \in Orders /\ copy[w].state = "propagating"
    BY CopyFields DEF CheckPropagation, Go, tables, TypeInv, TypeOK, Staged
  <1>2. /\ copy'[w].rec = copy[w].rec
        /\ copy'[w].state \notin {"pending", "dropping", "completed"}
    <2>1. PICK s \in {"propagating", "failed", "ready"} :
              copy'[w] = [copy[w] EXCEPT !.count = @ + 1, !.state = s]
      <3>1. CASE copy'[w] = Checked(copy[w]) BY <1>1, <3>1 DEF Checked
      <3>2. CASE copy'[w] = [copy[w] EXCEPT !.count = @ + 1, !.state = "ready"] BY <3>2
      <3> QED BY <3>1, <3>2 DEF CheckPropagation, Go, TypeInv, TypeOK
    <2> QED BY <1>1, <2>1 DEF Orders
  <1> QED BY <1>1, <1>2 DEF Goal, Tidy, Kept, Own, Settled

LEMMA CleanupQuiet ==
  ASSUME TypeInv, Quiet', Settled, NEW w \in Workers, Tidy(w),
         \/ CleanupFinds(w) \/ CleanupSkips(w) \/ DeleteRecord(w) \/ DeleteFails(w)
         \/ DeleteRow(w) \/ DeleteRowFails(w)
  PROVE  Goal(w)'
  <1>0. ~DeleteFails(w) /\ ~DeleteRowFails(w)
    BY QuietStep DEF DeleteFails, DeleteRowFails, Kinds
  <1>1. CASE CleanupFinds(w)
    <2>1. /\ pc[w] = "clean" /\ pc'[w] = "delete" /\ copy[w].rec \in rows
          /\ hand'[w] = copy[w].rec /\ UNCHANGED <<order, rows, upstream, copy>>
      BY <1>1 DEF CleanupFinds, tables, TypeInv, TypeOK
    <2> QED BY <2>1 DEF Goal, Tidy, Kept, Own, Settled
  <1>2. CASE CleanupSkips(w)
    <2>1. copy[w].rec \notin rows BY <1>2, QuietStep DEF CleanupSkips, Kinds
    <2>2. pc[w] = "clean" /\ pc'[w] = "save" /\ UNCHANGED <<order, rows, upstream, copy>>
      BY <1>2 DEF CleanupSkips, Skip, tables, TypeInv, TypeOK
    <2> QED BY <2>1, <2>2 DEF Goal, Tidy, Kept, Own, Settled
  <1>3. CASE DeleteRecord(w)
    <2>1. /\ pc[w] = "delete" /\ pc'[w] = "forget" /\ upstream' = upstream \ {hand[w]}
          /\ UNCHANGED <<order, rows, copy, hand>>
      BY <1>3 DEF DeleteRecord, tables, TypeInv, TypeOK
    <2> QED BY <2>1 DEF Goal, Tidy, Kept, Settled
  <1>4. CASE DeleteRow(w)
    <2>1. /\ pc[w] = "forget" /\ pc'[w] = "save" /\ rows' = rows \ {hand[w]}
          /\ order.rec = hand[w] /\ order' = [order EXCEPT !.rec = None]
          /\ UNCHANGED <<upstream, copy>>
      BY <1>4 DEF DeleteRow, Skip, Tidy, TypeInv, TypeOK
    <2>2. order'.rec = None /\ order'.state = order.state
      BY <2>1 DEF TypeInv, TypeOK, Orders
    <2>3. rows' = {} /\ upstream' = {} BY <2>1 DEF Tidy
    <2> QED BY <2>1, <2>2, <2>3 DEF Goal, Tidy, Kept, Own, Settled
  <1> QED BY <1>0, <1>1, <1>2, <1>3, <1>4

LEMMA StepQuiet == TypeInv /\ Alone /\ QuietInv /\ [Next]_vars => QuietInv'
  <1> SUFFICES ASSUME TypeInv, Alone, QuietInv, [Next]_vars, Quiet' PROVE QuietInv'
    BY DEF QuietInv
  <1>1. ASSUME NEW w \in Workers, Start(w) PROVE QuietInv' BY <1>1, StartQuiet
  <1>2. ASSUME NEW w \in Workers, Step(w) PROVE QuietInv'
    <2>1. ~tangled /\ \A v \in Workers \ {w} : pc[v] = "idle"
      BY <1>2, StepFrame DEF Quiet, Alone
    <2>2. \A k \in Kinds : used[k] = 0
      <3>1. UNCHANGED used \/ \E k \in Kinds : Spend(k)
        BY <1>2 DEF Step, Update, UpdateRefused, CreateRecord, CreateFails, Persist,
           PersistFails, Rollback, CheckPropagation, CleanupFinds, CleanupSkips,
           DeleteRecord, DeleteFails, DeleteRow, DeleteRowFails, Kinds
      <3> QED BY <3>1, QuietStep DEF Quiet
    <2>3. Settled /\ Tidy(w) BY <2>1, <2>2 DEF Quiet, QuietInv
    <2>4. Goal(w)'
      BY <1>2, <2>3, UpdateQuiet, DropQuiet, CheckQuiet, CleanupQuiet DEF Step
    <2> QED BY <1>2, <2>1, <2>4, StepFrame, TidyStep DEF Goal
  <1>3. CASE Crash BY <1>3, QuietStep DEF Crash, Kinds
  <1>4. CASE UNCHANGED vars
    BY <1>4 DEF vars, QuietInv, Quiet, Settled, Tidy, Kept, Own
  <1> QED BY <1>1, <1>2, <1>3, <1>4 DEF Next, Start

\* When nothing fails and no requests overlap, a completed order has left no
\* TXT record and no row, although the Update that completes it may be refused
\* once (see CompletionIsAccepted).
THEOREM CompletedOrdersAreClean == Spec => []CompletedIsClean
  <1>1. Init => QuietInv
    BY DEF Init, QuietInv, Settled, Tidy, Kept, Own, NewOrder
  <1>2. Alone /\ QuietInv => CompletedIsClean
    BY DEF Alone, QuietInv, Quiet, Settled, Kept, Own, CompletedIsClean, IsTerminal
  <1> QED BY <1>1, <1>2, StepQuiet, TypeHolds, AloneHolds, PTL DEF Spec
================================================================================
