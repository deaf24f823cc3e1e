------------------------------- MODULE AcmeOrder -------------------------------
(***************************************************************************)
(* One ACME DNS-01 order of the DNS service (internal/services/dns/acme.go): *)
(* the row of dns_acme_orders, the TXT records at the DNS provider, the     *)
(* rows of dns_records that remember them, and the requests that process,   *)
(* complete and fail the order.                                             *)
(*                                                                         *)
(* A request reads the order once and works on that copy: every later       *)
(* Update writes all columns of the copy back, whatever other requests did  *)
(* in between.  Each statement of Postgres and each call of the provider is *)
(* a step, and the process may crash between any two.  On boot              *)
(* ResumeInFlightOrders processes an unfinished order like a request does.  *)
(***************************************************************************)
EXTENDS Naturals, FiniteSets

CONSTANTS
    Workers,       \* requests that can be in flight at once
    Recs,          \* TXT records that can be created (bound)
    None,
    MaxChecks,     \* PropagationCheckMaxAttempts
    MaxUses        \* bounds on the kinds of failure below

\* crash: the process ends and starts again; fault: a statement of Postgres
\* fails; lost: a call of the provider fails and the record it was about stays.
Kinds == {"crash", "fault", "lost"}

ASSUME AcmeAssumption ==
    /\ IsFiniteSet(Workers) /\ IsFiniteSet(Recs)
    /\ None \notin Recs
    /\ MaxChecks \in Nat \ {0}
    /\ MaxUses \in [Kinds -> Nat]

VARIABLES
    order,         \* the row of the order: state, record_id, propagation_check_count
    rows,          \* dns_records
    upstream,      \* the records at the provider
    issued,        \* the records created so far
    pc, copy, hand, \* a request: next step, copy of the order (NewOrder when there is none), record
    tangled,       \* did a request start while another one was in flight?
    used

tables == <<order, rows>>
vars == <<order, rows, upstream, issued, pc, copy, hand, tangled, used>>

States == {"pending", "dropping", "propagating", "ready", "completing", "completed", "failed"}
Orders == [state : States, rec : Recs \cup {None}, count : 0 .. MaxChecks]

IsTerminal(s) == s \in {"completed", "failed"}

Spend(k) == used[k] < MaxUses[k] /\ used' = [used EXCEPT ![k] = @ + 1]

NewOrder == [state |-> "pending", rec |-> None, count |-> 0]

\* StartOrder has inserted the order.
Init ==
    /\ order = NewOrder
    /\ rows = {} /\ upstream = {} /\ issued = {}
    /\ pc = [w \in Workers |-> "idle"]
    /\ copy = [w \in Workers |-> NewOrder]
    /\ hand = [w \in Workers |-> None]
    /\ tangled = FALSE
    /\ used = [k \in Kinds |-> 0]

--------------------------------------------------------------------------------
(* Requests *)

\* A request reads the order, and goes on with a copy in state s at step p.
Request(w, s, p) ==
    /\ pc[w] = "idle"
    /\ pc' = [pc EXCEPT ![w] = p]
    /\ copy' = [copy EXCEPT ![w] = [order EXCEPT !.state = s]]
    /\ tangled' = (tangled \/ \E v \in Workers : pc[v] # "idle")
    /\ UNCHANGED <<tables, upstream, issued, hand, used>>

\* An order that is ready or finished is returned as it is.
ProcessOrder(w) ==
    \/ order.state \in {"pending", "dropping"} /\ Request(w, "dropping", "drop")
    \/ order.state = "propagating" /\ Request(w, "propagating", "lookup")
    \/ order.state = "completing" /\ Request(w, "completed", "clean")

\* Any other state is a conflict.
MarkOrderCompleted(w) ==
    order.state = "ready" /\ Request(w, "completing", "complete")

\* Mutant of FailOrder: an order that is finished is failed too.
FailAnyOrder(w) == Request(w, "failed", "clean")

FailOrder(w) == ~IsTerminal(order.state) /\ Request(w, "failed", "clean")

--------------------------------------------------------------------------------
(* orders.Update *)

Go(w, p, o) ==
    /\ pc' = [pc EXCEPT ![w] = p]
    /\ copy' = [copy EXCEPT ![w] = o]

Updating == {"drop", "propagate", "complete", "save"}

\* Mutant of AfterUpdate: MarkOrderCompleted leaves the TXT record.
AfterUpdateDone(p) ==
    CASE p = "drop" -> "create"
      [] p = "propagate" -> "lookup"
      [] p = "complete" -> "save"
      [] p = "save" -> "idle"

\* The step after an Update that succeeded; the last one ends the request.
AfterUpdate(p) ==
    CASE p = "drop" -> "create"
      [] p = "propagate" -> "lookup"
      [] p = "complete" -> "clean"
      [] p = "save" -> "idle"

\* record_id references dns_records.
Dangling(o) == o.rec # None /\ o.rec \notin rows

Update(w) ==
    /\ pc[w] \in Updating /\ ~Dangling(copy[w])
    /\ order' = copy[w]
    /\ Go(w, AfterUpdate(pc[w]),
          CASE pc[w] = "complete" -> [copy[w] EXCEPT !.state = "completed"]
            [] pc[w] = "save" -> NewOrder
            [] OTHER -> copy[w])
    /\ UNCHANGED <<rows, upstream, issued, hand, tangled, used>>

\* The foreign key is violated, or the statement fails: the request returns the error.
UpdateRefused(w) ==
    /\ pc[w] \in Updating
    /\ IF Dangling(copy[w]) THEN UNCHANGED used ELSE Spend("fault")
    /\ Go(w, "idle", NewOrder)
    /\ UNCHANGED <<tables, upstream, issued, hand, tangled>>

--------------------------------------------------------------------------------
(* dropTXT *)

Failed(w) == Go(w, "save", [copy[w] EXCEPT !.state = "failed"])

CreateRecord(w) ==
    /\ pc[w] = "create"
    /\ \E r \in Recs \ issued :
          /\ issued' = issued \cup {r}
          /\ upstream' = upstream \cup {r}
          /\ hand' = [hand EXCEPT ![w] = r]
    /\ pc' = [pc EXCEPT ![w] = "persist"]
    /\ UNCHANGED <<tables, copy, tangled, used>>

\* The provider cannot be loaded or opened, or the call fails; the call may
\* have created the record all the same.
CreateFails(w) ==
    /\ pc[w] = "create"
    /\ \/ UNCHANGED <<issued, upstream, used>>
       \/ /\ Spend("lost")
          /\ \E r \in Recs \ issued :
                issued' = issued \cup {r} /\ upstream' = upstream \cup {r}
    /\ Failed(w)
    /\ UNCHANGED <<tables, hand, tangled>>

Persist(w) ==
    /\ pc[w] = "persist"
    /\ rows' = rows \cup {hand[w]}
    /\ hand' = [hand EXCEPT ![w] = None]
    /\ Go(w, "propagate", [state |-> "propagating", rec |-> hand[w], count |-> 0])
    /\ UNCHANGED <<order, upstream, issued, tangled, used>>

\* Mutant of PersistFails: the upstream record is not rolled back.
PersistFailsOnly(w) ==
    /\ pc[w] = "persist" /\ Spend("fault")
    /\ hand' = [hand EXCEPT ![w] = None]
    /\ Failed(w)
    /\ UNCHANGED <<tables, upstream, issued, tangled>>

PersistFails(w) ==
    /\ pc[w] = "persist" /\ Spend("fault")
    /\ pc' = [pc EXCEPT ![w] = "rollback"]
    /\ UNCHANGED <<tables, upstream, issued, copy, hand, tangled>>

Rollback(w) ==
    /\ pc[w] = "rollback"
    /\ \/ upstream' = upstream \ {hand[w]} /\ UNCHANGED used
       \/ Spend("lost") /\ UNCHANGED upstream
    /\ hand' = [hand EXCEPT ![w] = None]
    /\ Failed(w)
    /\ UNCHANGED <<tables, issued, tangled>>

--------------------------------------------------------------------------------
(* checkPropagation *)

\* Mutant of Checked: one attempt more than the limit.
CheckedOnceMore(o) ==
    [o EXCEPT !.count = @ + 1,
              !.state = IF o.count + 1 > MaxChecks THEN "failed" ELSE @]

\* Mutant of Checked: the attempts are not counted.
CheckedUncounted(o) ==
    [o EXCEPT !.state = IF o.count + 1 >= MaxChecks THEN "failed" ELSE @]

\* The order after a look-up that did not find the challenge.
Checked(o) ==
    [o EXCEPT !.count = @ + 1,
              !.state = IF o.count + 1 >= MaxChecks THEN "failed" ELSE @]

\* Resolvers may see a record late, and cache one that is gone.
CheckPropagation(w) ==
    /\ pc[w] = "lookup"
    /\ \/ Go(w, "save", Checked(copy[w]))
       \/ /\ issued # {}
          /\ Go(w, "save", [copy[w] EXCEPT !.count = @ + 1, !.state = "ready"])
    /\ UNCHANGED <<tables, upstream, issued, hand, tangled, used>>

--------------------------------------------------------------------------------
(* cleanupTXTRecord; its errors are only logged *)

Skip(w) ==
    /\ pc' = [pc EXCEPT ![w] = "save"]
    /\ hand' = [hand EXCEPT ![w] = None]

\* records.GetByID finds the row and the provider can be opened.
CleanupFinds(w) ==
    /\ pc[w] = "clean" /\ copy[w].rec \in rows
    /\ pc' = [pc EXCEPT ![w] = "delete"]
    /\ hand' = [hand EXCEPT ![w] = copy[w].rec]
    /\ UNCHANGED <<tables, upstream, issued, copy, tangled, used>>

CleanupSkips(w) ==
    /\ pc[w] = "clean"
    /\ IF copy[w].rec \in rows THEN Spend("fault") ELSE UNCHANGED used
    /\ Skip(w)
    /\ UNCHANGED <<tables, upstream, issued, copy, tangled>>

\* A record that the provider does not have is as good as deleted.
DeleteRecord(w) ==
    /\ pc[w] = "delete"
    /\ upstream' = upstream \ {hand[w]}
    /\ pc' = [pc EXCEPT ![w] = "forget"]
    /\ UNCHANGED <<tables, issued, copy, hand, tangled, used>>

DeleteFails(w) ==
    /\ pc[w] = "delete" /\ Spend("fault")
    /\ Skip(w)
    /\ UNCHANGED <<tables, upstream, issued, copy, tangled>>

\* records.Delete; ON DELETE SET NULL clears the order's record_id.
DeleteRow(w) ==
    /\ pc[w] = "forget"
    /\ rows' = rows \ {hand[w]}
    /\ order' = IF order.rec = hand[w] THEN [order EXCEPT !.rec = None] ELSE order
    /\ Skip(w)
    /\ UNCHANGED <<upstream, issued, copy, tangled, used>>

DeleteRowFails(w) ==
    /\ pc[w] = "forget" /\ Spend("fault")
    /\ Skip(w)
    /\ UNCHANGED <<tables, upstream, issued, copy, tangled>>

--------------------------------------------------------------------------------
\* The process ends, with the requests in flight.
Crash ==
    /\ Spend("crash")
    /\ pc' = [w \in Workers |-> "idle"]
    /\ copy' = [w \in Workers |-> NewOrder]
    /\ hand' = [w \in Workers |-> None]
    /\ UNCHANGED <<tables, upstream, issued, tangled>>

Step(w) ==
    \/ Update(w) \/ UpdateRefused(w)
    \/ CreateRecord(w) \/ CreateFails(w) \/ Persist(w) \/ PersistFails(w) \/ Rollback(w)
    \/ CheckPropagation(w)
    \/ CleanupFinds(w) \/ CleanupSkips(w) \/ DeleteRecord(w) \/ DeleteFails(w)
    \/ DeleteRow(w) \/ DeleteRowFails(w)

Next ==
    \/ \E w \in Workers :
          ProcessOrder(w) \/ MarkOrderCompleted(w) \/ FailOrder(w) \/ Step(w)
    \/ Crash

Spec == Init /\ [][Next]_vars

\* Requests run to their end, and somebody keeps processing the order.
Fairness ==
    /\ \A w \in Workers : WF_vars(Step(w))
    /\ WF_vars(\E w \in Workers : (\A v \in Workers : pc[v] = "idle") /\ ProcessOrder(w))

FairSpec == Spec /\ Fairness

--------------------------------------------------------------------------------
(* Properties *)

Steps == {"idle", "drop", "create", "persist", "rollback", "propagate", "lookup",
          "complete", "clean", "delete", "forget", "save"}

TypeOK ==
    /\ order \in Orders
    /\ rows \subseteq Recs /\ upstream \subseteq Recs /\ issued \subseteq Recs
    /\ pc \in [Workers -> Steps]
    /\ copy \in [Workers -> Orders]
    /\ hand \in [Workers -> Recs \cup {None}]
    /\ tangled \in BOOLEAN
    /\ used \in [Kinds -> Nat]

\* The records at the provider that nothing in the service knows of.
Leaked == {r \in upstream : r \notin rows /\ \A w \in Workers : hand[w] # r}

\* A TXT record is forgotten only when the process ends with a request in
\* flight or a call of the provider fails with the record left behind; however
\* many requests overlap, each such event costs what was in its hands.
LeakPerFailure ==
    Cardinality(Leaked) <= used["crash"] * Cardinality(Workers) + used["lost"]

\* Nothing failed and no two requests overlapped.
Quiet == ~tangled /\ \A k \in Kinds : used[k] = 0

\* MarkOrderCompleted and the requests that finish its work remove the TXT
\* record before the order is completed.
CompletedIsClean == Quiet /\ order.state = "completed" => upstream = {} /\ rows = {}

\* IsTerminal: "whether the state is a final state", as long as the requests
\* for the order do not overlap.
TerminalIsFinal ==
    [][IsTerminal(order.state) /\ ~tangled => order'.state = order.state]_vars

\* An order that is processed again and again becomes ready or ends, whatever
\* fails on the way: the limit on the look-ups is reached after a restart too.
Settles ==
    []~tangled => []<>(order.state \in {"ready", "completed", "failed"})

\* The tests of the service expect MarkOrderCompleted to return the completed
\* order when nothing fails: the Update that completes it is not refused by
\* the database.
CompletionIsAccepted ==
    Quiet => \A w \in Workers :
                pc[w] = "save" /\ copy[w].state = "completed" => ~Dangling(copy[w])
================================================================================
