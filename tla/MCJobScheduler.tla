---------------------------- MODULE MCJobScheduler ----------------------------
(* Instances of JobScheduler for TLC. *)
EXTENDS JobScheduler, TLC

CONSTANTS MaxFault, MaxCrash, MaxLease, MaxTtl, MaxCancel, MaxDelete, MaxStop

MCMaxUses == [fault |-> MaxFault, crash |-> MaxCrash, lease |-> MaxLease,
              ttl |-> MaxTtl, cancel |-> MaxCancel, delete |-> MaxDelete,
              stop |-> MaxStop]

\* Jobs (all failing or none) and workers are interchangeable.
Symmetry == Permutations(Jobs) \cup Permutations(Workers)

\* For properties that do not speak of them: as long as no row is deleted, the jobs
\* table steers nothing but itself and the copies of its rows; and no step reads
\* refused and unanswered.
View == <<redis, pool, pc, job, snap, callback, stale, fresh, used, execs, canceled, acked>>

\* A lease expires under a live holder, or a data key outlives its TTL, or
\* commands fail: two of them, or one beside a cancellation.
OneTrouble ==
    /\ used["lease"] = 0 \/ \A k \in {"fault", "ttl", "cancel"} : used[k] = 0
    /\ used["fault"] = 0 \/ (used["ttl"] = 0 /\ used["fault"] + used["cancel"] <= 2)
===============================================================================
