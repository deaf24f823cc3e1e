--------------------------- MODULE MCContainerUpdate ---------------------------
(* Instances of ContainerUpdate for TLC. *)
EXTENDS ContainerUpdate, TLC

CONSTANTS MaxRefused, MaxLost, MaxSick, MaxCancel, MaxCrash, MaxOverlap, MaxStray, MaxRollback

MCMaxUses == [refused |-> MaxRefused, lost |-> MaxLost, sick |-> MaxSick,
              cancel |-> MaxCancel, crash |-> MaxCrash, overlap |-> MaxOverlap,
              stray |-> MaxStray, rollback |-> MaxRollback]

\* Requests and versions are interchangeable.
Symmetry == Permutations(Requests) \cup Permutations(Versions)

\* What a service with two mishaps at most has to stand, or with one and an
\* overlap; a third request is for overlaps in which only a sick container is one.
FewMishaps ==
    LET others == used["refused"] + used["lost"] + used["cancel"] + used["crash"]
    IN  /\ others + used["sick"] <= 2
        /\ used["overlap"] * others = 0 \/ others + used["sick"] + used["overlap"] <= 2
================================================================================
