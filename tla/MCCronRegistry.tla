---------------------------- MODULE MCCronRegistry ----------------------------
(* Instances of CronRegistry for TLC. *)
EXTENDS CronRegistry, TLC

\* IDs, clients and registrable schedules are interchangeable.
Symmetry == Permutations(Ids) \cup Permutations(Clients) \cup Permutations(Registrable)
===============================================================================
