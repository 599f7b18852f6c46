-------------------------- MODULE MCVersionedTable --------------------------
(* Instances of VersionedTable for TLC. *)
EXTENDS VersionedTable, TLC

CallersAreAlike == Permutations(Procs)
=============================================================================
