------------------------------ MODULE MCTables ------------------------------
(* Instances of Tables for TLC. *)
EXTENDS Tables, TLC

CoroutinesAreAlike == Permutations(Procs)
=============================================================================
