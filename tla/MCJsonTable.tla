---------------------------- MODULE MCJsonTable ----------------------------
(* Instances of JsonTable for TLC. *)
EXTENDS JsonTable, TLC

CoroutinesAreAlike == Permutations(Procs)
=============================================================================
