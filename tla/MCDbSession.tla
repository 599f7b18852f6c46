----------------------------- MODULE MCDbSession -----------------------------
(* Instances of DbSession for TLC. *)
EXTENDS DbSession, TLC

UnitsAreAlike == Permutations(Units)
=============================================================================
