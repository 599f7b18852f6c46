------------------------------ MODULE RowStore ------------------------------
(***************************************************************************)
(* What the memory and the Redis backend of the table cache have in        *)
(* common: rows by key, the answers of the conditional writes, and the     *)
(* history of both that the properties speak of.                           *)
(***************************************************************************)
EXTENDS Integers, FiniteSets

CONSTANTS
    Keys,      \* rows of the inbox, of any of its tables
    Table,     \* the keys of the one table delete_table is called for
    Procs,     \* coroutines using the cache
    Nobody,    \* not a coroutine
    Ttls,      \* the TTLs they pass; 0 stands for None
    MaxCount   \* bound: increments a row can hold

ASSUME RowStoreAssumption ==
    /\ Table \subseteq Keys
    /\ Nobody \notin Procs
    /\ Ttls \subseteq Nat
    /\ MaxCount \in Nat \ {0}

VARIABLES
    rows,     \* the rows the backend holds
    reply,    \* what the last write was answered, at its caller; nothing to a plain one
    winners,  \* history: callers told CREATED since the row was last absent
    tally     \* history: increments acknowledged since the row was last reset

Replies == {"none", "created", "already_exists",
            "replaced", "condition_not_met", "missing"}

Has(k) == k \in DOMAIN rows

With(k, entry) == [j \in DOMAIN rows \cup {k} |-> IF j = k THEN entry ELSE rows[j]]

Without(gone) == [j \in DOMAIN rows \ gone |-> rows[j]]

Forget(gone) ==
    /\ winners' = [k \in Keys |-> IF k \in gone THEN {} ELSE winners[k]]
    /\ tally' = [k \in Keys |-> IF k \in gone THEN 0 ELSE tally[k]]

Answer(p, r) == reply' = [q \in Procs |-> IF q = p THEN r ELSE "none"]

NoAnswer == reply' = [q \in Procs |-> "none"]

-----------------------------------------------------------------------------

\* "Concurrent callers racing for the same pkid produce exactly one CREATED":
\* two callers are never told so for one life of a row.
ExclusiveClaim == \A k \in Keys : Cardinality(winners[k]) <= 1
=============================================================================
