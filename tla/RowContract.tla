---------------------------- MODULE RowContract ----------------------------
(***************************************************************************)
(* What ITableCache (wappa/domain/interfaces/cache_interfaces.py) promises *)
(* of the rows of a table, whatever the backend: every operation takes     *)
(* effect on its own row in one step, a conditional write decides and      *)
(* writes in that step, and its reply says what it found.                  *)
(*                                                                         *)
(* Rows also expire.  Expiry takes a row away at once or lets it lapse: it *)
(* is absent to every caller, but renew_ttl brings it back as it was, as   *)
(* long as nobody has been answered that it is missing, and nobody has     *)
(* written or deleted it.                                                  *)
(*                                                                         *)
(* A row is abstracted to the caller whose whole-row write it holds.       *)
(***************************************************************************)
CONSTANTS
    Keys,    \* primary keys
    Procs,   \* callers
    Nobody   \* the holder of an absent row, no caller

VARIABLES
    holder,  \* holder[k]: who wrote the row of k, Nobody when there is none
    lapsed,  \* the rows that have expired and may be renewed
    reply    \* what the last write was answered, at its caller; nothing to a plain one

contractVars == <<holder, lapsed, reply>>

Replies == {"none", "created", "already_exists",
            "replaced", "condition_not_met", "missing"}

ContractInit ==
    /\ holder = [k \in Keys |-> Nobody]
    /\ lapsed = {}
    /\ reply = [p \in Procs |-> "none"]

Absent(k) == holder[k] = Nobody \/ k \in lapsed

\* The row of k is h's, and nothing of an earlier one can come back.
Becomes(k, h) ==
    /\ lapsed' = lapsed \ {k}
    /\ holder' = [holder EXCEPT ![k] = h]

Answer(p, r) == reply' = [q \in Procs |-> IF q = p THEN r ELSE "none"]

NoAnswer == reply' = [q \in Procs |-> "none"]

\* create_if_absent: CREATED to the one caller that finds no row.
Create(p, k) ==
    \/ Answer(p, "created") /\ Absent(k) /\ Becomes(k, p)
    \/ Answer(p, "already_exists") /\ ~Absent(k) /\ UNCHANGED <<holder, lapsed>>

\* replace_if: whether `expected` matches the row is a free choice.  A row of
\* which a caller was told that it is missing is gone for good.
Replace(p, k) ==
    \/ Answer(p, "missing") /\ Absent(k) /\ Becomes(k, Nobody)
    \/ Answer(p, "replaced") /\ ~Absent(k) /\ Becomes(k, p)
    \/ Answer(p, "condition_not_met") /\ ~Absent(k) /\ UNCHANGED <<holder, lapsed>>

\* upsert, and the update of a field: an absent row becomes the caller's, one
\* that is there stays its holder's.
Put(p, k) == NoAnswer /\ Becomes(k, p)

\* delete, delete_table row by row, and expiry: rows are gone.
Vanish(gone) ==
    /\ UNCHANGED reply
    /\ lapsed' = lapsed \ gone
    /\ holder' = [k \in Keys |-> IF k \in gone THEN Nobody ELSE holder[k]]

\* Expiry that leaves the rows to be renewed.
Lapse(expired) ==
    /\ UNCHANGED reply
    /\ lapsed' = lapsed \cup expired
    /\ UNCHANGED holder

\* renew_ttl of a row that has lapsed: no write, the row is as it was.
Renew(k) ==
    /\ k \in lapsed
    /\ UNCHANGED reply
    /\ lapsed' = lapsed \ {k}
    /\ UNCHANGED holder

ContractNext ==
    \/ \E p \in Procs, k \in Keys : Create(p, k) \/ Replace(p, k) \/ Put(p, k)
    \/ \E some \in SUBSET Keys : Vanish(some) \/ Lapse(some)
    \/ \E k \in Keys : Renew(k)

Contract == ContractInit /\ [][ContractNext]_contractVars
=============================================================================
