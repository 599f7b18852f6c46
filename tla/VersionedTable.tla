--------------------------- MODULE VersionedTable ---------------------------
(***************************************************************************)
(* VersionedTableCache (wappa/persistence/versioned_table_cache.py) on a   *)
(* backend whose single commands are atomic (the Redis table cache).       *)
(*                                                                         *)
(* Every row lives under "<table>@v<generation>".  The generation is read  *)
(* from a counter row that has a TTL of its own; an absent counter is      *)
(* generation 1.  Every operation of the cache takes two round trips: it   *)
(* reads the counter to build the physical table name, then runs one       *)
(* command on that table.  Other callers, bumps and TTL expiries fall in   *)
(* between.                                                                *)
(*                                                                         *)
(* Time is a sequence of Ticks of one DefaultTtl quantum each (or a        *)
(* fraction of it, if DefaultTtl > 1): a TTL is the number of ticks left.  *)
(*                                                                         *)
(* epoch and life are history variables: epoch counts all bumps ever made, *)
(* life is the epoch at which the counter last expired.                    *)
(***************************************************************************)
EXTENDS Integers

CONSTANTS
    Keys,        \* primary keys of the logical table
    Procs,       \* concurrent callers, in any process sharing the backend
    RowTtls,     \* the TTLs callers write rows with (default_ttl among them)
    VersionTtl,  \* _version_ttl: the TTL a bump gives the counter row
    ReadsFail,   \* whether a read of the counter may fail at the backend
    MaxFlight,   \* bound: ticks an operation may take between its round trips
    MaxBumps     \* bound: number of bumps in a behaviour

ASSUME VersionedTableAssumption ==
    /\ Keys # {}
    /\ RowTtls \subseteq Nat \ {0} /\ RowTtls # {}
    /\ VersionTtl \in Nat \ {0}
    /\ ReadsFail \in BOOLEAN
    /\ MaxFlight \in Nat
    /\ MaxBumps \in Nat

VARIABLES
    bumps,       \* value of the counter row; 0 when the row is absent
    counterTtl,  \* ticks left to the counter row; 0 when the row is absent
    rows,        \* rows[g][k]: the row of key k in the table of generation g
    ops,         \* ops[p]: what caller p is doing
    epoch,       \* history: bumps made since the beginning
    life         \* history: epoch when the counter last expired

vars == <<bumps, counterTtl, rows, ops, epoch, life>>

Gens == 1..(MaxBumps + 1)

\* A row with ttl 0 is absent.  Its epoch and life are those of the counter
\* read of the operation that wrote it: the moment its content was current.
\* given is the TTL its last write gave it, of which ttl is left.
Row == [ttl : Nat, given : Nat, epoch : Nat, life : Nat]

NoRow == [ttl |-> 0, given |-> 0, epoch |-> 0, life |-> 0]

Kinds == {"get", "upsert", "create", "replace", "update", "renew", "delete"}

Op == [kind : Kinds \cup {"idle"}, gen : Gens, key : Keys, ttl : RowTtls,
       epoch : Nat, life : Nat, age : 0..MaxFlight]

Idle == [kind |-> "idle", gen |-> 1, key |-> CHOOSE k \in Keys : TRUE,
         ttl |-> CHOOSE t \in RowTtls : TRUE, epoch |-> 0, life |-> 0, age |-> 0]

\* Types; every operation works on a generation that a bump has made.
TypeOK ==
    /\ bumps \in Nat
    /\ counterTtl \in Nat
    /\ rows \in [Gens -> [Keys -> Row]]
    /\ ops \in [Procs -> Op]
    /\ epoch \in 0..MaxBumps
    /\ life \in Nat

-----------------------------------------------------------------------------

\* Mutated form: the stored value taken for a generation, so the first bump
\* leaves the readers where they were.
CurrentVersionOffByOne == IF bumps = 0 THEN 1 ELSE bumps

\* Mutated form: bump_version stores the generation and the reader adds
\* FIRST_VERSION once more.
CurrentVersionCountedTwice == bumps + 2

\* current_version: FIRST_VERSION plus the bumps the counter row holds.
CurrentVersion == bumps + 1

\* What a caller takes the generation for.  get_field answers None for a
\* command that failed as it does for an absent counter, and None is
\* generation 1.
CounterReads == {CurrentVersion} \cup (IF ReadsFail THEN {1} ELSE {})

Live(g, k) == rows[g][k].ttl > 0

Target(p) == rows[ops[p].gen][ops[p].key]

Present(p) == Live(ops[p].gen, ops[p].key)

Init ==
    /\ bumps = 0
    /\ counterTtl = 0
    /\ rows = [g \in Gens |-> [k \in Keys |-> NoRow]]
    /\ ops = [p \in Procs |-> Idle]
    /\ epoch = 0
    /\ life = 0

-----------------------------------------------------------------------------
(* First round trip of every operation: await self._table().               *)

Begin(p, kind, k, t) ==
    /\ ops[p].kind = "idle"
    /\ \E g \in CounterReads :
          ops' = [ops EXCEPT ![p] = [kind |-> kind, gen |-> g, key |-> k,
                                     ttl |-> t, epoch |-> epoch,
                                     life |-> life, age |-> 0]]
    /\ UNCHANGED <<bumps, counterTtl, rows, epoch, life>>

(* Second round trip: one command on the table the first one named.        *)

Finish(p, kind) ==
    /\ ops[p].kind = kind
    /\ ops' = [ops EXCEPT ![p] = Idle]
    /\ UNCHANGED <<bumps, counterTtl, epoch, life>>

\* The command fails at the backend, or its caller is cancelled before it.
Fail(p) == \E kind \in Kinds : Finish(p, kind) /\ UNCHANGED rows

Store(p, row) == rows' = [rows EXCEPT ![ops[p].gen][ops[p].key] = row]

\* A whole row written by p, with the call's TTL or default_ttl.
Written(p) == [ttl |-> ops[p].ttl, given |-> ops[p].ttl,
               epoch |-> ops[p].epoch, life |-> ops[p].life]

\* The row p found, with a new TTL.
Renewed(p) == [Target(p) EXCEPT !.ttl = ops[p].ttl, !.given = ops[p].ttl]

Get(p) ==
    /\ Finish(p, "get")
    /\ UNCHANGED rows

Upsert(p) ==
    /\ Finish(p, "upsert")
    /\ Store(p, Written(p))

CreateIfAbsent(p) ==
    /\ Finish(p, "create")
    /\ Store(p, IF Present(p) THEN Target(p) ELSE Written(p))

\* The comparison with `expected` is a free choice: the model does not hold
\* the fields of a row.
ReplaceIf(p) ==
    /\ Finish(p, "replace")
    /\ \/ Present(p) /\ Store(p, Written(p))
       \/ UNCHANGED rows

\* HSET of one field: the other fields of a present row stay as old as they
\* were, and the whole row gets a new TTL.
UpdateField(p) ==
    /\ Finish(p, "update")
    /\ Store(p, IF Present(p) THEN Renewed(p) ELSE Written(p))

RenewTtl(p) ==
    /\ Finish(p, "renew")
    /\ Store(p, IF Present(p) THEN Renewed(p) ELSE Target(p))

Delete(p) ==
    /\ Finish(p, "delete")
    /\ Store(p, NoRow)

-----------------------------------------------------------------------------

\* Mutated form: the counter gets the TTL of a row instead of _version_ttl.
BumpVersionNoMargin ==
    /\ epoch < MaxBumps
    /\ bumps' = bumps + 1
    /\ counterTtl' = CHOOSE t \in RowTtls : TRUE
    /\ epoch' = epoch + 1
    /\ UNCHANGED <<rows, ops, life>>

\* One HINCRBY and EXPIRE in a transaction: only a bump refreshes the TTL of
\* the counter, no read of it does.
BumpVersion ==
    /\ epoch < MaxBumps
    /\ bumps' = bumps + 1
    /\ counterTtl' = VersionTtl
    /\ epoch' = epoch + 1
    /\ UNCHANGED <<rows, ops, life>>

Sooner(n) == IF n = 0 THEN 0 ELSE n - 1

\* A row whose TTL runs out leaves nothing behind.
Aged(row) == IF row.ttl <= 1 THEN NoRow ELSE [row EXCEPT !.ttl = Sooner(@)]

\* Every TTL of the backend loses a tick.  An expired counter is an absent
\* one, so the generation falls back to 1.
Tick ==
    /\ \A p \in Procs : ops[p].kind # "idle" => ops[p].age < MaxFlight
    /\ counterTtl' = Sooner(counterTtl)
    /\ bumps' = IF counterTtl = 1 THEN 0 ELSE bumps
    /\ life' = IF counterTtl = 1 THEN epoch ELSE life
    /\ rows' = [g \in Gens |-> [k \in Keys |-> Aged(rows[g][k])]]
    /\ ops' = [p \in Procs |-> IF ops[p].kind = "idle" THEN ops[p]
                               ELSE [ops[p] EXCEPT !.age = @ + 1]]
    /\ UNCHANGED epoch

Next ==
    \/ \E p \in Procs, kind \in Kinds, k \in Keys, t \in RowTtls : Begin(p, kind, k, t)
    \/ \E p \in Procs : Get(p)
    \/ \E p \in Procs : Upsert(p)
    \/ \E p \in Procs : CreateIfAbsent(p)
    \/ \E p \in Procs : ReplaceIf(p)
    \/ \E p \in Procs : UpdateField(p)
    \/ \E p \in Procs : RenewTtl(p)
    \/ \E p \in Procs : Delete(p)
    \/ \E p \in Procs : Fail(p)
    \/ BumpVersion
    \/ Tick

Spec == Init /\ [][Next]_vars

-----------------------------------------------------------------------------
(* What a caller may rely on.                                              *)

\* The operations whose result depends on the row they find.
Readers == Kinds \ {"upsert", "delete"}

\* "Invalidate every cached row": a row older than the last bump can only be
\* met again if the counter expired after the row was written.  While the
\* counter lives, an operation meets rows of exactly its own generation.
BumpInvalidatesWithinOneLife ==
    \A p \in Procs :
        /\ ops[p].kind \in Readers
        /\ Present(p)
        /\ Target(p).life = ops[p].life
        => Target(p).epoch = ops[p].epoch

\* How far a TTL, with the time an operation may be on its way, goes beyond the
\* TTL of the counter.  default_ttl stays within it by the factor of 4 of
\* _version_ttl; _resolve_ttl lets a caller pass any other.
Excess(t) == IF t + MaxFlight <= VersionTtl THEN 0 ELSE t + MaxFlight - VersionTtl

\* "The counter must outlive every row written under an older generation"
\* (the comment at VERSION_TTL_FACTOR): no orphaned row has more time left
\* than the counter has.  One exception: the excess of a TTL that a caller
\* chose too large, and no more than that excess.
CounterOutlivesOrphans ==
    \A g \in Gens, k \in Keys :
        g < CurrentVersion => rows[g][k].ttl <= counterTtl + Excess(rows[g][k].given)

\* "... the generation would fall back to v1 and resurrect them; the margin
\* makes that impossible": when the counter expires, the generation that
\* readers fall back to holds no row, but one in the excess of its TTL.
LapseIsCold ==
    [][bumps > 0 /\ bumps' = 0 =>
          \A k \in Keys : rows'[1][k].ttl <= Excess(rows'[1][k].given)]_vars
=============================================================================
