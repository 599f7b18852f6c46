---------------------------- MODULE MemoryTable ----------------------------
(***************************************************************************)
(* The memory backend's table cache (wappa/persistence/memory): the rows   *)
(* of an inbox in one dictionary of the process, each with its own expiry. *)
(*                                                                         *)
(* No operation suspends: the namespace's asyncio.Lock is always free when *)
(* a coroutine asks for it, and even get followed by set runs through.     *)
(* Every operation is one step.  What can go wrong is time: a row whose    *)
(* expiry has passed stays in the dictionary until a read drops it or the  *)
(* sweeper comes by, and set_ttl does not look at the expiry it replaces.  *)
(*                                                                         *)
(* winners and tally are history variables for the properties.             *)
(***************************************************************************)
EXTENDS RowStore

vars == <<rows, reply, winners, tally>>

Never == -1   \* expires_at is None

\* left: ticks until expires_at has passed; 1 at expires_at, 0 after it.
Entry == [owner : Procs, count : 0..MaxCount, left : Nat \cup {Never}]

\* Types of the dictionary and of the answers.
TypeOK ==
    /\ DOMAIN rows \subseteq Keys
    /\ \A k \in DOMAIN rows : rows[k] \in Entry
    /\ reply \in [Procs -> Replies]
    /\ winners \in [Keys -> SUBSET Procs]
    /\ tally \in [Keys -> Nat]

Init ==
    /\ rows = [k \in {} |-> Nobody]
    /\ reply = [p \in Procs |-> "none"]
    /\ winners = [k \in Keys |-> {}]
    /\ tally = [k \in Keys |-> 0]

-----------------------------------------------------------------------------

Lapsed(k) == Has(k) /\ rows[k].left = 0

\* _live_entry finds a row.
Live(k) == Has(k) /\ rows[k].left # 0

ExpiresAt(ttl) == IF ttl = 0 THEN Never ELSE ttl + 1

Fresh(p, ttl) == [owner |-> p, count |-> 0, left |-> ExpiresAt(ttl)]

\* get, exists, get_field, and the read a refused transition makes.
DropIfLapsed(k) == rows' = IF Lapsed(k) THEN Without({k}) ELSE rows

-----------------------------------------------------------------------------

Get(k) ==
    /\ DropIfLapsed(k)
    /\ UNCHANGED <<reply, winners, tally>>

\* get_all and list_pkids drop the lapsed rows of the inbox, and the sweeper,
\* started by the first write, those of the process.
DropLapsed ==
    /\ rows' = Without({k \in Keys : Lapsed(k)})
    /\ UNCHANGED <<reply, winners, tally>>

\* get_ttl takes a row for gone at expires_at, the others only after it.
GetTtl(k) ==
    /\ Has(k) /\ rows[k].left \in {0, 1}
    /\ rows' = Without({k})
    /\ Forget({k})
    /\ UNCHANGED reply

Upsert(p, k, ttl) ==
    /\ rows' = With(k, Fresh(p, ttl))
    /\ tally' = [tally EXCEPT ![k] = 0]
    /\ NoAnswer
    /\ UNCHANGED winners

\* Mutated form: an entry that has lapsed stands in the way.
CreateIfMissing(p, k, ttl) ==
    \/ /\ ~Has(k)
       /\ rows' = With(k, Fresh(p, ttl))
       /\ Answer(p, "created")
       /\ winners' = [winners EXCEPT ![k] = @ \cup {p}]
       /\ tally' = [tally EXCEPT ![k] = 0]
    \/ /\ Has(k)
       /\ Answer(p, "already_exists")
       /\ UNCHANGED <<rows, winners, tally>>

CreateIfAbsent(p, k, ttl) ==
    \/ /\ ~Live(k)
       /\ rows' = With(k, Fresh(p, ttl))
       /\ Answer(p, "created")
       /\ winners' = [winners EXCEPT ![k] = @ \cup {p}]
       /\ tally' = [tally EXCEPT ![k] = 0]
    \/ /\ Live(k)
       /\ Answer(p, "already_exists")
       /\ UNCHANGED <<rows, winners, tally>>

\* row_predicate(expected) on the row found is a free choice.
ReplaceIf(p, k, ttl) ==
    \/ /\ ~Live(k)
       /\ DropIfLapsed(k)
       /\ Answer(p, "missing")
       /\ UNCHANGED <<winners, tally>>
    \/ /\ Live(k)
       /\ Answer(p, "condition_not_met")
       /\ UNCHANGED <<rows, winners, tally>>
    \/ /\ Live(k)
       /\ rows' = With(k, Fresh(p, ttl))
       /\ Answer(p, "replaced")
       /\ tally' = [tally EXCEPT ![k] = 0]
       /\ UNCHANGED winners

\* get, change, upsert: the row found, {} if there is none, n increments on.
Changed(p, k, ttl, n) ==
    LET found == IF Live(k) THEN rows[k] ELSE Fresh(p, ttl)
    IN  [owner |-> found.owner, count |-> found.count + n, left |-> ExpiresAt(ttl)]

IncrementField(p, k, ttl) ==
    /\ Live(k) => rows[k].count < MaxCount
    /\ rows' = With(k, Changed(p, k, ttl, 1))
    /\ tally' = [tally EXCEPT ![k] = @ + 1]
    /\ NoAnswer
    /\ UNCHANGED winners

\* update_field and append_to_list, of other fields than the counter.
UpdateField(p, k, ttl) ==
    /\ rows' = With(k, Changed(p, k, ttl, 0))
    /\ NoAnswer
    /\ UNCHANGED <<winners, tally>>

Delete(gone) ==
    /\ rows' = Without(gone)
    /\ Forget(gone)
    /\ UNCHANGED reply

DeleteTable == Delete(Table)

\* set_ttl does not look at the expiry it replaces: an entry that has lapsed and
\* was not dropped since is a row again.
RenewTtl(k, ttl) ==
    /\ Has(k)
    /\ rows' = [rows EXCEPT ![k].left = ttl + 1]
    /\ UNCHANGED <<reply, winners, tally>>

\* The clock.  An entry that lapses is no row any more.
Tick ==
    /\ \E k \in DOMAIN rows : rows[k].left > 0
    /\ rows' = [k \in DOMAIN rows |->
                   IF rows[k].left > 0 THEN [rows[k] EXCEPT !.left = @ - 1] ELSE rows[k]]
    /\ Forget({k \in DOMAIN rows : rows[k].left = 1})
    /\ UNCHANGED reply

Next ==
    \/ Tick \/ DropLapsed \/ DeleteTable
    \/ \E k \in Keys : Get(k) \/ GetTtl(k) \/ Delete({k})
    \/ \E k \in Keys, ttl \in Ttls :
          \/ RenewTtl(k, ttl)
          \/ \E p \in Procs :
                \/ Upsert(p, k, ttl) \/ CreateIfAbsent(p, k, ttl)
                \/ ReplaceIf(p, k, ttl)
                \/ IncrementField(p, k, ttl) \/ UpdateField(p, k, ttl)

Spec == Init /\ [][Next]_vars

-----------------------------------------------------------------------------

\* Who wrote the entry of k, and who a reader would find.
Writer(k) == IF Has(k) THEN rows[k].owner ELSE Nobody

Holder(k) == IF Live(k) THEN Writer(k) ELSE Nobody

\* The one way to lose a row that was created is its deletion or its expiry.
ClaimPersists == \A k \in Keys : winners[k] # {} => Holder(k) # Nobody

\* Every acknowledged increment is in the row until it is reset or gone.
NoLostIncrement ==
    \A k \in Keys : tally[k] > 0 => Live(k) /\ rows[k].count >= tally[k]

\* The contract of the table caches: one step per operation, on its own row.
\* A lapsed row that is still in the dictionary may come back.
RowSteps == INSTANCE RowContract
    WITH holder <- [k \in Keys |-> Writer(k)], lapsed <- {k \in Keys : Lapsed(k)}

ImplementsContract == RowSteps!Contract
=============================================================================
