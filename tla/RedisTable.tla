----------------------------- MODULE RedisTable -----------------------------
(***************************************************************************)
(* The Redis backend's table cache (wappa/persistence/redis): every row is *)
(* a hash of its own with its own expiry, shared by all worker processes.  *)
(*                                                                         *)
(* A command, a MULTI pipeline and a script are each one step at the       *)
(* server.  append_to_list and delete_table take several, and the rows may *)
(* change in between.  A connection may be lost once the server has done   *)
(* its part: the caller is answered False, None or an exception.           *)
(*                                                                         *)
(* Not modelled: commands that reach no server, which change nothing.      *)
(*                                                                         *)
(* winners and tally are history variables for the properties.             *)
(***************************************************************************)
EXTENDS RowStore

CONSTANT
    RepliesLost   \* whether the answer of the server may be lost

VARIABLE
    task   \* task[p]: where coroutine p is in an operation of several steps

vars == <<rows, task, reply, winners, tally>>

\* left: ticks until the server expires the hash; hashes always have a TTL.
Hash == [owner : Procs, count : 0..MaxCount, left : Nat \ {0}]

\* append_to_list has read its list, or a page of keys has been scanned.
Task == [pc : {"idle", "append", "scanned"}, keys : SUBSET Keys]

Idle == [pc |-> "idle", keys |-> {}]

\* Types of the hashes, the coroutines and the answers.
TypeOK ==
    /\ DOMAIN rows \subseteq Keys
    /\ \A k \in DOMAIN rows : rows[k] \in Hash
    /\ task \in [Procs -> Task]
    /\ reply \in [Procs -> Replies]
    /\ winners \in [Keys -> SUBSET Procs]
    /\ tally \in [Keys -> Nat]

Init ==
    /\ rows = [k \in {} |-> Nobody]
    /\ task = [p \in Procs |-> Idle]
    /\ reply = [p \in Procs |-> "none"]
    /\ winners = [k \in Keys |-> {}]
    /\ tally = [k \in Keys |-> 0]

-----------------------------------------------------------------------------

\* No hash lives for ever: None stands for the default TTL.
ExpireTtls == Ttls \ {0}

Fresh(p, ttl) == [owner |-> p, count |-> 0, left |-> ttl]

Goto(p, t) == task' = [task EXCEPT ![p] = t]

AtIdle(p) == task[p].pc = "idle" /\ UNCHANGED task

\* The server did what p asked; p may not hear of it.
Lost == RepliesLost /\ NoAnswer

-----------------------------------------------------------------------------

\* Mutated form: the script does not ask EXISTS.
CreateBlindly(p, k, ttl) ==
    /\ AtIdle(p)
    /\ rows' = With(k, Fresh(p, ttl))
    /\ Answer(p, "created")
    /\ winners' = [winners EXCEPT ![k] = @ \cup {p}]
    /\ tally' = [tally EXCEPT ![k] = 0]

CreateIfAbsent(p, k, ttl) ==
    /\ AtIdle(p)
    /\ \/ /\ ~Has(k)
          /\ rows' = With(k, Fresh(p, ttl))
          /\ \/ Answer(p, "created") /\ winners' = [winners EXCEPT ![k] = @ \cup {p}]
             \/ Lost /\ UNCHANGED winners
          /\ tally' = [tally EXCEPT ![k] = 0]
       \/ /\ Has(k)
          /\ Answer(p, "already_exists")
          /\ UNCHANGED <<rows, winners, tally>>

\* The script compares the fields of `expected`: a free choice.
ReplaceIf(p, k, ttl) ==
    /\ AtIdle(p)
    /\ UNCHANGED winners
    /\ \/ ~Has(k) /\ Answer(p, "missing") /\ UNCHANGED <<rows, tally>>
       \/ Has(k) /\ Answer(p, "condition_not_met") /\ UNCHANGED <<rows, tally>>
       \/ /\ Has(k)
          /\ rows' = With(k, Fresh(p, ttl))
          /\ Answer(p, "replaced") \/ Lost
          /\ tally' = [tally EXCEPT ![k] = 0]

\* HSET or HINCRBY of one field creates the hash when there is none.
Changed(p, k, ttl, n) ==
    LET found == IF Has(k) THEN rows[k] ELSE Fresh(p, ttl)
    IN  [owner |-> found.owner, count |-> found.count + n, left |-> ttl]

\* HSET of every field the caller gives, and EXPIRE.  A hash that is there keeps
\* its other fields; the counter may be one of them.
Upsert(p, k, ttl) ==
    /\ AtIdle(p)
    /\ \/ rows' = With(k, Fresh(p, ttl)) /\ tally' = [tally EXCEPT ![k] = 0]
       \/ /\ rows' = With(k, [Changed(p, k, ttl, 0) EXCEPT !.owner = p])
          /\ UNCHANGED tally
    /\ NoAnswer
    /\ UNCHANGED winners

\* HINCRBY and EXPIRE.  The caller is told the new value, or None.
IncrementField(p, k, ttl) ==
    /\ AtIdle(p)
    /\ Has(k) => rows[k].count < MaxCount
    /\ rows' = With(k, Changed(p, k, ttl, 1))
    /\ tally' = [tally EXCEPT ![k] = @ + 1] \/ (RepliesLost /\ UNCHANGED tally)
    /\ NoAnswer
    /\ UNCHANGED winners

\* HSET of one field that is not the counter.
UpdateField(p, k, ttl) ==
    /\ AtIdle(p)
    /\ rows' = With(k, Changed(p, k, ttl, 0))
    /\ NoAnswer
    /\ UNCHANGED <<winners, tally>>

\* append_to_list reads the list with HGET ...
AppendRead(p, k) ==
    /\ task[p].pc = "idle"
    /\ Goto(p, [pc |-> "append", keys |-> {k}])
    /\ UNCHANGED <<rows, reply, winners, tally>>

\* Mutated form: the whole row that was read is written back.
AppendWritesRow(p, ttl) ==
    /\ task[p].pc = "append"
    /\ \E k \in task[p].keys : rows' = With(k, Fresh(p, ttl))
    /\ Goto(p, Idle)
    /\ NoAnswer
    /\ UNCHANGED <<winners, tally>>

\* ... and writes it with HSET and EXPIRE, whatever happened to the row since.
AppendWrite(p, ttl) ==
    /\ task[p].pc = "append"
    /\ \E k \in task[p].keys : rows' = With(k, Changed(p, k, ttl, 0))
    /\ Goto(p, Idle)
    /\ NoAnswer
    /\ UNCHANGED <<winners, tally>>

\* EXPIRE.
RenewTtl(p, k, ttl) ==
    /\ AtIdle(p)
    /\ Has(k)
    /\ rows' = [rows EXCEPT ![k].left = ttl]
    /\ UNCHANGED <<reply, winners, tally>>

\* DEL, also of an upsert without fields.
Delete(p, k) ==
    /\ AtIdle(p)
    /\ rows' = Without({k})
    /\ Forget({k})
    /\ UNCHANGED reply

\* delete_table, delete_all_by_pkid: SCAN gives a page of the keys there are.
Scan(p) ==
    /\ task[p].pc = "idle"
    /\ \E page \in (SUBSET (Table \cap DOMAIN rows)) \ {{}} :
          Goto(p, [pc |-> "scanned", keys |-> page])
    /\ UNCHANGED <<rows, reply, winners, tally>>

\* The page is deleted, rows recreated since included; another may follow.
DeletePage(p) ==
    /\ task[p].pc = "scanned"
    /\ rows' = Without(task[p].keys)
    /\ Forget(task[p].keys)
    /\ Goto(p, Idle)
    /\ UNCHANGED reply

\* Mutated form: a hash is kept one tick too long.
TickKeeps ==
    LET gone == {k \in DOMAIN rows : rows[k].left = 0}
    IN  /\ rows # [k \in {} |-> Nobody]
        /\ rows' = [k \in DOMAIN rows \ gone |-> [rows[k] EXCEPT !.left = @ - 1]]
        /\ Forget(gone)
        /\ UNCHANGED <<task, reply>>

\* The server's clock; it removes what has expired.
Tick ==
    LET gone == {k \in DOMAIN rows : rows[k].left = 1}
    IN  /\ rows # [k \in {} |-> Nobody]
        /\ rows' = [k \in DOMAIN rows \ gone |-> [rows[k] EXCEPT !.left = @ - 1]]
        /\ Forget(gone)
        /\ UNCHANGED <<task, reply>>

Next ==
    \/ Tick
    \/ \E p \in Procs : Scan(p) \/ DeletePage(p)
    \/ \E p \in Procs, k \in Keys : AppendRead(p, k) \/ Delete(p, k)
    \/ \E p \in Procs, ttl \in ExpireTtls : AppendWrite(p, ttl)
    \/ \E p \in Procs, k \in Keys, ttl \in ExpireTtls :
          \/ Upsert(p, k, ttl) \/ CreateIfAbsent(p, k, ttl) \/ ReplaceIf(p, k, ttl)
          \/ IncrementField(p, k, ttl) \/ UpdateField(p, k, ttl)
          \/ RenewTtl(p, k, ttl)

Spec == Init /\ [][Next]_vars

-----------------------------------------------------------------------------

\* Who wrote the row of k.
Holder(k) == IF Has(k) THEN rows[k].owner ELSE Nobody

\* The one way to lose a row that was created is its deletion or its expiry.
ClaimPersists == \A k \in Keys : winners[k] # {} => Holder(k) # Nobody

\* Every acknowledged increment is in the row until it is reset or gone, also
\* when an append that read the row before writes after it.
NoLostIncrement ==
    \A k \in Keys : tally[k] > 0 => Has(k) /\ rows[k].count >= tally[k]

\* The contract of the table caches: one step per operation, on its own row.
RowSteps == INSTANCE RowContract
    WITH holder <- [k \in Keys |-> Holder(k)], lapsed <- {}

ImplementsContract == RowSteps!Contract
=============================================================================
