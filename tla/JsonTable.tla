----------------------------- MODULE JsonTable -----------------------------
(***************************************************************************)
(* The JSON backend's table cache (wappa/persistence/json): all the tables *)
(* of an inbox live in ONE file with ONE expiry, read and rewritten whole. *)
(*                                                                         *)
(* Every access holds the file's asyncio.Lock and suspends while a thread  *)
(* reads the file, renames a new one over it or deletes it.                *)
(* create_if_absent and replace_if read, decide and write in one hold of   *)
(* the lock: a step for the read and one for the rest, with the lock held  *)
(* in between.  Every other hold does one thing, and is one step; but the  *)
(* other operations take several holds, and other callers come in between: *)
(*                                                                         *)
(*   read an expired file | delete it               (_load_cache_data)     *)
(*   read for set         | write the whole file    (set, delete, set_ttl) *)
(*   read for get         | set                     (update_field, ...)    *)
(*                                                                         *)
(* A file that cannot be read, or holds no JSON, is taken for an empty one *)
(* and is overwritten by the next write.                                   *)
(*                                                                         *)
(* Not modelled: a caller cancelled during a rename, whose thread goes on  *)
(* after the lock was given up.                                            *)
(*                                                                         *)
(* winners and tally are history variables for the properties.             *)
(***************************************************************************)
EXTENDS Integers, FiniteSets

CONSTANTS
    Keys,        \* rows of the inbox, of any of its tables
    Table,       \* the keys of the one table delete_table is called for
    Procs,       \* coroutines using the cache
    Nobody,      \* not a coroutine
    Kinds,       \* the operations the coroutines call, of AllKinds
    Ttls,        \* the TTLs they pass; 0 stands for None
    ReadsFail,   \* whether a read of the file may fail (OSError, no JSON)
    WritesFail,  \* whether a write of the file may fail (OSError)
    MaxCount     \* bound: elements or increments a row can hold

AllKinds == {"get", "upsert", "create", "replace", "increment", "update",
             "delete", "delete_table", "renew"}

VARIABLES
    file,     \* the cache file of the inbox
    lock,     \* the coroutine between the steps of a hold, or Nobody
    task,     \* task[p]: where coroutine p is in its operation
    reply,    \* the last answer of a conditional write, at the caller it was given to
    winners,  \* history: callers told CREATED since the row was last absent
    tally     \* history: increments acknowledged since the row was last reset

vars == <<file, lock, task, reply, winners, tally>>

\* A row keeps who wrote it whole and how often its field was incremented.
Row == [owner : Procs \cup {Nobody}, count : 0..MaxCount]

Contents == UNION {[S -> Row] : S \in SUBSET Keys}

NoRows == [k \in {} |-> Nobody]

Never == -1     \* expires_at is null

\* left: ticks until expires_at; 0 once it has passed.
File == [there : BOOLEAN, left : Nat \cup {Never}, rows : Contents]

NoFile == [there |-> FALSE, left |-> Never, rows |-> NoRows]

Task == [pc : {"idle", "purge", "read", "next", "write", "decide"},
         kind : AllKinds, key : Keys, ttl : Ttls, row : Row, snap : Contents,
         todo : SUBSET Keys, missed : SUBSET Keys]

NoTask == [pc |-> "idle", kind |-> "get", key |-> CHOOSE k \in Keys : TRUE,
           ttl |-> CHOOSE t \in Ttls : TRUE,
           row |-> [owner |-> Nobody, count |-> 0],
           snap |-> NoRows, todo |-> {}, missed |-> {}]

Replies == {"none", "created", "already_exists",
            "replaced", "condition_not_met", "missing"}

\* Types of the file, the lock and the coroutines.
TypeOK ==
    /\ file \in File
    /\ lock \in Procs \cup {Nobody}
    /\ task \in [Procs -> Task]
    /\ reply \in [Procs -> Replies]
    /\ winners \in [Keys -> SUBSET Procs]
    /\ tally \in [Keys -> Nat]

Init ==
    /\ file = NoFile
    /\ lock = Nobody
    /\ task = [p \in Procs |-> NoTask]
    /\ reply = [p \in Procs |-> "none"]
    /\ winners = [k \in Keys |-> {}]
    /\ tally = [k \in Keys |-> 0]

-----------------------------------------------------------------------------
(* The file.                                                               *)

\* extract_cache_file_data: an expired file has no rows.
Content == IF file.there /\ file.left # 0 THEN file.rows ELSE NoRows

Expired == file.there /\ file.left = 0

\* read_unlocked: no rows, and no expiry either, when the read fails.
Failing == IF ReadsFail /\ file.there THEN BOOLEAN ELSE {FALSE}

Seen(fails) == IF fails THEN NoRows ELSE Content

Has(rows, k) == k \in DOMAIN rows

\* Mutated form: a write keeps its own row only.
WithOnly(rows, k, row) == [j \in {k} |-> row]

With(rows, k, row) ==
    [j \in DOMAIN rows \cup {k} |-> IF j = k THEN row ELSE rows[j]]

Without(rows, k) == [j \in DOMAIN rows \ {k} |-> rows[j]]

\* create_cache_file_data: every write sets the expiry of the whole file.
NewFile(rows, ttl) ==
    [there |-> TRUE, left |-> IF ttl = 0 THEN Never ELSE ttl, rows |-> rows]

-----------------------------------------------------------------------------
(* The coroutines.                                                         *)

Unlocked == lock = Nobody

At(p, pc) == task[p].pc = pc /\ Unlocked

Goto(p, t) == task' = [task EXCEPT ![p] = t]

\* p calls an operation, whose first hold of the lock changes nothing.
Call(p, kind, t) ==
    /\ kind \in Kinds
    /\ At(p, "idle")
    /\ Goto(p, [t EXCEPT !.kind = kind])
    /\ UNCHANGED <<file, lock, reply, winners, tally>>

Fresh(p) == [owner |-> p, count |-> 0]

\* get, exists, get_field, get_all, list_pkids: a second hold of the lock
\* deletes the file that was found expired.  A live file, or a read that fails,
\* makes no difference.
Get(p) == Expired /\ Call(p, "get", [NoTask EXCEPT !.pc = "purge"])

\* An update starts from the row it finds, {} if there is none.
\* append_to_list changes a row as increment_field does: one element more.
Changed(p, kind, k, seen) ==
    LET found == IF Has(seen, k) THEN seen[k] ELSE Fresh(p)
    IN  IF kind = "increment" THEN [found EXCEPT !.count = @ + 1] ELSE found

\* increment_field, append_to_list, update_field: get, change, upsert.
\* task[p].missed keeps the rows that p's write will rewrite or erase without
\* having seen them.
Modify(p, kind, k, ttl) ==
    /\ kind \in {"increment", "update"}
    /\ Has(Content, k) => Content[k].count < MaxCount
    /\ \E fails \in Failing :
          Call(p, kind, [NoTask EXCEPT !.pc = IF Expired /\ ~fails THEN "purge" ELSE "read",
                                       !.key = k, !.ttl = ttl,
                                       !.row = Changed(p, kind, k, Seen(fails)),
                                       !.missed = IF fails THEN {k} ELSE {}])

\* upsert begins at the read of JSONStorageManager.set.
Upsert(p, k, ttl) ==
    \E fails \in Failing :
       Call(p, "upsert", [NoTask EXCEPT !.pc = "write", !.key = k, !.ttl = ttl,
                                        !.row = Fresh(p), !.snap = Seen(fails),
                                        !.missed = IF fails THEN Keys ELSE {}])

\* set_ttl: the rows are written back as they were read, with a new expiry.
RenewTtl(p, ttl) ==
    /\ ttl > 0
    /\ file.there /\ ~Expired
    /\ Call(p, "renew", [NoTask EXCEPT !.pc = "write", !.ttl = ttl,
                                       !.snap = Content])

\* delete of one row that is there; nothing happens to one that is not.
Delete(p, k) ==
    /\ Has(Content, k)
    /\ Call(p, "delete", [NoTask EXCEPT !.pc = "write", !.key = k,
                                        !.snap = Without(Content, k)])

\* delete_table lists the keys of the table once and deletes them one by one.
DeleteTable(p) ==
    \/ Expired /\ Call(p, "delete_table", [NoTask EXCEPT !.pc = "purge"])
    \/ /\ Table \cap DOMAIN Content # {}
       /\ Call(p, "delete_table", [NoTask EXCEPT !.pc = "next",
                                                 !.todo = Table \cap DOMAIN Content])

\* create_if_absent and replace_if: the read, and the lock is kept.
Transition(p, kind, k, ttl) ==
    /\ kind \in {"create", "replace"} \cap Kinds
    /\ At(p, "idle")
    /\ lock' = p
    /\ \E fails \in Failing :
          Goto(p, [NoTask EXCEPT !.pc = "decide", !.kind = kind, !.key = k,
                                 !.ttl = ttl, !.row = Fresh(p), !.snap = Seen(fails),
                                 !.missed = IF fails THEN Keys ELSE {}])
    /\ UNCHANGED <<file, reply, winners, tally>>

-----------------------------------------------------------------------------
(* The later holds.                                                        *)

ReadForSet(p) ==
    /\ At(p, "read")
    /\ \E fails \in Failing :
          Goto(p, [task[p] EXCEPT !.pc = "write", !.snap = Seen(fails),
                                  !.missed = IF fails THEN @ \cup (Keys \ {task[p].key})
                                             ELSE @])
    /\ UNCHANGED <<file, lock, reply, winners, tally>>

\* delete_table with the next of its keys; one it does not find it passes over.
DeleteNext(p) ==
    /\ At(p, "next")
    /\ \E k \in task[p].todo, fails \in Failing :
          LET todo == task[p].todo \ {k}
          IN  Goto(p, IF Has(Seen(fails), k)
                      THEN [task[p] EXCEPT !.pc = "write", !.key = k, !.todo = todo,
                                           !.snap = Without(Content, k)]
                      ELSE IF todo = {} THEN NoTask
                      ELSE [task[p] EXCEPT !.todo = todo])
    /\ UNCHANGED <<file, lock, reply, winners, tally>>

Deleting(p) == task[p].kind \in {"delete", "delete_table"}

\* What p's write or deletion leaves: the file as p last read it, changed.
\* Deleting writes no expiry, and no file when no row is left.
Outgoing(p) ==
    LET t == task[p]
    IN  CASE t.pc = "purge" -> NoFile
          [] t.pc = "write" /\ Deleting(p) ->
                IF DOMAIN t.snap = {} THEN NoFile ELSE NewFile(t.snap, 0)
          [] t.pc = "write" /\ t.kind = "renew" -> NewFile(t.snap, t.ttl)
          [] OTHER -> NewFile(With(t.snap, t.key, t.row), t.ttl)

\* The second hold of _load_cache_data deletes what is there by now.
Purge(p) ==
    /\ At(p, "purge")
    /\ \/ file' = Outgoing(p)
       \/ WritesFail /\ UNCHANGED file
    /\ Goto(p, IF task[p].kind \in {"increment", "update"}
               THEN [task[p] EXCEPT !.pc = "read"] ELSE NoTask)
    /\ UNCHANGED <<lock, reply, winners, tally>>

\* What is left to p when it is done with a row.
Rest(p) == IF task[p].todo = {} THEN NoTask
           ELSE [NoTask EXCEPT !.pc = "next", !.kind = "delete_table",
                               !.todo = task[p].todo]

\* The increments p's write leaves, of those that were acknowledged.
Kept(p) == [k \in Keys |-> IF k \in task[p].missed THEN 0 ELSE tally[k]]

Write(p) ==
    /\ At(p, "write")
    /\ file' = Outgoing(p)
    /\ LET k == task[p].key
       IN  /\ winners' = IF Deleting(p) THEN [winners EXCEPT ![k] = {}] ELSE winners
           /\ tally' = CASE task[p].kind \in {"update", "renew"} -> Kept(p)
                         [] task[p].kind = "increment" -> [Kept(p) EXCEPT ![k] = @ + 1]
                         [] OTHER -> [Kept(p) EXCEPT ![k] = 0]
    /\ Goto(p, Rest(p))
    /\ UNCHANGED <<lock, reply>>

\* write_unlocked and delete_file answer False to an OSError.
WriteFails(p) ==
    /\ WritesFail
    /\ At(p, "write")
    /\ Goto(p, Rest(p))
    /\ UNCHANGED <<file, lock, reply, winners, tally>>

-----------------------------------------------------------------------------
(* The second step of create_if_absent and replace_if.                     *)

Found(p) == Has(task[p].snap, task[p].key)

Decide(p, kind, r) ==
    /\ task[p].pc = "decide" /\ task[p].kind = kind
    /\ lock' = Nobody
    /\ Goto(p, NoTask)
    /\ reply' = [q \in Procs |-> IF q = p THEN r ELSE "none"]

\* A refusal writes nothing.
Refuse(p) ==
    /\ \/ Found(p) /\ Decide(p, "create", "already_exists")
       \/ Found(p) /\ Decide(p, "replace", "condition_not_met")
       \/ ~Found(p) /\ Decide(p, "replace", "missing")
    /\ UNCHANGED <<file, winners, tally>>

\* write_unlocked's result is not looked at.
Store(p) ==
    \/ file' = Outgoing(p) /\ tally' = [Kept(p) EXCEPT ![task[p].key] = 0]
    \/ WritesFail /\ UNCHANGED file /\ tally' = [tally EXCEPT ![task[p].key] = 0]

Create(p) ==
    /\ ~Found(p)
    /\ Decide(p, "create", "created")
    /\ Store(p)
    /\ winners' = [winners EXCEPT ![task[p].key] = @ \cup {p}]

\* row_predicate(expected) on the row found is a free choice.
Replace(p) ==
    /\ Found(p)
    /\ Decide(p, "replace", "replaced")
    /\ Store(p)
    /\ UNCHANGED winners

-----------------------------------------------------------------------------

\* The clock.  When the file expires every row of it is gone.  A hold of the
\* lock is short: it falls between two ticks.
Tick ==
    /\ Unlocked
    /\ file.there /\ file.left > 0
    /\ file' = [file EXCEPT !.left = @ - 1]
    /\ winners' = IF file.left = 1 THEN [k \in Keys |-> {}] ELSE winners
    /\ tally' = IF file.left = 1 THEN [k \in Keys |-> 0] ELSE tally
    /\ UNCHANGED <<lock, task, reply>>

Step(p) ==
    \/ Get(p)
    \/ \E kind \in Kinds, k \in Keys, ttl \in Ttls : Modify(p, kind, k, ttl)
    \/ \E k \in Keys, ttl \in Ttls : Upsert(p, k, ttl)
    \/ \E ttl \in Ttls : RenewTtl(p, ttl)
    \/ \E k \in Keys : Delete(p, k)
    \/ DeleteTable(p)
    \/ \E kind \in Kinds, k \in Keys, ttl \in Ttls : Transition(p, kind, k, ttl)
    \/ ReadForSet(p) \/ DeleteNext(p) \/ Purge(p) \/ Write(p) \/ WriteFails(p)
    \/ Refuse(p) \/ Create(p) \/ Replace(p)

Next == Tick \/ \E p \in Procs : Step(p)

Spec == Init /\ [][Next]_vars

-----------------------------------------------------------------------------

\* Who wrote the row of k, as a reader would find it.
Holder(k) ==
    IF file.there /\ file.left # 0 /\ k \in DOMAIN file.rows
    THEN file.rows[k].owner ELSE Nobody

\* "Concurrent callers racing for the same pkid produce exactly one CREATED":
\* until the row is deleted or expires, one caller at most was told it had
\* created it.
ExclusiveClaim == \A k \in Keys : Cardinality(winners[k]) <= 1

\* The one way to lose a row that was created is its deletion or its expiry.
ClaimPersists == \A k \in Keys : winners[k] # {} => Holder(k) # Nobody

\* "Atomically increment an integer field": every acknowledged increment is
\* in the row, until the row is reset, deleted or expires, or a caller that could
\* not read the file rewrites it: tally forgets what is erased in this way.
NoLostIncrement ==
    \A k \in Keys :
        tally[k] > 0 => Has(Content, k) /\ Content[k].count >= tally[k]

\* The contract of the table caches: one step per operation, on its own row.
RowSteps == INSTANCE RowContract
    WITH holder <- [k \in Keys |-> Holder(k)], lapsed <- {}

ImplementsContract == RowSteps!Contract
=============================================================================
