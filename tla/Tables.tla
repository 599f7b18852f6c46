------------------------------- MODULE Tables -------------------------------
(***************************************************************************)
(* The table cache of an application.  create_cache_factory picks one of   *)
(* three backends when the application is built (wappa/persistence/        *)
(* cache_factory.py); what holds of rows has to hold whichever it is.      *)
(*                                                                         *)
(* On the JSON backend it holds for applications that write their rows     *)
(* conditionally.  Its other operations lose each other's writes: with     *)
(* them, one coroutine works alone ("json_alone"), on a disk that may fail. *)
(***************************************************************************)
EXTENDS RowStore

CONSTANTS
    RepliesLost,    \* of RedisTable: whether its answers may be lost
    MaxHashCount    \* bound: MaxCount of RedisTable

ASSUME TablesAssumption ==
    /\ Keys # {} /\ Ttls # {}
    /\ MaxHashCount \in Nat \ {0}

VARIABLES
    backend,            \* the backend of the application
    solo,               \* the one coroutine of "json_alone", or Nobody
    file, lock, task    \* the JSON backend; the Redis backend has a task too

Json == INSTANCE JsonTable
    WITH Kinds <- {"create", "replace"}, ReadsFail <- FALSE, WritesFail <- FALSE

AllKinds == {"get", "upsert", "create", "replace", "increment", "update",
             "delete", "delete_table", "renew"}

Alone == INSTANCE JsonTable
    WITH Kinds <- AllKinds, ReadsFail <- TRUE, WritesFail <- TRUE, Table <- Keys

Memory == INSTANCE MemoryTable

Redis == INSTANCE RedisTable WITH MaxCount <- MaxHashCount

vars == <<backend, solo, file, lock, task, rows, reply, winners, tally>>

\* A backend that is not the application's has nothing in it.
NoHandler == [p \in Procs |-> Nobody]

Init ==
    \/ /\ backend = "json" /\ solo = Nobody
       /\ Json!Init
       /\ rows = NoHandler
    \/ /\ backend = "json_alone" /\ solo \in Procs
       /\ Alone!Init
       /\ rows = NoHandler
    \/ /\ backend = "memory" /\ solo = Nobody
       /\ Memory!Init
       /\ file = Nobody /\ lock = Nobody /\ task = NoHandler
    \/ /\ backend = "redis" /\ solo = Nobody
       /\ Redis!Init
       /\ file = Nobody /\ lock = Nobody

Next ==
    /\ UNCHANGED <<backend, solo>>
    /\ \/ backend = "json" /\ Json!Next /\ UNCHANGED rows
       \/ backend = "json_alone" /\ (Alone!Tick \/ Alone!Step(solo)) /\ UNCHANGED rows
       \/ backend = "memory" /\ Memory!Next /\ UNCHANGED <<file, lock, task>>
       \/ backend = "redis" /\ Redis!Next /\ UNCHANGED <<file, lock>>

Spec == Init /\ [][Next]_vars

-----------------------------------------------------------------------------

\* Types of the backend chosen.
TypeOK ==
    /\ backend \in {"json", "json_alone", "memory", "redis"}
    /\ IF backend = "json_alone" THEN solo \in Procs ELSE solo = Nobody
    /\ backend = "json" => Json!TypeOK
    /\ backend = "json_alone" => Alone!TypeOK
    /\ backend = "memory" => Memory!TypeOK
    /\ backend = "redis" => Redis!TypeOK

\* The row of a caller who was told CREATED is there until it is deleted or
\* expires, whatever other callers do to it and to other rows.
ClaimPersists ==
    /\ backend = "json" => Json!ClaimPersists
    /\ backend = "memory" => Memory!ClaimPersists
    /\ backend = "redis" => Redis!ClaimPersists

\* "Atomically increment an integer field": what was acknowledged is in the
\* row until it is reset, deleted or expires.  In the JSON backend, for a
\* coroutine that works alone, and with one exception: a file that could not be
\* read is rewritten without the rows it held (JsonTable!Kept).
NoLostIncrement ==
    /\ backend = "json_alone" => Alone!NoLostIncrement
    /\ backend = "memory" => Memory!NoLostIncrement
    /\ backend = "redis" => Redis!NoLostIncrement

Holder(k) ==
    CASE backend = "json_alone" -> Nobody
      [] backend = "json" -> Json!Holder(k)
      [] backend = "memory" -> Memory!Writer(k)
      [] backend = "redis" -> Redis!Holder(k)

\* Only in memory may an expired row come back.
Renewable == IF backend = "memory" THEN {k \in Keys : Memory!Lapsed(k)} ELSE {}

Answered == IF backend = "json_alone" THEN [p \in Procs |-> "none"] ELSE reply

\* Each backend implements the contract of ITableCache: one step per
\* operation, on its own row, and an answer that says what it found.  Not so
\* the JSON backend with its other operations, or on a disk that fails.
RowSteps == INSTANCE RowContract
    WITH holder <- [k \in Keys |-> Holder(k)], lapsed <- Renewable, reply <- Answered

ImplementsContract == RowSteps!Contract
=============================================================================
