------------------------------ MODULE Shutdown ------------------------------
(***************************************************************************)
(* The background work of an application and its shutdown: the tracker of  *)
(* wappa/core/lifecycle, the shutdown hooks in the order of their          *)
(* priorities, and the HTTP clients of SessionLifecycle.                   *)
(*                                                                         *)
(*   90 _begin_drain        85 cron scheduler       80 expiry listener     *)
(*   70 drain of the tracked work: wait, cancel, wait again                *)
(*   30 to 20 databases, SSE hub, Redis             10 HTTP clients        *)
(*                                                                         *)
(* A piece of work is a coroutine.  A webhook is first a request that      *)
(* builds its messenger and then a task of the tracker; an expiry handler  *)
(* is a task at once; a task may start others.  The waits of the hooks end *)
(* by their timeouts whenever the work does not end before: the clock is   *)
(* not modelled.  A cancelled task may go on for any time, for instance in *)
(* the rollback and the close of its database session, which may take ten  *)
(* seconds each.                                                           *)
(***************************************************************************)
EXTENDS SessionLifecycle

VARIABLES
    refusing,   \* _draining of the tracker
    work,       \* work[p]: how far a piece of work is
    hook,       \* the shutdown hook that runs
    pending,    \* the tasks drain() waits for
    infra       \* whether databases and Redis are open

shutdownVars == <<refusing, work, hook, pending, infra>>

vars == <<sessionVars, shutdownVars>>

Works == {"new", "request", "tracked", "cancelled", "done"}

Hooks == {"serving", "cron", "expiry", "drain", "cancel", "infra", "core", "down"}

\* Types of the lifecycle, the tracker and the hooks.
TypeOK ==
    /\ SessionTypeOK
    /\ refusing \in BOOLEAN
    /\ work \in [Callers -> Works]
    /\ hook \in Hooks
    /\ pending \subseteq Callers
    /\ infra \in BOOLEAN

Init ==
    /\ SessionInit
    /\ refusing = FALSE
    /\ work = [p \in Callers |-> "new"]
    /\ hook = "serving"
    /\ pending = {}
    /\ infra = TRUE

-----------------------------------------------------------------------------
(* The work.                                                               *)

\* _tasks: a task leaves it when it ends.
Tasks == {p \in Callers : work[p] \in {"tracked", "cancelled"}}

SetWork(p, w) == work' = [work EXCEPT ![p] = w]

\* p ends or is cancelled: what it was building is lost.
Drop(S) ==
    /\ call' = [p \in Callers |-> IF p \in S THEN Idle ELSE call[p]]
    /\ UNCHANGED <<session, media, made, closed, draining, closing, cache>>

\* A request comes in; the server takes none once the lifespan ends.
Arrive(p) ==
    /\ hook = "serving"
    /\ work[p] = "new"
    /\ SetWork(p, "request")
    /\ UNCHANGED <<sessionVars, refusing, hook, pending, infra>>

\* Mutated form: a draining tracker takes the task.
TrackAlways(p, from) ==
    /\ work[p] = from
    /\ SetWork(p, "tracked")
    /\ UNCHANGED <<sessionVars, refusing, hook, pending, infra>>

\* track(): a draining tracker raises and the work is dropped.
Track(p, from) ==
    /\ work[p] = from
    /\ SetWork(p, IF refusing THEN "done" ELSE "tracked")
    /\ UNCHANGED <<sessionVars, refusing, hook, pending, infra>>

\* accept_webhook: the context is built, the messenger with it.
Accept(p) ==
    /\ call[p].pc = "idle"
    /\ Track(p, "request")

\* The expiry listener dispatches a handler until it is cancelled.
Expire(p) ==
    /\ hook \in {"serving", "cron", "expiry"}
    /\ Track(p, "new")

\* A task starts another: the flush of SSE events, an API event.
StartTask(p, q) ==
    /\ p \in Tasks
    /\ Track(q, "new")

\* A coroutine asks for a messenger, unless it was cancelled.
Messaging(p) ==
    /\ work[p] \in {"request", "tracked"}
    /\ Ask(p)
    /\ UNCHANGED shutdownVars

Finish(p) ==
    /\ work[p] \in {"request", "tracked", "cancelled"}
    /\ SetWork(p, "done")
    /\ held' = [held EXCEPT ![p] = NoMessenger]
    /\ Drop({p})
    /\ UNCHANGED <<refusing, hook, pending, infra>>

\* From outside: the session is lost, or recreate_http_session is called.
Outside ==
    /\ LoseSession \/ Recreate
    /\ UNCHANGED shutdownVars

-----------------------------------------------------------------------------
(* The shutdown hooks.                                                     *)

GoOn(from, to) == hook = from /\ hook' = to

\* _begin_drain, with no suspension between its two flags.
BeginDrain ==
    /\ GoOn("serving", "cron")
    /\ refusing' = TRUE
    /\ BeginSessionDrain
    /\ UNCHANGED <<work, pending, infra>>

\* The scheduler has stopped, or 15 seconds have passed.
CronStopped ==
    /\ GoOn("cron", "expiry")
    /\ UNCHANGED <<sessionVars, refusing, work, pending, infra>>

\* The listener has stopped, or 5 seconds have passed; drain() begins.
StartDrain ==
    /\ GoOn("expiry", IF Tasks = {} THEN "infra" ELSE "drain")
    /\ refusing' = TRUE
    /\ pending' = Tasks
    /\ UNCHANGED <<sessionVars, work, infra>>

\* One of the two waits of drain() sees the end of every task.
Drained ==
    /\ GoOn("drain", "infra") \/ GoOn("cancel", "infra")
    /\ pending \cap Tasks = {}
    /\ pending' = {}
    /\ UNCHANGED <<sessionVars, refusing, work, infra>>

\* The timeout: the tasks that are left are cancelled.
CancelPending ==
    /\ GoOn("drain", "cancel")
    /\ pending \cap Tasks # {}
    /\ pending' = pending \cap Tasks
    /\ work' = [p \in Callers |-> IF p \in pending' THEN "cancelled" ELSE work[p]]
    /\ Drop(pending')
    /\ UNCHANGED <<held, refusing, infra>>

\* Mutated form: drain() waits for the cancelled tasks to end.
GiveUpNever ==
    /\ GoOn("cancel", "infra")
    /\ pending \cap Tasks = {}
    /\ pending' = {}
    /\ UNCHANGED <<sessionVars, refusing, work, infra>>

\* Five seconds later: drain() returns whatever is left.
GiveUp ==
    /\ GoOn("cancel", "infra")
    /\ pending' = {}
    /\ UNCHANGED <<sessionVars, refusing, work, infra>>

CloseInfra ==
    /\ GoOn("infra", "core")
    /\ infra' = FALSE
    /\ UNCHANGED <<sessionVars, refusing, work, pending>>

\* _core_shutdown logs what close() raises.
CoreShutdown ==
    /\ hook = "core"
    /\ \/ CloseMedia /\ UNCHANGED hook
       \/ CloseSession /\ UNCHANGED hook
       \/ (Closed \/ CloseBreaks) /\ hook' = "down"
    /\ UNCHANGED <<refusing, work, pending, infra>>

HookStep ==
    \/ BeginDrain \/ CronStopped \/ StartDrain \/ Drained \/ CancelPending
    \/ GiveUp \/ CloseInfra \/ CoreShutdown

\* What the hooks do once the shutdown has begun.
ShuttingDown == hook # "serving" /\ HookStep

WorkStep(p) ==
    \/ Arrive(p) \/ Accept(p) \/ Expire(p) \/ Messaging(p) \/ Finish(p)
    \/ \E q \in Callers : StartTask(p, q)

Next == HookStep \/ Outside \/ \E p \in Callers : WorkStep(p)

\* The process ends when the hooks have run.
Terminated == hook = "down" /\ UNCHANGED vars

Spec == Init /\ [][Next \/ Terminated]_vars

FairSpec == Spec /\ WF_vars(ShuttingDown)

-----------------------------------------------------------------------------

\* "In-flight background work completes (or times out) before resources close":
\* a task that runs while a client or a database is closed by the shutdown has
\* been cancelled by drain() before.
CloseAfterWork ==
    ~infra \/ closing # "no" => \A p \in Callers : work[p] # "tracked"

\* No piece of work and no listener can keep the hooks from running to the end.
ShutdownEnds == hook # "serving" ~> hook = "down"
=============================================================================
