----------------------------- MODULE EventScope -----------------------------
(***************************************************************************)
(* What the dispatches of webhooks publish on the EventHub: the event      *)
(* scope of core/sse/context.py, the handlers of core/sse/handlers.py and  *)
(* the middleware of core/messaging/middleware/sse_lifecycle.py.           *)
(*                                                                         *)
(* The dispatch of a message stages its incoming_message event.  The first *)
(* enrichment, send or regular end of the handler claims the event and     *)
(* schedules a task that publishes it; an outgoing_bot_message event is    *)
(* published when a send returns.  Other dispatches (status webhooks,      *)
(* error webhooks, messages sent through the API) publish at once.         *)
(*                                                                         *)
(* The ready queue of asyncio is first in, first out: the flush task is    *)
(* put into it before the send suspends, so it has run when the send       *)
(* resumes.  A send that is refused by the validation of its arguments     *)
(* returns without suspending at all.                                      *)
(*                                                                         *)
(* hasty is not in the code: it holds the places in the log of the replies *)
(* that were refused, and published while the flush task was still to run. *)
(* A handler has one send under way at a time.                             *)
(***************************************************************************)
EXTENDS EventHub

CONSTANTS
    Messages,     \* message webhooks
    Reports,      \* other dispatches, which publish a single event
    Inbox,        \* the inbox of each dispatch
    MaxSends      \* bound: sends of one handler

ASSUME SendsAssumption == MaxSends \in Nat
ASSUME KindsAssumption == Messages \cap Reports = {}

Dispatches == Messages \union Reports

VARIABLES
    phase,        \* "serving", "draining", "cancelled" or "closed"
    pc,           \* where each dispatch is
    pending,      \* SSEEventContext._pending_incoming is set
    flush,        \* the flush task of each message
    user,         \* SSEEventContext.user_id: as received, or as resolved
    sends,        \* sends begun by each handler
    hasty

scopeVars == <<phase, pc, pending, flush, user, sends, hasty>>
vars == <<hubVars, scopeVars>>

Init ==
    /\ HubInit
    /\ phase = "serving"
    /\ pc = [d \in Dispatches |-> "new"]
    /\ pending = [m \in Messages |-> FALSE]
    /\ flush = [m \in Messages |-> "none"]
    /\ user = [m \in Messages |-> "received"]
    /\ sends = [m \in Messages |-> 0]
    /\ hasty = {}

-----------------------------------------------------------------------------
\* Identity is read when the event is published, not when it is staged.
Event(type, d) ==
    [type |-> type, of |-> d, inbox |-> Inbox[d],
     user |-> IF d \in Messages THEN user[d] ELSE "received"]

GoTo(d, place) == pc' = [pc EXCEPT ![d] = place]

\* The tracker takes no task once it drains.
Accept(d) ==
    /\ phase = "serving"
    /\ pc[d] = "new"
    /\ GoTo(d, "tracked")
    /\ UNCHANGED <<hubVars, phase, pending, flush, user, sends, hasty>>

\* The task starts, opens its scope and stages the event.
Stage(m) ==
    /\ pc[m] = "tracked"
    /\ GoTo(m, "body")
    /\ pending' = [pending EXCEPT ![m] = TRUE]
    /\ UNCHANGED <<hubVars, phase, flush, user, sends, hasty>>

ClaimTwice(m) ==
    /\ UNCHANGED pending
    /\ flush' = IF pending[m]
                THEN [flush EXCEPT ![m] =
                        IF phase = "serving" THEN "ready" ELSE "lost"]
                ELSE flush

\* The claim comes before the tracker is asked: while it drains it refuses
\* the task and the event is lost.
FlushIncoming(m) ==
    /\ pending' = [pending EXCEPT ![m] = FALSE]
    /\ flush' = IF pending[m]
                THEN [flush EXCEPT ![m] =
                        IF phase = "serving" THEN "ready" ELSE "lost"]
                ELSE flush

RunFlush(m) ==
    /\ flush[m] = "ready"
    /\ flush' = [flush EXCEPT ![m] = "done"]
    /\ Publish(Event("incoming", m))
    /\ UNCHANGED <<phase, pc, pending, user, sends, hasty>>

\* The handler calls update_identity, or update_metadata and no identity
\* changes.
Enrich(m) ==
    /\ pc[m] = "body"
    /\ \E u \in {user[m], "resolved"} : user' = [user EXCEPT ![m] = u]
    /\ FlushIncoming(m)
    /\ UNCHANGED <<hubVars, phase, pc, sends, hasty>>

BeginSendUnflushed(m) ==
    /\ pc[m] = "body"
    /\ sends[m] < MaxSends
    /\ sends' = [sends EXCEPT ![m] = @ + 1]
    /\ UNCHANGED <<pending, flush>>

BeginSend(m) ==
    /\ pc[m] = "body"
    /\ sends[m] < MaxSends
    /\ sends' = [sends EXCEPT ![m] = @ + 1]
    /\ FlushIncoming(m)

Send(m) ==
    /\ BeginSend(m)
    /\ GoTo(m, "sending")
    /\ UNCHANGED <<hubVars, phase, user, hasty>>

SendRefused(m) ==
    /\ BeginSend(m)
    /\ Publish(Event("outgoing", m))
    /\ hasty' = IF flush'[m] = "ready" THEN hasty \union {Len(log) + 1} ELSE hasty
    /\ UNCHANGED <<phase, pc, user>>

SendReturns(m) ==
    /\ pc[m] = "sending"
    /\ flush[m] # "ready"
    /\ GoTo(m, "body")
    /\ Publish(Event("outgoing", m))
    /\ UNCHANGED <<phase, pending, flush, user, sends, hasty>>

HandlerReturnsUnflushed(m) ==
    /\ pc[m] = "body"
    /\ GoTo(m, "done")
    /\ UNCHANGED <<hubVars, phase, pending, flush, user, sends, hasty>>

\* The handler returns: post_process_message flushes what nothing flushed.
HandlerReturns(m) ==
    /\ pc[m] = "body"
    /\ GoTo(m, "done")
    /\ FlushIncoming(m)
    /\ UNCHANGED <<hubVars, phase, user, sends, hasty>>

\* The handler raises, in a send or elsewhere: the dispatcher logs it and
\* post_process_message does not run.
HandlerRaises(m) ==
    /\ pc[m] \in {"body", "sending"}
    /\ GoTo(m, "failed")
    /\ pending' = [pending EXCEPT ![m] = FALSE]
    /\ UNCHANGED <<hubVars, phase, flush, user, sends, hasty>>

\* A status, an error or a message of the API is published as it is handled.
Report(r) ==
    /\ pc[r] = "tracked"
    /\ GoTo(r, "done")
    /\ Publish(Event("report", r))
    /\ UNCHANGED <<phase, pending, flush, user, sends, hasty>>

-----------------------------------------------------------------------------
ConnectLate(c) ==
    /\ Subscribe(c)
    /\ UNCHANGED scopeVars

\* The stream route answers 503 once the hub is gone from the state of the
\* application.
Connect(c) ==
    /\ phase # "closed"
    /\ Subscribe(c)
    /\ UNCHANGED scopeVars

Stream(c) == StreamStep(c) /\ UNCHANGED scopeVars

Running == {d \in Dispatches : pc[d] \in {"tracked", "body", "sending"}}

StartDrain ==
    /\ phase = "serving"
    /\ phase' = "draining"
    /\ UNCHANGED <<hubVars, pc, pending, flush, user, sends, hasty>>

\* The drain times out and cancels every task.  One that has not started
\* never does; a handler may catch the cancellation and go on.
CancelTasks ==
    /\ phase = "draining"
    /\ phase' = "cancelled"
    /\ \E stubborn \in SUBSET {d \in Running : pc[d] # "tracked"} :
         pc' = [d \in Dispatches |->
                  CASE d \in stubborn -> "body"
                    [] d \in Running \ stubborn -> "failed"
                    [] OTHER -> pc[d]]
    /\ flush' = [m \in Messages |->
                   IF flush[m] = "ready" THEN "lost" ELSE flush[m]]
    /\ UNCHANGED <<hubVars, pending, user, sends, hasty>>

\* The shutdown hook of the plugin, after the drain.
ShutdownHub ==
    /\ \/ /\ phase = "draining"
          /\ Running = {}
          /\ \A m \in Messages : flush[m] # "ready"
       \/ phase = "cancelled"
    /\ phase' = "closed"
    /\ CloseHub
    /\ UNCHANGED <<pc, pending, flush, user, sends, hasty>>

DispatchStep(m) ==
    \/ Stage(m) \/ Enrich(m) \/ Send(m) \/ SendRefused(m) \/ SendReturns(m)
    \/ HandlerReturns(m) \/ HandlerRaises(m)

Next ==
    \/ \E d \in Dispatches : Accept(d)
    \/ \E m \in Messages : DispatchStep(m) \/ RunFlush(m)
    \/ \E r \in Reports : Report(r)
    \/ \E c \in Clients : Connect(c) \/ Stream(c)
    \/ StartDrain \/ CancelTasks \/ ShutdownHub

Spec == Init /\ [][Next]_vars

\* The event loop runs every task that is ready.  A response is iterated or
\* given up, and a stream goes on taking events from its queue: its client
\* reads them or leaves, which nothing makes it do.
Fairness ==
    /\ \A m \in Messages : WF_vars(RunFlush(m))
    /\ \A c \in Clients :
         /\ WF_vars((Open(c) \/ Abandon(c)) /\ UNCHANGED scopeVars)
         /\ WF_vars(Take(c) /\ UNCHANGED scopeVars)

FairSpec == Spec /\ Fairness

-----------------------------------------------------------------------------
Events ==
    [type : {"incoming", "outgoing", "report"}, of : Dispatches,
     inbox : {Inbox[d] : d \in Dispatches}, user : {"received", "resolved"}]

\* Types of the hub, whose queues respect their bound, and of the dispatches.
TypeOK ==
    /\ HubTypeOK
    /\ log \in Seq(Events)
    /\ phase \in {"serving", "draining", "cancelled", "closed"}
    /\ pc \in [Dispatches -> {"new", "tracked", "body", "sending",
                              "done", "failed"}]
    /\ pending \in [Messages -> BOOLEAN]
    /\ flush \in [Messages -> {"none", "ready", "done", "lost"}]
    /\ user \in [Messages -> {"received", "resolved"}]
    /\ sends \in [Messages -> 0 .. MaxSends]
    /\ hasty \subseteq Nat

Places(type, m) == {i \in DOMAIN log : log[i].type = type /\ log[i].of = m}

\* However many of the callers flush, an incoming message is published once.
IncomingOnce ==
    \A m \in Messages : \A i, j \in Places("incoming", m) : i = j

\* The ordering guard of the middleware: "guaranteeing incoming_message always
\* precedes outgoing_bot_message" (core/sse/handlers.py).  The code keeps it for
\* every reply that went out: the two exceptions, which the docstring does not
\* make, are a reply that was refused at once, before the flush task has run,
\* and a message whose incoming event was dropped by the drain.
IncomingFirst ==
    \A m \in Messages : flush[m] # "lost" =>
        \A j \in Places("outgoing", m) \ hasty :
            \E i \in Places("incoming", m) : i < j

\* A message that is handled to its end before the drain begins is reported to
\* the subscribers, whatever its handler did or left out, unless the drain runs
\* out of time.
HandledIsReported ==
    \A m \in Messages :
        (pc[m] = "done" /\ phase = "serving")
            ~> (Places("incoming", m) # {} \/ phase = "cancelled")

\* A closed hub has no subscription and gets none.
ClosedHubIsEmpty == phase = "closed" => subs = {}

\* When the hub closes every stream ends, also one whose queue is full.
StreamsEnd ==
    phase = "closed" ~>
        \A c \in Clients : stream[c] \notin {"opened", "streaming"}
=============================================================================
