------------------------------ MODULE EventHub ------------------------------
(***************************************************************************)
(* The in-process hub of Server-Sent Events (core/sse/event_hub.py) with   *)
(* the streams that read from it (api/routes/sse.py).  A client subscribes *)
(* with a filter, gets a bounded queue, and its stream takes events from   *)
(* the queue until the client leaves or the hub closes.                    *)
(*                                                                         *)
(* No coroutine of the hub suspends while it holds the lock of the hub, so *)
(* the lock is never contended and each operation is one atomic step of    *)
(* the event loop.                                                         *)
(*                                                                         *)
(* log, got and since are not in the code: they record what was published, *)
(* what each stream sent out, and how much had been published when each    *)
(* client subscribed.  An event is named by its place in log.              *)
(***************************************************************************)
EXTENDS Integers, Sequences, Functions

CONSTANTS
    Clients,      \* the requests for a stream
    QueueSize,    \* SSEEventHub.queue_size
    Filter,       \* [inbox, user, types] that each client asks for
    Unfiltered    \* the inbox or user of a filter that does not filter it

ASSUME QueueAssumption == QueueSize \in Nat \ {0}

VARIABLES
    subs,         \* SSEEventHub._subscribers
    queue,        \* SSESubscription.queue of each client
    stream,       \* where the response of each client is
    log, got, since

hubVars == <<subs, queue, stream, log, got, since>>

Closing == 0      \* the place of the stream_closed event, which is not logged

HubInit ==
    /\ subs = {}
    /\ queue = [c \in Clients |-> <<>>]
    /\ stream = [c \in Clients |-> "none"]
    /\ log = <<>>
    /\ got = [c \in Clients |-> {}]
    /\ since = [c \in Clients |-> 0]

-----------------------------------------------------------------------------
Matches(c, event) ==
    /\ Filter[c].inbox \in {Unfiltered, event.inbox}
    /\ Filter[c].user \in {Unfiltered, event.user}
    /\ event.type \in Filter[c].types

EnqueueUnbounded(q, place) == Append(q, place)

EnqueueIfRoom(q, place) == IF Len(q) < QueueSize THEN Append(q, place) ELSE q

\* A full queue gives up its oldest event, the publisher never waits.
Enqueue(q, place) ==
    Append(IF Len(q) < QueueSize THEN q ELSE Tail(q), place)

Publish(event) ==
    /\ log' = Append(log, event)
    /\ queue' = [c \in Clients |->
                   IF c \in subs /\ Matches(c, event)
                   THEN Enqueue(queue[c], Len(log) + 1)
                   ELSE queue[c]]
    /\ UNCHANGED <<subs, stream, got, since>>

Subscribe(c) ==
    /\ stream[c] = "none"
    /\ stream' = [stream EXCEPT ![c] = "opened"]
    /\ subs' = subs \union {c}
    /\ since' = [since EXCEPT ![c] = Len(log)]
    /\ UNCHANGED <<queue, log, got>>

\* The server begins to iterate the body of the response.
Open(c) ==
    /\ stream[c] = "opened"
    /\ stream' = [stream EXCEPT ![c] = "streaming"]
    /\ UNCHANGED <<subs, queue, log, got, since>>

\* The client is gone before that: the generator never starts, so its
\* finally clause never runs and the subscription stays in the hub.
Abandon(c) ==
    /\ stream[c] = "opened"
    /\ stream' = [stream EXCEPT ![c] = "abandoned"]
    /\ UNCHANGED <<subs, queue, log, got, since>>

\* The generator leaves its loop and unsubscribes.
EndStreamKept(c) ==
    /\ stream' = [stream EXCEPT ![c] = "ended"]
    /\ UNCHANGED subs

EndStream(c) ==
    /\ stream' = [stream EXCEPT ![c] = "ended"]
    /\ subs' = subs \ {c}

Take(c) ==
    /\ stream[c] = "streaming"
    /\ queue[c] # <<>>
    /\ queue' = [queue EXCEPT ![c] = Tail(@)]
    /\ IF Head(queue[c]) = Closing
       THEN EndStream(c) /\ UNCHANGED got
       ELSE /\ got' = [got EXCEPT ![c] = @ \union {Head(queue[c])}]
            /\ UNCHANGED <<subs, stream>>
    /\ UNCHANGED <<log, since>>

Disconnect(c) ==
    /\ stream[c] = "streaming"
    /\ EndStream(c)
    /\ UNCHANGED <<queue, log, got, since>>

CloseHubQuietly ==
    /\ subs' = {}
    /\ UNCHANGED <<queue, stream, log, got, since>>

CloseHubKeeps ==
    /\ queue' = [c \in Clients |->
                   IF c \in subs THEN Enqueue(queue[c], Closing) ELSE queue[c]]
    /\ UNCHANGED <<subs, stream, log, got, since>>

CloseHub ==
    /\ queue' = [c \in Clients |->
                   IF c \in subs THEN Enqueue(queue[c], Closing) ELSE queue[c]]
    /\ subs' = {}
    /\ UNCHANGED <<stream, log, got, since>>

StreamStep(c) == Open(c) \/ Abandon(c) \/ Take(c) \/ Disconnect(c)

-----------------------------------------------------------------------------
\* Types; no queue is longer than queue_size, and every place in a queue or in
\* got is the place of a published event.
HubTypeOK ==
    /\ subs \subseteq Clients
    /\ queue \in [Clients -> Seq(0 .. Len(log))]
    /\ stream \in [Clients -> {"none", "opened", "streaming",
                               "abandoned", "ended"}]
    /\ got \in [Clients -> SUBSET (1 .. Len(log))]
    /\ since \in [Clients -> 0 .. Len(log)]
    /\ \A c \in Clients : Len(queue[c]) <= QueueSize

\* A client reads events in the order in which they were published, none
\* twice, and nothing after the closing event: what is queued is newer than
\* all that was sent out, and grows along the queue.
InOrder ==
    \A c \in Clients : \A i \in DOMAIN queue[c] :
        /\ queue[c][i] = Closing => i = Len(queue[c])
        /\ queue[c][i] # Closing =>
             /\ \A sent \in got[c] : sent < queue[c][i]
             /\ \A j \in 1 .. i - 1 : queue[c][j] < queue[c][i]

\* A client that is subscribed misses an event that matches its filter only
\* because its queue overflowed, and then the oldest ones: everything it still
\* has to read is newer, and the newest it must read is the last of its queue.
OnlyOldestMissed ==
    \A c \in subs :
        LET due == {i \in since[c] + 1 .. Len(log) : Matches(c, log[i])}
            missed == due \ (got[c] \union Range(queue[c]))
        IN  \A i \in missed : /\ \A j \in Range(queue[c]) : i < j
                              /\ \E j \in due \ missed : i < j

\* A stream that has begun does not leave its subscription behind.
NoneLeftSubscribed == \A c \in Clients : stream[c] = "ended" => c \notin subs
=============================================================================
