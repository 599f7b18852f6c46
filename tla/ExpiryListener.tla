--------------------------- MODULE ExpiryListener ---------------------------
(***************************************************************************)
(* Expiry triggers and the task that hears of them (wappa/core/expiry,     *)
(* wappa/core/plugins/expiry_plugin, the RedisExpiry cache).               *)
(*                                                                         *)
(* A trigger is a key of Redis that lives for its TTL.  When it expires    *)
(* the server tells those who are subscribed at that moment; nobody is     *)
(* told later.  The listener of a process subscribes, reads what it is     *)
(* told and hands a handler to the tracker of background work.  Any        *)
(* exception is taken for a lost connection: a new subscription is made    *)
(* after a wait, and the old one is neither closed nor given back to the   *)
(* pool.                                                                   *)
(*                                                                         *)
(* A key may be set many times: each time is a life of the trigger.  The   *)
(* program knows keys only; the lives are there for the properties, as are *)
(* runs, dropped and lost.  The handlers themselves are the tasks of       *)
(* Shutdown.  The clock is not modelled: waits and TTLs end at any time.   *)
(***************************************************************************)
EXTENDS Integers, SequencesExt

CONSTANTS
    Keys,         \* keys of triggers
    Handled,      \* those for which the registry has a handler
    Limits,       \* max_reconnect_attempts: those that may be configured
    NoLimit,      \* None, one of them
    BaseDelay, MaxDelay,
    PoolSize,     \* max_connections of the pool "expiry"
    MaxLives,     \* bound: times a key is set
    MaxFailures   \* bound: failures after which the server fails no more

ASSUME ExpiryAssumption ==
    /\ Handled \subseteq Keys
    /\ Limits \ {NoLimit} \subseteq Nat \ {0}
    /\ BaseDelay \in Nat /\ MaxDelay \in Nat
    /\ PoolSize \in Nat \ {0}
    /\ MaxLives \in Nat \ {0}
    /\ MaxFailures \in Nat \ {0}

VARIABLES
    trigger,    \* trigger[k]: the life of k the server holds, 0 if none
    lives,      \* lives[k]: how often k was set
    page,       \* keys delete_all_by_identifier has found and not deleted yet
    limit,      \* max_attempts
    notify,     \* notify-keyspace-events of the server, see Notify
    pc,         \* where run_expiry_listener is
    pubsub,     \* the subscription the connection manager has
    leaked,     \* subscriptions it had before and never closed
    buffer,     \* notifications the subscription was sent, not read yet
    attempts,   \* _attempt_count
    delay,      \* the seconds of the wait it is in, 0 otherwise
    hook,       \* the shutdown: begin_drain, then the hook of the plugin
    cancelling, \* the task was cancelled and has not noticed
    runs,       \* history: how often a handler was started for a life
    dropped,    \* history: lives that were deleted, or set again
    lost        \* history: lives nobody was told of, or too late

settings == <<limit, notify>>

serverVars == <<trigger, lives, page, dropped>>

listenerVars == <<pc, pubsub, leaked, buffer, attempts, delay>>

vars == <<serverVars, settings, listenerVars, hook, cancelling, runs, lost>>

Lives == Keys \X (1..MaxLives)

\* The setting by which the server tells of expired keys: not there before the
\* first CONFIG SET of the listener, there, missing because a CONFIG SET was
\* refused, missing again because the server was started anew.  One that was
\* configured by hand is there from that first CONFIG SET on whatever comes of it.
Notify == {"unset", "on", "refused", "lost"}

\* Types; the connections of the pool the listener holds are at most all.
TypeOK ==
    /\ trigger \in [Keys -> 0..MaxLives]
    /\ lives \in [Keys -> 0..MaxLives]
    /\ page \subseteq Keys
    /\ limit \in Limits
    /\ notify \in Notify
    /\ pc \in {"connecting", "listening", "waiting", "closing", "over"}
    /\ pubsub \in {"none", "open", "broken"}
    /\ leaked \in 0..PoolSize
    /\ pubsub # "none" => leaked < PoolSize
    /\ buffer \in Seq(Lives)
    /\ attempts \in Nat
    /\ delay \in 0..MaxDelay
    /\ hook \in {"serving", "draining", "stopping", "stopped"}
    /\ cancelling \in BOOLEAN
    /\ runs \in [Lives -> Nat]
    /\ dropped \subseteq Lives
    /\ lost \subseteq Lives

\* _startup_hook creates the task.
Init ==
    /\ trigger = [k \in Keys |-> 0]
    /\ lives = [k \in Keys |-> 0]
    /\ page = {}
    /\ limit \in Limits
    /\ notify = "unset"
    /\ pc = "connecting"
    /\ pubsub = "none"
    /\ leaked = 0
    /\ buffer = <<>>
    /\ attempts = 0
    /\ delay = 0
    /\ hook = "serving"
    /\ cancelling = FALSE
    /\ runs = [x \in Lives |-> 0]
    /\ dropped = {}
    /\ lost = {}

-----------------------------------------------------------------------------
(* The triggers.                                                           *)

\* The lives the server holds of some keys.
Armed(keys) == {<<k, trigger[k]>> : k \in {j \in keys : trigger[j] # 0}}

\* SETEX: a trigger that is set again starts its TTL anew.
Set(k) ==
    /\ lives[k] < MaxLives
    /\ lives' = [lives EXCEPT ![k] = @ + 1]
    /\ trigger' = [trigger EXCEPT ![k] = lives'[k]]
    /\ dropped' = dropped \cup Armed({k})
    /\ UNCHANGED <<page, settings, listenerVars, hook, cancelling, runs, lost>>

Withdraw(keys) ==
    /\ trigger' = [k \in Keys |-> IF k \in keys THEN 0 ELSE trigger[k]]
    /\ dropped' = dropped \cup Armed(keys)
    /\ UNCHANGED <<lives, settings, listenerVars, hook, cancelling, runs, lost>>

\* delete(): whatever it removes is never notified.
Delete(k) == Withdraw({k}) /\ UNCHANGED page

\* delete_all_by_identifier finds a page of keys ...
Scan ==
    /\ page = {}
    /\ page' \in SUBSET {k \in Keys : trigger[k] # 0}
    /\ UNCHANGED <<trigger, lives, dropped, settings, listenerVars, hook,
                   cancelling, runs, lost>>

\* ... and deletes them, whatever was set in between.
DeletePage ==
    /\ page # {}
    /\ Withdraw(page)
    /\ page' = {}

\* A subscription the listener reads, to a server that tells of expired keys.
Hearing == pc = "listening" /\ pubsub = "open" /\ notify = "on"

\* The server expires a trigger and tells whoever is subscribed, if it tells
\* at all: of use only if that is the subscription the listener reads.
Expire(k) ==
    /\ trigger[k] # 0
    /\ trigger' = [trigger EXCEPT ![k] = 0]
    /\ IF Hearing
       THEN buffer' = Append(buffer, <<k, trigger[k]>>) /\ UNCHANGED lost
       ELSE lost' = lost \cup Armed({k}) /\ UNCHANGED buffer
    /\ UNCHANGED <<lives, page, dropped, settings, pc, pubsub, leaked, attempts, delay,
                   hook, cancelling, runs>>

-----------------------------------------------------------------------------
(* The listener.                                                           *)

ShouldRetry(n) == limit = NoLimit \/ n < limit

\* Mutated form: the delay has no upper bound.
DelayDoubles(n) == BaseDelay * 2 ^ (n - 1)

CalculateDelay(n) ==
    LET doubled == BaseDelay * 2 ^ (n - 1)
    IN  IF doubled \in 0..MaxDelay THEN doubled ELSE MaxDelay

\* except Exception: one more failure, and a wait unless it was the last one.
\* The subscription stays open, but nobody reads it any more.
Fail ==
    /\ buffer' = <<>>
    /\ lost' = lost \cup ToSet(buffer)
    /\ attempts' = attempts + 1
    /\ \/ /\ ShouldRetry(attempts')
          /\ pc' = "waiting"
          /\ delay' = CalculateDelay(attempts')
       \/ /\ ~ShouldRetry(attempts')
          /\ pc' = "over"
          /\ UNCHANGED delay

\* A new PubSub takes the place of the old one, which keeps its connection.
Held == IF pubsub = "none" THEN leaked ELSE leaked + 1

Replace(new) ==
    /\ pubsub' = new
    /\ leaked' = Held

Listening == pc = "listening" /\ ~cancelling

Connecting == pc = "connecting" /\ ~cancelling

\* CONFIG SET, whose failure is logged and no reason to stop.
Configure ==
    \/ notify' = "on"
    \/ notify' = IF notify = "on" THEN "on" ELSE "refused"

\* connect() to its end.
Subscribe ==
    /\ Connecting
    /\ Held < PoolSize
    /\ Configure
    /\ Replace("open")
    /\ pc' = "listening"
    /\ UNCHANGED <<serverVars, limit, buffer, attempts, delay, hook, cancelling,
                   runs, lost>>

\* It fails: at the PING, where the old PubSub stays, or at the SUBSCRIBE, for
\* want of a connection or with the one it has got.
ConnectFails ==
    /\ Connecting
    /\ attempts < MaxFailures
    /\ \/ UNCHANGED <<pubsub, leaked, notify>>
       \/ Configure /\ Replace("none")
       \/ Configure /\ Held < PoolSize /\ Replace("broken")
    /\ Fail
    /\ UNCHANGED <<serverVars, limit, hook, cancelling, runs>>

\* What the tracker makes of the first notification in the buffer.
Told == Head(buffer)

\* Mutated form: the notification stays where it is when the handler starts.
DispatchKept ==
    /\ Listening /\ buffer # <<>>
    /\ Told[1] \in Handled
    /\ hook = "serving"
    /\ runs' = [runs EXCEPT ![Told] = @ + 1]
    /\ UNCHANGED <<serverVars, settings, listenerVars, hook, cancelling, lost>>

Dispatch ==
    /\ Listening /\ buffer # <<>>
    /\ Told[1] \in Handled
    /\ hook = "serving"
    /\ runs' = [runs EXCEPT ![Told] = @ + 1]
    /\ buffer' = Tail(buffer)
    /\ UNCHANGED <<serverVars, settings, pc, pubsub, leaked, attempts, delay, hook,
                   cancelling, lost>>

\* Mutated form: a key without handler ends the loop over the messages.
StopOnUnknown ==
    /\ Listening /\ buffer # <<>>
    /\ Told[1] \notin Handled
    /\ pc' = "over"
    /\ buffer' = Tail(buffer)
    /\ UNCHANGED <<serverVars, settings, pubsub, leaked, attempts, delay, hook,
                   cancelling, runs, lost>>

\* The registry resolves no handler for the key.
Ignore ==
    /\ Listening /\ buffer # <<>>
    /\ Told[1] \notin Handled
    /\ buffer' = Tail(buffer)
    /\ UNCHANGED <<serverVars, settings, pc, pubsub, leaked, attempts, delay, hook,
                   cancelling, runs, lost>>

\* The tracker is draining: what it raises ends the loop like a lost connection.
Refuse ==
    /\ Listening /\ buffer # <<>>
    /\ Told[1] \in Handled
    /\ hook # "serving"
    /\ Fail
    /\ UNCHANGED <<serverVars, settings, pubsub, leaked, hook, cancelling, runs>>

\* The connection breaks, and the server may have been started anew; what the
\* connection had not brought over is lost.
Break ==
    /\ pubsub = "open"
    /\ attempts < MaxFailures
    /\ pubsub' = "broken"
    /\ notify' \in {notify, "lost"}
    /\ \E n \in 0..Len(buffer) :
          /\ buffer' = SubSeq(buffer, 1, n)
          /\ lost' = lost \cup ToSet(SubSeq(buffer, n + 1, Len(buffer)))
    /\ UNCHANGED <<serverVars, limit, pc, leaked, attempts, delay, hook, cancelling, runs>>

\* The client library subscribes again without a word, and without CONFIG SET.
Resume ==
    /\ Listening /\ pubsub = "broken"
    /\ pubsub' = "open"
    /\ UNCHANGED <<serverVars, settings, pc, leaked, buffer, attempts, delay, hook,
                   cancelling, runs, lost>>

\* listen() raises.
NoticeBreak ==
    /\ Listening /\ pubsub = "broken" /\ buffer = <<>>
    /\ Fail
    /\ UNCHANGED <<serverVars, settings, pubsub, leaked, hook, cancelling, runs>>

\* Mutated form: the loop goes on with the subscription it has.
WakeToListen ==
    /\ pc = "waiting" /\ ~cancelling
    /\ pc' = "listening"
    /\ delay' = 0
    /\ UNCHANGED <<serverVars, settings, pubsub, leaked, buffer, attempts, hook,
                   cancelling, runs, lost>>

\* The wait is over.
Wake ==
    /\ pc = "waiting" /\ ~cancelling
    /\ pc' = "connecting"
    /\ delay' = 0
    /\ UNCHANGED <<serverVars, settings, pubsub, leaked, buffer, attempts, hook,
                   cancelling, runs, lost>>

\* Mutated form: a cancellation during the wait is taken for its end.
WaitSwallows ==
    /\ cancelling
    /\ cancelling' = FALSE
    /\ \/ /\ pc \in {"connecting", "listening"}
          /\ pc' = IF pubsub = "none" THEN "over" ELSE "closing"
          /\ UNCHANGED delay
       \/ /\ pc = "waiting"
          /\ pc' = "connecting"
          /\ delay' = 0
    /\ buffer' = <<>>
    /\ lost' = lost \cup ToSet(buffer)
    /\ UNCHANGED <<serverVars, settings, pubsub, leaked, attempts, hook, runs>>

\* CancelledError: disconnect() in the loop; the wait ends the task at once.
Cancelled ==
    /\ cancelling
    /\ cancelling' = FALSE
    /\ \/ /\ pc \in {"connecting", "listening"}
          /\ pc' = IF pubsub = "none" THEN "over" ELSE "closing"
          /\ UNCHANGED delay
       \/ /\ pc = "waiting"
          /\ pc' = "over"
          /\ delay' = 0
    /\ buffer' = <<>>
    /\ lost' = lost \cup ToSet(buffer)
    /\ UNCHANGED <<serverVars, settings, pubsub, leaked, attempts, hook, runs>>

\* disconnect() has unsubscribed and closed, or logged why it could not.
Disconnected ==
    /\ pc = "closing"
    /\ pc' = "over"
    /\ pubsub' = "none"
    /\ UNCHANGED <<serverVars, settings, leaked, buffer, attempts, delay, hook,
                   cancelling, runs, lost>>

-----------------------------------------------------------------------------
(* The shutdown.                                                           *)

BeginDrain ==
    /\ hook = "serving"
    /\ hook' = "draining"
    /\ UNCHANGED <<serverVars, settings, listenerVars, cancelling, runs, lost>>

\* _shutdown_hook cancels the task unless it is done, and waits for it.
Stop ==
    /\ hook = "draining"
    /\ cancelling' = (pc # "over")
    /\ hook' = IF pc = "over" THEN "stopped" ELSE "stopping"
    /\ UNCHANGED <<serverVars, settings, listenerVars, runs, lost>>

\* The task is done, or five seconds have passed.
Stopped ==
    /\ hook = "stopping"
    /\ hook' = "stopped"
    /\ UNCHANGED <<serverVars, settings, listenerVars, cancelling, runs, lost>>

-----------------------------------------------------------------------------

\* What the task does when it is not disturbed.
ListenerStep ==
    \/ Subscribe \/ Dispatch \/ Ignore \/ Refuse \/ NoticeBreak
    \/ Wake \/ Cancelled \/ Disconnected

Next ==
    \/ \E k \in Keys : Set(k) \/ Delete(k) \/ Expire(k)
    \/ Scan \/ DeletePage
    \/ ListenerStep \/ ConnectFails \/ Break \/ Resume
    \/ BeginDrain \/ Stop \/ Stopped

Spec == Init /\ [][Next]_vars

\* The loop of the process runs the task, and the server answers it.
FairSpec == Spec /\ WF_vars(ListenerStep)

-----------------------------------------------------------------------------

\* "Fired when a Redis Expiry Key expires": the handler of a trigger is started
\* at most once however often the listener reconnects, and never for a trigger
\* that delete() or a new set() got hold of before.
RunsOnce ==
    \A x \in Lives : /\ runs[x] <= 1
                     /\ x \in dropped => runs[x] = 0

\* A notification that reached the subscription starts its handler, unless the
\* connection breaks, the listener fails or the process drains before.
HeardRuns ==
    \A x \in Handled \X (1..MaxLives) :
        x \in ToSet(buffer) ~> runs[x] = 1 \/ x \in lost

\* A listener that is asked to stop ends, whatever it was doing.
CancelEnds == hook = "stopping" ~> pc = "over"

\* "Reconnect on connection loss with exponential backoff": after a failure the
\* listener subscribes again and is told, unless its attempts are used up, which
\* no success gives back, or the connections of its pool, or the server has
\* refused the CONFIG SET, or the process stops.
Recovers ==
    pc = "waiting" ~> \/ Hearing
                      \/ pc = "listening" /\ notify = "refused"
                      \/ ~ShouldRetry(attempts)
                      \/ Held = PoolSize
                      \/ hook \in {"stopping", "stopped"}

=============================================================================
