-------------------------- MODULE EventScope_proofs --------------------------
(***************************************************************************)
(* What the hub and the event scopes guarantee for any number of           *)
(* dispatches, clients and sends, and any size of the queues.              *)
(***************************************************************************)
EXTENDS EventScope, SequenceTheorems, TLAPS

\* How far the events of a queue move up when one more comes.
Shift(q) == IF Len(q) < QueueSize THEN 0 ELSE 1

\* A queue after Enqueue: the old one, shifted if it was full, then the event.
LEMMA EnqueueShifts ==
  ASSUME NEW S, NEW q \in Seq(S), NEW x \in S
  PROVE  /\ Enqueue(q, x) \in Seq(S)
         /\ Len(q) >= Shift(q)
         /\ Shift(q) \in {0, 1}
         /\ Len(Enqueue(q, x)) = Len(q) + 1 - Shift(q)
         /\ \A i \in 1 .. Len(q) - Shift(q) : Enqueue(q, x)[i] = q[i + Shift(q)]
         /\ Enqueue(q, x)[Len(Enqueue(q, x))] = x
         /\ Len(q) <= QueueSize => Len(Enqueue(q, x)) <= QueueSize
  <1> DEFINE k == Shift(q)
             base == IF Len(q) < QueueSize THEN q ELSE Tail(q)
  <1>1. Len(q) >= k
    BY QueueAssumption DEF Shift
  <1>2. base \in Seq(S) /\ Len(base) = Len(q) - k
    BY <1>1 DEF Shift
  <1>3. \A i \in 1 .. Len(q) - k : base[i] = q[i + k]
    BY <1>1 DEF Shift
  <1> HIDE DEF base, k
  <1>4. Enqueue(q, x) = Append(base, x)
    BY DEF Enqueue, base
  <1>5. /\ Append(base, x) \in Seq(S)
        /\ Len(Append(base, x)) = Len(base) + 1
        /\ \A i \in 1 .. Len(base) : Append(base, x)[i] = base[i]
        /\ Append(base, x)[Len(base) + 1] = x
    BY <1>2
  <1>6. k \in {0, 1}
    BY DEF k, Shift
  <1>7. Len(q) <= QueueSize => Len(q) + 1 - k <= QueueSize
    BY QueueAssumption DEF k, Shift
  <1> QED
    BY <1>1, <1>2, <1>3, <1>4, <1>5, <1>6, <1>7 DEF k

\* The places of a kind of event after one more event was published.
LEMMA PlacesAfter ==
  ASSUME NEW S, log \in Seq(S), NEW event \in S, log' = Append(log, event),
         NEW type, NEW m
  PROVE  Places(type, m)' =
           IF event.type = type /\ event.of = m
           THEN Places(type, m) \union {Len(log) + 1}
           ELSE Places(type, m)
  <1>1. /\ DOMAIN log = 1 .. Len(log)
        /\ DOMAIN log' = 1 .. Len(log) + 1
        /\ \A i \in 1 .. Len(log) : log'[i] = log[i]
        /\ log'[Len(log) + 1] = event
        /\ Len(log) \in Nat
    OBVIOUS
  <1> QED
    BY <1>1 DEF Places

-----------------------------------------------------------------------------
(* Types.                                                                   *)

\* The initial state is well typed.
LEMMA InitTypes == Init => TypeOK
  BY QueueAssumption, SendsAssumption DEF Init, HubInit, TypeOK, HubTypeOK

\* What a dispatch publishes is an event.
LEMMA EventTyped ==
  ASSUME TypeOK, NEW type \in {"incoming", "outgoing", "report"},
         NEW d \in Dispatches
  PROVE  Event(type, d) \in Events
  BY DEF TypeOK, Event, Events, Dispatches

\* Publishing an event keeps the hub and the log well typed.
LEMMA PublishTypes ==
  ASSUME HubTypeOK, log \in Seq(Events), NEW event \in Events, Publish(event)
  PROVE  HubTypeOK' /\ (log \in Seq(Events))'
  <1>1. log' \in Seq(Events) /\ Len(log') = Len(log) + 1 /\ Len(log) \in Nat
    BY DEF Publish
  <1>2. ASSUME NEW c \in Clients
        PROVE  /\ queue'[c] \in Seq(0 .. Len(log'))
               /\ Len(queue'[c]) <= QueueSize
    <2>1. queue[c] \in Seq(0 .. Len(log')) /\ Len(queue[c]) <= QueueSize
      <3>1. 0 .. Len(log) \subseteq 0 .. Len(log')
        BY <1>1
      <3> QED
        BY <3>1, SeqMonotonic DEF HubTypeOK
    <2>2. CASE queue'[c] = queue[c]
      BY <2>1, <2>2
    <2>3. CASE queue'[c] = Enqueue(queue[c], Len(log) + 1)
      <3>1. Len(log) + 1 \in 0 .. Len(log')
        BY <1>1
      <3> QED
        BY <2>1, <2>3, <3>1, EnqueueShifts
    <2> QED
      BY <2>2, <2>3 DEF Publish
  <1>3. queue' = [c \in Clients |-> queue'[c]]
    BY DEF Publish
  <1>4. queue' \in [Clients -> Seq(0 .. Len(log'))]
    BY <1>2, <1>3
  <1>5. got \in [Clients -> SUBSET (1 .. Len(log'))] /\ since \in [Clients -> 0 .. Len(log')]
    <2>1. 1 .. Len(log) \subseteq 1 .. Len(log') /\ 0 .. Len(log) \subseteq 0 .. Len(log')
      BY <1>1
    <2> QED
      BY <2>1 DEF HubTypeOK
  <1> QED
    BY <1>1, <1>2, <1>4, <1>5 DEF HubTypeOK, Publish

\* The hub closes, or takes a subscription, an opening or an end of a stream.
LEMMA CloseHubTypes ==
  ASSUME HubTypeOK, log \in Seq(Events), CloseHub
  PROVE  HubTypeOK' /\ (log \in Seq(Events))'
  <1>1. ASSUME NEW c \in Clients
        PROVE  /\ queue'[c] \in Seq(0 .. Len(log))
               /\ Len(queue'[c]) <= QueueSize
    <2>1. /\ queue[c] \in Seq(0 .. Len(log))
          /\ Len(queue[c]) <= QueueSize
          /\ Closing \in 0 .. Len(log)
      BY DEF HubTypeOK, Closing
    <2>2. queue'[c] \in {queue[c], Enqueue(queue[c], Closing)}
      BY DEF CloseHub
    <2> QED
      BY <2>1, <2>2, EnqueueShifts
  <1>2. queue' = [c \in Clients |-> queue'[c]]
    BY DEF CloseHub
  <1>3. queue' \in [Clients -> Seq(0 .. Len(log))]
    BY <1>1, <1>2
  <1> QED
    BY <1>1, <1>3 DEF HubTypeOK, CloseHub

\* Subscribing keeps the hub and the log well typed.
LEMMA SubscribeTypes ==
  ASSUME HubTypeOK, log \in Seq(Events), NEW c \in Clients, Subscribe(c)
  PROVE  HubTypeOK' /\ (log \in Seq(Events))'
  BY DEF HubTypeOK, Subscribe

\* A step of a client's stream keeps the hub and the log well typed.
LEMMA StreamTypes ==
  ASSUME HubTypeOK, log \in Seq(Events), NEW c \in Clients, StreamStep(c)
  PROVE  HubTypeOK' /\ (log \in Seq(Events))'
  <1>1. CASE Open(c)
    BY <1>1 DEF HubTypeOK, Open
  <1>2. CASE Abandon(c)
    BY <1>2 DEF HubTypeOK, Abandon
  <1>3. CASE Take(c)
    <2>1. /\ queue[c] \in Seq(0 .. Len(log))
          /\ queue[c] # <<>>
          /\ Len(queue[c]) <= QueueSize
      BY <1>3 DEF HubTypeOK, Take
    <2>2. /\ Head(queue[c]) \in 0 .. Len(log)
          /\ Tail(queue[c]) \in Seq(0 .. Len(log))
          /\ Len(Tail(queue[c])) = Len(queue[c]) - 1
      BY <2>1, HeadTailProperties
    <2>3. Len(Tail(queue[c])) <= QueueSize
      BY <2>1, <2>2, QueueAssumption
    <2>4. queue' = [queue EXCEPT ![c] = Tail(@)] /\ log' = log /\ since' = since
      BY <1>3 DEF Take
    <2>5. \A d \in Clients : queue'[d] = IF d = c THEN Tail(queue[c]) ELSE queue[d]
      BY <2>4 DEF HubTypeOK
    <2>6. queue' \in [Clients -> Seq(0 .. Len(log))]
      BY <2>2, <2>4 DEF HubTypeOK
    <2>7. \A d \in Clients : Len(queue'[d]) <= QueueSize
      BY <2>3, <2>5 DEF HubTypeOK
    <2>8. got' \in [Clients -> SUBSET (1 .. Len(log))]
      <3>1. CASE Head(queue[c]) = Closing
        BY <1>3, <3>1 DEF Take, HubTypeOK
      <3>2. CASE Head(queue[c]) # Closing
        <4>1. Head(queue[c]) \in 1 .. Len(log)
          <5>1. Len(log) \in Nat
            OBVIOUS
          <5> QED
            BY <2>2, <3>2, <5>1 DEF Closing
        <4>2. got' = [got EXCEPT ![c] = @ \union {Head(queue[c])}]
          BY <1>3, <3>2 DEF Take
        <4> QED
          BY <4>1, <4>2 DEF HubTypeOK
      <3> QED
        BY <3>1, <3>2
    <2>9. /\ subs' \subseteq Clients
          /\ stream' \in [Clients -> {"none", "opened", "streaming",
                                      "abandoned", "ended"}]
      BY <1>3 DEF Take, EndStream, HubTypeOK
    <2> QED
      BY <2>4, <2>6, <2>7, <2>8, <2>9 DEF HubTypeOK
  <1>4. CASE Disconnect(c)
    BY <1>4 DEF HubTypeOK, Disconnect, EndStream
  <1> QED
    BY <1>1, <1>2, <1>3, <1>4 DEF StreamStep

\* The part of TypeOK that belongs to the dispatches.
ScopeTypeOK ==
    /\ phase \in {"serving", "draining", "cancelled", "closed"}
    /\ pc \in [Dispatches -> {"new", "tracked", "body", "sending",
                              "done", "failed"}]
    /\ pending \in [Messages -> BOOLEAN]
    /\ flush \in [Messages -> {"none", "ready", "done", "lost"}]
    /\ user \in [Messages -> {"received", "resolved"}]
    /\ sends \in [Messages -> 0 .. MaxSends]
    /\ hasty \subseteq Nat

\* Flushing the captured message keeps the scope's state well typed.
LEMMA FlushTypes ==
  ASSUME ScopeTypeOK, NEW m \in Messages, FlushIncoming(m)
  PROVE  /\ pending' \in [Messages -> BOOLEAN]
         /\ flush' \in [Messages -> {"none", "ready", "done", "lost"}]
  BY DEF ScopeTypeOK, FlushIncoming

\* Beginning a send keeps the scope's state well typed.
LEMMA BeginSendTypes ==
  ASSUME ScopeTypeOK, NEW m \in Messages, BeginSend(m)
  PROVE  /\ pending' \in [Messages -> BOOLEAN]
         /\ flush' \in [Messages -> {"none", "ready", "done", "lost"}]
         /\ sends' \in [Messages -> 0 .. MaxSends]
  <1>1. sends[m] \in 0 .. MaxSends /\ sends[m] < MaxSends
    BY DEF ScopeTypeOK, BeginSend
  <1>2. sends[m] + 1 \in 0 .. MaxSends
    BY <1>1, SendsAssumption
  <1> QED
    BY <1>2, FlushTypes DEF ScopeTypeOK, BeginSend

\* Every step keeps the types.
LEMMA NextTypes ==
  ASSUME TypeOK, [Next]_vars
  PROVE  TypeOK'
  <1> USE DEF GoTo
  <1>1. HubTypeOK /\ log \in Seq(Events) /\ ScopeTypeOK
    BY DEF TypeOK, ScopeTypeOK
  <1>2. SUFFICES (HubTypeOK /\ log \in Seq(Events))' /\ ScopeTypeOK'
    BY DEF TypeOK, ScopeTypeOK
  <1>3. ASSUME UNCHANGED hubVars
        PROVE  (HubTypeOK /\ log \in Seq(Events))'
    BY <1>1, <1>3 DEF HubTypeOK, hubVars
  <1>4. ASSUME UNCHANGED scopeVars
        PROVE  ScopeTypeOK'
    BY <1>1, <1>4 DEF ScopeTypeOK, scopeVars
  <1>5. Messages \subseteq Dispatches /\ Reports \subseteq Dispatches
    BY DEF Dispatches
  <1>6. ASSUME NEW d \in Dispatches, Accept(d)
        PROVE  TypeOK'
    <2>1. ScopeTypeOK'
      BY <1>1, <1>6 DEF Accept, ScopeTypeOK
    <2> QED
      BY <1>3, <1>6, <2>1 DEF Accept, TypeOK, ScopeTypeOK
  <1>7. ASSUME NEW m \in Messages, DispatchStep(m)
        PROVE  (HubTypeOK /\ log \in Seq(Events))' /\ ScopeTypeOK'
    <2>1. CASE Stage(m)
      BY <1>1, <1>3, <1>5, <2>1 DEF Stage, ScopeTypeOK
    <2>2. CASE Enrich(m)
      <3>1. FlushIncoming(m) /\ UNCHANGED <<hubVars, phase, pc, sends, hasty>>
        BY <2>2 DEF Enrich
      <3>2. user' \in [Messages -> {"received", "resolved"}]
        BY <1>1, <2>2 DEF Enrich, ScopeTypeOK
      <3> QED
        BY <1>1, <1>3, <3>1, <3>2, FlushTypes DEF ScopeTypeOK
    <2>3. CASE Send(m)
      <3>1. BeginSend(m) /\ UNCHANGED <<hubVars, phase, user, hasty>>
        BY <2>3 DEF Send
      <3>2. pc' \in [Dispatches -> {"new", "tracked", "body", "sending",
                                   "done", "failed"}]
        BY <1>1, <1>5, <2>3 DEF Send, ScopeTypeOK
      <3> QED
        BY <1>1, <1>3, <3>1, <3>2, BeginSendTypes DEF ScopeTypeOK
    <2>4. CASE SendRefused(m)
      <3>1. BeginSend(m) /\ Publish(Event("outgoing", m)) /\ UNCHANGED <<phase, pc, user>>
        BY <2>4 DEF SendRefused
      <3>5. Len(log) + 1 \in Nat
        BY <1>1
      <3>2. hasty' \subseteq Nat
        BY <1>1, <2>4, <3>5 DEF SendRefused, ScopeTypeOK
      <3>3. Event("outgoing", m) \in Events
        BY <1>5, EventTyped
      <3>4. (HubTypeOK /\ log \in Seq(Events))'
        BY <1>1, <3>1, <3>3, PublishTypes
      <3> QED
        BY <1>1, <3>1, <3>2, <3>4, BeginSendTypes DEF ScopeTypeOK
    <2>5. CASE SendReturns(m)
      <3>1. Event("outgoing", m) \in Events
        BY <1>5, EventTyped
      <3>2. (HubTypeOK /\ log \in Seq(Events))'
        BY <1>1, <2>5, <3>1, PublishTypes DEF SendReturns
      <3> QED
        BY <1>1, <1>5, <2>5, <3>2 DEF SendReturns, ScopeTypeOK
    <2>6. CASE HandlerReturns(m)
      <3>1. FlushIncoming(m) /\ UNCHANGED <<hubVars, phase, user, sends, hasty>>
        BY <2>6 DEF HandlerReturns
      <3>2. pc' \in [Dispatches -> {"new", "tracked", "body", "sending",
                                   "done", "failed"}]
        BY <1>1, <1>5, <2>6 DEF HandlerReturns, ScopeTypeOK
      <3> QED
        BY <1>1, <1>3, <3>1, <3>2, FlushTypes DEF ScopeTypeOK
    <2>7. CASE HandlerRaises(m)
      BY <1>1, <1>3, <1>5, <2>7 DEF HandlerRaises, ScopeTypeOK
    <2> QED
      BY <1>7, <2>1, <2>2, <2>3, <2>4, <2>5, <2>6, <2>7 DEF DispatchStep
  <1>8. ASSUME NEW m \in Messages, RunFlush(m)
        PROVE  (HubTypeOK /\ log \in Seq(Events))' /\ ScopeTypeOK'
    <2>1. Event("incoming", m) \in Events
      BY <1>5, EventTyped
    <2>2. (HubTypeOK /\ log \in Seq(Events))'
      BY <1>1, <1>8, <2>1, PublishTypes DEF RunFlush
    <2> QED
      BY <1>1, <1>8, <2>2 DEF RunFlush, ScopeTypeOK
  <1>9. ASSUME NEW r \in Reports, Report(r)
        PROVE  (HubTypeOK /\ log \in Seq(Events))' /\ ScopeTypeOK'
    <2>1. Event("report", r) \in Events
      BY <1>5, EventTyped
    <2>2. (HubTypeOK /\ log \in Seq(Events))'
      BY <1>1, <1>9, <2>1, PublishTypes DEF Report
    <2> QED
      BY <1>1, <1>5, <1>9, <2>2 DEF Report, ScopeTypeOK
  <1>10. ASSUME NEW c \in Clients, Connect(c)
         PROVE  (HubTypeOK /\ log \in Seq(Events))' /\ ScopeTypeOK'
    BY <1>1, <1>4, <1>10, SubscribeTypes DEF Connect
  <1>11. ASSUME NEW c \in Clients, Stream(c)
         PROVE  (HubTypeOK /\ log \in Seq(Events))' /\ ScopeTypeOK'
    BY <1>1, <1>4, <1>11, StreamTypes DEF Stream
  <1>12. CASE StartDrain
    BY <1>1, <1>3, <1>12 DEF StartDrain, ScopeTypeOK
  <1>13. CASE CancelTasks
    <2>1. PICK stubborn \in SUBSET {d \in Running : pc[d] # "tracked"} :
            pc' = [d \in Dispatches |->
                     CASE d \in stubborn -> "body"
                       [] d \in Running \ stubborn -> "failed"
                       [] OTHER -> pc[d]]
      BY <1>13 DEF CancelTasks
    <2>2. pc' \in [Dispatches -> {"new", "tracked", "body", "sending",
                                 "done", "failed"}]
      BY <1>1, <2>1 DEF ScopeTypeOK
    <2>3. flush' \in [Messages -> {"none", "ready", "done", "lost"}]
      BY <1>1, <1>13 DEF CancelTasks, ScopeTypeOK
    <2> QED
      BY <1>1, <1>3, <1>13, <2>2, <2>3 DEF CancelTasks, ScopeTypeOK
  <1>14. CASE ShutdownHub
    BY <1>1, <1>14, CloseHubTypes DEF ShutdownHub, ScopeTypeOK
  <1>15. CASE UNCHANGED vars
    BY <1>3, <1>4, <1>15 DEF vars
  <1>16. CASE \E d \in Dispatches : Accept(d)
    BY <1>6, <1>16 DEF TypeOK, ScopeTypeOK
  <1> QED
    BY <1>7, <1>8, <1>9, <1>10, <1>11, <1>12, <1>13, <1>14, <1>15, <1>16 DEF Next

\* Every variable keeps its type, no queue outgrows its bound, and every place
\* a queue or a stream names is the place of a published event.
THEOREM TypeCorrect == Spec => []TypeOK
  <1>1. TypeOK /\ [Next]_vars => TypeOK'
    BY NextTypes
  <1> QED
    BY <1>1, InitTypes, PTL DEF Spec

-----------------------------------------------------------------------------
(* The events of one message: how the place of the handler, the staged      *)
(* event and the flush task tell what the log can hold.                     *)

MessageInv(m) ==
    /\ pc[m] \in {"new", "tracked"} => ~ pending[m] /\ flush[m] = "none"
    /\ pc[m] \in {"body", "sending"} /\ ~ pending[m] => flush[m] # "none"
    /\ pc[m] = "sending" => ~ pending[m]
    /\ pending[m] => flush[m] = "none"
    /\ flush[m] # "done" => Places("incoming", m) = {}
    /\ flush[m] = "done" => Places("incoming", m) # {}
    /\ \A i, j \in Places("incoming", m) : i = j
    /\ flush[m] = "none" => Places("outgoing", m) = {}
    /\ flush[m] = "ready" => Places("outgoing", m) \subseteq hasty
    /\ flush[m] = "done" =>
         \A j \in Places("outgoing", m) \ hasty :
             \E i \in Places("incoming", m) : i < j

\* Nothing is captured, flushed or published of any message at the start.
LEMMA InitMessages == Init => \A m \in Messages : MessageInv(m)
  BY DEF Init, HubInit, MessageInv, Places, Dispatches

\* A message none of whose own state changes keeps its invariant.
LEMMA OthersKept ==
  ASSUME NEW m \in Messages, MessageInv(m),
         pc'[m] = pc[m], pending'[m] = pending[m], flush'[m] = flush[m],
         hasty \subseteq hasty',
         Places("incoming", m)' = Places("incoming", m),
         Places("outgoing", m)' = Places("outgoing", m)
  PROVE  MessageInv(m)'
  BY DEF MessageInv

\* A step that publishes nothing moves no event in the log.
LEMMA LogKept ==
  ASSUME log' = log, NEW type, NEW m
  PROVE  Places(type, m)' = Places(type, m)
  BY DEF Places

\* An event of one dispatch is no event of another.
LEMMA PublishOfOther ==
  ASSUME TypeOK, NEW type \in {"incoming", "outgoing", "report"},
         NEW d \in Dispatches, Publish(Event(type, d)),
         NEW m, d # m \/ type = "report"
  PROVE  /\ Places("incoming", m)' = Places("incoming", m)
         /\ Places("outgoing", m)' = Places("outgoing", m)
  <1>1. Event(type, d) \in Events /\ log \in Seq(Events)
    BY EventTyped DEF TypeOK
  <1>2. Event(type, d).type = type /\ Event(type, d).of = d
    BY DEF Event
  <1>3. log' = Append(log, Event(type, d))
    BY DEF Publish
  <1> QED
    BY <1>1, <1>2, <1>3, PlacesAfter

\* Publishing an event of a message puts it after every event of that message
\* so far, and changes nothing else of the message in the log.
LEMMA PublishOfSame ==
  ASSUME TypeOK, NEW type \in {"incoming", "outgoing"},
         NEW m \in Messages, Publish(Event(type, m))
  PROVE  /\ Places(type, m)' = Places(type, m) \union {Len(log) + 1}
         /\ \A other \in {"incoming", "outgoing"} \ {type} :
              Places(other, m)' = Places(other, m)
         /\ \A other \in {"incoming", "outgoing"} :
              \A i \in Places(other, m) : i < Len(log) + 1
  <1>1. Event(type, m) \in Events /\ log \in Seq(Events)
    BY EventTyped DEF TypeOK, Dispatches
  <1>2. Event(type, m).type = type /\ Event(type, m).of = m
    BY DEF Event
  <1>3. log' = Append(log, Event(type, m))
    BY DEF Publish
  <1>4. \A other : \A i \in Places(other, m) : i < Len(log) + 1
    BY <1>1 DEF Places
  <1>5. \A other : Places(other, m)' =
                     IF Event(type, m).type = other /\ Event(type, m).of = m
                     THEN Places(other, m) \union {Len(log) + 1}
                     ELSE Places(other, m)
    BY <1>1, <1>3, PlacesAfter
  <1> QED
    BY <1>2, <1>4, <1>5

\* A step of a message's own dispatch keeps its invariant.
LEMMA DispatchKeepsMessage ==
  ASSUME TypeOK, NEW m \in Messages, MessageInv(m), DispatchStep(m)
  PROVE  MessageInv(m)'
  <1> USE DEF GoTo
  <1>1. /\ pc \in [Dispatches -> {"new", "tracked", "body", "sending",
                                  "done", "failed"}]
        /\ pending \in [Messages -> BOOLEAN]
        /\ flush \in [Messages -> {"none", "ready", "done", "lost"}]
        /\ m \in Dispatches
    BY DEF TypeOK, Dispatches
  <1>2. ASSUME FlushIncoming(m)
        PROVE  /\ ~ pending'[m]
               /\ pending[m] => flush'[m] \in {"ready", "lost"}
               /\ ~ pending[m] => flush'[m] = flush[m]
    BY <1>1, <1>2 DEF FlushIncoming
  <1>3. ASSUME UNCHANGED hubVars
        PROVE  /\ Places("incoming", m)' = Places("incoming", m)
               /\ Places("outgoing", m)' = Places("outgoing", m)
    BY <1>3, LogKept DEF hubVars
  <1>4. CASE Stage(m)
    <2>1. /\ pc[m] = "tracked" /\ pc'[m] = "body" /\ pending'[m]
          /\ flush' = flush /\ hasty' = hasty
      BY <1>1, <1>4 DEF Stage
    <2>2. /\ Places("incoming", m)' = Places("incoming", m)
          /\ Places("outgoing", m)' = Places("outgoing", m)
      BY <1>3, <1>4 DEF Stage
    <2> QED
      BY <2>1, <2>2 DEF MessageInv
  <1>5. CASE Enrich(m)
    <2>1. pc[m] = "body" /\ pc' = pc /\ hasty' = hasty /\ FlushIncoming(m)
      BY <1>5 DEF Enrich
    <2>2. /\ Places("incoming", m)' = Places("incoming", m)
          /\ Places("outgoing", m)' = Places("outgoing", m)
      BY <1>3, <1>5 DEF Enrich
    <2> QED
      BY <1>2, <2>1, <2>2 DEF MessageInv
  <1>6. CASE Send(m)
    <2>1. /\ pc[m] = "body" /\ pc'[m] = "sending" /\ hasty' = hasty
          /\ FlushIncoming(m)
      BY <1>1, <1>6 DEF Send, BeginSend
    <2>2. /\ Places("incoming", m)' = Places("incoming", m)
          /\ Places("outgoing", m)' = Places("outgoing", m)
      BY <1>3, <1>6 DEF Send
    <2> QED
      BY <1>2, <2>1, <2>2 DEF MessageInv
  <1>7. CASE SendRefused(m)
    <2>1. /\ pc[m] = "body" /\ pc' = pc /\ FlushIncoming(m)
          /\ Publish(Event("outgoing", m))
          /\ hasty \subseteq hasty'
          /\ flush'[m] = "ready" => Len(log) + 1 \in hasty'
      BY <1>7 DEF SendRefused, BeginSend
    <2>2. /\ Places("outgoing", m)' = Places("outgoing", m) \union {Len(log) + 1}
          /\ Places("incoming", m)' = Places("incoming", m)
          /\ \A i \in Places("incoming", m) : i < Len(log) + 1
      BY <2>1, PublishOfSame
    <2>3. CASE pending[m]
      BY <1>2, <2>1, <2>2, <2>3 DEF MessageInv
    <2>4. CASE ~ pending[m]
      BY <1>2, <2>1, <2>2, <2>4 DEF MessageInv
    <2> QED
      BY <2>3, <2>4
  <1>8. CASE SendReturns(m)
    <2>1. /\ pc[m] = "sending" /\ flush[m] # "ready" /\ pc'[m] = "body"
          /\ pending' = pending /\ flush' = flush /\ hasty' = hasty
          /\ Publish(Event("outgoing", m))
      BY <1>1, <1>8 DEF SendReturns
    <2>2. /\ Places("outgoing", m)' = Places("outgoing", m) \union {Len(log) + 1}
          /\ Places("incoming", m)' = Places("incoming", m)
          /\ \A i \in Places("incoming", m) : i < Len(log) + 1
      BY <2>1, PublishOfSame
    <2> QED
      BY <2>1, <2>2 DEF MessageInv
  <1>9. CASE HandlerReturns(m)
    <2>1. /\ pc[m] = "body" /\ pc'[m] = "done" /\ hasty' = hasty
          /\ FlushIncoming(m)
      BY <1>1, <1>9 DEF HandlerReturns
    <2>2. /\ Places("incoming", m)' = Places("incoming", m)
          /\ Places("outgoing", m)' = Places("outgoing", m)
      BY <1>3, <1>9 DEF HandlerReturns
    <2> QED
      BY <1>2, <2>1, <2>2 DEF MessageInv
  <1>10. CASE HandlerRaises(m)
    <2>1. /\ pc'[m] = "failed" /\ ~ pending'[m]
          /\ flush' = flush /\ hasty' = hasty
      BY <1>1, <1>10 DEF HandlerRaises
    <2>2. /\ Places("incoming", m)' = Places("incoming", m)
          /\ Places("outgoing", m)' = Places("outgoing", m)
      BY <1>3, <1>10 DEF HandlerRaises
    <2> QED
      BY <2>1, <2>2 DEF MessageInv
  <1> QED
    BY <1>4, <1>5, <1>6, <1>7, <1>8, <1>9, <1>10 DEF DispatchStep

\* A step of another message's dispatch keeps the invariant of this one.
LEMMA DispatchKeepsOthers ==
  ASSUME TypeOK, NEW m \in Messages, MessageInv(m),
         NEW n \in Messages, n # m, DispatchStep(n)
  PROVE  MessageInv(m)'
  <1>1. pc'[m] = pc[m] /\ pending'[m] = pending[m] /\ flush'[m] = flush[m]
    BY DEF TypeOK, Dispatches, DispatchStep, Stage, Enrich, Send, SendRefused,
           SendReturns, HandlerReturns, HandlerRaises, BeginSend,
           FlushIncoming, GoTo
  <1>2. hasty \subseteq hasty'
    BY DEF DispatchStep, Stage, Enrich, Send, SendRefused, SendReturns,
           HandlerReturns, HandlerRaises
  <1>3. UNCHANGED hubVars \/ Publish(Event("outgoing", n))
    BY DEF DispatchStep, Stage, Enrich, Send, SendRefused, SendReturns,
           HandlerReturns, HandlerRaises
  <1>4. /\ Places("incoming", m)' = Places("incoming", m)
        /\ Places("outgoing", m)' = Places("outgoing", m)
    BY <1>3, LogKept, PublishOfOther DEF hubVars, Dispatches
  <1> QED
    BY <1>1, <1>2, <1>4, OthersKept

\* Every step keeps the invariant of every message.
LEMMA NextMessages ==
  ASSUME TypeOK, NEW m \in Messages, MessageInv(m), [Next]_vars
  PROVE  MessageInv(m)'
  <1> USE DEF GoTo
  <1>1. /\ pc \in [Dispatches -> {"new", "tracked", "body", "sending",
                                  "done", "failed"}]
        /\ flush \in [Messages -> {"none", "ready", "done", "lost"}]
        /\ m \in Dispatches
    BY DEF TypeOK, Dispatches
  <1>2. ASSUME log' = log, pc'[m] = pc[m], UNCHANGED <<pending, flush, hasty>>
        PROVE  MessageInv(m)'
    BY <1>2, LogKept, OthersKept
  <1>3. ASSUME NEW d \in Dispatches, Accept(d)
        PROVE  MessageInv(m)'
    <2>1. CASE d = m
      <3>1. /\ pc[m] = "new" /\ pc'[m] = "tracked" /\ log' = log
            /\ UNCHANGED <<pending, flush, hasty>>
        BY <1>1, <1>3, <2>1 DEF Accept, hubVars
      <3>2. /\ Places("incoming", m)' = Places("incoming", m)
            /\ Places("outgoing", m)' = Places("outgoing", m)
        BY <3>1, LogKept
      <3> QED
        BY <3>1, <3>2 DEF MessageInv
    <2>2. CASE d # m
      BY <1>1, <1>2, <1>3, <2>2 DEF Accept, hubVars
    <2> QED
      BY <2>1, <2>2
  <1>4. ASSUME NEW n \in Messages, DispatchStep(n)
        PROVE  MessageInv(m)'
    BY <1>4, DispatchKeepsMessage, DispatchKeepsOthers
  <1>5. ASSUME NEW n \in Messages, RunFlush(n)
        PROVE  MessageInv(m)'
    <2>1. /\ pc' = pc /\ pending' = pending /\ hasty' = hasty
          /\ flush[n] = "ready" /\ flush' = [flush EXCEPT ![n] = "done"]
          /\ Publish(Event("incoming", n))
      BY <1>5 DEF RunFlush
    <2>2. CASE n = m
      <3>1. /\ Places("incoming", m)' = Places("incoming", m) \union {Len(log) + 1}
            /\ Places("outgoing", m)' = Places("outgoing", m)
        BY <2>1, <2>2, PublishOfSame
      <3>2. flush[m] = "ready" /\ flush'[m] = "done"
        BY <1>1, <2>1, <2>2
      <3> QED
        BY <2>1, <3>1, <3>2 DEF MessageInv
    <2>3. CASE n # m
      <3>1. /\ Places("incoming", m)' = Places("incoming", m)
            /\ Places("outgoing", m)' = Places("outgoing", m)
        BY <2>1, <2>3, PublishOfOther DEF Dispatches
      <3> QED
        BY <1>1, <2>1, <2>3, <3>1, OthersKept
    <2> QED
      BY <2>2, <2>3
  <1>6. ASSUME NEW r \in Reports, Report(r)
        PROVE  MessageInv(m)'
    <2>1. pc'[m] = pc[m] /\ UNCHANGED <<pending, flush, hasty>>
      BY <1>1, <1>6, KindsAssumption DEF Report
    <2>2. /\ Places("incoming", m)' = Places("incoming", m)
          /\ Places("outgoing", m)' = Places("outgoing", m)
      BY <1>6, PublishOfOther DEF Report, Dispatches
    <2> QED
      BY <2>1, <2>2, OthersKept
  <1>7. ASSUME NEW c \in Clients, Connect(c) \/ Stream(c)
        PROVE  MessageInv(m)'
    BY <1>2, <1>7 DEF Connect, Subscribe, Stream, StreamStep, Open, Abandon,
                      Take, Disconnect, scopeVars
  <1>8. CASE StartDrain
    BY <1>2, <1>8 DEF StartDrain, hubVars
  <1>9. CASE CancelTasks
    <2>1. PICK stubborn \in SUBSET {d \in Running : pc[d] # "tracked"} :
            pc' = [d \in Dispatches |->
                     CASE d \in stubborn -> "body"
                       [] d \in Running \ stubborn -> "failed"
                       [] OTHER -> pc[d]]
      BY <1>9 DEF CancelTasks
    <2>2. \/ pc'[m] = pc[m]
          \/ pc'[m] = "failed"
          \/ pc'[m] = "body" /\ pc[m] \in {"body", "sending"}
      BY <1>1, <2>1 DEF Running
    <2>3. /\ flush'[m] = IF flush[m] = "ready" THEN "lost" ELSE flush[m]
          /\ UNCHANGED <<log, pending, hasty>>
      BY <1>9 DEF CancelTasks, hubVars
    <2>4. /\ Places("incoming", m)' = Places("incoming", m)
          /\ Places("outgoing", m)' = Places("outgoing", m)
      BY <2>3, LogKept
    <2> QED
      BY <2>2, <2>3, <2>4 DEF MessageInv
  <1>10. CASE ShutdownHub
    BY <1>2, <1>10 DEF ShutdownHub, CloseHub
  <1>11. CASE UNCHANGED vars
    BY <1>2, <1>11 DEF vars, hubVars, scopeVars
  <1> QED
    BY <1>3, <1>4, <1>5, <1>6, <1>7, <1>8, <1>9, <1>10, <1>11 DEF Next

\* The invariant of the messages holds in every behaviour.
LEMMA MessagesInvariant == Spec => [](\A m \in Messages : MessageInv(m))
  <1> DEFINE Inv == \A m \in Messages : MessageInv(m)
  <1>1. Init => Inv
    BY InitMessages
  <1>2. TypeOK /\ Inv /\ [Next]_vars => Inv'
    BY NextMessages
  <1> HIDE DEF Inv
  <1>3. Spec => []Inv
    BY <1>1, <1>2, TypeCorrect, PTL DEF Spec
  <1> QED
    BY <1>3 DEF Inv

\* Enrichments, sends and the end of the handler flush, in any number and
\* order: the subscribers hear of an incoming message at most once.
THEOREM IncomingPublishedOnce == Spec => []IncomingOnce
  <1>1. (\A m \in Messages : MessageInv(m)) => IncomingOnce
    BY DEF MessageInv, IncomingOnce
  <1> QED
    BY <1>1, MessagesInvariant, PTL

\* The incoming message is out before the replies to it, unless the drain
\* dropped it; a reply that precedes it was refused at once, before it was sent.
THEOREM IncomingPublishedFirst == Spec => []IncomingFirst
  <1>1. TypeOK /\ (\A m \in Messages : MessageInv(m)) => IncomingFirst
    BY DEF MessageInv, IncomingFirst, TypeOK
  <1> QED
    BY <1>1, TypeCorrect, MessagesInvariant, PTL

-----------------------------------------------------------------------------
(* The queues and the subscriptions.                                        *)

\* What InOrder says of one queue and of what its stream has sent out.
Ordered(q, out) ==
    \A i \in DOMAIN q :
        /\ q[i] = Closing => i = Len(q)
        /\ q[i] # Closing => /\ \A sent \in out : sent < q[i]
                             /\ \A j \in 1 .. i - 1 : q[j] < q[i]

Unclosed(q) == \A i \in DOMAIN q : q[i] # Closing

StreamInv(c) ==
    /\ stream[c] = "none" => c \notin subs /\ queue[c] = <<>>
    /\ stream[c] = "ended" => c \notin subs
    /\ c \in subs => Unclosed(queue[c])
    /\ Ordered(queue[c], got[c])

\* No client has a stream, a queue or a subscription at the start.
LEMMA InitStreams == Init => \A c \in Clients : StreamInv(c)
  BY DEF Init, HubInit, StreamInv, Ordered, Unclosed

\* An event newer than the whole queue, or the closing event, keeps the order.
LEMMA EnqueueOrder ==
  ASSUME NEW L \in Nat, NEW q \in Seq(0 .. L), NEW out \in SUBSET (1 .. L),
         Ordered(q, out), Unclosed(q), NEW x \in {Closing, L + 1}
  PROVE  /\ Ordered(Enqueue(q, x), out)
         /\ x # Closing => Unclosed(Enqueue(q, x))
  <1> DEFINE k == Shift(q)
             e == Enqueue(q, x)
  <1>1. q \in Seq(0 .. L + 1) /\ x \in 0 .. L + 1
    <2>1. 0 .. L \subseteq 0 .. L + 1
      OBVIOUS
    <2> QED
      BY <2>1, SeqMonotonic DEF Closing
  <1>2. /\ e \in Seq(0 .. L + 1)
        /\ k \in {0, 1}
        /\ Len(q) >= k
        /\ Len(e) = Len(q) + 1 - k
        /\ \A i \in 1 .. Len(q) - k : e[i] = q[i + k]
        /\ e[Len(e)] = x
    <2> DEFINE S == 0 .. L + 1
    <2>1. q \in Seq(S) /\ x \in S
      BY <1>1
    <2> HIDE DEF S
    <2>2. /\ e \in Seq(S)
          /\ k \in {0, 1}
          /\ Len(q) >= k
          /\ Len(e) = Len(q) + 1 - k
          /\ \A i \in 1 .. Len(q) - k : e[i] = q[i + k]
          /\ e[Len(e)] = x
      BY <2>1, EnqueueShifts
    <2> QED
      BY <2>2 DEF S
  <1>3. /\ DOMAIN e = 1 .. Len(e)
        /\ DOMAIN q = 1 .. Len(q)
        /\ Len(q) \in Nat /\ Len(e) \in Nat
        /\ \A i \in 1 .. Len(q) : q[i] \in 0 .. L
    <2> HIDE DEF e
    <2>1. DOMAIN e = 1 .. Len(e) /\ Len(e) \in Nat
      BY <1>2
    <2>2. DOMAIN q = 1 .. Len(q) /\ Len(q) \in Nat
      OBVIOUS
    <2>3. \A i \in 1 .. Len(q) : q[i] \in 0 .. L
      OBVIOUS
    <2> QED
      BY <2>1, <2>2, <2>3
  <1> HIDE DEF k, e
  <1>4. ASSUME NEW i \in 1 .. Len(e), i # Len(e)
        PROVE  /\ e[i] = q[i + k]
               /\ i + k \in 1 .. Len(q)
               /\ e[i] # Closing
               /\ e[i] \in 0 .. L
    <2>1. i \in 1 .. Len(q) - k /\ i + k \in 1 .. Len(q)
      BY <1>2, <1>3, <1>4
    <2> QED
      BY <1>2, <1>3, <2>1 DEF Unclosed
  <1>5. ASSUME NEW i \in 1 .. Len(e), e[i] # Closing
        PROVE  \A sent \in out : sent < e[i]
    <2>1. CASE i = Len(e)
      BY <1>2, <1>5, <2>1
    <2>2. CASE i # Len(e)
      BY <1>3, <1>4, <2>2 DEF Ordered
    <2> QED
      BY <2>1, <2>2
  <1>6. ASSUME NEW i \in 1 .. Len(e), e[i] # Closing, NEW j \in 1 .. i - 1
        PROVE  e[j] < e[i]
    <2>1. j \in 1 .. Len(e) /\ j # Len(e)
      <3>1. Len(e) \in Nat
        BY <1>3
      <3> QED
        BY <3>1
    <2>2. CASE i = Len(e)
      <3>1. e[i] = L + 1
        BY <1>2, <1>6, <2>2
      <3>2. e[j] \in 0 .. L
        BY <1>4, <2>1
      <3> QED
        BY <3>1, <3>2
    <2>3. CASE i # Len(e)
      <3>1. j + k \in 1 .. (i + k) - 1
        BY <1>2
      <3> QED
        BY <1>3, <1>4, <2>1, <2>3, <3>1 DEF Ordered
    <2> QED
      BY <2>2, <2>3
  <1>7. Ordered(e, out)
    BY <1>3, <1>4, <1>5, <1>6 DEF Ordered
  <1>8. x # Closing => Unclosed(e)
    BY <1>2, <1>3, <1>4 DEF Unclosed
  <1> QED
    BY <1>7, <1>8 DEF e

\* A step that changes nothing of a client keeps the client's invariant.
LEMMA StreamKept ==
  ASSUME NEW c \in Clients, StreamInv(c), stream'[c] = stream[c],
         queue'[c] = queue[c], got'[c] = got[c], c \in subs' <=> c \in subs
  PROVE  StreamInv(c)'
  BY DEF StreamInv

\* Publishing, with or without dropping the oldest event, keeps the invariant
\* of every client.
LEMMA PublishKeepsStream ==
  ASSUME HubTypeOK, log \in Seq(Events), NEW c \in Clients, StreamInv(c),
         NEW event, Publish(event)
  PROVE  StreamInv(c)'
  <1>1. stream' = stream /\ got' = got /\ subs' = subs
    BY DEF Publish
  <1>2. CASE queue'[c] = queue[c]
    BY <1>1, <1>2, StreamKept
  <1>3. CASE c \in subs /\ queue'[c] = Enqueue(queue[c], Len(log) + 1)
    <2>1. /\ Len(log) \in Nat
          /\ queue[c] \in Seq(0 .. Len(log))
          /\ got[c] \in SUBSET (1 .. Len(log))
      BY DEF HubTypeOK
    <2>2. Len(log) + 1 # Closing
      BY <2>1 DEF Closing
    <2>3. /\ Ordered(queue'[c], got[c])
          /\ Unclosed(queue'[c])
      BY <1>3, <2>1, <2>2, EnqueueOrder DEF StreamInv
    <2> QED
      BY <1>1, <1>3, <2>3 DEF StreamInv
  <1> QED
    BY <1>2, <1>3 DEF Publish

\* Closing the hub keeps the invariant of every client.
LEMMA CloseHubKeepsStream ==
  ASSUME HubTypeOK, log \in Seq(Events), NEW c \in Clients, StreamInv(c),
         CloseHub
  PROVE  StreamInv(c)'
  <1>1. stream' = stream /\ got' = got /\ subs' = {}
    BY DEF CloseHub
  <1>2. CASE queue'[c] = queue[c]
    BY <1>1, <1>2 DEF StreamInv
  <1>3. CASE c \in subs /\ queue'[c] = Enqueue(queue[c], Closing)
    <2>1. /\ Len(log) \in Nat
          /\ queue[c] \in Seq(0 .. Len(log))
          /\ got[c] \in SUBSET (1 .. Len(log))
      BY DEF HubTypeOK
    <2>2. Ordered(queue'[c], got[c])
      BY <1>3, <2>1, EnqueueOrder DEF StreamInv
    <2> QED
      BY <1>1, <1>3, <2>2 DEF StreamInv
  <1> QED
    BY <1>2, <1>3 DEF CloseHub

\* The order of a queue, seen from its head.
LEMMA TakeOrder ==
  ASSUME NEW L \in Nat, NEW q \in Seq(0 .. L), q # <<>>, NEW out,
         Ordered(q, out)
  PROVE  /\ Head(q) = Closing => Tail(q) = <<>>
         /\ Head(q) # Closing => Ordered(Tail(q), out \union {Head(q)})
         /\ Unclosed(q) => Head(q) # Closing /\ Unclosed(Tail(q))
  <1> DEFINE t == Tail(q)
  <1>1. /\ t \in Seq(0 .. L)
        /\ Len(t) = Len(q) - 1
        /\ \A i \in 1 .. Len(t) : t[i] = q[i + 1]
        /\ Head(q) = q[1]
        /\ Len(q) \in Nat \ {0}
    BY HeadTailProperties, EmptySeq
  <1>2. DOMAIN t = 1 .. Len(t) /\ DOMAIN q = 1 .. Len(q)
    BY <1>1
  <1> HIDE DEF t
  <1>3. 1 \in DOMAIN q
    BY <1>1, <1>2
  <1>4. ASSUME Head(q) = Closing
        PROVE  t = <<>>
    <2>1. Len(q) = 1
      BY <1>1, <1>3, <1>4 DEF Ordered
    <2> QED
      BY <1>1, <2>1, EmptySeq
  <1>5. ASSUME NEW i \in 1 .. Len(t)
        PROVE  /\ i + 1 \in DOMAIN q
               /\ t[i] = q[i + 1]
               /\ t[i] = Closing => i = Len(t)
               /\ t[i] # Closing => /\ \A sent \in out \union {Head(q)} : sent < t[i]
                                    /\ \A j \in 1 .. i - 1 : t[j] < t[i]
    <2>1. i + 1 \in DOMAIN q /\ t[i] = q[i + 1]
      BY <1>1, <1>2
    <2>2. t[i] = Closing => i = Len(t)
      <3>1. t[i] = Closing => i + 1 = Len(q)
        BY <2>1 DEF Ordered
      <3> QED
        BY <1>1, <3>1
    <2>3. ASSUME t[i] # Closing
          PROVE  /\ \A sent \in out \union {Head(q)} : sent < t[i]
                 /\ \A j \in 1 .. i - 1 : t[j] < t[i]
      <3>1. /\ \A sent \in out : sent < q[i + 1]
            /\ \A j \in 1 .. (i + 1) - 1 : q[j] < q[i + 1]
        BY <2>1, <2>3 DEF Ordered
      <3>2. 1 \in 1 .. (i + 1) - 1
        OBVIOUS
      <3>3. \A j \in 1 .. i - 1 : j \in 1 .. Len(t) /\ j + 1 \in 1 .. (i + 1) - 1
        BY <1>1
      <3> QED
        BY <1>1, <2>1, <3>1, <3>2, <3>3
    <2> QED
      BY <2>1, <2>2, <2>3
  <1>6. Head(q) # Closing => Ordered(t, out \union {Head(q)})
    BY <1>2, <1>5 DEF Ordered
  <1>7. Unclosed(q) => Head(q) # Closing /\ Unclosed(t)
    BY <1>1, <1>2, <1>3, <1>5 DEF Unclosed
  <1> QED
    BY <1>4, <1>6, <1>7 DEF t

\* A step of any client's stream keeps the invariant of every client.
LEMMA StreamStepKeepsStream ==
  ASSUME HubTypeOK, log \in Seq(Events), NEW c \in Clients, StreamInv(c),
         NEW d \in Clients, StreamStep(d)
  PROVE  StreamInv(c)'
  <1>1. CASE d # c
    <2>1. stream'[c] = stream[c] /\ queue'[c] = queue[c] /\ got'[c] = got[c]
      BY <1>1 DEF HubTypeOK, StreamStep, Open, Abandon, Take, Disconnect, EndStream
    <2>2. c \in subs' <=> c \in subs
      BY <1>1 DEF StreamStep, Open, Abandon, Take, Disconnect, EndStream
    <2> QED
      BY <2>1, <2>2, StreamKept
  <1>2. CASE d = c /\ (Open(c) \/ Abandon(c) \/ Disconnect(c))
    BY <1>2 DEF HubTypeOK, Open, Abandon, Disconnect, EndStream, StreamInv
  <1>3. CASE d = c /\ Take(c)
    <2>1. /\ Len(log) \in Nat
          /\ queue[c] \in Seq(0 .. Len(log))
          /\ queue[c] # <<>>
          /\ queue'[c] = Tail(queue[c])
          /\ stream[c] = "streaming"
      BY <1>3 DEF Take, HubTypeOK
    <2>2. /\ Head(queue[c]) = Closing => Tail(queue[c]) = <<>>
          /\ Head(queue[c]) # Closing =>
               Ordered(Tail(queue[c]), got[c] \union {Head(queue[c])})
          /\ Unclosed(queue[c]) =>
               Head(queue[c]) # Closing /\ Unclosed(Tail(queue[c]))
      BY <2>1, TakeOrder DEF StreamInv
    <2>3. CASE Head(queue[c]) = Closing
      <3>1. stream'[c] = "ended" /\ c \notin subs' /\ queue'[c] = <<>>
        BY <1>3, <2>1, <2>2, <2>3 DEF Take, EndStream, HubTypeOK
      <3> QED
        BY <3>1 DEF StreamInv, Ordered
    <2>4. CASE Head(queue[c]) # Closing
      <3>1. /\ got'[c] = got[c] \union {Head(queue[c])}
            /\ subs' = subs /\ stream' = stream
        BY <1>3, <2>4 DEF Take, HubTypeOK
      <3> QED
        BY <2>1, <2>2, <2>4, <3>1 DEF StreamInv
    <2> QED
      BY <2>3, <2>4
  <1> QED
    BY <1>1, <1>2, <1>3 DEF StreamStep

\* Every step keeps the invariant of every client.
LEMMA NextStreams ==
  ASSUME TypeOK, NEW c \in Clients, StreamInv(c), [Next]_vars
  PROVE  StreamInv(c)'
  <1>1. HubTypeOK /\ log \in Seq(Events)
    BY DEF TypeOK
  <1>2. ASSUME UNCHANGED hubVars
        PROVE  StreamInv(c)'
    BY <1>2, StreamKept DEF hubVars
  <1>3. ASSUME NEW event, Publish(event)
        PROVE  StreamInv(c)'
    BY <1>1, <1>3, PublishKeepsStream
  <1>4. ASSUME NEW m \in Messages, DispatchStep(m)
        PROVE  StreamInv(c)'
    BY <1>2, <1>3, <1>4 DEF DispatchStep, Stage, Enrich, Send, SendRefused,
       SendReturns, HandlerReturns, HandlerRaises
  <1>5. ASSUME NEW d \in Clients, Connect(d)
        PROVE  StreamInv(c)'
    <2>1. CASE d = c
      BY <1>1, <1>5, <2>1 DEF Connect, Subscribe, HubTypeOK, StreamInv, Unclosed
    <2>2. CASE d # c
      BY <1>1, <1>5, <2>2, StreamKept DEF Connect, Subscribe, HubTypeOK
    <2> QED
      BY <2>1, <2>2
  <1>6. ASSUME NEW d \in Clients, Stream(d)
        PROVE  StreamInv(c)'
    BY <1>1, <1>6, StreamStepKeepsStream DEF Stream
  <1>7. CASE ShutdownHub
    BY <1>1, <1>7, CloseHubKeepsStream DEF ShutdownHub
  <1>8. CASE \E d \in Dispatches : Accept(d)
    BY <1>2, <1>8 DEF Accept
  <1>9. CASE \E m \in Messages : RunFlush(m)
    BY <1>3, <1>9 DEF RunFlush
  <1>10. CASE \E r \in Reports : Report(r)
    BY <1>3, <1>10 DEF Report
  <1>11. CASE StartDrain \/ CancelTasks \/ UNCHANGED vars
    BY <1>2, <1>11 DEF StartDrain, CancelTasks, vars
  <1> QED
    BY <1>4, <1>5, <1>6, <1>7, <1>8, <1>9, <1>10, <1>11 DEF Next

\* The invariant of the clients holds in every behaviour.
LEMMA StreamsInvariant == Spec => [](\A c \in Clients : StreamInv(c))
  <1> DEFINE Inv == \A c \in Clients : StreamInv(c)
  <1>1. Init => Inv
    BY InitStreams
  <1>2. TypeOK /\ Inv /\ [Next]_vars => Inv'
    BY NextStreams
  <1> HIDE DEF Inv
  <1>3. Spec => []Inv
    BY <1>1, <1>2, TypeCorrect, PTL DEF Spec
  <1> QED
    BY <1>3 DEF Inv

\* Whatever the size of the queues and however slow the clients, a stream
\* reads the events in the order of their publication and none twice.
THEOREM StreamsInOrder == Spec => []InOrder
  <1>1. (\A c \in Clients : StreamInv(c)) => InOrder
    BY DEF StreamInv, Ordered, InOrder
  <1> QED
    BY <1>1, StreamsInvariant, PTL

\* A stream that ended has unsubscribed.
THEOREM EndedUnsubscribed == Spec => []NoneLeftSubscribed
  <1>1. (\A c \in Clients : StreamInv(c)) => NoneLeftSubscribed
    BY DEF StreamInv, NoneLeftSubscribed
  <1> QED
    BY <1>1, StreamsInvariant, PTL

\* Once the plugin has closed the hub nobody is subscribed, and nobody
\* subscribes any more.
THEOREM ClosedHubStaysEmpty == Spec => []ClosedHubIsEmpty
  <1>1. Init => ClosedHubIsEmpty
    BY DEF Init, HubInit, ClosedHubIsEmpty
  <1>2. ASSUME ClosedHubIsEmpty, [Next]_vars
        PROVE  ClosedHubIsEmpty'
    <2>1. ASSUME phase' = phase, subs' \subseteq subs
          PROVE  ClosedHubIsEmpty'
      BY <1>2, <2>1 DEF ClosedHubIsEmpty
    <2>2. CASE \E d \in Dispatches : Accept(d)
      BY <2>1, <2>2 DEF Accept, hubVars
    <2>3. CASE \E m \in Messages : DispatchStep(m)
      BY <2>1, <2>3 DEF DispatchStep, Stage, Enrich, Send, SendRefused,
         SendReturns, HandlerReturns, HandlerRaises, Publish, hubVars
    <2>4. CASE \E m \in Messages : RunFlush(m)
      BY <2>1, <2>4 DEF RunFlush, Publish
    <2>5. CASE \E r \in Reports : Report(r)
      BY <2>1, <2>5 DEF Report, Publish
    <2>6. CASE \E c \in Clients : Connect(c)
      BY <2>6 DEF Connect, ClosedHubIsEmpty, scopeVars
    <2>7. CASE \E c \in Clients : Stream(c)
      BY <2>1, <2>7 DEF Stream, StreamStep, Open, Abandon, Take, Disconnect,
         EndStream, scopeVars
    <2>8. CASE StartDrain \/ CancelTasks
      BY <2>8 DEF StartDrain, CancelTasks, ClosedHubIsEmpty
    <2>9. CASE ShutdownHub
      BY <2>9 DEF ShutdownHub, CloseHub, ClosedHubIsEmpty
    <2>10. CASE UNCHANGED vars
      BY <2>1, <2>10 DEF vars, hubVars, scopeVars
    <2> QED
      BY <1>2, <2>2, <2>3, <2>4, <2>5, <2>6, <2>7, <2>8, <2>9, <2>10 DEF Next
  <1> QED
    BY <1>1, <1>2, PTL DEF Spec

-----------------------------------------------------------------------------
(* What a full queue gives up.                                              *)

Due(c) == {i \in since[c] + 1 .. Len(log) : Matches(c, log[i])}

Missed(c) == Due(c) \ (got[c] \union Range(queue[c]))

OldestInv(c) ==
    c \in subs =>
        \A i \in Missed(c) : /\ \A j \in Range(queue[c]) : i < j
                             /\ \E j \in Due(c) \ Missed(c) : i < j

\* Appending an element to a sequence adds it to the sequence's elements.
LEMMA RangeOfAppend ==
  ASSUME NEW S, NEW q \in Seq(S), NEW x \in S
  PROVE  Range(Append(q, x)) = Range(q) \union {x}
  <1>1. /\ DOMAIN q = 1 .. Len(q) /\ Len(q) \in Nat
        /\ DOMAIN Append(q, x) = 1 .. Len(q) + 1
        /\ \A i \in 1 .. Len(q) : Append(q, x)[i] = q[i]
        /\ Append(q, x)[Len(q) + 1] = x
    OBVIOUS
  <1> QED
    BY <1>1 DEF Range

\* A sequence's elements are its head and those of its tail.
LEMMA RangeOfTail ==
  ASSUME NEW S, NEW q \in Seq(S), q # <<>>
  PROVE  /\ Range(q) = {Head(q)} \union Range(Tail(q))
         /\ Head(q) \in S
         /\ Tail(q) \in Seq(S)
  <1> DEFINE t == Tail(q)
  <1>1. /\ t \in Seq(S)
        /\ Len(t) = Len(q) - 1
        /\ \A i \in 1 .. Len(t) : t[i] = q[i + 1]
        /\ Head(q) = q[1]
        /\ Head(q) \in S
        /\ Len(q) \in Nat \ {0}
    BY HeadTailProperties, EmptySeq
  <1>2. DOMAIN t = 1 .. Len(t) /\ DOMAIN q = 1 .. Len(q)
    BY <1>1
  <1> HIDE DEF t
  <1>3. \A i \in 1 .. Len(q) : i = 1 \/ i - 1 \in 1 .. Len(t)
    BY <1>1
  <1>4. ASSUME NEW v \in Range(q)
        PROVE  v \in {Head(q)} \union Range(t)
    <2>1. PICK i \in 1 .. Len(q) : v = q[i]
      BY <1>2 DEF Range
    <2>2. CASE i = 1
      BY <1>1, <2>1, <2>2
    <2>3. CASE i # 1
      <3>1. i - 1 \in 1 .. Len(t) /\ t[i - 1] = q[(i - 1) + 1]
        BY <1>1, <1>3, <2>3
      <3>2. (i - 1) + 1 = i
        BY <1>1
      <3> QED
        BY <1>2, <2>1, <3>1, <3>2 DEF Range
    <2> QED
      BY <2>2, <2>3
  <1>5. ASSUME NEW v \in Range(t)
        PROVE  v \in Range(q)
    <2>1. PICK i \in 1 .. Len(t) : v = t[i]
      BY <1>2 DEF Range
    <2>2. i + 1 \in 1 .. Len(q)
      BY <1>1
    <2> QED
      BY <1>1, <1>2, <2>1, <2>2 DEF Range
  <1>6. Head(q) \in Range(q)
    BY <1>1, <1>2 DEF Range
  <1> QED
    BY <1>1, <1>4, <1>5, <1>6 DEF t

\* What is due to a client after one more event was published.
LEMMA DueAfter ==
  ASSUME HubTypeOK, log \in Seq(Events), NEW c \in Clients,
         NEW event \in Events, Publish(event)
  PROVE  /\ Matches(c, event) => Due(c)' = Due(c) \union {Len(log) + 1}
         /\ ~ Matches(c, event) => Due(c)' = Due(c)
         /\ \A i \in Due(c) : i < Len(log) + 1
  <1>1. /\ Len(log) \in Nat
        /\ Len(log') = Len(log) + 1
        /\ \A i \in 1 .. Len(log) : log'[i] = log[i]
        /\ log'[Len(log) + 1] = event
    BY DEF Publish
  <1>2. since[c] \in 0 .. Len(log) /\ since'[c] = since[c]
    BY DEF HubTypeOK, Publish
  <1>3. Due(c)' = {i \in since[c] + 1 .. Len(log) + 1 : Matches(c, log'[i])}
    BY <1>1, <1>2 DEF Due
  <1>4. \A i : i \in since[c] + 1 .. Len(log) + 1 <=>
               i \in since[c] + 1 .. Len(log) \/ i = Len(log) + 1
    BY <1>1, <1>2
  <1>5. \A i \in since[c] + 1 .. Len(log) : i \in 1 .. Len(log) /\ i < Len(log) + 1
    BY <1>1, <1>2
  <1> QED
    BY <1>1, <1>3, <1>4, <1>5 DEF Due

\* A step that moves events only from a client's queue to its stream keeps
\* what is due to the client.
LEMMA OldestKept ==
  ASSUME NEW c \in Clients, OldestInv(c), c \in subs' => c \in subs,
         log' = log, since'[c] = since[c],
         got'[c] \union Range(queue'[c]) = got[c] \union Range(queue[c]),
         Range(queue'[c]) \subseteq Range(queue[c])
  PROVE  OldestInv(c)'
  <1>1. Due(c)' = Due(c)
    BY DEF Due
  <1>2. Missed(c)' = Missed(c)
    BY <1>1 DEF Missed
  <1> QED
    BY <1>1, <1>2 DEF OldestInv

\* Publishing drops nothing but the oldest event of a full queue.
LEMMA PublishKeepsOldest ==
  ASSUME HubTypeOK, log \in Seq(Events), NEW c \in Clients,
         StreamInv(c), OldestInv(c), NEW event \in Events, Publish(event)
  PROVE  OldestInv(c)'
  <1>1. /\ subs' = subs /\ got' = got /\ since' = since
        /\ queue'[c] = IF c \in subs /\ Matches(c, event)
                       THEN Enqueue(queue[c], Len(log) + 1)
                       ELSE queue[c]
    BY DEF Publish
  <1>2. /\ Matches(c, event) => Due(c)' = Due(c) \union {Len(log) + 1}
        /\ ~ Matches(c, event) => Due(c)' = Due(c)
        /\ \A i \in Due(c) : i < Len(log) + 1
    BY DueAfter
  <1>3. Missed(c)' = Due(c)' \ (got[c] \union Range(queue'[c]))
    BY <1>1 DEF Missed
  <1>4. CASE c \notin subs
    BY <1>1, <1>4 DEF OldestInv
  <1>5. CASE ~ Matches(c, event)
    <2>1. Missed(c)' = Missed(c) /\ Due(c)' = Due(c) /\ queue'[c] = queue[c]
      BY <1>1, <1>2, <1>3, <1>5 DEF Missed
    <2> QED
      BY <1>1, <2>1 DEF OldestInv
  <1>6. CASE c \in subs /\ Matches(c, event)
    <2> DEFINE q == queue[c]
               top == Len(log) + 1
    <2>1. /\ q \in Seq(0 .. top)
          /\ Unclosed(q)
          /\ Ordered(q, got[c])
          /\ top \in 0 .. top
      <3>1. q \in Seq(0 .. Len(log)) /\ Len(log) \in Nat
        BY DEF HubTypeOK
      <3>2. 0 .. Len(log) \subseteq 0 .. top /\ top \in 0 .. top
        BY <3>1
      <3> QED
        BY <1>6, <3>1, <3>2, SeqMonotonic DEF StreamInv
    <2>2. /\ Due(c)' = Due(c) \union {top}
          /\ \A i \in Due(c) : i < top
          /\ queue'[c] = Enqueue(q, top)
      BY <1>1, <1>2, <1>6
    <2> HIDE DEF q, top
    <2>3. Missed(c) = Due(c) \ (got[c] \union Range(q))
      BY DEF Missed, q
    <2>4. \A i \in Missed(c) : /\ \A j \in Range(q) : i < j
                               /\ \E j \in Due(c) \ Missed(c) : i < j
      BY <1>6 DEF OldestInv, q
    <2>5. CASE Len(q) < QueueSize
      <3>1. Range(queue'[c]) = Range(q) \union {top}
        BY <2>1, <2>2, <2>5, RangeOfAppend DEF Enqueue
      <3>2. Missed(c)' \subseteq Missed(c) /\ top \notin Missed(c)'
        BY <1>3, <2>2, <2>3, <3>1
      <3>3. \A i \in Missed(c)' : i < top
        BY <2>2, <2>3, <3>2
      <3>4. \A i \in Missed(c)' : \A j \in Range(queue'[c]) : i < j
        BY <2>4, <3>1, <3>2, <3>3
      <3> QED
        BY <2>2, <3>2, <3>3, <3>4 DEF OldestInv
    <2>6. CASE ~ Len(q) < QueueSize
      <3>1. q # <<>>
        BY <2>6, QueueAssumption
      <3>2. /\ Range(q) = {Head(q)} \union Range(Tail(q))
            /\ Tail(q) \in Seq(0 .. top)
        BY <2>1, <3>1, RangeOfTail
      <3>3. Range(queue'[c]) = Range(Tail(q)) \union {top}
        <4> DEFINE t == Tail(q)
        <4>1. queue'[c] = Append(t, top)
          BY <2>2, <2>6 DEF Enqueue
        <4>2. t \in Seq(0 .. top)
          BY <3>2
        <4> HIDE DEF t
        <4>3. Range(Append(t, top)) = Range(t) \union {top}
          BY <2>1, <4>2, RangeOfAppend
        <4> QED
          BY <4>1, <4>3 DEF t
      <3>4. \A j \in Range(Tail(q)) : Head(q) < j
        <4>1. Head(q) # Closing /\ Unclosed(Tail(q))
              /\ Ordered(Tail(q), got[c] \union {Head(q)})
          <5>1. top \in Nat
            BY DEF top
          <5> QED
            BY <2>1, <3>1, <5>1, TakeOrder
        <4> QED
          BY <4>1 DEF Ordered, Unclosed, Range
      <3>5. /\ Missed(c)' \subseteq Missed(c) \union ({Head(q)} \cap Due(c))
            /\ top \notin Missed(c)'
        BY <1>3, <2>2, <2>3, <3>2, <3>3
      <3>6. \A i \in Missed(c)' : i < top
        BY <2>2, <2>3, <3>5
      <3>7. \A i \in Missed(c)' : \A j \in Range(queue'[c]) : i < j
        BY <2>4, <3>2, <3>3, <3>4, <3>5, <3>6
      <3> QED
        BY <2>2, <3>5, <3>6, <3>7 DEF OldestInv
    <2> QED
      BY <2>5, <2>6
  <1> QED
    BY <1>4, <1>5, <1>6

\* A step of any client's stream drops nothing that is due to a client.
LEMMA StreamStepKeepsOldest ==
  ASSUME HubTypeOK, log \in Seq(Events), NEW c \in Clients,
         StreamInv(c), OldestInv(c), NEW d \in Clients, StreamStep(d)
  PROVE  OldestInv(c)'
  <1>1. log' = log /\ since' = since /\ subs' \subseteq subs
    BY DEF StreamStep, Open, Abandon, Take, Disconnect, EndStream
  <1>2. CASE queue'[c] = queue[c] /\ got'[c] = got[c]
    BY <1>1, <1>2, OldestKept
  <1>3. CASE d = c /\ Take(c) /\ c \in subs
    <2>1. /\ queue[c] \in Seq(0 .. Len(log)) /\ queue[c] # <<>>
          /\ queue'[c] = Tail(queue[c])
          /\ Len(log) \in Nat
      BY <1>3 DEF Take, HubTypeOK
    <2>2. Head(queue[c]) # Closing
      BY <1>3, <2>1, TakeOrder DEF StreamInv
    <2>3. got'[c] = got[c] \union {Head(queue[c])}
      BY <1>3, <2>2 DEF Take, HubTypeOK
    <2>4. Range(queue[c]) = {Head(queue[c])} \union Range(Tail(queue[c]))
      BY <2>1, RangeOfTail
    <2> QED
      BY <1>1, <2>1, <2>3, <2>4, OldestKept
  <1>4. CASE c \notin subs
    BY <1>1, <1>4 DEF OldestInv
  <1>5. (d = c /\ Take(c)) \/ (queue'[c] = queue[c] /\ got'[c] = got[c])
    BY DEF StreamStep, Open, Abandon, Take, Disconnect, HubTypeOK
  <1> QED
    BY <1>2, <1>3, <1>4, <1>5

\* Every step keeps what is due to a subscribed client.
LEMMA NextOldest ==
  ASSUME TypeOK, NEW c \in Clients, StreamInv(c), OldestInv(c), [Next]_vars
  PROVE  OldestInv(c)'
  <1>1. HubTypeOK /\ log \in Seq(Events)
    BY DEF TypeOK
  <1>2. ASSUME UNCHANGED hubVars
        PROVE  OldestInv(c)'
    BY <1>2, OldestKept DEF hubVars
  <1>3. ASSUME NEW type \in {"incoming", "outgoing", "report"},
               NEW d \in Dispatches, Publish(Event(type, d))
        PROVE  OldestInv(c)'
    BY <1>1, <1>3, EventTyped, PublishKeepsOldest
  <1>4. ASSUME NEW m \in Messages, DispatchStep(m)
        PROVE  OldestInv(c)'
    <2>1. UNCHANGED hubVars \/ Publish(Event("outgoing", m))
      BY <1>4 DEF DispatchStep, Stage, Enrich, Send, SendRefused,
         SendReturns, HandlerReturns, HandlerRaises
    <2> QED
      BY <1>2, <1>3, <2>1 DEF Dispatches
  <1>5. ASSUME NEW d \in Clients, Connect(d)
        PROVE  OldestInv(c)'
    <2>1. UNCHANGED <<queue, log, got>> /\ since' = [since EXCEPT ![d] = Len(log)]
          /\ subs' = subs \union {d}
      BY <1>5 DEF Connect, Subscribe
    <2>2. CASE d = c
      <3>1. since'[c] = Len(log) /\ Len(log) \in Nat
        BY <1>1, <2>1, <2>2 DEF HubTypeOK
      <3>2. Due(c)' = {}
        BY <2>1, <3>1 DEF Due
      <3> QED
        BY <3>2 DEF OldestInv, Missed
    <2>3. CASE d # c
      <3>1. since'[c] = since[c]
        BY <1>1, <2>1, <2>3 DEF HubTypeOK
      <3> QED
        BY <2>1, <2>3, <3>1, OldestKept
    <2> QED
      BY <2>2, <2>3
  <1>6. ASSUME NEW d \in Clients, Stream(d)
        PROVE  OldestInv(c)'
    BY <1>1, <1>6, StreamStepKeepsOldest DEF Stream
  <1>7. CASE ShutdownHub
    BY <1>7 DEF ShutdownHub, CloseHub, OldestInv
  <1>8. CASE \E d \in Dispatches : Accept(d)
    BY <1>2, <1>8 DEF Accept
  <1>9. CASE \E m \in Messages : RunFlush(m)
    BY <1>3, <1>9 DEF RunFlush, Dispatches
  <1>10. CASE \E r \in Reports : Report(r)
    BY <1>3, <1>10 DEF Report, Dispatches
  <1>11. CASE StartDrain \/ CancelTasks \/ UNCHANGED vars
    BY <1>2, <1>11 DEF StartDrain, CancelTasks, vars
  <1> QED
    BY <1>4, <1>5, <1>6, <1>7, <1>8, <1>9, <1>10, <1>11 DEF Next

\* A subscriber loses events only to an overflow of its queue, the oldest
\* first, for queues of any size and any number of publishers.
THEOREM OverflowDropsOldest == Spec => []OnlyOldestMissed
  <1> DEFINE Streams == \A c \in Clients : StreamInv(c)
             Inv == \A c \in Clients : OldestInv(c)
  <1>1. Init => Inv
    BY DEF Init, HubInit, OldestInv
  <1>2. TypeOK /\ Streams /\ Inv /\ [Next]_vars => Inv'
    BY NextOldest
  <1>3. TypeOK /\ Inv => OnlyOldestMissed
    BY DEF OldestInv, Missed, Due, OnlyOldestMissed, TypeOK, HubTypeOK
  <1>4. Spec => []Streams
    BY StreamsInvariant
  <1> HIDE DEF Streams, Inv
  <1> QED
    BY <1>1, <1>2, <1>3, <1>4, TypeCorrect, PTL DEF Spec

-----------------------------------------------------------------------------
(* The safety halves of StreamsEnd and of HandledIsReported.                *)

\* A stream that is open is subscribed, or finds the closing event last in its
\* queue: the overflow of a full queue gives up another event for it, and
\* nothing is put behind it.
Told(c) ==
    stream[c] \in {"opened", "streaming"} =>
        IF phase = "closed"
        THEN queue[c] # <<>> /\ queue[c][Len(queue[c])] = Closing
        ELSE c \in subs

OpenStreamsAreTold == \A c \in Clients : Told(c)

\* The events that are left after one was taken end as they did before.
LEMMA LastStays ==
  ASSUME NEW S, NEW q \in Seq(S), q # <<>>, Len(q) # 1
  PROVE  /\ Tail(q) # <<>>
         /\ Tail(q)[Len(Tail(q))] = q[Len(q)]
  <1> DEFINE t == Tail(q)
  <1>1. /\ t \in Seq(S)
        /\ Len(t) = Len(q) - 1
        /\ \A i \in 1 .. Len(t) : t[i] = q[i + 1]
        /\ Len(q) \in Nat /\ Len(q) # 0
    BY HeadTailProperties, EmptySeq
  <1> HIDE DEF t
  <1>2. Len(t) \in 1 .. Len(t) /\ Len(t) + 1 = Len(q)
    BY <1>1
  <1>3. t # <<>>
    BY <1>1, <1>2, EmptySeq
  <1> QED
    BY <1>1, <1>2, <1>3 DEF t

\* A step that leaves a client's stream alone, and while the hub is closed its
\* queue, or otherwise its subscription.
LEMMA ToldKept ==
  ASSUME NEW c \in Clients, Told(c), phase' = "closed" <=> phase = "closed",
         stream'[c] = stream[c],
         phase = "closed" => queue'[c] = queue[c],
         phase # "closed" /\ c \in subs => c \in subs'
  PROVE  Told(c)'
  BY DEF Told

\* A step of a stream: the one that takes the closing event ends.
LEMMA StreamStepTells ==
  ASSUME TypeOK, NEW c \in Clients, Told(c), NEW d \in Clients, StreamStep(d),
         phase' = phase
  PROVE  Told(c)'
  <1>1. HubTypeOK
    BY DEF TypeOK
  <1>2. CASE d # c
    <2>1. /\ stream'[c] = stream[c] /\ queue'[c] = queue[c]
          /\ c \in subs => c \in subs'
      BY <1>1, <1>2 DEF HubTypeOK, StreamStep, Open, Abandon, Take,
                        Disconnect, EndStream
    <2> QED
      BY <2>1, ToldKept
  <1>3. CASE d = c /\ (Open(c) \/ Abandon(c) \/ Disconnect(c))
    BY <1>1, <1>3 DEF HubTypeOK, Open, Abandon, Disconnect, EndStream, Told
  <1>4. CASE d = c /\ Take(c)
    <2>1. /\ stream[c] = "streaming"
          /\ queue[c] \in Seq(0 .. Len(log)) /\ queue[c] # <<>>
          /\ queue'[c] = Tail(queue[c])
      BY <1>1, <1>4 DEF Take, HubTypeOK
    <2>2. CASE Head(queue[c]) = Closing
      BY <1>1, <1>4, <2>2 DEF Take, EndStream, HubTypeOK, Told
    <2>3. CASE Head(queue[c]) # Closing
      <3>1. stream' = stream /\ subs' = subs
        BY <1>4, <2>3 DEF Take
      <3>2. CASE phase # "closed"
        BY <3>1, <3>2, ToldKept
      <3>3. CASE phase = "closed"
        <4>1. queue[c][Len(queue[c])] = Closing
          BY <2>1, <3>3 DEF Told
        <4>2. Head(queue[c]) = queue[c][1]
          BY <2>1
        <4>3. Len(queue[c]) # 1
          BY <2>3, <4>1, <4>2
        <4> QED
          BY <2>1, <3>1, <3>3, <4>1, <4>3, LastStays DEF Told
      <3> QED
        BY <3>2, <3>3
    <2> QED
      BY <2>2, <2>3
  <1> QED
    BY <1>2, <1>3, <1>4 DEF StreamStep

\* Every step keeps what an open stream is told.
LEMMA NextTold ==
  ASSUME TypeOK, ClosedHubIsEmpty, NEW c \in Clients, Told(c), [Next]_vars
  PROVE  Told(c)'
  <1>1. HubTypeOK
    BY DEF TypeOK
  <1>2. ASSUME UNCHANGED hubVars, phase' = phase
        PROVE  Told(c)'
    BY <1>2, ToldKept DEF hubVars
  <1>3. ASSUME NEW event, Publish(event), phase' = phase
        PROVE  Told(c)'
    <2>1. stream' = stream /\ subs' = subs
      BY <1>3 DEF Publish
    <2>2. phase = "closed" => queue'[c] = queue[c]
      BY <1>3 DEF ClosedHubIsEmpty, Publish
    <2> QED
      BY <1>3, <2>1, <2>2, ToldKept
  <1>4. ASSUME NEW m \in Messages, DispatchStep(m)
        PROVE  Told(c)'
    BY <1>2, <1>3, <1>4 DEF DispatchStep, Stage, Enrich, Send, SendRefused,
       SendReturns, HandlerReturns, HandlerRaises
  <1>5. ASSUME NEW d \in Clients, Connect(d)
        PROVE  Told(c)'
    BY <1>1, <1>5 DEF Connect, Subscribe, HubTypeOK, Told, scopeVars
  <1>6. ASSUME NEW d \in Clients, Stream(d)
        PROVE  Told(c)'
    BY <1>6, StreamStepTells DEF Stream, scopeVars
  <1>7. CASE ShutdownHub
    <2>1. phase # "closed" /\ phase' = "closed" /\ stream' = stream
      BY <1>7 DEF ShutdownHub, CloseHub
    <2>2. ASSUME c \in subs
          PROVE  queue'[c] # <<>> /\ queue'[c][Len(queue'[c])] = Closing
      <3> DEFINE q == queue[c]
                 S == 0 .. Len(log)
      <3>1. q \in Seq(S) /\ Closing \in S /\ queue'[c] = Enqueue(q, Closing)
        BY <1>1, <1>7, <2>2 DEF HubTypeOK, TypeOK, ShutdownHub, CloseHub, Closing
      <3> HIDE DEF q, S
      <3>2. /\ Enqueue(q, Closing) \in Seq(S)
            /\ Shift(q) \in {0, 1} /\ Len(q) >= Shift(q)
            /\ Len(Enqueue(q, Closing)) = Len(q) + 1 - Shift(q)
            /\ Enqueue(q, Closing)[Len(Enqueue(q, Closing))] = Closing
        BY <3>1, EnqueueShifts
      <3>3. Len(q) \in Nat
        BY <3>1
      <3>4. Len(Enqueue(q, Closing)) # 0
        BY <3>2, <3>3
      <3> QED
        BY <3>1, <3>2, <3>4, EmptySeq
    <2> QED
      BY <2>1, <2>2 DEF Told
  <1>8. CASE \E d \in Dispatches : Accept(d)
    BY <1>2, <1>8 DEF Accept
  <1>9. CASE \E m \in Messages : RunFlush(m)
    BY <1>3, <1>9 DEF RunFlush
  <1>10. CASE \E r \in Reports : Report(r)
    BY <1>3, <1>10 DEF Report
  <1>11. CASE StartDrain \/ CancelTasks
    <2>1. /\ UNCHANGED hubVars
          /\ phase # "closed" /\ phase' # "closed"
      BY <1>11 DEF StartDrain, CancelTasks
    <2> QED
      BY <2>1, ToldKept DEF hubVars
  <1>12. CASE UNCHANGED vars
    BY <1>2, <1>12 DEF vars, scopeVars
  <1> QED
    BY <1>4, <1>5, <1>6, <1>7, <1>8, <1>9, <1>10, <1>11, <1>12 DEF Next

\* However full the queues and whatever is published around the shutdown, no
\* stream stays open with nothing to tell it that the hub has closed.
THEOREM ClosingReachesStreams == Spec => []OpenStreamsAreTold
  <1>1. Init => OpenStreamsAreTold
    BY DEF Init, HubInit, OpenStreamsAreTold, Told
  <1>2. TypeOK /\ ClosedHubIsEmpty /\ OpenStreamsAreTold /\ [Next]_vars
          => OpenStreamsAreTold'
    BY NextTold DEF OpenStreamsAreTold
  <1> QED
    BY <1>1, <1>2, TypeCorrect, ClosedHubStaysEmpty, PTL DEF Spec

-----------------------------------------------------------------------------
\* Where the flush of a message can be, and when it is dropped.
FlushInv(m) ==
    /\ pc[m] = "done" => flush[m] # "none"
    /\ flush[m] = "lost" => phase # "serving"
    /\ flush[m] = "ready" => phase \in {"serving", "draining"}

\* A message whose handler has ended is published, or its flush waits for its
\* turn while the shutdown can still wait for it, or the drain dropped it.
HandledIsUnderWay ==
    \A m \in Messages : pc[m] = "done" =>
        \/ Places("incoming", m) # {}
        \/ flush[m] = "ready" /\ phase \in {"serving", "draining"}
        \/ flush[m] = "lost" /\ phase # "serving"

\* Every step keeps where a flush can be.
LEMMA NextFlush ==
  ASSUME TypeOK, NEW m \in Messages, MessageInv(m), FlushInv(m), [Next]_vars
  PROVE  FlushInv(m)'
  <1> USE DEF GoTo
  <1>1. /\ pc \in [Dispatches -> {"new", "tracked", "body", "sending",
                                  "done", "failed"}]
        /\ pending \in [Messages -> BOOLEAN]
        /\ flush \in [Messages -> {"none", "ready", "done", "lost"}]
        /\ phase \in {"serving", "draining", "cancelled", "closed"}
        /\ m \in Dispatches
    BY DEF TypeOK, Dispatches
  <1>2. ASSUME pc'[m] = pc[m], flush'[m] = flush[m], phase' = phase
        PROVE  FlushInv(m)'
    BY <1>2 DEF FlushInv
  <1>3. ASSUME NEW d \in Dispatches, Accept(d)
        PROVE  FlushInv(m)'
    BY <1>1, <1>3 DEF Accept, FlushInv
  <1>4. ASSUME NEW n \in Messages, n # m, DispatchStep(n)
        PROVE  FlushInv(m)'
    <2>1. pc'[m] = pc[m] /\ flush'[m] = flush[m] /\ phase' = phase
      BY <1>1, <1>4 DEF DispatchStep, Stage, Enrich, Send, SendRefused,
         SendReturns, HandlerReturns, HandlerRaises, BeginSend, FlushIncoming
    <2> QED
      BY <1>2, <2>1
  <1>5. ASSUME FlushIncoming(m), phase' = phase, pc[m] = "body"
        PROVE  FlushInv(m)'
    <2>1. /\ pending[m] => flush'[m] = IF phase = "serving" THEN "ready" ELSE "lost"
          /\ ~ pending[m] => flush'[m] = flush[m]
      BY <1>1, <1>5 DEF FlushIncoming
    <2>2. flush'[m] # "none"
      BY <1>5, <2>1 DEF MessageInv
    <2> QED
      BY <1>5, <2>1, <2>2 DEF FlushInv
  <1>6. CASE DispatchStep(m)
    <2>1. CASE Enrich(m) \/ Send(m) \/ SendRefused(m) \/ HandlerReturns(m)
      BY <1>5, <2>1 DEF Enrich, Send, SendRefused, HandlerReturns, BeginSend
    <2>2. CASE Stage(m) \/ SendReturns(m) \/ HandlerRaises(m)
      BY <1>1, <2>2 DEF Stage, SendReturns, HandlerRaises, FlushInv
    <2> QED
      BY <1>6, <2>1, <2>2 DEF DispatchStep
  <1>7. ASSUME NEW n \in Messages, RunFlush(n)
        PROVE  FlushInv(m)'
    BY <1>1, <1>7 DEF RunFlush, FlushInv
  <1>8. ASSUME NEW r \in Reports, Report(r)
        PROVE  FlushInv(m)'
    <2>1. r # m
      BY KindsAssumption
    <2> QED
      BY <1>1, <1>2, <1>8, <2>1 DEF Report
  <1>9. CASE \E c \in Clients : Connect(c) \/ Stream(c)
    BY <1>2, <1>9 DEF Connect, Stream, scopeVars
  <1>10. CASE StartDrain
    BY <1>10 DEF StartDrain, FlushInv
  <1>11. CASE CancelTasks
    <2>1. PICK stubborn \in SUBSET {d \in Running : pc[d] # "tracked"} :
            pc' = [d \in Dispatches |->
                     CASE d \in stubborn -> "body"
                       [] d \in Running \ stubborn -> "failed"
                       [] OTHER -> pc[d]]
      BY <1>11 DEF CancelTasks
    <2>2. pc'[m] = pc[m] \/ pc'[m] \in {"failed", "body"}
      BY <1>1, <2>1
    <2>3. /\ flush'[m] = IF flush[m] = "ready" THEN "lost" ELSE flush[m]
          /\ phase' = "cancelled"
      BY <1>11 DEF CancelTasks
    <2> QED
      BY <2>2, <2>3 DEF FlushInv
  <1>12. CASE ShutdownHub
    BY <1>12 DEF ShutdownHub, FlushInv
  <1>13. CASE UNCHANGED vars
    BY <1>2, <1>13 DEF vars, scopeVars
  <1> QED
    BY <1>3, <1>4, <1>6, <1>7, <1>8, <1>9, <1>10, <1>11, <1>12, <1>13 DEF Next

\* No handler ends, by whatever way, with the event of its message neither
\* published nor on its way, unless the shutdown took it.
THEOREM HandledNotForgotten == Spec => []HandledIsUnderWay
  <1> DEFINE Captured == \A m \in Messages : MessageInv(m)
             Inv == \A m \in Messages : FlushInv(m)
  <1>1. Init => Inv
    BY DEF Init, FlushInv, Dispatches
  <1>2. TypeOK /\ Captured /\ Inv /\ [Next]_vars => Inv'
    BY NextFlush
  <1>3. TypeOK /\ Captured /\ Inv => HandledIsUnderWay
    BY DEF TypeOK, MessageInv, FlushInv, HandledIsUnderWay
  <1>4. Spec => []Captured
    BY MessagesInvariant
  <1> HIDE DEF Captured, Inv
  <1> QED
    BY <1>1, <1>2, <1>3, <1>4, TypeCorrect, PTL DEF Spec
=============================================================================
