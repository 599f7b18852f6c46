---------------------------- MODULE Shutdown_proofs ----------------------------
(***************************************************************************)
(* Proofs about Shutdown, for any pieces of work, inboxes and number of    *)
(* clients: its types, that the shutdown leaves no HTTP client open, that  *)
(* resources are closed under no task but cancelled ones, and that nobody  *)
(* gets a messenger from a draining runtime.                               *)
(***************************************************************************)
EXTENDS Shutdown, TLAPS

\* The clients: those that are open are the two the lifecycle knows, and
\* close() goes through them in its order.
ClientsKnown ==
    \A c \in 1..made : c \in closed \/ c = session \/ c = media

ClosingInOrder ==
    /\ closing # "no" => draining
    /\ closing # "no" => ~Live(media)
    /\ closing \in {"session", "done"} => media = 0 /\ ~Live(session)
    /\ closing = "done" => session = 0

\* The hooks: both parts refuse from the first one on, drain() waits for
\* every task, and the tasks it leaves are cancelled.
HooksInOrder ==
    /\ hook # "serving" => draining /\ refusing
    /\ hook \in {"drain", "cancel"} => Tasks \subseteq pending
    /\ hook \in {"cancel", "infra", "core", "down"} =>
          \A p \in Callers : work[p] # "tracked"
    /\ ~infra \/ closing # "no" => hook \in {"core", "down"}

IInv == TypeOK /\ ClientsKnown /\ ClosingInOrder /\ HooksInOrder

-----------------------------------------------------------------------------
(* Types.                                                                  *)

\* The value of a caller that makes no call is a call.
LEMMA IdleIsCall == Idle \in Call
  BY SessionAssumption DEF Idle, Call

\* The value of an empty cache entry is a messenger.
LEMMA NoMessengerIsMessenger == NoMessenger \in Messenger
  BY SessionAssumption DEF NoMessenger, Messenger

\* The initial state is well typed.
LEMMA InitTypes == Init => TypeOK
  <1> SUFFICES ASSUME Init PROVE TypeOK
    OBVIOUS
  <1>1. /\ cache \in [Inboxes -> Messenger]
        /\ held \in [Callers -> Messenger]
    BY NoMessengerIsMessenger DEF Init, SessionInit
  <1>2. call \in [Callers -> Call]
    BY IdleIsCall DEF Init, SessionInit
  <1>3. /\ made \in 0..MaxClients
        /\ session \in 0..made
        /\ media \in 0..made
        /\ closed \subseteq 1..made
    BY SessionAssumption DEF Init, SessionInit
  <1>4. SessionTypeOK
    BY <1>1, <1>2, <1>3 DEF Init, SessionInit, SessionTypeOK
  <1> QED
    BY <1>4 DEF Init, TypeOK, Works, Hooks

\* A coroutine that asks for a messenger keeps the types of the lifecycle.
LEMMA AskTypes ==
  ASSUME SessionTypeOK, NEW p \in Callers, Ask(p)
  PROVE  SessionTypeOK'
  <1> USE DEF SessionTypeOK
  <1>1. ASSUME NEW i \in Inboxes, HitCache(p, i) \/ Evict(p, i) PROVE SessionTypeOK'
    <2>1. CASE HitCache(p, i)
      BY <2>1 DEF HitCache
    <2>2. CASE Evict(p, i)
      BY <2>2, NoMessengerIsMessenger DEF Evict
    <2> QED
      BY <1>1, <2>1, <2>2
  <1>2. ASSUME NEW i \in Inboxes, NEW shared \in BOOLEAN, StartMessenger(p, i, shared)
        PROVE SessionTypeOK'
    <2>1. session \in 0..MaxClients
      BY SessionAssumption
    <2>2. [pc |-> "building", inbox |-> i, shared |-> shared, session |-> session]
             \in Call
      BY <2>1 DEF Call
    <2> QED
      BY <1>2, <2>2 DEF StartMessenger
  <1>3. CASE FinishMessenger(p)
    <2> DEFINE m == [session |-> call[p].session, media |-> media']
    <2>1. /\ made' \in 0..MaxClients /\ made <= made'
          /\ session' \in 0..made' /\ media' \in 0..made'
      BY <1>3, SessionAssumption DEF FinishMessenger, AskMedia
    <2>2. closed' \subseteq 1..made'
      BY <1>3, <2>1, SessionAssumption DEF FinishMessenger, AskMedia
    <2>3. m \in Messenger
      BY <1>3, <2>1, SessionAssumption DEF Call, Messenger
    <2>4. cache' \in [Inboxes -> Messenger] /\ held' \in [Callers -> Messenger]
      BY <1>3, <2>3 DEF FinishMessenger, AskMedia, Call
    <2> QED
      BY <1>3, <2>1, <2>2, <2>4, IdleIsCall DEF FinishMessenger, AskMedia
  <1>4. CASE RefuseMessenger(p)
    BY <1>4, IdleIsCall DEF RefuseMessenger
  <1> QED
    BY <1>1, <1>2, <1>3, <1>4 DEF Ask

\* What comes from outside and what close() does.
LEMMA OwnerTypes ==
  ASSUME SessionTypeOK,
         \/ LoseSession \/ Recreate \/ BeginSessionDrain
         \/ CloseMedia \/ CloseSession \/ Closed \/ CloseBreaks
  PROVE  SessionTypeOK'
  <1> USE SessionAssumption DEF SessionTypeOK
  <1>1. CASE LoseSession
    <2>1. session \in 1..made
      BY <1>1 DEF LoseSession, Live
    <2> QED
      BY <1>1, <2>1 DEF LoseSession
  <1>2. CASE Recreate
    BY <1>2 DEF Recreate
  <1>3. CASE BeginSessionDrain
    BY <1>3 DEF BeginSessionDrain
  <1>4. CASE CloseMedia
    BY <1>4 DEF CloseMedia, Live
  <1>5. CASE CloseSession
    BY <1>5 DEF CloseSession, Live
  <1>6. CASE Closed
    BY <1>6 DEF Closed
  <1>7. CASE CloseBreaks
    BY <1>7 DEF CloseBreaks
  <1> QED
    BY <1>1, <1>2, <1>3, <1>4, <1>5, <1>6, <1>7

\* Ending the calls of some callers keeps the session's state well typed.
LEMMA DropTypes ==
  ASSUME SessionTypeOK, NEW S, Drop(S), held' \in [Callers -> Messenger]
  PROVE  SessionTypeOK'
  BY IdleIsCall DEF Drop, SessionTypeOK

\* A step that leaves the session alone keeps its state well typed.
LEMMA StutterTypes ==
  ASSUME SessionTypeOK, UNCHANGED sessionVars PROVE SessionTypeOK'
  BY DEF SessionTypeOK, sessionVars

\* Every step keeps the types.
LEMMA TypeStep ==
  ASSUME TypeOK, [Next \/ Terminated]_vars PROVE TypeOK'
  <1> USE DEF TypeOK
  <1>1. ASSUME NEW p \in Callers, WorkStep(p) PROVE TypeOK'
    <2>1. ASSUME NEW from, NEW q \in Callers, Track(q, from) PROVE TypeOK'
      BY <2>1, StutterTypes DEF Track, SetWork, Works
    <2>2. CASE Arrive(p)
      BY <2>2, StutterTypes DEF Arrive, SetWork, Works
    <2>3. CASE Messaging(p)
      BY <2>3, AskTypes DEF Messaging, shutdownVars
    <2>4. CASE Finish(p)
      <3>1. held' \in [Callers -> Messenger]
        BY <2>4, NoMessengerIsMessenger DEF Finish, SessionTypeOK
      <3> QED
        BY <2>4, <3>1, DropTypes DEF Finish, SetWork, Works
    <2> QED
      BY <1>1, <2>1, <2>2, <2>3, <2>4 DEF WorkStep, Accept, Expire, StartTask
  <1>2. CASE Outside
    BY <1>2, OwnerTypes DEF Outside, shutdownVars
  <1>3. CASE HookStep
    <2>1. CASE BeginDrain
      BY <2>1, OwnerTypes DEF BeginDrain, GoOn, Hooks
    <2>2. CASE CronStopped \/ StartDrain \/ Drained \/ GiveUp \/ CloseInfra
      BY <2>2, StutterTypes
      DEF CronStopped, StartDrain, Drained, GiveUp, CloseInfra, GoOn, Hooks, Tasks
    <2>3. CASE CancelPending
      <3>1. SessionTypeOK'
        BY <2>3, DropTypes DEF CancelPending, SessionTypeOK
      <3> QED
        BY <2>3, <3>1 DEF CancelPending, GoOn, Hooks, Works
    <2>4. CASE CoreShutdown
      BY <2>4, OwnerTypes DEF CoreShutdown, Hooks
    <2> QED
      BY <1>3, <2>1, <2>2, <2>3, <2>4 DEF HookStep
  <1>4. CASE UNCHANGED vars
    BY <1>4, StutterTypes DEF vars, shutdownVars
  <1> QED
    BY <1>1, <1>2, <1>3, <1>4 DEF Next, Terminated

\* Every variable keeps its type, whatever the numbers of coroutines, inboxes
\* and clients.
THEOREM TypeCorrect == Spec => []TypeOK
  BY InitTypes, TypeStep, PTL DEF Spec

-----------------------------------------------------------------------------
(* The inductive invariant.                                                *)

\* The inductive invariant holds in the initial state.
LEMMA InitInv == Init => IInv
  <1> SUFFICES ASSUME Init PROVE IInv
    OBVIOUS
  <1>1. ClientsKnown
    BY SessionAssumption DEF Init, SessionInit, ClientsKnown
  <1>2. ClosingInOrder /\ HooksInOrder
    BY DEF Init, SessionInit, ClosingInOrder, HooksInOrder
  <1> QED
    BY <1>1, <1>2, InitTypes DEF IInv

\* A client is made only in the place of one that is closed.
LEMMA AskClients ==
  ASSUME IInv, NEW p \in Callers, Ask(p)
  PROVE  ClientsKnown' /\ ClosingInOrder'
  <1> USE DEF IInv, TypeOK, SessionTypeOK, ClientsKnown, ClosingInOrder, Live
  <1>1. ASSUME NEW i \in Inboxes, NEW shared \in BOOLEAN,
               HitCache(p, i) \/ Evict(p, i) \/ StartMessenger(p, i, shared)
        PROVE ClientsKnown' /\ ClosingInOrder'
    BY <1>1 DEF HitCache, Evict, StartMessenger
  <1>2. CASE FinishMessenger(p)
    <2>1. ClientsKnown'
      BY <1>2, SessionAssumption DEF FinishMessenger, AskMedia
    <2>2. ClosingInOrder'
      BY <1>2 DEF FinishMessenger, AskMedia
    <2> QED
      BY <2>1, <2>2
  <1>3. CASE RefuseMessenger(p)
    BY <1>3 DEF RefuseMessenger
  <1> QED
    BY <1>1, <1>2, <1>3 DEF Ask

\* The steps of the session's owner keep the bookkeeping of its clients.
LEMMA OwnerClients ==
  ASSUME IInv,
         \/ LoseSession \/ Recreate \/ BeginSessionDrain
         \/ draining /\ (CloseMedia \/ CloseSession \/ Closed \/ CloseBreaks)
  PROVE  ClientsKnown' /\ ClosingInOrder'
  <1> USE SessionAssumption
      DEF IInv, TypeOK, SessionTypeOK, ClientsKnown, ClosingInOrder, Live
  <1>1. CASE LoseSession
    BY <1>1 DEF LoseSession
  <1>2. CASE Recreate
    BY <1>2 DEF Recreate
  <1>3. CASE BeginSessionDrain
    BY <1>3 DEF BeginSessionDrain
  <1>4. CASE draining /\ CloseMedia
    BY <1>4 DEF CloseMedia
  <1>5. CASE draining /\ CloseSession
    BY <1>5 DEF CloseSession, PastMedia
  <1>6. CASE draining /\ Closed
    BY <1>6 DEF Closed, PastMedia
  <1>7. CASE draining /\ CloseBreaks
    BY <1>7 DEF CloseBreaks
  <1> QED
    BY <1>1, <1>2, <1>3, <1>4, <1>5, <1>6, <1>7

\* A step that leaves the clients alone keeps their bookkeeping.
LEMMA SameClients ==
  ASSUME ClientsKnown /\ ClosingInOrder,
         UNCHANGED <<session, media, made, closed, draining, closing>>
  PROVE  ClientsKnown' /\ ClosingInOrder'
  BY DEF ClientsKnown, ClosingInOrder, Live

\* Every step keeps the bookkeeping of the clients.
LEMMA ClientsStep ==
  ASSUME IInv, [Next \/ Terminated]_vars PROVE ClientsKnown' /\ ClosingInOrder'
  <1> USE DEF IInv
  <1>1. ASSUME NEW p \in Callers, WorkStep(p) PROVE ClientsKnown' /\ ClosingInOrder'
    <2>1. CASE Messaging(p)
      BY <2>1, AskClients DEF Messaging
    <2>2. CASE Finish(p)
      BY <2>2, SameClients DEF Finish, Drop
    <2>3. ASSUME NEW from, NEW q, Track(q, from)
          PROVE ClientsKnown' /\ ClosingInOrder'
      BY <2>3, SameClients DEF Track, sessionVars
    <2>4. CASE Arrive(p)
      BY <2>4, SameClients DEF Arrive, sessionVars
    <2> QED
      BY <1>1, <2>1, <2>2, <2>3, <2>4 DEF WorkStep, Accept, Expire, StartTask
  <1>2. CASE Outside
    BY <1>2, OwnerClients DEF Outside
  <1>3. CASE HookStep
    <2>1. CASE BeginDrain
      BY <2>1, OwnerClients DEF BeginDrain
    <2>2. CASE CronStopped \/ StartDrain \/ Drained \/ GiveUp \/ CloseInfra
      BY <2>2, SameClients
      DEF CronStopped, StartDrain, Drained, GiveUp, CloseInfra, sessionVars
    <2>3. CASE CancelPending
      BY <2>3, SameClients DEF CancelPending, Drop
    <2>4. CASE CoreShutdown
      <3>1. draining
        BY <2>4 DEF CoreShutdown, HooksInOrder
      <3> QED
        BY <2>4, <3>1, OwnerClients DEF CoreShutdown
    <2> QED
      BY <1>3, <2>1, <2>2, <2>3, <2>4 DEF HookStep
  <1>4. CASE UNCHANGED vars
    BY <1>4, SameClients DEF vars, sessionVars
  <1> QED
    BY <1>1, <1>2, <1>3, <1>4 DEF Next, Terminated

\* Asking for a messenger and outside events leave the flags of the shutdown.
LEMMA FlagsKept ==
  ASSUME NEW p, Ask(p) \/ LoseSession \/ Recreate
  PROVE  draining' = draining /\ closing' = closing
  BY DEF Ask, HitCache, Evict, StartMessenger, FinishMessenger, AskMedia,
         RefuseMessenger, LoseSession, Recreate

\* No step of the work adds a task once the tracker refuses.
LEMMA WorkHooks ==
  ASSUME IInv, NEW p \in Callers, WorkStep(p) PROVE HooksInOrder'
  <1> USE DEF IInv, TypeOK, HooksInOrder, Tasks
  <1>1. ASSUME NEW from, NEW q \in Callers, Track(q, from) PROVE HooksInOrder'
    <2>1. UNCHANGED <<draining, closing, refusing, hook, pending, infra>>
      BY <1>1 DEF Track, sessionVars
    <2>2. hook # "serving" =>
            \A r \in Callers : work'[r] \in {work[r], "done"}
      BY <1>1 DEF Track, SetWork
    <2> QED
      BY <2>1, <2>2
  <1>2. CASE Arrive(p)
    BY <1>2 DEF Arrive, SetWork, sessionVars
  <1>3. CASE Messaging(p)
    BY <1>3, FlagsKept DEF Messaging, shutdownVars
  <1>4. CASE Finish(p)
    <2>1. UNCHANGED <<draining, closing, refusing, hook, pending, infra>>
      BY <1>4 DEF Finish, Drop
    <2>2. \A r \in Callers : work'[r] \in {work[r], "done"}
      BY <1>4 DEF Finish, SetWork
    <2> QED
      BY <2>1, <2>2
  <1> QED
    BY <1>1, <1>2, <1>3, <1>4 DEF WorkStep, Accept, Expire, StartTask

\* The steps of the hooks' runner keep the hooks in the order of priority.
LEMMA HookHooks ==
  ASSUME IInv, HookStep PROVE HooksInOrder'
  <1> USE DEF IInv, TypeOK, HooksInOrder, Tasks, GoOn
  <1>1. CASE BeginDrain
    BY <1>1 DEF BeginDrain, BeginSessionDrain
  <1>2. CASE CronStopped
    BY <1>2 DEF CronStopped, sessionVars
  <1>3. CASE StartDrain
    <2>1. UNCHANGED <<draining, closing, work, infra>> /\ refusing'
      BY <1>3 DEF StartDrain, sessionVars
    <2>2. draining /\ infra /\ closing = "no"
      BY <1>3 DEF StartDrain
    <2>3. CASE Tasks = {}
      BY <1>3, <2>1, <2>2, <2>3 DEF StartDrain
    <2>4. CASE Tasks # {}
      BY <1>3, <2>1, <2>2, <2>4 DEF StartDrain
    <2> QED
      BY <2>3, <2>4
  <1>4. CASE Drained
    <2>1. UNCHANGED <<draining, closing, refusing, work, infra>> /\ hook' = "infra"
      BY <1>4 DEF Drained, sessionVars
    <2>2. Tasks = {}
      BY <1>4 DEF Drained
    <2>3. draining /\ refusing /\ infra /\ closing = "no"
      BY <1>4 DEF Drained
    <2> QED
      BY <2>1, <2>2, <2>3
  <1>5. CASE CancelPending
    <2>1. UNCHANGED <<draining, closing, refusing, infra>> /\ hook' = "cancel"
      BY <1>5 DEF CancelPending, Drop
    <2>2. draining /\ refusing /\ infra /\ closing = "no"
      BY <1>5 DEF CancelPending
    <2>3. \A r \in Callers :
            /\ r \in pending' => work'[r] = "cancelled"
            /\ r \notin pending' => work'[r] = work[r] /\ r \notin Tasks
      BY <1>5 DEF CancelPending
    <2> QED
      BY <2>1, <2>2, <2>3
  <1>6. CASE GiveUp
    BY <1>6 DEF GiveUp, sessionVars
  <1>7. CASE CloseInfra
    BY <1>7 DEF CloseInfra, sessionVars
  <1>8. CASE CoreShutdown
    BY <1>8 DEF CoreShutdown, CloseMedia, CloseSession, Closed, CloseBreaks
  <1> QED
    BY <1>1, <1>2, <1>3, <1>4, <1>5, <1>6, <1>7, <1>8 DEF HookStep

\* Every step keeps the inductive invariant.
LEMMA InvStep ==
  ASSUME IInv, [Next \/ Terminated]_vars PROVE IInv'
  <1>1. TypeOK'
    BY TypeStep DEF IInv
  <1>2. ClientsKnown' /\ ClosingInOrder'
    BY ClientsStep
  <1>3. HooksInOrder'
    <2>1. CASE \E p \in Callers : WorkStep(p)
      BY <2>1, WorkHooks
    <2>2. CASE Outside
      BY <2>2
      DEF Outside, LoseSession, Recreate, shutdownVars, IInv, HooksInOrder, Tasks
    <2>3. CASE HookStep
      BY <2>3, HookHooks
    <2>4. CASE UNCHANGED vars
      BY <2>4 DEF vars, sessionVars, shutdownVars, IInv, HooksInOrder, Tasks
    <2> QED
      BY <2>1, <2>2, <2>3, <2>4 DEF Next, Terminated
  <1> QED
    BY <1>1, <1>2, <1>3 DEF IInv

\* The inductive invariant holds in every behaviour.
THEOREM Invariant == Spec => []IInv
  BY InitInv, InvStep, PTL DEF Spec

\* When close() has returned every client that was ever made is closed: the
\* open ones are the two the lifecycle knows, and these are None.  When it has
\* raised, the session is the only one that may be open.
THEOREM NoClientIsLeft == Spec => []NoClientLeft
  <1>1. IInv => NoClientLeft
    BY DEF IInv, TypeOK, SessionTypeOK, ClientsKnown, ClosingInOrder, NoClientLeft,
           Live
  <1> QED
    BY <1>1, Invariant, PTL

\* Databases and clients are closed by the shutdown under no task, but those
\* that drain() has cancelled and that did not end in time.
THEOREM ResourcesOutliveWork == Spec => []CloseAfterWork
  <1>1. IInv => CloseAfterWork
    BY DEF IInv, HooksInOrder, CloseAfterWork
  <1> QED
    BY <1>1, Invariant, PTL

\* While the session drains a caller keeps the messenger it holds or gives it
\* up: it gets no other.
LEMMA DrainStep ==
  ASSUME TypeOK, [Next \/ Terminated]_vars, draining, NEW q \in Callers
  PROVE  held'[q] \in {held[q], NoMessenger}
  <1>1. ASSUME NEW p \in Callers, WorkStep(p)
        PROVE held'[q] \in {held[q], NoMessenger}
    <2>1. CASE Messaging(p)
      BY <2>1
      DEF Messaging, Ask, HitCache, SessionGiven, Evict, StartMessenger,
          FinishMessenger, AskMedia, RefuseMessenger
    <2>2. CASE Finish(p)
      BY <2>2 DEF Finish, TypeOK, SessionTypeOK
    <2> QED
      BY <1>1, <2>1, <2>2
      DEF WorkStep, Arrive, Accept, Expire, StartTask, Track, sessionVars
  <1>2. CASE Outside
    BY <1>2 DEF Outside, LoseSession, Recreate
  <1>3. CASE HookStep
    BY <1>3
    DEF HookStep, BeginDrain, BeginSessionDrain, CronStopped, StartDrain, Drained,
        CancelPending, GiveUp, CloseInfra, CoreShutdown, CloseMedia, CloseSession,
        Closed, CloseBreaks, sessionVars
  <1>4. CASE UNCHANGED vars
    BY <1>4 DEF vars, sessionVars
  <1> QED
    BY <1>1, <1>2, <1>3, <1>4 DEF Next, Terminated

\* A draining runtime gives no messenger to anyone, also not to a coroutine
\* that asked before the drain began and waits for its credentials.
THEOREM NoMessengerWhileDraining == Spec => NoMessengerInDrain
  <1>1. TypeOK /\ [Next \/ Terminated]_vars =>
          [draining => \A p \in Callers : held'[p] \in {held[p], NoMessenger}]_sessionVars
    BY DrainStep
  <1> QED
    BY <1>1, TypeCorrect, PTL DEF Spec, NoMessengerInDrain

-----------------------------------------------------------------------------
(* What ShutdownEnds rests on besides fairness: the hooks go one way, along *)
(* a finite order, and are never without a step.                            *)

HookOrder ==
    {<<"serving", "cron">>, <<"cron", "expiry">>, <<"expiry", "drain">>,
     <<"expiry", "infra">>, <<"drain", "cancel">>, <<"drain", "infra">>,
     <<"cancel", "infra">>, <<"infra", "core">>, <<"core", "down">>}

CloseOrder ==
    {<<"no", "media">>, <<"no", "session">>, <<"media", "session">>}

\* The hooks move forward in their order, the last of them through the clients
\* it closes, and no work, no listener and no lost session moves them back.
HooksAdvance ==
    [][/\ HookStep => \/ <<hook, hook'>> \in HookOrder
                      \/ /\ hook = "core" /\ hook' = "core"
                         /\ <<closing, closing'>> \in CloseOrder
       /\ ~HookStep => UNCHANGED <<hook, closing>>]_vars

\* Work and outside events leave the hook and close() where they are.
LEMMA OthersWait ==
  ASSUME Outside \/ \E p \in Callers : WorkStep(p)
  PROVE  UNCHANGED <<hook, closing>>
  <1>1. ASSUME NEW p \in Callers, WorkStep(p) PROVE UNCHANGED <<hook, closing>>
    <2>1. CASE Messaging(p)
      BY <2>1, FlagsKept DEF Messaging, shutdownVars
    <2> QED
      BY <1>1, <2>1
      DEF WorkStep, Arrive, Accept, Expire, StartTask, Track, Finish, Drop,
          sessionVars
  <1>2. CASE Outside
    BY <1>2, FlagsKept DEF Outside, shutdownVars
  <1> QED
    BY <1>1, <1>2

\* A step of the hooks is one of their order.
LEMMA HooksForward ==
  ASSUME HookStep
  PROVE  \/ <<hook, hook'>> \in HookOrder
         \/ /\ hook = "core" /\ hook' = "core"
            /\ <<closing, closing'>> \in CloseOrder
  <1> USE DEF GoOn, HookOrder, CloseOrder
  <1>1. CASE BeginDrain \/ CronStopped \/ StartDrain
    BY <1>1 DEF BeginDrain, CronStopped, StartDrain
  <1>2. CASE Drained \/ CancelPending \/ GiveUp \/ CloseInfra
    BY <1>2 DEF Drained, CancelPending, GiveUp, CloseInfra
  <1>3. CASE CoreShutdown
    BY <1>3 DEF CoreShutdown, CloseMedia, CloseSession, PastMedia
  <1> QED
    BY <1>1, <1>2, <1>3 DEF HookStep

\* The shutdown is at most seven moves of the hooks and the closing of two clients
\* long, and no task, listener, request or lost session sends it back.
THEOREM ShutdownAdvances == Spec => HooksAdvance
  <1>1. [Next \/ Terminated]_vars =>
          [/\ HookStep => \/ <<hook, hook'>> \in HookOrder
                          \/ /\ hook = "core" /\ hook' = "core"
                             /\ <<closing, closing'>> \in CloseOrder
           /\ ~HookStep => UNCHANGED <<hook, closing>>]_vars
    BY HooksForward, OthersWait DEF Next, Terminated
  <1> QED
    BY <1>1, PTL DEF Spec, HooksAdvance

\* The last hook, which waits for nothing but its own two clients, always finds
\* one of its three steps to do.  Each of the others has a timeout or nothing
\* to wait for.
CoreCanStep ==
    hook = "core" =>
        \/ closing = "no" /\ Live(media)
        \/ PastMedia /\ Live(session)
        \/ closing = "session"
        \/ PastMedia /\ ~Live(session)

\* close() has neither returned nor raised while its hook runs.
CloseEndsCore == hook = "core" => closing \notin {"done", "broken"}

\* The last hook cannot stop half way, in whatever order the two clients were
\* made, lost and made again.
THEOREM CoreNeverStuck == Spec => []CoreCanStep
  <1>1. Init => CloseEndsCore
    BY DEF Init, CloseEndsCore
  <1>2. IInv /\ CloseEndsCore /\ [Next \/ Terminated]_vars => CloseEndsCore'
    <2> SUFFICES ASSUME IInv, CloseEndsCore, [Next \/ Terminated]_vars
                 PROVE  CloseEndsCore'
      OBVIOUS
    <2>1. CASE Outside \/ \E p \in Callers : WorkStep(p)
      BY <2>1, OthersWait DEF CloseEndsCore
    <2>2. CASE CloseInfra
      BY <2>2 DEF CloseInfra, GoOn, sessionVars, IInv, HooksInOrder, CloseEndsCore
    <2>3. CASE CoreShutdown
      BY <2>3 DEF CoreShutdown, CloseMedia, CloseSession, Closed, CloseBreaks,
                  CloseEndsCore
    <2>4. CASE BeginDrain \/ CronStopped \/ StartDrain \/ Drained
               \/ CancelPending \/ GiveUp
      BY <2>4 DEF BeginDrain, CronStopped, StartDrain, Drained, CancelPending,
                  GiveUp, GoOn, CloseEndsCore
    <2>5. CASE UNCHANGED vars
      BY <2>5 DEF vars, sessionVars, shutdownVars, CloseEndsCore
    <2> QED
      BY <2>1, <2>2, <2>3, <2>4, <2>5 DEF Next, Terminated, HookStep
  <1>3. IInv /\ CloseEndsCore => CoreCanStep
    BY DEF IInv, TypeOK, SessionTypeOK, CloseEndsCore, CoreCanStep, PastMedia
  <1> QED
    BY <1>1, <1>2, <1>3, Invariant, PTL DEF Spec
=============================================================================
