--------------------------- MODULE SessionLifecycle ---------------------------
(***************************************************************************)
(* The owner of Wappa's HTTP clients (wappa/core/lifecycle) and the        *)
(* messengers built on them (wappa/domain/factories/messenger_factory).    *)
(*                                                                         *)
(* SessionLifecycle has one authenticated client, made at startup and made *)
(* again by recreate() once it was closed, and one media client, made when *)
(* it is first asked for.  A messenger keeps the two clients it was built  *)
(* with.  Building one asks for the session, suspends in the credential    *)
(* store, and asks for the media client.  The factory of OutboundRuntime   *)
(* lives as long as the application and caches its messengers; every other *)
(* caller has a factory of its own, whose cache is never hit.              *)
(*                                                                         *)
(* recreate() finds its lock free and never suspends: it is one step.      *)
(* close() suspends while each of the two clients closes.  A client is     *)
(* named by the order in which it was made; 0 is None.                     *)
(***************************************************************************)
EXTENDS Integers

CONSTANTS
    Callers,     \* coroutines that ask for a messenger
    Inboxes,
    MaxClients   \* bound: clients made

ASSUME SessionAssumption ==
    /\ MaxClients \in Nat \ {0}
    /\ Inboxes # {}

VARIABLES
    session,    \* _session
    media,      \* _media_client
    made,       \* clients made so far
    closed,     \* those that are closed
    draining,   \* _draining of the lifecycle
    closing,    \* where close() is
    cache,      \* _messenger_cache of OutboundRuntime's factory
    call,       \* call[p]: the create_messenger p is suspended in
    held        \* held[p]: the messenger p has

sessionVars == <<session, media, made, closed, draining, closing, cache, call, held>>

NoMessenger == [session |-> 0, media |-> 0]

Messenger == [session : 0..MaxClients, media : 0..MaxClients]

Idle == [pc |-> "idle", inbox |-> CHOOSE i \in Inboxes : TRUE,
         shared |-> FALSE, session |-> 0]

Call == [pc : {"idle", "building"}, inbox : Inboxes, shared : BOOLEAN,
         session : 0..MaxClients]

\* Types; the clients are numbered in the order they were made.
SessionTypeOK ==
    /\ made \in 0..MaxClients
    /\ session \in 0..made
    /\ media \in 0..made
    /\ closed \subseteq 1..made
    /\ draining \in BOOLEAN
    /\ closing \in {"no", "media", "session", "done", "broken"}
    /\ cache \in [Inboxes -> Messenger]
    /\ call \in [Callers -> Call]
    /\ held \in [Callers -> Messenger]

\* _core_startup makes the first client.
SessionInit ==
    /\ session = 1
    /\ media = 0
    /\ made = 1
    /\ closed = {}
    /\ draining = FALSE
    /\ closing = "no"
    /\ cache = [i \in Inboxes |-> NoMessenger]
    /\ call = [p \in Callers |-> Idle]
    /\ held = [p \in Callers |-> NoMessenger]

-----------------------------------------------------------------------------

Live(c) == c # 0 /\ c \notin closed

\* get_session answers when the runtime is active and the session is open.
SessionGiven == ~draining /\ Live(session)

\* A hit of the cache of the shared factory: it looks at the session of the
\* lifecycle, not at the one the messenger was built with.
HitCache(p, i) ==
    /\ call[p].pc = "idle"
    /\ cache[i] # NoMessenger
    /\ SessionGiven
    /\ held' = [held EXCEPT ![p] = cache[i]]
    /\ UNCHANGED <<session, media, made, closed, draining, closing, cache, call>>

\* A messenger found in the cache while the session is closed is evicted, and
\* the one to replace it cannot be built.
Evict(p, i) ==
    /\ call[p].pc = "idle"
    /\ cache[i] # NoMessenger
    /\ ~draining /\ ~Live(session)
    /\ cache' = [cache EXCEPT ![i] = NoMessenger]
    /\ UNCHANGED <<session, media, made, closed, draining, closing, call, held>>

\* _create_whatsapp_messenger up to its first suspension.
StartMessenger(p, i, shared) ==
    /\ call[p].pc = "idle"
    /\ shared => cache[i] = NoMessenger
    /\ SessionGiven
    /\ call' = [call EXCEPT ![p] = [pc |-> "building", inbox |-> i,
                                    shared |-> shared, session |-> session]]
    /\ UNCHANGED <<session, media, made, closed, draining, closing, cache, held>>

\* Mutated form: the media client is given out while the runtime is draining.
AskMediaLate ==
    \/ Live(media) /\ UNCHANGED <<media, made>>
    \/ /\ ~Live(media)
       /\ made < MaxClients
       /\ made' = made + 1
       /\ media' = made'

\* get_media_download_client: the client is made if there is none that is open.
AskMedia ==
    /\ ~draining
    /\ \/ Live(media) /\ UNCHANGED <<media, made>>
       \/ /\ ~Live(media)
          /\ made < MaxClients
          /\ made' = made + 1
          /\ media' = made'

\* The credentials are there: the media client is asked for and the messenger
\* built.  The session is not looked at again.
FinishMessenger(p) ==
    /\ call[p].pc = "building"
    /\ AskMedia
    /\ LET m == [session |-> call[p].session, media |-> media']
       IN  /\ held' = [held EXCEPT ![p] = m]
           /\ cache' = IF call[p].shared
                       THEN [cache EXCEPT ![call[p].inbox] = m] ELSE cache
    /\ call' = [call EXCEPT ![p] = Idle]
    /\ UNCHANGED <<session, closed, draining, closing>>

\* The inbox is unknown or the runtime is draining: the caller gets an error.
RefuseMessenger(p) ==
    /\ call[p].pc = "building"
    /\ call' = [call EXCEPT ![p] = Idle]
    /\ UNCHANGED <<session, media, made, closed, draining, closing, cache, held>>

\* The session's transport is closed from outside.
LoseSession ==
    /\ Live(session)
    /\ closed' = closed \cup {session}
    /\ UNCHANGED <<session, media, made, draining, closing, cache, call, held>>

\* Mutated form: the session is made again after shutdown has begun.
RecreateAlways ==
    /\ ~Live(session)
    /\ made < MaxClients
    /\ made' = made + 1
    /\ session' = made'
    /\ UNCHANGED <<media, closed, draining, closing, cache, call, held>>

\* recreate(): nothing happens to an open session.
Recreate ==
    /\ ~draining
    /\ ~Live(session)
    /\ made < MaxClients
    /\ made' = made + 1
    /\ session' = made'
    /\ UNCHANGED <<media, closed, draining, closing, cache, call, held>>

BeginSessionDrain ==
    /\ draining' = TRUE
    /\ UNCHANGED <<session, media, made, closed, closing, cache, call, held>>

\* Mutated form: a media client that was never made is closed.
CloseMediaBlind ==
    /\ closing = "no"
    /\ closing' = "media"
    /\ closed' = closed \cup {media}
    /\ UNCHANGED <<session, media, made, draining, cache, call, held>>

\* close() closes the clients that are open, one after the other, and suspends
\* for each of them.
CloseMedia ==
    /\ closing = "no" /\ Live(media)
    /\ closing' = "media"
    /\ closed' = closed \cup {media}
    /\ UNCHANGED <<session, media, made, draining, cache, call, held>>

PastMedia ==
    \/ closing = "media"
    \/ closing = "no" /\ ~Live(media)

CloseSession ==
    /\ PastMedia /\ Live(session)
    /\ closing' = "session"
    /\ media' = 0
    /\ closed' = closed \cup {session}
    /\ UNCHANGED <<session, made, draining, cache, call, held>>

Closed ==
    /\ \/ closing = "session"
       \/ PastMedia /\ ~Live(session)
    /\ closing' = "done"
    /\ media' = 0
    /\ session' = 0
    /\ UNCHANGED <<made, closed, draining, cache, call, held>>

\* An aclose() raises: the client has been marked closed before, and the rest of
\* close() does not run.
CloseBreaks ==
    /\ closing \in {"media", "session"}
    /\ closing' = "broken"
    /\ UNCHANGED <<session, media, made, closed, draining, cache, call, held>>

\* What a coroutine may do about messengers.
Ask(p) ==
    \/ \E i \in Inboxes : HitCache(p, i) \/ Evict(p, i)
    \/ \E i \in Inboxes, shared \in BOOLEAN : StartMessenger(p, i, shared)
    \/ FinishMessenger(p)
    \/ RefuseMessenger(p)

-----------------------------------------------------------------------------

\* Closing the lifecycle leaves no client open: none was made and dropped, none
\* is made by a coroutine that was suspended when close() began.  A close() that
\* breaks off may leave the session, and no other client.
NoClientLeft ==
    /\ closing = "done" => 1..made \subseteq closed
    /\ closing = "broken" => 1..made \subseteq closed \cup {session}

\* "Reject ... new messenger construction": once the runtime drains no caller
\* gets a messenger, not even one that had the session before.
NoMessengerInDrain ==
    [][draining => \A p \in Callers : held'[p] \in {held[p], NoMessenger}]_sessionVars

\* "Stale entries are evicted on access rather than persisting indefinitely":
\* a messenger from the cache has a session that is open.
CacheHeals ==
    [][\A p \in Callers :
          call[p].pc = "idle" /\ held'[p] \notin {held[p], NoMessenger}
              => held'[p].session \notin closed]_sessionVars
=============================================================================
