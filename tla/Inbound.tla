------------------------------- MODULE Inbound -------------------------------
(***************************************************************************)
(* From the platform to a tracked dispatch: the webhook controller, the    *)
(* Inbound Runtime (wappa/core/inbound/runtime.py) and the processor of    *)
(* WhatsApp payloads, over the credentials of CredentialStore.             *)
(*                                                                         *)
(* The platform delivers a webhook until it is answered 200 while it still *)
(* waits.  A delivery is a request that validates the inbox, translates    *)
(* the payload, looks a recipient up, builds a messenger, for which it     *)
(* looks the credentials up twice more, and hands the dispatch to the      *)
(* tracker.  Every other end is an error of the 400s or 500s, which makes  *)
(* the platform deliver again.  Between two awaits anything may happen: a  *)
(* drain, a change of the credentials, the end of the platform's patience. *)
(*                                                                         *)
(* What becomes of a tracked dispatch is the matter of Shutdown and        *)
(* EventScope.                                                             *)
(***************************************************************************)
EXTENDS CredentialStore

CONSTANTS
    Webhooks,
    Kind,        \* Kind[w]: what the processor makes of the payload of w
    MaxGivenUp   \* bound: how often the platform gives up on a webhook

\* "message" stands for every webhook without enrichment, "refused" for the
\* payloads that cannot be translated or name another inbox.
ASSUME InboundAssumption ==
    /\ Webhooks # {}
    /\ Kind \in [Webhooks -> {"message", "status", "refused"}]
    /\ MaxGivenUp \in Nat

VARIABLES
    request,     \* request[p]: where p is, and the webhook it brought
    waited,      \* whether the platform waits for the answer of p
    draining,    \* _draining, of the session lifecycle and of the tracker
    answered,    \* the webhooks answered 200
    givenUp,     \* how often the platform gave up on a webhook
    tracked      \* history: tasks made for a webhook

inboundVars == <<request, waited, draining, answered, givenUp, tracked>>

vars == <<storeVars, inboundVars>>

Places == {"idle", "validating", "enriching", "checking", "reading"}

\* Types; a request looks credentials up while it waits for them.
TypeOK ==
    /\ StoreTypeOK
    /\ request \in [Requests -> [at : Places, webhook : Webhooks]]
    /\ waited \in [Requests -> BOOLEAN]
    /\ draining \in BOOLEAN
    /\ answered \subseteq Webhooks
    /\ givenUp \in [Webhooks -> 0..MaxGivenUp]
    /\ tracked \in [Webhooks -> Nat]
    /\ \A p \in Requests :
          look[p].at # "none" <=> request[p].at \in {"validating", "checking", "reading"}

Idle == [at |-> "idle", webhook |-> CHOOSE w \in Webhooks : TRUE]

Init ==
    /\ StoreInit
    /\ request = [p \in Requests |-> Idle]
    /\ waited = [p \in Requests |-> FALSE]
    /\ draining = FALSE
    /\ answered = {}
    /\ givenUp = [w \in Webhooks |-> 0]
    /\ tracked = [w \in Webhooks |-> 0]

-----------------------------------------------------------------------------
(* The platform.                                                           *)

Webhook(p) == request[p].webhook

Awaits(w) == \E p \in Requests : waited[p] /\ Webhook(p) = w

\* It delivers what is not answered, once at a time: POST
\* /inboxes/{inbox_id}/{platform}, whose first await is validate_inbox.
Deliver(p, w) ==
    /\ request[p].at = "idle"
    /\ w \notin answered
    /\ ~Awaits(w)
    /\ request' = [request EXCEPT ![p] = [at |-> "validating", webhook |-> w]]
    /\ waited' = [waited EXCEPT ![p] = TRUE]
    /\ LookUp(p)
    /\ UNCHANGED <<draining, answered, givenUp, tracked>>
    /\ UNCHANGED <<row, cached, revoked, lateFill, bare, revived>>

\* It gives up, or the connection breaks: the request goes on unheard.
GiveUp(p) ==
    /\ waited[p]
    /\ givenUp[Webhook(p)] < MaxGivenUp
    /\ waited' = [waited EXCEPT ![p] = FALSE]
    /\ givenUp' = [givenUp EXCEPT ![Webhook(p)] = @ + 1]
    /\ UNCHANGED <<storeVars, request, draining, answered, tracked>>

-----------------------------------------------------------------------------
(* The request.                                                            *)

Goto(p, at) == request' = [request EXCEPT ![p].at = at]

\* p is over, and with it what it looked up.
End(p) ==
    /\ request' = [request EXCEPT ![p] = Idle]
    /\ waited' = [waited EXCEPT ![p] = FALSE]
    /\ look' = [look EXCEPT ![p] = NoLookup]
    /\ UNCHANGED <<row, cached, revoked, lateFill, bare, revived, draining, givenUp>>

\* An HTTPException of the controller.
Refuse(p) == End(p) /\ UNCHANGED <<answered, tracked>>

\* The processor makes a webhook of the payload, whose inbox_id, if it has
\* one, is that of the route.
Translates(w) == Kind[w] # "refused"

\* The messenger's factory: the session first, which may be lost or drained.
BuildMessenger(p) ==
    \/ Refuse(p)
    \/ /\ ~draining
       /\ Goto(p, "checking")
       /\ LookUp(p)
       /\ UNCHANGED <<row, cached, revoked, lateFill, bare, revived>>
       /\ UNCHANGED <<waited, draining, answered, givenUp, tracked>>

\* 401 for an inbox without credentials, 500 when the store fails.
NotValidated(p) ==
    /\ request[p].at = "validating"
    /\ look[p].at \in {"missing", "failed"}
    /\ Refuse(p)

\* 400 for a payload the processor cannot translate, or whose inbox_id is not
\* the one of the route.
NotTranslated(p) ==
    /\ request[p].at = "validating"
    /\ look[p].at = "found"
    /\ ~Translates(Webhook(p))
    /\ Refuse(p)

\* No recipient to look up: not a status, one without a phone number, or the
\* cache is not Redis.
Translated(p) ==
    /\ request[p].at = "validating"
    /\ look[p].at = "found"
    /\ Translates(Webhook(p))
    /\ BuildMessenger(p)

\* A status has its recipient looked up in the user cache ...
Enrich(p) ==
    /\ request[p].at = "validating"
    /\ look[p].at = "found"
    /\ Kind[Webhook(p)] = "status"
    /\ Goto(p, "enriching")
    /\ look' = [look EXCEPT ![p] = NoLookup]
    /\ UNCHANGED <<row, cached, revoked, lateFill, bare, revived>>
    /\ UNCHANGED <<waited, draining, answered, givenUp, tracked>>

\* ... found or not, and whether or not that failed.
Enriched(p) ==
    /\ request[p].at = "enriching"
    /\ BuildMessenger(p)

\* The factory validates the inbox again and then reads the credentials.
Checked(p) ==
    /\ request[p].at = "checking"
    /\ look[p].at = "found"
    /\ Goto(p, "reading")
    /\ LookUp(p)
    /\ UNCHANGED <<row, cached, revoked, lateFill, bare, revived>>
    /\ UNCHANGED <<waited, draining, answered, givenUp, tracked>>

\* The inbox was switched off meanwhile, or the store fails: 500.
NotBuilt(p) ==
    /\ request[p].at \in {"checking", "reading"}
    /\ look[p].at \in {"missing", "failed"}
    /\ Refuse(p)

\* track() makes the task, and the platform hears of it if it still waits.
Track(p) ==
    /\ tracked' = [tracked EXCEPT ![Webhook(p)] = @ + 1]
    /\ answered' = answered \cup (IF waited[p] THEN {Webhook(p)} ELSE {})
    /\ End(p)

\* Mutated form: the task is made before the drain is looked at.
AcceptFirst(p) ==
    /\ request[p].at = "reading"
    /\ look[p].at = "found"
    /\ tracked' = [tracked EXCEPT ![Webhook(p)] = @ + 1]
    /\ answered' = answered \cup (IF waited[p] /\ ~draining THEN {Webhook(p)} ELSE {})
    /\ End(p)

\* The media client and the tracker refuse in a drain, and a cache without
\* its Redis or a missing handler at any time: 500.  There is no await from
\* the last lookup to the answer.
Accept(p) ==
    /\ request[p].at = "reading"
    /\ look[p].at = "found"
    /\ \/ Refuse(p)
       \/ ~draining /\ Track(p)

\* _begin_drain marks the lifecycle and the tracker in one step.
BeginDrain ==
    /\ ~draining
    /\ draining' = TRUE
    /\ UNCHANGED <<storeVars, request, waited, answered, givenUp, tracked>>

RequestStep(p) ==
    \/ LookupStep(p) /\ UNCHANGED inboundVars
    \/ NotValidated(p) \/ NotTranslated(p) \/ Translated(p) \/ Enrich(p)
    \/ Enriched(p) \/ Checked(p) \/ NotBuilt(p) \/ Accept(p)

Next ==
    \/ \E p \in Requests, w \in Webhooks : Deliver(p, w)
    \/ \E p \in Requests : GiveUp(p) \/ RequestStep(p)
    \/ (ChangeRow \/ Invalidate \/ Lapse) /\ UNCHANGED inboundVars
    \/ BeginDrain

Spec == Init /\ [][Next]_vars

\* Redis and the database answer or fail, and a TTL ends; the platform and
\* the host may stop at any time.
FairSpec ==
    /\ Spec
    /\ \A p \in Requests : WF_vars(RequestStep(p))
    /\ WF_vars(Lapse /\ UNCHANGED inboundVars)

-----------------------------------------------------------------------------
(* Properties.                                                             *)

\* What the platform was told is what happened: a webhook answered 200 has
\* its task, and there are no other tasks but those of deliveries it did not
\* wait for.  A refusal, in a drain too, has left nothing behind, so that the
\* delivery that follows it repeats nothing (InboundRuntime.accept_webhook).
AnswerIsTrue ==
    \A w \in Webhooks :
        IF w \in answered THEN tracked[w] \in 1..(1 + givenUp[w])
                          ELSE tracked[w] \in 0..givenUp[w]
=============================================================================
