----------------------------- MODULE Messenger -----------------------------
(***************************************************************************)
(* Outbound calls to the platform: the messenger with its handlers         *)
(* (wappa/messaging/whatsapp), the middleware around it, and the Template  *)
(* transport of a host application (wappa/messaging/template_transport).   *)
(*                                                                         *)
(* An operation is a sequence of legs, each one HTTP request:              *)
(*                                                                         *)
(*   message   send               text, interactive, specialized, media    *)
(*   file      upload, send       media from a local file                  *)
(*   upload    upload             reupload  download, upload               *)
(*   fetch     info, stream       read      mark                           *)
(*   template  send               through InboxTemplateTransport, which    *)
(*                                gets its messenger from OutboundRuntime  *)
(*                                                                         *)
(* The platform may carry a request out and its answer be lost, it may do  *)
(* so after the caller gave up; a gateway may answer an error for a request *)
(* that was carried out, or a success without a body for one that was not. *)
(* The host calls a template again when the outcome says it was not sent,  *)
(* and never otherwise; a middleware is the application's and may do all   *)
(* that the pipeline lets it: raise, answer itself, try again.             *)
(*                                                                         *)
(* carried and doubt are history variables for the properties.             *)
(***************************************************************************)
EXTENDS Integers, Sequences

CONSTANTS
    Handlers,     \* coroutines that have a messenger of their own
    Hosts,        \* coroutines that send templates; both may be the same
    Retrying,     \* those whose messenger has a middleware that tries again
    MaxAttempts   \* bound: calls of one message, by its host or a middleware

ASSUME MessengerAssumption == MaxAttempts \in Nat \ {0}

VARIABLES
    session,   \* the HTTP session of the runtime
    cached,    \* the messenger OutboundRuntime keeps for the inbox
    call,      \* call[s]: where s is in its operation
    net,       \* requests the platform may still carry out
    answer,    \* answer[s]: the HTTP response on its way to s
    result,    \* result[s]: what the messenger returned to s
    outcome,   \* outcome[s]: what the Template transport returned to s
    carried,   \* history: how often the platform did each leg for s
    doubt      \* history: what s was told hides what the platform did

Senders == Handlers \cup Hosts

vars == <<session, cached, call, net, answer, result, outcome, carried, doubt>>

Legs == [message |-> <<"send">>,
         file |-> <<"upload", "send">>,
         upload |-> <<"upload">>,
         reupload |-> <<"download", "upload">>,
         fetch |-> <<"info", "stream">>,
         read |-> <<"mark">>,
         template |-> <<"send">>]

Ops == DOMAIN Legs

LegKinds == {"send", "upload", "download", "info", "stream", "mark"}

Call == [pc : {"idle", "preparing", "ready", "waiting", "returned", "ended"},
         op : Ops, leg : 1..2, live : BOOLEAN, attempt : 1..MaxAttempts]

Request == [from : Senders, attempt : 1..MaxAttempts, leg : LegKinds]

Answers == {"ok", "no_id", "garbled", "refused"}

Results == {"ok", "no_id", "platform", "invalid", "indeterminate",
            "upload", "download", "middleware", "cancelled"}

Outcomes == {"accepted", "rejected", "transport_unavailable", "indeterminate"}

\* Types of the runtime, the calls, the network and the history.
TypeOK ==
    /\ session \in {"open", "lost", "draining", "closed"}
    /\ cached \in {"none", "live", "dead"}
    /\ call \in [Senders -> Call]
    /\ net \subseteq Request
    /\ answer \in [Senders -> Answers \cup {"none"}]
    /\ result \in [Senders -> Results \cup {"none"}]
    /\ outcome \in [Senders -> Outcomes \cup {"none"}]
    /\ carried \in [Senders -> [LegKinds -> Nat]]
    /\ doubt \in [Senders -> BOOLEAN]

Init ==
    /\ session = "open"
    /\ cached = "none"
    /\ call = [s \in Senders |-> [pc |-> "idle", op |-> "message", leg |-> 1,
                                  live |-> FALSE, attempt |-> 1]]
    /\ net = {}
    /\ answer = [s \in Senders |-> "none"]
    /\ result = [s \in Senders |-> "none"]
    /\ outcome = [s \in Senders |-> "none"]
    /\ carried = [s \in Senders |-> [l \in LegKinds |-> 0]]
    /\ doubt = [s \in Senders |-> FALSE]

-----------------------------------------------------------------------------

Op(s) == call[s].op

Leg(s) == Legs[Op(s)][call[s].leg]

LastLeg(s) == call[s].leg = Len(Legs[Op(s)])

Set(f, s, v) == [f EXCEPT ![s] = v]

At(s, pc, leg, live) ==
    Set(call, s, [pc |-> pc, op |-> Op(s), leg |-> leg, live |-> live,
                  attempt |-> call[s].attempt])

\* A call that ended keeps its operation and its attempt.
Goto(s, pc) ==
    call' = IF pc = "ended" THEN At(s, pc, 1, FALSE)
            ELSE At(s, pc, call[s].leg, call[s].live)

\* Operations that go through the MessengerPipeline and its middleware.
Piped(s) == Op(s) \in {"message", "file", "template"}

\* The messenger returns r: to the middleware, or to the caller.
Return(s, r) ==
    /\ result' = Set(result, s, r)
    /\ Goto(s, IF Piped(s) THEN "returned" ELSE "ended")

\* handle_whatsapp_error for a request that got no response, and the errors
\* of the media handler, which look alike whatever went wrong.
Unanswered(s) ==
    CASE Leg(s) \in {"send", "mark"} -> "indeterminate"
      [] Leg(s) = "upload" -> "upload"
      [] OTHER -> "download"

-----------------------------------------------------------------------------
(* A new call.                                                             *)

Free(s) ==
    /\ call[s].pc \in {"idle", "ended"}
    /\ \A r \in net : r.from # s

Afresh(s) ==
    /\ answer' = Set(answer, s, "none")
    /\ result' = Set(result, s, "none")
    /\ carried' = Set(carried, s, [l \in LegKinds |-> 0])
    /\ doubt' = Set(doubt, s, FALSE)

\* An operation of the messenger, made while its session was open.
Begin(s, op) ==
    /\ s \in Handlers /\ op # "template"
    /\ Free(s)
    /\ session = "open"
    /\ call' = Set(call, s, [pc |-> "ready", op |-> op, leg |-> 1,
                             live |-> TRUE, attempt |-> 1])
    /\ Afresh(s)
    /\ outcome' = Set(outcome, s, "none")
    /\ UNCHANGED <<session, cached, net>>

\* OutboundRuntime._messenger and create_messenger: a hit of the cache, an
\* eviction, a messenger to be built, or an error.
Acquire(s, attempt) ==
    LET at(pc, live) == Set(call, s, [pc |-> pc, op |-> "template", leg |-> 1,
                                      live |-> live, attempt |-> attempt])
    IN  \/ /\ session = "open" /\ cached # "none"
           /\ call' = at("ready", cached = "live")
           /\ outcome' = Set(outcome, s, "none")
           /\ UNCHANGED cached
        \/ /\ session = "open" /\ cached = "none"
           /\ call' = at("preparing", TRUE)
           /\ outcome' = Set(outcome, s, "none")
           /\ UNCHANGED cached
        \/ /\ session # "open"
           /\ call' = at("ended", FALSE)
           /\ outcome' = Set(outcome, s, "transport_unavailable")
           /\ cached' = IF session = "lost" THEN "none" ELSE cached

\* The host sends a template.
SendTemplate(s) ==
    /\ s \in Hosts
    /\ Free(s)
    /\ Acquire(s, 1)
    /\ Afresh(s)
    /\ UNCHANGED <<session, net>>

\* "Callers must not automatically resend an indeterminate result": the host
\* sends it again after one of the two other failures.
Resend(s) ==
    /\ call[s].pc = "ended"
    /\ outcome[s] \in {"rejected", "transport_unavailable"}
    /\ call[s].attempt < MaxAttempts
    /\ Acquire(s, call[s].attempt + 1)
    /\ answer' = Set(answer, s, "none")
    /\ result' = Set(result, s, "none")
    /\ UNCHANGED <<session, net, carried, doubt>>

\* The credentials are there, and so is the media client unless it drains.
\* The messenger is kept, even if its session was lost meanwhile.
Prepared(s) ==
    /\ call[s].pc = "preparing"
    /\ session \in {"open", "lost"}
    /\ Goto(s, "ready")
    /\ cached' = IF call[s].live THEN "live" ELSE "dead"
    /\ UNCHANGED <<session, net, answer, result, outcome, carried, doubt>>

\* No such inbox, or the runtime drains.
NotPrepared(s) ==
    /\ call[s].pc = "preparing"
    /\ Goto(s, "ended")
    /\ outcome' = Set(outcome, s, "transport_unavailable")
    /\ UNCHANGED <<session, cached, net, answer, result, carried, doubt>>

-----------------------------------------------------------------------------
(* One leg.                                                                *)

\* The arguments do not pass: no request is made.
Refuse(s) ==
    /\ call[s].pc = "ready"
    /\ Leg(s) \in {"send", "upload"}
    /\ Return(s, IF Leg(s) = "send" THEN "invalid" ELSE "upload")
    /\ UNCHANGED <<session, cached, net, answer, outcome, carried, doubt>>

Post(s) ==
    /\ call[s].pc = "ready"
    /\ call[s].live
    /\ Goto(s, "waiting")
    /\ net' = net \cup {[from |-> s, attempt |-> call[s].attempt, leg |-> Leg(s)]}
    /\ UNCHANGED <<session, cached, answer, result, outcome, carried, doubt>>

\* A closed client raises before it sends anything.
PostClosed(s) ==
    /\ call[s].pc = "ready"
    /\ ~call[s].live
    /\ Return(s, Unanswered(s))
    /\ UNCHANGED <<session, cached, net, answer, outcome, carried, doubt>>

\* s no longer waits.  Only a message may still be carried out unseen: what
\* becomes of other requests makes no difference.
GiveUp(s) ==
    /\ net' = {r \in net : r.from = s => r.leg = "send"}
    /\ answer' = Set(answer, s, "none")

\* Mutated form: what was not answered was not sent.
NoAnswerRejected(s) ==
    /\ call[s].pc = "waiting"
    /\ Return(s, IF Leg(s) = "send" THEN "platform" ELSE Unanswered(s))
    /\ GiveUp(s)
    /\ UNCHANGED <<session, cached, outcome, carried, doubt>>

\* Mutated form: the client tries again.
NoAnswerRetries(s) ==
    /\ call[s].pc = "waiting"
    /\ Goto(s, "ready")
    /\ GiveUp(s)
    /\ UNCHANGED <<session, cached, result, outcome, carried, doubt>>

\* A timeout of the client or a broken connection, at any time.
NoAnswer(s) ==
    /\ call[s].pc = "waiting"
    /\ Return(s, Unanswered(s))
    /\ GiveUp(s)
    /\ UNCHANGED <<session, cached, outcome, carried, doubt>>

Answered(s, leg) ==
    /\ call[s].pc = "waiting"
    /\ Leg(s) = leg
    /\ answer[s] # "none"

Next1(s) ==
    /\ call' = At(s, "ready", 2, call[s].live)
    /\ UNCHANGED result

Consume(s) ==
    /\ answer' = Set(answer, s, "none")
    /\ UNCHANGED <<session, cached, net, outcome, carried, doubt>>

\* from_response_payload and handle_whatsapp_error: a response of any error
\* status is the platform's rejection, one of the wrong shape a ValueError,
\* and an empty one, or one that is no JSON, has no message id.
SendReturns(s) ==
    /\ Answered(s, "send")
    /\ Return(s, CASE answer[s] = "refused" -> "platform"
                   [] answer[s] = "garbled" -> "invalid"
                   [] OTHER -> answer[s])
    /\ Consume(s)

\* Mutated form: an upload without a media id goes on.
UploadGoesOn(s) ==
    /\ Answered(s, "upload")
    /\ IF LastLeg(s) THEN Return(s, "ok") ELSE Next1(s)
    /\ Consume(s)

\* upload_media and upload_media_from_bytes, then the message if there is one.
UploadReturns(s) ==
    /\ Answered(s, "upload")
    /\ \/ answer[s] = "ok" /\ (IF LastLeg(s) THEN Return(s, "ok") ELSE Next1(s))
       \/ answer[s] # "ok" /\ Return(s, "upload")
    /\ Consume(s)

\* The public URL is read whole, unless its headers or its size are refused.
DownloadReturns(s) ==
    /\ Answered(s, "download")
    /\ \/ answer[s] = "ok" /\ Next1(s)
       \/ Return(s, "download")
    /\ Consume(s)

InfoReturns(s) ==
    /\ Answered(s, "info")
    /\ \/ answer[s] = "ok" /\ Next1(s)
       \/ answer[s] # "ok" /\ Return(s, "download")
    /\ Consume(s)

StreamReturns(s) ==
    /\ Answered(s, "stream")
    /\ \/ answer[s] # "refused" /\ Return(s, "ok")
       \/ Return(s, "download")
    /\ Consume(s)

\* mark_as_read does not look at the response.
MarkReturns(s) ==
    /\ Answered(s, "mark")
    /\ Return(s, IF answer[s] = "refused" THEN "platform" ELSE "ok")
    /\ Consume(s)

-----------------------------------------------------------------------------
(* The result.                                                             *)

\* Mutated form: the messenger's own code is passed on.
NormalizedRaw(r) == IF r = "ok" THEN "accepted" ELSE r

\* _normalize_result.
Normalized(r) ==
    CASE r = "ok" -> "accepted"
      [] r \in {"no_id", "indeterminate"} -> "indeterminate"
      [] OTHER -> "rejected"

\* The middleware is done.
End(s) ==
    /\ call[s].pc = "returned"
    /\ Goto(s, "ended")
    /\ outcome' = IF Op(s) = "template" THEN Set(outcome, s, Normalized(result[s]))
                  ELSE outcome
    /\ UNCHANGED <<session, cached, net, answer, result, carried, doubt>>

\* A middleware raises, before it called the next one or after, and the
\* transport has an outcome for every type of exception; or it returns a
\* result of its own, whatever that says.
MiddlewareEnds(s) ==
    /\ Piped(s)
    /\ \/ call[s].pc = "ready" /\ call[s].leg = 1 /\ UNCHANGED doubt
       \/ call[s].pc = "returned" /\ doubt' = Set(doubt, s, TRUE)
    /\ Goto(s, "ended")
    /\ result' = Set(result, s, "middleware")
    /\ \/ Op(s) = "template" /\ (\E o \in Outcomes : outcome' = Set(outcome, s, o))
       \/ Op(s) # "template" /\ UNCHANGED outcome
    /\ UNCHANGED <<session, cached, net, answer, carried>>

\* A middleware for reliability calls the next one again after a failure.
MiddlewareRetries(s) ==
    /\ s \in Retrying
    /\ call[s].pc = "returned"
    /\ result[s] \notin {"ok", "no_id"}
    /\ call[s].attempt < MaxAttempts
    /\ call' = Set(call, s, [pc |-> "ready", op |-> Op(s), leg |-> 1,
                             live |-> call[s].live, attempt |-> call[s].attempt + 1])
    /\ result' = Set(result, s, "none")
    /\ doubt' = Set(doubt, s, doubt[s] \/ result[s] = "indeterminate")
    /\ UNCHANGED <<session, cached, net, answer, outcome, carried>>

\* The task is cancelled: its caller gets no result, the request may be out.
Cancel(s) ==
    /\ call[s].pc \in {"preparing", "ready", "waiting", "returned"}
    /\ Goto(s, "ended")
    /\ result' = Set(result, s, "cancelled")
    /\ outcome' = Set(outcome, s, "none")
    /\ GiveUp(s)
    /\ UNCHANGED <<session, cached, carried, doubt>>

-----------------------------------------------------------------------------
(* The platform and the session.                                           *)

\* The response a reaches a caller that still waits for it.
Deliver(r, a) ==
    LET s == r.from
    IN  /\ net' = net \ {r}
        /\ answer' = IF /\ call[s].pc = "waiting"
                        /\ call[s].attempt = r.attempt /\ Leg(s) = r.leg
                     THEN Set(answer, s, a) ELSE answer

\* The platform carries a request out.  It then answers as it should, or
\* something in between answers an error, or the body has the wrong shape.
CarryOut(r) ==
    /\ r \in net
    /\ \E a \in Answers :
          /\ Deliver(r, a)
          /\ doubt' = Set(doubt, r.from,
                          doubt[r.from] \/ (r.leg = "send" /\ a \in {"garbled", "refused"}))
    /\ carried' = [carried EXCEPT ![r.from][r.leg] = @ + 1]
    /\ UNCHANGED <<session, cached, call, result, outcome>>

\* Legs whose response is not looked into, whatever its body.
Unread == {"mark", "stream"}

\* The platform rejects the request, or fails without having done anything;
\* or a gateway answers 2xx, with an empty body or one that is no JSON, which
\* post_request takes for {}, or with some other JSON.
TurnDown(r) ==
    /\ r \in net
    /\ \E a \in Answers \ {"ok"} :
          /\ Deliver(r, a)
          /\ doubt' = Set(doubt, r.from,
                          doubt[r.from] \/ (r.leg \in Unread /\ a # "refused"))
    /\ UNCHANGED <<session, cached, call, result, outcome, carried>>

Vanish(r) ==
    /\ r \in net
    /\ net' = net \ {r}
    /\ UNCHANGED <<session, cached, call, answer, result, outcome, carried, doubt>>

\* The messengers built on the session cannot send any more.
Kill ==
    /\ call' = [s \in Senders |-> [call[s] EXCEPT !.live = FALSE]]
    /\ cached' = IF cached = "live" THEN "dead" ELSE cached
    /\ UNCHANGED <<net, answer, result, outcome, carried, doubt>>

LoseSession == session = "open" /\ session' = "lost" /\ Kill

Recreate ==
    /\ session = "lost" /\ session' = "open"
    /\ UNCHANGED <<cached, call, net, answer, result, outcome, carried, doubt>>

BeginDrain ==
    /\ session \in {"open", "lost"} /\ session' = "draining"
    /\ UNCHANGED <<cached, call, net, answer, result, outcome, carried, doubt>>

Close == session = "draining" /\ session' = "closed" /\ Kill

-----------------------------------------------------------------------------

Step(s) ==
    \/ \E op \in Ops : Begin(s, op)
    \/ SendTemplate(s)
    \/ Resend(s)
    \/ Prepared(s) \/ NotPrepared(s)
    \/ Refuse(s) \/ Post(s) \/ PostClosed(s) \/ NoAnswer(s)
    \/ SendReturns(s) \/ UploadReturns(s) \/ DownloadReturns(s)
    \/ InfoReturns(s) \/ StreamReturns(s) \/ MarkReturns(s)
    \/ End(s) \/ MiddlewareEnds(s) \/ MiddlewareRetries(s) \/ Cancel(s)

Next ==
    \/ \E s \in Senders : Step(s)
    \/ \E r \in net : CarryOut(r) \/ TurnDown(r) \/ Vanish(r)
    \/ LoseSession \/ Recreate \/ BeginDrain \/ Close

Spec == Init /\ [][Next]_vars

-----------------------------------------------------------------------------

Out(s) == \E r \in net : r.from = s /\ r.leg = "send"

\* "rejected: a request or platform response proves the send was not accepted":
\* of what the messenger itself returned, no middleware between it and the
\* transport (_classify_transport_error, _normalize_result).
RejectedNotSent ==
    \A s \in Senders :
        outcome[s] = "rejected" /\ result[s] \in {"platform", "invalid"} =>
            carried[s]["send"] = 0 /\ ~Out(s)

\* What the transport reports rejected or not started was not carried out and
\* will not be, whatever was lost, late, drained or cancelled
\* (InboxTemplateTransport.send).  The exception is doubt: the answer hid that
\* the platform had accepted the call, or a middleware raised or answered over
\* a result, or tried again what was indeterminate.
RejectedIfKnown ==
    \A s \in Senders :
        outcome[s] \in {"rejected", "transport_unavailable"} /\ ~doubt[s] =>
            carried[s]["send"] = 0 /\ ~Out(s)

\* A host that never resends an indeterminate result, with a middleware that
\* retries rejections only, sends nothing twice, whatever was lost, late,
\* refused, drained or cancelled (_normalize_result); but for doubt.
SentOnce == \A s \in Senders : ~doubt[s] => carried[s]["send"] <= 1

\* A success with an id was carried out by the platform, leg by leg, on every
\* way through an operation (_send_media, upload_media_from_url,
\* download_media).  mark_as_read and the stream of a file believe any 2xx.
SuccessIsReal ==
    \A s \in Senders :
        result[s] = "ok" =>
            \A i \in DOMAIN Legs[Op(s)] :
                LET leg == Legs[Op(s)][i]
                IN  carried[s][leg] >= 1 \/ (leg \in Unread /\ doubt[s])
=============================================================================
