-------------------------- MODULE Messenger_proofs --------------------------
(***************************************************************************)
(* Proofs about Messenger, for any coroutines and any number of attempts.  *)
(*                                                                         *)
(* The invariant says of each coroutine what is known of its message at    *)
(* each point of its call, as long as nothing hid it (Known), that a       *)
(* result comes with what the platform carried out (Real), and that result *)
(* and outcome are written when the call is that far (InTurn).             *)
(***************************************************************************)
EXTENDS Messenger, TLAPS

LEMMA LegFacts ==
    /\ Ops = {"message", "file", "upload", "reupload", "fetch", "read", "template"}
    /\ Legs["message"] = <<"send">>
    /\ Legs["file"] = <<"upload", "send">>
    /\ Legs["upload"] = <<"upload">>
    /\ Legs["reupload"] = <<"download", "upload">>
    /\ Legs["fetch"] = <<"info", "stream">>
    /\ Legs["read"] = <<"mark">>
    /\ Legs["template"] = <<"send">>
  BY DEF Ops, Legs

\* One leg or two, and what is downloaded is not all.
LEMMA LegTypes ==
    ASSUME NEW op \in Ops
    PROVE  /\ Len(Legs[op]) = 1 \/ Len(Legs[op]) = 2
           /\ Legs[op][1] \in LegKinds
           /\ Len(Legs[op]) = 2 => Legs[op][2] \in LegKinds
           /\ Legs[op][1] \in {"send", "mark"} => Len(Legs[op]) = 1
           /\ Legs[op][1] \in {"download", "info"} => Len(Legs[op]) = 2
           /\ Len(Legs[op]) = 2 => Legs[op][2] \notin {"download", "info"}
           /\ Legs[op][1] # "stream"
  BY LegFacts DEF LegKinds

LEMMA LegDomain ==
    ASSUME NEW op \in Ops, NEW i \in DOMAIN Legs[op]
    PROVE  i = 1 \/ (i = 2 /\ Len(Legs[op]) = 2)
  BY LegFacts

-----------------------------------------------------------------------------
(* Types.                                                                  *)

\* The leg of a call is one of its operation's.
HasLeg(op, leg) == leg = 1 \/ (leg = 2 /\ Len(Legs[op]) = 2)

LegInRange == \A s \in Senders : HasLeg(call[s].op, call[s].leg)

TypeInv == TypeOK /\ LegInRange

PCs == {"idle", "preparing", "ready", "waiting", "returned", "ended"}

LEMMA SetType ==
    ASSUME TypeInv, NEW s \in Senders, NEW c \in Call,
           HasLeg(c.op, c.leg),
           call' = [call EXCEPT ![s] = c]
    PROVE  /\ call' \in [Senders -> Call]
           /\ LegInRange'
  <1>1. call \in [Senders -> Call]
    BY DEF TypeInv, TypeOK
  <1>2. call' \in [Senders -> Call]
    BY <1>1
  <1>3. ASSUME NEW t \in Senders
        PROVE  HasLeg(call'[t].op, call'[t].leg)
    <2>1. CASE t = s
      BY <1>1, <2>1
    <2>2. CASE t # s
      BY <1>1, <2>2 DEF TypeInv, LegInRange
    <2> QED  BY <2>1, <2>2
  <1> QED  BY <1>2, <1>3 DEF LegInRange

\* A call at leg one of an operation, or at leg two where it has one.
LEMMA RecordType ==
    ASSUME TypeInv, NEW s \in Senders, NEW pc \in PCs, NEW live \in BOOLEAN,
           NEW op \in Ops, NEW n \in 1..MaxAttempts,
           NEW leg, HasLeg(op, leg),
           call' = Set(call, s, [pc |-> pc, op |-> op, leg |-> leg, live |-> live,
                                 attempt |-> n])
    PROVE  /\ call' \in [Senders -> Call]
           /\ LegInRange'
  <1> DEFINE c == [pc |-> pc, op |-> op, leg |-> leg, live |-> live, attempt |-> n]
  <1>1. c \in Call /\ c.leg = leg /\ c.op = op
    BY DEF Call, PCs, HasLeg
  <1>3. call' = [call EXCEPT ![s] = c]
    BY DEF Set
  <1> HIDE DEF c
  <1> QED  BY <1>1, <1>3, SetType

\* Where a call can be.
LEMMA CallFacts ==
    ASSUME TypeInv, NEW s \in Senders
    PROVE  /\ call[s].pc \in PCs
           /\ call[s].op \in Ops
           /\ HasLeg(call[s].op, call[s].leg)
           /\ call[s].live \in BOOLEAN
           /\ call[s].attempt \in 1..MaxAttempts
  <1>1. /\ call[s] \in Call
        /\ HasLeg(call[s].op, call[s].leg)
    BY DEF TypeInv, TypeOK, LegInRange
  <1> QED  BY <1>1 DEF Call, PCs

LEMMA GotoType ==
    ASSUME TypeInv, NEW s \in Senders, NEW pc \in PCs, Goto(s, pc)
    PROVE  /\ call' \in [Senders -> Call]
           /\ LegInRange'
  <1>1. CASE pc = "ended"
    BY <1>1, CallFacts, RecordType DEF Goto, At, Op, HasLeg
  <1>2. CASE pc # "ended"
    BY <1>2, CallFacts, RecordType DEF Goto, At, Op
  <1> QED  BY <1>1, <1>2

LEMMA ReturnType ==
    ASSUME TypeInv, NEW s \in Senders, NEW r \in Results, Return(s, r)
    PROVE  /\ call' \in [Senders -> Call]
           /\ LegInRange'
           /\ result' \in [Senders -> Results \cup {"none"}]
  BY GotoType DEF PCs, Return, TypeInv, TypeOK, Set

LEMMA LegOf ==
    ASSUME TypeInv, NEW s \in Senders
    PROVE  Leg(s) \in LegKinds
  BY CallFacts, LegTypes DEF Leg, Op, HasLeg

LEMMA UnansweredType ==
    ASSUME NEW s \in Senders
    PROVE  Unanswered(s) \in Results
  BY DEF Unanswered, Results

LEMMA AcquireType ==
    ASSUME TypeInv, NEW s \in Senders, NEW n \in 1..MaxAttempts, Acquire(s, n)
    PROVE  /\ call' \in [Senders -> Call]
           /\ LegInRange'
           /\ outcome' \in [Senders -> Outcomes \cup {"none"}]
           /\ cached' \in {"none", "live", "dead"}
  <1>1. "template" \in Ops
    BY LegFacts
  <1>2. PICK pc \in PCs, live \in BOOLEAN :
            call' = Set(call, s, [pc |-> pc, op |-> "template", leg |-> 1,
                                  live |-> live, attempt |-> n])
    BY DEF Acquire, PCs
  <1>3. call' \in [Senders -> Call] /\ LegInRange'
    BY <1>1, <1>2, RecordType DEF HasLeg
  <1> QED  BY <1>3 DEF Acquire, TypeInv, TypeOK, Set, Outcomes

LEMMA AfreshType ==
    ASSUME TypeInv, NEW s \in Senders, Afresh(s)
    PROVE  /\ answer' \in [Senders -> Answers \cup {"none"}]
           /\ result' \in [Senders -> Results \cup {"none"}]
           /\ carried' \in [Senders -> [LegKinds -> Nat]]
           /\ doubt' \in [Senders -> BOOLEAN]
  BY DEF Afresh, TypeInv, TypeOK, Set

LEMMA GiveUpType ==
    ASSUME TypeInv, NEW s \in Senders, GiveUp(s)
    PROVE  /\ answer' \in [Senders -> Answers \cup {"none"}]
           /\ net' \subseteq Request
  BY DEF GiveUp, TypeInv, TypeOK, Set

LEMMA ConsumeType ==
    ASSUME TypeInv, NEW s \in Senders, Consume(s),
           call' \in [Senders -> Call], LegInRange',
           result' \in [Senders -> Results \cup {"none"}]
    PROVE  TypeInv'
  BY DEF Consume, TypeInv, TypeOK, Set

LEMMA Next1Type ==
    ASSUME TypeInv, NEW s \in Senders, Next1(s), ~LastLeg(s)
    PROVE  /\ call' \in [Senders -> Call]
           /\ LegInRange'
           /\ result' \in [Senders -> Results \cup {"none"}]
  <1>1. Len(Legs[Op(s)]) = 2 /\ Op(s) \in Ops
    BY CallFacts, LegTypes DEF LastLeg, Op, HasLeg
  <1>2. call' \in [Senders -> Call] /\ LegInRange'
    BY <1>1, CallFacts, RecordType DEF Next1, At, Op, PCs, HasLeg
  <1> QED  BY <1>2 DEF Next1, TypeInv, TypeOK

LEMMA TypeInit == Init => TypeInv
  <1> SUFFICES ASSUME Init PROVE TypeInv
    OBVIOUS
  <1>1. "message" \in Ops /\ Len(Legs["message"]) = 1
    BY LegFacts
  <1> DEFINE c == [pc |-> "idle", op |-> "message", leg |-> 1, live |-> FALSE,
                   attempt |-> 1]
  <1>2. c \in Call /\ c.leg = 1 /\ c.op = "message"
    BY <1>1, MessengerAssumption DEF Call
  <1>3. call = [s \in Senders |-> c]
    BY DEF Init
  <1> HIDE DEF c
  <1>4. call \in [Senders -> Call]
    BY <1>2, <1>3
  <1>5. ASSUME NEW s \in Senders
        PROVE  HasLeg(call[s].op, call[s].leg)
    BY <1>2, <1>3 DEF HasLeg
  <1> QED  BY <1>4, <1>5 DEF Init, TypeInv, TypeOK, LegInRange

LEMMA TypeStep ==
    ASSUME TypeInv, NEW s \in Senders, Step(s)
    PROVE  TypeInv'
  <1>1. CASE \E op \in Ops : Begin(s, op)
    <2>1. PICK op \in Ops : Begin(s, op)
      BY <1>1
    <2>2. call' = Set(call, s, [pc |-> "ready", op |-> op, leg |-> 1,
                                live |-> TRUE, attempt |-> 1])
      BY <2>1 DEF Begin
    <2>3. "ready" \in PCs /\ 1 \in 1..MaxAttempts /\ TRUE \in BOOLEAN
      BY MessengerAssumption DEF PCs
    <2>4. call' \in [Senders -> Call] /\ LegInRange'
      BY <2>2, <2>3, RecordType DEF HasLeg
    <2> QED  BY <2>1, <2>4, AfreshType DEF Begin, TypeInv, TypeOK, Set
  <1>2. CASE SendTemplate(s)
    <2>1. 1 \in 1..MaxAttempts
      BY MessengerAssumption
    <2> QED  BY <1>2, <2>1, AcquireType, AfreshType DEF SendTemplate, TypeInv, TypeOK
  <1>3. CASE Resend(s)
    <2>1. call[s].attempt + 1 \in 1..MaxAttempts
      BY <1>3, MessengerAssumption DEF Resend, TypeInv, TypeOK, Call
    <2> QED  BY <1>3, <2>1, AcquireType DEF Resend, TypeInv, TypeOK, Set
  <1>4. CASE Prepared(s) \/ NotPrepared(s) \/ End(s)
    <2>1. CASE Prepared(s)
      BY <2>1, GotoType DEF PCs, Prepared, TypeInv, TypeOK
    <2>2. CASE NotPrepared(s)
      BY <2>2, GotoType DEF PCs, NotPrepared, TypeInv, TypeOK, Set, Outcomes
    <2>3. CASE End(s)
      <3>1. Normalized(result[s]) \in Outcomes
        BY DEF Normalized, Outcomes
      <3> QED  BY <2>3, <3>1, GotoType DEF PCs, End, TypeInv, TypeOK, Set
    <2> QED  BY <1>4, <2>1, <2>2, <2>3
  <1>5. CASE Refuse(s) \/ PostClosed(s)
    <2>1. CASE Refuse(s)
      BY <2>1, ReturnType DEF Refuse, TypeInv, TypeOK, Results
    <2>2. CASE PostClosed(s)
      BY <2>2, ReturnType, UnansweredType DEF PostClosed, TypeInv, TypeOK
    <2> QED  BY <1>5, <2>1, <2>2
  <1>6. CASE Post(s)
    <2>1. [from |-> s, attempt |-> call[s].attempt, leg |-> Leg(s)] \in Request
      BY LegOf DEF Request, TypeInv, TypeOK, Call
    <2> QED  BY <1>6, <2>1, GotoType DEF PCs, Post, TypeInv, TypeOK
  <1>7. CASE NoAnswer(s)
    BY <1>7, ReturnType, UnansweredType, GiveUpType DEF NoAnswer, TypeInv, TypeOK
  <1>8. CASE SendReturns(s) \/ StreamReturns(s) \/ MarkReturns(s)
    <2>1. CASE SendReturns(s)
      <3>1. PICK r : /\ r = CASE answer[s] = "refused" -> "platform"
                            [] answer[s] = "garbled" -> "invalid"
                            [] OTHER -> answer[s]
                     /\ Return(s, r)
        BY <2>1 DEF SendReturns
      <3>2. r \in Results
        BY <3>1, <2>1 DEF SendReturns, Answered, TypeInv, TypeOK, Answers, Results
      <3> QED  BY <3>1, <3>2, <2>1, ReturnType, ConsumeType DEF SendReturns
    <2>2. CASE StreamReturns(s)
      BY <2>2, ReturnType, ConsumeType DEF StreamReturns, Results
    <2>3. CASE MarkReturns(s)
      BY <2>3, ReturnType, ConsumeType DEF MarkReturns, Results
    <2> QED  BY <1>8, <2>1, <2>2, <2>3
  <1>9. CASE UploadReturns(s) \/ DownloadReturns(s) \/ InfoReturns(s)
    <2>1. CASE UploadReturns(s)
      BY <2>1, ReturnType, ConsumeType, Next1Type DEF UploadReturns, Results
    <2>2. CASE DownloadReturns(s) \/ InfoReturns(s)
      <3>1. Leg(s) \in {"download", "info"} => ~LastLeg(s)
        BY CallFacts, LegTypes DEF Leg, LastLeg, Op, HasLeg
      <3> QED  BY <2>2, <3>1, ReturnType, ConsumeType, Next1Type
               DEF DownloadReturns, InfoReturns, Answered, Results
    <2> QED  BY <1>9, <2>1, <2>2
  <1>10. CASE MiddlewareEnds(s)
    <2>1. /\ call' \in [Senders -> Call]
          /\ LegInRange'
      BY <1>10, GotoType DEF PCs, MiddlewareEnds
    <2>2. outcome' \in [Senders -> Outcomes \cup {"none"}]
      BY <1>10 DEF MiddlewareEnds, TypeInv, TypeOK, Set, Outcomes
    <2> QED  BY <1>10, <2>1, <2>2 DEF MiddlewareEnds, TypeInv, TypeOK, Set, Results
  <1>11. CASE Cancel(s)
    BY <1>11, GotoType, GiveUpType DEF PCs, Cancel, TypeInv, TypeOK, Set, Results
  <1>12. CASE MiddlewareRetries(s)
    <2>1. /\ call[s].attempt + 1 \in 1..MaxAttempts
          /\ Op(s) \in Ops /\ call[s].live \in BOOLEAN /\ "ready" \in PCs
      BY <1>12, CallFacts, MessengerAssumption DEF MiddlewareRetries, Op, PCs
    <2>2. call' \in [Senders -> Call] /\ LegInRange'
      BY <1>12, <2>1, RecordType DEF MiddlewareRetries, HasLeg
    <2> QED  BY <1>12, <2>2 DEF MiddlewareRetries, TypeInv, TypeOK, Set
  <1> QED  BY <1>1, <1>2, <1>3, <1>4, <1>5, <1>6, <1>7, <1>8, <1>9, <1>10, <1>11, <1>12
           DEF Step

LEMMA TypeOutside ==
    ASSUME TypeInv,
           \/ \E r \in net : CarryOut(r) \/ TurnDown(r) \/ Vanish(r)
           \/ LoseSession \/ Recreate \/ BeginDrain \/ Close
    PROVE  TypeInv'
  <1>1. ASSUME NEW r \in net, CarryOut(r)
        PROVE  TypeInv'
    <2>1. r.from \in Senders /\ r.leg \in LegKinds
      BY DEF TypeInv, TypeOK, Request
    <2>2. PICK a \in Answers : Deliver(r, a)
      BY <1>1 DEF CarryOut
    <2> QED  BY <1>1, <2>1, <2>2 DEF CarryOut, Deliver, TypeInv, TypeOK, LegInRange, Set
  <1>2. ASSUME NEW r \in net, TurnDown(r) \/ Vanish(r)
        PROVE  TypeInv'
    <2>1. CASE Vanish(r)
      BY <2>1 DEF Vanish, TypeInv, TypeOK, LegInRange
    <2>2. CASE TurnDown(r)
      <3>1. PICK a \in Answers : Deliver(r, a)
        BY <2>2 DEF TurnDown
      <3> QED  BY <2>2, <3>1 DEF TurnDown, Deliver, TypeInv, TypeOK, LegInRange, Set
    <2> QED  BY <1>2, <2>1, <2>2
  <1>3. CASE LoseSession \/ Close
    <2>1. ASSUME NEW s \in Senders
          PROVE  /\ call'[s] \in Call
                 /\ call'[s].leg = call[s].leg /\ call'[s].op = call[s].op
      <3>1. call[s] \in Call
        BY DEF TypeInv, TypeOK
      <3>2. call'[s] = [call[s] EXCEPT !.live = FALSE]
        BY <1>3 DEF LoseSession, Close, Kill
      <3> QED  BY <3>1, <3>2 DEF Call
    <2>2. call' = [s \in Senders |-> call'[s]]
      BY <1>3 DEF LoseSession, Close, Kill
    <2>3. call' \in [Senders -> Call] /\ LegInRange'
      BY <2>1, <2>2 DEF TypeInv, LegInRange
    <2> QED  BY <1>3, <2>3 DEF LoseSession, Close, Kill, TypeInv, TypeOK
  <1>4. CASE Recreate \/ BeginDrain
    BY <1>4 DEF Recreate, BeginDrain, TypeInv, TypeOK, LegInRange
  <1> QED  BY <1>1, <1>2, <1>3, <1>4

LEMMA TypeNext == TypeInv /\ [Next]_vars => TypeInv'
  <1> SUFFICES ASSUME TypeInv, [Next]_vars PROVE TypeInv'
    OBVIOUS
  <1>1. CASE Next
    BY <1>1, TypeStep, TypeOutside DEF Next
  <1>2. CASE UNCHANGED vars
    BY <1>2 DEF vars, TypeInv, TypeOK, LegInRange
  <1> QED  BY <1>1, <1>2

\* Types, for any coroutines: every result of the messenger has an outcome.
THEOREM TypeCorrect == Spec => []TypeOK
  <1>1. TypeInv => TypeOK
    BY DEF TypeInv
  <1> QED  BY <1>1, TypeInit, TypeNext, PTL DEF Spec
-----------------------------------------------------------------------------
(* The invariant.                                                          *)

\* Nothing of the message of s was carried out, or can be.
Quiet(s) == carried[s]["send"] = 0 /\ ~Out(s)

\* What is written when: the outcome last, the result before it, and an
\* answer only for a call that waits for it.
InTurn(s) ==
    /\ call[s].pc # "ended" => outcome[s] = "none"
    /\ call[s].pc \in {"idle", "preparing", "ready", "waiting"} => result[s] = "none"
    /\ call[s].pc = "returned" => result[s] \notin {"none", "middleware", "cancelled"}
    /\ call[s].pc # "waiting" => answer[s] = "none"

\* The message has one request at most, which is carried out once at most; it
\* is quiet until it is posted, and where the transport says so.
Known(s) ==
    /\ \A q, r \in net : q.from = s /\ r.from = s /\ q.leg = "send" /\ r.leg = "send"
                            => q = r
    /\ Out(s) => carried[s]["send"] = 0
    /\ carried[s]["send"] \in {0, 1}
    /\ call[s].pc \in {"preparing", "ready"} => Quiet(s)
    /\ call[s].pc = "waiting" /\ Leg(s) # "send" => Quiet(s)
    /\ call[s].pc = "waiting" /\ Leg(s) = "send" /\ answer[s] \in {"refused", "garbled"}
        => Quiet(s)
    /\ call[s].pc = "returned" /\ result[s] \in {"platform", "invalid", "upload", "download"}
        => Quiet(s)
    /\ outcome[s] \in {"rejected", "transport_unavailable"} => Quiet(s)

Done(s, leg) == carried[s][leg] # 0

\* Done, or a body nobody looked into said so.
Shown(s, leg) == Done(s, leg) \/ (leg \in Unread /\ doubt[s])

\* The answer of s is taken for a success.
Believed(s) ==
    \/ answer[s] = "ok"
    \/ Leg(s) \in Unread /\ answer[s] \notin {"none", "refused"}

\* All legs of the operation.
AllShown(s) ==
    /\ Shown(s, Legs[Op(s)][1])
    /\ Len(Legs[Op(s)]) = 2 => Shown(s, Legs[Op(s)][2])

\* The first leg before the second, a leg before its answer, all legs before
\* a success.
Real(s) ==
    /\ call[s].leg = 2 => Done(s, Legs[Op(s)][1])
    /\ call[s].pc = "waiting" /\ Believed(s) => Shown(s, Leg(s))
    /\ result[s] = "ok" => AllShown(s)

Good(s) == InTurn(s) /\ (~doubt[s] => Known(s)) /\ Real(s)

Inv == TypeInv /\ \A s \in Senders : Good(s)
-----------------------------------------------------------------------------
(* What an action does not touch, and where it leaves its own call.        *)

\* Requests may go, nothing else changes but the messenger.
LEMMA Frame ==
    ASSUME NEW t \in Senders, Good(t),
           call'[t].pc = call[t].pc, call'[t].op = call[t].op,
           call'[t].leg = call[t].leg,
           answer'[t] = answer[t], result'[t] = result[t], outcome'[t] = outcome[t],
           carried'[t] = carried[t], doubt'[t] = doubt[t],
           \A r \in net' : r.from = t => r \in net
    PROVE  Good(t)'
  <1>1. Leg(t)' = Leg(t) /\ Op(t)' = Op(t)
    BY DEF Leg, Op
  <1>2. Quiet(t) => Quiet(t)'
    BY DEF Quiet, Out
  <1>3. Known(t) => Known(t)'
    BY <1>1, <1>2 DEF Known, Out
  <1>4. InTurn(t)' /\ Real(t)'
    BY <1>1 DEF Good, InTurn, Real, Done, Shown, AllShown, Believed
  <1> QED  BY <1>3, <1>4 DEF Good

LEMMA AtFacts ==
    ASSUME TypeInv, NEW s \in Senders, NEW pc, NEW leg, NEW live,
           call' = At(s, pc, leg, live)
    PROVE  /\ call'[s].pc = pc /\ call'[s].leg = leg
           /\ call'[s].op = call[s].op
           /\ \A t \in Senders \ {s} : call'[t] = call[t]
  BY DEF At, Set, Op, TypeInv, TypeOK

LEMMA GotoFacts ==
    ASSUME TypeInv, NEW s \in Senders, NEW pc, Goto(s, pc)
    PROVE  /\ call'[s].pc = pc
           /\ call'[s].leg \in {1, call[s].leg}
           /\ pc # "ended" => call'[s].leg = call[s].leg
           /\ call'[s].op = call[s].op
           /\ \A t \in Senders \ {s} : call'[t] = call[t]
  <1>1. CASE pc = "ended"
    BY <1>1, AtFacts DEF Goto
  <1>2. CASE pc # "ended"
    BY <1>2, AtFacts DEF Goto
  <1> QED  BY <1>1, <1>2

LEMMA ReturnFacts ==
    ASSUME TypeInv, NEW s \in Senders, NEW r, Return(s, r)
    PROVE  /\ result'[s] = r
           /\ call'[s].pc \in {"returned", "ended"}
           /\ call'[s].leg \in {1, call[s].leg}
           /\ call'[s].op = call[s].op
           /\ \A t \in Senders \ {s} : call'[t] = call[t] /\ result'[t] = result[t]
  <1>1. /\ result'[s] = r
        /\ \A t \in Senders \ {s} : result'[t] = result[t]
    BY DEF Return, Set, TypeInv, TypeOK
  <1>2. CASE Piped(s)
    BY <1>1, <1>2, GotoFacts DEF Return
  <1>3. CASE ~Piped(s)
    BY <1>1, <1>3, GotoFacts DEF Return
  <1> QED  BY <1>2, <1>3

\* A call returns to its middleware or to its caller.
LEMMA ReturnGood ==
    ASSUME TypeInv, NEW s \in Senders, Good(s),
           call[s].pc \in {"ready", "waiting"},
           NEW r \in Results \ {"middleware", "cancelled"}, Return(s, r),
           outcome' = outcome, carried' = carried, doubt' = doubt,
           answer'[s] = "none",
           \A q \in net' : q.from = s => q \in net,
           ~doubt[s] /\ r \in {"platform", "invalid", "upload", "download"} => Quiet(s),
           r = "ok" => AllShown(s)
    PROVE  Good(s)'
  <1>1. /\ result'[s] = r
        /\ call'[s].pc \in {"returned", "ended"}
        /\ call'[s].leg \in {1, call[s].leg}
        /\ Op(s)' = Op(s)
    BY ReturnFacts DEF Op
  <1>2. outcome[s] = "none" /\ r # "none"
    BY DEF Good, InTurn, Results
  <1>3. InTurn(s)'
    BY <1>1, <1>2 DEF InTurn
  <1>4. Quiet(s) => Quiet(s)'
    BY DEF Quiet, Out
  <1>5. ~doubt[s] => Known(s)'
    BY <1>1, <1>2, <1>4 DEF Good, Known, Out
  <1>6. Real(s)'
    BY <1>1 DEF Good, Real, Done, Shown, AllShown
  <1> QED  BY <1>3, <1>5, <1>6 DEF Good

\* A call starts: its message is quiet.
LEMMA StartGood ==
    ASSUME NEW s \in Senders,
           call'[s].leg = 1,
           \/ call'[s].pc \in {"preparing", "ready"} /\ outcome'[s] = "none"
           \/ call'[s].pc = "ended",
           answer'[s] = "none", result'[s] = "none",
           ~doubt'[s] => Quiet(s)'
    PROVE  Good(s)'
  <1>1. InTurn(s)'
    BY DEF InTurn
  <1>2. ~doubt'[s] => Known(s)'
    BY DEF Known, Quiet, Out
  <1>3. Real(s)'
    BY DEF Real
  <1> QED  BY <1>1, <1>2, <1>3 DEF Good
-----------------------------------------------------------------------------
(* The steps of one coroutine.                                             *)

\* A step of s is about s.
LEMMA StepFrame ==
    ASSUME TypeInv, NEW s \in Senders, NEW t \in Senders, t # s, Step(s)
    PROVE  /\ call'[t] = call[t]
           /\ answer'[t] = answer[t] /\ result'[t] = result[t]
           /\ outcome'[t] = outcome[t]
           /\ carried'[t] = carried[t] /\ doubt'[t] = doubt[t]
           /\ \A r \in net' : r.from = t => r \in net
  <1> USE DEF TypeInv, TypeOK, Set
  <1>1. CASE \E op \in Ops : Begin(s, op)
    BY <1>1 DEF Begin, Afresh
  <1>2. CASE SendTemplate(s)
    BY <1>2 DEF SendTemplate, Acquire, Afresh
  <1>3. CASE Resend(s)
    BY <1>3 DEF Resend, Acquire
  <1>4. CASE Prepared(s) \/ NotPrepared(s) \/ End(s)
    BY <1>4, GotoFacts DEF Prepared, NotPrepared, End
  <1>5. CASE Refuse(s) \/ PostClosed(s)
    BY <1>5, ReturnFacts DEF Refuse, PostClosed
  <1>6. CASE Post(s)
    BY <1>6, GotoFacts DEF Post
  <1>7. CASE NoAnswer(s)
    BY <1>7, ReturnFacts DEF NoAnswer, GiveUp
  <1>8. CASE SendReturns(s) \/ StreamReturns(s) \/ MarkReturns(s)
    BY <1>8, ReturnFacts DEF SendReturns, StreamReturns, MarkReturns, Consume
  <1>9. CASE UploadReturns(s) \/ DownloadReturns(s) \/ InfoReturns(s)
    BY <1>9, ReturnFacts, AtFacts
    DEF UploadReturns, DownloadReturns, InfoReturns, Consume, Next1
  <1>10. CASE MiddlewareEnds(s)
    BY <1>10, GotoFacts DEF MiddlewareEnds
  <1>11. CASE Cancel(s)
    BY <1>11, GotoFacts DEF Cancel, GiveUp
  <1>12. CASE MiddlewareRetries(s)
    BY <1>12 DEF MiddlewareRetries
  <1> QED  BY <1>1, <1>2, <1>3, <1>4, <1>5, <1>6, <1>7, <1>8, <1>9, <1>10, <1>11, <1>12
           DEF Step

\* The operation has been carried out when its last leg has.
LEMMA LastDone ==
    ASSUME TypeInv, NEW s \in Senders, Good(s), LastLeg(s), Shown(s, Leg(s))
    PROVE  AllShown(s)
  <1>1. HasLeg(Op(s), call[s].leg) /\ call[s].leg = Len(Legs[Op(s)])
    BY CallFacts DEF LastLeg, Op
  <1>2. CASE call[s].leg = 1
    BY <1>1, <1>2 DEF Leg, AllShown
  <1>3. CASE call[s].leg = 2
    BY <1>1, <1>3 DEF Leg, Good, Real, Shown, AllShown
  <1> QED  BY <1>1, <1>2, <1>3 DEF HasLeg

\* Sending, streaming and marking are the last of what they belong to.
LEMMA LastKinds ==
    ASSUME TypeInv, NEW s \in Senders, Leg(s) \in {"send", "stream", "mark"}
    PROVE  LastLeg(s)
  BY CallFacts, LegTypes DEF Leg, LastLeg, Op, HasLeg

LEMMA BeginGood ==
    ASSUME TypeInv, NEW s \in Senders, \E op \in Ops : Begin(s, op)
    PROVE  Good(s)'
  <1>1. PICK op \in Ops : Begin(s, op)
    OBVIOUS
  <1>2. call'[s].leg = 1 /\ call'[s].pc = "ready"
    BY <1>1 DEF Begin, Set, TypeInv, TypeOK
  <1>3. answer'[s] = "none" /\ result'[s] = "none" /\ outcome'[s] = "none"
    BY <1>1 DEF Begin, Afresh, Set, TypeInv, TypeOK
  <1>4. carried'[s]["send"] = 0
    BY <1>1 DEF Begin, Afresh, Set, TypeInv, TypeOK, LegKinds
  <1>5. Quiet(s)'
    BY <1>1, <1>4 DEF Begin, Free, Quiet, Out
  <1> QED  BY <1>2, <1>3, <1>5, StartGood

LEMMA AcquireFacts ==
    ASSUME TypeInv, NEW s \in Senders, NEW n, Acquire(s, n)
    PROVE  /\ call'[s].leg = 1
           /\ \/ call'[s].pc \in {"preparing", "ready"} /\ outcome'[s] = "none"
              \/ call'[s].pc = "ended"
  BY DEF Acquire, Set, TypeInv, TypeOK

LEMMA SendTemplateGood ==
    ASSUME TypeInv, NEW s \in Senders, SendTemplate(s)
    PROVE  Good(s)'
  <1>1. answer'[s] = "none" /\ result'[s] = "none"
    BY DEF SendTemplate, Afresh, Set, TypeInv, TypeOK
  <1>2. carried'[s]["send"] = 0
    BY DEF SendTemplate, Afresh, Set, TypeInv, TypeOK, LegKinds
  <1>3. Quiet(s)'
    BY <1>2 DEF SendTemplate, Free, Quiet, Out
  <1> QED  BY <1>1, <1>3, AcquireFacts, StartGood DEF SendTemplate

LEMMA ResendGood ==
    ASSUME TypeInv, NEW s \in Senders, Good(s), Resend(s)
    PROVE  Good(s)'
  <1>1. answer'[s] = "none" /\ result'[s] = "none"
    BY DEF Resend, Set, TypeInv, TypeOK
  <1>2. ~doubt[s] => Quiet(s)
    BY DEF Resend, Good, Known
  <1>3. ~doubt'[s] => Quiet(s)'
    BY <1>2 DEF Resend, Quiet, Out
  <1> QED  BY <1>1, <1>3, AcquireFacts, StartGood DEF Resend
LEMMA PreparedGood ==
    ASSUME TypeInv, NEW s \in Senders, Good(s), Prepared(s) \/ NotPrepared(s)
    PROVE  Good(s)'
  <1>1. call'[s].pc \in {"ready", "ended"} /\ call'[s].leg \in {1, call[s].leg}
        /\ Op(s)' = Op(s)
    BY GotoFacts DEF Prepared, NotPrepared, Op
  <1>2. /\ call[s].pc = "preparing"
        /\ answer' = answer /\ result' = result /\ carried' = carried
        /\ doubt' = doubt /\ net' = net
    BY DEF Prepared, NotPrepared
  <1>3. outcome'[s] = "none" \/ call'[s].pc = "ended"
    BY GotoFacts, <1>2 DEF Prepared, NotPrepared, Good, InTurn
  <1>4. InTurn(s)'
    BY <1>1, <1>2, <1>3 DEF Good, InTurn
  <1>5. ~doubt[s] => Known(s)'
    BY <1>1, <1>2 DEF Good, Known, Quiet, Out
  <1>6. Real(s)'
    BY <1>1, <1>2 DEF Good, Real, Done, Shown, AllShown
  <1> QED  BY <1>2, <1>4, <1>5, <1>6 DEF Good

LEMMA PostGood ==
    ASSUME TypeInv, NEW s \in Senders, Good(s), Post(s)
    PROVE  Good(s)'
  <1>1. call'[s].pc = "waiting" /\ call'[s].leg = call[s].leg
        /\ Op(s)' = Op(s) /\ Leg(s)' = Leg(s)
    BY GotoFacts DEF Post, Op, Leg
  <1>2. /\ call[s].pc = "ready"
        /\ answer' = answer /\ result' = result /\ carried' = carried
        /\ doubt' = doubt /\ outcome' = outcome
    BY DEF Post
  <1>3. answer[s] = "none" /\ outcome[s] = "none"
    BY <1>2 DEF Good, InTurn
  <1> DEFINE q == [from |-> s, attempt |-> call[s].attempt, leg |-> Leg(s)]
  <1>4. net' = net \cup {q} /\ q.leg = Leg(s)
    BY DEF Post
  <1>5. InTurn(s)' /\ Real(s)'
    BY <1>1, <1>2, <1>3 DEF Good, InTurn, Real, Done, Shown, AllShown, Believed
  <1>6. ASSUME ~doubt[s]
        PROVE  Known(s)'
    <2>1. Quiet(s)
      BY <1>2, <1>6 DEF Good, Known
    <2>2. \A r \in net' : r.from = s /\ r.leg = "send" => r = q
      BY <1>4, <2>1 DEF Quiet, Out
    <2>3. Leg(s) # "send" => Quiet(s)'
      BY <1>2, <1>4, <2>1 DEF Quiet, Out
    <2> HIDE DEF q
    <2> QED  BY <1>1, <1>2, <1>3, <2>1, <2>2, <2>3 DEF Known, Quiet
  <1> QED  BY <1>2, <1>5, <1>6 DEF Good

LEMMA NoRequestGood ==
    ASSUME TypeInv, NEW s \in Senders, Good(s), Refuse(s) \/ PostClosed(s)
    PROVE  Good(s)'
  <1>1. PICK r \in {"invalid", "upload", "indeterminate", "download"} : Return(s, r)
    BY DEF Refuse, PostClosed, Unanswered
  <1>2. /\ call[s].pc = "ready"
        /\ net' = net /\ answer' = answer /\ outcome' = outcome
        /\ carried' = carried /\ doubt' = doubt
    BY DEF Refuse, PostClosed
  <1>3. answer[s] = "none" /\ (~doubt[s] => Quiet(s))
    BY <1>2 DEF Good, InTurn, Known
  <1> QED  BY <1>1, <1>2, <1>3, ReturnGood DEF Results

LEMMA NoAnswerGood ==
    ASSUME TypeInv, NEW s \in Senders, Good(s), NoAnswer(s)
    PROVE  Good(s)'
  <1>1. PICK r : r = Unanswered(s) /\ Return(s, r)
    BY DEF NoAnswer
  <1>2. /\ r \in {"indeterminate", "upload", "download"}
        /\ r # "indeterminate" => Leg(s) # "send"
    BY <1>1 DEF Unanswered
  <1>3. /\ call[s].pc = "waiting" /\ answer'[s] = "none"
        /\ \A q \in net' : q.from = s => q \in net
        /\ outcome' = outcome /\ carried' = carried /\ doubt' = doubt
    BY DEF NoAnswer, GiveUp, Set, TypeInv, TypeOK
  <1>4. ~doubt[s] /\ r # "indeterminate" => Quiet(s)
    BY <1>2, <1>3 DEF Good, Known
  <1> QED  BY <1>1, <1>2, <1>3, <1>4, ReturnGood DEF Results

\* The answer is taken and the call returns.
LEMMA AnswerGood ==
    ASSUME TypeInv, NEW s \in Senders, Good(s),
           call[s].pc = "waiting", Consume(s),
           NEW r \in Results \ {"middleware", "cancelled"}, Return(s, r),
           r = "ok" => LastLeg(s) /\ Believed(s),
           r \in {"platform", "invalid", "upload", "download"} =>
              Leg(s) # "send" \/ answer[s] \in {"refused", "garbled"}
    PROVE  Good(s)'
  <1>1. /\ answer'[s] = "none"
        /\ net' = net /\ outcome' = outcome /\ carried' = carried /\ doubt' = doubt
    BY DEF Consume, Set, TypeInv, TypeOK
  <1>2. r = "ok" => LastLeg(s) /\ Shown(s, Leg(s))
    BY DEF Good, Real
  <1>3. ~doubt[s] /\ r \in {"platform", "invalid", "upload", "download"} => Quiet(s)
    BY DEF Good, Known
  <1> QED  BY <1>1, <1>2, <1>3, LastDone, ReturnGood

\* The answer is taken and the second leg is next.
LEMMA Next1Good ==
    ASSUME TypeInv, NEW s \in Senders, Good(s),
           call[s].pc = "waiting", Consume(s), Next1(s),
           ~LastLeg(s), Leg(s) # "send", answer[s] = "ok"
    PROVE  Good(s)'
  <1>1. call'[s].pc = "ready" /\ call'[s].leg = 2 /\ Op(s)' = Op(s)
    BY AtFacts DEF Next1, Op
  <1>2. /\ answer'[s] = "none" /\ result' = result
        /\ net' = net /\ outcome' = outcome /\ carried' = carried /\ doubt' = doubt
    BY DEF Consume, Next1, Set, TypeInv, TypeOK
  <1>3. call[s].leg = 1
    BY CallFacts DEF HasLeg, LastLeg, Op
  <1>4. Done(s, Legs[Op(s)][1])
    <2>1. Leg(s) \notin Unread
      BY LastKinds DEF Unread
    <2> QED  BY <1>3, <2>1 DEF Good, Real, Leg, Shown, Believed
  <1>5. outcome[s] = "none" /\ result[s] = "none" /\ (~doubt[s] => Quiet(s))
    BY DEF Good, InTurn, Known
  <1>6. InTurn(s)' /\ Real(s)'
    BY <1>1, <1>2, <1>4, <1>5 DEF InTurn, Real, Done
  <1>7. ~doubt[s] => Known(s)'
    BY <1>1, <1>2, <1>5 DEF Good, Known, Quiet, Out
  <1> QED  BY <1>2, <1>6, <1>7 DEF Good
LEMMA LastReturnsGood ==
    ASSUME TypeInv, NEW s \in Senders, Good(s),
           SendReturns(s) \/ StreamReturns(s) \/ MarkReturns(s)
    PROVE  Good(s)'
  <1>1. /\ call[s].pc = "waiting" /\ Consume(s) /\ LastLeg(s)
        /\ answer[s] \in Answers
    BY LastKinds
    DEF SendReturns, StreamReturns, MarkReturns, Answered, TypeInv, TypeOK
  <1>2. CASE SendReturns(s)
    <2>1. PICK r : /\ r = CASE answer[s] = "refused" -> "platform"
                          [] answer[s] = "garbled" -> "invalid"
                          [] OTHER -> answer[s]
                   /\ Return(s, r)
      BY <1>2 DEF SendReturns
    <2>2. \/ r = "platform" /\ answer[s] = "refused"
          \/ r = "invalid" /\ answer[s] = "garbled"
          \/ r \in {"ok", "no_id"} /\ answer[s] = r
      BY <1>1, <2>1 DEF Answers
    <2> QED  BY <1>1, <2>1, <2>2, AnswerGood DEF Results, Believed
  <1>3. CASE StreamReturns(s)
    <2>1. Leg(s) = "stream" /\ answer[s] # "none"
      BY <1>3 DEF StreamReturns, Answered
    <2>2. CASE answer[s] # "refused" /\ Return(s, "ok")
      BY <1>1, <2>1, <2>2, AnswerGood DEF Results, Believed, Unread
    <2>3. CASE Return(s, "download")
      BY <1>1, <2>1, <2>3, AnswerGood DEF Results
    <2> QED  BY <1>3, <2>2, <2>3 DEF StreamReturns
  <1>4. CASE MarkReturns(s)
    <2>1. Leg(s) = "mark" /\ answer[s] # "none"
      BY <1>4 DEF MarkReturns, Answered
    <2>2. CASE answer[s] = "refused"
      BY <1>1, <1>4, <2>1, <2>2, AnswerGood DEF MarkReturns, Results
    <2>3. CASE answer[s] # "refused"
      BY <1>1, <1>4, <2>1, <2>3, AnswerGood DEF MarkReturns, Results, Believed, Unread
    <2> QED  BY <2>2, <2>3
  <1> QED  BY <1>2, <1>3, <1>4

LEMMA MediaReturnsGood ==
    ASSUME TypeInv, NEW s \in Senders, Good(s),
           UploadReturns(s) \/ DownloadReturns(s) \/ InfoReturns(s)
    PROVE  Good(s)'
  <1>1. /\ call[s].pc = "waiting" /\ Consume(s)
        /\ Leg(s) \in {"upload", "download", "info"} /\ Leg(s) # "send"
    BY DEF UploadReturns, DownloadReturns, InfoReturns, Answered
  <1>2. Leg(s) \in {"download", "info"} => ~LastLeg(s)
    BY CallFacts, LegTypes DEF Leg, LastLeg, Op, HasLeg
  <1>3. CASE answer[s] = "ok" /\ Next1(s) /\ ~LastLeg(s)
    BY <1>1, <1>3, Next1Good
  <1>4. CASE answer[s] = "ok" /\ Return(s, "ok") /\ LastLeg(s)
    BY <1>1, <1>4, AnswerGood DEF Results, Believed
  <1>5. CASE Return(s, "upload") \/ Return(s, "download")
    BY <1>1, <1>5, AnswerGood DEF Results
  <1> QED  BY <1>1, <1>2, <1>3, <1>4, <1>5
           DEF UploadReturns, DownloadReturns, InfoReturns, Answered

LEMMA EndGood ==
    ASSUME TypeInv, NEW s \in Senders, Good(s), End(s)
    PROVE  Good(s)'
  <1>2. call'[s].pc = "ended" /\ call'[s].leg \in {1, call[s].leg} /\ Op(s)' = Op(s)
    BY GotoFacts DEF End, Op
  <1>3. /\ call[s].pc = "returned"
        /\ answer' = answer /\ result' = result /\ net' = net
        /\ carried' = carried /\ doubt' = doubt
        /\ outcome'[s] \in {outcome[s], Normalized(result[s])}
    BY DEF End, Set, TypeInv, TypeOK
  <1>4. /\ outcome[s] = "none" /\ answer[s] = "none"
        /\ result[s] \in Results \ {"middleware", "cancelled"}
    BY <1>3 DEF Good, InTurn, TypeInv, TypeOK
  <1>5. outcome'[s] \in {"rejected", "transport_unavailable"} =>
           result[s] \in {"platform", "invalid", "upload", "download"}
    BY <1>3, <1>4 DEF Normalized, Results
  <1>6. InTurn(s)' /\ Real(s)'
    BY <1>2, <1>3, <1>4 DEF Good, InTurn, Real, Done, Shown, AllShown
  <1>7. ~doubt[s] => Known(s)'
    BY <1>2, <1>3, <1>5 DEF Good, Known, Quiet, Out
  <1> QED  BY <1>3, <1>6, <1>7 DEF Good

LEMMA MiddlewareEndsGood ==
    ASSUME TypeInv, NEW s \in Senders, Good(s), MiddlewareEnds(s)
    PROVE  Good(s)'
  <1>1. call'[s].pc = "ended" /\ call'[s].leg \in {1, call[s].leg} /\ Op(s)' = Op(s)
    BY GotoFacts DEF MiddlewareEnds, Op
  <1>2. /\ call[s].pc \in {"ready", "returned"}
        /\ call[s].pc = "returned" => doubt'[s]
        /\ doubt[s] => doubt'[s]
        /\ answer' = answer /\ result'[s] = "middleware" /\ net' = net
        /\ carried' = carried
    BY DEF MiddlewareEnds, Set, TypeInv, TypeOK
  <1>3. InTurn(s)' /\ Real(s)'
    BY <1>1, <1>2 DEF Good, InTurn, Real, Done
  <1>4. ~doubt'[s] => Known(s)'
    BY <1>1, <1>2 DEF Good, Known, Quiet, Out
  <1> QED  BY <1>3, <1>4 DEF Good

LEMMA MiddlewareRetriesGood ==
    ASSUME TypeInv, NEW s \in Senders, Good(s), MiddlewareRetries(s)
    PROVE  Good(s)'
  <1>1. call'[s].pc = "ready" /\ call'[s].leg = 1
    BY DEF MiddlewareRetries, Set, TypeInv, TypeOK
  <1>2. /\ call[s].pc = "returned"
        /\ answer' = answer /\ outcome' = outcome /\ result'[s] = "none"
        /\ net' = net /\ carried' = carried
        /\ doubt'[s] = (doubt[s] \/ result[s] = "indeterminate")
    BY DEF MiddlewareRetries, Set, TypeInv, TypeOK
  <1>3. answer[s] = "none" /\ outcome[s] = "none"
    BY <1>2 DEF Good, InTurn
  <1>4. ASSUME ~doubt'[s]
        PROVE  Quiet(s)'
    <2>1. result[s] \in {"platform", "invalid", "upload", "download"}
      BY <1>2, <1>4 DEF MiddlewareRetries, Good, InTurn, TypeInv, TypeOK, Results
    <2> QED  BY <1>2, <1>4, <2>1 DEF Good, Known, Quiet, Out
  <1> QED  BY <1>1, <1>2, <1>3, <1>4, StartGood

LEMMA CancelGood ==
    ASSUME TypeInv, NEW s \in Senders, Good(s), Cancel(s)
    PROVE  Good(s)'
  <1>1. call'[s].pc = "ended" /\ call'[s].leg \in {1, call[s].leg} /\ Op(s)' = Op(s)
    BY GotoFacts DEF Cancel, Op
  <1>2. /\ answer'[s] = "none" /\ result'[s] = "cancelled" /\ outcome'[s] = "none"
        /\ carried' = carried /\ doubt' = doubt
        /\ \A r \in net' : r.from = s => r \in net
    BY DEF Cancel, GiveUp, Set, TypeInv, TypeOK
  <1>3. InTurn(s)' /\ Real(s)'
    BY <1>1, <1>2 DEF Good, InTurn, Real, Done
  <1>4. ~doubt[s] => Known(s)'
    BY <1>1, <1>2 DEF Good, Known, Quiet, Out
  <1> QED  BY <1>2, <1>3, <1>4 DEF Good

LEMMA StepGood ==
    ASSUME TypeInv, \A t \in Senders : Good(t), NEW s \in Senders, Step(s)
    PROVE  \A t \in Senders : Good(t)'
  <1>1. Good(s)'
    BY BeginGood, SendTemplateGood, ResendGood, PreparedGood, PostGood, NoRequestGood,
       NoAnswerGood, LastReturnsGood, MediaReturnsGood, EndGood,
       MiddlewareEndsGood, MiddlewareRetriesGood, CancelGood
    DEF Step
  <1>2. ASSUME NEW t \in Senders, t # s
        PROVE  Good(t)'
    BY <1>2, StepFrame, Frame
  <1> QED  BY <1>1, <1>2
-----------------------------------------------------------------------------
(* The platform and the session.                                           *)

\* Where the response of a request arrives.
LEMMA DeliverFacts ==
    ASSUME TypeInv, NEW r \in net, NEW a, Deliver(r, a)
    PROVE  /\ r.from \in Senders /\ r.leg \in LegKinds
           /\ net' = net \ {r}
           /\ \A t \in Senders \ {r.from} : answer'[t] = answer[t]
           /\ \/ answer'[r.from] = answer[r.from]
              \/ /\ answer'[r.from] = a
                 /\ call[r.from].pc = "waiting" /\ Leg(r.from) = r.leg
  BY DEF Deliver, Set, TypeInv, TypeOK, Request

LEMMA CarryOutGood ==
    ASSUME TypeInv, NEW r \in net, Good(r.from), CarryOut(r)
    PROVE  Good(r.from)'
  <1> DEFINE s == r.from
  <1>1. PICK a \in Answers :
            /\ Deliver(r, a)
            /\ doubt' = Set(doubt, s, doubt[s] \/ (r.leg = "send" /\ a \in {"garbled", "refused"}))
    BY DEF CarryOut
  <1>2. /\ s \in Senders /\ r.leg \in LegKinds /\ net' = net \ {r}
        /\ \/ answer'[s] = answer[s]
           \/ answer'[s] = a /\ call[s].pc = "waiting" /\ Leg(s) = r.leg
    BY <1>1, DeliverFacts
  <1>3. call' = call /\ result' = result /\ outcome' = outcome
    BY DEF CarryOut
  <1>4. ~doubt'[s] => ~doubt[s] /\ (r.leg = "send" => a \notin {"garbled", "refused"})
    BY <1>1, <1>2 DEF Set, TypeInv, TypeOK
  <1>5. /\ carried'[s][r.leg] = carried[s][r.leg] + 1
        /\ \A l \in LegKinds \ {r.leg} : carried'[s][l] = carried[s][l]
        /\ \A l \in LegKinds : carried[s][l] \in Nat
    BY <1>2 DEF CarryOut, TypeInv, TypeOK
  <1>6. Leg(s)' = Leg(s) /\ Op(s)' = Op(s) /\ a # "none"
    BY <1>3 DEF Leg, Op, Answers
  <1>7. \A l \in LegKinds : Done(s, l) => Done(s, l)'
    BY <1>5 DEF Done
  <1>8. Done(s, r.leg)'
    BY <1>2, <1>5 DEF Done
  <1>9. InTurn(s)'
    BY <1>2, <1>3 DEF Good, InTurn
  <1>10. Real(s)'
    <2>1. /\ Legs[Op(s)][1] \in LegKinds /\ Leg(s) \in LegKinds
          /\ Len(Legs[Op(s)]) = 2 => Legs[Op(s)][2] \in LegKinds
      BY <1>2, CallFacts, LegTypes, LegOf DEF Op
    <2>2. doubt[s] => doubt'[s]
      BY <1>1, <1>2 DEF Set, TypeInv, TypeOK
    <2>3. \A l \in LegKinds : Shown(s, l) => Shown(s, l)'
      BY <1>7, <2>2 DEF Shown
    <2>4. AllShown(s) => AllShown(s)'
      BY <1>6, <2>1, <2>3 DEF AllShown
    <2> QED  BY <1>2, <1>3, <1>6, <1>7, <1>8, <2>1, <2>3, <2>4
             DEF Good, Real, Done, Shown, Believed
  <1>11. ASSUME ~doubt'[s]
         PROVE  Known(s)'
    <2>1. Known(s)
      BY <1>4, <1>11 DEF Good
    <2>2. CASE r.leg = "send"
      <3>1. Out(s) /\ carried[s]["send"] = 0 /\ carried'[s]["send"] = 1
        BY <1>5, <2>1, <2>2 DEF Known, Out
      <3>2. ~Out(s)'
        BY <1>2, <2>1, <2>2 DEF Known, Out
      <3> QED  BY <1>2, <1>3, <1>4, <1>6, <1>11, <2>1, <2>2, <3>1, <3>2 DEF Known, Quiet
    <2>3. CASE r.leg # "send"
      <3>1. carried'[s]["send"] = carried[s]["send"]
        BY <1>5, <2>3 DEF LegKinds
      <3>2. Out(s)' <=> Out(s)
        BY <1>2, <2>3 DEF Out
      <3> QED  BY <1>2, <1>3, <1>6, <2>1, <2>3, <3>1, <3>2 DEF Known, Quiet
    <2> QED  BY <2>2, <2>3
  <1> QED  BY <1>9, <1>10, <1>11 DEF Good

LEMMA TurnDownGood ==
    ASSUME TypeInv, NEW r \in net, Good(r.from), TurnDown(r)
    PROVE  Good(r.from)'
  <1> DEFINE s == r.from
  <1>0. PICK a \in Answers \ {"ok"} :
            /\ Deliver(r, a)
            /\ doubt' = Set(doubt, s, doubt[s] \/ (r.leg \in Unread /\ a # "refused"))
    BY DEF TurnDown
  <1>1. /\ s \in Senders /\ net' = net \ {r}
        /\ \/ answer'[s] = answer[s]
           \/ answer'[s] = a /\ call[s].pc = "waiting" /\ Leg(s) = r.leg
    BY <1>0, DeliverFacts
  <1>2. /\ call' = call /\ result' = result /\ outcome' = outcome
        /\ carried' = carried
        /\ doubt'[s] = (doubt[s] \/ (r.leg \in Unread /\ a # "refused"))
        /\ Leg(s)' = Leg(s) /\ Op(s)' = Op(s)
    BY <1>0, <1>1 DEF TurnDown, Leg, Op, Set, TypeInv, TypeOK
  <1>3. InTurn(s)' /\ Real(s)'
    <2>1. InTurn(s)'
      BY <1>1, <1>2 DEF Good, InTurn
    <2>2. AllShown(s) => AllShown(s)'
      BY <1>2 DEF AllShown, Shown, Done
    <2>3. ASSUME call[s].pc = "waiting", Believed(s)'
          PROVE  Shown(s, Leg(s))'
      <3>1. CASE answer'[s] = answer[s]
        BY <1>2, <2>3, <3>1 DEF Good, Real, Believed, Shown, Done
      <3>2. CASE answer'[s] = a /\ Leg(s) = r.leg
        BY <1>2, <2>3, <3>2 DEF Believed, Shown, Answers
      <3> QED  BY <1>1, <3>1, <3>2
    <2> QED  BY <1>2, <2>1, <2>2, <2>3 DEF Good, Real, Done
  <1>4. ASSUME ~doubt'[s]
        PROVE  Known(s)'
    <2>1. Known(s) /\ (Quiet(s) => Quiet(s)') /\ (Out(s)' => Out(s))
      BY <1>1, <1>2, <1>4 DEF Good, Quiet, Out
    <2>2. r.leg = "send" => Quiet(s)'
      BY <1>1, <1>2, <2>1 DEF Known, Quiet, Out
    <2> QED  BY <1>1, <1>2, <2>1, <2>2 DEF Known
  <1> QED  BY <1>2, <1>3, <1>4 DEF Good

LEMMA OutsideGood ==
    ASSUME TypeInv, \A t \in Senders : Good(t),
           \/ \E r \in net : CarryOut(r) \/ TurnDown(r) \/ Vanish(r)
           \/ LoseSession \/ Recreate \/ BeginDrain \/ Close
    PROVE  \A t \in Senders : Good(t)'
  <1>1. ASSUME NEW r \in net, CarryOut(r), NEW t \in Senders
        PROVE  Good(t)'
    <2>1. CASE t = r.from
      BY <1>1, <2>1, CarryOutGood
    <2>2. CASE t # r.from
      <3>1. PICK a : Deliver(r, a) /\ (\E v : doubt' = Set(doubt, r.from, v))
        BY <1>1 DEF CarryOut
      <3>2. answer'[t] = answer[t] /\ net' = net \ {r} /\ r.from \in Senders
        BY <2>2, <3>1, DeliverFacts
      <3>3. carried'[t] = carried[t] /\ doubt'[t] = doubt[t]
        BY <1>1, <2>2, <3>1, <3>2 DEF CarryOut, Set, TypeInv, TypeOK
      <3> QED  BY <1>1, <3>2, <3>3, Frame DEF CarryOut
    <2> QED  BY <2>1, <2>2
  <1>2. ASSUME NEW r \in net, TurnDown(r), NEW t \in Senders
        PROVE  Good(t)'
    <2>1. CASE t = r.from
      BY <1>2, <2>1, TurnDownGood
    <2>2. CASE t # r.from
      <3>1. PICK a : Deliver(r, a) /\ (\E v : doubt' = Set(doubt, r.from, v))
        BY <1>2 DEF TurnDown
      <3>2. /\ answer'[t] = answer[t] /\ net' = net \ {r}
            /\ doubt'[t] = doubt[t]
        BY <2>2, <3>1, DeliverFacts DEF Set, TypeInv, TypeOK
      <3> QED  BY <1>2, <3>2, Frame DEF TurnDown
    <2> QED  BY <2>1, <2>2
  <1>3. ASSUME NEW r \in net, Vanish(r), NEW t \in Senders
        PROVE  Good(t)'
    BY <1>3, Frame DEF Vanish
  <1>4. ASSUME LoseSession \/ Close, NEW t \in Senders
        PROVE  Good(t)'
    <2>1. call'[t].pc = call[t].pc /\ call'[t].op = call[t].op
          /\ call'[t].leg = call[t].leg
      BY <1>4 DEF LoseSession, Close, Kill, TypeInv, TypeOK, Call
    <2> QED  BY <1>4, <2>1, Frame DEF LoseSession, Close, Kill
  <1>5. ASSUME Recreate \/ BeginDrain, NEW t \in Senders
        PROVE  Good(t)'
    BY <1>5, Frame DEF Recreate, BeginDrain
  <1> QED  BY <1>1, <1>2, <1>3, <1>4, <1>5

-----------------------------------------------------------------------------
(* The theorems.                                                           *)

LEMMA InvInit == Init => Inv
  <1> SUFFICES ASSUME Init PROVE Inv
    OBVIOUS
  <1>1. ASSUME NEW s \in Senders
        PROVE  Good(s)
    <2>1. /\ call[s].pc = "idle" /\ call[s].leg = 1
          /\ answer[s] = "none" /\ result[s] = "none" /\ outcome[s] = "none"
          /\ net = {} /\ carried[s]["send"] = 0
      BY DEF Init, LegKinds
    <2> QED  BY <2>1 DEF Good, InTurn, Known, Real, Quiet, Out
  <1> QED  BY <1>1, TypeInit DEF Inv

LEMMA InvNext == Inv /\ [Next]_vars => Inv'
  <1> SUFFICES ASSUME Inv, [Next]_vars PROVE Inv'
    OBVIOUS
  <1>1. TypeInv /\ TypeInv'
    BY TypeNext DEF Inv
  <1>2. CASE Next
    <2>1. \A s \in Senders : Good(s)'
      BY <1>1, <1>2, StepGood, OutsideGood DEF Next, Inv
    <2> QED  BY <1>1, <2>1 DEF Inv
  <1>3. CASE UNCHANGED vars
    <2>1. ASSUME NEW s \in Senders
          PROVE  Good(s)'
      BY <1>3, Frame DEF vars, Inv
    <2> QED  BY <1>1, <2>1 DEF Inv
  <1> QED  BY <1>2, <1>3

\* Whatever the platform and the network do, a template reported rejected or
\* not started was not carried out and will not be, unless the platform's
\* answer or a middleware hid it.
THEOREM RejectedTruly == Spec => []RejectedIfKnown
  <1>1. Inv => RejectedIfKnown
    BY DEF Inv, Good, Known, Quiet, RejectedIfKnown
  <1> QED  BY <1>1, InvInit, InvNext, PTL DEF Spec

\* A host that resends what was rejected or not started, and nothing else,
\* has a template carried out once at most, however often it tries.
THEOREM SentAtMostOnce == Spec => []SentOnce
  <1>1. Inv => SentOnce
    BY DEF Inv, Good, Known, SentOnce
  <1> QED  BY <1>1, InvInit, InvNext, PTL DEF Spec

\* The messenger reports no success with an id unless the platform carried
\* out every leg whose response it looks into.
THEOREM SuccessHappened == Spec => []SuccessIsReal
  <1>1. ASSUME Inv
        PROVE  SuccessIsReal
    <2>1. ASSUME NEW s \in Senders, result[s] = "ok",
                 NEW i \in DOMAIN Legs[Op(s)]
          PROVE  LET leg == Legs[Op(s)][i]
                 IN  carried[s][leg] >= 1 \/ (leg \in Unread /\ doubt[s])
      <3>1. Op(s) \in Ops
        BY CallFacts, <1>1 DEF Inv, Op
      <3>2. i = 1 \/ (i = 2 /\ Len(Legs[Op(s)]) = 2)
        BY <3>1, <2>1, LegDomain
      <3>3. Legs[Op(s)][i] \in LegKinds
        BY <3>1, <3>2, LegTypes
      <3>4. Shown(s, Legs[Op(s)][i])
        BY <1>1, <2>1, <3>2 DEF Inv, Good, Real, AllShown
      <3> QED  BY <1>1, <3>3, <3>4 DEF Shown, Done, Inv, TypeInv, TypeOK
    <2> QED  BY <2>1 DEF SuccessIsReal
  <1> QED  BY <1>1, InvInit, InvNext, PTL DEF Spec
=============================================================================
