---------------------------- MODULE Inbound_proofs ----------------------------
(***************************************************************************)
(* Proofs about Inbound and CredentialStore, for any requests, webhooks    *)
(* and bounds: types, how revoked credentials can come back, and that the  *)
(* platform is told what has happened, however often it gives up.          *)
(***************************************************************************)
EXTENDS Inbound, FiniteSetTheorems, TLAPS

\* What was revoked was in the row.  What the cache holds has not been revoked,
\* unless a late fill has put it there; no lookup began in the future.
Fills ==
    /\ revoked <= row.version
    /\ \A p \in Requests : look[p].floor <= revoked
    /\ cached # NoHash => cached.version >= revoked \/ lateFill
    /\ revived => lateFill

\* The requests of w whose answer nobody hears.
Unheard(w) == {p \in Requests : /\ request[p].at # "idle"
                                /\ ~waited[p]
                                /\ Webhook(p) = w}

\* The platform waits for what it has delivered and has no answer to, once.
WaitsOnce ==
    \A p \in Requests :
        waited[p] => /\ request[p].at # "idle"
                     /\ Webhook(p) \notin answered
                     /\ \A q \in Requests : waited[q] /\ Webhook(q) = Webhook(p) => q = p

\* Every task of w, and every request that may still make one unheard, is one
\* the platform gave up on, but for the one that was answered.
Accounted(w) ==
    /\ IsFiniteSet(Unheard(w))
    /\ w \in answered => tracked[w] > 0
    /\ Cardinality(Unheard(w)) + tracked[w]
          <= givenUp[w] + (IF w \in answered THEN 1 ELSE 0)

IInv == TypeOK /\ Fills /\ WaitsOnce /\ \A w \in Webhooks : Accounted(w)

-----------------------------------------------------------------------------
(* The credential store.                                                   *)

\* A lookup goes on: the store is of its types, and knows of what was revoked.
LEMMA LookKeeps ==
  ASSUME StoreTypeOK, Fills, NEW p \in Requests,
         NEW at \in {"none"} \cup Steps \cup Outcomes,
         NEW version \in Versions, NEW floor \in Versions, floor <= revoked,
         Look(p, at, version, floor)
  PROVE  /\ look' \in [Requests -> [at : {"none"} \cup Steps \cup Outcomes,
                                    version : Versions, floor : Versions]]
         /\ look'[p].at = at
         /\ \A q \in Requests : look'[q].floor <= revoked
         /\ \A q \in Requests \ {p} : look'[q] = look[q]
  BY DEF StoreTypeOK, Fills, Look

\* 0 is a version, and no later than any other.
LEMMA FirstVersion ==
  ASSUME StoreTypeOK
  PROVE  /\ 0 \in Versions /\ revoked \in Versions
         /\ revoked \in Nat /\ 0 <= revoked /\ revoked <= revoked
         /\ Versions \subseteq Nat
         /\ NoHash.version = -1 /\ NoHash.ttl = FALSE
         /\ cached.ttl \in BOOLEAN /\ (cached = NoHash <=> cached.version = -1)
  <1>1. 0 \in Versions /\ Versions \subseteq Nat
    BY StoreAssumption DEF Versions
  <1>2. revoked \in Versions /\ revoked \in Nat /\ 0 <= revoked /\ revoked <= revoked
    <2>1. revoked \in Versions
      BY DEF StoreTypeOK
    <2> QED
      BY <1>1, <2>1
  <1>3. NoHash.version = -1 /\ NoHash.ttl = FALSE
    BY DEF NoHash
  <1>4. cached.ttl \in BOOLEAN /\ (cached = NoHash <=> cached.version = -1)
    <2>1. CASE cached = NoHash
      BY <1>3, <2>1
    <2>2. CASE cached \in [version : Versions, ttl : BOOLEAN]
      <3>1. cached.version \in Nat /\ cached.ttl \in BOOLEAN
        BY <1>1, <2>2
      <3>2. cached.version # -1
        BY <3>1
      <3> QED
        BY <1>3, <3>1, <3>2
    <2> QED
      BY <2>1, <2>2 DEF StoreTypeOK
  <1> QED
    BY <1>1, <1>2, <1>3, <1>4

\* What the writes of a fill leave in the cache.
LEMMA FillKeeps ==
  ASSUME StoreTypeOK, Fills, NEW p \in Requests, UNCHANGED <<revoked, revived>>,
         WriteHash(p) \/ (GiveTtl /\ UNCHANGED lateFill)
  PROVE  /\ cached' \in [version : Versions, ttl : BOOLEAN] \cup {NoHash}
         /\ lateFill' \in BOOLEAN
         /\ cached' # NoHash => cached'.version >= revoked \/ lateFill'
         /\ revived => lateFill'
  <1>1. CASE WriteHash(p)
    <2>1. /\ cached' = [version |-> look[p].version, ttl |-> cached.ttl]
          /\ lateFill' = (lateFill \/ look[p].version < revoked)
      BY <1>1 DEF WriteHash
    <2>2. look[p].version \in Versions /\ cached.ttl \in BOOLEAN
      BY FirstVersion DEF StoreTypeOK
    <2>3. look[p].version \in Nat /\ revoked \in Nat
      BY <2>2, FirstVersion
    <2>4. lateFill' \in BOOLEAN /\ (revived => lateFill')
      BY <2>1 DEF Fills, StoreTypeOK
    <2>5. look[p].version >= revoked \/ lateFill'
      <3>1. CASE look[p].version < revoked
        BY <2>1, <3>1, Zenon
      <3>2. CASE ~(look[p].version < revoked)
        BY <2>3, <3>2
      <3> QED
        BY <3>1, <3>2
    <2> QED
      BY <2>1, <2>2, <2>4, <2>5
  <1>2. CASE GiveTtl /\ UNCHANGED lateFill
    <2>1. cached' = [cached EXCEPT !.ttl = cached # NoHash]
      BY <1>2 DEF GiveTtl
    <2>2. CASE cached = NoHash
      BY <1>2, <2>1, <2>2 DEF NoHash, Fills, StoreTypeOK
    <2>3. CASE cached # NoHash
      <3>1. /\ cached' \in [version : Versions, ttl : BOOLEAN]
            /\ cached'.version = cached.version
        BY <2>1, <2>3 DEF StoreTypeOK
      <3> QED
        BY <1>2, <2>3, <3>1 DEF Fills, StoreTypeOK
    <2> QED
      BY <2>2, <2>3
  <1> QED
    BY <1>1, <1>2

\* A step of a lookup: it takes it to a command or to an outcome.
LEMMA LookupKeeps ==
  ASSUME StoreTypeOK, Fills, NEW p \in Requests, LookupStep(p)
  PROVE  /\ StoreTypeOK' /\ Fills'
         /\ look[p].at # "none" /\ look'[p].at # "none"
         /\ \A q \in Requests \ {p} : look'[q] = look[q]
  <1> USE FirstVersion
  <1>t. /\ row \in [version : Versions, active : BOOLEAN]
        /\ cached \in [version : Versions, ttl : BOOLEAN] \cup {NoHash}
        /\ revoked \in Versions /\ {lateFill, bare, revived} \subseteq BOOLEAN
    BY DEF StoreTypeOK
  <1>1. ASSUME NEW at \in Steps \cup Outcomes, NEW version \in Versions,
               Look(p, at, version, 0), UNCHANGED <<row, revoked>>,
               cached' \in [version : Versions, ttl : BOOLEAN] \cup {NoHash},
               {lateFill', bare', revived'} \subseteq BOOLEAN,
               cached' # NoHash => cached'.version >= revoked \/ lateFill',
               revived' => lateFill'
        PROVE  /\ StoreTypeOK' /\ Fills' /\ look'[p].at # "none"
               /\ \A q \in Requests \ {p} : look'[q] = look[q]
    <2>1. /\ look' \in [Requests -> [at : {"none"} \cup Steps \cup Outcomes,
                                     version : Versions, floor : Versions]]
          /\ look'[p].at = at
          /\ \A q \in Requests : look'[q].floor <= revoked
          /\ \A q \in Requests \ {p} : look'[q] = look[q]
      BY <1>1, LookKeeps
    <2>2. StoreTypeOK'
      BY <1>t, <1>1, <2>1 DEF StoreTypeOK
    <2>3. Fills'
      BY <1>1, <2>1 DEF Fills
    <2> QED
      BY <1>1, <2>1, <2>2, <2>3 DEF Steps, Outcomes
  <1>2. ASSUME NEW at \in Steps \cup Outcomes, NEW version \in Versions,
               Look(p, at, version, 0),
               UNCHANGED <<row, cached, revoked, lateFill>>,
               {bare', revived'} \subseteq BOOLEAN, revived' => lateFill
        PROVE  /\ StoreTypeOK' /\ Fills' /\ look'[p].at # "none"
               /\ \A q \in Requests \ {p} : look'[q] = look[q]
    BY <1>t, <1>1, <1>2 DEF Fills
  <1>3. CASE Hit(p)
    <2>1. /\ look[p].at = "hgetall" /\ cached # NoHash /\ Look(p, "found", 0, 0)
          /\ revived' = (revived \/ cached.version < look[p].floor)
          /\ UNCHANGED <<row, cached, revoked, lateFill, bare>>
      BY <1>3 DEF Hit, To
    <2>2. /\ cached.version \in Nat /\ look[p].floor \in Nat /\ look[p].floor <= revoked
          /\ revoked \in Nat
      BY <1>t, <2>1 DEF StoreTypeOK, Fills
    <2>3. revived' \in BOOLEAN
      BY <1>t, <2>1
    <2>4. cached.version < look[p].floor => lateFill
      BY <2>1, <2>2 DEF Fills
    <2>5. revived' => lateFill
      BY <2>1, <2>4 DEF Fills
    <2> QED
      BY <1>t, <1>2, <2>1, <2>3, <2>5 DEF Outcomes
  <1>4. CASE Miss(p)
    BY <1>t, <1>2, <1>4 DEF Miss, To, Steps, Fills
  <1>5. CASE Select(p)
    <2>1. row.version \in Versions
      BY <1>t
    <2> QED
      BY <1>t, <1>2, <1>5, <2>1 DEF Select, To, Steps, Outcomes, Fills
  <1>6. CASE Hset(p) \/ Expire(p)
    <2>1. PICK at \in Steps \cup Outcomes : Look(p, at, 0, 0)
      BY <1>6 DEF Hset, Expire, To, Steps, Outcomes
    <2>2. /\ WriteHash(p) \/ (GiveTtl /\ UNCHANGED lateFill)
          /\ UNCHANGED <<row, revoked, bare, revived>>
          /\ look[p].at # "none"
      BY <1>6 DEF Hset, Expire
    <2>3. /\ cached' \in [version : Versions, ttl : BOOLEAN] \cup {NoHash}
          /\ lateFill' \in BOOLEAN
          /\ cached' # NoHash => cached'.version >= revoked \/ lateFill'
          /\ revived => lateFill'
      BY <2>2, FillKeeps
    <2> QED
      BY <1>t, <1>1, <2>1, <2>2, <2>3
  <1>7. CASE Fail(p)
    <2>1. /\ look[p].at \in Steps /\ Look(p, "failed", 0, 0) /\ bare' \in BOOLEAN
          /\ UNCHANGED <<row, cached, revoked, lateFill, revived>>
      BY <1>7, <1>t DEF Fail, To
    <2>2. look[p].at # "none"
      BY <2>1 DEF Steps
    <2> QED
      BY <1>t, <1>2, <2>1, <2>2 DEF Outcomes, Fills
  <1>8. CASE FailAfter(p)
    <2>1. /\ Look(p, "failed", 0, 0) /\ look[p].at # "none" /\ bare' \in BOOLEAN
          /\ WriteHash(p) \/ (GiveTtl /\ UNCHANGED lateFill)
          /\ UNCHANGED <<row, revoked, revived>>
      BY <1>8, <1>t DEF FailAfter, To
    <2>2. /\ cached' \in [version : Versions, ttl : BOOLEAN] \cup {NoHash}
          /\ lateFill' \in BOOLEAN
          /\ cached' # NoHash => cached'.version >= revoked \/ lateFill'
          /\ revived => lateFill'
      BY <2>1, FillKeeps
    <2> QED
      BY <1>t, <1>1, <2>1, <2>2 DEF Outcomes
  <1>9. look[p].at # "none"
    BY DEF LookupStep, Hit, Miss, Select, Hset, Expire, Fail, FailAfter, Steps
  <1> QED
    BY <1>3, <1>4, <1>5, <1>6, <1>7, <1>8, <1>9 DEF LookupStep

\* The host and the clock.
LEMMA HostKeeps ==
  ASSUME StoreTypeOK, Fills, ChangeRow \/ Invalidate \/ Lapse
  PROVE  StoreTypeOK' /\ Fills' /\ UNCHANGED look
  <1> USE FirstVersion
  <1>t. /\ row \in [version : Versions, active : BOOLEAN]
        /\ revoked \in Nat /\ revoked <= row.version /\ row.version \in Nat
    BY DEF StoreTypeOK, Fills
  <1>1. CASE ChangeRow
    <2>1. PICK active \in BOOLEAN : row' = [version |-> row.version + 1, active |-> active]
      BY <1>1 DEF ChangeRow
    <2>2. /\ row.version < MaxChanges
          /\ UNCHANGED <<cached, look, revoked, lateFill, bare, revived>>
      BY <1>1 DEF ChangeRow
    <2>3. /\ row' \in [version : Versions, active : BOOLEAN]
          /\ row'.version = row.version + 1
      BY <1>t, <2>1, <2>2, StoreAssumption DEF Versions
    <2>4. StoreTypeOK'
      BY <2>2, <2>3 DEF StoreTypeOK
    <2>5. Fills'
      BY <1>t, <2>2, <2>3 DEF Fills
    <2> QED
      BY <2>2, <2>4, <2>5
  <1>2. CASE Invalidate
    <2>1. /\ cached' = NoHash /\ revoked' = row.version
          /\ UNCHANGED <<row, look, lateFill, bare, revived>>
      BY <1>2 DEF Invalidate
    <2>2. \A p \in Requests : look[p].floor \in Nat /\ look[p].floor <= revoked
      <3>1. \A p \in Requests : look[p].floor \in Versions
        BY DEF StoreTypeOK
      <3> QED
        BY <3>1 DEF Fills
    <2>3. ASSUME NEW p \in Requests
          PROVE  look[p].floor <= row.version
      <3>1. look[p].floor \in Nat /\ look[p].floor <= revoked
        BY <2>2
      <3>2. \A l, m, n \in Nat : l <= m /\ m <= n => l <= n
        OBVIOUS
      <3> QED
        BY <1>t, <3>1, <3>2
    <2>4. StoreTypeOK'
      BY <1>t, <2>1 DEF StoreTypeOK
    <2>5. Fills'
      BY <1>t, <2>1, <2>3 DEF Fills
    <2> QED
      BY <2>1, <2>4, <2>5
  <1>3. CASE Lapse
    BY <1>3 DEF Lapse, StoreTypeOK, Fills
  <1> QED
    BY <1>1, <1>2, <1>3

-----------------------------------------------------------------------------
(* The requests.                                                           *)

\* The parts of the types a step of a request has to keep.
RequestTypes ==
    /\ request \in [Requests -> [at : Places, webhook : Webhooks]]
    /\ waited \in [Requests -> BOOLEAN]
    /\ \A p \in Requests :
          look[p].at # "none" <=> request[p].at \in {"validating", "checking", "reading"}

LEMMA IdleRequest ==
  Idle \in [at : Places, webhook : Webhooks] /\ Idle.at = "idle"
  BY InboundAssumption DEF Idle, Places

\* p goes on, waited for or not as before: for the platform nothing changes.
LEMMA GotoKeeps ==
  ASSUME TypeOK, NEW p \in Requests, request[p].at # "idle",
         NEW at \in Places \ {"idle"}, Goto(p, at), UNCHANGED waited,
         look'[p].at # "none" <=> at # "enriching",
         \A q \in Requests \ {p} : look'[q] = look[q]
  PROVE  /\ RequestTypes'
         /\ \A q \in Requests : /\ request'[q].at # "idle" <=> request[q].at # "idle"
                                /\ Webhook(q)' = Webhook(q)
  <1>1. request' = [request EXCEPT ![p].at = at]
    BY DEF Goto
  <1>2. request \in [Requests -> [at : Places, webhook : Webhooks]]
    BY DEF TypeOK
  <1>3. /\ request' \in [Requests -> [at : Places, webhook : Webhooks]]
        /\ request'[p].at = at /\ request'[p].webhook = request[p].webhook
        /\ \A q \in Requests \ {p} : request'[q] = request[q]
    BY <1>1, <1>2
  <1>4. \A q \in Requests :
          look'[q].at # "none" <=> request'[q].at \in {"validating", "checking", "reading"}
    <2> TAKE q \in Requests
    <2>1. CASE q = p
      BY <1>3, <2>1 DEF Places
    <2>2. CASE q # p
      BY <1>3, <2>2 DEF TypeOK
    <2> QED
      BY <2>1, <2>2
  <1>5. waited' \in [Requests -> BOOLEAN]
    BY DEF TypeOK
  <1> QED
    BY <1>3, <1>4, <1>5 DEF RequestTypes, Webhook

\* For the platform nothing changes when no request begins, ends or changes
\* its webhook.
LEMMA Unchanged ==
  ASSUME WaitsOnce, \A w \in Webhooks : Accounted(w),
         UNCHANGED <<waited, answered, givenUp, tracked>>,
         \A q \in Requests : /\ request'[q].at # "idle" <=> request[q].at # "idle"
                             /\ Webhook(q)' = Webhook(q)
  PROVE  WaitsOnce' /\ \A w \in Webhooks : Accounted(w)'
  <1>1. WaitsOnce'
    BY DEF WaitsOnce
  <1>2. \A w \in Webhooks : Unheard(w)' = Unheard(w)
    BY DEF Unheard
  <1>3. \A w \in Webhooks : Accounted(w)'
    BY <1>2 DEF Accounted
  <1> QED
    BY <1>1, <1>3

\* p is over: it is neither waited for nor unheard any more.
LEMMA EndKeeps ==
  ASSUME TypeOK, Fills, NEW p \in Requests, End(p)
  PROVE  /\ StoreTypeOK' /\ Fills' /\ RequestTypes'
         /\ ~waited'[p]
         /\ \A q \in Requests \ {p} : waited'[q] = waited[q] /\ request'[q] = request[q]
         /\ \A w \in Webhooks : Unheard(w)' = Unheard(w) \ {p}
  <1>1. /\ request \in [Requests -> [at : Places, webhook : Webhooks]]
        /\ waited \in [Requests -> BOOLEAN] /\ StoreTypeOK
    BY DEF TypeOK
  <1>2. /\ request' = [request EXCEPT ![p] = Idle]
        /\ waited' = [waited EXCEPT ![p] = FALSE]
        /\ Look(p, "none", 0, 0)
        /\ UNCHANGED <<row, cached, revoked, lateFill, bare, revived>>
    BY DEF End, Look, NoLookup
  <1>3. /\ look' \in [Requests -> [at : {"none"} \cup Steps \cup Outcomes,
                                    version : Versions, floor : Versions]]
        /\ look'[p].at = "none"
        /\ \A q \in Requests : look'[q].floor <= revoked
        /\ \A q \in Requests \ {p} : look'[q] = look[q]
    BY <1>1, <1>2, FirstVersion, LookKeeps
  <1>4. StoreTypeOK' /\ Fills'
    BY <1>1, <1>2, <1>3 DEF StoreTypeOK, Fills
  <1>5. /\ request' \in [Requests -> [at : Places, webhook : Webhooks]]
        /\ waited' \in [Requests -> BOOLEAN]
        /\ request'[p].at = "idle" /\ ~waited'[p]
        /\ \A q \in Requests \ {p} : waited'[q] = waited[q] /\ request'[q] = request[q]
    BY <1>1, <1>2, IdleRequest
  <1>6. \A q \in Requests :
          look'[q].at # "none" <=> request'[q].at \in {"validating", "checking", "reading"}
    <2> TAKE q \in Requests
    <2>1. CASE q = p
      BY <1>3, <1>5, <2>1
    <2>2. CASE q # p
      BY <1>3, <1>5, <2>2 DEF TypeOK
    <2> QED
      BY <2>1, <2>2
  <1>7. \A w \in Webhooks : Unheard(w)' = Unheard(w) \ {p}
    BY <1>5 DEF Unheard, Webhook
  <1> QED
    BY <1>4, <1>5, <1>6, <1>7 DEF RequestTypes

\* p is over without a task, and without an answer of 200.
LEMMA RefuseKeeps ==
  ASSUME IInv, NEW p \in Requests, Refuse(p)
  PROVE  IInv'
  <1>1. /\ TypeOK /\ Fills /\ WaitsOnce /\ End(p)
        /\ UNCHANGED <<answered, tracked, draining, givenUp>>
    BY DEF IInv, Refuse, End
  <1>2. TypeOK' /\ Fills'
    BY <1>1, EndKeeps DEF TypeOK, RequestTypes
  <1>3. WaitsOnce'
    BY <1>1, EndKeeps DEF WaitsOnce, Webhook
  <1>4. ASSUME NEW w \in Webhooks
        PROVE  Accounted(w)'
    <2>1. Accounted(w) /\ Unheard(w)' = Unheard(w) \ {p}
      BY <1>1, EndKeeps DEF IInv
    <2>2. /\ IsFiniteSet(Unheard(w)')
          /\ Cardinality(Unheard(w)') <= Cardinality(Unheard(w))
          /\ Cardinality(Unheard(w)') \in Nat /\ Cardinality(Unheard(w)) \in Nat
      BY <2>1, FS_Subset, FS_CardinalityType DEF Accounted
    <2>3. tracked[w] \in Nat /\ givenUp[w] \in Nat
      BY <1>1, InboundAssumption DEF TypeOK
    <2> DEFINE due == givenUp[w] + (IF w \in answered THEN 1 ELSE 0)
    <2>4. due \in Nat /\ due' = due
      BY <1>1, <2>3
    <2>5. Cardinality(Unheard(w)) + tracked[w] <= due
      BY <2>1 DEF Accounted
    <2>6. Cardinality(Unheard(w)') + tracked[w] <= due
      <3> HIDE DEF due
      <3> QED
        BY <2>2, <2>3, <2>4, <2>5
    <2>7. w \in answered' => tracked'[w] > 0
      BY <1>1, <2>1 DEF Accounted
    <2> QED
      BY <1>1, <2>2, <2>6, <2>7 DEF Accounted
  <1> QED
    BY <1>2, <1>3, <1>4 DEF IInv

\* A delivery: nobody else waits for the webhook, and it is not answered.
LEMMA DeliverKeeps ==
  ASSUME IInv, NEW p \in Requests, NEW w \in Webhooks, Deliver(p, w)
  PROVE  IInv'
  <1>1. /\ TypeOK /\ Fills /\ WaitsOnce /\ StoreTypeOK
        /\ request \in [Requests -> [at : Places, webhook : Webhooks]]
        /\ waited \in [Requests -> BOOLEAN]
    BY DEF IInv, TypeOK
  <1>2. /\ request[p].at = "idle" /\ w \notin answered
        /\ \A q \in Requests : waited[q] => Webhook(q) # w
        /\ request' = [request EXCEPT ![p] = [at |-> "validating", webhook |-> w]]
        /\ waited' = [waited EXCEPT ![p] = TRUE]
        /\ Look(p, "hgetall", 0, revoked)
        /\ UNCHANGED <<draining, answered, givenUp, tracked>>
        /\ UNCHANGED <<row, cached, revoked, lateFill, bare, revived>>
    BY DEF Deliver, Awaits, LookUp
  <1>3. /\ look' \in [Requests -> [at : {"none"} \cup Steps \cup Outcomes,
                                    version : Versions, floor : Versions]]
        /\ look'[p].at = "hgetall"
        /\ \A q \in Requests : look'[q].floor <= revoked
        /\ \A q \in Requests \ {p} : look'[q] = look[q]
    <2>1. "hgetall" \in Steps
      BY DEF Steps
    <2> QED
      BY <1>1, <1>2, <2>1, FirstVersion, LookKeeps
  <1>4. StoreTypeOK' /\ Fills'
    BY <1>1, <1>2, <1>3 DEF StoreTypeOK, Fills
  <1>5. /\ request' \in [Requests -> [at : Places, webhook : Webhooks]]
        /\ waited' \in [Requests -> BOOLEAN]
        /\ request'[p].at = "validating" /\ request'[p].webhook = w /\ waited'[p]
        /\ \A q \in Requests \ {p} : waited'[q] = waited[q] /\ request'[q] = request[q]
    BY <1>1, <1>2 DEF Places
  <1>6. \A q \in Requests :
          look'[q].at # "none" <=> request'[q].at \in {"validating", "checking", "reading"}
    <2> TAKE q \in Requests
    <2>1. CASE q = p
      BY <1>3, <1>5, <2>1
    <2>2. CASE q # p
      BY <1>1, <1>3, <1>5, <2>2 DEF TypeOK
    <2> QED
      BY <2>1, <2>2
  <1>7. TypeOK'
    BY <1>1, <1>2, <1>4, <1>5, <1>6 DEF TypeOK
  <1>8. WaitsOnce'
    BY <1>1, <1>2, <1>5 DEF WaitsOnce, Webhook
  <1>9. \A v \in Webhooks : Unheard(v)' = Unheard(v)
    BY <1>2, <1>5 DEF Unheard, Webhook
  <1>10. \A v \in Webhooks : Accounted(v)'
    BY <1>2, <1>9 DEF IInv, Accounted
  <1> QED
    BY <1>4, <1>7, <1>8, <1>10 DEF IInv

\* The platform gives up: the request is one nobody hears, and accounted for.
LEMMA GiveUpKeeps ==
  ASSUME IInv, NEW p \in Requests, GiveUp(p)
  PROVE  IInv'
  <1>1. /\ TypeOK /\ Fills /\ WaitsOnce /\ StoreTypeOK
        /\ request \in [Requests -> [at : Places, webhook : Webhooks]]
        /\ waited \in [Requests -> BOOLEAN]
        /\ givenUp \in [Webhooks -> 0..MaxGivenUp] /\ tracked \in [Webhooks -> Nat]
    BY DEF IInv, TypeOK
  <1> DEFINE w == Webhook(p)
  <1>2. /\ waited[p] /\ givenUp[w] < MaxGivenUp
        /\ waited' = [waited EXCEPT ![p] = FALSE]
        /\ givenUp' = [givenUp EXCEPT ![w] = @ + 1]
        /\ UNCHANGED <<row, cached, look, revoked, lateFill, bare, revived>>
        /\ UNCHANGED <<request, draining, answered, tracked>>
    BY DEF GiveUp, storeVars
  <1>3. w \in Webhooks
    BY <1>1 DEF Webhook
  <1>4. /\ waited' \in [Requests -> BOOLEAN] /\ ~waited'[p]
        /\ \A q \in Requests \ {p} : waited'[q] = waited[q]
    BY <1>1, <1>2
  <1>5. /\ givenUp' \in [Webhooks -> 0..MaxGivenUp] /\ givenUp'[w] = givenUp[w] + 1
        /\ \A v \in Webhooks \ {w} : givenUp'[v] = givenUp[v]
    BY <1>1, <1>2, <1>3, InboundAssumption
  <1>6. StoreTypeOK' /\ Fills'
    BY <1>1, <1>2 DEF StoreTypeOK, Fills
  <1>7. TypeOK'
    BY <1>1, <1>2, <1>4, <1>5, <1>6 DEF TypeOK
  <1>8. WaitsOnce'
    BY <1>1, <1>2, <1>4 DEF WaitsOnce, Webhook
  <1>9. ASSUME NEW v \in Webhooks
        PROVE  Accounted(v)'
    <2>1. Accounted(v)
      BY DEF IInv
    <2>2. /\ tracked[v] \in Nat /\ givenUp[v] \in Nat /\ UNCHANGED <<answered, tracked>>
          /\ Cardinality(Unheard(v)) \in Nat
      BY <1>1, <1>2, <2>1, InboundAssumption, FS_CardinalityType DEF Accounted
    <2>3. CASE v = w
      <3>1. Unheard(v)' = Unheard(v) \cup {p} /\ p \notin Unheard(v)
        BY <1>1, <1>2, <1>4, <2>3 DEF Unheard, Webhook, WaitsOnce
      <3>2. /\ IsFiniteSet(Unheard(v)')
            /\ Cardinality(Unheard(v)') = Cardinality(Unheard(v)) + 1
        BY <2>1, <3>1, FS_AddElement DEF Accounted
      <3>3. givenUp'[v] = givenUp[v] + 1
        BY <1>5, <2>3
      <3> QED
        BY <2>1, <2>2, <3>2, <3>3 DEF Accounted
    <2>4. CASE v # w
      <3>1. Unheard(v)' = Unheard(v)
        BY <1>2, <1>4, <2>4 DEF Unheard, Webhook
      <3> QED
        BY <1>5, <2>1, <2>2, <2>4, <3>1 DEF Accounted
    <2> QED
      BY <2>3, <2>4
  <1> QED
    BY <1>6, <1>7, <1>8, <1>9 DEF IInv

\* A task, and the answer that there is one if anybody waits for it.
LEMMA TrackKeeps ==
  ASSUME IInv, NEW p \in Requests, request[p].at = "reading", Track(p)
  PROVE  IInv'
  <1>1. /\ TypeOK /\ Fills /\ WaitsOnce /\ End(p)
        /\ request \in [Requests -> [at : Places, webhook : Webhooks]]
        /\ waited \in [Requests -> BOOLEAN] /\ draining \in BOOLEAN
        /\ answered \subseteq Webhooks
        /\ givenUp \in [Webhooks -> 0..MaxGivenUp] /\ tracked \in [Webhooks -> Nat]
    BY DEF IInv, TypeOK, Track
  <1> DEFINE w == Webhook(p)
  <1>2. /\ w \in Webhooks
        /\ UNCHANGED <<draining, givenUp>>
        /\ tracked' = [tracked EXCEPT ![w] = @ + 1]
        /\ answered' = answered \cup (IF waited[p] THEN {w} ELSE {})
    BY <1>1 DEF Webhook, Track, End
  <1>3. /\ tracked' \in [Webhooks -> Nat] /\ tracked'[w] = tracked[w] + 1
        /\ \A v \in Webhooks \ {w} : tracked'[v] = tracked[v]
    BY <1>1, <1>2
  <1>4. TypeOK' /\ Fills'
    <2>1. answered' \subseteq Webhooks
      BY <1>1, <1>2
    <2> QED
      BY <1>1, <1>2, <1>3, <2>1, EndKeeps DEF TypeOK, RequestTypes
  <1>5. WaitsOnce'
    <2> SUFFICES ASSUME NEW q \in Requests, waited'[q]
                 PROVE  /\ request'[q].at # "idle" /\ Webhook(q)' \notin answered'
                        /\ \A r \in Requests :
                              waited'[r] /\ Webhook(r)' = Webhook(q)' => r = q
      BY DEF WaitsOnce
    <2>1. q # p /\ waited[q] /\ request'[q] = request[q]
      BY <1>1, EndKeeps
    <2>2. /\ request[q].at # "idle" /\ Webhook(q) \notin answered
          /\ \A r \in Requests : waited[r] /\ Webhook(r) = Webhook(q) => r = q
      BY <1>1, <2>1 DEF WaitsOnce
    <2>3. Webhook(q) \notin answered'
      BY <1>2, <2>1, <2>2
    <2>4. \A r \in Requests : waited'[r] => waited[r] /\ request'[r] = request[r]
      BY <1>1, EndKeeps
    <2> QED
      BY <2>1, <2>2, <2>3, <2>4 DEF Webhook
  <1>6. ASSUME NEW v \in Webhooks
        PROVE  Accounted(v)'
    <2>1. Accounted(v) /\ Unheard(v)' = Unheard(v) \ {p}
      BY <1>1, EndKeeps DEF IInv
    <2>2. /\ tracked[v] \in Nat /\ givenUp[v] \in Nat /\ givenUp' = givenUp
          /\ Cardinality(Unheard(v)) \in Nat
      BY <1>1, <1>2, <2>1, InboundAssumption, FS_CardinalityType DEF Accounted
    <2>3. CASE v # w
      <3>1. Unheard(v)' = Unheard(v)
        BY <2>1, <2>3 DEF Unheard
      <3>2. (v \in answered' <=> v \in answered) /\ tracked'[v] = tracked[v]
        BY <1>2, <1>3, <2>3
      <3> QED
        BY <2>1, <2>2, <3>1, <3>2 DEF Accounted
    <2>4. CASE v = w /\ waited[p]
      <3>1. Unheard(v)' = Unheard(v)
        BY <2>1, <2>4 DEF Unheard
      <3>2. v \in answered' /\ v \notin answered /\ tracked'[v] = tracked[v] + 1
        BY <1>1, <1>2, <1>3, <2>4 DEF WaitsOnce
      <3>3. Cardinality(Unheard(v)) + tracked[v] <= givenUp[v] + 0
        BY <2>1, <3>2 DEF Accounted
      <3>4. Cardinality(Unheard(v)) + tracked'[v] <= givenUp[v] + 1 /\ tracked'[v] > 0
        BY <2>2, <3>2, <3>3
      <3> QED
        BY <2>1, <2>2, <3>1, <3>2, <3>4 DEF Accounted
    <2>5. CASE v = w /\ ~waited[p]
      <3>1. p \in Unheard(v)
        BY <2>5 DEF Unheard
      <3>2. /\ IsFiniteSet(Unheard(v)')
            /\ Cardinality(Unheard(v)') = Cardinality(Unheard(v)) - 1
        BY <2>1, <3>1, FS_RemoveElement DEF Accounted
      <3>3. answered' = answered /\ tracked'[v] = tracked[v] + 1
        BY <1>2, <1>3, <2>5
      <3> QED
        BY <2>1, <2>2, <3>2, <3>3 DEF Accounted
    <2> QED
      BY <2>3, <2>4, <2>5
  <1> QED
    BY <1>4, <1>5, <1>6 DEF IInv

\* A request goes on: into another lookup, or to its enrichment.
LEMMA StepOnKeeps ==
  ASSUME IInv, NEW p \in Requests, request[p].at # "idle",
         NEW at \in Places \ {"idle"}, Goto(p, at),
         IF at = "enriching" THEN To(p, "none") ELSE LookUp(p),
         UNCHANGED <<row, cached, revoked, lateFill, bare, revived>>,
         UNCHANGED <<waited, draining, answered, givenUp, tracked>>
  PROVE  IInv'
  <1>1. TypeOK /\ Fills /\ WaitsOnce /\ StoreTypeOK
    BY DEF IInv, TypeOK
  <1>2. PICK on \in {"none", "hgetall"}, floor \in Versions :
          /\ Look(p, on, 0, floor) /\ floor <= revoked
          /\ on # "none" <=> at # "enriching"
    <2>1. CASE at = "enriching"
      BY <1>1, <2>1, FirstVersion DEF To
    <2>2. CASE at # "enriching"
      BY <1>1, <2>2, FirstVersion DEF LookUp
    <2> QED
      BY <2>1, <2>2
  <1>3. /\ look' \in [Requests -> [at : {"none"} \cup Steps \cup Outcomes,
                                    version : Versions, floor : Versions]]
        /\ look'[p].at = on
        /\ \A q \in Requests : look'[q].floor <= revoked
        /\ \A q \in Requests \ {p} : look'[q] = look[q]
    <2>1. on \in {"none"} \cup Steps \cup Outcomes
      BY DEF Steps
    <2> QED
      BY <1>1, <1>2, <2>1, FirstVersion, LookKeeps
  <1>4. StoreTypeOK' /\ Fills'
    BY <1>1, <1>3 DEF StoreTypeOK, Fills
  <1>5. /\ RequestTypes'
        /\ \A q \in Requests : /\ request'[q].at # "idle" <=> request[q].at # "idle"
                               /\ Webhook(q)' = Webhook(q)
    BY <1>1, <1>2, <1>3, GotoKeeps
  <1>6. TypeOK'
    BY <1>1, <1>4, <1>5 DEF TypeOK, RequestTypes
  <1>7. WaitsOnce' /\ \A w \in Webhooks : Accounted(w)'
    BY <1>1, <1>5, Unchanged DEF IInv
  <1> QED
    BY <1>4, <1>6, <1>7 DEF IInv

-----------------------------------------------------------------------------
(* The specification.                                                      *)

LEMMA InitIInv ==
  ASSUME Init
  PROVE  IInv
  <1>1. StoreTypeOK /\ Fills
    <2>1. 0 \in Versions /\ 0 <= 0
      BY StoreAssumption DEF Versions
    <2>2. /\ look \in [Requests -> [at : {"none"} \cup Steps \cup Outcomes,
                                    version : Versions, floor : Versions]]
          /\ \A p \in Requests : look[p].floor = 0
      BY <2>1 DEF Init, StoreInit, NoLookup
    <2> QED
      BY <2>1, <2>2 DEF Init, StoreInit, StoreTypeOK, Fills
  <1>2. TypeOK
    <2>1. /\ givenUp \in [Webhooks -> 0..MaxGivenUp] /\ tracked \in [Webhooks -> Nat]
      BY InboundAssumption DEF Init
    <2>2. \A p \in Requests : look[p].at = "none" /\ request[p].at = "idle"
      BY IdleRequest DEF Init, StoreInit, NoLookup
    <2> QED
      BY <1>1, <2>1, <2>2, IdleRequest DEF Init, TypeOK
  <1>3. WaitsOnce
    BY DEF Init, WaitsOnce
  <1>4. ASSUME NEW w \in Webhooks
        PROVE  Accounted(w)
    <2>1. Unheard(w) = {}
      BY IdleRequest DEF Init, Unheard
    <2>2. IsFiniteSet(Unheard(w)) /\ Cardinality(Unheard(w)) = 0
      BY <2>1, FS_EmptySet
    <2>3. w \notin answered /\ tracked[w] = 0 /\ givenUp[w] = 0
      BY DEF Init
    <2> QED
      BY <2>2, <2>3 DEF Accounted
  <1> QED
    BY <1>1, <1>2, <1>3, <1>4 DEF IInv

\* A step of the store that no request takes leaves the requests as they are.
LEMMA StoreKeeps ==
  ASSUME IInv, StoreTypeOK', Fills', UNCHANGED inboundVars,
         \A p \in Requests : look'[p].at # "none" <=> look[p].at # "none"
  PROVE  IInv'
  <1>1. TypeOK'
    BY DEF IInv, TypeOK, inboundVars
  <1>2. \A q \in Requests : /\ request'[q].at # "idle" <=> request[q].at # "idle"
                            /\ Webhook(q)' = Webhook(q)
    BY DEF inboundVars, Webhook
  <1>3. WaitsOnce' /\ \A w \in Webhooks : Accounted(w)'
    BY <1>2, Unchanged DEF IInv, inboundVars
  <1> QED
    BY <1>1, <1>3 DEF IInv

\* The messenger's factory, from a request that is on its way.
LEMMA BuildKeeps ==
  ASSUME IInv, NEW p \in Requests, request[p].at # "idle", BuildMessenger(p)
  PROVE  IInv'
  <1>1. CASE Refuse(p)
    BY <1>1, RefuseKeeps
  <1>2. CASE ~Refuse(p)
    <2>1. /\ Goto(p, "checking") /\ LookUp(p)
          /\ UNCHANGED <<row, cached, revoked, lateFill, bare, revived>>
          /\ UNCHANGED <<waited, draining, answered, givenUp, tracked>>
      BY <1>2 DEF BuildMessenger
    <2> QED
      BY <2>1, StepOnKeeps DEF Places
  <1> QED
    BY <1>1, <1>2

\* A step of a request.
LEMMA RequestKeeps ==
  ASSUME IInv, NEW p \in Requests, RequestStep(p)
  PROVE  IInv'
  <1>1. CASE LookupStep(p) /\ UNCHANGED inboundVars
    <2>1. /\ StoreTypeOK' /\ Fills'
          /\ look[p].at # "none" /\ look'[p].at # "none"
          /\ \A q \in Requests \ {p} : look'[q] = look[q]
      BY <1>1, LookupKeeps DEF IInv, TypeOK
    <2> QED
      BY <1>1, <2>1, StoreKeeps
  <1>2. CASE NotValidated(p) \/ NotTranslated(p) \/ NotBuilt(p)
    BY <1>2, RefuseKeeps DEF NotValidated, NotTranslated, NotBuilt
  <1>3. CASE Translated(p) \/ Enriched(p)
    BY <1>3, BuildKeeps DEF Translated, Enriched
  <1>4. CASE Enrich(p)
    <2>1. /\ request[p].at # "idle" /\ Goto(p, "enriching") /\ To(p, "none")
          /\ UNCHANGED <<row, cached, revoked, lateFill, bare, revived>>
          /\ UNCHANGED <<waited, draining, answered, givenUp, tracked>>
      BY <1>4 DEF Enrich, To, Look, NoLookup
    <2> QED
      BY <2>1, StepOnKeeps DEF Places
  <1>5. CASE Checked(p)
    <2>1. /\ request[p].at # "idle" /\ Goto(p, "reading") /\ LookUp(p)
          /\ UNCHANGED <<row, cached, revoked, lateFill, bare, revived>>
          /\ UNCHANGED <<waited, draining, answered, givenUp, tracked>>
      BY <1>5 DEF Checked
    <2> QED
      BY <2>1, StepOnKeeps DEF Places
  <1>6. CASE Accept(p)
    <2>1. request[p].at = "reading" /\ (Refuse(p) \/ Track(p))
      BY <1>6 DEF Accept
    <2> QED
      BY <2>1, RefuseKeeps, TrackKeeps
  <1> QED
    BY <1>1, <1>2, <1>3, <1>4, <1>5, <1>6 DEF RequestStep

\* Every step keeps the invariant.
LEMMA NextIInv ==
  ASSUME IInv, [Next]_vars
  PROVE  IInv'
  <1>1. ASSUME NEW p \in Requests, NEW w \in Webhooks, Deliver(p, w)
        PROVE  IInv'
    BY <1>1, DeliverKeeps
  <1>2. ASSUME NEW p \in Requests, GiveUp(p) \/ RequestStep(p)
        PROVE  IInv'
    BY <1>2, GiveUpKeeps, RequestKeeps
  <1>3. CASE (ChangeRow \/ Invalidate \/ Lapse) /\ UNCHANGED inboundVars
    <2>1. StoreTypeOK' /\ Fills' /\ UNCHANGED look
      BY <1>3, HostKeeps DEF IInv, TypeOK
    <2> QED
      BY <1>3, <2>1, StoreKeeps
  <1>4. CASE BeginDrain
    <2>1. /\ draining' = TRUE
          /\ UNCHANGED <<row, cached, look, revoked, lateFill, bare, revived>>
          /\ UNCHANGED <<request, waited, answered, givenUp, tracked>>
      BY <1>4 DEF BeginDrain, storeVars
    <2>2. TypeOK' /\ Fills'
      BY <2>1 DEF IInv, TypeOK, StoreTypeOK, Fills
    <2>3. WaitsOnce' /\ \A w \in Webhooks : Accounted(w)'
      BY <2>1, Unchanged DEF IInv, Webhook
    <2> QED
      BY <2>2, <2>3 DEF IInv
  <1>5. CASE UNCHANGED vars
    <2>1. /\ UNCHANGED inboundVars
          /\ UNCHANGED <<row, cached, look, revoked, lateFill, bare, revived>>
      BY <1>5 DEF vars, storeVars
    <2>2. StoreTypeOK' /\ Fills'
      BY <2>1 DEF IInv, TypeOK, StoreTypeOK, Fills
    <2> QED
      BY <2>1, <2>2, StoreKeeps
  <1> QED
    BY <1>1, <1>2, <1>3, <1>4, <1>5 DEF Next

LEMMA Invariance ==
  Spec => []IInv
  <1>1. Init => IInv
    BY InitIInv
  <1>2. IInv /\ [Next]_vars => IInv'
    BY NextIInv
  <1> QED
    BY <1>1, <1>2, PTL DEF Spec

\* The variables keep their types, and a request looks credentials up exactly
\* while it is at a place of the runtime that waits for them.
THEOREM TypeCorrect ==
  Spec => []TypeOK
  <1>1. IInv => TypeOK
    BY DEF IInv
  <1> QED
    BY <1>1, Invariance, PTL

\* Whatever lookups, changes, invalidations and failures overlap, the only way
\* credentials revoked before a lookup began come back from it is a fill that
\* read the row before the revocation and wrote the hash after it
\* (DatabaseInboxCredentialStore.get_credentials, invalidate_cache).
THEOREM RevivedByLateFill ==
  Spec => []OnlyLateFillRevives
  <1>1. IInv => OnlyLateFillRevives
    BY DEF IInv, Fills, OnlyLateFillRevives
  <1> QED
    BY <1>1, Invariance, PTL

\* A webhook answered 200 has its task; the other tasks are at most as many as
\* the deliveries the platform gave up on, for any number of requests at once
\* and in a drain too (InboundRuntime.accept_webhook).
THEOREM AnsweredTruly ==
  Spec => []AnswerIsTrue
  <1>1. IInv => AnswerIsTrue
    <2> SUFFICES ASSUME IInv, NEW w \in Webhooks
                 PROVE  IF w \in answered THEN tracked[w] \in 1..(1 + givenUp[w])
                                          ELSE tracked[w] \in 0..givenUp[w]
      BY DEF AnswerIsTrue
    <2>1. Accounted(w) /\ tracked[w] \in Nat /\ givenUp[w] \in Nat
      BY InboundAssumption DEF IInv, TypeOK
    <2>2. Cardinality(Unheard(w)) \in Nat
      BY <2>1, FS_CardinalityType DEF Accounted
    <2>3. CASE w \in answered
      BY <2>1, <2>2, <2>3 DEF Accounted
    <2>4. CASE w \notin answered
      BY <2>1, <2>2, <2>4 DEF Accounted
    <2> QED
      BY <2>3, <2>4
  <1> QED
    BY <1>1, Invariance, PTL

-----------------------------------------------------------------------------
(* The TTL of the hash.                                                    *)

\* A hash without a TTL is about to be given one by a fill that is still at
\* it, unless a fill was stopped before it could.
TtlComes == Endless => bare \/ \E p \in Requests : look[p].at = "expire"

\* What a step of a lookup leaves without a TTL was so before, or is its own.
LEMMA LookupTtl ==
  ASSUME StoreTypeOK, TtlComes, NEW p \in Requests, LookupStep(p)
  PROVE  TtlComes'
  <1>1. \A at, version, floor : Look(p, at, version, floor) =>
             /\ look'[p].at = at
             /\ \A q \in Requests \ {p} : look'[q] = look[q]
    BY DEF Look, StoreTypeOK
  <1>2. ASSUME NEW at, NEW version, NEW floor, Look(p, at, version, floor),
               look[p].at # "expire" \/ (Endless => bare'),
               bare => bare', Endless' = Endless
        PROVE  TtlComes'
    BY <1>1, <1>2 DEF TtlComes
  <1>3. GiveTtl => ~Endless'
    <2>1. cached \in [version : Versions, ttl : BOOLEAN] \cup {NoHash}
      BY DEF StoreTypeOK
    <2>2. CASE cached = NoHash
      BY <2>2 DEF GiveTtl, Endless, NoHash
    <2>3. CASE cached # NoHash
      BY <2>1, <2>3 DEF GiveTtl, Endless
    <2> QED
      BY <2>2, <2>3
  <1>4. CASE Hit(p) \/ Miss(p) \/ Select(p)
    <2>1. PICK at, version, floor : Look(p, at, version, floor)
      BY <1>4 DEF Hit, Miss, Select, To
    <2>2. look[p].at # "expire" /\ UNCHANGED <<bare, cached>>
      BY <1>4 DEF Hit, Miss, Select
    <2> QED
      BY <1>2, <2>1, <2>2 DEF Endless
  <1>5. CASE Hset(p)
    <2>1. look'[p].at = "expire"
      BY <1>1, <1>5 DEF Hset, To
    <2> QED
      BY <2>1 DEF TtlComes
  <1>6. CASE Expire(p)
    BY <1>3, <1>6 DEF Expire, TtlComes
  <1>7. CASE Fail(p)
    <2>1. /\ Look(p, "failed", 0, 0) /\ UNCHANGED cached
          /\ bare' = (bare \/ (look[p].at = "expire" /\ Endless))
      BY <1>7 DEF Fail, To
    <2>2. (bare => bare') /\ (look[p].at # "expire" \/ (Endless => bare'))
      BY <2>1
    <2> QED
      BY <1>2, <2>1, <2>2 DEF Endless
  <1>8. CASE FailAfter(p)
    <2>1. CASE look[p].at = "hset"
      <3>1. /\ cached'.ttl = cached.ttl
            /\ bare' = (bare \/ ~cached.ttl)
        BY <1>8, <2>1 DEF FailAfter, WriteHash
      <3> QED
        BY <3>1 DEF TtlComes, Endless
    <2>2. CASE look[p].at # "hset"
      BY <1>3, <1>8, <2>2 DEF FailAfter, TtlComes
    <2> QED
      BY <2>1, <2>2
  <1> QED
    BY <1>4, <1>5, <1>6, <1>7, <1>8 DEF LookupStep

\* A request begins, goes on and ends with a lookup that is over.
LEMMA MoveTtl ==
  ASSUME StoreTypeOK, TtlComes, NEW p \in Requests, look[p].at # "expire",
         UNCHANGED <<cached, bare>>,
         \A q \in Requests \ {p} : look'[q] = look[q]
  PROVE  TtlComes'
  BY DEF TtlComes, Endless

LEMMA NextTtl ==
  ASSUME IInv, TtlComes, [Next]_vars
  PROVE  TtlComes'
  <1>t. /\ StoreTypeOK /\ TypeOK
        /\ look \in [Requests -> [at : {"none"} \cup Steps \cup Outcomes,
                                  version : Versions, floor : Versions]]
    BY DEF IInv, TypeOK, StoreTypeOK
  <1>1. ASSUME NEW p \in Requests, NEW w \in Webhooks, Deliver(p, w)
        PROVE  TtlComes'
    <2>1. look[p].at # "expire"
      BY <1>1, <1>t DEF Deliver, TypeOK
    <2> QED
      BY <1>1, <1>t, <2>1, MoveTtl DEF Deliver, LookUp, Look
  <1>2. ASSUME NEW p \in Requests, look[p].at \in Outcomes \cup {"none"}, End(p)
        PROVE  TtlComes'
    <2>1. look[p].at # "expire"
      BY <1>2 DEF Outcomes
    <2> QED
      BY <1>2, <1>t, <2>1, MoveTtl DEF End
  <1>3. ASSUME NEW p \in Requests, look[p].at \in Outcomes \cup {"none"},
               BuildMessenger(p)
        PROVE  TtlComes'
    <2>1. CASE Refuse(p)
      BY <1>2, <1>3, <2>1 DEF Refuse
    <2>2. CASE ~Refuse(p)
      <3>1. look[p].at # "expire" /\ LookUp(p) /\ UNCHANGED <<cached, bare>>
        BY <1>3, <2>2 DEF Outcomes, BuildMessenger
      <3> QED
        BY <1>t, <3>1, MoveTtl DEF LookUp, Look
    <2> QED
      BY <2>1, <2>2
  <1>4. ASSUME NEW p \in Requests, RequestStep(p)
        PROVE  TtlComes'
    <2>1. CASE LookupStep(p) /\ UNCHANGED inboundVars
      BY <1>t, <2>1, LookupTtl
    <2>2. CASE NotValidated(p) \/ NotTranslated(p) \/ NotBuilt(p)
      BY <1>2, <2>2 DEF NotValidated, NotTranslated, NotBuilt, Refuse, Outcomes
    <2>3. CASE Translated(p)
      BY <1>3, <2>3 DEF Translated, Outcomes
    <2>4. CASE Enriched(p)
      <3>1. look[p].at = "none"
        BY <1>t, <2>4 DEF Enriched, TypeOK
      <3> QED
        BY <1>3, <2>4, <3>1 DEF Enriched
    <2>5. CASE Enrich(p) \/ Checked(p)
      <3>1. look[p].at # "expire" /\ UNCHANGED <<cached, bare>>
        BY <2>5 DEF Enrich, Checked
      <3>2. \A q \in Requests \ {p} : look'[q] = look[q]
        BY <1>t, <2>5 DEF Enrich, Checked, LookUp, Look
      <3> QED
        BY <1>t, <3>1, <3>2, MoveTtl
    <2>6. CASE Accept(p)
      BY <1>2, <2>6 DEF Accept, Refuse, Track, Outcomes
    <2> QED
      BY <1>4, <2>1, <2>2, <2>3, <2>4, <2>5, <2>6 DEF RequestStep
  <1>5. ASSUME UNCHANGED <<cached, bare, look>> \/ Invalidate \/ Lapse
        PROVE  TtlComes'
    BY <1>5 DEF Invalidate, Lapse, TtlComes, Endless
  <1>6. ASSUME NEW p \in Requests, GiveUp(p)
        PROVE  TtlComes'
    BY <1>5, <1>6 DEF GiveUp, storeVars
  <1>7. CASE ChangeRow \/ BeginDrain \/ UNCHANGED vars
    BY <1>5, <1>7 DEF ChangeRow, BeginDrain, vars, storeVars
  <1> QED
    BY <1>1, <1>4, <1>5, <1>6, <1>7 DEF Next

\* Nothing but a fill that failed between HSET and EXPIRE leaves a hash of
\* credentials that never ends, whatever deletes and rewrites the hash in
\* between: the part of ChangeTakesEffect that needs no fairness
\* (DatabaseInboxCredentialStore._cache_credentials).
THEOREM HashesEnd ==
  Spec => []TtlComes
  <1>1. Init => TtlComes
    BY DEF Init, StoreInit, TtlComes, Endless
  <1>2. IInv /\ TtlComes /\ [Next]_vars => TtlComes'
    BY NextTtl
  <1> QED
    BY <1>1, <1>2, Invariance, PTL DEF Spec

=============================================================================
