------------------------ MODULE ExpiryListener_proofs ------------------------
(***************************************************************************)
(* A handler is started at most once for a life of its trigger, however    *)
(* often the listener fails and subscribes again, and never for a life     *)
(* that was deleted or set again before it expired.                        *)
(*                                                                         *)
(* That takes knowing where a life is: held by the server, in the buffer   *)
(* or past both.  The one the server holds is the last that was set, and   *)
(* neither it nor any life in the buffer has been dropped or run; lives    *)
(* yet to come have neither; and the buffer has no life twice.             *)
(***************************************************************************)
EXTENDS ExpiryListener, SequenceTheorems, TLAPS

Untouched(x) == x \notin dropped /\ runs[x] = 0

\* A life the server let go of by expiry and no handler was started for.
Waiting(x) ==
    /\ Untouched(x)
    /\ x[2] <= lives[x[1]]
    /\ x[2] # trigger[x[1]]

HeldByServer ==
    \A k \in Keys : /\ trigger[k] <= lives[k]
                    /\ trigger[k] # 0 => Untouched(<<k, trigger[k]>>)

YetToCome == \A k \in Keys, n \in 1..MaxLives : n > lives[k] => Untouched(<<k, n>>)

InBuffer == \A i \in 1..Len(buffer) : Waiting(buffer[i])

NoneTwice == \A i, j \in 1..Len(buffer) : i # j => buffer[i] # buffer[j]

IInv == TypeOK /\ RunsOnce /\ HeldByServer /\ YetToCome /\ InBuffer /\ NoneTwice

-----------------------------------------------------------------------------
(* Types.                                                                  *)

\* What waits in the buffer of the client is the life of some trigger.
LEMMA BufferLives ==
  ASSUME TypeOK
  PROVE  ToSet(buffer) \subseteq Lives
  BY ElementOfSeq DEF TypeOK, ToSet

\* What the server holds is the last life set of its trigger.
LEMMA ArmedLives ==
  ASSUME TypeOK, NEW keys \in SUBSET Keys
  PROVE  Armed(keys) \subseteq Lives
  BY DEF TypeOK, Armed, Lives

\* The delay before the next attempt stays within its bound.
LEMMA DelayBounded ==
  ASSUME NEW n \in Nat
  PROVE  CalculateDelay(n) \in 0..MaxDelay
  BY ExpiryAssumption DEF CalculateDelay

\* What a failure leaves behind, whatever it was.
LEMMA FailTypes ==
  ASSUME TypeOK, Fail
  PROVE  /\ pc' \in {"waiting", "over"}
         /\ attempts' \in Nat
         /\ delay' \in 0..MaxDelay
         /\ buffer' = <<>> /\ buffer' \in Seq(Lives)
         /\ lost' \subseteq Lives
  <1>1. attempts' \in Nat /\ lost' \subseteq Lives
    BY BufferLives DEF Fail, TypeOK
  <1>2. buffer' = <<>> /\ buffer' \in Seq(Lives)
    BY EmptySeq DEF Fail
  <1>3. pc' \in {"waiting", "over"} /\ delay' \in 0..MaxDelay
    BY <1>1, DelayBounded DEF Fail, TypeOK
  <1> QED
    BY <1>1, <1>2, <1>3

\* A new subscription fits into the pool.
LEMMA ReplaceTypes ==
  ASSUME TypeOK, NEW new \in {"none", "open", "broken"}, Replace(new),
         new # "none" => Held < PoolSize
  PROVE  /\ pubsub' \in {"none", "open", "broken"}
         /\ leaked' \in 0..PoolSize
         /\ pubsub' # "none" => leaked' < PoolSize
  BY ExpiryAssumption DEF Replace, Held, TypeOK

\* The initial state is well typed.
LEMMA TypeInit == Init => TypeOK
  <1> SUFFICES ASSUME Init PROVE TypeOK
    OBVIOUS
  <1>1. buffer \in Seq(Lives)
    BY EmptySeq DEF Init
  <1>2. 0 \in 0..MaxLives /\ 0 \in 0..PoolSize /\ 0 < PoolSize /\ 0 \in 0..MaxDelay
    BY ExpiryAssumption
  <1>3. /\ trigger \in [Keys -> 0..MaxLives]
        /\ lives \in [Keys -> 0..MaxLives]
        /\ runs \in [Lives -> Nat]
    BY <1>2 DEF Init
  <1> QED
    BY <1>1, <1>2, <1>3 DEF Init, TypeOK, Notify

\* Every step keeps the types.
LEMMA TypeStep == TypeOK /\ [Next]_vars => TypeOK'
  <1> SUFFICES ASSUME TypeOK, [Next]_vars PROVE TypeOK'
    OBVIOUS
  <1>1. ASSUME NEW k \in Keys, Set(k) PROVE TypeOK'
    <2>1. lives[k] + 1 \in 0..MaxLives
      BY <1>1, ExpiryAssumption DEF Set, TypeOK
    <2>2. /\ lives' \in [Keys -> 0..MaxLives]
          /\ trigger' \in [Keys -> 0..MaxLives]
      BY <1>1, <2>1 DEF Set, TypeOK
    <2>3. dropped' \subseteq Lives
      BY <1>1, ArmedLives DEF Set, TypeOK
    <2> QED
      BY <1>1, <2>2, <2>3 DEF Set, TypeOK, settings, listenerVars
  <1>2. ASSUME NEW keys \in SUBSET Keys, Withdraw(keys), page' \subseteq Keys PROVE TypeOK'
    <2>1. trigger' \in [Keys -> 0..MaxLives]
      BY <1>2, ExpiryAssumption DEF Withdraw, TypeOK
    <2>2. dropped' \subseteq Lives
      BY <1>2, ArmedLives DEF Withdraw, TypeOK
    <2> QED
      BY <1>2, <2>1, <2>2 DEF Withdraw, TypeOK, settings, listenerVars
  <1>3. CASE Scan
    BY <1>3 DEF Scan, TypeOK, settings, listenerVars
  <1>4. ASSUME NEW k \in Keys, Expire(k) PROVE TypeOK'
    <2>1. trigger' \in [Keys -> 0..MaxLives]
      BY <1>4, ExpiryAssumption DEF Expire, TypeOK
    <2>2. <<k, trigger[k]>> \in Lives
      BY <1>4 DEF Expire, TypeOK, Lives
    <2>3. buffer' \in Seq(Lives)
      <3>1. PICK x \in Lives : buffer' = Append(buffer, x) \/ buffer' = buffer
        BY <1>4, <2>2 DEF Expire
      <3>2. buffer \in Seq(Lives)
        BY DEF TypeOK
      <3>3. Append(buffer, x) \in Seq(Lives)
        BY <3>2, AppendProperties
      <3> QED
        BY <3>1, <3>2, <3>3
    <2>4. lost' \subseteq Lives
      BY <1>4, ArmedLives DEF Expire, TypeOK
    <2> QED
      BY <1>4, <2>1, <2>3, <2>4 DEF Expire, TypeOK, settings
  <1>5. CASE Subscribe
    BY <1>5, ReplaceTypes DEF Subscribe, Configure, Notify, TypeOK, serverVars
  <1>6. CASE ConnectFails
    <2>1. /\ pubsub' \in {"none", "open", "broken"}
          /\ leaked' \in 0..PoolSize
          /\ pubsub' # "none" => leaked' < PoolSize
      BY <1>6, ReplaceTypes DEF ConnectFails, TypeOK
    <2>2. notify' \in Notify
      BY <1>6 DEF ConnectFails, Configure, Notify, TypeOK
    <2> QED
      BY <1>6, <2>1, <2>2, FailTypes DEF ConnectFails, TypeOK, serverVars
  <1>7. CASE Dispatch
    <2>1. Head(buffer) \in Lives /\ Tail(buffer) \in Seq(Lives)
      BY <1>7, HeadTailProperties DEF Dispatch, TypeOK
    <2>2. runs' \in [Lives -> Nat]
      BY <1>7, <2>1 DEF Dispatch, Told, TypeOK
    <2> QED
      BY <1>7, <2>1, <2>2 DEF Dispatch, TypeOK, serverVars, settings
  <1>8. CASE Ignore
    <2>1. Tail(buffer) \in Seq(Lives)
      BY <1>8, HeadTailProperties DEF Ignore, TypeOK
    <2> QED
      BY <1>8, <2>1 DEF Ignore, TypeOK, serverVars, settings
  <1>9. CASE Refuse
    BY <1>9, FailTypes DEF Refuse, TypeOK, serverVars, settings
  <1>10. CASE NoticeBreak
    BY <1>10, FailTypes DEF NoticeBreak, TypeOK, serverVars, settings
  <1>11. CASE Break
    <2>1. PICK n \in 0..Len(buffer) :
             /\ buffer' = SubSeq(buffer, 1, n)
             /\ lost' = lost \cup ToSet(SubSeq(buffer, n + 1, Len(buffer)))
      BY <1>11 DEF Break
    <2>2. Len(buffer) \in Nat /\ \A i \in 1..Len(buffer) : buffer[i] \in Lives
      BY LenProperties, ElementOfSeq DEF TypeOK
    <2>3. buffer' \in Seq(Lives)
      BY <2>1, <2>2, SubSeqProperties
    <2>4. SubSeq(buffer, n + 1, Len(buffer)) \in Seq(Lives)
      BY <2>2, SubSeqProperties
    <2>5. lost' \subseteq Lives
      BY <2>1, <2>4, ElementOfSeq DEF ToSet, TypeOK
    <2>6. notify' \in Notify
      BY <1>11 DEF Break, Notify, TypeOK
    <2> QED
      BY <1>11, <2>3, <2>5, <2>6 DEF Break, TypeOK, serverVars
  <1>12. CASE Resume
    BY <1>12 DEF Resume, TypeOK, serverVars, settings
  <1>13. CASE Wake
    BY <1>13, ExpiryAssumption DEF Wake, TypeOK, serverVars, settings
  <1>14. CASE Cancelled
    <2>1. buffer' \in Seq(Lives) /\ lost' \subseteq Lives
      BY <1>14, EmptySeq, BufferLives DEF Cancelled, TypeOK
    <2>2. pc' \in {"closing", "over"} /\ delay' \in 0..MaxDelay
      BY <1>14, ExpiryAssumption DEF Cancelled, TypeOK
    <2> QED
      BY <1>14, <2>1, <2>2 DEF Cancelled, TypeOK, serverVars, settings
  <1>15. CASE Disconnected
    BY <1>15 DEF Disconnected, TypeOK, serverVars, settings
  <1>16. CASE BeginDrain \/ Stop \/ Stopped
    BY <1>16 DEF BeginDrain, Stop, Stopped, TypeOK, serverVars, settings, listenerVars
  <1>17. CASE UNCHANGED vars
    BY <1>17 DEF vars, serverVars, settings, listenerVars, TypeOK
  <1>18. ASSUME NEW k \in Keys, Delete(k) PROVE TypeOK'
    BY <1>18, <1>2 DEF Delete, TypeOK
  <1>19. CASE DeletePage
    BY <1>19, <1>2 DEF DeletePage, TypeOK
  <1> QED
    BY <1>1, <1>3, <1>4, <1>5, <1>6, <1>7, <1>8, <1>9, <1>10, <1>11, <1>12, <1>13,
       <1>14, <1>15, <1>16, <1>17, <1>18, <1>19 DEF Next, ListenerStep

\* The pool, the buffer and the history have their types in every state.
THEOREM TypeCorrect == Spec => []TypeOK
  BY TypeInit, TypeStep, PTL DEF Spec

-----------------------------------------------------------------------------
(* Where a life can be.                                                    *)

\* The listener reads, loses or forgets notifications from the ends of the
\* buffer: what is left was there before, in the same order.
LEMMA ShrinkKeeps ==
  ASSUME IInv, TypeOK', UNCHANGED <<trigger, lives, dropped, runs>>,
         NEW d \in Nat,
         \A i \in 1..Len(buffer') : /\ i + d \in 1..Len(buffer)
                                    /\ buffer'[i] = buffer[i + d]
  PROVE  IInv'
  <1>1. RunsOnce' /\ HeldByServer' /\ YetToCome'
    BY DEF IInv, RunsOnce, HeldByServer, YetToCome, Untouched
  <1>2. InBuffer'
    BY DEF IInv, InBuffer, Waiting, Untouched
  <1>3. Len(buffer') \in Nat
    BY LenProperties DEF TypeOK
  <1>4. NoneTwice'
    <2> SUFFICES ASSUME NEW i \in 1..Len(buffer'), NEW j \in 1..Len(buffer'), i # j
                 PROVE  buffer'[i] # buffer'[j]
      BY DEF NoneTwice
    <2>1. i + d # j + d
      BY <1>3
    <2> QED
      BY <2>1 DEF IInv, NoneTwice
  <1> QED
    BY <1>1, <1>2, <1>4 DEF IInv

\* A step that moves no life keeps the invariant.
LEMMA SameKeeps ==
  ASSUME IInv, TypeOK', UNCHANGED <<trigger, lives, dropped, runs>>,
         buffer' = buffer \/ buffer' = <<>>
  PROVE  IInv'
  <1>1. Len(buffer) \in Nat /\ Len(<<>>) = 0
    BY LenProperties, EmptySeq DEF IInv, TypeOK
  <1>2. \A i \in 1..Len(buffer') : /\ i + 0 \in 1..Len(buffer)
                                   /\ buffer'[i] = buffer[i + 0]
    BY <1>1
  <1> QED
    BY <1>2, ShrinkKeeps

\* The triggers of some keys are deleted, or set again.
Drops(keys) ==
    /\ dropped' = dropped \cup Armed(keys)
    /\ \A k \in Keys \ keys : trigger'[k] = trigger[k] /\ lives'[k] = lives[k]
    /\ \A k \in keys : \/ trigger'[k] = 0 /\ lives'[k] = lives[k]
                       \/ trigger'[k] = lives[k] + 1 /\ lives'[k] = lives[k] + 1

\* What the server has let go of is none of these.
LEMMA DropWaits ==
  ASSUME IInv, TypeOK', runs' = runs, NEW keys \in SUBSET Keys, Drops(keys),
         NEW x \in Lives, Waiting(x)
  PROVE  Waiting(x)'
  <1>1. /\ lives \in [Keys -> 0..MaxLives] /\ lives' \in [Keys -> 0..MaxLives]
        /\ trigger \in [Keys -> 0..MaxLives] /\ MaxLives \in Nat
    BY ExpiryAssumption DEF IInv, TypeOK
  <1>2. x[1] \in Keys /\ x[2] \in 1..MaxLives
    BY DEF Lives
  <1>3. x \notin Armed(keys)
    BY DEF Armed, Waiting
  <1>4. x[2] # trigger'[x[1]] /\ x[2] <= lives'[x[1]]
    <2>1. x[2] <= lives[x[1]] /\ x[2] # trigger[x[1]] /\ lives[x[1]] \in Nat
      BY <1>1, <1>2 DEF Waiting
    <2>2. CASE x[1] \notin keys
      BY <1>2, <2>1, <2>2 DEF Drops
    <2>3. CASE x[1] \in keys
      BY <1>2, <2>1, <2>3 DEF Drops
    <2> QED
      BY <2>2, <2>3
  <1> QED
    BY <1>3, <1>4 DEF Drops, Waiting, Untouched

\* A trigger the server held is deleted or set again: it was in no buffer.
LEMMA DropKeeps ==
  ASSUME IInv, TypeOK', UNCHANGED <<buffer, runs>>,
         NEW keys \in SUBSET Keys, Drops(keys)
  PROVE  IInv'
  <1> USE DEF Drops
  <1>1. /\ lives \in [Keys -> 0..MaxLives] /\ lives' \in [Keys -> 0..MaxLives]
        /\ trigger \in [Keys -> 0..MaxLives] /\ trigger' \in [Keys -> 0..MaxLives]
        /\ MaxLives \in Nat
    BY ExpiryAssumption DEF IInv, TypeOK
  <1>2. \A x \in Armed(keys) : /\ x \in Lives /\ x[1] \in keys /\ x[2] = trigger[x[1]]
                               /\ runs[x] = 0 /\ x[2] <= lives[x[1]]
    <2> SUFFICES ASSUME NEW k \in keys, trigger[k] # 0
                 PROVE  /\ <<k, trigger[k]>> \in Lives
                        /\ runs[<<k, trigger[k]>>] = 0
                        /\ trigger[k] <= lives[k]
      BY DEF Armed
    <2> QED
      BY <1>1 DEF IInv, HeldByServer, Untouched, Lives
  <1>3. \A k \in Keys : lives[k] <= lives'[k]
    BY <1>1
  <1>4. RunsOnce'
    BY <1>2 DEF IInv, RunsOnce
  <1>5. YetToCome'
    <2> SUFFICES ASSUME NEW k \in Keys, NEW n \in 1..MaxLives, n > lives'[k]
                 PROVE  Untouched(<<k, n>>)'
      BY DEF YetToCome
    <2>1. n > lives[k] /\ <<k, n>>[1] = k /\ <<k, n>>[2] = n
      BY <1>1, <1>3
    <2>2. <<k, n>> \notin Armed(keys)
      BY <1>1, <1>2, <2>1
    <2> QED
      BY <2>1, <2>2 DEF IInv, YetToCome, Untouched
  <1>6. HeldByServer'
    <2> SUFFICES ASSUME NEW k \in Keys
                 PROVE  /\ trigger'[k] <= lives'[k]
                        /\ trigger'[k] # 0 => /\ <<k, trigger'[k]>> \notin dropped'
                                              /\ runs'[<<k, trigger'[k]>>] = 0
      BY DEF HeldByServer, Untouched
    <2>1. CASE k \notin keys
      <3>1. trigger'[k] = trigger[k] /\ lives'[k] = lives[k]
        BY <2>1
      <3>2. <<k, trigger[k]>> \notin Armed(keys)
        BY <2>1, <1>2
      <3> QED
        BY <3>1, <3>2 DEF IInv, HeldByServer, Untouched
    <2>2. CASE k \in keys /\ trigger'[k] = 0
      BY <2>2, <1>1
    <2>3. CASE k \in keys /\ trigger'[k] = lives[k] + 1 /\ lives'[k] = lives[k] + 1
      <3>1. lives[k] + 1 \in 1..MaxLives /\ lives[k] + 1 > lives[k]
        BY <2>3, <1>1
      <3>2. Untouched(<<k, lives[k] + 1>>)
        BY <3>1 DEF IInv, YetToCome
      <3>3. <<k, lives[k] + 1>> \notin Armed(keys)
        BY <1>1, <1>2
      <3> QED
        BY <2>3, <3>1, <3>2, <3>3, <1>1 DEF Untouched
    <2> QED
      BY <2>1, <2>2, <2>3
  <1>7. InBuffer'
    <2> SUFFICES ASSUME NEW i \in 1..Len(buffer) PROVE Waiting(buffer[i])'
      BY DEF InBuffer
    <2>1. buffer[i] \in Lives /\ Waiting(buffer[i])
      BY ElementOfSeq DEF IInv, InBuffer, TypeOK
    <2>2. \A x \in Lives : Waiting(x) => Waiting(x)'
      BY DropWaits
    <2> QED
      BY <2>1, <2>2 DEF Waiting, Untouched
  <1>8. NoneTwice'
    BY DEF IInv, NoneTwice
  <1> QED
    BY <1>4, <1>5, <1>6, <1>7, <1>8 DEF IInv

\* What the server expires is past the server, and in the buffer at most once.
LEMMA ExpireKeeps ==
  ASSUME IInv, TypeOK', NEW k \in Keys, Expire(k)
  PROVE  IInv'
  <1>1. /\ lives \in [Keys -> 0..MaxLives] /\ trigger \in [Keys -> 0..MaxLives]
        /\ MaxLives \in Nat
    BY ExpiryAssumption DEF IInv, TypeOK
  <1>x. PICK x : x = <<k, trigger[k]>>
    OBVIOUS
  <1>2. /\ trigger' = [trigger EXCEPT ![k] = 0]
        /\ trigger[k] # 0
        /\ UNCHANGED <<lives, dropped, runs>>
        /\ buffer' = Append(buffer, x) \/ buffer' = buffer
    BY <1>x DEF Expire
  <1>3. /\ x \in Lives /\ Untouched(x) /\ x[1] = k /\ x[2] = trigger[k]
        /\ x[2] <= lives[k] /\ x[2] # 0
    BY <1>1, <1>2, <1>x DEF IInv, HeldByServer, Lives
  <1>4. RunsOnce' /\ YetToCome'
    BY <1>2 DEF IInv, RunsOnce, YetToCome, Untouched
  <1>5. HeldByServer'
    BY <1>1, <1>2 DEF IInv, HeldByServer, Untouched
  <1>6. \A y \in Lives : Waiting(y) => Waiting(y)' /\ y # x
    <2> SUFFICES ASSUME NEW y \in Lives, Waiting(y) PROVE Waiting(y)' /\ y # x
      OBVIOUS
    <2>1. y[1] \in Keys /\ y[2] \in 1..MaxLives
      BY DEF Lives
    <2>2. y # x
      BY <1>3 DEF Waiting
    <2>3. y[2] # trigger'[y[1]]
      BY <1>1, <1>2, <2>1 DEF Waiting
    <2> QED
      BY <2>2, <2>3, <1>2 DEF Waiting, Untouched
  <1>7. Waiting(x)'
    BY <1>1, <1>2, <1>3 DEF Waiting, Untouched
  <1>8. /\ Len(buffer) \in Nat
        /\ \A i \in 1..Len(buffer) : buffer[i] \in Lives /\ Waiting(buffer[i])
    BY ElementOfSeq, LenProperties DEF IInv, TypeOK, InBuffer
  <1>9. CASE buffer' = buffer
    <2>1. InBuffer' /\ NoneTwice'
      BY <1>6, <1>8, <1>9 DEF IInv, InBuffer, NoneTwice, Waiting, Untouched
    <2> QED
      BY <2>1, <1>4, <1>5 DEF IInv
  <1>10. CASE buffer' = Append(buffer, x)
    <2>1. /\ Len(buffer') = Len(buffer) + 1
          /\ \A i \in 1..Len(buffer) : buffer'[i] = buffer[i]
          /\ buffer'[Len(buffer) + 1] = x
      BY <1>3, <1>10, AppendProperties DEF IInv, TypeOK
    <2>2. \A i \in 1..Len(buffer') : i \in 1..Len(buffer) \/ i = Len(buffer) + 1
      BY <2>1, <1>8
    <2>3. InBuffer'
      <3> SUFFICES ASSUME NEW i \in 1..Len(buffer') PROVE Waiting(buffer[i])'
        BY DEF InBuffer
      <3>1. CASE i \in 1..Len(buffer)
        <4>1. Waiting(buffer[i]) /\ buffer[i] \in Lives /\ buffer'[i] = buffer[i]
          BY <3>1, <2>1, <1>8
        <4> QED
          BY <4>1, <1>6 DEF Waiting, Untouched
      <3>2. CASE i = Len(buffer) + 1
        BY <3>2, <2>1, <1>7 DEF Waiting, Untouched
      <3> QED
        BY <3>1, <3>2, <2>2
    <2>4. NoneTwice'
      BY <2>1, <2>2, <1>6, <1>8 DEF IInv, NoneTwice
    <2> QED
      BY <2>3, <2>4, <1>4, <1>5 DEF IInv
  <1> QED
    BY <1>2, <1>9, <1>10

\* The first life in the buffer is taken out when its handler starts.
LEMMA DispatchKeeps ==
  ASSUME IInv, TypeOK', Dispatch
  PROVE  IInv'
  <1>x. PICK x : x = Head(buffer)
    OBVIOUS
  <1>1. /\ buffer # <<>> /\ buffer' = Tail(buffer)
        /\ runs' = [runs EXCEPT ![x] = @ + 1]
        /\ UNCHANGED <<trigger, lives, dropped>>
    BY <1>x DEF Dispatch, Told, serverVars, settings
  <1>2. /\ Len(buffer) \in Nat \ {0} /\ Len(buffer') = Len(buffer) - 1
        /\ \A i \in 1..Len(buffer') : buffer'[i] = buffer[i + 1]
        /\ x = buffer[1]
    <2>1. buffer \in Seq(Lives)
      BY DEF IInv, TypeOK
    <2>2. Len(buffer) \in Nat \ {0} /\ Head(buffer) = buffer[1]
      BY <1>1, <2>1, EmptySeq
    <2>3. /\ Len(buffer') = Len(buffer) - 1
          /\ \A i \in 1..Len(buffer') : buffer'[i] = buffer[i + 1]
      BY <1>1, <2>1, HeadTailProperties
    <2> QED
      BY <1>x, <2>2, <2>3, Zenon
  <1>3. x \in Lives /\ Waiting(x)
    <2>1. 1 \in 1..Len(buffer)
      BY <1>2
    <2>2. buffer[1] \in Lives /\ Waiting(buffer[1])
      BY <2>1, ElementOfSeq DEF IInv, InBuffer, TypeOK
    <2> QED
      BY <1>2, <2>2, Zenon
  <1>4. runs \in [Lives -> Nat]
    BY DEF IInv, TypeOK
  <1>5. runs'[x] = 1 /\ \A y \in Lives : y # x => runs'[y] = runs[y]
    BY <1>1, <1>3, <1>4 DEF Waiting, Untouched
  <1>6. RunsOnce'
    BY <1>1, <1>3, <1>5 DEF IInv, RunsOnce, Waiting, Untouched
  <1>7. \A y \in Lives : y # x /\ Untouched(y) => Untouched(y)'
    BY <1>1, <1>5 DEF Untouched
  <1>8. HeldByServer'
    <2> SUFFICES ASSUME NEW k \in Keys
                 PROVE  /\ trigger[k] <= lives[k]
                        /\ trigger[k] # 0 => Untouched(<<k, trigger[k]>>)'
      BY <1>1 DEF HeldByServer
    <2>1. <<k, trigger[k]>> # x
      BY <1>3 DEF Waiting
    <2>2. trigger[k] # 0 => <<k, trigger[k]>> \in Lives
      BY ExpiryAssumption DEF IInv, TypeOK, Lives
    <2> QED
      BY <2>1, <2>2, <1>1, <1>7 DEF IInv, HeldByServer, Untouched
  <1>9. YetToCome'
    <2> SUFFICES ASSUME NEW k \in Keys, NEW n \in 1..MaxLives, n > lives[k]
                 PROVE  Untouched(<<k, n>>)'
      BY <1>1 DEF YetToCome
    <2>0. lives[k] \in Nat /\ n \in Nat
      BY ExpiryAssumption DEF IInv, TypeOK
    <2>1. <<k, n>> # x /\ <<k, n>> \in Lives
      BY <1>3, <2>0 DEF Waiting, Lives
    <2> QED
      BY <2>1, <1>7 DEF IInv, YetToCome
  <1>10. \A i \in 1..Len(buffer') : i + 1 \in 1..Len(buffer) /\ i + 1 # 1 /\ 1 \in 1..Len(buffer)
    BY <1>2
  <1>11. InBuffer'
    <2> SUFFICES ASSUME NEW i \in 1..Len(buffer') PROVE Waiting(buffer[i])'
      BY DEF InBuffer
    <2>1. buffer[i + 1] # x /\ buffer[i + 1] \in Lives /\ Waiting(buffer[i + 1])
      BY <1>2, <1>10, ElementOfSeq DEF IInv, NoneTwice, InBuffer, TypeOK
    <2> QED
      BY <2>1, <1>1, <1>2, <1>7 DEF Waiting, Untouched
  <1>12. NoneTwice'
    <2> SUFFICES ASSUME NEW i \in 1..Len(buffer'), NEW j \in 1..Len(buffer'), i # j
                 PROVE  buffer'[i] # buffer'[j]
      BY DEF NoneTwice
    <2>1. i + 1 # j + 1
      BY <1>2
    <2> QED
      BY <2>1, <1>2, <1>10 DEF IInv, NoneTwice
  <1> QED
    BY <1>6, <1>8, <1>9, <1>11, <1>12 DEF IInv

\* The invariant of the lives holds at the start.
LEMMA InvInit == Init => IInv
  <1> SUFFICES ASSUME Init PROVE IInv
    OBVIOUS
  <1>1. Len(buffer) = 0
    BY EmptySeq DEF Init
  <1>2. RunsOnce /\ HeldByServer /\ YetToCome
    BY ExpiryAssumption DEF Init, RunsOnce, HeldByServer, YetToCome, Untouched, Lives
  <1>3. InBuffer /\ NoneTwice
    BY <1>1 DEF InBuffer, NoneTwice
  <1> QED
    BY <1>2, <1>3, TypeInit DEF IInv

\* Every step keeps the invariant of the lives.
LEMMA InvStep == IInv /\ [Next]_vars => IInv'
  <1> SUFFICES ASSUME IInv, [Next]_vars PROVE IInv'
    OBVIOUS
  <1>t. TypeOK'
    BY TypeStep DEF IInv
  <1>1. ASSUME NEW k \in Keys, Set(k) PROVE IInv'
    <2>1. /\ \A j \in Keys \ {k} : trigger'[j] = trigger[j] /\ lives'[j] = lives[j]
          /\ trigger'[k] = lives[k] + 1 /\ lives'[k] = lives[k] + 1
          /\ dropped' = dropped \cup Armed({k})
          /\ UNCHANGED <<buffer, runs>>
      BY <1>1 DEF Set, IInv, TypeOK, settings, listenerVars
    <2> QED
      BY <2>1, <1>t, DropKeeps DEF Drops
  <1>2. ASSUME NEW keys \in SUBSET Keys, Withdraw(keys) PROVE IInv'
    <2>1. /\ \A k \in Keys \ keys : trigger'[k] = trigger[k] /\ lives'[k] = lives[k]
          /\ \A k \in keys : trigger'[k] = 0 /\ lives'[k] = lives[k]
          /\ dropped' = dropped \cup Armed(keys)
          /\ UNCHANGED <<buffer, runs>>
      BY <1>2 DEF Withdraw, settings, listenerVars
    <2> QED
      BY <2>1, <1>t, DropKeeps DEF Drops
  <1>3. ASSUME NEW k \in Keys, Expire(k) PROVE IInv'
    BY <1>3, <1>t, ExpireKeeps
  <1>4. CASE Dispatch
    BY <1>4, <1>t, DispatchKeeps
  <1>5. CASE Ignore
    <2>1. /\ buffer # <<>> /\ buffer' = Tail(buffer)
          /\ UNCHANGED <<trigger, lives, dropped, runs>>
      BY <1>5 DEF Ignore, serverVars, settings
    <2>2. \A i \in 1..Len(buffer') : /\ i + 1 \in 1..Len(buffer)
                                     /\ buffer'[i] = buffer[i + 1]
      BY <2>1, HeadTailProperties, LenProperties DEF IInv, TypeOK
    <2> QED
      BY <2>1, <2>2, <1>t, ShrinkKeeps
  <1>6. CASE Break
    <2>1. PICK n \in 0..Len(buffer) : buffer' = SubSeq(buffer, 1, n)
      BY <1>6 DEF Break
    <2>2. Len(buffer) \in Nat /\ \A i \in 1..Len(buffer) : buffer[i] \in Lives
      BY LenProperties, ElementOfSeq DEF IInv, TypeOK
    <2>3. \A i \in 1..Len(buffer') : /\ i + 0 \in 1..Len(buffer)
                                     /\ buffer'[i] = buffer[i + 0]
      <3>1. /\ Len(buffer') = IF 1 <= n THEN n - 1 + 1 ELSE 0
            /\ \A i \in 1..(n - 1 + 1) : buffer'[i] = buffer[1 + i - 1]
        BY <2>1, <2>2, SubSeqProperties
      <3> QED
        BY <3>1, <2>2
    <2>4. UNCHANGED <<trigger, lives, dropped, runs>>
      BY <1>6 DEF Break, serverVars, settings
    <2> QED
      BY <2>3, <2>4, <1>t, ShrinkKeeps
  <1>7. CASE \/ Scan \/ Subscribe \/ ConnectFails \/ Refuse \/ Resume \/ NoticeBreak
             \/ Wake \/ Cancelled \/ Disconnected \/ BeginDrain \/ Stop \/ Stopped
             \/ UNCHANGED vars
    <2>1. UNCHANGED <<trigger, lives, dropped, runs>>
      BY <1>7 DEF Scan, Subscribe, ConnectFails, Refuse, Resume, NoticeBreak, Wake,
         Cancelled, Disconnected, BeginDrain, Stop, Stopped, vars, serverVars, settings
    <2>2. buffer' = buffer \/ buffer' = <<>>
      BY <1>7 DEF Scan, Subscribe, ConnectFails, Fail, Refuse, Resume, NoticeBreak, Wake,
         Cancelled, Disconnected, BeginDrain, Stop, Stopped, vars, settings, listenerVars
    <2> QED
      BY <2>1, <2>2, <1>t, SameKeeps
  <1>8. ASSUME NEW k \in Keys, Delete(k) PROVE IInv'
    BY <1>8, <1>2 DEF Delete
  <1>9. CASE DeletePage
    BY <1>9, <1>2 DEF DeletePage, IInv, TypeOK
  <1> QED
    BY <1>1, <1>3, <1>4, <1>5, <1>6, <1>7, <1>8, <1>9 DEF Next, ListenerStep

\* For any number of triggers, failures and cancellations: a handler is started
\* at most once for each life of a trigger, and never for one that was deleted
\* or set again in time.
THEOREM HandlersRunOnce == Spec => []RunsOnce
  <1>1. IInv => RunsOnce
    BY DEF IInv
  <1> QED
    BY <1>1, InvInit, InvStep, PTL DEF Spec

-----------------------------------------------------------------------------
(* What becomes of every life.                                             *)

\* The members of a sequence are its head and those of its tail.
LEMMA HeadMembers ==
  ASSUME NEW S, NEW q \in Seq(S), q # <<>>
  PROVE  ToSet(q) = {Head(q)} \cup ToSet(Tail(q))
  <1>1. /\ Len(q) \in Nat \ {0} /\ Head(q) = q[1]
        /\ Len(Tail(q)) = Len(q) - 1
        /\ \A i \in 1..Len(Tail(q)) : Tail(q)[i] = q[i + 1]
    BY HeadTailProperties, EmptySeq
  <1>2. DOMAIN q = 1..Len(q) /\ DOMAIN Tail(q) = 1..Len(q) - 1
    BY <1>1
  <1>3. ASSUME NEW i \in 1..Len(q)
        PROVE  q[i] \in {Head(q)} \cup ToSet(Tail(q))
    <2>1. CASE i = 1
      BY <1>1, <2>1
    <2>2. CASE i # 1
      <3>1. i - 1 \in 1..Len(q) - 1 /\ (i - 1) + 1 = i
        BY <1>1, <2>2
      <3>2. Tail(q)[i - 1] = q[i]
        BY <1>1, <3>1
      <3> QED
        BY <1>2, <3>1, <3>2 DEF ToSet
    <2> QED
      BY <2>1, <2>2
  <1>4. ASSUME NEW i \in 1..Len(q) - 1
        PROVE  Tail(q)[i] \in ToSet(q)
    <2>1. i + 1 \in 1..Len(q) /\ Tail(q)[i] = q[i + 1]
      BY <1>1
    <2> QED
      BY <1>2, <2>1 DEF ToSet
  <1>5. 1 \in 1..Len(q)
    BY <1>1
  <1> QED
    BY <1>1, <1>2, <1>3, <1>4, <1>5 DEF ToSet

\* The members of a sequence with one more at its end.
LEMMA AppendMembers ==
  ASSUME NEW S, NEW q \in Seq(S), NEW x \in S
  PROVE  ToSet(Append(q, x)) = ToSet(q) \cup {x}
  <1>1. /\ Len(Append(q, x)) = Len(q) + 1 /\ Len(q) \in Nat
        /\ \A i \in 1..Len(q) : Append(q, x)[i] = q[i]
        /\ Append(q, x)[Len(q) + 1] = x
    BY AppendProperties, LenProperties
  <1>2. DOMAIN q = 1..Len(q) /\ DOMAIN Append(q, x) = 1..Len(q) + 1
    BY <1>1, AppendProperties
  <1>3. 1..Len(q) + 1 = 1..Len(q) \cup {Len(q) + 1}
    BY <1>1
  <1> QED
    BY <1>1, <1>2, <1>3 DEF ToSet

\* The members of a sequence are those of its two parts, in their places.
LEMMA SplitMembers ==
  ASSUME NEW S, NEW q \in Seq(S), NEW n \in 0..Len(q)
  PROVE  /\ \A x \in ToSet(SubSeq(q, 1, n)) : \E i \in 1..n : x = q[i]
         /\ \A x \in ToSet(SubSeq(q, n + 1, Len(q))) : \E i \in n + 1..Len(q) : x = q[i]
         /\ ToSet(q) = ToSet(SubSeq(q, 1, n)) \cup ToSet(SubSeq(q, n + 1, Len(q)))
  <1> DEFINE a == SubSeq(q, 1, n)
             b == SubSeq(q, n + 1, Len(q))
  <1>1. Len(q) \in Nat /\ n \in Nat /\ \A i \in 1..Len(q) : q[i] \in S
    BY LenProperties, ElementOfSeq
  <1>2. DOMAIN a = 1..n /\ \A i \in 1..n : a[i] = q[i]
    <2>1. /\ a \in Seq(S) /\ Len(a) = IF 1 <= n THEN n - 1 + 1 ELSE 0
          /\ \A i \in 1..(n - 1 + 1) : a[i] = q[1 + i - 1]
      BY <1>1, SubSeqProperties
    <2>2. Len(a) = n /\ DOMAIN a = 1..Len(a)
      BY <1>1, <2>1
    <2> HIDE DEF a
    <2> QED
      BY <1>1, <2>1, <2>2
  <1>3. DOMAIN b = 1..Len(q) - n /\ \A i \in 1..Len(q) - n : b[i] = q[n + i]
    <2>1. /\ b \in Seq(S)
          /\ Len(b) = IF n + 1 <= Len(q) THEN Len(q) - (n + 1) + 1 ELSE 0
          /\ \A i \in 1..(Len(q) - (n + 1) + 1) : b[i] = q[n + 1 + i - 1]
      BY <1>1, SubSeqProperties
    <2>2. Len(b) = Len(q) - n /\ DOMAIN b = 1..Len(b)
      BY <1>1, <2>1
    <2> HIDE DEF b
    <2> QED
      BY <1>1, <2>1, <2>2
  <1> HIDE DEF a, b
  <1>4. DOMAIN q = 1..Len(q)
    OBVIOUS
  <1>5. \A x \in ToSet(b) : \E i \in n + 1..Len(q) : x = q[i]
    <2> SUFFICES ASSUME NEW i \in 1..Len(q) - n
                 PROVE  \E j \in n + 1..Len(q) : b[i] = q[j]
      BY <1>3 DEF ToSet
    <2>1. n + i \in n + 1..Len(q)
      BY <1>1
    <2> QED
      BY <1>3, <2>1
  <1>6. ASSUME NEW i \in 1..Len(q)
        PROVE  q[i] \in ToSet(a) \cup ToSet(b)
    <2>1. CASE i <= n
      BY <1>1, <1>2, <2>1 DEF ToSet
    <2>2. CASE ~(i <= n)
      <3>1. i - n \in 1..Len(q) - n /\ n + (i - n) = i
        BY <1>1, <2>2
      <3> QED
        BY <1>3, <3>1 DEF ToSet
    <2> QED
      BY <2>1, <2>2
  <1>7. \A x \in ToSet(a) : \E i \in 1..n : x = q[i]
    BY <1>2 DEF ToSet
  <1>8. \A i \in 1..n : i \in 1..Len(q)
    BY <1>1
  <1>9. \A i \in n + 1..Len(q) : i \in 1..Len(q)
    BY <1>1
  <1>10. ToSet(q) = ToSet(a) \cup ToSet(b)
    BY <1>4, <1>5, <1>6, <1>7, <1>8, <1>9 DEF ToSet
  <1> QED
    BY <1>5, <1>7, <1>10 DEF a, b

\* Every life of a trigger that has a handler is where it belongs: held by the
\* server, on its way in the buffer, withdrawn, lost, or run.
NoneForgotten ==
    \A x \in Handled \X (1..MaxLives) : x[2] <= lives[x[1]] =>
        \/ x[2] = trigger[x[1]]
        \/ x \in ToSet(buffer)
        \/ x \in dropped \cup lost
        \/ runs[x] = 1

\* What was lost is past the server and the buffer, and nothing runs it.
LostForGood == \A x \in lost : Waiting(x) /\ x \notin ToSet(buffer)

WhereItBelongs == NoneForgotten /\ LostForGood

\* A life in the buffer has been neither dropped nor run.
LEMMA BufferWaits ==
  ASSUME IInv
  PROVE  \A x \in ToSet(buffer) : x \in Lives /\ Waiting(x)
  <1>1. buffer \in Seq(Lives) /\ DOMAIN buffer = 1..Len(buffer)
    BY DEF IInv, TypeOK
  <1> QED
    BY <1>1, ElementOfSeq DEF IInv, InBuffer, ToSet

\* A step that moves no trigger and starts no handler may lose notifications.
LEMMA LosesSome ==
  ASSUME IInv, WhereItBelongs, UNCHANGED <<trigger, lives, dropped, runs>>,
         NEW gone \in SUBSET ToSet(buffer), lost' = lost \cup gone,
         ToSet(buffer') \subseteq ToSet(buffer),
         ToSet(buffer') \cap gone = {},
         \A x \in ToSet(buffer) \ gone : x[1] \in Handled => x \in ToSet(buffer')
  PROVE  WhereItBelongs'
  <1>1. NoneForgotten'
    <2> SUFFICES ASSUME NEW x \in Handled \X (1..MaxLives), x[2] <= lives[x[1]]
                 PROVE  \/ x[2] = trigger[x[1]]
                        \/ x \in ToSet(buffer')
                        \/ x \in dropped \cup lost'
                        \/ runs[x] = 1
      BY DEF NoneForgotten
    <2> QED
      BY DEF WhereItBelongs, NoneForgotten
  <1>2. LostForGood'
    BY BufferWaits DEF WhereItBelongs, LostForGood, Waiting, Untouched
  <1> QED
    BY <1>1, <1>2 DEF WhereItBelongs

\* A step that loses no life and only passes over those without a handler.
LEMMA LosesNone ==
  ASSUME IInv, WhereItBelongs, UNCHANGED <<trigger, lives, dropped, runs, lost>>,
         ToSet(buffer') \subseteq ToSet(buffer),
         \A x \in ToSet(buffer) : x[1] \in Handled => x \in ToSet(buffer')
  PROVE  WhereItBelongs'
  <1>1. /\ {} \in SUBSET ToSet(buffer) /\ lost' = lost \cup {}
        /\ ToSet(buffer') \cap {} = {} /\ ToSet(buffer) \ {} = ToSet(buffer)
    OBVIOUS
  <1>2. \A x \in ToSet(buffer) \ {} : x[1] \in Handled => x \in ToSet(buffer')
    OBVIOUS
  <1> QED
    BY <1>1, <1>2, LosesSome

\* A failure loses the buffer.
LEMMA AllLost ==
  ASSUME IInv, WhereItBelongs, UNCHANGED <<trigger, lives, dropped, runs>>,
         buffer' = <<>>, lost' = lost \cup ToSet(buffer)
  PROVE  WhereItBelongs'
  <1>1. ToSet(buffer') = {}
    BY DEF ToSet
  <1> QED
    BY <1>1, LosesSome

\* Deleted or set again: withdrawn, or at the server.
LEMMA DropBelongs ==
  ASSUME IInv, WhereItBelongs, TypeOK', UNCHANGED <<buffer, runs, lost>>,
         NEW keys \in SUBSET Keys, Drops(keys)
  PROVE  WhereItBelongs'
  <1>1. /\ lives \in [Keys -> 0..MaxLives] /\ trigger \in [Keys -> 0..MaxLives]
        /\ MaxLives \in Nat /\ Handled \subseteq Keys /\ lost \subseteq Lives
    BY ExpiryAssumption DEF IInv, TypeOK
  <1>2. ASSUME NEW x \in Handled \X (1..MaxLives), x[2] <= lives'[x[1]]
        PROVE  \/ x[2] = trigger'[x[1]]
               \/ x \in ToSet(buffer)
               \/ x \in dropped' \cup lost
               \/ runs[x] = 1
    <2>1. /\ x[1] \in Keys /\ x[1] \in Handled /\ x[2] \in 1..MaxLives
          /\ x = <<x[1], x[2]>> /\ lives[x[1]] \in Nat
      BY <1>1
    <2>2. CASE x[2] <= lives[x[1]] /\ x[2] = trigger[x[1]]
      <3>1. x[1] \in keys => x \in Armed(keys)
        BY <2>1, <2>2 DEF Armed
      <3> QED
        BY <2>1, <2>2, <3>1 DEF Drops
    <2>3. CASE x[2] <= lives[x[1]] /\ x[2] # trigger[x[1]]
      BY <2>3 DEF WhereItBelongs, NoneForgotten, Drops
    <2>4. CASE ~(x[2] <= lives[x[1]])
      <3>1. x[1] \in keys /\ lives'[x[1]] = lives[x[1]] + 1
            /\ trigger'[x[1]] = lives[x[1]] + 1
        BY <1>2, <2>1, <2>4 DEF Drops
      <3>2. x[2] = lives[x[1]] + 1
        BY <1>2, <2>1, <2>4, <3>1
      <3> QED
        BY <3>1, <3>2
    <2> QED
      BY <2>2, <2>3, <2>4
  <1>3. LostForGood'
    BY <1>1, DropWaits DEF WhereItBelongs, LostForGood
  <1> QED
    BY <1>2, <1>3 DEF WhereItBelongs, NoneForgotten

\* Expired: told to the subscription, or lost.
LEMMA ExpireBelongs ==
  ASSUME IInv, WhereItBelongs, NEW k \in Keys, Expire(k)
  PROVE  WhereItBelongs'
  <1>1. /\ lives \in [Keys -> 0..MaxLives] /\ trigger \in [Keys -> 0..MaxLives]
        /\ MaxLives \in Nat /\ Handled \subseteq Keys
        /\ buffer \in Seq(Lives) /\ lost \subseteq Lives
    BY ExpiryAssumption DEF IInv, TypeOK
  <1>x. PICK x : x = <<k, trigger[k]>>
    OBVIOUS
  <1>2. /\ trigger[k] # 0
        /\ trigger' = [trigger EXCEPT ![k] = 0]
        /\ UNCHANGED <<lives, dropped, runs>>
        /\ \/ buffer' = Append(buffer, x) /\ lost' = lost
           \/ buffer' = buffer /\ lost' = lost \cup {x}
    BY <1>x DEF Expire, Armed
  <1>3. /\ x \in Lives /\ Untouched(x) /\ x[1] = k /\ x[2] = trigger[k]
        /\ x[2] <= lives[k] /\ x[2] # 0
    BY <1>1, <1>2, <1>x DEF IInv, HeldByServer, Lives
  <1>4. \A y \in Lives : Waiting(y) => Waiting(y)' /\ y # x
    <2> SUFFICES ASSUME NEW y \in Lives, Waiting(y) PROVE Waiting(y)' /\ y # x
      OBVIOUS
    <2>1. y[1] \in Keys /\ y[2] \in 1..MaxLives
      BY DEF Lives
    <2>2. y # x
      BY <1>3 DEF Waiting
    <2>3. y[2] # trigger'[y[1]]
      BY <1>1, <1>2, <2>1 DEF Waiting
    <2> QED
      BY <2>2, <2>3, <1>2 DEF Waiting, Untouched
  <1>5. Waiting(x)'
    BY <1>1, <1>2, <1>3 DEF Waiting, Untouched
  <1>6. x \notin ToSet(buffer)
    BY <1>4, BufferWaits
  <1>7. x \notin lost
    BY <1>1, <1>4 DEF WhereItBelongs, LostForGood
  <1>8. ToSet(buffer) \subseteq ToSet(buffer') /\ ToSet(buffer') \subseteq ToSet(buffer) \cup {x}
        /\ lost \subseteq lost' /\ lost' \subseteq lost \cup {x}
        /\ (x \in ToSet(buffer') <=> x \notin lost')
    <2>1. CASE buffer' = Append(buffer, x) /\ lost' = lost
      <3>1. ToSet(buffer') = ToSet(buffer) \cup {x}
        BY <1>1, <1>3, <2>1, AppendMembers
      <3> QED
        BY <1>7, <2>1, <3>1
    <2>2. CASE buffer' = buffer /\ lost' = lost \cup {x}
      BY <1>6, <2>2
    <2> QED
      BY <1>2, <2>1, <2>2
  <1>9. ASSUME NEW y \in Handled \X (1..MaxLives), y[2] <= lives[y[1]]
        PROVE  \/ y[2] = trigger'[y[1]]
               \/ y \in ToSet(buffer')
               \/ y \in dropped \cup lost'
               \/ runs[y] = 1
    <2>1. y[1] \in Keys /\ y = <<y[1], y[2]>>
      BY <1>1
    <2>2. CASE y = x
      BY <1>8, <2>2
    <2>3. CASE y # x
      <3>1. y[2] = trigger[y[1]] => y[2] = trigger'[y[1]]
        BY <1>1, <1>2, <1>x, <2>1, <2>3
      <3> QED
        BY <1>8, <1>9, <3>1 DEF WhereItBelongs, NoneForgotten
    <2> QED
      BY <2>2, <2>3
  <1>10. LostForGood'
    <2> SUFFICES ASSUME NEW y \in lost'
                 PROVE  Waiting(y)' /\ y \notin ToSet(buffer')
      BY DEF LostForGood
    <2>1. CASE y = x
      BY <1>5, <1>8, <2>1
    <2>2. CASE y # x
      BY <1>1, <1>4, <1>8, <2>2 DEF WhereItBelongs, LostForGood
    <2> QED
      BY <2>1, <2>2
  <1> QED
    BY <1>2, <1>9, <1>10 DEF WhereItBelongs, NoneForgotten

\* The first notification in the buffer starts its handler.
LEMMA DispatchBelongs ==
  ASSUME IInv, WhereItBelongs, Dispatch
  PROVE  WhereItBelongs'
  <1>1. /\ runs \in [Lives -> Nat] /\ buffer \in Seq(Lives) /\ lost \subseteq Lives
        /\ Handled \subseteq Keys
    BY ExpiryAssumption DEF IInv, TypeOK
  <1>x. PICK x : x = Head(buffer)
    OBVIOUS
  <1>2. /\ buffer # <<>> /\ buffer' = Tail(buffer)
        /\ runs' = [runs EXCEPT ![x] = @ + 1]
        /\ UNCHANGED <<trigger, lives, dropped, lost>>
    BY <1>x DEF Dispatch, Told, serverVars, settings
  <1>3. ToSet(buffer) = {x} \cup ToSet(buffer')
    BY <1>1, <1>2, <1>x, HeadMembers
  <1>4. x \in Lives /\ runs[x] = 0
    BY <1>3, BufferWaits DEF Waiting, Untouched
  <1>5. runs'[x] = 1 /\ \A y \in Lives \ {x} : runs'[y] = runs[y]
    BY <1>1, <1>2, <1>4
  <1>6. ASSUME NEW y \in Handled \X (1..MaxLives), y[2] <= lives[y[1]]
        PROVE  \/ y[2] = trigger[y[1]]
               \/ y \in ToSet(buffer')
               \/ y \in dropped \cup lost
               \/ runs'[y] = 1
    <2>1. y \in Lives
      BY <1>1 DEF Lives
    <2> QED
      BY <1>3, <1>5, <1>6, <2>1 DEF WhereItBelongs, NoneForgotten
  <1>7. LostForGood'
    <2> SUFFICES ASSUME NEW y \in lost
                 PROVE  Waiting(y)' /\ y \notin ToSet(buffer')
      BY <1>2 DEF LostForGood
    <2>1. Waiting(y) /\ y \notin ToSet(buffer) /\ y \in Lives
      BY <1>1 DEF WhereItBelongs, LostForGood
    <2>2. y # x /\ y \notin ToSet(buffer')
      BY <1>3, <2>1
    <2>3. runs'[y] = runs[y]
      BY <1>5, <2>1, <2>2
    <2> QED
      BY <1>2, <2>1, <2>2, <2>3 DEF Waiting, Untouched
  <1> QED
    BY <1>2, <1>6, <1>7 DEF WhereItBelongs, NoneForgotten

\* Every step leaves each life where it belongs.
LEMMA BelongsStep ==
  ASSUME IInv, WhereItBelongs, [Next]_vars
  PROVE  WhereItBelongs'
  <1>t. TypeOK' /\ buffer \in Seq(Lives)
    BY TypeStep DEF IInv, TypeOK
  <1>1. ASSUME NEW k \in Keys, Set(k) PROVE WhereItBelongs'
    <2>1. Drops({k}) /\ UNCHANGED <<buffer, runs, lost>>
      BY <1>1 DEF Set, Drops, IInv, TypeOK, settings, listenerVars
    <2> QED
      BY <2>1, <1>t, DropBelongs
  <1>2. ASSUME NEW keys \in SUBSET Keys, Withdraw(keys) PROVE WhereItBelongs'
    <2>1. Drops(keys) /\ UNCHANGED <<buffer, runs, lost>>
      BY <1>2 DEF Withdraw, Drops, settings, listenerVars
    <2> QED
      BY <2>1, <1>t, DropBelongs
  <1>3. CASE Ignore
    <2>1. /\ buffer # <<>> /\ buffer' = Tail(buffer) /\ Head(buffer)[1] \notin Handled
          /\ UNCHANGED <<trigger, lives, dropped, runs, lost>>
      BY <1>3 DEF Ignore, Told, serverVars, settings
    <2>2. ToSet(buffer) = {Head(buffer)} \cup ToSet(buffer')
      BY <1>t, <2>1, HeadMembers
    <2> QED
      BY <2>1, <2>2, LosesNone
  <1>4. CASE Break
    <2>1. PICK n \in 0..Len(buffer) :
            /\ buffer' = SubSeq(buffer, 1, n)
            /\ lost' = lost \cup ToSet(SubSeq(buffer, n + 1, Len(buffer)))
      BY <1>4 DEF Break
    <2> DEFINE gone == ToSet(SubSeq(buffer, n + 1, Len(buffer)))
    <2>2. /\ \A x \in ToSet(buffer') : \E i \in 1..n : x = buffer[i]
          /\ \A x \in gone : \E i \in n + 1..Len(buffer) : x = buffer[i]
          /\ ToSet(buffer) = ToSet(buffer') \cup gone
      BY <1>t, <2>1, SplitMembers
    <2>3. \A i \in 1..n, j \in n + 1..Len(buffer) :
            i \in 1..Len(buffer) /\ j \in 1..Len(buffer) /\ i # j
      BY <1>t, LenProperties
    <2>4. ToSet(buffer') \cap gone = {}
      <3> SUFFICES ASSUME NEW x \in ToSet(buffer'), x \in gone PROVE FALSE
        OBVIOUS
      <3>1. PICK i \in 1..n, j \in n + 1..Len(buffer) : x = buffer[i] /\ x = buffer[j]
        BY <2>2
      <3> QED
        BY <2>3, <3>1 DEF IInv, NoneTwice
    <2>5. UNCHANGED <<trigger, lives, dropped, runs>>
      BY <1>4 DEF Break, serverVars, settings
    <2> HIDE DEF gone
    <2>6. gone \subseteq ToSet(buffer) /\ lost' = lost \cup gone
      BY <2>1, <2>2 DEF gone
    <2> QED
      BY <2>2, <2>4, <2>5, <2>6, LosesSome
  <1>5. CASE ConnectFails \/ Refuse \/ NoticeBreak \/ Cancelled
    <2>1. /\ UNCHANGED <<trigger, lives, dropped, runs>>
          /\ buffer' = <<>> /\ lost' = lost \cup ToSet(buffer)
      BY <1>5 DEF ConnectFails, Refuse, NoticeBreak, Cancelled, Fail, serverVars, settings
    <2> QED
      BY <2>1, AllLost
  <1>6. CASE \/ Scan \/ Subscribe \/ Resume \/ Wake \/ Disconnected
             \/ BeginDrain \/ Stop \/ Stopped \/ UNCHANGED vars
    <2>1. UNCHANGED <<trigger, lives, dropped, runs, buffer, lost>>
      BY <1>6 DEF Scan, Subscribe, Resume, Wake, Disconnected, BeginDrain, Stop,
         Stopped, vars, serverVars, settings, listenerVars
    <2> QED
      BY <2>1, LosesNone
  <1>7. CASE DeletePage
    BY <1>7, <1>2 DEF DeletePage, IInv, TypeOK
  <1>8. ASSUME NEW k \in Keys, Set(k) \/ Delete(k) \/ Expire(k)
        PROVE  WhereItBelongs'
    BY <1>1, <1>2, <1>8, ExpireBelongs DEF Delete
  <1>9. CASE ListenerStep
    BY <1>3, <1>5, <1>6, <1>9, DispatchBelongs DEF ListenerStep
  <1> QED
    BY <1>4, <1>5, <1>6, <1>7, <1>8, <1>9 DEF Next

\* Nothing is forgotten: a handler is started for every life of its trigger
\* that the server has let go of, but for those that were withdrawn, and those
\* that nobody was told of or that were told to a listener that failed, was
\* stopped or had its connection broken.  It is the part of HeardRuns that
\* needs no fairness, and the lost ones do not run after all.
THEOREM NothingForgotten == Spec => [](NoneForgotten /\ LostForGood)
  <1>1. Init => WhereItBelongs
    <2>1. Init => \A k \in Handled, n \in 1..MaxLives : ~(n <= lives[k])
      BY ExpiryAssumption DEF Init
    <2> QED
      BY <2>1 DEF Init, WhereItBelongs, NoneForgotten, LostForGood
  <1>2. IInv /\ WhereItBelongs /\ [Next]_vars => WhereItBelongs'
    BY BelongsStep
  <1>3. Spec => []WhereItBelongs
    BY <1>1, <1>2, InvInit, InvStep, PTL DEF Spec
  <1> QED
    BY <1>3 DEF WhereItBelongs

-----------------------------------------------------------------------------
(* The end of the listener.                                                *)

\* Who was asked to stop is still to notice it, where it can, or on its way out.
StopIsHeard ==
    /\ hook \in {"serving", "draining"} => ~cancelling /\ pc # "closing"
    /\ cancelling => pc \in {"connecting", "listening", "waiting"}
    /\ hook \in {"stopping", "stopped"} => cancelling \/ pc \in {"closing", "over"}

\* No failure, refusal or new subscription hides a cancellation: the part of
\* CancelEnds that needs no fairness (ExpiryPlugin._shutdown_hook).
THEOREM CancellationIsHeard == Spec => []StopIsHeard
  <1>1. Init => StopIsHeard
    BY DEF Init, StopIsHeard
  <1>2. TypeOK /\ StopIsHeard /\ [Next]_vars => StopIsHeard'
    <2> SUFFICES ASSUME TypeOK, StopIsHeard, [Next]_vars PROVE StopIsHeard'
      OBVIOUS
    <2>t. cancelling \in BOOLEAN
      BY DEF TypeOK
    <2>1. CASE \/ \E k \in Keys : Set(k) \/ Delete(k) \/ Expire(k)
               \/ Scan \/ DeletePage \/ Break \/ Resume \/ Dispatch \/ Ignore
               \/ UNCHANGED vars
      <3>1. UNCHANGED <<pc, hook, cancelling>>
        BY <2>1 DEF Set, Delete, Expire, Scan, DeletePage, Withdraw, Break, Resume,
           Dispatch, Ignore, vars, settings, listenerVars
      <3> QED
        BY <3>1 DEF StopIsHeard
    <2>2. CASE Subscribe \/ Wake \/ Refuse \/ NoticeBreak \/ ConnectFails
      <3>1. /\ ~cancelling /\ pc \notin {"closing", "over"}
            /\ UNCHANGED <<hook, cancelling>> /\ pc' # "closing"
        BY <2>2 DEF Subscribe, Wake, Refuse, NoticeBreak, ConnectFails, Fail,
           Connecting, Listening
      <3> QED
        BY <3>1 DEF StopIsHeard
    <2>3. CASE Cancelled \/ Disconnected
      <3>1. /\ pc' \in {"closing", "over"} /\ UNCHANGED hook /\ ~cancelling'
            /\ cancelling \/ pc = "closing"
        BY <2>3, <2>t DEF Cancelled, Disconnected, StopIsHeard
      <3> QED
        BY <3>1 DEF StopIsHeard
    <2>4. CASE BeginDrain \/ Stopped
      BY <2>4 DEF BeginDrain, Stopped, settings, listenerVars, StopIsHeard
    <2>5. CASE Stop
      <3>1. /\ hook = "draining" /\ UNCHANGED pc
            /\ cancelling' = (pc # "over") /\ hook' \in {"stopping", "stopped"}
        BY <2>5 DEF Stop, settings, listenerVars
      <3>2. pc \in {"connecting", "listening", "waiting", "over"}
        BY <3>1 DEF StopIsHeard, TypeOK
      <3> QED
        BY <3>1, <3>2 DEF StopIsHeard
    <2> QED
      BY <2>1, <2>2, <2>3, <2>4, <2>5 DEF Next, ListenerStep
  <1> QED
    BY <1>1, <1>2, TypeCorrect, PTL DEF Spec

-----------------------------------------------------------------------------
(* The attempts and the connections.                                        *)

\* How many failures the listener has behind it, and what they cost: no more
\* than one connection each, besides the one it listens on.
Counted ==
    /\ limit # NoLimit => attempts <= limit
    /\ limit # NoLimit /\ pc # "over" => attempts < limit
    /\ pc = "over" /\ hook \in {"serving", "draining"} =>
          limit # NoLimit /\ attempts = limit
    /\ Held <= attempts + 1
    /\ pc \in {"connecting", "waiting"} => Held <= attempts
    /\ pc = "listening" => pubsub # "none" /\ notify # "unset"

\* A listener that nobody stopped ends only when its attempts are used up, and
\* as long as it has some it finds a connection in a pool of that many.  It is
\* not told of what expires only if its connection is broken, or the CONFIG SET
\* was refused, or the server has lost the setting again.
ConnectsWhileItMay ==
    /\ pc = "over" /\ hook \in {"serving", "draining"} =>
          limit # NoLimit /\ attempts = limit
    /\ pc = "connecting" /\ limit # NoLimit /\ limit <= PoolSize =>
          Held < PoolSize
    /\ pc = "listening" =>
          Hearing \/ pubsub = "broken" \/ notify \in {"refused", "lost"}

\* One more failure, with the subscription that is there or without it.
LEMMA FailCounts ==
  ASSUME TypeOK, Counted, Fail, limit' = limit,
         \/ pc \in {"connecting", "listening"} /\ Held' = Held
         \/ pc = "connecting" /\ Held' = Held + 1
  PROVE  Counted'
  <1>1. attempts' = attempts + 1 /\ attempts \in Nat
    BY DEF Fail, TypeOK
  <1>2. limit # NoLimit => limit \in Nat
    BY ExpiryAssumption DEF TypeOK
  <1>3. Held \in Nat
    BY DEF TypeOK, Held
  <1>4. /\ pc' \in {"waiting", "over"}
        /\ pc' = "waiting" => limit = NoLimit \/ attempts' < limit
        /\ pc' = "over" => limit # NoLimit /\ ~(attempts' < limit)
    BY DEF Fail, ShouldRetry
  <1>5. Held' <= attempts' /\ Held' <= attempts' + 1
    BY <1>1, <1>3 DEF Counted
  <1>6. /\ limit # NoLimit => attempts' <= limit
        /\ pc' = "over" => limit # NoLimit /\ attempts' = limit
    BY <1>1, <1>2, <1>4 DEF Counted
  <1> QED
    BY <1>4, <1>5, <1>6 DEF Counted

\* Every step keeps the count of failures and connections.
LEMMA CountedStep ==
  ASSUME TypeOK, StopIsHeard, Counted, [Next]_vars
  PROVE  Counted'
  <1>t. /\ attempts \in Nat /\ Held \in Nat
        /\ limit # NoLimit => limit \in Nat
    BY ExpiryAssumption DEF TypeOK, Held
  <1>1. ASSUME UNCHANGED <<settings, pc, pubsub, leaked, attempts>>,
               hook' \in {"serving", "draining"} => hook \in {"serving", "draining"}
        PROVE  Counted'
    BY <1>1 DEF Counted, Held, settings
  <1>2. CASE Subscribe
    <2>1. Held' = Held + 1 /\ pubsub' = "open"
      BY <1>2, <1>t DEF Subscribe, Replace, Held
    <2>2. /\ pc = "connecting" /\ pc' = "listening" /\ UNCHANGED <<limit, attempts>>
          /\ notify' # "unset"
      BY <1>2 DEF Subscribe, Configure, Connecting
    <2> QED
      BY <1>t, <2>1, <2>2 DEF Counted
  <1>3. CASE ConnectFails
    <2>1. pc = "connecting" /\ Fail /\ limit' = limit
      BY <1>3 DEF ConnectFails, Connecting
    <2>2. Held' = Held \/ Held' = Held + 1
      BY <1>3, <1>t DEF ConnectFails, Replace, Held
    <2> QED
      BY <1>t, <2>1, <2>2, FailCounts
  <1>4. CASE Refuse \/ NoticeBreak
    <2>1. pc = "listening" /\ Fail /\ UNCHANGED <<limit, pubsub, leaked>>
      BY <1>4 DEF Refuse, NoticeBreak, Listening, settings
    <2>2. Held' = Held
      BY <2>1 DEF Held
    <2> QED
      BY <1>t, <2>1, <2>2, FailCounts
  <1>5. CASE Dispatch \/ Ignore
    BY <1>1, <1>5 DEF Dispatch, Ignore
  <1>6. CASE Wake
    BY <1>6 DEF Wake, Counted, Held, settings
  <1>7. CASE Cancelled
    <2>1. /\ UNCHANGED <<limit, pubsub, leaked, attempts, hook>>
          /\ hook \notin {"serving", "draining"}
          /\ pc # "over" /\ pc' \in {"over", "closing"}
      BY <1>7 DEF Cancelled, StopIsHeard, settings
    <2> QED
      BY <2>1 DEF Counted, Held
  <1>8. CASE Disconnected
    <2>1. /\ UNCHANGED <<limit, leaked, attempts, hook>> /\ pubsub' = "none"
          /\ hook \notin {"serving", "draining"}
          /\ pc = "closing" /\ pc' = "over"
      BY <1>8 DEF Disconnected, StopIsHeard, settings
    <2>2. Held' \in Nat /\ Held' <= Held
      BY <2>1 DEF Held, TypeOK
    <2> QED
      BY <1>t, <2>1, <2>2 DEF Counted
  <1>9. CASE Break \/ Resume
    <2>1. /\ UNCHANGED <<limit, pc, leaked, attempts, hook>>
          /\ pubsub # "none" /\ pubsub' # "none"
          /\ notify # "unset" => notify' # "unset"
      BY <1>9 DEF Break, Resume, settings
    <2> QED
      BY <2>1 DEF Counted, Held
  <1>10. CASE BeginDrain \/ Stop \/ Stopped
    BY <1>1, <1>10 DEF BeginDrain, Stop, Stopped, settings, listenerVars
  <1>11. CASE \E k \in Keys : Set(k) \/ Delete(k) \/ Expire(k)
    BY <1>1, <1>11 DEF Set, Delete, Withdraw, Expire, settings, listenerVars
  <1>12. CASE Scan \/ DeletePage
    BY <1>1, <1>12 DEF Scan, DeletePage, Withdraw, settings, listenerVars
  <1>13. CASE UNCHANGED vars
    BY <1>1, <1>13 DEF vars, settings, listenerVars
  <1> QED
    BY <1>2, <1>3, <1>4, <1>5, <1>6, <1>7, <1>8, <1>9, <1>10, <1>11, <1>12, <1>13
    DEF Next, ListenerStep

\* Only the configured limit ends a listener that nobody stops, and a pool with
\* a connection for each attempt never runs out, though none is given back: the
\* part of Recovers that needs no fairness (run_expiry_listener, connect).
THEOREM AttemptsAreEnough == Spec => []ConnectsWhileItMay
  <1>1. Init => Counted
    BY ExpiryAssumption DEF Init, Counted, Held
  <1>2. TypeOK /\ StopIsHeard /\ Counted /\ [Next]_vars => Counted'
    BY CountedStep
  <1>3. TypeOK /\ Counted => ConnectsWhileItMay
    <2> SUFFICES ASSUME TypeOK, Counted PROVE ConnectsWhileItMay
      OBVIOUS
    <2>1. /\ attempts \in Nat /\ Held \in Nat /\ PoolSize \in Nat
          /\ limit # NoLimit => limit \in Nat
      BY ExpiryAssumption DEF TypeOK, Held
    <2> QED
      BY <2>1 DEF Counted, ConnectsWhileItMay, Hearing, TypeOK, Notify
  <1> QED
    BY <1>1, <1>2, <1>3, TypeCorrect, CancellationIsHeard, PTL DEF Spec
=============================================================================
