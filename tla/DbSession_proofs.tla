--------------------------- MODULE DbSession_proofs ---------------------------
(***************************************************************************)
(* Proofs about DbSession, for any units of work, pool and retries: types  *)
(* and the limit of the pool, what a unit leaves behind, and which units   *)
(* are committed.                                                          *)
(***************************************************************************)
EXTENDS DbSession, FiniteSetTheorems, TLAPS

\* A unit has no transaction before its body, no connection between two
\* attempts, and goes on to another attempt only if it has one left.
BeforeBody ==
    \A u \in Units :
        /\ pc[u] \in {"new", "connect", "backoff"} => u \notin lent
        /\ pc[u] \in {"new", "connect", "opening", "discard", "backoff"}
              => tx[u] = "none"
        /\ pc[u] = "backoff" \/ (pc[u] = "discard" /\ ending[u] # "raise")
              => attempt[u] < Retries

\* A unit in its commit has returned.
CommitIsReturn == \A u \in Units : pc[u] = "commit" => ending[u] = "return"

IInv ==
    /\ TypeOK
    /\ IsFiniteSet(lent)
    /\ BeforeBody
    /\ CommitIsReturn
    /\ NothingLeftBehind

-----------------------------------------------------------------------------
(* The pool.                                                               *)

\* A unit that takes a connection only when one is free, or holds one already,
\* leaves the pool within its size.
LEMMA LendOne ==
  ASSUME IsFiniteSet(lent), NEW u \in Units,
         leaked \in Nat, Taken <= PoolSize,
         u \in lent \/ Taken < PoolSize
  PROVE  /\ IsFiniteSet(lent \cup {u})
         /\ Cardinality(lent \cup {u}) + leaked <= PoolSize
  <1>1. /\ IsFiniteSet(lent \cup {u})
        /\ Cardinality(lent \cup {u}) =
              IF u \in lent THEN Cardinality(lent) ELSE Cardinality(lent) + 1
    BY FS_AddElement
  <1>2. Cardinality(lent) \in Nat
    BY FS_CardinalityType
  <1> QED
    BY <1>1, <1>2, DbAssumption DEF Taken

\* Returning a connection leaves the pool within its size.
LEMMA GiveBackOne ==
  ASSUME IsFiniteSet(lent), NEW u \in Units, leaked \in Nat, Taken <= PoolSize
  PROVE  /\ IsFiniteSet(lent \ {u})
         /\ Cardinality(lent \ {u}) + leaked <= PoolSize
         /\ u \in lent => Cardinality(lent \ {u}) + leaked + 1 <= PoolSize
  <1>1. /\ IsFiniteSet(lent \ {u})
        /\ Cardinality(lent \ {u}) =
              IF u \in lent THEN Cardinality(lent) - 1 ELSE Cardinality(lent)
    BY FS_RemoveElement
  <1>2. Cardinality(lent) \in Nat
    BY FS_CardinalityType
  <1> QED
    BY <1>1, <1>2, DbAssumption DEF Taken

\* The invariant holds before any unit of work has asked for a session.
LEMMA InitInv == Init => IInv
  <1> SUFFICES ASSUME Init PROVE IInv
    OBVIOUS
  <1>1. IsFiniteSet(lent) /\ Cardinality(lent) = 0
    BY FS_EmptySet DEF Init
  <1>2. TypeOK
    BY <1>1, DbAssumption DEF Init, TypeOK, Places, Taken
  <1>3. BeforeBody /\ CommitIsReturn /\ NothingLeftBehind
    BY DEF Init, BeforeBody, CommitIsReturn, NothingLeftBehind
  <1> QED
    BY <1>1, <1>2, <1>3 DEF IInv

\* What a step does to the pool: nothing, one connection more, one less.
LEMMA PoolStep ==
  ASSUME IInv, NEW u \in Units, UnitStep(u)
  PROVE  IsFiniteSet(lent') /\ leaked' \in Nat /\ Taken' <= PoolSize
  <1> USE DEF IInv, TypeOK
  <1>1. CASE Checkout(u) \/ Query(u)
    <2>1. /\ lent' = lent \cup {u} /\ leaked' = leaked
          /\ u \in lent \/ Taken < PoolSize
      BY <1>1 DEF Checkout, Query
    <2> QED
      BY <2>1, LendOne DEF Taken
  <1>2. CASE Discard(u) \/ Close(u)
    <2>1. lent' = lent \ {u} /\ leaked' = leaked
      BY <1>2 DEF Discard, Close
    <2> QED
      BY <2>1, GiveBackOne DEF Taken
  <1>3. CASE lent' = lent /\ leaked' = leaked
    BY <1>3 DEF Taken
  <1>4. CASE DiscardCut(u)
    <2>1. u \in lent /\ lent' = lent \ {u} /\ leaked' = leaked + 1
      BY <1>4 DEF DiscardCut
    <2>2. Cardinality(lent \ {u}) \in Nat /\ IsFiniteSet(lent \ {u})
      BY GiveBackOne, FS_CardinalityType
    <2>3. Cardinality(lent \ {u}) + leaked + 1 <= PoolSize
      BY <2>1, GiveBackOne
    <2> QED
      BY <2>1, <2>2, <2>3, DbAssumption DEF Taken
  <1> QED
    BY <1>1, <1>2, <1>3, <1>4
    DEF UnitStep, Bounded, Enter, Connected, ConnectAgain, ConnectRaises, Retry,
        CancelBackoff, BodyReturns, BodyRaises, Commit, CommitFails,
        CommitTimesOut, CommitCancelled, Rollback, RollbackCut, CloseCut

-----------------------------------------------------------------------------
(* The other variables: a step of a unit leaves the other units alone.     *)

\* Asking for a connection, connecting, failing and backing off keep every
\* conjunct of the invariant.
LEMMA AcquireStep ==
  ASSUME IInv, NEW u \in Units,
         \/ Enter(u) \/ Checkout(u) \/ Connected(u) \/ ConnectAgain(u)
         \/ ConnectRaises(u) \/ Discard(u) \/ DiscardCut(u) \/ Retry(u) \/ CancelBackoff(u)
  PROVE  /\ pc' \in [Units -> Places]
         /\ attempt' \in [Units -> 0..Retries]
         /\ lent' \subseteq Units
         /\ tx' \in [Units -> {"none", "open", "committed", "undone"}]
         /\ ending' \in [Units -> {"unknown", "return", "raise"}]
         /\ broken' \subseteq Units
         /\ BeforeBody' /\ CommitIsReturn' /\ NothingLeftBehind'
  <1> USE DbAssumption
      DEF IInv, TypeOK, Places, Go, EndBy, BeforeBody, CommitIsReturn,
          NothingLeftBehind
  <1>1. CASE Enter(u)
    BY <1>1 DEF Enter
  <1>2. CASE Checkout(u)
    BY <1>2 DEF Checkout
  <1>3. CASE Connected(u)
    BY <1>3 DEF Connected
  <1>4. CASE ConnectAgain(u)
    BY <1>4 DEF ConnectAgain
  <1>5. CASE ConnectRaises(u)
    BY <1>5 DEF ConnectRaises
  <1>6. CASE Discard(u)
    BY <1>6 DEF Discard
  <1>7. CASE Retry(u)
    BY <1>7 DEF Retry
  <1>8. CASE CancelBackoff(u)
    BY <1>8 DEF CancelBackoff
  <1>9. CASE DiscardCut(u)
    BY <1>9 DEF DiscardCut
  <1> QED
    BY <1>1, <1>2, <1>3, <1>4, <1>5, <1>6, <1>7, <1>8, <1>9

\* The unit's queries, its commit, its rollback and its close keep every
\* conjunct of the invariant.
LEMMA BodyStep ==
  ASSUME IInv, NEW u \in Units,
         \/ Query(u) \/ BodyReturns(u) \/ BodyRaises(u)
         \/ Commit(u) \/ CommitFails(u) \/ CommitTimesOut(u) \/ CommitCancelled(u)
         \/ Rollback(u) \/ RollbackCut(u) \/ Close(u) \/ CloseCut(u)
  PROVE  /\ pc' \in [Units -> Places]
         /\ attempt' \in [Units -> 0..Retries]
         /\ lent' \subseteq Units
         /\ tx' \in [Units -> {"none", "open", "committed", "undone"}]
         /\ ending' \in [Units -> {"unknown", "return", "raise"}]
         /\ broken' \subseteq Units
         /\ BeforeBody' /\ CommitIsReturn' /\ NothingLeftBehind'
  <1> USE DEF IInv, TypeOK, Places, Go, EndBy, Becomes, Perhaps, BeforeBody,
              CommitIsReturn, NothingLeftBehind
  <1>1. CASE Query(u)
    BY <1>1 DEF Query
  <1>2. CASE BodyReturns(u)
    BY <1>2 DEF BodyReturns
  <1>3. CASE BodyRaises(u)
    BY <1>3 DEF BodyRaises
  <1>4. CASE Commit(u)
    BY <1>4 DEF Commit
  <1>5. CASE CommitFails(u)
    BY <1>5 DEF CommitFails
  <1>6. CASE CommitTimesOut(u)
    BY <1>6 DEF CommitTimesOut
  <1>7. CASE CommitCancelled(u)
    BY <1>7 DEF CommitCancelled
  <1>8. CASE Rollback(u)
    BY <1>8 DEF Rollback
  <1>9. CASE RollbackCut(u)
    BY <1>9 DEF RollbackCut
  <1>10. CASE Close(u)
    BY <1>10 DEF Close
  <1>11. CASE CloseCut(u)
    BY <1>11 DEF CloseCut
  <1> QED
    BY <1>1, <1>2, <1>3, <1>4, <1>5, <1>6, <1>7, <1>8, <1>9, <1>10, <1>11

\* Every step keeps the invariant.
LEMMA InvStep ==
  ASSUME IInv, [Next \/ AllOver]_vars PROVE IInv'
  <1>1. ASSUME NEW u \in Units, UnitStep(u) PROVE IInv'
    <2>1. IsFiniteSet(lent') /\ leaked' \in Nat /\ Taken' <= PoolSize
      BY <1>1, PoolStep
    <2>2. CASE \/ Enter(u) \/ Checkout(u) \/ Connected(u) \/ ConnectAgain(u)
               \/ ConnectRaises(u) \/ Discard(u) \/ DiscardCut(u) \/ Retry(u) \/ CancelBackoff(u)
      BY <2>1, <2>2, AcquireStep DEF IInv, TypeOK
    <2>3. CASE \/ Query(u) \/ BodyReturns(u) \/ BodyRaises(u) \/ Commit(u)
               \/ CommitFails(u) \/ CommitTimesOut(u) \/ CommitCancelled(u)
               \/ Rollback(u) \/ RollbackCut(u) \/ Close(u) \/ CloseCut(u)
      BY <2>1, <2>3, BodyStep DEF IInv, TypeOK
    <2> QED
      BY <1>1, <2>2, <2>3 DEF UnitStep, Bounded
  <1>2. CASE UNCHANGED vars
    BY <1>2
    DEF vars, IInv, TypeOK, Taken, BeforeBody, CommitIsReturn, NothingLeftBehind
  <1> QED
    BY <1>1, <1>2 DEF Next, AllOver

\* The inductive invariant holds: types, the pool, and what the places before
\* the body and at the commit say of the transaction.
THEOREM Invariant == Spec => []IInv
  BY InitInv, InvStep, PTL DEF Spec

\* Types, and never more connections lent than the pool has.
THEOREM TypeCorrect == Spec => []TypeOK
  <1>1. IInv => TypeOK
    BY DEF IInv
  <1> QED
    BY <1>1, Invariant, PTL

\* Wherever a unit was cancelled or failed, it leaves neither a transaction nor
\* a connection behind, if the close at its end got through: TypeOK counts the
\* connections of half-open sessions whose close did not as taken.
THEOREM UnitsLeaveNothing == Spec => []NothingLeftBehind
  <1>1. IInv => NothingLeftBehind
    BY DEF IInv
  <1> QED
    BY <1>1, Invariant, PTL

\* A step that commits a unit's transaction finds the unit at its commit,
\* after a body that returned.
LEMMA CommitStep ==
  ASSUME IInv, [Next \/ AllOver]_vars, NEW v \in Units,
         tx[v] # "committed", tx'[v] = "committed"
  PROVE  pc[v] = "commit" /\ ending[v] = "return"
  <1>1. ASSUME NEW u \in Units, UnitStep(u) PROVE pc[v] = "commit"
    <2>1. CASE Commit(u) \/ CommitTimesOut(u) \/ CommitCancelled(u)
      BY <2>1
      DEF Commit, CommitTimesOut, CommitCancelled, Go, Becomes, Perhaps, IInv, TypeOK
    <2>2. CASE Query(u) \/ CommitFails(u) \/ Rollback(u) \/ RollbackCut(u) \/ Close(u)
      BY <2>2
      DEF Query, CommitFails, Rollback, RollbackCut, Close, Becomes, Perhaps,
          IInv, TypeOK
    <2>3. CASE tx' = tx
      BY <2>3
    <2> QED
      BY <1>1, <2>1, <2>2, <2>3
      DEF UnitStep, Bounded, Enter, Checkout, Connected, ConnectAgain,
          ConnectRaises, Discard, DiscardCut, Retry, CancelBackoff, BodyReturns, BodyRaises,
          CloseCut
  <1>2. pc[v] = "commit"
    BY <1>1 DEF Next, AllOver, vars
  <1> QED
    BY <1>2 DEF IInv, CommitIsReturn

\* A transaction is committed only by the commit of a body that has returned.
THEOREM CommittedReturned == Spec => OnlyReturnedCommit
  <1>1. IInv /\ [Next \/ AllOver]_vars =>
          [\A u \in Units : tx[u] # "committed" /\ tx'[u] = "committed"
              => pc[u] = "commit" /\ ending[u] = "return"]_vars
    BY CommitStep
  <1> QED
    BY <1>1, Invariant, PTL DEF Spec, OnlyReturnedCommit

-----------------------------------------------------------------------------
(* What becomes of the transactions, and the way through the teardown.      *)

\* A transaction is on a connection that the pool counts as lent, and before
\* the teardown nothing of a unit is decided.
TransactionHeld ==
    \A u \in Units :
        /\ tx[u] = "open" => u \in lent
        /\ tx[u] \in {"committed", "undone"} =>
              pc[u] \in {"rollback", "close", "over"}

\* A unit's outcome, once Postgres has it, stands: the rollback and the close
\* that follow a COMMIT undo nothing, and no later query begins a transaction.
OutcomeStands ==
    [][\A u \in Units : tx[u] \in {"committed", "undone"} => tx'[u] = tx[u]]_vars

\* Each step of a unit keeps where transactions can be and what is decided.
LEMMA TransactionStep ==
  ASSUME IInv, TransactionHeld, NEW u \in Units, UnitStep(u)
  PROVE  /\ TransactionHeld'
         /\ \A v \in Units : tx[v] \in {"committed", "undone"} => tx'[v] = tx[v]
  <1> USE DEF IInv, TypeOK, Go, EndBy, Becomes, Perhaps, TransactionHeld
  <1>1. CASE Enter(u) \/ Checkout(u) \/ Connected(u) \/ ConnectAgain(u)
    BY <1>1 DEF Enter, Checkout, Connected, ConnectAgain
  <1>2. CASE ConnectRaises(u) \/ Retry(u) \/ CancelBackoff(u)
    BY <1>2 DEF ConnectRaises, Retry, CancelBackoff
  <1>3. CASE Discard(u) \/ DiscardCut(u)
    <2>1. tx[u] = "none"
      BY <1>3 DEF Discard, DiscardCut, BeforeBody
    <2> QED
      BY <1>3, <2>1 DEF Discard, DiscardCut
  <1>4. CASE Query(u)
    BY <1>4 DEF Query
  <1>5. CASE BodyReturns(u) \/ BodyRaises(u) \/ CloseCut(u)
    BY <1>5 DEF BodyReturns, BodyRaises, CloseCut
  <1>6. CASE Commit(u) \/ CommitFails(u) \/ CommitTimesOut(u)
    BY <1>6 DEF Commit, CommitFails, CommitTimesOut
  <1>7. CASE CommitCancelled(u)
    BY <1>7 DEF CommitCancelled
  <1>8. CASE Rollback(u) \/ RollbackCut(u)
    BY <1>8 DEF Rollback, RollbackCut
  <1>9. CASE Close(u)
    BY <1>9 DEF Close
  <1> QED
    BY <1>1, <1>2, <1>3, <1>4, <1>5, <1>6, <1>7, <1>8, <1>9 DEF UnitStep, Bounded

\* No transaction goes back to the pool open or stays open without a connection.
THEOREM TransactionsAreHeld == Spec => []TransactionHeld
  <1>1. Init => TransactionHeld
    BY DEF Init, TransactionHeld
  <1>2. IInv /\ TransactionHeld /\ [Next \/ AllOver]_vars => TransactionHeld'
    <2>1. ASSUME UNCHANGED vars, TransactionHeld PROVE TransactionHeld'
      BY <2>1 DEF vars, TransactionHeld
    <2> QED
      BY <2>1, TransactionStep DEF Next, AllOver
  <1> QED
    BY <1>1, <1>2, Invariant, PTL DEF Spec

\* What was committed or undone stays so: a cancellation that meets the COMMIT,
\* and the rollback after it, cannot take a commit back (_managed_session).
THEOREM OutcomesStand == Spec => OutcomeStands
  <1>1. IInv /\ TransactionHeld /\ [Next \/ AllOver]_vars =>
          [\A u \in Units : tx[u] \in {"committed", "undone"} => tx'[u] = tx[u]]_vars
    BY TransactionStep DEF Next, AllOver
  <1> QED
    BY <1>1, Invariant, TransactionsAreHeld, PTL DEF Spec, OutcomeStands

TeardownOrder ==
    {<<"commit", "rollback">>, <<"commit", "close">>, <<"rollback", "close">>,
     <<"close", "over">>}

\* In its teardown a unit goes one way, in three steps at most.
TeardownAdvances ==
    [][\A u \in Units : pc[u] \in {"commit", "rollback", "close", "over"} =>
          pc'[u] = pc[u] \/ <<pc[u], pc'[u]>> \in TeardownOrder]_vars

\* No failure and no cancellation sends a teardown back: the part of
\* TeardownEnds that needs no fairness.
THEOREM TeardownGoesOn == Spec => TeardownAdvances
  <1>1. ASSUME TypeOK, NEW u \in Units, UnitStep(u), NEW v \in Units,
               pc[v] \in {"commit", "rollback", "close", "over"}
        PROVE  pc'[v] = pc[v] \/ <<pc[v], pc'[v]>> \in TeardownOrder
    BY <1>1
    DEF TypeOK, TeardownOrder, Go, UnitStep, Bounded, Enter, Checkout, Connected,
        ConnectAgain, ConnectRaises, Discard, DiscardCut, Retry, CancelBackoff, Query,
        BodyReturns, BodyRaises, Commit, CommitFails, CommitTimesOut,
        CommitCancelled, Rollback, RollbackCut, Close, CloseCut
  <1>2. TypeOK /\ [Next \/ AllOver]_vars =>
          [\A u \in Units : pc[u] \in {"commit", "rollback", "close", "over"} =>
             pc'[u] = pc[u] \/ <<pc[u], pc'[u]>> \in TeardownOrder]_vars
    BY <1>1 DEF Next, AllOver
  <1> QED
    BY <1>2, TypeCorrect, PTL DEF Spec, TeardownAdvances
=============================================================================
