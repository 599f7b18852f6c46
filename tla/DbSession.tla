------------------------------ MODULE DbSession ------------------------------
(***************************************************************************)
(* The sessions of PostgresSessionManager: get_session as a caller sees    *)
(* it, from the connection it waits for to the connection it gives back.   *)
(*                                                                         *)
(* A unit of work is one `async with get_session()`.  The manager acquires *)
(* a connection, with retries before the caller has run anything; the body *)
(* queries and ends; then _shielded runs COMMIT, ROLLBACK and close, each  *)
(* for ten seconds at most, and keeps their exceptions to itself.          *)
(*                                                                         *)
(* A unit may be cancelled at any suspension.  _shielded holds off the     *)
(* cancel scopes of anyio, not Task.cancel(), which the drain of the       *)
(* background work and the server's shutdown use: that one ends the        *)
(* statement that runs, and the statement may yet take effect.             *)
(* Clock and backoff delays are not modelled.                              *)
(***************************************************************************)
EXTENDS Integers, FiniteSets

CONSTANTS
    Units,        \* units of work
    PoolSize,     \* connections the pool lends at most
    Retries,      \* connect_max_retries
    AutoCommit

ASSUME DbAssumption ==
    /\ PoolSize \in Nat \ {0}
    /\ Retries \in Nat
    /\ AutoCommit \in BOOLEAN

VARIABLES
    pc,        \* where a unit is
    attempt,   \* connection attempts that failed
    lent,      \* units that have a connection of the pool
    tx,        \* the unit's transaction, as Postgres sees it
    ending,    \* how the unit ends for its caller
    broken,    \* history: units whose close did not get through
    leaked     \* connections of half-open sessions whose close did not

vars == <<pc, attempt, lent, tx, ending, broken, leaked>>

\* The connections that the pool cannot lend.
Taken == Cardinality(lent) + leaked

Places == {"new", "connect", "opening", "discard", "backoff", "body",
           "commit", "rollback", "close", "over"}

\* Types; the pool never lends more connections than it has, and a unit never
\* tries to connect more often than connect_max_retries allows.
TypeOK ==
    /\ pc \in [Units -> Places]
    /\ attempt \in [Units -> 0..Retries]
    /\ lent \subseteq Units
    /\ leaked \in Nat
    /\ Taken <= PoolSize
    /\ tx \in [Units -> {"none", "open", "committed", "undone"}]
    /\ ending \in [Units -> {"unknown", "return", "raise"}]
    /\ broken \subseteq Units

Init ==
    /\ pc = [u \in Units |-> "new"]
    /\ attempt = [u \in Units |-> 0]
    /\ lent = {}
    /\ tx = [u \in Units |-> "none"]
    /\ ending = [u \in Units |-> "unknown"]
    /\ broken = {}
    /\ leaked = 0

Go(u, from, to) == pc[u] = from /\ pc' = [pc EXCEPT ![u] = to]

EndBy(u, e) == ending' = [ending EXCEPT ![u] = e]

\* The transaction of u becomes s, if it is open.
Becomes(u, s) == tx' = [tx EXCEPT ![u] = IF @ = "open" THEN s ELSE @]

\* A statement whose answer is not seen took effect or did not.
Perhaps(u, s) == UNCHANGED tx \/ Becomes(u, s)

-----------------------------------------------------------------------------
(* _acquire_session.                                                       *)

\* Without retries the session connects with its first query.
Enter(u) ==
    /\ Go(u, "new", IF Retries = 0 THEN "body" ELSE "connect")
    /\ UNCHANGED <<attempt, lent, tx, ending, broken, leaked>>

\* Mutated form: the pool has no limit.
CheckoutMore(u) ==
    /\ Go(u, "connect", "opening")
    /\ lent' = lent \cup {u}
    /\ UNCHANGED <<attempt, tx, ending, broken, leaked>>

\* The pool lends a connection, to be opened or pinged.
Checkout(u) ==
    /\ Taken < PoolSize
    /\ Go(u, "connect", "opening")
    /\ lent' = lent \cup {u}
    /\ UNCHANGED <<attempt, tx, ending, broken, leaked>>

Connected(u) ==
    /\ Go(u, "opening", "body")
    /\ UNCHANGED <<attempt, lent, tx, ending, broken, leaked>>

\* A transient failure while there are retries left.
ConnectAgain(u) ==
    /\ attempt[u] < Retries
    /\ Go(u, "opening", "discard")
    /\ UNCHANGED <<attempt, lent, tx, ending, broken, leaked>>

\* Any other failure, the timeout of a full pool among them, or cancellation.
ConnectRaises(u) ==
    /\ Go(u, "opening", "discard") \/ Go(u, "connect", "discard")
    /\ EndBy(u, "raise")
    /\ UNCHANGED <<attempt, lent, tx, broken, leaked>>

\* Mutated form: the half-open session is not closed.
DiscardLeaks(u) ==
    /\ Go(u, "discard", IF ending[u] = "raise" THEN "over" ELSE "backoff")
    /\ UNCHANGED <<attempt, lent, tx, ending, broken, leaked>>

\* The half-open session is closed before the next attempt or the end.
Discard(u) ==
    /\ Go(u, "discard", IF ending[u] = "raise" THEN "over" ELSE "backoff")
    /\ lent' = lent \ {u}
    /\ UNCHANGED <<attempt, tx, ending, broken, leaked>>

\* That close fails or times out, which _shielded keeps to itself, or is
\* cancelled: the connection does not come back, and nobody has it.
DiscardCut(u) ==
    /\ u \in lent
    /\ \/ /\ Go(u, "discard", IF ending[u] = "raise" THEN "over" ELSE "backoff")
          /\ UNCHANGED ending
       \/ Go(u, "discard", "over") /\ EndBy(u, "raise")
    /\ lent' = lent \ {u}
    /\ leaked' = leaked + 1
    /\ UNCHANGED <<attempt, tx, broken>>

Retry(u) ==
    /\ Go(u, "backoff", "connect")
    /\ attempt' = [attempt EXCEPT ![u] = @ + 1]
    /\ UNCHANGED <<lent, tx, ending, broken, leaked>>

CancelBackoff(u) ==
    /\ Go(u, "backoff", "over")
    /\ EndBy(u, "raise")
    /\ UNCHANGED <<attempt, lent, tx, broken, leaked>>

-----------------------------------------------------------------------------
(* The caller's body.                                                      *)

\* The first query begins the transaction.
Query(u) ==
    /\ pc[u] = "body"
    /\ u \in lent \/ Taken < PoolSize
    /\ lent' = lent \cup {u}
    /\ tx' = [tx EXCEPT ![u] = "open"]
    /\ UNCHANGED <<pc, attempt, ending, broken, leaked>>

BodyReturns(u) ==
    /\ Go(u, "body", IF AutoCommit THEN "commit" ELSE "close")
    /\ EndBy(u, "return")
    /\ UNCHANGED <<attempt, lent, tx, broken, leaked>>

\* Mutated form: a cancelled body is committed like one that returned.
BodyRaisesCommitted(u) ==
    /\ Go(u, "body", "commit")
    /\ EndBy(u, "raise")
    /\ UNCHANGED <<attempt, lent, tx, broken, leaked>>

\* The body raises or is cancelled.
BodyRaises(u) ==
    /\ Go(u, "body", "rollback")
    /\ EndBy(u, "raise")
    /\ UNCHANGED <<attempt, lent, tx, broken, leaked>>

-----------------------------------------------------------------------------
(* The teardown of _managed_session.                                       *)

Commit(u) ==
    /\ Go(u, "commit", "close")
    /\ Becomes(u, "committed")
    /\ UNCHANGED <<attempt, lent, ending, broken, leaked>>

\* COMMIT fails: _shielded logs it and the caller returns as if it had not.
CommitFails(u) ==
    /\ Go(u, "commit", "close")
    /\ Becomes(u, "undone")
    /\ UNCHANGED <<attempt, lent, ending, broken, leaked>>

\* Ten seconds are over: as a failure, but the COMMIT may have arrived.
CommitTimesOut(u) ==
    /\ Go(u, "commit", "close")
    /\ Perhaps(u, "committed")
    /\ UNCHANGED <<attempt, lent, ending, broken, leaked>>

\* Task.cancel(): the COMMIT may have arrived; a rollback follows.
CommitCancelled(u) ==
    /\ Go(u, "commit", "rollback")
    /\ Perhaps(u, "committed")
    /\ EndBy(u, "raise")
    /\ UNCHANGED <<attempt, lent, broken, leaked>>

Rollback(u) ==
    /\ Go(u, "rollback", "close")
    /\ Becomes(u, "undone")
    /\ UNCHANGED <<attempt, lent, ending, broken, leaked>>

\* Mutated form: the rollback may take as long as it likes.
RollbackHangs(u) ==
    /\ Go(u, "rollback", "rollback")
    /\ UNCHANGED <<attempt, lent, tx, ending, broken, leaked>>

\* The rollback fails, times out or is cancelled; the close follows all the same.
RollbackCut(u) ==
    /\ Go(u, "rollback", "close")
    /\ Perhaps(u, "undone")
    /\ UNCHANGED <<attempt, lent, ending, broken, leaked>>

\* The connection goes back to the pool, which resets it.
Close(u) ==
    /\ Go(u, "close", "over")
    /\ Becomes(u, "undone")
    /\ lent' = lent \ {u}
    /\ UNCHANGED <<attempt, ending, broken, leaked>>

\* The close fails, times out or is cancelled: the connection is as it was.
CloseCut(u) ==
    /\ Go(u, "close", "over")
    /\ broken' = broken \cup {u}
    /\ ending' \in {ending, [ending EXCEPT ![u] = "raise"]}
    /\ UNCHANGED <<attempt, lent, tx, leaked>>

\* What is certain to happen once a unit is in its teardown: the discarding of
\* a connection that is not there, and the timeouts of _shielded.
Bounded(u) ==
    \/ Discard(u) \/ DiscardCut(u) \/ CommitTimesOut(u)
    \/ RollbackCut(u) \/ CloseCut(u)

UnitStep(u) ==
    \/ Enter(u) \/ Checkout(u) \/ Connected(u)
    \/ ConnectAgain(u) \/ ConnectRaises(u) \/ Retry(u) \/ CancelBackoff(u)
    \/ Query(u) \/ BodyReturns(u) \/ BodyRaises(u)
    \/ Commit(u) \/ CommitFails(u) \/ CommitCancelled(u)
    \/ Rollback(u) \/ Close(u) \/ Bounded(u)

Next == \E u \in Units : UnitStep(u)

AllOver == (\A u \in Units : pc[u] = "over") /\ UNCHANGED vars

Spec == Init /\ [][Next \/ AllOver]_vars

FairSpec == Spec /\ \A u \in Units : WF_vars(Bounded(u))

-----------------------------------------------------------------------------

\* "Teardown must reach Postgres even when the request is being cancelled":
\* whatever ended a unit, and wherever, no transaction and no connection of it
\* is left behind, if its close got through; a half-open session whose close did
\* not is counted in leaked.
NothingLeftBehind ==
    \A u \in Units :
        pc[u] = "over" /\ u \notin broken => tx[u] # "open" /\ u \notin lent

\* Nothing of a unit is committed whose body did not end well: a unit in the
\* end of which its caller sees an error was committed only if the body had
\* returned, and a cancellation met its COMMIT.
OnlyReturnedCommit ==
    [][\A u \in Units : tx[u] # "committed" /\ tx'[u] = "committed"
          => pc[u] = "commit" /\ ending[u] = "return"]_vars

\* "A dead connection cannot wedge cleanup forever": the teardown comes to its
\* end without an answer from Postgres.
TeardownEnds ==
    \A u \in Units : pc[u] \in {"commit", "rollback", "close"} ~> pc[u] = "over"

\* "Auto-commits on success": a caller that returns has its queries committed.
ReturnedMeansCommitted ==
    \A u \in Units :
        AutoCommit /\ pc[u] = "over" /\ ending[u] = "return"
            => tx[u] \in {"none", "committed"}
=============================================================================
