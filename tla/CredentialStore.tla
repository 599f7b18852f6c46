--------------------------- MODULE CredentialStore ---------------------------
(***************************************************************************)
(* DatabaseInboxCredentialStore (wappa/domain/services): the credentials   *)
(* of one inbox, in a row of the host's database and in a hash of Redis.   *)
(*                                                                         *)
(* A lookup reads the hash; if there is none it reads the row, writes the  *)
(* hash and then gives it its TTL, each a round trip of its own that may   *)
(* fail, before or after it took effect.  The host changes the row when it *)
(* likes and calls invalidate_cache() when it likes: the two are not one   *)
(* step, and no lookup waits for either.                                   *)
(*                                                                         *)
(* Credentials are named by the number of the change that made them.  Keys *)
(* of different inboxes do not meet, so there is one inbox.                *)
(***************************************************************************)
EXTENDS Integers

CONSTANTS
    Requests,    \* coroutines that look credentials up
    MaxChanges   \* bound: changes of the row

ASSUME StoreAssumption == MaxChanges \in Nat

VARIABLES
    row,         \* the row: its version, and is_active
    cached,      \* the hash: the version it holds, and whether it has a TTL
    look,        \* look[p]: the lookup p is in or its outcome, the version it
                 \* is about to write, and what was revoked when it began
    revoked,     \* history: the version of the row at the last invalidation
    lateFill,    \* history: a fill wrote what an invalidation had revoked
    bare,        \* history: a fill stopped between the hash and its TTL
    revived      \* history: a lookup returned what was revoked before it began

storeVars == <<row, cached, look, revoked, lateFill, bare, revived>>

Versions == 0..MaxChanges

NoHash == [version |-> -1, ttl |-> FALSE]

NoLookup == [at |-> "none", version |-> 0, floor |-> 0]

Steps == {"hgetall", "select", "hset", "expire"}

Outcomes == {"found", "missing", "failed"}

StoreTypeOK ==
    /\ row \in [version : Versions, active : BOOLEAN]
    /\ cached \in [version : Versions, ttl : BOOLEAN] \cup {NoHash}
    /\ look \in [Requests -> [at : {"none"} \cup Steps \cup Outcomes,
                              version : Versions, floor : Versions]]
    /\ revoked \in Versions
    /\ {lateFill, bare, revived} \subseteq BOOLEAN

StoreInit ==
    /\ row = [version |-> 0, active |-> TRUE]
    /\ cached = NoHash
    /\ look = [p \in Requests |-> NoLookup]
    /\ revoked = 0
    /\ lateFill = FALSE
    /\ bare = FALSE
    /\ revived = FALSE

-----------------------------------------------------------------------------
(* A lookup: get_credentials, or validate_inbox, which asks for no more    *)
(* than whether there are any.                                             *)

Look(p, at, version, floor) ==
    look' = [look EXCEPT ![p] = [at |-> at, version |-> version, floor |-> floor]]

To(p, at) == Look(p, at, 0, 0)

LookUp(p) == Look(p, "hgetall", 0, revoked)

Hit(p) ==
    /\ look[p].at = "hgetall"
    /\ cached # NoHash
    /\ To(p, "found")
    /\ revived' = (revived \/ cached.version < look[p].floor)
    /\ UNCHANGED <<row, cached, revoked, lateFill, bare>>

Miss(p) ==
    /\ look[p].at = "hgetall"
    /\ cached = NoHash
    /\ To(p, "select")
    /\ UNCHANGED <<row, cached, revoked, lateFill, bare, revived>>

\* Mutated form: that there is no row is put into the cache as well.
SelectNone(p) ==
    /\ look[p].at = "select"
    /\ Look(p, "hset", IF row.active THEN row.version ELSE NoHash.version, 0)
    /\ UNCHANGED <<row, cached, revoked, lateFill, bare, revived>>

\* SELECT ... WHERE is_active: an inactive inbox is none.
Select(p) ==
    /\ look[p].at = "select"
    /\ IF row.active THEN Look(p, "hset", row.version, 0) ELSE To(p, "missing")
    /\ UNCHANGED <<row, cached, revoked, lateFill, bare, revived>>

\* HSET keeps the TTL of a hash that is there.
WriteHash(p) ==
    /\ cached' = [version |-> look[p].version, ttl |-> cached.ttl]
    /\ lateFill' = (lateFill \/ look[p].version < revoked)

\* Mutated form: the hash is left without its TTL.
HsetReturns(p) ==
    /\ look[p].at = "hset"
    /\ WriteHash(p)
    /\ To(p, "found")
    /\ UNCHANGED <<row, revoked, bare, revived>>

Hset(p) ==
    /\ look[p].at = "hset"
    /\ WriteHash(p)
    /\ To(p, "expire")
    /\ UNCHANGED <<row, revoked, bare, revived>>

\* EXPIRE of a key that has gone does nothing.
GiveTtl == cached' = [cached EXCEPT !.ttl = cached # NoHash]

Expire(p) ==
    /\ look[p].at = "expire"
    /\ GiveTtl
    /\ To(p, "found")
    /\ UNCHANGED <<row, revoked, lateFill, bare, revived>>

\* A hash nothing will ever end.
Endless == cached # NoHash /\ ~cached.ttl

\* Redis or the database fails, and the lookup with it.
Fail(p) ==
    /\ look[p].at \in Steps
    /\ To(p, "failed")
    /\ bare' = (bare \/ (look[p].at = "expire" /\ Endless))
    /\ UNCHANGED <<row, cached, revoked, lateFill, revived>>

\* The command took effect and its answer was lost.
FailAfter(p) ==
    /\ To(p, "failed")
    /\ \/ /\ look[p].at = "hset"
          /\ WriteHash(p)
          /\ bare' = (bare \/ ~cached.ttl)
       \/ /\ look[p].at = "expire"
          /\ GiveTtl
          /\ UNCHANGED <<lateFill, bare>>
    /\ UNCHANGED <<row, revoked, revived>>

LookupStep(p) ==
    \/ Hit(p) \/ Miss(p) \/ Select(p) \/ Hset(p) \/ Expire(p)
    \/ Fail(p) \/ FailAfter(p)

-----------------------------------------------------------------------------
(* The host, and the time.                                                 *)

\* The host gives the inbox another token, switches it off or on again.
ChangeRow ==
    /\ row.version < MaxChanges
    /\ \E active \in BOOLEAN :
          row' = [version |-> row.version + 1, active |-> active]
    /\ UNCHANGED <<cached, look, revoked, lateFill, bare, revived>>

\* Mutated form: the key that is deleted is not the one that is read.
InvalidateOther ==
    /\ revoked' = row.version
    /\ UNCHANGED <<row, cached, look, lateFill, bare, revived>>

\* invalidate_cache(): what was committed before it counts from here.
Invalidate ==
    /\ cached' = NoHash
    /\ revoked' = row.version
    /\ UNCHANGED <<row, look, lateFill, bare, revived>>

\* The TTL ends.
Lapse ==
    /\ cached.ttl
    /\ cached' = NoHash
    /\ UNCHANGED <<row, look, revoked, lateFill, bare, revived>>

-----------------------------------------------------------------------------
(* Properties.                                                             *)

\* A lookup that begins after invalidate_cache() returned does not get
\* credentials older than that invalidation, unless some fill read the row
\* before they were revoked and wrote the hash afterwards: an overlap of two
\* lookups and the host, the only way revoked credentials come back
\* (DatabaseInboxCredentialStore.get_credentials against invalidate_cache).
OnlyLateFillRevives == revived => lateFill

\* Once the host stops changing the row the cache stops giving out what is
\* not in it, invalidated or not and whatever was in flight: hits do not
\* prolong the TTL.  Only a fill that stopped between HSET and EXPIRE leaves
\* a hash that never ends (_cache_credentials).
ChangeTakesEffect ==
    <>[](\/ bare
         \/ cached = NoHash
         \/ cached.version = row.version /\ row.active)
=============================================================================
