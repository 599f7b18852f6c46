---------------------------- MODULE Tables_proofs ----------------------------
(***************************************************************************)
(* Proofs about Tables, for any rows, coroutines, TTLs and whichever       *)
(* backend: types, one winner per row, who keeps its row, no lost          *)
(* increment, and the contract of the table caches.  Each backend has an   *)
(* inductive invariant of its own; the invariant of the table cache is     *)
(* that of its backend.                                                    *)
(***************************************************************************)
EXTENDS Tables, FiniteSetTheorems, TLAPS

\* A row that has one winner, if any, was created once.
LEMMA OneWinnerEach ==
  ASSUME \A k \in Keys : winners[k] = {} \/ \E p \in Procs : winners[k] = {p}
  PROVE  ExclusiveClaim
  <1> SUFFICES ASSUME NEW k \in Keys PROVE Cardinality(winners[k]) <= 1
    BY DEF ExclusiveClaim
  <1>1. CASE winners[k] = {}
    BY <1>1, FS_EmptySet
  <1>2. ASSUME NEW p \in Procs, winners[k] = {p}
        PROVE  Cardinality(winners[k]) <= 1
    <2>1. Cardinality({p}) = 1
      BY FS_Singleton
    <2> QED
      BY <1>2, <2>1
  <1> QED
    BY <1>1, <1>2

-----------------------------------------------------------------------------
(* The memory backend.                                                     *)

\* The winner of a row is one caller, and its row is live.
MemoryClaims ==
    \A k \in Keys :
        winners[k] # {} => Memory!Live(k) /\ \E p \in Procs : winners[k] = {p}

MemoryInv == Memory!TypeOK /\ MemoryClaims /\ Memory!NoLostIncrement

\* What is left when rows are dropped.
LEMMA MemoryWithoutSome ==
  ASSUME NEW gone
  PROVE  /\ DOMAIN Memory!Without(gone) = DOMAIN rows \ gone
         /\ \A j \in DOMAIN rows \ gone : Memory!Without(gone)[j] = rows[j]
  BY DEF Memory!Without

\* A fresh entry is an entry, and live.
LEMMA MemoryFreshEntry ==
  ASSUME NEW p \in Procs, NEW ttl \in Ttls
  PROVE  /\ Memory!Fresh(p, ttl) \in Memory!Entry
         /\ Memory!Fresh(p, ttl).left # 0
         /\ Memory!Fresh(p, ttl).owner = p
         /\ Memory!ExpiresAt(ttl) \in Nat \cup {Memory!Never} /\ Memory!ExpiresAt(ttl) # 0
  BY RowStoreAssumption
  DEF Memory!Fresh, Memory!Entry, Memory!ExpiresAt, Memory!Never

\* An entry that n increments were made to: an entry, live, counting them.
LEMMA MemoryChangedEntry ==
  ASSUME MemoryInv, NEW p \in Procs, NEW k \in Keys, NEW ttl \in Ttls, NEW n \in {0, 1},
         n = 1 /\ Memory!Live(k) => rows[k].count < MaxCount
  PROVE  /\ Memory!Changed(p, k, ttl, n) \in Memory!Entry
         /\ Memory!Changed(p, k, ttl, n).left # 0
         /\ Memory!Live(k) => /\ Memory!Changed(p, k, ttl, n).count = rows[k].count + n
                              /\ Memory!Changed(p, k, ttl, n).owner = rows[k].owner
         /\ ~Memory!Live(k) => /\ Memory!Changed(p, k, ttl, n).count = n
                               /\ Memory!Changed(p, k, ttl, n).owner = p
  <1>e. Memory!ExpiresAt(ttl) \in Nat \cup {Memory!Never} /\ Memory!ExpiresAt(ttl) # 0
    BY MemoryFreshEntry
  <1>1. CASE Memory!Live(k)
    <2>1. rows[k] \in Memory!Entry /\ rows[k].count + n \in 0..MaxCount
      BY <1>1, RowStoreAssumption
      DEF MemoryInv, Memory!TypeOK, Memory!Live, Memory!Has, Memory!Entry
    <2>2. Memory!Changed(p, k, ttl, n) =
             [owner |-> rows[k].owner, count |-> rows[k].count + n,
              left |-> Memory!ExpiresAt(ttl)]
      BY <1>1, <2>1 DEF Memory!Changed, Memory!Entry
    <2> QED
      BY <1>1, <1>e, <2>1, <2>2 DEF Memory!Entry
  <1>2. CASE ~Memory!Live(k)
    <2>1. Memory!Changed(p, k, ttl, n) =
             [owner |-> p, count |-> n, left |-> Memory!ExpiresAt(ttl)]
      BY <1>2 DEF Memory!Changed, Memory!Fresh
    <2>2. n \in 0..MaxCount
      BY RowStoreAssumption
    <2> QED
      BY <1>2, <1>e, <2>1, <2>2 DEF Memory!Entry
  <1> QED
    BY <1>1, <1>2

LEMMA MemoryInitInv == Memory!Init => MemoryInv
  BY
  DEF Memory!Init, MemoryInv, Memory!TypeOK, MemoryClaims, Memory!NoLostIncrement,
      Memory!Replies

-----------------------------------------------------------------------------

\* A row is written, live: the invariant holds of it again.
LEMMA MemoryWriteKeeps ==
  ASSUME MemoryInv, NEW k \in Keys, NEW entry \in Memory!Entry, entry.left # 0,
         rows' = Memory!With(k, entry),
         reply' \in [Procs -> Memory!Replies],
         winners' = winners \/ (\E p \in Procs : ~Memory!Live(k)
            /\ winners' = [winners EXCEPT ![k] = @ \cup {p}]),
         tally' \in [Keys -> Nat],
         \A j \in Keys \ {k} : tally'[j] = tally[j],
         tally'[k] > 0 => entry.count >= tally'[k]
  PROVE  MemoryInv'
  <1> USE DEF MemoryInv
  <1>1. /\ DOMAIN rows' = DOMAIN rows \cup {k}
        /\ rows'[k] = entry
        /\ \A j \in DOMAIN rows \ {k} : rows'[j] = rows[j]
    BY DEF Memory!With
  <1>2. Memory!Live(k)' /\ \A j \in Keys \ {k} : Memory!Live(j)' = Memory!Live(j)
    BY <1>1 DEF Memory!Live, Memory!Has
  <1>3. Memory!TypeOK'
    BY <1>1 DEF Memory!TypeOK
  <1>4. MemoryClaims'
    <2>1. CASE winners' = winners
      BY <1>2, <2>1 DEF MemoryClaims
    <2>2. ASSUME NEW p \in Procs, ~Memory!Live(k),
                 winners' = [winners EXCEPT ![k] = @ \cup {p}]
          PROVE  MemoryClaims'
      <3>1. winners[k] = {}
        BY <2>2 DEF MemoryClaims
      <3>2. winners'[k] = {p} /\ \A j \in Keys \ {k} : winners'[j] = winners[j]
        BY <2>2, <3>1 DEF Memory!TypeOK
      <3> QED
        BY <1>2, <3>2 DEF MemoryClaims
    <2> QED
      BY <2>1, <2>2
  <1>5. Memory!NoLostIncrement'
    <2>1. ASSUME NEW j \in Keys, tally'[j] > 0, j # k
          PROVE  Memory!Live(j)' /\ rows'[j].count >= tally'[j]
      <3>1. tally[j] > 0 /\ tally'[j] = tally[j]
        BY <2>1
      <3>2. Memory!Live(j) /\ rows[j].count >= tally[j]
        BY <3>1 DEF Memory!NoLostIncrement
      <3>3. rows'[j] = rows[j]
        BY <1>1, <2>1, <3>2 DEF Memory!Live, Memory!Has
      <3> QED
        BY <1>2, <2>1, <3>1, <3>2, <3>3
    <2> QED
      BY <1>1, <1>2, <2>1 DEF Memory!NoLostIncrement
  <1> QED
    BY <1>3, <1>4, <1>5

\* Rows go, with their history or because they had lapsed.
LEMMA MemoryDropKeeps ==
  ASSUME MemoryInv, NEW gone \in SUBSET Keys, rows' = Memory!Without(gone),
         reply' \in [Procs -> Memory!Replies],
         Memory!Forget(gone) \/ (UNCHANGED <<winners, tally>>
            /\ \A k \in gone : ~Memory!Live(k))
  PROVE  MemoryInv'
  <1> USE DEF MemoryInv
  <1>1. /\ DOMAIN rows' = DOMAIN rows \ gone
        /\ \A j \in DOMAIN rows \ gone : rows'[j] = rows[j]
    BY MemoryWithoutSome
  <1>2. /\ winners' \in [Keys -> SUBSET Procs] /\ tally' \in [Keys -> Nat]
        /\ \A j \in Keys : j \in gone => winners'[j] = {} /\ tally'[j] = 0
        /\ \A j \in Keys : j \notin gone => winners'[j] = winners[j] /\ tally'[j] = tally[j]
    <2>1. CASE Memory!Forget(gone)
      BY <2>1 DEF Memory!Forget, Memory!TypeOK
    <2>2. CASE UNCHANGED <<winners, tally>> /\ \A k \in gone : ~Memory!Live(k)
      <3>1. \A k \in gone : winners[k] = {} /\ ~(tally[k] > 0)
        BY <2>2 DEF MemoryClaims, Memory!NoLostIncrement
      <3> QED
        BY <2>2, <3>1 DEF Memory!TypeOK
    <2> QED
      BY <2>1, <2>2
  <1>3. \A j \in Keys \ gone : Memory!Live(j)' = Memory!Live(j)
    BY <1>1 DEF Memory!Live, Memory!Has
  <1>4. Memory!TypeOK'
    BY <1>1, <1>2 DEF Memory!TypeOK
  <1>5. MemoryClaims'
    BY <1>2, <1>3 DEF MemoryClaims
  <1>6. Memory!NoLostIncrement'
    BY <1>1, <1>2, <1>3 DEF Memory!NoLostIncrement, Memory!Live, Memory!Has
  <1> QED
    BY <1>4, <1>5, <1>6

\* The clock: the rows that lapse are forgotten, the others are as they were.
LEMMA MemoryTickKeeps ==
  ASSUME MemoryInv, Memory!Tick
  PROVE  MemoryInv'
  <1> DEFINE lapsing == {k \in DOMAIN rows : rows[k].left = 1}
  <1> USE DEF MemoryInv, Memory!TypeOK
  <1>1. /\ DOMAIN rows' = DOMAIN rows
        /\ \A k \in DOMAIN rows :
              rows'[k] = IF rows[k].left > 0
                         THEN [rows[k] EXCEPT !.left = @ - 1] ELSE rows[k]
    BY DEF Memory!Tick
  <1>2. \A k \in DOMAIN rows : rows'[k] \in Memory!Entry /\ rows'[k].count = rows[k].count
    BY <1>1 DEF Memory!Entry, Memory!Never
  <1>3. \A k \in Keys \ lapsing : Memory!Live(k) => Memory!Live(k)'
    BY <1>1 DEF Memory!Live, Memory!Has, Memory!Entry, Memory!Never
  <1>4. /\ winners' = [k \in Keys |-> IF k \in lapsing THEN {} ELSE winners[k]]
        /\ tally' = [k \in Keys |-> IF k \in lapsing THEN 0 ELSE tally[k]]
        /\ reply' = reply
    BY DEF Memory!Tick, Memory!Forget
  <1>5. Memory!TypeOK'
    BY <1>1, <1>2, <1>4
  <1>6. MemoryClaims'
    BY <1>3, <1>4 DEF MemoryClaims
  <1>7. Memory!NoLostIncrement'
    <2> SUFFICES ASSUME NEW k \in Keys, tally'[k] > 0
                 PROVE  Memory!Live(k)' /\ rows'[k].count >= tally'[k]
      BY DEF Memory!NoLostIncrement
    <2>1. k \notin lapsing /\ tally'[k] = tally[k]
      BY <1>4
    <2>2. Memory!Live(k) /\ rows[k].count >= tally[k]
      BY <2>1 DEF Memory!NoLostIncrement
    <2> QED
      BY <1>2, <1>3, <2>1, <2>2 DEF Memory!Live, Memory!Has
  <1> QED
    BY <1>5, <1>6, <1>7

\* An operation on one row keeps the invariant.
LEMMA MemoryRowStep ==
  ASSUME MemoryInv, NEW p \in Procs, NEW k \in Keys, NEW ttl \in Ttls,
         \/ Memory!Upsert(p, k, ttl) \/ Memory!CreateIfAbsent(p, k, ttl)
         \/ Memory!ReplaceIf(p, k, ttl)
         \/ Memory!IncrementField(p, k, ttl) \/ Memory!UpdateField(p, k, ttl)
  PROVE  MemoryInv'
  <1>t. Memory!TypeOK
    BY DEF MemoryInv
  <1>f. Memory!Fresh(p, ttl) \in Memory!Entry /\ Memory!Fresh(p, ttl).left # 0
    BY MemoryFreshEntry
  <1>r. \A r \in Memory!Replies : Memory!Answer(p, r)
           => reply' \in [Procs -> Memory!Replies]
    BY <1>t DEF Memory!Answer, Memory!Replies
  <1>n. Memory!NoAnswer => reply' \in [Procs -> Memory!Replies]
    BY DEF Memory!NoAnswer, Memory!Replies
  <1>1. CASE Memory!Upsert(p, k, ttl)
    <2>1. /\ tally' \in [Keys -> Nat] /\ tally'[k] = 0
          /\ \A j \in Keys \ {k} : tally'[j] = tally[j]
      BY <1>1, <1>t DEF Memory!Upsert, Memory!TypeOK
    <2> QED
      BY <1>1, <1>f, <1>n, <2>1, MemoryWriteKeeps DEF Memory!Upsert
  <1>2. CASE Memory!CreateIfAbsent(p, k, ttl)
    <2>1. CASE rows' = rows
      <3>0. rows' # Memory!With(k, Memory!Fresh(p, ttl)) \/ Memory!Live(k)
        BY <2>1, <1>f DEF Memory!With, Memory!Live, Memory!Has
      <3>1. UNCHANGED <<winners, tally>>
        BY <1>2, <3>0 DEF Memory!CreateIfAbsent
      <3>2. reply' \in [Procs -> Memory!Replies]
        BY <1>2, <1>r DEF Memory!CreateIfAbsent, Memory!Replies
      <3> QED
        BY <2>1, <3>1, <3>2
        DEF MemoryInv, Memory!TypeOK, MemoryClaims, Memory!NoLostIncrement,
            Memory!Live, Memory!Has
    <2>2. CASE rows' # rows
      <3>1. /\ ~Memory!Live(k) /\ rows' = Memory!With(k, Memory!Fresh(p, ttl))
                  /\ Memory!Answer(p, "created")
            /\ winners' = [winners EXCEPT ![k] = @ \cup {p}]
            /\ tally' = [tally EXCEPT ![k] = 0]
        BY <1>2, <2>2 DEF Memory!CreateIfAbsent
      <3>2. /\ tally' \in [Keys -> Nat] /\ tally'[k] = 0
            /\ \A j \in Keys \ {k} : tally'[j] = tally[j]
        BY <3>1, <1>t DEF Memory!TypeOK
      <3>3. reply' \in [Procs -> Memory!Replies]
        BY <3>1, <1>r DEF Memory!Replies
      <3>4. Memory!Fresh(p, ttl).count >= tally'[k]
        BY <3>2 DEF Memory!Fresh
      <3> QED
        BY <1>f, <3>1, <3>2, <3>3, <3>4, MemoryWriteKeeps
    <2> QED
      BY <2>1, <2>2
  <1>3. CASE Memory!ReplaceIf(p, k, ttl)
    <2>r. reply' \in [Procs -> Memory!Replies] /\ winners' = winners
      BY <1>3, <1>r DEF Memory!ReplaceIf, Memory!Replies
    <2>1. CASE ~Memory!Live(k) /\ rows' = Memory!Without({k}) /\ UNCHANGED tally
      BY <2>1, <2>r, MemoryDropKeeps
    <2>2. CASE UNCHANGED <<rows, tally>>
      BY <2>2, <2>r
      DEF MemoryInv, Memory!TypeOK, MemoryClaims, Memory!NoLostIncrement,
          Memory!Live, Memory!Has
    <2>3. CASE rows' = Memory!With(k, Memory!Fresh(p, ttl))
                  /\ tally' = [tally EXCEPT ![k] = 0]
      <3>1. /\ tally' \in [Keys -> Nat] /\ tally'[k] = 0
            /\ \A j \in Keys \ {k} : tally'[j] = tally[j]
        BY <2>3, <1>t DEF Memory!TypeOK
      <3> QED
        BY <1>f, <2>3, <2>r, <3>1, MemoryWriteKeeps
    <2> QED
      BY <1>3, <2>1, <2>2, <2>3 DEF Memory!ReplaceIf, Memory!DropIfLapsed
  <1>4. CASE Memory!IncrementField(p, k, ttl)
    <2> DEFINE entry == Memory!Changed(p, k, ttl, 1)
    <2>1. /\ entry \in Memory!Entry /\ entry.left # 0
          /\ Memory!Live(k) => entry.count = rows[k].count + 1
          /\ ~Memory!Live(k) => entry.count = 1
      BY <1>4, MemoryChangedEntry DEF Memory!IncrementField
    <2>2. /\ tally' \in [Keys -> Nat] /\ tally'[k] = tally[k] + 1
          /\ \A j \in Keys \ {k} : tally'[j] = tally[j]
      BY <1>4, <1>t DEF Memory!IncrementField, Memory!TypeOK
    <2>3. entry.count >= tally'[k]
      <3>1. CASE tally[k] > 0
        <4>1. Memory!Live(k) /\ rows[k].count >= tally[k] /\ rows[k].count \in Nat
          BY <3>1, <1>t
          DEF MemoryInv, Memory!NoLostIncrement, Memory!TypeOK, Memory!Live,
              Memory!Has, Memory!Entry
        <4> QED
          BY <4>1, <2>1, <2>2, <1>t DEF Memory!TypeOK
      <3>2. CASE ~(tally[k] > 0)
        <4>1. tally[k] = 0
          BY <3>2, <1>t DEF Memory!TypeOK
        <4>2. Memory!Live(k) => rows[k].count \in Nat
          BY <1>t DEF Memory!TypeOK, Memory!Live, Memory!Has, Memory!Entry
        <4> QED
          BY <4>1, <4>2, <2>1, <2>2
      <3> QED
        BY <3>1, <3>2
    <2>4. /\ rows' = Memory!With(k, entry) /\ UNCHANGED winners
          /\ reply' \in [Procs -> Memory!Replies]
      BY <1>4, <1>n DEF Memory!IncrementField
    <2> HIDE DEF entry
    <2> QED
      BY <1>t, <2>1, <2>2, <2>3, <2>4, MemoryWriteKeeps DEF Memory!TypeOK
  <1>5. CASE Memory!UpdateField(p, k, ttl)
    <2> DEFINE entry == Memory!Changed(p, k, ttl, 0)
    <2>1. /\ entry \in Memory!Entry /\ entry.left # 0
          /\ Memory!Live(k) => entry.count = rows[k].count + 0
      BY MemoryChangedEntry
    <2>2. tally[k] > 0 => entry.count >= tally[k]
      <3>1. tally[k] > 0 => Memory!Live(k) /\ rows[k].count >= tally[k]
               /\ rows[k].count \in Nat
        BY <1>t
        DEF MemoryInv, Memory!NoLostIncrement, Memory!TypeOK, Memory!Live,
            Memory!Has, Memory!Entry
      <3> QED
        BY <3>1, <2>1
    <2>3. /\ rows' = Memory!With(k, entry) /\ UNCHANGED <<winners, tally>>
          /\ reply' \in [Procs -> Memory!Replies]
      BY <1>5, <1>n DEF Memory!UpdateField
    <2> HIDE DEF entry
    <2> QED
      BY <1>t, <2>1, <2>2, <2>3, MemoryWriteKeeps DEF Memory!TypeOK
  <1> QED
    BY <1>1, <1>2, <1>3, <1>4, <1>5

\* A new expiry, and no history: the row keeps what it holds.
LEMMA MemoryRenewKeeps ==
  ASSUME MemoryInv, NEW k \in Keys, NEW ttl \in Ttls, Memory!RenewTtl(k, ttl)
  PROVE  MemoryInv'
  <1> USE DEF MemoryInv, Memory!TypeOK
  <1>1. /\ k \in DOMAIN rows /\ DOMAIN rows' = DOMAIN rows
        /\ rows'[k] = [rows[k] EXCEPT !.left = ttl + 1]
        /\ \A j \in DOMAIN rows \ {k} : rows'[j] = rows[j]
        /\ UNCHANGED <<reply, winners, tally>>
    BY DEF Memory!RenewTtl, Memory!Has
  <1>2. ttl + 1 \in Nat /\ ttl + 1 # 0
    BY RowStoreAssumption
  <1>3. \A j \in DOMAIN rows : rows'[j] \in Memory!Entry /\ rows'[j].count = rows[j].count
    BY <1>1, <1>2 DEF Memory!Entry
  <1>4. \A j \in Keys : Memory!Live(j) => Memory!Live(j)'
    BY <1>1, <1>2 DEF Memory!Live, Memory!Has, Memory!Entry
  <1>5. Memory!TypeOK'
    BY <1>1, <1>3
  <1>6. MemoryClaims'
    BY <1>1, <1>4 DEF MemoryClaims
  <1>7. Memory!NoLostIncrement'
    BY <1>1, <1>3, <1>4 DEF Memory!NoLostIncrement, Memory!Live, Memory!Has
  <1> QED
    BY <1>5, <1>6, <1>7

\* Every step keeps the invariant.
LEMMA MemoryStepInv == MemoryInv /\ (Memory!Next \/ UNCHANGED Memory!vars) => MemoryInv'
  <1> SUFFICES ASSUME MemoryInv, (Memory!Next \/ UNCHANGED Memory!vars) PROVE MemoryInv'
    OBVIOUS
  <1>t. Memory!TypeOK
    BY DEF MemoryInv
  <1>1. CASE Memory!Tick
    BY <1>1, MemoryTickKeeps
  <1>2. CASE Memory!DropLapsed
    BY <1>2, <1>t, MemoryDropKeeps
    DEF Memory!DropLapsed, Memory!Lapsed, Memory!Live, Memory!TypeOK
  <1>3. ASSUME NEW k \in Keys, Memory!Get(k)
        PROVE  MemoryInv'
    <2>1. CASE Memory!Lapsed(k)
      BY <1>3, <1>t, <2>1, MemoryDropKeeps
      DEF Memory!Get, Memory!DropIfLapsed, Memory!Lapsed, Memory!Live, Memory!TypeOK
    <2>2. CASE ~Memory!Lapsed(k)
      BY <1>3, <2>2
      DEF Memory!Get, Memory!DropIfLapsed, MemoryInv, Memory!TypeOK, MemoryClaims,
          Memory!NoLostIncrement, Memory!Live, Memory!Has
    <2> QED
      BY <2>1, <2>2
  <1>8. ASSUME NEW k \in Keys, Memory!GetTtl(k) \/ Memory!Delete({k})
        PROVE  MemoryInv'
    BY <1>8, <1>t, MemoryDropKeeps DEF Memory!GetTtl, Memory!Delete, Memory!TypeOK
  <1>4. CASE Memory!DeleteTable
    BY <1>4, <1>t, MemoryDropKeeps, RowStoreAssumption
    DEF Memory!DeleteTable, Memory!Delete, Memory!TypeOK
  <1>5. ASSUME NEW k \in Keys, NEW ttl \in Ttls, Memory!RenewTtl(k, ttl)
        PROVE  MemoryInv'
    BY <1>5, MemoryRenewKeeps
  <1>6. ASSUME NEW p \in Procs, NEW k \in Keys, NEW ttl \in Ttls,
               \/ Memory!Upsert(p, k, ttl) \/ Memory!CreateIfAbsent(p, k, ttl)
               \/ Memory!ReplaceIf(p, k, ttl)
               \/ Memory!IncrementField(p, k, ttl) \/ Memory!UpdateField(p, k, ttl)
        PROVE  MemoryInv'
    BY <1>6, MemoryRowStep
  <1>7. CASE UNCHANGED Memory!vars
    BY <1>7
    DEF Memory!vars, MemoryInv, Memory!TypeOK, MemoryClaims,
        Memory!NoLostIncrement, Memory!Live, Memory!Has
  <1> QED
    BY <1>1, <1>2, <1>3, <1>4, <1>5, <1>6, <1>7, <1>8 DEF Memory!Next

\* What the invariant says of the dictionary: its types, one winner for
\* a row, who has it still, and every acknowledged increment.
LEMMA MemoryShows ==
  ASSUME MemoryInv
  PROVE  Memory!TypeOK /\ ExclusiveClaim /\ Memory!ClaimPersists /\ Memory!NoLostIncrement
  <1>1. ExclusiveClaim
    BY OneWinnerEach DEF MemoryInv, MemoryClaims
  <1>2. Memory!ClaimPersists
    BY RowStoreAssumption
    DEF MemoryInv, Memory!TypeOK, MemoryClaims, Memory!ClaimPersists,
        Memory!Holder, Memory!Writer, Memory!Live, Memory!Has, Memory!Entry
  <1> QED
    BY <1>1, <1>2 DEF MemoryInv

-----------------------------------------------------------------------------
(* Its contract.                                                           *)

\* What the actions do to the writers and to the lapsed rows, as RowContract
\* sees them.
LEMMA MemoryAfterWith ==
  ASSUME MemoryInv, NEW k \in Keys, NEW entry, entry.left # 0, rows' = Memory!With(k, entry)
  PROVE  /\ \A j \in Keys : Memory!Writer(j)' = IF j = k THEN entry.owner ELSE Memory!Writer(j)
         /\ \A j \in Keys : Memory!Lapsed(j)' = (j # k /\ Memory!Lapsed(j))
  BY DEF Memory!With, Memory!Writer, Memory!Lapsed, Memory!Has

LEMMA MemoryAfterWithout ==
  ASSUME MemoryInv, NEW gone, rows' = Memory!Without(gone)
  PROVE  /\ \A j \in Keys : Memory!Writer(j)' = IF j \in gone THEN Nobody ELSE Memory!Writer(j)
         /\ \A j \in Keys : Memory!Lapsed(j)' = (j \notin gone /\ Memory!Lapsed(j))
  BY DEF Memory!Without, Memory!Writer, Memory!Lapsed, Memory!Has

\* A row is absent to the contract when it is not live.
LEMMA MemoryAbsent ==
  ASSUME MemoryInv, NEW k \in Keys
  PROVE  /\ Memory!RowSteps!Absent(k) <=> ~Memory!Live(k)
         /\ Memory!Writer(k) = Nobody <=> ~Memory!Has(k)
  <1>1. Memory!Writer(k) = Nobody <=> ~Memory!Has(k)
    BY RowStoreAssumption
    DEF MemoryInv, Memory!TypeOK, Memory!Writer, Memory!Has, Memory!Entry
  <1> QED
    BY <1>1 DEF Memory!RowSteps!Absent, Memory!Lapsed, Memory!Live

\* A row becomes the caller's, or nobody's.
LEMMA MemoryBecomes ==
  ASSUME MemoryInv, NEW k \in Keys, NEW h,
         \A j \in Keys : Memory!Writer(j)' = IF j = k THEN h ELSE Memory!Writer(j),
         \A j \in Keys : Memory!Lapsed(j)' = (j # k /\ Memory!Lapsed(j))
  PROVE  Memory!RowSteps!Becomes(k, h)
  BY DEF Memory!RowSteps!Becomes

\* A write of a whole row is a put of the contract.
LEMMA MemoryPutStep ==
  ASSUME MemoryInv, NEW p \in Procs, NEW k \in Keys, Memory!NoAnswer, NEW entry,
         entry.left # 0, entry.owner = p, rows' = Memory!With(k, entry)
  PROVE  Memory!RowSteps!ContractNext
  <1>1. Memory!RowSteps!Becomes(k, p)
    BY MemoryAfterWith, MemoryBecomes
  <1>2. Memory!RowSteps!Put(p, k)
    BY <1>1 DEF Memory!RowSteps!Put, Memory!RowSteps!NoAnswer, Memory!NoAnswer
  <1> QED
    BY <1>2 DEF Memory!RowSteps!ContractNext

\* Rows that are gone vanish.
LEMMA MemoryVanishStep ==
  ASSUME MemoryInv, NEW gone \in SUBSET Keys, UNCHANGED reply, rows' = Memory!Without(gone)
  PROVE  Memory!RowSteps!ContractNext
  <1>1. Memory!RowSteps!Vanish(gone)
    BY MemoryAfterWithout DEF Memory!RowSteps!Vanish
  <1> QED
    BY <1>1 DEF Memory!RowSteps!ContractNext

LEMMA MemorySameStep ==
  ASSUME UNCHANGED reply,
         \A j \in Keys : Memory!Writer(j)' = Memory!Writer(j)
                           /\ Memory!Lapsed(j)' = Memory!Lapsed(j)
  PROVE  UNCHANGED Memory!RowSteps!contractVars
  BY DEF Memory!RowSteps!contractVars

\* The conditional writes are the contract's.
LEMMA MemoryTransitionStep ==
  ASSUME MemoryInv, NEW p \in Procs, NEW k \in Keys, NEW ttl \in Ttls,
         Memory!CreateIfAbsent(p, k, ttl) \/ Memory!ReplaceIf(p, k, ttl)
  PROVE  Memory!RowSteps!ContractNext
  <1>1. Memory!Fresh(p, ttl).left # 0 /\ Memory!Fresh(p, ttl).owner = p
    BY MemoryFreshEntry
  <1>2. ASSUME rows' = Memory!With(k, Memory!Fresh(p, ttl))
        PROVE  Memory!RowSteps!Becomes(k, p)
    BY <1>1, <1>2, MemoryAfterWith, MemoryBecomes
  <1>3. ASSUME UNCHANGED rows
        PROVE  /\ [j \in Keys |-> Memory!Writer(j)]' = [j \in Keys |-> Memory!Writer(j)]
               /\ {j \in Keys : Memory!Lapsed(j)}' = {j \in Keys : Memory!Lapsed(j)}
    BY <1>3 DEF Memory!Writer, Memory!Lapsed, Memory!Has
  <1>4. ASSUME Memory!DropIfLapsed(k), ~Memory!Live(k)
        PROVE  Memory!RowSteps!Becomes(k, Nobody)
    <2>1. CASE Memory!Lapsed(k)
      BY <1>4, <2>1, MemoryAfterWithout, MemoryBecomes DEF Memory!DropIfLapsed
    <2>2. CASE ~Memory!Lapsed(k)
      <3>1. rows' = rows /\ ~Memory!Has(k)
        BY <1>4, <2>2 DEF Memory!DropIfLapsed, Memory!Lapsed, Memory!Live
      <3>2. Memory!Writer(k) = Nobody
        BY <3>1, MemoryAbsent
      <3>3. \A j \in Keys : Memory!Writer(j)' = Memory!Writer(j)
                              /\ Memory!Lapsed(j)' = Memory!Lapsed(j)
        BY <3>1 DEF Memory!Writer, Memory!Lapsed, Memory!Has
      <3> QED
        <4>1. \A j \in Keys : Memory!Lapsed(j) => j # k
          BY <2>2
        <4>2. \A j \in Keys : Memory!Writer(j)' = IF j = k THEN Nobody ELSE Memory!Writer(j)
          BY <3>2, <3>3
        <4>3. \A j \in Keys : Memory!Lapsed(j)' = (j # k /\ Memory!Lapsed(j))
          BY <3>3, <4>1 DEF Memory!Lapsed
        <4> QED
          BY <4>2, <4>3, MemoryBecomes
    <2> QED
      BY <2>1, <2>2
  <1>5. CASE Memory!CreateIfAbsent(p, k, ttl)
    <2>1. Memory!RowSteps!Create(p, k)
      BY <1>2, <1>3, <1>5, MemoryAbsent
      DEF Memory!CreateIfAbsent, Memory!Answer, Memory!RowSteps!Create,
          Memory!RowSteps!Answer
    <2> QED
      BY <2>1 DEF Memory!RowSteps!ContractNext
  <1>6. CASE Memory!ReplaceIf(p, k, ttl)
    <2>1. Memory!RowSteps!Replace(p, k)
      BY <1>2, <1>3, <1>4, <1>6, MemoryAbsent
      DEF Memory!ReplaceIf, Memory!Answer, Memory!RowSteps!Replace,
          Memory!RowSteps!Answer
    <2> QED
      BY <2>1 DEF Memory!RowSteps!ContractNext
  <1> QED
    BY <1>5, <1>6

\* An update of a field puts a row: its holder's, the caller's if there is none.
LEMMA MemoryChangeStep ==
  ASSUME MemoryInv, NEW p \in Procs, NEW k \in Keys, NEW ttl \in Ttls,
         Memory!IncrementField(p, k, ttl) \/ Memory!UpdateField(p, k, ttl)
  PROVE  Memory!RowSteps!ContractNext
  <1>1. PICK n \in {0, 1} : /\ rows' = Memory!With(k, Memory!Changed(p, k, ttl, n))
                            /\ n = 1 /\ Memory!Live(k) => rows[k].count < MaxCount
                            /\ Memory!NoAnswer
    BY DEF Memory!IncrementField, Memory!UpdateField
  <1> DEFINE entry == Memory!Changed(p, k, ttl, n)
  <1>2. /\ entry.left # 0
        /\ Memory!Live(k) => entry.owner = rows[k].owner
        /\ ~Memory!Live(k) => entry.owner = p
    BY <1>1, MemoryChangedEntry
  <1>3. rows' = Memory!With(k, entry)
    BY <1>1
  <1> HIDE DEF entry
  <1>4. CASE Memory!Live(k)
    <2>1. entry.owner \in Procs
      BY <1>2, <1>4
      DEF MemoryInv, Memory!TypeOK, Memory!Live, Memory!Has, Memory!Entry
    <2> QED
      BY <1>1, <1>2, <1>3, <2>1, MemoryPutStep
  <1>5. CASE ~Memory!Live(k)
    BY <1>1, <1>2, <1>3, <1>5, MemoryPutStep
  <1> QED
    BY <1>4, <1>5

\* The clock lets rows lapse, and a renewal of a lapsed row brings it back.
LEMMA MemoryTimeStep ==
  ASSUME MemoryInv,
         Memory!Tick \/ \E k \in Keys, ttl \in Ttls : Memory!RenewTtl(k, ttl)
  PROVE  Memory!RowSteps!ContractNext \/ UNCHANGED Memory!RowSteps!contractVars
  <1>1. CASE Memory!Tick
    <2> DEFINE lapsing == {k \in DOMAIN rows : rows[k].left = 1}
    <2>1. /\ DOMAIN rows' = DOMAIN rows
          /\ \A k \in DOMAIN rows :
                rows'[k] = IF rows[k].left > 0
                           THEN [rows[k] EXCEPT !.left = @ - 1] ELSE rows[k]
          /\ UNCHANGED reply
      BY <1>1 DEF Memory!Tick
    <2>2. \A k \in DOMAIN rows : /\ rows'[k].owner = rows[k].owner
                                 /\ rows'[k].left = 0 <=> rows[k].left \in {0, 1}
      BY <2>1 DEF MemoryInv, Memory!TypeOK, Memory!Entry, Memory!Never
    <2>3. \A j \in Keys : /\ Memory!Writer(j)' = Memory!Writer(j)
                            /\ Memory!Lapsed(j)' = (Memory!Lapsed(j) \/ j \in lapsing)
      BY <2>1, <2>2 DEF Memory!Writer, Memory!Lapsed, Memory!Has
    <2>4. lapsing \in SUBSET Keys
      BY DEF MemoryInv, Memory!TypeOK
    <2> HIDE DEF lapsing
    <2>5. Memory!RowSteps!Lapse(lapsing)
      BY <2>1, <2>3, <2>4 DEF Memory!RowSteps!Lapse
    <2> QED
      BY <2>4, <2>5 DEF Memory!RowSteps!ContractNext
  <1>2. ASSUME NEW k \in Keys, NEW ttl \in Ttls, Memory!RenewTtl(k, ttl)
        PROVE  Memory!RowSteps!ContractNext \/ UNCHANGED Memory!RowSteps!contractVars
    <2>1. ttl + 1 # 0
      BY RowStoreAssumption
    <2>2. k \in DOMAIN rows /\ rows' = [rows EXCEPT ![k].left = ttl + 1] /\ UNCHANGED reply
      BY <1>2 DEF Memory!RenewTtl, Memory!Has
    <2>3. rows[k] \in Memory!Entry
      BY <2>2 DEF MemoryInv, Memory!TypeOK
    <2>4. \A j \in Keys : /\ Memory!Writer(j)' = Memory!Writer(j)
                            /\ Memory!Lapsed(j)' = (j # k /\ Memory!Lapsed(j))
      BY <2>1, <2>2, <2>3 DEF Memory!Writer, Memory!Lapsed, Memory!Has, Memory!Entry
    <2>5. CASE Memory!Lapsed(k)
      <3>1. Memory!RowSteps!Renew(k)
        BY <2>2, <2>4, <2>5 DEF Memory!RowSteps!Renew
      <3> QED
        BY <3>1 DEF Memory!RowSteps!ContractNext
    <2>6. CASE ~Memory!Lapsed(k)
      <3>1. \A j \in Keys : Memory!Lapsed(j) => j # k
        BY <2>6
      <3>2. \A j \in Keys : Memory!Lapsed(j)' = Memory!Lapsed(j)
        BY <2>4, <3>1 DEF Memory!Lapsed
      <3> QED
        BY <2>2, <2>4, <3>2, MemorySameStep
    <2> QED
      BY <2>5, <2>6
  <1> QED
    BY <1>1, <1>2

LEMMA MemoryContractStep ==
  ASSUME MemoryInv, (Memory!Next \/ UNCHANGED Memory!vars)
  PROVE  Memory!RowSteps!ContractNext \/ UNCHANGED Memory!RowSteps!contractVars
  <1>1. ASSUME UNCHANGED <<rows, reply>>
        PROVE  UNCHANGED Memory!RowSteps!contractVars
    <2>1. \A j \in Keys : Memory!Writer(j)' = Memory!Writer(j)
                            /\ Memory!Lapsed(j)' = Memory!Lapsed(j)
      BY <1>1 DEF Memory!Writer, Memory!Lapsed, Memory!Has
    <2> QED
      BY <1>1, <2>1, MemorySameStep
  <1>2. CASE \/ Memory!DropLapsed \/ Memory!DeleteTable
             \/ \E k \in Keys : Memory!GetTtl(k) \/ Memory!Delete({k})
    BY <1>2, MemoryVanishStep, RowStoreAssumption
    DEF Memory!DropLapsed, Memory!DeleteTable, Memory!Delete, Memory!GetTtl
  <1>3. ASSUME NEW k \in Keys, Memory!Get(k)
        PROVE  Memory!RowSteps!ContractNext \/ UNCHANGED Memory!RowSteps!contractVars
    <2>1. CASE Memory!Lapsed(k)
      BY <1>3, <2>1, MemoryVanishStep DEF Memory!Get, Memory!DropIfLapsed
    <2>2. CASE ~Memory!Lapsed(k)
      BY <1>1, <1>3, <2>2 DEF Memory!Get, Memory!DropIfLapsed
    <2> QED
      BY <2>1, <2>2
  <1>4. ASSUME NEW p \in Procs, NEW k \in Keys, NEW ttl \in Ttls, Memory!Upsert(p, k, ttl)
        PROVE  Memory!RowSteps!ContractNext
    <2>1. Memory!Fresh(p, ttl).left # 0 /\ Memory!Fresh(p, ttl).owner = p
      BY MemoryFreshEntry
    <2> QED
      BY <1>4, <2>1, MemoryPutStep DEF Memory!Upsert
  <1>5. CASE UNCHANGED Memory!vars
    BY <1>1, <1>5 DEF Memory!vars
  <1> QED
    BY <1>2, <1>3, <1>4, <1>5, MemoryTransitionStep, MemoryChangeStep, MemoryTimeStep
    DEF Memory!Next

-----------------------------------------------------------------------------
(* The Redis backend.                                                      *)

\* The winner of a row is one caller, and its row is there.
RedisClaims ==
    \A k \in Keys :
        winners[k] # {} => Redis!Has(k) /\ \E p \in Procs : winners[k] = {p}

RedisInv == Redis!TypeOK /\ RedisClaims /\ Redis!NoLostIncrement

LEMMA RedisInitInv == Redis!Init => RedisInv
  BY
  DEF Redis!Init, RedisInv, Redis!TypeOK, RedisClaims, Redis!NoLostIncrement,
      Redis!Replies, Redis!Task, Redis!Idle

LEMMA RedisFreshHash ==
  ASSUME NEW p \in Procs, NEW ttl \in Redis!ExpireTtls
  PROVE  Redis!Fresh(p, ttl) \in Redis!Hash /\ Redis!Fresh(p, ttl).owner = p
            /\ Redis!Fresh(p, ttl).count = 0
  BY RowStoreAssumption, TablesAssumption
  DEF Redis!Fresh, Redis!Hash, Redis!ExpireTtls

\* A hash that n increments were made to, counting them.
LEMMA RedisChangedHash ==
  ASSUME RedisInv, NEW p \in Procs, NEW k \in Keys, NEW ttl \in Redis!ExpireTtls,
         NEW n \in {0, 1},
         n = 1 /\ Redis!Has(k) => rows[k].count < MaxHashCount
  PROVE  /\ Redis!Changed(p, k, ttl, n) \in Redis!Hash
         /\ Redis!Has(k) => /\ Redis!Changed(p, k, ttl, n).count = rows[k].count + n
                            /\ Redis!Changed(p, k, ttl, n).owner = rows[k].owner
         /\ ~Redis!Has(k) => /\ Redis!Changed(p, k, ttl, n).count = n
                             /\ Redis!Changed(p, k, ttl, n).owner = p
  <1>0. ttl \in Nat \ {0}
    BY RowStoreAssumption, TablesAssumption DEF Redis!ExpireTtls
  <1>1. CASE Redis!Has(k)
    <2>1. rows[k] \in Redis!Hash /\ rows[k].count + n \in 0..MaxHashCount
      BY <1>1, RowStoreAssumption, TablesAssumption
      DEF RedisInv, Redis!TypeOK, Redis!Has, Redis!Hash
    <2>2. Redis!Changed(p, k, ttl, n) =
             [owner |-> rows[k].owner, count |-> rows[k].count + n, left |-> ttl]
      BY <1>1, <2>1 DEF Redis!Changed, Redis!Hash
    <2> QED
      BY <1>0, <1>1, <2>1, <2>2, RowStoreAssumption, TablesAssumption DEF Redis!Hash
  <1>2. CASE ~Redis!Has(k)
    <2>1. Redis!Changed(p, k, ttl, n) = [owner |-> p, count |-> n, left |-> ttl]
      BY <1>2 DEF Redis!Changed, Redis!Fresh
    <2>2. n \in 0..MaxHashCount
      BY RowStoreAssumption, TablesAssumption
    <2> QED
      BY <1>0, <1>2, <2>1, <2>2, RowStoreAssumption, TablesAssumption DEF Redis!Hash
  <1> QED
    BY <1>1, <1>2

-----------------------------------------------------------------------------

\* A row is written: the invariant holds of it again.
LEMMA RedisWriteKeeps ==
  ASSUME RedisInv, NEW k \in Keys, NEW hash \in Redis!Hash,
         rows' = Redis!With(k, hash),
         task' \in [Procs -> Redis!Task],
         reply' \in [Procs -> Redis!Replies],
         winners' = winners \/ (\E p \in Procs : ~Redis!Has(k)
            /\ winners' = [winners EXCEPT ![k] = @ \cup {p}]),
         tally' \in [Keys -> Nat],
         \A j \in Keys \ {k} : tally'[j] = tally[j],
         tally'[k] > 0 => hash.count >= tally'[k]
  PROVE  RedisInv'
  <1> USE DEF RedisInv
  <1>1. /\ DOMAIN rows' = DOMAIN rows \cup {k}
        /\ rows'[k] = hash
        /\ \A j \in DOMAIN rows \ {k} : rows'[j] = rows[j]
    BY DEF Redis!With
  <1>2. Redis!Has(k)' /\ \A j \in Keys \ {k} : Redis!Has(j)' = Redis!Has(j)
    BY <1>1 DEF Redis!Has
  <1>3. Redis!TypeOK'
    BY <1>1 DEF Redis!TypeOK
  <1>4. RedisClaims'
    <2>1. CASE winners' = winners
      BY <1>2, <2>1 DEF RedisClaims
    <2>2. ASSUME NEW p \in Procs, ~Redis!Has(k),
                 winners' = [winners EXCEPT ![k] = @ \cup {p}]
          PROVE  RedisClaims'
      <3>1. winners[k] = {}
        BY <2>2 DEF RedisClaims
      <3>2. winners'[k] = {p} /\ \A j \in Keys \ {k} : winners'[j] = winners[j]
        BY <2>2, <3>1 DEF Redis!TypeOK
      <3> QED
        BY <1>2, <3>2 DEF RedisClaims
    <2> QED
      BY <2>1, <2>2
  <1>5. Redis!NoLostIncrement'
    <2>1. ASSUME NEW j \in Keys, tally'[j] > 0, j # k
          PROVE  Redis!Has(j)' /\ rows'[j].count >= tally'[j]
      <3>1. Redis!Has(j) /\ rows[j].count >= tally[j] /\ tally'[j] = tally[j]
        BY <2>1 DEF Redis!NoLostIncrement
      <3>2. rows'[j] = rows[j]
        BY <1>1, <2>1, <3>1 DEF Redis!Has
      <3> QED
        BY <1>2, <2>1, <3>1, <3>2
    <2> QED
      BY <1>1, <1>2, <2>1 DEF Redis!NoLostIncrement
  <1> QED
    BY <1>3, <1>4, <1>5

\* A write of a whole row starts its counter again.
LEMMA RedisResetKeeps ==
  ASSUME RedisInv, NEW p \in Procs, NEW k \in Keys, NEW ttl \in Redis!ExpireTtls,
         rows' = Redis!With(k, Redis!Fresh(p, ttl)),
         UNCHANGED task,
         reply' \in [Procs -> Redis!Replies],
         winners' = winners \/ (~Redis!Has(k)
            /\ winners' = [winners EXCEPT ![k] = @ \cup {p}]),
         tally' = [tally EXCEPT ![k] = 0]
  PROVE  RedisInv'
  <1>1. /\ tally' \in [Keys -> Nat] /\ tally'[k] = 0
        /\ \A j \in Keys \ {k} : tally'[j] = tally[j]
    BY DEF RedisInv, Redis!TypeOK
  <1>2. Redis!Fresh(p, ttl) \in Redis!Hash /\ task' \in [Procs -> Redis!Task]
    BY RedisFreshHash DEF RedisInv, Redis!TypeOK
  <1> QED
    BY <1>1, <1>2, RedisWriteKeeps

\* A change of one field keeps the counter, or adds to it.
LEMMA RedisChangeKeeps ==
  ASSUME RedisInv, NEW p \in Procs, NEW k \in Keys, NEW ttl \in Redis!ExpireTtls,
         NEW n \in {0, 1},
         n = 1 /\ Redis!Has(k) => rows[k].count < MaxHashCount,
         rows' = Redis!With(k, Redis!Changed(p, k, ttl, n)),
         task' \in [Procs -> Redis!Task],
         Redis!NoAnswer, UNCHANGED winners,
         tally' = tally \/ (n = 1 /\ tally' = [tally EXCEPT ![k] = @ + 1])
  PROVE  RedisInv'
  <1> DEFINE hash == Redis!Changed(p, k, ttl, n)
  <1>1. /\ hash \in Redis!Hash
        /\ Redis!Has(k) => hash.count = rows[k].count + n
        /\ ~Redis!Has(k) => hash.count = n
    BY RedisChangedHash
  <1>2. /\ tally' \in [Keys -> Nat] /\ tally'[k] \in {tally[k], tally[k] + n}
        /\ \A j \in Keys \ {k} : tally'[j] = tally[j]
    BY DEF RedisInv, Redis!TypeOK
  <1>3. tally[k] \in Nat
    BY DEF RedisInv, Redis!TypeOK
  <1>4. tally'[k] > 0 => hash.count >= tally'[k]
    <2>1. CASE tally[k] > 0
      <3>1. Redis!Has(k) /\ rows[k].count >= tally[k] /\ rows[k].count \in Nat
        BY <2>1
        DEF RedisInv, Redis!NoLostIncrement, Redis!TypeOK, Redis!Has, Redis!Hash
      <3> QED
        BY <1>1, <1>2, <1>3, <3>1
    <2>2. CASE tally[k] = 0
      <3>1. Redis!Has(k) => rows[k].count \in Nat
        BY DEF RedisInv, Redis!TypeOK, Redis!Has, Redis!Hash
      <3> QED
        BY <1>1, <1>2, <2>2, <3>1
    <2> QED
      BY <1>3, <2>1, <2>2
  <1>5. rows' = Redis!With(k, hash) /\ reply' \in [Procs -> Redis!Replies]
           /\ winners' = winners
    BY DEF Redis!NoAnswer, Redis!Replies
  <1> HIDE DEF hash
  <1> QED
    BY <1>1, <1>2, <1>4, <1>5, RedisWriteKeeps

\* A write of the other fields keeps the counter.
LEMMA RedisMergeKeeps ==
  ASSUME RedisInv, NEW p \in Procs, NEW k \in Keys, NEW ttl \in Redis!ExpireTtls,
         rows' = Redis!With(k, [Redis!Changed(p, k, ttl, 0) EXCEPT !.owner = p]),
         Redis!NoAnswer, UNCHANGED <<task, winners, tally>>
  PROVE  RedisInv'
  <1> DEFINE found == Redis!Changed(p, k, ttl, 0)
             hash == [found EXCEPT !.owner = p]
  <1>1. /\ found \in Redis!Hash
        /\ Redis!Has(k) => found.count = rows[k].count + 0
    BY RedisChangedHash
  <1>2. tally[k] \in Nat /\ tally \in [Keys -> Nat] /\ task \in [Procs -> Redis!Task]
        /\ reply' \in [Procs -> Redis!Replies]
    BY DEF RedisInv, Redis!TypeOK, Redis!NoAnswer, Redis!Replies
  <1>3. rows' = Redis!With(k, hash)
    OBVIOUS
  <1> HIDE DEF found
  <1>4. hash \in Redis!Hash /\ hash.count = found.count
    BY <1>1 DEF Redis!Hash
  <1>5. tally[k] > 0 => /\ Redis!Has(k) /\ rows[k].count >= tally[k]
                        /\ rows[k].count \in Nat
    BY DEF RedisInv, Redis!NoLostIncrement, Redis!TypeOK, Redis!Has, Redis!Hash
  <1>6. tally[k] > 0 => hash.count >= tally[k]
    BY <1>1, <1>4, <1>5
  <1> HIDE DEF hash
  <1> QED
    BY <1>2, <1>3, <1>4, <1>6, RedisWriteKeeps

\* Rows go, with their history.
LEMMA RedisDropKeeps ==
  ASSUME RedisInv, NEW gone \in SUBSET Keys, rows' = Redis!Without(gone),
         Redis!Forget(gone),
         task' \in [Procs -> Redis!Task], UNCHANGED reply
  PROVE  RedisInv'
  <1> USE DEF RedisInv
  <1>1. /\ DOMAIN rows' = DOMAIN rows \ gone
        /\ \A j \in DOMAIN rows \ gone : rows'[j] = rows[j]
    BY DEF Redis!Without
  <1>2. /\ winners' \in [Keys -> SUBSET Procs] /\ tally' \in [Keys -> Nat]
        /\ \A j \in Keys : j \in gone => winners'[j] = {} /\ tally'[j] = 0
        /\ \A j \in Keys : j \notin gone => winners'[j] = winners[j] /\ tally'[j] = tally[j]
    BY DEF Redis!Forget, Redis!TypeOK
  <1>3. Redis!TypeOK'
    BY <1>1, <1>2 DEF Redis!TypeOK
  <1>4. RedisClaims'
    BY <1>1, <1>2 DEF RedisClaims, Redis!Has
  <1>5. Redis!NoLostIncrement'
    BY <1>1, <1>2 DEF Redis!NoLostIncrement, Redis!Has
  <1> QED
    BY <1>3, <1>4, <1>5

\* The clock: the rows that expire are forgotten, the others are as they were.
LEMMA RedisClockKeeps ==
  ASSUME RedisInv, Redis!Tick
  PROVE  RedisInv'
  <1> DEFINE gone == {k \in DOMAIN rows : rows[k].left = 1}
  <1> USE DEF RedisInv, Redis!TypeOK
  <1>1. /\ DOMAIN rows' = DOMAIN rows \ gone
        /\ \A k \in DOMAIN rows \ gone : rows'[k] = [rows[k] EXCEPT !.left = @ - 1]
        /\ UNCHANGED <<task, reply>>
    BY DEF Redis!Tick
  <1>2. \A k \in DOMAIN rows \ gone : rows'[k] \in Redis!Hash
           /\ rows'[k].count = rows[k].count
    BY <1>1 DEF Redis!Hash
  <1>3. /\ winners' = [k \in Keys |-> IF k \in gone THEN {} ELSE winners[k]]
        /\ tally' = [k \in Keys |-> IF k \in gone THEN 0 ELSE tally[k]]
    BY DEF Redis!Tick, Redis!Forget
  <1> HIDE DEF gone
  <1>4. Redis!TypeOK'
    BY <1>1, <1>2, <1>3
  <1>5. RedisClaims'
    BY <1>1, <1>3 DEF RedisClaims, Redis!Has
  <1>6. Redis!NoLostIncrement'
    <2> SUFFICES ASSUME NEW k \in Keys, tally'[k] > 0
                 PROVE  Redis!Has(k)' /\ rows'[k].count >= tally'[k]
      BY DEF Redis!NoLostIncrement
    <2>1. k \notin gone /\ tally'[k] = tally[k]
      BY <1>3
    <2>2. Redis!Has(k) /\ rows[k].count >= tally[k]
      BY <2>1 DEF Redis!NoLostIncrement
    <2> QED
      BY <1>1, <1>2, <2>1, <2>2 DEF Redis!Has
  <1> QED
    BY <1>4, <1>5, <1>6

\* An operation of one step on one row.
LEMMA RedisRowStep ==
  ASSUME RedisInv, NEW p \in Procs, NEW k \in Keys, NEW ttl \in Redis!ExpireTtls,
         \/ Redis!Upsert(p, k, ttl) \/ Redis!CreateIfAbsent(p, k, ttl)
         \/ Redis!ReplaceIf(p, k, ttl)
         \/ Redis!IncrementField(p, k, ttl) \/ Redis!UpdateField(p, k, ttl)
  PROVE  RedisInv'
  <1>t. Redis!TypeOK
    BY DEF RedisInv
  <1>r. \A r \in Redis!Replies : Redis!Answer(p, r) => reply' \in [Procs -> Redis!Replies]
    BY <1>t DEF Redis!Answer, Redis!Replies
  <1>s. UNCHANGED <<rows, task, winners, tally>>
           /\ reply' \in [Procs -> Redis!Replies] => RedisInv'
    BY DEF RedisInv, Redis!TypeOK, RedisClaims, Redis!NoLostIncrement, Redis!Has
  <1>1. CASE Redis!Upsert(p, k, ttl)
    <2>1. Redis!NoAnswer /\ UNCHANGED <<task, winners>> /\ reply' \in [Procs -> Redis!Replies]
      BY <1>1 DEF Redis!Upsert, Redis!AtIdle, Redis!NoAnswer, Redis!Replies
    <2>2. CASE rows' = Redis!With(k, Redis!Fresh(p, ttl)) /\ tally' = [tally EXCEPT ![k] = 0]
      BY <1>t, <2>1, <2>2, RedisResetKeeps DEF Redis!TypeOK
    <2>3. CASE /\ rows' = Redis!With(k, [Redis!Changed(p, k, ttl, 0) EXCEPT !.owner = p])
               /\ UNCHANGED tally
      BY <2>1, <2>3, RedisMergeKeeps
    <2> QED
      BY <1>1, <2>2, <2>3 DEF Redis!Upsert
  <1>2. CASE Redis!CreateIfAbsent(p, k, ttl)
    <2>1. reply' \in [Procs -> Redis!Replies] /\ UNCHANGED task
      BY <1>2, <1>r, <1>t
      DEF Redis!CreateIfAbsent, Redis!AtIdle, Redis!Lost, Redis!NoAnswer, Redis!Replies,
          Redis!TypeOK
    <2>2. CASE UNCHANGED <<rows, winners, tally>>
      BY <1>s, <2>1, <2>2
    <2>3. CASE ~Redis!Has(k) /\ rows' = Redis!With(k, Redis!Fresh(p, ttl))
                  /\ tally' = [tally EXCEPT ![k] = 0]
      BY <1>2, <2>1, <2>3, RedisResetKeeps DEF Redis!CreateIfAbsent
    <2> QED
      BY <1>2, <2>2, <2>3 DEF Redis!CreateIfAbsent
  <1>3. CASE Redis!ReplaceIf(p, k, ttl)
    <2>1. reply' \in [Procs -> Redis!Replies] /\ UNCHANGED <<task, winners>>
      BY <1>3, <1>r, <1>t
      DEF Redis!ReplaceIf, Redis!AtIdle, Redis!Lost, Redis!NoAnswer, Redis!Replies,
          Redis!TypeOK
    <2>2. CASE UNCHANGED <<rows, tally>>
      BY <1>s, <2>1, <2>2
    <2>3. CASE rows' = Redis!With(k, Redis!Fresh(p, ttl))
                  /\ tally' = [tally EXCEPT ![k] = 0]
      BY <2>1, <2>3, RedisResetKeeps
    <2> QED
      BY <1>3, <2>2, <2>3 DEF Redis!ReplaceIf
  <1>4. CASE Redis!IncrementField(p, k, ttl)
    BY <1>4, <1>t, RedisChangeKeeps
    DEF Redis!IncrementField, Redis!AtIdle, Redis!TypeOK
  <1>5. CASE Redis!UpdateField(p, k, ttl)
    BY <1>5, <1>t, RedisChangeKeeps
    DEF Redis!UpdateField, Redis!AtIdle, Redis!TypeOK
  <1> QED
    BY <1>1, <1>2, <1>3, <1>4, <1>5

\* The operations of several steps, EXPIRE and DEL.
LEMMA RedisOtherStep ==
  ASSUME RedisInv, NEW p \in Procs,
         \/ Redis!Scan(p) \/ Redis!DeletePage(p)
         \/ \E k \in Keys : Redis!AppendRead(p, k) \/ Redis!Delete(p, k)
         \/ \E ttl \in Redis!ExpireTtls : Redis!AppendWrite(p, ttl)
         \/ \E k \in Keys, ttl \in Redis!ExpireTtls : Redis!RenewTtl(p, k, ttl)
  PROVE  RedisInv'
  <1>t. Redis!TypeOK /\ task[p].keys \in SUBSET Keys
    BY DEF RedisInv, Redis!TypeOK, Redis!Task
  <1>g. \A t \in Redis!Task : Redis!Goto(p, t) => task' \in [Procs -> Redis!Task]
    BY <1>t DEF Redis!Goto, Redis!TypeOK
  <1>i. Redis!Idle \in Redis!Task
    BY DEF Redis!Idle, Redis!Task
  <1>1. CASE Redis!Scan(p) \/ \E k \in Keys : Redis!AppendRead(p, k)
    <2>1. PICK t \in Redis!Task : Redis!Goto(p, t)
      BY <1>1, RowStoreAssumption, TablesAssumption
      DEF Redis!Scan, Redis!AppendRead, Redis!Task
    <2> QED
      BY <1>1, <1>g, <2>1
      DEF Redis!Scan, Redis!AppendRead, RedisInv, Redis!TypeOK, RedisClaims,
          Redis!NoLostIncrement, Redis!Has
  <1>2. CASE Redis!DeletePage(p)
    BY <1>2, <1>t, <1>g, <1>i, RedisDropKeeps DEF Redis!DeletePage
  <1>3. ASSUME NEW k \in Keys, Redis!Delete(p, k)
        PROVE  RedisInv'
    BY <1>3, <1>t, RedisDropKeeps DEF Redis!Delete, Redis!AtIdle, Redis!TypeOK
  <1>4. ASSUME NEW ttl \in Redis!ExpireTtls, Redis!AppendWrite(p, ttl)
        PROVE  RedisInv'
    <2>1. PICK k \in Keys : rows' = Redis!With(k, Redis!Changed(p, k, ttl, 0))
      BY <1>4, <1>t DEF Redis!AppendWrite
    <2> QED
      BY <1>4, <1>g, <1>i, <2>1, RedisChangeKeeps
      DEF Redis!AppendWrite
  <1>5. ASSUME NEW k \in Keys, NEW ttl \in Redis!ExpireTtls, Redis!RenewTtl(p, k, ttl)
        PROVE  RedisInv'
    <2>1. rows' = [rows EXCEPT ![k].left = ttl] /\ UNCHANGED <<task, reply, winners, tally>>
      BY <1>5 DEF Redis!RenewTtl, Redis!AtIdle
    <2>2. k \in DOMAIN rows /\ rows[k] \in Redis!Hash /\ ttl \in Nat \ {0}
      BY <1>5, <1>t, RowStoreAssumption, TablesAssumption
      DEF Redis!ExpireTtls, Redis!RenewTtl, Redis!Has, Redis!TypeOK
    <2>3. /\ DOMAIN rows' = DOMAIN rows
          /\ rows'[k] = [rows[k] EXCEPT !.left = ttl]
          /\ \A j \in DOMAIN rows \ {k} : rows'[j] = rows[j]
      BY <2>1, <2>2
    <2>4. rows'[k] \in Redis!Hash /\ rows'[k].count = rows[k].count
      BY <2>2, <2>3 DEF Redis!Hash
    <2> QED
      BY <2>1, <2>3, <2>4
      DEF RedisInv, Redis!TypeOK, RedisClaims, Redis!NoLostIncrement, Redis!Has
  <1> QED
    BY <1>1, <1>2, <1>3, <1>4, <1>5

LEMMA RedisStepInv == RedisInv /\ (Redis!Next \/ UNCHANGED Redis!vars) => RedisInv'
  <1> SUFFICES ASSUME RedisInv, (Redis!Next \/ UNCHANGED Redis!vars) PROVE RedisInv'
    OBVIOUS
  <1>1. CASE UNCHANGED Redis!vars
    BY <1>1
    DEF Redis!vars, RedisInv, Redis!TypeOK, RedisClaims, Redis!NoLostIncrement,
        Redis!Has
  <1> QED
    BY <1>1, RedisClockKeeps, RedisRowStep, RedisOtherStep DEF Redis!Next

\* What the invariant says of the hashes: its types, one winner for
\* a row, who has it still, and every acknowledged increment.
LEMMA RedisShows ==
  ASSUME RedisInv
  PROVE  Redis!TypeOK /\ ExclusiveClaim /\ Redis!ClaimPersists /\ Redis!NoLostIncrement
  <1>1. ExclusiveClaim
    BY OneWinnerEach DEF RedisInv, RedisClaims
  <1>2. Redis!ClaimPersists
    BY RowStoreAssumption, TablesAssumption
    DEF RedisInv, Redis!TypeOK, RedisClaims, Redis!ClaimPersists, Redis!Holder,
        Redis!Has, Redis!Hash
  <1> QED
    BY <1>1, <1>2 DEF RedisInv

-----------------------------------------------------------------------------
(* Its contract.                                                           *)

LEMMA RedisHolderOfHas ==
  ASSUME RedisInv, NEW k \in Keys
  PROVE  Redis!Holder(k) = Nobody <=> ~Redis!Has(k)
  BY RowStoreAssumption, TablesAssumption
  DEF RedisInv, Redis!TypeOK, Redis!Holder, Redis!Has, Redis!Hash

LEMMA RedisPutStep ==
  ASSUME NEW p \in Procs, NEW k \in Keys, Redis!NoAnswer,
         \A j \in Keys : Redis!Holder(j)' = IF j = k THEN p ELSE Redis!Holder(j)
  PROVE  Redis!RowSteps!ContractNext
  <1>1. Redis!RowSteps!Put(p, k)
    BY DEF Redis!RowSteps!Put, Redis!RowSteps!Becomes, Redis!RowSteps!NoAnswer, Redis!NoAnswer
  <1> QED
    BY <1>1 DEF Redis!RowSteps!ContractNext

LEMMA RedisVanishStep ==
  ASSUME NEW gone \in SUBSET Keys, UNCHANGED reply,
         \A j \in Keys : Redis!Holder(j)' = IF j \in gone THEN Nobody ELSE Redis!Holder(j)
  PROVE  Redis!RowSteps!ContractNext
  <1>1. Redis!RowSteps!Vanish(gone)
    BY DEF Redis!RowSteps!Vanish
  <1> QED
    BY <1>1 DEF Redis!RowSteps!ContractNext

LEMMA RedisSameStep ==
  ASSUME UNCHANGED reply, \A j \in Keys : Redis!Holder(j)' = Redis!Holder(j)
  PROVE  UNCHANGED Redis!RowSteps!contractVars
  BY DEF Redis!RowSteps!contractVars

LEMMA RedisFreshStep ==
  ASSUME NEW p \in Procs, NEW k \in Keys, NEW ttl \in Redis!ExpireTtls,
         rows' = Redis!With(k, Redis!Fresh(p, ttl))
  PROVE  \A j \in Keys : Redis!Holder(j)' = IF j = k THEN p ELSE Redis!Holder(j)
  BY RedisFreshHash DEF Redis!With, Redis!Holder, Redis!Has

\* The scripts decide and write as the contract does; one whose answer is
\* lost is a put.
LEMMA RedisTransitionStep ==
  ASSUME RedisInv, NEW p \in Procs, NEW k \in Keys, NEW ttl \in Redis!ExpireTtls,
         Redis!CreateIfAbsent(p, k, ttl) \/ Redis!ReplaceIf(p, k, ttl)
  PROVE  Redis!RowSteps!ContractNext
  <1>1. ASSUME rows' = Redis!With(k, Redis!Fresh(p, ttl))
        PROVE  [j \in Keys |-> Redis!Holder(j)]'
                  = [[j \in Keys |-> Redis!Holder(j)] EXCEPT ![k] = p]
    BY <1>1, RedisFreshStep
  <1>2. ASSUME UNCHANGED rows
        PROVE  [j \in Keys |-> Redis!Holder(j)]' = [j \in Keys |-> Redis!Holder(j)]
    BY <1>2 DEF Redis!Holder, Redis!Has
  <1>3. CASE rows' = Redis!With(k, Redis!Fresh(p, ttl)) /\ Redis!NoAnswer
    BY <1>3, RedisFreshStep, RedisPutStep
  <1>a. \A r \in Redis!Replies : Redis!Answer(p, r) => Redis!RowSteps!Answer(p, r)
    BY DEF Redis!Answer, Redis!RowSteps!Answer
  <1>h. /\ Redis!RowSteps!Absent(k) <=> ~Redis!Has(k)
        /\ rows' = Redis!With(k, Redis!Fresh(p, ttl)) => Redis!RowSteps!Becomes(k, p)
        /\ UNCHANGED rows /\ ~Redis!Has(k) => Redis!RowSteps!Becomes(k, Nobody)
    BY <1>1, <1>2, RedisHolderOfHas DEF Redis!RowSteps!Absent, Redis!RowSteps!Becomes
  <1>4. CASE Redis!CreateIfAbsent(p, k, ttl)
    <2>1. \/ Redis!RowSteps!Create(p, k)
          \/ rows' = Redis!With(k, Redis!Fresh(p, ttl)) /\ Redis!NoAnswer
      BY <1>2, <1>4, <1>a, <1>h
      DEF Redis!CreateIfAbsent, Redis!Lost, Redis!Replies, Redis!RowSteps!Create
    <2> QED
      BY <1>3, <2>1 DEF Redis!RowSteps!ContractNext
  <1>5. CASE Redis!ReplaceIf(p, k, ttl)
    <2>1. \/ Redis!RowSteps!Replace(p, k)
          \/ rows' = Redis!With(k, Redis!Fresh(p, ttl)) /\ Redis!NoAnswer
      BY <1>2, <1>5, <1>a, <1>h
      DEF Redis!ReplaceIf, Redis!Lost, Redis!Replies, Redis!RowSteps!Replace
    <2> QED
      BY <1>3, <2>1 DEF Redis!RowSteps!ContractNext
  <1> QED
    BY <1>4, <1>5

\* A change of a field puts a row: its holder's, the caller's if there is none.
LEMMA RedisChangeStep ==
  ASSUME RedisInv, NEW p \in Procs, NEW k \in Keys, NEW ttl \in Redis!ExpireTtls,
         NEW n \in {0, 1},
         n = 1 /\ Redis!Has(k) => rows[k].count < MaxHashCount,
         rows' = Redis!With(k, Redis!Changed(p, k, ttl, n)),
         Redis!NoAnswer
  PROVE  Redis!RowSteps!ContractNext
  <1> DEFINE hash == Redis!Changed(p, k, ttl, n)
  <1>1. /\ Redis!Has(k) => hash.owner = rows[k].owner
        /\ ~Redis!Has(k) => hash.owner = p
        /\ rows' = Redis!With(k, hash)
    BY RedisChangedHash
  <1> HIDE DEF hash
  <1>2. \A j \in Keys : Redis!Holder(j)' = IF j = k THEN hash.owner ELSE Redis!Holder(j)
    BY <1>1 DEF Redis!With, Redis!Holder, Redis!Has
  <1>3. hash.owner \in Procs
    BY <1>1 DEF RedisInv, Redis!TypeOK, Redis!Has, Redis!Hash
  <1> QED
    BY <1>2, <1>3, RedisPutStep

LEMMA RedisDropStep ==
  ASSUME NEW gone \in SUBSET Keys, rows' = Redis!Without(gone), UNCHANGED reply
  PROVE  Redis!RowSteps!ContractNext
  <1>1. \A j \in Keys : Redis!Holder(j)' = IF j \in gone THEN Nobody ELSE Redis!Holder(j)
    BY DEF Redis!Without, Redis!Holder, Redis!Has
  <1> QED
    BY <1>1, RedisVanishStep

LEMMA RedisContractStep ==
  ASSUME RedisInv, (Redis!Next \/ UNCHANGED Redis!vars)
  PROVE  Redis!RowSteps!ContractNext \/ UNCHANGED Redis!RowSteps!contractVars
  <1>t. Redis!TypeOK /\ \A p \in Procs : task[p].keys \in SUBSET Keys
    BY DEF RedisInv, Redis!TypeOK, Redis!Task
  <1>1. CASE Redis!Tick
    <2> DEFINE gone == {k \in DOMAIN rows : rows[k].left = 1}
    <2>1. /\ DOMAIN rows' = DOMAIN rows \ gone
          /\ \A k \in DOMAIN rows \ gone : rows'[k].owner = rows[k].owner
          /\ UNCHANGED reply
      BY <1>1, <1>t DEF Redis!Tick, Redis!TypeOK, Redis!Hash
    <2>2. gone \in SUBSET Keys
      BY <1>t DEF Redis!TypeOK
    <2> HIDE DEF gone
    <2>3. \A j \in Keys : Redis!Holder(j)' = IF j \in gone THEN Nobody ELSE Redis!Holder(j)
      BY <2>1 DEF Redis!Holder, Redis!Has
    <2> QED
      BY <2>1, <2>2, <2>3, RedisVanishStep
  <1>2. ASSUME NEW p \in Procs, Redis!DeletePage(p) \/ \E k \in Keys : Redis!Delete(p, k)
        PROVE  Redis!RowSteps!ContractNext
    BY <1>2, <1>t, RedisDropStep DEF Redis!DeletePage, Redis!Delete
  <1>3. ASSUME UNCHANGED <<rows, reply>>
        PROVE  UNCHANGED Redis!RowSteps!contractVars
    BY <1>3, RedisSameStep DEF Redis!Holder, Redis!Has
  <1>4. CASE UNCHANGED Redis!vars \/ \E p \in Procs : Redis!Scan(p)
                \/ \E k \in Keys : Redis!AppendRead(p, k)
    BY <1>3, <1>4 DEF Redis!Scan, Redis!AppendRead, Redis!vars
  <1>5. ASSUME NEW p \in Procs, NEW ttl \in Redis!ExpireTtls, Redis!AppendWrite(p, ttl)
        PROVE  Redis!RowSteps!ContractNext \/ UNCHANGED Redis!RowSteps!contractVars
    <2>1. PICK k \in Keys : rows' = Redis!With(k, Redis!Changed(p, k, ttl, 0))
      BY <1>5, <1>t DEF Redis!AppendWrite
    <2> QED
      BY <1>5, <2>1, RedisChangeStep DEF Redis!AppendWrite
  <1>6. ASSUME NEW p \in Procs, NEW k \in Keys, NEW ttl \in Redis!ExpireTtls,
               Redis!Upsert(p, k, ttl) \/ Redis!RenewTtl(p, k, ttl)
        PROVE  Redis!RowSteps!ContractNext \/ UNCHANGED Redis!RowSteps!contractVars
    <2>1. CASE Redis!Upsert(p, k, ttl)
      <3>1. CASE rows' = Redis!With(k, Redis!Fresh(p, ttl))
        BY <2>1, <3>1, RedisFreshStep, RedisPutStep
        DEF Redis!Upsert
      <3>2. CASE rows' = Redis!With(k, [Redis!Changed(p, k, ttl, 0) EXCEPT !.owner = p])
        <4> DEFINE hash == [Redis!Changed(p, k, ttl, 0) EXCEPT !.owner = p]
        <4>1. hash.owner = p
          BY RedisChangedHash DEF Redis!Hash
        <4> HIDE DEF hash
        <4>2. rows' = Redis!With(k, hash)
          BY <3>2 DEF hash
        <4>3. \A j \in Keys : Redis!Holder(j)' = IF j = k THEN p ELSE Redis!Holder(j)
          BY <4>1, <4>2 DEF Redis!With, Redis!Holder, Redis!Has
        <4> QED
          BY <2>1, <4>3, RedisPutStep DEF Redis!Upsert
      <3> QED
        BY <2>1, <3>1, <3>2 DEF Redis!Upsert
    <2>2. CASE Redis!RenewTtl(p, k, ttl)
      <3>1. \A j \in Keys : Redis!Holder(j)' = Redis!Holder(j)
        BY <1>t, <2>2
        DEF Redis!RenewTtl, Redis!Holder, Redis!Has, Redis!TypeOK, Redis!Hash
      <3> QED
        BY <2>2, <3>1, RedisSameStep DEF Redis!RenewTtl
    <2> QED
      BY <1>6, <2>1, <2>2
  <1>7. ASSUME NEW p \in Procs, NEW k \in Keys, NEW ttl \in Redis!ExpireTtls,
               Redis!IncrementField(p, k, ttl) \/ Redis!UpdateField(p, k, ttl)
        PROVE  Redis!RowSteps!ContractNext \/ UNCHANGED Redis!RowSteps!contractVars
    BY <1>7, RedisChangeStep
    DEF Redis!IncrementField, Redis!UpdateField
  <1> QED
    BY <1>1, <1>2, <1>4, <1>5, <1>6, <1>7, RedisTransitionStep DEF Redis!Next

-----------------------------------------------------------------------------
(* The JSON backend of conditional writes.                                 *)

\* Who is between the two steps of a hold has the rows of the file before it:
\* nobody writes while the lock is held.
JsonHold ==
    \A p \in Procs :
        IF lock = p
        THEN /\ task[p].pc = "decide"
             /\ task[p].kind \in {"create", "replace"}
             /\ task[p].row = Json!Fresh(p)
             /\ task[p].snap = Json!Content
        ELSE task[p].pc = "idle"

\* Every row has been written by somebody, and a winner's row is there.
JsonClaims ==
    /\ \A k \in DOMAIN Json!Content : Json!Content[k].owner \in Procs
    /\ \A k \in Keys :
          winners[k] # {} => /\ k \in DOMAIN Json!Content
                             /\ \E p \in Procs : winners[k] = {p}

JsonInv == Json!TypeOK /\ JsonHold /\ JsonClaims

\* A coroutine that does nothing.
LEMMA JsonNoTask ==
  Json!NoTask \in Json!Task /\ Json!NoTask.pc = "idle"
  <1>1. (CHOOSE k \in Keys : TRUE) \in Keys /\ (CHOOSE t \in Ttls : TRUE) \in Ttls
    BY TablesAssumption
  <1> DEFINE key == CHOOSE k \in Keys : TRUE
             ttl == CHOOSE t \in Ttls : TRUE
  <1>2. Json!NoTask = [pc |-> "idle", kind |-> "get", key |-> key, ttl |-> ttl,
                       row |-> [owner |-> Nobody, count |-> 0],
                       snap |-> Json!NoRows, todo |-> {}, missed |-> {}]
    BY DEF Json!NoTask
  <1>3. key \in Keys /\ ttl \in Ttls
    BY <1>1
  <1>4. [owner |-> Nobody, count |-> 0] \in Json!Row
    BY RowStoreAssumption DEF Json!Row
  <1>5. Json!NoRows \in Json!Contents
    BY DEF Json!NoRows, Json!Contents
  <1> HIDE DEF key, ttl
  <1> QED
    BY <1>2, <1>3, <1>4, <1>5 DEF Json!Task, Json!AllKinds

\* The rows of the file, and the rows with one more.
LEMMA JsonContent ==
  ASSUME Json!TypeOK
  PROVE  /\ Json!Content \in Json!Contents
         /\ DOMAIN Json!Content \subseteq Keys
         /\ \A k \in DOMAIN Json!Content : Json!Content[k] \in Json!Row
  <1>1. Json!NoRows \in Json!Contents
    BY DEF Json!NoRows, Json!Contents
  <1>2. Json!Content \in Json!Contents
    BY <1>1 DEF Json!TypeOK, Json!File, Json!Content
  <1> QED
    BY <1>2 DEF Json!Contents

LEMMA JsonWith ==
  ASSUME Json!TypeOK, NEW k \in Keys, NEW row \in Json!Row
  PROVE  /\ Json!With(Json!Content, k, row) \in Json!Contents
         /\ DOMAIN Json!With(Json!Content, k, row) = DOMAIN Json!Content \cup {k}
         /\ Json!With(Json!Content, k, row)[k] = row
         /\ \A j \in DOMAIN Json!Content \ {k} :
               Json!With(Json!Content, k, row)[j] = Json!Content[j]
  <1> DEFINE after == Json!With(Json!Content, k, row)
  <1>1. /\ DOMAIN after = DOMAIN Json!Content \cup {k}
        /\ after[k] = row
        /\ \A j \in DOMAIN Json!Content \ {k} : after[j] = Json!Content[j]
        /\ after = [j \in DOMAIN after |-> after[j]]
    BY DEF Json!With
  <1>2. DOMAIN after \in SUBSET Keys /\ \A j \in DOMAIN after : after[j] \in Json!Row
    BY <1>1, JsonContent
  <1> HIDE DEF after
  <1>3. after \in [DOMAIN after -> Json!Row]
    BY <1>1, <1>2
  <1>4. after \in Json!Contents
    BY <1>2, <1>3 DEF Json!Contents
  <1> QED
    BY <1>1, <1>4 DEF after

LEMMA JsonInitInv == Json!Init => JsonInv
  <1> SUFFICES ASSUME Json!Init PROVE JsonInv
    OBVIOUS
  <1>1. Json!NoFile \in Json!File /\ ~Json!NoFile.there
    BY DEF Json!NoFile, Json!File, Json!NoRows, Json!Contents
  <1>2. Json!TypeOK
    BY <1>1, JsonNoTask DEF Json!Init, Json!TypeOK, Json!Replies
  <1>3. Json!Content = Json!NoRows
    BY <1>1 DEF Json!Init, Json!Content
  <1>4. JsonHold
    BY JsonNoTask, RowStoreAssumption DEF Json!Init, JsonHold
  <1>5. JsonClaims
    BY <1>3 DEF Json!Init, JsonClaims, Json!NoRows
  <1> QED
    BY <1>2, <1>4, <1>5 DEF JsonInv

\* A decision: the lock is given up, and nobody is in an operation.
LEMMA JsonDecided ==
  ASSUME JsonInv, NEW p \in Procs, NEW kind, NEW r \in Json!Replies,
         Json!Decide(p, kind, r)
  PROVE  /\ lock = p /\ lock' = Nobody
         /\ task' \in [Procs -> Json!Task]
         /\ reply' \in [Procs -> Json!Replies]
         /\ JsonHold'
  <1>1. lock = p /\ lock' = Nobody /\ task' = [task EXCEPT ![p] = Json!NoTask]
    BY DEF Json!Decide, Json!Goto, JsonInv, JsonHold
  <1>2. /\ task' \in [Procs -> Json!Task]
        /\ task'[p] = Json!NoTask
        /\ \A q \in Procs \ {p} : task'[q] = task[q]
    BY <1>1, JsonNoTask DEF JsonInv, Json!TypeOK
  <1>3. JsonHold'
    BY <1>1, <1>2, JsonNoTask, RowStoreAssumption DEF JsonInv, JsonHold
  <1> QED
    BY <1>1, <1>2, <1>3 DEF Json!Decide, Json!Replies

\* What the file holds when the row has been stored.
LEMMA JsonStored ==
  ASSUME JsonInv, NEW p \in Procs, lock = p, Json!Store(p)
  PROVE  LET k == task[p].key
         IN  /\ k \in Keys
             /\ file' \in Json!File
             /\ Json!Content' = Json!With(Json!Content, k, Json!Fresh(p))
             /\ tally' \in [Keys -> Nat]
             /\ Json!Fresh(p) \in Json!Row /\ Json!Fresh(p).owner = p
  <1> DEFINE k == task[p].key
             after == Json!With(Json!Content, k, Json!Fresh(p))
  <1>1. task[p] \in Json!Task /\ k \in Keys /\ task[p].ttl \in Nat
    BY RowStoreAssumption DEF JsonInv, Json!TypeOK, Json!Task
  <1>2. Json!Fresh(p) \in Json!Row /\ Json!Fresh(p).owner = p
    BY RowStoreAssumption DEF Json!Fresh, Json!Row
  <1>3. task[p].pc = "decide" /\ task[p].row = Json!Fresh(p) /\ task[p].snap = Json!Content
        /\ task[p].kind \in {"create", "replace"}
    BY DEF JsonInv, JsonHold
  <1>4. Json!Outgoing(p) = Json!NewFile(after, task[p].ttl)
    BY <1>3 DEF Json!Outgoing, Json!Deleting
  <1>5. file' = Json!NewFile(after, task[p].ttl)
    BY <1>4 DEF Json!Store
  <1>6. after \in Json!Contents
    BY <1>1, <1>2, JsonWith DEF JsonInv
  <1> HIDE DEF after
  <1>7. file' \in Json!File /\ file'.there /\ file'.left # 0 /\ file'.rows = after
    BY <1>1, <1>5, <1>6 DEF Json!NewFile, Json!File, Json!Never
  <1>8. Json!Content' = after
    BY <1>7 DEF Json!Content
  <1>9. tally' \in [Keys -> Nat]
    <2>1. tally' = [Json!Kept(p) EXCEPT ![k] = 0]
      BY DEF Json!Store
    <2>2. Json!Kept(p) \in [Keys -> Nat]
      BY DEF Json!Kept, JsonInv, Json!TypeOK
    <2> QED
      BY <2>1, <2>2
  <1> QED
    BY <1>1, <1>2, <1>7, <1>8, <1>9 DEF after

-----------------------------------------------------------------------------

\* The read of a transition, which keeps the lock.
LEMMA JsonRead ==
  ASSUME JsonInv, NEW p \in Procs, NEW kind \in {"create", "replace"},
         NEW k \in Keys, NEW ttl \in Ttls, Json!Transition(p, kind, k, ttl)
  PROVE  JsonInv' /\ Json!Content' = Json!Content /\ UNCHANGED reply
  <1> DEFINE t == [Json!NoTask EXCEPT !.pc = "decide", !.kind = kind, !.key = k,
                                      !.ttl = ttl, !.row = Json!Fresh(p),
                                      !.snap = Json!Content, !.missed = {}]
  <1>1. /\ lock = Nobody /\ lock' = p
        /\ task' = [task EXCEPT ![p] = t]
        /\ UNCHANGED <<file, reply, winners, tally>>
    BY DEF Json!Transition, Json!At, Json!Unlocked, Json!Goto, Json!Failing, Json!Seen
  <1>2. Json!Fresh(p) \in Json!Row
    BY RowStoreAssumption DEF Json!Fresh, Json!Row
  <1>3. /\ t \in Json!Task /\ t.pc = "decide" /\ t.kind = kind
        /\ t.row = Json!Fresh(p) /\ t.snap = Json!Content
    BY <1>2, JsonNoTask, JsonContent DEF JsonInv, Json!Task, Json!AllKinds
  <1> HIDE DEF t
  <1>4. /\ task' \in [Procs -> Json!Task]
        /\ task'[p] = t
        /\ \A q \in Procs \ {p} : task'[q] = task[q]
    BY <1>1, <1>3 DEF JsonInv, Json!TypeOK
  <1>5. Json!Content' = Json!Content
    BY <1>1 DEF Json!Content
  <1>6. Json!TypeOK'
    BY <1>1, <1>4 DEF JsonInv, Json!TypeOK
  <1>7. JsonHold'
    BY <1>1, <1>3, <1>4, <1>5, RowStoreAssumption DEF JsonInv, JsonHold, Json!Fresh
  <1>8. JsonClaims'
    BY <1>1, <1>5 DEF JsonInv, JsonClaims
  <1> QED
    BY <1>1, <1>5, <1>6, <1>7, <1>8 DEF JsonInv

\* A refusal leaves the file alone.
LEMMA JsonRefused ==
  ASSUME JsonInv, NEW p \in Procs, Json!Refuse(p)
  PROVE  JsonInv' /\ Json!Content' = Json!Content
  <1>1. PICK kind \in {"create", "replace"}, r \in Json!Replies : Json!Decide(p, kind, r)
    BY DEF Json!Refuse, Json!Replies
  <1>2. UNCHANGED <<file, winners, tally>>
    BY DEF Json!Refuse
  <1>3. Json!Content' = Json!Content
    BY <1>2 DEF Json!Content
  <1>4. lock' = Nobody /\ task' \in [Procs -> Json!Task]
        /\ reply' \in [Procs -> Json!Replies] /\ JsonHold'
    BY <1>1, JsonDecided
  <1>5. Json!TypeOK'
    BY <1>2, <1>4 DEF JsonInv, Json!TypeOK
  <1>6. JsonClaims'
    BY <1>2, <1>3 DEF JsonInv, JsonClaims
  <1> QED
    BY <1>3, <1>4, <1>5, <1>6 DEF JsonInv

\* A write puts the caller's row into the rows there are.
LEMMA JsonWritten ==
  ASSUME JsonInv, NEW p \in Procs, Json!Create(p) \/ Json!Replace(p)
  PROVE  LET k == task[p].key
         IN  /\ JsonInv'
             /\ k \in Keys
             /\ Json!Content' = Json!With(Json!Content, k, Json!Fresh(p))
  <1> DEFINE k == task[p].key
  <1>1. PICK kind \in {"create", "replace"}, r \in Json!Replies : Json!Decide(p, kind, r)
    BY DEF Json!Create, Json!Replace, Json!Replies
  <1>2. /\ lock = p /\ lock' = Nobody /\ task' \in [Procs -> Json!Task]
        /\ reply' \in [Procs -> Json!Replies] /\ JsonHold'
    BY <1>1, JsonDecided
  <1>3. Json!Store(p)
    BY DEF Json!Create, Json!Replace
  <1>4. /\ k \in Keys
        /\ file' \in Json!File
        /\ Json!Content' = Json!With(Json!Content, k, Json!Fresh(p))
        /\ tally' \in [Keys -> Nat]
        /\ Json!Fresh(p) \in Json!Row /\ Json!Fresh(p).owner = p
    BY <1>2, <1>3, JsonStored
  <1>5. /\ DOMAIN Json!Content' = DOMAIN Json!Content \cup {k}
        /\ Json!Content'[k] = Json!Fresh(p)
        /\ \A j \in DOMAIN Json!Content \ {k} : Json!Content'[j] = Json!Content[j]
    BY <1>4, JsonWith DEF JsonInv
  <1>6. winners' \in [Keys -> SUBSET Procs]
        /\ \/ UNCHANGED winners
           \/ /\ winners[k] = {} /\ winners'[k] = {p}
              /\ \A j \in Keys \ {k} : winners'[j] = winners[j]
    <2>1. CASE Json!Replace(p)
      BY <2>1 DEF Json!Replace, JsonInv, Json!TypeOK
    <2>2. CASE Json!Create(p)
      <3>1. k \notin DOMAIN Json!Content
        BY <1>2, <2>2 DEF Json!Create, Json!Found, Json!Has, JsonInv, JsonHold
      <3>2. winners[k] = {} /\ winners' = [winners EXCEPT ![k] = @ \cup {p}]
        BY <1>4, <2>2, <3>1 DEF Json!Create, JsonInv, JsonClaims
      <3> QED
        BY <1>4, <3>2 DEF JsonInv, Json!TypeOK
    <2> QED
      BY <2>1, <2>2
  <1>7. Json!TypeOK'
    BY <1>2, <1>4, <1>6 DEF Json!TypeOK
  <1>8. JsonClaims'
    <2>1. \A j \in DOMAIN Json!Content' : Json!Content'[j].owner \in Procs
      BY <1>4, <1>5 DEF JsonInv, JsonClaims
    <2>2. \A j \in Keys : winners'[j] # {} => /\ j \in DOMAIN Json!Content'
                                              /\ \E q \in Procs : winners'[j] = {q}
      BY <1>4, <1>5, <1>6 DEF JsonInv, JsonClaims
    <2> QED
      BY <2>1, <2>2 DEF JsonClaims
  <1> QED
    BY <1>2, <1>4, <1>7, <1>8 DEF JsonInv

\* The clock: the rows are as they were, or all gone with the file.
LEMMA JsonTick ==
  ASSUME JsonInv, Json!Tick
  PROVE  /\ JsonInv'
         /\ Json!Content' = Json!Content \/ DOMAIN Json!Content' = {}
         /\ UNCHANGED reply
  <1>1. /\ lock = Nobody /\ UNCHANGED <<lock, task, reply>>
        /\ file.there /\ file.left \in Nat /\ file.left > 0
        /\ file' = [file EXCEPT !.left = @ - 1]
    BY DEF Json!Tick, Json!Unlocked, JsonInv, Json!TypeOK, Json!File, Json!Never
  <1>2. file' \in Json!File
    BY <1>1 DEF JsonInv, Json!TypeOK, Json!File
  <1>3. JsonHold'
    BY <1>1, RowStoreAssumption DEF JsonInv, JsonHold
  <1>4. CASE file.left = 1
    <2>1. Json!Content' = Json!NoRows
      BY <1>1, <1>4 DEF Json!Content, JsonInv, Json!TypeOK, Json!File
    <2>2. /\ winners' = [k \in Keys |-> {}]
          /\ tally' = [k \in Keys |-> 0]
      BY <1>4 DEF Json!Tick
    <2>3. JsonClaims'
      BY <2>1, <2>2 DEF JsonClaims, Json!NoRows
    <2>4. Json!TypeOK'
      BY <1>1, <1>2, <2>2 DEF JsonInv, Json!TypeOK
    <2> QED
      BY <1>1, <1>3, <2>1, <2>3, <2>4 DEF JsonInv, Json!NoRows
  <1>5. CASE file.left # 1
    <2>1. Json!Content' = Json!Content
      BY <1>1, <1>5 DEF Json!Content, JsonInv, Json!TypeOK, Json!File
    <2>2. UNCHANGED <<winners, tally>>
      BY <1>5 DEF Json!Tick
    <2>3. JsonClaims'
      BY <2>1, <2>2 DEF JsonInv, JsonClaims
    <2>4. Json!TypeOK'
      BY <1>1, <1>2, <2>2 DEF JsonInv, Json!TypeOK
    <2> QED
      BY <1>1, <1>3, <2>1, <2>3, <2>4 DEF JsonInv
  <1> QED
    BY <1>4, <1>5

\* With conditional writes only, nobody is ever in another operation.
LEMMA JsonSteps ==
  ASSUME JsonInv, Json!Next
  PROVE  \/ Json!Tick
         \/ \E p \in Procs : Json!Refuse(p) \/ Json!Create(p) \/ Json!Replace(p)
         \/ \E p \in Procs, kind \in {"create", "replace"}, k \in Keys, ttl \in Ttls :
               Json!Transition(p, kind, k, ttl)
  <1>1. ASSUME NEW p \in Procs, Json!Step(p)
        PROVE  \/ Json!Refuse(p) \/ Json!Create(p) \/ Json!Replace(p)
               \/ \E kind \in {"create", "replace"}, k \in Keys, ttl \in Ttls :
                     Json!Transition(p, kind, k, ttl)
    <2>1. task[p].pc \in {"idle", "decide"}
      BY DEF JsonInv, JsonHold
    <2>2. ~(Json!ReadForSet(p) \/ Json!DeleteNext(p) \/ Json!Purge(p)
            \/ Json!Write(p) \/ Json!WriteFails(p))
      BY <2>1
      DEF Json!ReadForSet, Json!DeleteNext, Json!Purge, Json!Write, Json!WriteFails, Json!At
    <2>3. \A kind, t : Json!Call(p, kind, t) => kind \in {"create", "replace"}
      BY DEF Json!Call
    <2>4. ~(Json!Get(p) \/ Json!DeleteTable(p))
      BY <2>3 DEF Json!Get, Json!DeleteTable
    <2>5. \A k \in Keys : ~Json!Delete(p, k)
      BY <2>3 DEF Json!Delete
    <2>6. \A ttl \in Ttls : ~Json!RenewTtl(p, ttl)
      BY <2>3 DEF Json!RenewTtl
    <2>7. \A k \in Keys, ttl \in Ttls : ~Json!Upsert(p, k, ttl)
      <3> SUFFICES ASSUME NEW k \in Keys, NEW ttl \in Ttls, Json!Upsert(p, k, ttl)
                   PROVE  FALSE
        OBVIOUS
      <3>1. PICK t : Json!Call(p, "upsert", t)
        BY DEF Json!Upsert
      <3> QED
        BY <2>3, <3>1
    <2>8. \A kind, k, ttl : ~Json!Modify(p, kind, k, ttl)
      BY <2>3 DEF Json!Modify
    <2> QED
      BY <1>1, <2>2, <2>4, <2>5, <2>6, <2>7, <2>8 DEF Json!Step
  <1> QED
    BY <1>1 DEF Json!Next

LEMMA JsonStepInv == JsonInv /\ (Json!Next \/ UNCHANGED Json!vars) => JsonInv'
  <1> SUFFICES ASSUME JsonInv, Json!Next \/ UNCHANGED Json!vars PROVE JsonInv'
    OBVIOUS
  <1>1. CASE Json!Next
    BY <1>1, JsonSteps, JsonTick, JsonRead, JsonRefused, JsonWritten
  <1>2. CASE UNCHANGED Json!vars
    <2>1. Json!Content' = Json!Content /\ \A p \in Procs : Json!Fresh(p)' = Json!Fresh(p)
      BY <1>2 DEF Json!vars, Json!Content, Json!Fresh
    <2> QED
      BY <1>2, <2>1 DEF Json!vars, JsonInv, Json!TypeOK, JsonHold, JsonClaims
  <1> QED
    BY <1>1, <1>2

\* What the invariant says of the file.
LEMMA JsonShows ==
  ASSUME JsonInv
  PROVE  Json!TypeOK /\ ExclusiveClaim /\ Json!ClaimPersists
  <1>1. ExclusiveClaim
    BY OneWinnerEach DEF JsonInv, JsonClaims
  <1>2. \A k \in DOMAIN Json!Content : Json!Holder(k) = Json!Content[k].owner
    BY DEF Json!Holder, Json!Content, Json!NoRows
  <1>3. Json!ClaimPersists
    BY <1>2, RowStoreAssumption DEF JsonInv, JsonClaims, Json!ClaimPersists
  <1> QED
    BY <1>1, <1>3 DEF JsonInv

-----------------------------------------------------------------------------
(* Its contract.                                                           *)

LEMMA JsonHolder ==
  ASSUME JsonInv, NEW k \in Keys
  PROVE  /\ Json!Holder(k) = IF k \in DOMAIN Json!Content
                             THEN Json!Content[k].owner ELSE Nobody
         /\ Json!Holder(k) = Nobody <=> k \notin DOMAIN Json!Content
  <1>1. Json!Holder(k) = IF k \in DOMAIN Json!Content
                         THEN Json!Content[k].owner ELSE Nobody
    BY DEF Json!Holder, Json!Content, Json!NoRows
  <1> QED
    BY <1>1, RowStoreAssumption DEF JsonInv, JsonClaims

\* Every operation is one step of the contract, where it decides and writes.
LEMMA JsonContractStep ==
  ASSUME JsonInv, Json!Next \/ UNCHANGED Json!vars
  PROVE  Json!RowSteps!ContractNext \/ UNCHANGED Json!RowSteps!contractVars
  <1> DEFINE holder == [k \in Keys |-> Json!Holder(k)]
  <1>0. JsonInv'
    BY JsonStepInv
  <1>1. ASSUME Json!Content' = Json!Content
        PROVE  holder' = holder
    BY <1>0, <1>1, JsonHolder DEF Json!Holder, Json!Content, Json!NoRows
  <1>2. ASSUME DOMAIN Json!Content' = {}, UNCHANGED reply
        PROVE  Json!RowSteps!ContractNext
    <2>1. \A k \in Keys : Json!Holder(k)' = Nobody
      BY <1>2 DEF Json!Holder, Json!Content, Json!NoRows
    <2>2. Json!RowSteps!Vanish(Keys)
      BY <1>2, <2>1 DEF Json!RowSteps!Vanish
    <2> QED
      BY <2>2 DEF Json!RowSteps!ContractNext
  <1>3. CASE Json!Tick
    BY <1>1, <1>2, <1>3, JsonTick DEF Json!RowSteps!contractVars
  <1>4. ASSUME NEW p \in Procs, NEW kind \in {"create", "replace"}, NEW k \in Keys,
               NEW ttl \in Ttls, Json!Transition(p, kind, k, ttl)
        PROVE  UNCHANGED Json!RowSteps!contractVars
    BY <1>1, <1>4, JsonRead DEF Json!RowSteps!contractVars
  <1>5. ASSUME NEW p \in Procs, Json!Refuse(p) \/ Json!Create(p) \/ Json!Replace(p)
        PROVE  Json!RowSteps!ContractNext
    <2> DEFINE k == task[p].key
    <2>1. /\ k \in Keys /\ lock = p /\ task[p].snap = Json!Content
      BY <1>5, RowStoreAssumption
      DEF Json!Refuse, Json!Create, Json!Replace, Json!Decide, JsonInv, JsonHold,
          Json!TypeOK, Json!Task
    <2>2. Json!Found(p) <=> holder[k] # Nobody
      BY <2>1, JsonHolder DEF Json!Found, Json!Has
    <2>3. CASE Json!Refuse(p)
      <3>1. holder' = holder
        BY <1>1, <2>3, JsonRefused
      <3>2. Json!RowSteps!Create(p, k) \/ Json!RowSteps!Replace(p, k)
        BY <2>2, <2>3, <3>1
        DEF Json!Refuse, Json!Decide, Json!RowSteps!Create, Json!RowSteps!Replace,
            Json!RowSteps!Answer, Json!RowSteps!Absent, Json!RowSteps!Becomes
      <3> QED
        BY <2>1, <3>2 DEF Json!RowSteps!ContractNext
    <2>4. CASE Json!Create(p) \/ Json!Replace(p)
      <3>1. Json!Content' = Json!With(Json!Content, k, Json!Fresh(p))
        BY <2>4, JsonWritten
      <3>2. \A j \in Keys : Json!Holder(j)' = IF j = k THEN p ELSE Json!Holder(j)
        <4>1. /\ DOMAIN Json!Content' = DOMAIN Json!Content \cup {k}
              /\ Json!Content'[k].owner = p
              /\ \A j \in DOMAIN Json!Content \ {k} : Json!Content'[j] = Json!Content[j]
          BY <3>1 DEF Json!With, Json!Fresh
        <4>2. \A j \in Keys : Json!Holder(j)' = IF j \in DOMAIN Json!Content'
                                                THEN Json!Content'[j].owner ELSE Nobody
          BY DEF Json!Holder, Json!Content, Json!NoRows
        <4> QED
          BY <4>1, <4>2, JsonHolder
      <3>3. holder' = [holder EXCEPT ![k] = p]
        BY <2>1, <3>2
      <3>4. Json!RowSteps!Create(p, k) \/ Json!RowSteps!Replace(p, k)
        BY <2>2, <2>4, <3>3
        DEF Json!Create, Json!Replace, Json!Decide, Json!RowSteps!Create,
            Json!RowSteps!Replace, Json!RowSteps!Answer, Json!RowSteps!Absent,
            Json!RowSteps!Becomes
      <3> QED
        BY <2>1, <3>4 DEF Json!RowSteps!ContractNext
    <2> QED
      BY <1>5, <2>3, <2>4
  <1>6. CASE UNCHANGED Json!vars
    <2>1. Json!Content' = Json!Content
      BY <1>6 DEF Json!vars, Json!Content
    <2> QED
      BY <1>1, <1>6, <2>1 DEF Json!vars, Json!RowSteps!contractVars
  <1> QED
    BY <1>3, <1>4, <1>5, <1>6, JsonSteps

-----------------------------------------------------------------------------
(* The JSON backend with a coroutine that works alone.                     *)

\* Every acknowledged increment, but those of some rows, is in what was found.
Counted(found, others) ==
    \A k \in Keys \ others :
        tally[k] > 0 => k \in DOMAIN found /\ found[k].count >= tally[k]

\* What was acknowledged to others' rows and to its own, and t has not missed.
Left(t, k) == IF k \in t.missed THEN 0 ELSE tally[k]

\* What the coroutine is going to write holds what was acknowledged, but what it
\* missed because a read failed.  Rows may have expired since they were read:
\* then nothing acknowledged is left.
Pending(t) ==
    /\ t.pc = "purge" => Alone!Expired
    /\ t.pc = "read" => t.kind # "renew"
    /\ t.pc = "next" => t.kind = "delete_table"
    /\ t.pc # "idle" /\ t.kind = "increment" => t.row.count > Left(t, t.key)
    /\ t.pc # "idle" /\ t.kind = "update" => t.row.count >= Left(t, t.key)
    /\ t.pc \in {"write", "decide"} =>
          Counted(t.snap, t.missed \cup (IF t.kind = "renew" THEN {} ELSE {t.key}))

AloneInv ==
    /\ solo \in Procs
    /\ Alone!TypeOK
    /\ Pending(task[solo])
    /\ Counted(Alone!Content, {})
    /\ \A k \in Keys : winners[k] \subseteq {solo}

LEMMA AloneNoTask ==
  /\ Alone!NoTask \in Alone!Task
  /\ Alone!NoTask.pc = "idle" /\ Alone!NoTask.kind = "get" /\ Alone!NoTask.todo = {}
  /\ Alone!NoTask.missed = {}
  <1>1. (CHOOSE k \in Keys : TRUE) \in Keys /\ (CHOOSE t \in Ttls : TRUE) \in Ttls
    BY TablesAssumption
  <1> DEFINE key == CHOOSE k \in Keys : TRUE
             ttl == CHOOSE t \in Ttls : TRUE
  <1>2. Alone!NoTask = [pc |-> "idle", kind |-> "get", key |-> key, ttl |-> ttl,
                        row |-> [owner |-> Nobody, count |-> 0],
                        snap |-> Alone!NoRows, todo |-> {}, missed |-> {}]
    BY DEF Alone!NoTask
  <1>3. key \in Keys /\ ttl \in Ttls
    BY <1>1
  <1>4. [owner |-> Nobody, count |-> 0] \in Alone!Row
    BY RowStoreAssumption DEF Alone!Row
  <1>5. Alone!NoRows \in Alone!Contents
    BY DEF Alone!NoRows, Alone!Contents
  <1> HIDE DEF key, ttl
  <1> QED
    BY <1>2, <1>3, <1>4, <1>5 DEF Alone!Task, Alone!AllKinds

\* Rows, with one less or one more.
LEMMA AloneContents ==
  ASSUME NEW found \in Alone!Contents
  PROVE  /\ DOMAIN found \subseteq Keys
         /\ \A k \in DOMAIN found : found[k] \in Alone!Row
         /\ \A k \in Keys :
               /\ Alone!Without(found, k) \in Alone!Contents
               /\ DOMAIN Alone!Without(found, k) = DOMAIN found \ {k}
               /\ \A j \in DOMAIN found \ {k} : Alone!Without(found, k)[j] = found[j]
  <1>1. DOMAIN found \in SUBSET Keys /\ \A k \in DOMAIN found : found[k] \in Alone!Row
    BY DEF Alone!Contents
  <1>2. ASSUME NEW after, NEW S \in SUBSET Keys, after \in [S -> Alone!Row]
        PROVE  after \in Alone!Contents
    BY <1>2 DEF Alone!Contents
  <1>3. ASSUME NEW k \in Keys
        PROVE  /\ Alone!Without(found, k) \in Alone!Contents
               /\ DOMAIN Alone!Without(found, k) = DOMAIN found \ {k}
               /\ \A j \in DOMAIN found \ {k} : Alone!Without(found, k)[j] = found[j]
    <2>1. Alone!Without(found, k) \in [DOMAIN found \ {k} -> Alone!Row]
      BY <1>1 DEF Alone!Without
    <2>2. DOMAIN found \ {k} \in SUBSET Keys
      BY <1>1
    <2>3. Alone!Without(found, k) \in Alone!Contents
      BY <1>2, <2>1, <2>2
    <2> QED
      BY <2>3 DEF Alone!Without
  <1> QED
    BY <1>1, <1>3

LEMMA AloneWith ==
  ASSUME NEW found \in Alone!Contents, NEW k \in Keys, NEW row \in Alone!Row
  PROVE  Alone!With(found, k, row) \in Alone!Contents
  <1>1. DOMAIN found \cup {k} \in SUBSET Keys
    BY AloneContents
  <1>2. Alone!With(found, k, row) \in [DOMAIN found \cup {k} -> Alone!Row]
    BY AloneContents DEF Alone!With
  <1> QED
    BY <1>1, <1>2 DEF Alone!Contents

LEMMA AloneContent ==
  ASSUME Alone!TypeOK
  PROVE  /\ Alone!NoRows \in Alone!Contents /\ DOMAIN Alone!NoRows = {}
         /\ Alone!Content \in Alone!Contents
         /\ Alone!NoFile \in Alone!File
         /\ \A found \in Alone!Contents, ttl \in Nat :
               /\ Alone!NewFile(found, ttl) \in Alone!File
               /\ Alone!NewFile(found, ttl).there
               /\ Alone!NewFile(found, ttl).left # 0
               /\ Alone!NewFile(found, ttl).rows = found
  <1>1. Alone!NoRows \in Alone!Contents /\ DOMAIN Alone!NoRows = {}
    BY DEF Alone!NoRows, Alone!Contents
  <1>2. Alone!Content \in Alone!Contents
    BY <1>1 DEF Alone!TypeOK, Alone!File, Alone!Content
  <1>3. Alone!NoFile \in Alone!File
    BY <1>1 DEF Alone!NoFile, Alone!File
  <1> QED
    BY <1>1, <1>2, <1>3 DEF Alone!NewFile, Alone!File, Alone!Never

LEMMA AloneInitInv == solo \in Procs /\ Alone!Init => AloneInv
  <1> SUFFICES ASSUME solo \in Procs, Alone!Init PROVE AloneInv
    OBVIOUS
  <1>1. Alone!NoFile \in Alone!File
    BY DEF Alone!NoFile, Alone!File, Alone!NoRows, Alone!Contents
  <1>2. Alone!TypeOK
    BY <1>1, AloneNoTask DEF Alone!Init, Alone!TypeOK, Alone!Replies
  <1>3. Pending(task[solo])
    BY AloneNoTask DEF Alone!Init, Pending
  <1>4. Counted(Alone!Content, {}) /\ \A k \in Keys : winners[k] = {}
    BY DEF Alone!Init, Counted
  <1> QED
    BY <1>2, <1>3, <1>4 DEF AloneInv

\* The coroutine goes on, and nothing else happens.
LEMMA AloneGoes ==
  ASSUME AloneInv, NEW t \in Alone!Task, Pending(t), Alone!Goto(solo, t),
         lock' \in Procs \cup {Nobody},
         UNCHANGED <<solo, file, reply, winners, tally>>
  PROVE  AloneInv'
  <1>1. task' \in [Procs -> Alone!Task] /\ task'[solo] = t
    BY DEF Alone!Goto, AloneInv, Alone!TypeOK
  <1>2. Alone!Content' = Alone!Content /\ Alone!Expired' = Alone!Expired
    BY DEF Alone!Content, Alone!Expired
  <1>3. Alone!TypeOK'
    BY <1>1 DEF AloneInv, Alone!TypeOK
  <1>4. Pending(task[solo])'
    BY <1>1, <1>2 DEF Pending, Counted, Left
  <1>5. Counted(Alone!Content, {})'
    BY <1>2 DEF AloneInv, Counted
  <1> QED
    BY <1>3, <1>4, <1>5 DEF AloneInv

\* What the coroutine read is what was acknowledged.
LEMMA AloneReads ==
  ASSUME AloneInv
  PROVE  /\ \A S \in SUBSET Keys : Counted(Alone!Content, S)
         /\ \A k \in Keys, S \in SUBSET Keys :
               Counted(Alone!Without(Alone!Content, k), S \cup {k})
         /\ \A found : Counted(found, Keys)
         /\ \A k \in Keys : tally[k] \in Nat
         /\ \A k \in Keys : k \notin DOMAIN Alone!Content => tally[k] = 0
         /\ \A k \in DOMAIN Alone!Content : Alone!Content[k].count >= tally[k]
         /\ \A k \in DOMAIN Alone!Content :
               /\ Alone!Content[k].owner \in Procs \cup {Nobody}
               /\ Alone!Content[k].count \in 0..MaxCount
  <1>1. \A S \in SUBSET Keys : Counted(Alone!Content, S)
    BY DEF AloneInv, Counted
  <1>2. \A k \in Keys : tally[k] \in Nat
    BY DEF AloneInv, Alone!TypeOK
  <1>9. \A found : Counted(found, Keys)
    BY DEF Counted
  <1>3. \A k \in Keys, S \in SUBSET Keys :
           Counted(Alone!Without(Alone!Content, k), S \cup {k})
    <2>1. Alone!Content \in Alone!Contents
      BY AloneContent DEF AloneInv
    <2>2. \A k \in Keys :
             /\ DOMAIN Alone!Without(Alone!Content, k) = DOMAIN Alone!Content \ {k}
             /\ \A j \in DOMAIN Alone!Content \ {k} :
                   Alone!Without(Alone!Content, k)[j] = Alone!Content[j]
      BY <2>1, AloneContents
    <2> QED
      BY <2>2 DEF AloneInv, Counted
  <1>4. \A k \in DOMAIN Alone!Content : k \in Keys /\ Alone!Content[k] \in Alone!Row
    BY AloneContent, AloneContents DEF AloneInv
  <1>5. \A k \in Keys : tally[k] > 0 => k \in DOMAIN Alone!Content
                                        /\ Alone!Content[k].count >= tally[k]
    BY DEF AloneInv, Counted
  <1>6. \A k \in DOMAIN Alone!Content : Alone!Content[k].count \in 0..MaxCount
                                        /\ Alone!Content[k].owner \in Procs \cup {Nobody}
    BY <1>4 DEF Alone!Row
  <1>7. \A k \in DOMAIN Alone!Content : Alone!Content[k].count >= tally[k]
    BY <1>2, <1>4, <1>5, <1>6
  <1>8. \A k \in Keys : k \notin DOMAIN Alone!Content => tally[k] = 0
    BY <1>2, <1>5
  <1> QED
    BY <1>1, <1>2, <1>3, <1>6, <1>7, <1>8, <1>9

-----------------------------------------------------------------------------

\* What a read that may fail finds, when all it did not see was missed.
LEMMA AloneSeen ==
  ASSUME AloneInv, NEW fails
  PROVE  /\ Alone!Seen(fails) \in Alone!Contents
         /\ fails => Counted(Alone!Seen(fails), Keys)
         /\ \A S \in SUBSET Keys : ~fails => Counted(Alone!Seen(fails), S)
  <1>1. CASE fails
    BY <1>1, AloneReads, AloneContent DEF Alone!Seen, AloneInv
  <1>2. CASE ~fails
    BY <1>2, AloneReads, AloneContent DEF Alone!Seen, AloneInv
  <1> QED
    BY <1>1, <1>2

\* An update is asked for: its row is the row found, or one increment more; a
\* read that failed finds none.
LEMMA AloneModify ==
  ASSUME AloneInv, UNCHANGED solo,
         NEW kind, NEW k \in Keys, NEW ttl \in Ttls, Alone!Modify(solo, kind, k, ttl)
  PROVE  AloneInv'
  <1>1. PICK fails \in Alone!Failing :
           Alone!Call(solo, kind,
              [Alone!NoTask EXCEPT
                 !.pc = IF Alone!Expired /\ ~fails THEN "purge" ELSE "read",
                 !.key = k, !.ttl = ttl,
                 !.row = Alone!Changed(solo, kind, k, Alone!Seen(fails)),
                 !.missed = IF fails THEN {k} ELSE {}])
    BY DEF Alone!Modify
  <1> DEFINE seen == Alone!Seen(fails)
             row == Alone!Changed(solo, kind, k, seen)
             missed == IF fails THEN {k} ELSE {}
             pc == IF Alone!Expired /\ ~fails THEN "purge" ELSE "read"
             t == [Alone!NoTask EXCEPT !.pc = pc, !.key = k, !.ttl = ttl,
                                       !.row = row, !.missed = missed]
             asked == [t EXCEPT !.kind = kind]
             left == IF k \in missed THEN 0 ELSE tally[k]
  <1>0. /\ solo \in Procs /\ kind \in {"increment", "update"}
        /\ Alone!Goto(solo, asked)
        /\ UNCHANGED <<file, lock, reply, winners, tally>>
        /\ k \in DOMAIN Alone!Content => Alone!Content[k].count < MaxCount
    BY <1>1 DEF Alone!Modify, Alone!Call, Alone!Has, AloneInv
  <1>2. /\ row \in Alone!Row
        /\ kind = "increment" => row.count > left
        /\ kind = "update" => row.count >= left
    <2>1. CASE k \in DOMAIN seen
      <3> DEFINE found == Alone!Content[k]
      <3>0. seen = Alone!Content /\ k \in DOMAIN Alone!Content
        BY <2>1, AloneContent DEF Alone!Seen, AloneInv
      <3>1. /\ found \in Alone!Row /\ found.owner \in Procs \cup {Nobody}
            /\ found.count \in 0..MaxCount /\ found.count >= tally[k]
            /\ tally[k] \in Nat
        BY <3>0, AloneReads, AloneContent, AloneContents DEF AloneInv
      <3>2. row = IF kind = "increment" THEN [found EXCEPT !.count = @ + 1] ELSE found
        BY <3>0 DEF Alone!Changed, Alone!Has
      <3> HIDE DEF found, row, seen, missed
      <3>3. kind = "increment" => /\ found.count < MaxCount
                                  /\ row = [found EXCEPT !.count = @ + 1]
        BY <1>0, <3>0, <3>2 DEF found
      <3> QED
        BY <1>0, <3>1, <3>2, <3>3, RowStoreAssumption DEF Alone!Row
    <2>2. CASE k \notin DOMAIN seen
      <3>1. row = IF kind = "increment"
                  THEN [owner |-> solo, count |-> 1] ELSE [owner |-> solo, count |-> 0]
        BY <2>2 DEF Alone!Changed, Alone!Has, Alone!Fresh
      <3>2. left = 0
        BY <2>2, AloneReads DEF Alone!Seen
      <3> HIDE DEF row, seen, left
      <3> QED
        BY <1>0, <3>1, <3>2, RowStoreAssumption DEF Alone!Row
    <2> QED
      BY <2>1, <2>2
  <1>3. missed \in SUBSET Keys /\ pc \in {"purge", "read"} /\ (pc = "purge" => Alone!Expired)
    OBVIOUS
  <1> HIDE DEF row, missed, pc
  <1>4. /\ asked \in Alone!Task
        /\ asked.pc = pc /\ asked.missed = missed
        /\ asked.kind = kind /\ asked.key = k /\ asked.row = row
    BY <1>0, <1>2, <1>3, AloneNoTask DEF Alone!Task, Alone!AllKinds
  <1> HIDE DEF asked
  <1>5. Pending(asked)
    BY <1>0, <1>2, <1>3, <1>4 DEF Pending, Left
  <1> QED
    BY <1>0, <1>4, <1>5, AloneGoes DEF AloneInv, Alone!TypeOK

\* Other operations are asked for.
LEMMA AloneCalls ==
  ASSUME AloneInv, UNCHANGED solo,
         \/ Alone!Get(solo) \/ Alone!DeleteTable(solo)
         \/ \E k \in Keys : Alone!Delete(solo, k)
         \/ \E k \in Keys, ttl \in Ttls : Alone!Upsert(solo, k, ttl)
         \/ \E ttl \in Ttls : Alone!RenewTtl(solo, ttl)
  PROVE  AloneInv'
  <1>c. ASSUME NEW t \in Alone!Task, NEW kind \in AllKinds, Alone!Call(solo, kind, t),
               Pending([t EXCEPT !.kind = kind])
        PROVE  AloneInv'
    <2> DEFINE asked == [t EXCEPT !.kind = kind]
    <2>1. asked \in Alone!Task
      BY DEF Alone!Task, Alone!AllKinds, AllKinds
    <2>2. Alone!Goto(solo, asked) /\ UNCHANGED <<file, lock, reply, winners, tally>>
      BY <1>c DEF Alone!Call
    <2> HIDE DEF asked
    <2>3. Pending(asked)
      BY <1>c DEF asked
    <2> QED
      BY <2>1, <2>2, <2>3, AloneGoes DEF AloneInv, Alone!TypeOK
  <1>s. /\ solo \in Procs /\ Alone!Fresh(solo) \in Alone!Row
        /\ Alone!Content \in Alone!Contents
        /\ \A k \in Keys : Alone!Without(Alone!Content, k) \in Alone!Contents
    <2>1. solo \in Procs /\ Alone!Fresh(solo) \in Alone!Row
      BY RowStoreAssumption DEF AloneInv, Alone!Fresh, Alone!Row
    <2>2. Alone!Content \in Alone!Contents
      BY AloneContent DEF AloneInv
    <2>3. \A k \in Keys : Alone!Without(Alone!Content, k) \in Alone!Contents
      BY <2>2, AloneContents
    <2> QED
      BY <2>1, <2>2, <2>3
  <1>1. CASE Alone!Get(solo)
    <2> DEFINE t == [Alone!NoTask EXCEPT !.pc = "purge"]
    <2>1. Alone!Expired /\ Alone!Call(solo, "get", t)
      BY <1>1 DEF Alone!Get
    <2>2. t \in Alone!Task /\ [t EXCEPT !.kind = "get"].pc = "purge"
          /\ [t EXCEPT !.kind = "get"].kind = "get"
      BY AloneNoTask DEF Alone!Task
    <2> HIDE DEF t
    <2>3. Pending([t EXCEPT !.kind = "get"])
      BY <2>1, <2>2 DEF Pending
    <2> QED
      BY <2>1, <2>2, <2>3, <1>c DEF AllKinds
  <1>2. CASE Alone!DeleteTable(solo)
    <2> DEFINE todo == Keys \cap DOMAIN Alone!Content
               t == IF Alone!Expired /\ Alone!Call(solo, "delete_table",
                                                   [Alone!NoTask EXCEPT !.pc = "purge"])
                    THEN [Alone!NoTask EXCEPT !.pc = "purge"]
                    ELSE [Alone!NoTask EXCEPT !.pc = "next", !.todo = todo]
    <2>1. Alone!Call(solo, "delete_table", t) /\ (t.pc = "purge" => Alone!Expired)
      BY <1>2, AloneNoTask DEF Alone!DeleteTable, Alone!Task
    <2>2. t \in Alone!Task /\ t.pc \in {"purge", "next"}
      BY AloneNoTask DEF Alone!Task
    <2> HIDE DEF t
    <2>3. /\ [t EXCEPT !.kind = "delete_table"].pc = t.pc
          /\ [t EXCEPT !.kind = "delete_table"].kind = "delete_table"
      BY <2>2 DEF Alone!Task
    <2>4. Pending([t EXCEPT !.kind = "delete_table"])
      BY <2>1, <2>2, <2>3 DEF Pending
    <2> QED
      BY <2>1, <2>2, <2>4, <1>c DEF AllKinds
  <1>3. ASSUME NEW k \in Keys, Alone!Delete(solo, k)
        PROVE  AloneInv'
    <2> DEFINE t == [Alone!NoTask EXCEPT !.pc = "write", !.key = k,
                                         !.snap = Alone!Without(Alone!Content, k)]
    <2>1. Alone!Call(solo, "delete", t)
      BY <1>3 DEF Alone!Delete
    <2>2. /\ t \in Alone!Task
          /\ [t EXCEPT !.kind = "delete"].pc = "write"
          /\ [t EXCEPT !.kind = "delete"].kind = "delete"
          /\ [t EXCEPT !.kind = "delete"].key = k
          /\ [t EXCEPT !.kind = "delete"].snap = Alone!Without(Alone!Content, k)
          /\ [t EXCEPT !.kind = "delete"].missed = {}
      BY <1>s, AloneNoTask DEF Alone!Task
    <2> HIDE DEF t
    <2>3. Pending([t EXCEPT !.kind = "delete"])
      BY <2>2, AloneReads DEF Pending
    <2> QED
      BY <2>1, <2>2, <2>3, <1>c DEF AllKinds
  <1>4. ASSUME NEW k \in Keys, NEW ttl \in Ttls, Alone!Upsert(solo, k, ttl)
        PROVE  AloneInv'
    <2>0. PICK fails \in Alone!Failing :
             Alone!Call(solo, "upsert",
                [Alone!NoTask EXCEPT !.pc = "write", !.key = k, !.ttl = ttl,
                                     !.row = Alone!Fresh(solo), !.snap = Alone!Seen(fails),
                                     !.missed = IF fails THEN Keys ELSE {}])
      BY <1>4 DEF Alone!Upsert
    <2> DEFINE seen == Alone!Seen(fails)
               missed == IF fails THEN Keys ELSE {}
               t == [Alone!NoTask EXCEPT !.pc = "write", !.key = k, !.ttl = ttl,
                                         !.row = Alone!Fresh(solo), !.snap = seen,
                                         !.missed = missed]
    <2>1. Alone!Call(solo, "upsert", t)
      BY <2>0
    <2>s. /\ seen \in Alone!Contents /\ missed \in SUBSET Keys
          /\ Counted(seen, missed \cup {k})
      <3>1. CASE fails
        <4>1. missed = Keys /\ missed \cup {k} = Keys
          BY <3>1
        <4> QED
          BY <3>1, <4>1, AloneSeen
      <3>2. CASE ~fails
        BY <3>2, AloneSeen
      <3> QED
        BY <3>1, <3>2
    <2> HIDE DEF seen, missed
    <2>2. /\ t \in Alone!Task
          /\ [t EXCEPT !.kind = "upsert"].pc = "write"
          /\ [t EXCEPT !.kind = "upsert"].kind = "upsert"
          /\ [t EXCEPT !.kind = "upsert"].key = k
          /\ [t EXCEPT !.kind = "upsert"].snap = seen
          /\ [t EXCEPT !.kind = "upsert"].missed = missed
      BY <1>s, <2>s, AloneNoTask DEF Alone!Task
    <2> HIDE DEF t
    <2>3. Pending([t EXCEPT !.kind = "upsert"])
      BY <2>2, <2>s DEF Pending
    <2> QED
      BY <2>1, <2>2, <2>3, <1>c DEF AllKinds
  <1>5. ASSUME NEW ttl \in Ttls, Alone!RenewTtl(solo, ttl)
        PROVE  AloneInv'
    <2> DEFINE t == [Alone!NoTask EXCEPT !.pc = "write", !.ttl = ttl,
                                         !.snap = Alone!Content]
    <2>1. Alone!Call(solo, "renew", t)
      BY <1>5 DEF Alone!RenewTtl
    <2>2. /\ t \in Alone!Task
          /\ [t EXCEPT !.kind = "renew"].pc = "write"
          /\ [t EXCEPT !.kind = "renew"].kind = "renew"
          /\ [t EXCEPT !.kind = "renew"].snap = Alone!Content
          /\ [t EXCEPT !.kind = "renew"].missed = {}
      BY <1>s, AloneNoTask DEF Alone!Task
    <2> HIDE DEF t
    <2>3. Pending([t EXCEPT !.kind = "renew"])
      BY <2>2, AloneReads DEF Pending
    <2> QED
      BY <2>1, <2>2, <2>3, <1>c DEF AllKinds
  <1> QED
    BY <1>1, <1>2, <1>3, <1>4, <1>5

-----------------------------------------------------------------------------

\* A hold that leaves the coroutine with nothing to write.
LEMMA AloneDone ==
  ASSUME AloneInv, UNCHANGED solo,
         NEW t \in Alone!Task, Alone!Goto(solo, t),
         t.pc = "idle" \/ (t.pc = "next" /\ t.kind = "delete_table"),
         file' \in Alone!File,
         lock' \in Procs \cup {Nobody},
         reply' \in [Procs -> Alone!Replies],
         winners' \in [Keys -> SUBSET Procs],
         \A k \in Keys : winners'[k] \subseteq {solo},
         tally' \in [Keys -> Nat],
         Counted(Alone!Content, {})'
  PROVE  AloneInv'
  <1>1. task' \in [Procs -> Alone!Task] /\ task'[solo] = t
    BY DEF Alone!Goto, AloneInv, Alone!TypeOK
  <1>2. Alone!TypeOK'
    BY <1>1 DEF Alone!TypeOK
  <1>3. Pending(task[solo])'
    BY <1>1 DEF Pending
  <1> QED
    BY <1>2, <1>3 DEF AloneInv

\* What is left to the coroutine when it is done with a row.
LEMMA AloneRest ==
  ASSUME AloneInv
  PROVE  /\ Alone!Rest(solo) \in Alone!Task
         /\ \/ Alone!Rest(solo).pc = "idle"
            \/ Alone!Rest(solo).pc = "next" /\ Alone!Rest(solo).kind = "delete_table"
  <1>1. task[solo].todo \in SUBSET Keys
    BY DEF AloneInv, Alone!TypeOK, Alone!Task
  <1> QED
    BY <1>1, AloneNoTask DEF Alone!Rest, Alone!Task, Alone!AllKinds

\* What a write leaves in the file.
LEMMA AloneOutgoing ==
  ASSUME AloneInv, task[solo].pc \in {"write", "decide"}, file' = Alone!Outgoing(solo)
  PROVE  LET t == task[solo]
             deleting == t.pc = "write" /\ Alone!Deleting(solo)
             renewing == t.pc = "write" /\ t.kind = "renew"
         IN  /\ file' \in Alone!File
             /\ \A j \in DOMAIN t.snap \ {t.key} : j \in DOMAIN Alone!Content'
                                                   /\ Alone!Content'[j] = t.snap[j]
             /\ renewing => Alone!Content' = t.snap
             /\ ~renewing /\ ~deleting => t.key \in DOMAIN Alone!Content'
                                          /\ Alone!Content'[t.key] = t.row
  <1> DEFINE t == task[solo]
             deleting == t.pc = "write" /\ Alone!Deleting(solo)
             renewing == t.pc = "write" /\ t.kind = "renew"
             found == Alone!Content'
  <1>1. /\ t.snap \in Alone!Contents /\ t.key \in Keys
        /\ t.row \in Alone!Row /\ t.ttl \in Nat
    BY RowStoreAssumption DEF AloneInv, Alone!TypeOK, Alone!Task
  <1>2. ASSUME NEW after \in Alone!Contents, NEW ttl \in Nat,
               file' = Alone!NewFile(after, ttl)
        PROVE  file' \in Alone!File /\ found = after
    BY <1>2, AloneContent DEF AloneInv, Alone!Content
  <1>3. CASE deleting
    <2>1. ~renewing
      BY <1>3 DEF Alone!Deleting
    <2>2. CASE DOMAIN t.snap = {}
      <3>1. file' = Alone!NoFile
        BY <1>3, <2>2 DEF Alone!Outgoing, Alone!Deleting
      <3> QED
        BY <1>3, <2>1, <2>2, <3>1, AloneContent DEF AloneInv
    <2>3. CASE DOMAIN t.snap # {}
      <3>1. file' = Alone!NewFile(t.snap, 0)
        BY <1>3, <2>3 DEF Alone!Outgoing, Alone!Deleting
      <3>2. file' \in Alone!File /\ found = t.snap
        BY <1>1, <1>2, <3>1
      <3> QED
        BY <1>3, <2>1, <3>2
    <2> QED
      BY <2>2, <2>3
  <1>4. CASE renewing
    <2>1. file' = Alone!NewFile(t.snap, t.ttl)
      BY <1>4 DEF Alone!Outgoing, Alone!Deleting
    <2>2. file' \in Alone!File /\ found = t.snap
      BY <1>1, <1>2, <2>1
    <2> QED
      BY <1>4, <2>2
  <1>5. CASE ~deleting /\ ~renewing
    <2> DEFINE after == Alone!With(t.snap, t.key, t.row)
    <2>1. file' = Alone!NewFile(after, t.ttl)
      BY <1>5 DEF Alone!Outgoing
    <2>2. /\ after \in Alone!Contents
          /\ DOMAIN after = DOMAIN t.snap \cup {t.key}
          /\ after[t.key] = t.row
          /\ \A j \in DOMAIN t.snap \ {t.key} : after[j] = t.snap[j]
      <3>1. after \in Alone!Contents
        BY <1>1, AloneWith
      <3> QED
        BY <3>1 DEF Alone!With
    <2> HIDE DEF after
    <2>3. file' \in Alone!File /\ found = after
      BY <1>1, <1>2, <2>1, <2>2
    <2> QED
      BY <1>5, <2>2, <2>3
  <1> QED
    BY <1>3, <1>4, <1>5

LEMMA AloneWrite ==
  ASSUME AloneInv, UNCHANGED solo, Alone!Write(solo)
  PROVE  AloneInv'
  <1> DEFINE t == task[solo]
             k == t.key
             deleting == t.pc = "write" /\ Alone!Deleting(solo)
             renewing == t.pc = "write" /\ t.kind = "renew"
             found == Alone!Content'
  <1>1. /\ t.pc = "write" /\ file' = Alone!Outgoing(solo)
        /\ Alone!Goto(solo, Alone!Rest(solo))
        /\ UNCHANGED <<lock, reply>>
    BY DEF Alone!Write, Alone!At
  <1>2. /\ file' \in Alone!File
        /\ \A j \in DOMAIN t.snap \ {k} : j \in DOMAIN found /\ found[j] = t.snap[j]
        /\ renewing => found = t.snap
        /\ ~renewing /\ ~deleting => k \in DOMAIN found /\ found[k] = t.row
    BY <1>1, AloneOutgoing
  <1>3. k \in Keys /\ t.row.count \in Nat /\ \A j \in Keys : tally[j] \in Nat
    BY RowStoreAssumption DEF AloneInv, Alone!TypeOK, Alone!Task, Alone!Row
  <1>4. /\ winners' \in [Keys -> SUBSET Procs]
        /\ \A j \in Keys : winners'[j] \subseteq {solo}
    <2>1. winners' = IF Alone!Deleting(solo) THEN [winners EXCEPT ![k] = {}] ELSE winners
      BY DEF Alone!Write
    <2> QED
      BY <1>3, <2>1 DEF AloneInv, Alone!TypeOK
  <1>5. /\ tally' \in [Keys -> Nat]
        /\ \A j \in Keys \ {k} : tally'[j] = Left(t, j)
        /\ t.kind \in {"update", "renew"} => tally'[k] = Left(t, k)
        /\ t.kind = "increment" => tally'[k] = Left(t, k) + 1
        /\ t.kind \notin {"update", "renew", "increment"} => tally'[k] = 0
    <2> DEFINE kept == Alone!Kept(solo)
    <2>0. kept \in [Keys -> Nat] /\ \A j \in Keys : kept[j] = Left(t, j)
      BY <1>3 DEF Alone!Kept, Left
    <2>1. tally' = CASE t.kind \in {"update", "renew"} -> kept
                     [] t.kind = "increment" -> [kept EXCEPT ![k] = @ + 1]
                     [] OTHER -> [kept EXCEPT ![k] = 0]
      BY DEF Alone!Write
    <2> HIDE DEF kept
    <2>2. CASE t.kind \in {"update", "renew"}
      <3>1. tally' = kept
        BY <2>1, <2>2
      <3> QED
        BY <2>0, <2>2, <1>3, <3>1
    <2>3. CASE t.kind = "increment"
      <3>1. tally' = [kept EXCEPT ![k] = @ + 1]
        BY <2>1, <2>3
      <3> QED
        BY <1>3, <2>0, <2>3, <3>1
    <2>4. CASE t.kind \notin {"update", "renew", "increment"}
      <3>1. tally' = [kept EXCEPT ![k] = 0]
        BY <2>1, <2>4
      <3> QED
        BY <1>3, <2>0, <2>4, <3>1
    <2> QED
      BY <2>2, <2>3, <2>4
  <1>6. /\ Counted(t.snap, t.missed \cup (IF t.kind = "renew" THEN {} ELSE {k}))
        /\ t.kind = "increment" => t.row.count > Left(t, k)
        /\ t.kind = "update" => t.row.count >= Left(t, k)
        /\ \A j \in Keys : Left(t, j) \in Nat /\ (Left(t, j) > 0 =>
              j \notin t.missed /\ Left(t, j) = tally[j])
    BY <1>1, <1>3 DEF AloneInv, Pending, Left
  <1>7. Counted(Alone!Content, {})'
    <2> SUFFICES ASSUME NEW j \in Keys, tally'[j] > 0
                 PROVE  j \in DOMAIN found /\ found[j].count >= tally'[j]
      BY DEF Counted
    <2>1. CASE j # k
      <3>1. tally'[j] = tally[j] /\ j \notin t.missed
        BY <1>5, <1>6, <2>1
      <3>2. j \in DOMAIN t.snap /\ t.snap[j].count >= tally[j]
        BY <1>6, <2>1, <3>1 DEF Counted
      <3> QED
        BY <1>2, <2>1, <3>1, <3>2
    <2>2. CASE j = k /\ t.kind = "renew"
      <3>1. tally'[j] = tally[j] /\ j \notin t.missed
        BY <1>5, <1>6, <2>2
      <3> QED
        BY <1>1, <1>2, <1>6, <2>2, <3>1 DEF Counted
    <2>3. CASE j = k /\ t.kind \in {"update", "increment"}
      <3>1. found[k] = t.row /\ k \in DOMAIN found
        BY <1>1, <1>2, <2>3 DEF Alone!Deleting
      <3> QED
        BY <1>3, <1>5, <1>6, <2>3, <3>1
    <2>4. CASE j = k /\ t.kind \notin {"update", "renew", "increment"}
      BY <1>5, <2>4
    <2> QED
      BY <2>1, <2>2, <2>3, <2>4
  <1>8. reply' \in [Procs -> Alone!Replies] /\ lock' \in Procs \cup {Nobody}
    BY <1>1 DEF AloneInv, Alone!TypeOK
  <1> HIDE DEF found
  <1> QED
    BY <1>1, <1>2, <1>4, <1>5, <1>7, <1>8, AloneRest, AloneDone

\* The other holds of an operation.
LEMMA AloneHolds ==
  ASSUME AloneInv, UNCHANGED solo,
         \/ Alone!ReadForSet(solo) \/ Alone!DeleteNext(solo)
         \/ Alone!Purge(solo) \/ Alone!WriteFails(solo)
  PROVE  AloneInv'
  <1> DEFINE t == task[solo]
  <1>t. /\ t \in Alone!Task /\ Pending(t)
        /\ Alone!Content \in Alone!Contents
        /\ file \in Alone!File /\ lock \in Procs \cup {Nobody}
        /\ reply \in [Procs -> Alone!Replies]
        /\ winners \in [Keys -> SUBSET Procs] /\ tally \in [Keys -> Nat]
    BY AloneContent DEF AloneInv, Alone!TypeOK
  <1>1. CASE Alone!ReadForSet(solo)
    <2>0. PICK fails \in Alone!Failing :
             Alone!Goto(solo, [t EXCEPT !.pc = "write", !.snap = Alone!Seen(fails),
                                        !.missed = IF fails THEN @ \cup (Keys \ {t.key})
                                                   ELSE @])
      BY <1>1 DEF Alone!ReadForSet
    <2> DEFINE seen == Alone!Seen(fails)
               missed == IF fails THEN t.missed \cup (Keys \ {t.key}) ELSE t.missed
               next == [t EXCEPT !.pc = "write", !.snap = seen, !.missed = missed]
    <2>1. /\ t.pc = "read" /\ t.kind # "renew" /\ Alone!Goto(solo, next)
          /\ UNCHANGED <<file, lock, reply, winners, tally>>
      BY <1>1, <1>t, <2>0 DEF Alone!ReadForSet, Alone!At, Pending, Alone!Task
    <2>s. /\ seen \in Alone!Contents /\ missed \in SUBSET Keys
          /\ t.key \in missed <=> t.key \in t.missed
          /\ Counted(seen, missed \cup {t.key})
      <3>1. t.missed \in SUBSET Keys /\ t.key \in Keys
        BY <1>t DEF Alone!Task
      <3>2. CASE fails
        <4>1. missed \cup {t.key} = Keys
          BY <3>1, <3>2
        <4> QED
          BY <3>1, <3>2, <4>1, AloneSeen
      <3>3. CASE ~fails
        BY <1>t, <3>1, <3>3, AloneReads DEF Alone!Seen
      <3> QED
        BY <3>2, <3>3
    <2> HIDE DEF seen, missed
    <2>2. /\ next \in Alone!Task /\ next.pc = "write" /\ next.kind = t.kind
          /\ next.key = t.key /\ next.row = t.row /\ next.snap = seen
          /\ next.missed = missed
      BY <1>t, <2>s DEF Alone!Task
    <2> HIDE DEF next
    <2>3. Pending(next)
      BY <1>t, <2>1, <2>2, <2>s DEF Pending, Left
    <2> QED
      BY <1>t, <2>1, <2>2, <2>3, AloneGoes
  <1>2. CASE Alone!DeleteNext(solo)
    <2>1. PICK k \in t.todo, fails \in Alone!Failing :
             LET todo == t.todo \ {k}
             IN  Alone!Goto(solo, IF Alone!Has(Alone!Seen(fails), k)
                      THEN [t EXCEPT !.pc = "write", !.key = k, !.todo = todo,
                                     !.snap = Alone!Without(Alone!Content, k)]
                      ELSE IF todo = {} THEN Alone!NoTask
                      ELSE [t EXCEPT !.todo = todo])
      BY <1>2 DEF Alone!DeleteNext
    <2> DEFINE todo == t.todo \ {k}
               deleted == [t EXCEPT !.pc = "write", !.key = k, !.todo = todo,
                                    !.snap = Alone!Without(Alone!Content, k)]
               skipped == [t EXCEPT !.todo = todo]
    <2>2. /\ t.pc = "next" /\ t.kind = "delete_table" /\ k \in Keys
          /\ UNCHANGED <<file, lock, reply, winners, tally>>
      BY <1>2, <1>t DEF Alone!DeleteNext, Alone!At, Alone!Task, Pending
    <2>3. Alone!Goto(solo, deleted) \/ Alone!Goto(solo, Alone!NoTask)
          \/ Alone!Goto(solo, skipped)
      BY <2>1
    <2>4. /\ deleted \in Alone!Task /\ deleted.pc = "write" /\ deleted.key = k
          /\ deleted.kind = "delete_table"
          /\ deleted.snap = Alone!Without(Alone!Content, k)
          /\ deleted.missed = t.missed /\ t.missed \in SUBSET Keys
      BY <1>t, <2>2, AloneContents DEF Alone!Task
    <2>5. skipped \in Alone!Task /\ skipped.pc = "next" /\ skipped.kind = "delete_table"
      BY <1>t, <2>2 DEF Alone!Task
    <2> HIDE DEF deleted, skipped
    <2>6. Pending(deleted) /\ Pending(skipped) /\ Pending(Alone!NoTask)
      BY <2>2, <2>4, <2>5, AloneReads, AloneNoTask DEF Pending
    <2> QED
      BY <1>t, <2>2, <2>3, <2>4, <2>5, <2>6, AloneNoTask, AloneGoes
  <1>3. CASE Alone!Purge(solo)
    <2> DEFINE next == [t EXCEPT !.pc = "read"]
    <2>1. /\ t.pc = "purge"
          /\ file' = Alone!NoFile \/ UNCHANGED file
          /\ \/ t.kind \in {"increment", "update"} /\ Alone!Goto(solo, next)
             \/ Alone!Goto(solo, Alone!NoTask)
          /\ UNCHANGED <<lock, reply, winners, tally>>
      BY <1>3 DEF Alone!Purge, Alone!At, Alone!Outgoing
    <2>2. DOMAIN Alone!Content = {} /\ DOMAIN Alone!Content' = {}
      BY <1>t, <2>1, AloneContent
      DEF AloneInv, Pending, Alone!Expired, Alone!Content, Alone!NoFile
    <2>3. /\ next \in Alone!Task /\ next.pc = "read" /\ next.kind = t.kind
          /\ next.key = t.key /\ next.row = t.row /\ next.missed = t.missed
      BY <1>t DEF Alone!Task
    <2> HIDE DEF next
    <2>4. PICK s \in Alone!Task :
             /\ Alone!Goto(solo, s)
             /\ (s = next /\ t.kind \in {"increment", "update"}) \/ s = Alone!NoTask
      BY <2>1, <2>3, AloneNoTask
    <2>5. task' \in [Procs -> Alone!Task] /\ task'[solo] = s
      BY <2>4 DEF Alone!Goto, AloneInv, Alone!TypeOK
    <2>6. Alone!TypeOK'
      BY <1>t, <2>1, <2>5, AloneContent DEF AloneInv, Alone!TypeOK
    <2>7. Pending(task[solo])'
      BY <1>t, <2>1, <2>3, <2>4, <2>5, AloneNoTask DEF Pending, Left
    <2>8. Counted(Alone!Content, {})'
      BY <2>1, <2>2 DEF AloneInv, Counted
    <2> QED
      BY <2>1, <2>6, <2>7, <2>8 DEF AloneInv
  <1>4. CASE Alone!WriteFails(solo)
    <2>1. /\ Alone!Goto(solo, Alone!Rest(solo))
          /\ UNCHANGED <<file, lock, reply, winners, tally>>
      BY <1>4 DEF Alone!WriteFails
    <2>2. Pending(Alone!Rest(solo))
      BY AloneRest DEF Pending
    <2> QED
      BY <1>t, <2>1, <2>2, AloneRest, AloneGoes
  <1> QED
    BY <1>1, <1>2, <1>3, <1>4

\* The two steps of a transition, whose write may fail unnoticed.
LEMMA AloneTransition ==
  ASSUME AloneInv, UNCHANGED solo,
         \/ \E kind \in AllKinds, k \in Keys, ttl \in Ttls :
               Alone!Transition(solo, kind, k, ttl)
         \/ Alone!Refuse(solo) \/ Alone!Create(solo) \/ Alone!Replace(solo)
  PROVE  AloneInv'
  <1> DEFINE t == task[solo]
             k == t.key
             found == Alone!Content'
  <1>t. /\ solo \in Procs /\ t \in Alone!Task /\ Pending(t) /\ k \in Keys
        /\ Alone!Content \in Alone!Contents
        /\ file \in Alone!File
        /\ reply \in [Procs -> Alone!Replies]
        /\ winners \in [Keys -> SUBSET Procs] /\ tally \in [Keys -> Nat]
    BY AloneContent DEF AloneInv, Alone!TypeOK, Alone!Task
  <1>1. ASSUME NEW kind \in AllKinds, NEW key \in Keys, NEW ttl \in Ttls,
               Alone!Transition(solo, kind, key, ttl)
        PROVE  AloneInv'
    <2>0. PICK fails \in Alone!Failing :
             Alone!Goto(solo, [Alone!NoTask EXCEPT !.pc = "decide", !.kind = kind,
                                  !.key = key, !.ttl = ttl, !.row = Alone!Fresh(solo),
                                  !.snap = Alone!Seen(fails),
                                  !.missed = IF fails THEN Keys ELSE {}])
      BY <1>1 DEF Alone!Transition
    <2> DEFINE seen == Alone!Seen(fails)
               missed == IF fails THEN Keys ELSE {}
               next == [Alone!NoTask EXCEPT !.pc = "decide", !.kind = kind, !.key = key,
                                            !.ttl = ttl, !.row = Alone!Fresh(solo),
                                            !.snap = seen, !.missed = missed]
    <2>1. /\ kind \in {"create", "replace"} /\ lock' = solo /\ Alone!Goto(solo, next)
          /\ UNCHANGED <<file, reply, winners, tally>>
      BY <1>1, <2>0 DEF Alone!Transition
    <2>2. Alone!Fresh(solo) \in Alone!Row
      BY <1>t, RowStoreAssumption DEF Alone!Fresh, Alone!Row
    <2>s. /\ seen \in Alone!Contents /\ missed \in SUBSET Keys
          /\ Counted(seen, missed \cup {key})
      <3>1. CASE fails
        <4>1. missed = Keys /\ missed \cup {key} = Keys
          BY <3>1
        <4> QED
          BY <3>1, <4>1, AloneSeen
      <3>2. CASE ~fails
        BY <3>2, AloneSeen
      <3> QED
        BY <3>1, <3>2
    <2> HIDE DEF seen, missed
    <2>3. /\ next \in Alone!Task /\ next.pc = "decide" /\ next.kind = kind
          /\ next.key = key /\ next.snap = seen /\ next.missed = missed
      BY <1>t, <2>1, <2>2, <2>s, AloneNoTask DEF Alone!Task, Alone!AllKinds
    <2> HIDE DEF next
    <2>4. Pending(next)
      BY <2>1, <2>3, <2>s DEF Pending
    <2> QED
      BY <1>t, <2>1, <2>3, <2>4, AloneGoes
  <1>2. ASSUME NEW kind, NEW r \in Alone!Replies, Alone!Decide(solo, kind, r)
        PROVE  /\ t.pc = "decide" /\ t.kind = kind
               /\ Alone!Goto(solo, Alone!NoTask) /\ lock' \in Procs \cup {Nobody}
               /\ reply' \in [Procs -> Alone!Replies]
    BY <1>t, <1>2 DEF Alone!Decide, Alone!Replies
  <1>3. CASE Alone!Refuse(solo)
    <2>1. PICK kind \in {"create", "replace"}, r \in Alone!Replies :
             Alone!Decide(solo, kind, r)
      BY <1>3 DEF Alone!Refuse, Alone!Replies
    <2>2. UNCHANGED <<file, winners, tally>>
      BY <1>3 DEF Alone!Refuse
    <2>3. Counted(Alone!Content, {})'
      BY <2>2 DEF AloneInv, Counted, Alone!Content
    <2> QED
      BY <1>t, <1>2, <2>1, <2>2, <2>3, AloneNoTask, AloneDone DEF AloneInv
  <1>4. CASE Alone!Create(solo) \/ Alone!Replace(solo)
    <2>1. PICK kind \in {"create", "replace"}, r \in Alone!Replies :
             Alone!Decide(solo, kind, r)
      BY <1>4 DEF Alone!Create, Alone!Replace, Alone!Replies
    <2>2. t.pc = "decide" /\ t.kind \in {"create", "replace"}
      BY <1>2, <2>1
    <2>3. \/ file' = Alone!Outgoing(solo) /\ tally' = [Alone!Kept(solo) EXCEPT ![k] = 0]
          \/ UNCHANGED file /\ tally' = [tally EXCEPT ![k] = 0]
      BY <1>4 DEF Alone!Create, Alone!Replace, Alone!Store
    <2>5. Counted(t.snap, t.missed \cup {k})
      BY <1>t, <2>2 DEF Pending
    <2>6. /\ file' \in Alone!File /\ Counted(Alone!Content, {})'
          /\ tally' \in [Keys -> Nat]
      <3>1. CASE file' = Alone!Outgoing(solo) /\ tally' = [Alone!Kept(solo) EXCEPT ![k] = 0]
        <4>1. /\ file' \in Alone!File
              /\ \A j \in DOMAIN t.snap \ {k} : j \in DOMAIN found /\ found[j] = t.snap[j]
          BY <2>2, <3>1, AloneOutgoing
        <4>2. /\ tally' \in [Keys -> Nat] /\ tally'[k] = 0
              /\ \A j \in Keys \ {k} : tally'[j] = Left(t, j)
          BY <1>t, <3>1 DEF Alone!Kept, Left
        <4>3. \A j \in Keys : tally'[j] > 0 => j # k /\ j \notin t.missed /\ tally'[j] = tally[j]
          BY <4>2 DEF Left
        <4>4. Counted(Alone!Content, {})'
          BY <2>5, <4>1, <4>3 DEF Counted
        <4> QED
          BY <4>1, <4>2, <4>4
      <3>2. CASE UNCHANGED file /\ tally' = [tally EXCEPT ![k] = 0]
        <4>1. found = Alone!Content
          BY <3>2 DEF Alone!Content
        <4>2. /\ tally' \in [Keys -> Nat] /\ tally'[k] = 0
              /\ \A j \in Keys \ {k} : tally'[j] = tally[j]
          BY <1>t, <3>2
        <4> QED
          BY <1>t, <3>2, <4>1, <4>2 DEF AloneInv, Counted
      <3> QED
        BY <2>3, <3>1, <3>2
    <2>7. /\ winners' \in [Keys -> SUBSET Procs]
          /\ \A j \in Keys : winners'[j] \subseteq {solo}
      BY <1>t, <1>4 DEF Alone!Create, Alone!Replace, AloneInv
    <2> HIDE DEF found
    <2> QED
      BY <1>t, <1>2, <2>1, <2>6, <2>7, AloneNoTask, AloneDone
  <1> QED
    BY <1>1, <1>3, <1>4

\* The clock: when the file expires, nothing acknowledged is left.
LEMMA AloneTick ==
  ASSUME AloneInv, UNCHANGED solo, Alone!Tick
  PROVE  AloneInv'
  <1> DEFINE t == task[solo]
  <1>1. /\ UNCHANGED <<lock, task, reply>>
        /\ file.there /\ file.left \in Nat /\ file.left > 0
        /\ file' = [file EXCEPT !.left = @ - 1]
    BY DEF Alone!Tick, AloneInv, Alone!TypeOK, Alone!File, Alone!Never
  <1>2. file' \in Alone!File
    BY <1>1 DEF AloneInv, Alone!TypeOK, Alone!File
  <1>3. /\ \/ tally' = tally /\ winners' = winners /\ Alone!Content' = Alone!Content
           \/ tally' = [k \in Keys |-> 0] /\ winners' = [k \in Keys |-> {}]
    <2>1. CASE file.left = 1
      BY <2>1 DEF Alone!Tick
    <2>2. CASE file.left # 1
      <3>1. Alone!Content' = Alone!Content
        BY <1>1, <2>2 DEF Alone!Content, AloneInv, Alone!TypeOK, Alone!File
      <3> QED
        BY <2>2, <3>1 DEF Alone!Tick
    <2> QED
      BY <2>1, <2>2
  <1>4. /\ tally' \in [Keys -> Nat] /\ winners' \in [Keys -> SUBSET Procs]
        /\ \A k \in Keys : tally'[k] <= tally[k] /\ tally[k] \in Nat /\ tally'[k] \in Nat
        /\ \A k \in Keys : winners'[k] \subseteq {solo}
    BY <1>3 DEF AloneInv, Alone!TypeOK
  <1>5. Alone!TypeOK'
    BY <1>1, <1>2, <1>4 DEF AloneInv, Alone!TypeOK
  <1>6. Counted(Alone!Content, {})'
    BY <1>3 DEF AloneInv, Counted
  <1>7. t.pc # "purge" /\ t.key \in Keys /\ t.row.count \in Nat
        /\ \A k \in DOMAIN t.snap : t.snap[k].count \in Nat
    <2>1. t \in Alone!Task /\ Pending(t)
      BY DEF AloneInv, Alone!TypeOK
    <2>2. t.snap \in Alone!Contents /\ t.key \in Keys /\ t.row \in Alone!Row
      BY <2>1 DEF Alone!Task
    <2>3. \A k \in DOMAIN t.snap : t.snap[k] \in Alone!Row
      BY <2>2, AloneContents
    <2> QED
      BY <1>1, <2>1, <2>2, <2>3, RowStoreAssumption DEF Pending, Alone!Expired, Alone!Row
  <1>8. \A S : Counted(t.snap, S) => Counted(t.snap, S)'
    BY <1>1, <1>4, <1>7 DEF Counted
  <1>9. Pending(task[solo])'
    BY <1>1, <1>4, <1>7, <1>8 DEF AloneInv, Pending, Left
  <1> QED
    BY <1>4, <1>5, <1>6, <1>9 DEF AloneInv

LEMMA AloneStepInv ==
  ASSUME AloneInv, UNCHANGED solo,
         Alone!Tick \/ Alone!Step(solo) \/ UNCHANGED Alone!vars
  PROVE  AloneInv'
  <1>1. CASE Alone!Step(solo)
    BY <1>1, AloneModify, AloneCalls, AloneWrite, AloneHolds, AloneTransition
    DEF Alone!Step
  <1>2. CASE UNCHANGED Alone!vars
    BY <1>2 DEF Alone!vars, AloneInv, Alone!TypeOK, Pending, Left, Counted,
                Alone!Content, Alone!Expired
  <1> QED
    BY <1>1, <1>2, AloneTick

\* What the invariant says of the file.
LEMMA AloneShows ==
  ASSUME AloneInv
  PROVE  Alone!TypeOK /\ ExclusiveClaim /\ Alone!NoLostIncrement
  <1>1. ExclusiveClaim
    <2>1. \A k \in Keys : winners[k] = {} \/ winners[k] = {solo}
      BY DEF AloneInv
    <2> QED
      BY <2>1, OneWinnerEach DEF AloneInv
  <1>2. Alone!NoLostIncrement
    BY DEF AloneInv, Counted, Alone!NoLostIncrement, Alone!Has
  <1> QED
    BY <1>1, <1>2 DEF AloneInv

-----------------------------------------------------------------------------
(* The table cache, whichever its backend.                                 *)

\* The invariant of the backend chosen.
IInv ==
    /\ backend \in {"json", "json_alone", "memory", "redis"}
    /\ IF backend = "json_alone" THEN solo \in Procs ELSE solo = Nobody
    /\ backend = "json" => JsonInv
    /\ backend = "json_alone" => AloneInv
    /\ backend = "memory" => MemoryInv
    /\ backend = "redis" => RedisInv

LEMMA InitInv == Init => IInv
  BY JsonInitInv, AloneInitInv, MemoryInitInv, RedisInitInv DEF Init, IInv

\* A step of the cache is a step of its backend.
LEMMA StepInv == IInv /\ [Next]_vars => IInv'
  <1> SUFFICES ASSUME IInv, [Next]_vars PROVE IInv'
    OBVIOUS
  <1>1. UNCHANGED <<backend, solo>>
    BY DEF Next, vars
  <1>2. CASE backend = "json"
    <2>1. Json!Next \/ UNCHANGED Json!vars
      BY <1>2 DEF Next, vars, Json!vars
    <2> QED
      BY <1>1, <1>2, <2>1, JsonStepInv DEF IInv
  <1>3. CASE backend = "json_alone"
    <2>1. Alone!Tick \/ Alone!Step(solo) \/ UNCHANGED Alone!vars
      BY <1>3 DEF Next, vars, Alone!vars
    <2> QED
      BY <1>1, <1>3, <2>1, AloneStepInv DEF IInv
  <1>4. CASE backend = "memory"
    <2>1. Memory!Next \/ UNCHANGED Memory!vars
      BY <1>4 DEF Next, vars, Memory!vars
    <2> QED
      BY <1>1, <1>4, <2>1, MemoryStepInv DEF IInv
  <1>5. CASE backend = "redis"
    <2>1. Redis!Next \/ UNCHANGED Redis!vars
      BY <1>5 DEF Next, vars, Redis!vars
    <2> QED
      BY <1>1, <1>5, <2>1, RedisStepInv DEF IInv
  <1> QED
    BY <1>2, <1>3, <1>4, <1>5 DEF IInv

LEMMA Inductive == Spec => []IInv
  BY InitInv, StepInv, PTL DEF Spec

\* The invariant of every backend says what is promised of the cache.
LEMMA InvShows ==
  ASSUME IInv
  PROVE  TypeOK /\ ExclusiveClaim /\ ClaimPersists /\ NoLostIncrement
  <1>1. TypeOK /\ ClaimPersists /\ NoLostIncrement
    BY JsonShows, AloneShows, MemoryShows, RedisShows
    DEF IInv, TypeOK, ClaimPersists, NoLostIncrement
  <1>2. ExclusiveClaim
    BY JsonShows, AloneShows, MemoryShows, RedisShows DEF IInv
  <1> QED
    BY <1>1, <1>2

\* Whichever the backend, file, dictionary, hashes and coroutines are of their
\* types.
THEOREM TypeCorrect == Spec => []TypeOK
  <1>1. IInv => TypeOK
    BY InvShows
  <1> QED
    BY <1>1, Inductive, PTL

\* "Concurrent callers racing for the same pkid produce exactly one CREATED":
\* for any number of callers, in every backend, at most one was told it
\* created a row since the row was last absent.
THEOREM OneWinner == Spec => []ExclusiveClaim
  <1>1. IInv => ExclusiveClaim
    BY InvShows
  <1> QED
    BY <1>1, Inductive, PTL

\* The row of a winner is there until it is deleted or expires.
THEOREM WinnerKeepsRow == Spec => []ClaimPersists
  <1>1. IInv => ClaimPersists
    BY InvShows
  <1> QED
    BY <1>1, Inductive, PTL

\* No acknowledged increment is lost: whoever else changes the row in the
\* dictionary or the hash, and for a coroutine alone with the JSON file.
THEOREM IncrementsKept == Spec => []NoLostIncrement
  <1>1. IInv => NoLostIncrement
    BY InvShows
  <1> QED
    BY <1>1, Inductive, PTL

-----------------------------------------------------------------------------
(* The contract: the holders and answers of the backend are those of the   *)
(* cache, so its steps are.                                                *)

LEMMA JsonContract ==
  ASSUME backend = "json", UNCHANGED backend,
         Json!RowSteps!ContractNext \/ UNCHANGED Json!RowSteps!contractVars
  PROVE  RowSteps!ContractNext \/ UNCHANGED RowSteps!contractVars
  <1>1. /\ [k \in Keys |-> Holder(k)] = [k \in Keys |-> Json!Holder(k)]
        /\ [k \in Keys |-> Holder(k)]' = [k \in Keys |-> Json!Holder(k)]'
        /\ Renewable = {} /\ Renewable' = {}
        /\ Answered = reply /\ Answered' = reply'
    BY DEF Holder, Renewable, Answered
  <1>2. ASSUME NEW p \in Procs, NEW k \in Keys,
               \/ Json!RowSteps!Create(p, k) \/ Json!RowSteps!Replace(p, k)
               \/ Json!RowSteps!Put(p, k)
        PROVE  RowSteps!Create(p, k) \/ RowSteps!Replace(p, k) \/ RowSteps!Put(p, k)
    BY <1>1, <1>2
    DEF Json!RowSteps!Create, Json!RowSteps!Replace, Json!RowSteps!Put,
        Json!RowSteps!Answer, Json!RowSteps!Absent, Json!RowSteps!Becomes,
        RowSteps!Create, RowSteps!Replace, RowSteps!Put, RowSteps!Answer,
        RowSteps!Absent, RowSteps!Becomes, RowSteps!NoAnswer,
        Json!RowSteps!NoAnswer
  <1>3. ASSUME NEW some \in SUBSET Keys,
               Json!RowSteps!Vanish(some) \/ Json!RowSteps!Lapse(some)
        PROVE  RowSteps!Vanish(some) \/ RowSteps!Lapse(some)
    BY <1>1, <1>3
    DEF Json!RowSteps!Vanish, RowSteps!Vanish, Json!RowSteps!Lapse, RowSteps!Lapse
  <1>5. ASSUME NEW k \in Keys, Json!RowSteps!Renew(k)
        PROVE  RowSteps!Renew(k)
    BY <1>1, <1>5 DEF Json!RowSteps!Renew, RowSteps!Renew
  <1>4. CASE UNCHANGED Json!RowSteps!contractVars
    BY <1>1, <1>4 DEF Json!RowSteps!contractVars, RowSteps!contractVars
  <1> QED
    BY <1>2, <1>3, <1>4, <1>5 DEF Json!RowSteps!ContractNext, RowSteps!ContractNext

LEMMA MemoryContract ==
  ASSUME backend = "memory", UNCHANGED backend,
         Memory!RowSteps!ContractNext \/ UNCHANGED Memory!RowSteps!contractVars
  PROVE  RowSteps!ContractNext \/ UNCHANGED RowSteps!contractVars
  <1>1. /\ [k \in Keys |-> Holder(k)] = [k \in Keys |-> Memory!Writer(k)]
        /\ [k \in Keys |-> Holder(k)]' = [k \in Keys |-> Memory!Writer(k)]'
        /\ Renewable = {k \in Keys : Memory!Lapsed(k)} /\ Renewable' = {k \in Keys : Memory!Lapsed(k)}'
        /\ Answered = reply /\ Answered' = reply'
    BY DEF Holder, Renewable, Answered
  <1>2. ASSUME NEW p \in Procs, NEW k \in Keys,
               \/ Memory!RowSteps!Create(p, k) \/ Memory!RowSteps!Replace(p, k)
               \/ Memory!RowSteps!Put(p, k)
        PROVE  RowSteps!Create(p, k) \/ RowSteps!Replace(p, k) \/ RowSteps!Put(p, k)
    BY <1>1, <1>2
    DEF Memory!RowSteps!Create, Memory!RowSteps!Replace, Memory!RowSteps!Put,
        Memory!RowSteps!Answer, Memory!RowSteps!Absent, Memory!RowSteps!Becomes,
        RowSteps!Create, RowSteps!Replace, RowSteps!Put, RowSteps!Answer,
        RowSteps!Absent, RowSteps!Becomes, RowSteps!NoAnswer,
        Memory!RowSteps!NoAnswer
  <1>3. ASSUME NEW some \in SUBSET Keys,
               Memory!RowSteps!Vanish(some) \/ Memory!RowSteps!Lapse(some)
        PROVE  RowSteps!Vanish(some) \/ RowSteps!Lapse(some)
    BY <1>1, <1>3
    DEF Memory!RowSteps!Vanish, RowSteps!Vanish, Memory!RowSteps!Lapse, RowSteps!Lapse
  <1>5. ASSUME NEW k \in Keys, Memory!RowSteps!Renew(k)
        PROVE  RowSteps!Renew(k)
    BY <1>1, <1>5 DEF Memory!RowSteps!Renew, RowSteps!Renew
  <1>4. CASE UNCHANGED Memory!RowSteps!contractVars
    BY <1>1, <1>4 DEF Memory!RowSteps!contractVars, RowSteps!contractVars
  <1> QED
    BY <1>2, <1>3, <1>4, <1>5 DEF Memory!RowSteps!ContractNext, RowSteps!ContractNext

LEMMA RedisContract ==
  ASSUME backend = "redis", UNCHANGED backend,
         Redis!RowSteps!ContractNext \/ UNCHANGED Redis!RowSteps!contractVars
  PROVE  RowSteps!ContractNext \/ UNCHANGED RowSteps!contractVars
  <1>1. /\ [k \in Keys |-> Holder(k)] = [k \in Keys |-> Redis!Holder(k)]
        /\ [k \in Keys |-> Holder(k)]' = [k \in Keys |-> Redis!Holder(k)]'
        /\ Renewable = {} /\ Renewable' = {}
        /\ Answered = reply /\ Answered' = reply'
    BY DEF Holder, Renewable, Answered
  <1>2. ASSUME NEW p \in Procs, NEW k \in Keys,
               \/ Redis!RowSteps!Create(p, k) \/ Redis!RowSteps!Replace(p, k)
               \/ Redis!RowSteps!Put(p, k)
        PROVE  RowSteps!Create(p, k) \/ RowSteps!Replace(p, k) \/ RowSteps!Put(p, k)
    BY <1>1, <1>2
    DEF Redis!RowSteps!Create, Redis!RowSteps!Replace, Redis!RowSteps!Put,
        Redis!RowSteps!Answer, Redis!RowSteps!Absent, Redis!RowSteps!Becomes,
        RowSteps!Create, RowSteps!Replace, RowSteps!Put, RowSteps!Answer,
        RowSteps!Absent, RowSteps!Becomes, RowSteps!NoAnswer,
        Redis!RowSteps!NoAnswer
  <1>3. ASSUME NEW some \in SUBSET Keys,
               Redis!RowSteps!Vanish(some) \/ Redis!RowSteps!Lapse(some)
        PROVE  RowSteps!Vanish(some) \/ RowSteps!Lapse(some)
    BY <1>1, <1>3
    DEF Redis!RowSteps!Vanish, RowSteps!Vanish, Redis!RowSteps!Lapse, RowSteps!Lapse
  <1>5. ASSUME NEW k \in Keys, Redis!RowSteps!Renew(k)
        PROVE  RowSteps!Renew(k)
    BY <1>1, <1>5 DEF Redis!RowSteps!Renew, RowSteps!Renew
  <1>4. CASE UNCHANGED Redis!RowSteps!contractVars
    BY <1>1, <1>4 DEF Redis!RowSteps!contractVars, RowSteps!contractVars
  <1> QED
    BY <1>2, <1>3, <1>4, <1>5 DEF Redis!RowSteps!ContractNext, RowSteps!ContractNext

LEMMA ContractStep ==
  ASSUME IInv, [Next]_vars
  PROVE  RowSteps!ContractNext \/ UNCHANGED RowSteps!contractVars
  <1>1. UNCHANGED <<backend, solo>>
    BY DEF Next, vars
  <1>2. CASE backend = "json"
    <2>1. JsonInv /\ (Json!Next \/ UNCHANGED Json!vars)
      BY <1>2 DEF Next, vars, Json!vars, IInv
    <2> QED
      BY <1>1, <1>2, <2>1, JsonContractStep, JsonContract
  <1>3. CASE backend = "json_alone"
    BY <1>1, <1>3 DEF RowSteps!contractVars, Holder, Renewable, Answered
  <1>4. CASE backend = "memory"
    <2>1. MemoryInv /\ (Memory!Next \/ UNCHANGED Memory!vars)
      BY <1>4 DEF Next, vars, Memory!vars, IInv
    <2> QED
      BY <1>1, <1>4, <2>1, MemoryContractStep, MemoryContract
  <1>5. CASE backend = "redis"
    <2>1. RedisInv /\ (Redis!Next \/ UNCHANGED Redis!vars)
      BY <1>5 DEF Next, vars, Redis!vars, IInv
    <2> QED
      BY <1>1, <1>5, <2>1, RedisContractStep, RedisContract
  <1> QED
    BY <1>2, <1>3, <1>4, <1>5 DEF IInv

\* Every operation of a backend, of several holds or commands or with a lost
\* answer, is a step of the contract of the table caches, or none.  A row that
\* lapses in the dictionary may be renewed, as long as nobody was told that it
\* is missing.
THEOREM MeetsContract == Spec => ImplementsContract
  <1>1. Init => RowSteps!ContractInit
    <2>1. ASSUME Init PROVE Answered = [p \in Procs |-> "none"]
      BY <2>1 DEF Init, Answered, Json!Init, Alone!Init, Memory!Init, Redis!Init
    <2>2. ASSUME Init, NEW k \in Keys PROVE Holder(k) = Nobody
      BY <2>2
      DEF Init, Holder, Json!Init, Memory!Init, Redis!Init, Json!Holder, Json!NoFile,
          Memory!Writer, Memory!Has, Redis!Holder, Redis!Has
    <2>3. ASSUME Init PROVE Renewable = {}
      BY <2>3 DEF Init, Renewable, Memory!Init, Memory!Lapsed, Memory!Has
    <2> QED
      BY <2>1, <2>2, <2>3 DEF RowSteps!ContractInit
  <1>2. IInv /\ [Next]_vars => [RowSteps!ContractNext]_RowSteps!contractVars
    BY ContractStep
  <1> QED
    BY <1>1, <1>2, Inductive, PTL DEF Spec, ImplementsContract, RowSteps!Contract
=============================================================================
