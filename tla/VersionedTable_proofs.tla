----------------------- MODULE VersionedTable_proofs -----------------------
(***************************************************************************)
(* What VersionedTable guarantees for any number of keys, callers, bumps   *)
(* and any TTLs.                                                           *)
(***************************************************************************)
EXTENDS VersionedTable, TLAPS

USE VersionedTableAssumption

\* The generation of a table is determined by the life of the counter it was
\* named in and the bumps that life had seen, unless a read of the counter
\* may fail.
GenOf(x, g) == ReadsFail \/ x.epoch + 1 = x.life + g

\* The inductive strengthening of TypeOK: the two histories account for the
\* value of the counter, and every row and every operation on its way carries
\* the generation of its own life.
Accounted ==
    /\ TypeOK
    /\ epoch = life + bumps
    /\ (counterTtl = 0 <=> bumps = 0)
    /\ \A g \in Gens, k \in Keys : Live(g, k) => GenOf(rows[g][k], g)
    /\ \A p \in Procs : ops[p].kind # "idle" => GenOf(ops[p], ops[p].gen)

\* The value of a caller that runs no operation is an operation.
LEMMA IdleIsOp == Idle \in Op
  BY DEF Idle, Op, Gens

\* The counter of the epochs is accounted for at the start.
LEMMA AccountedInit == Init => Accounted
<1> SUFFICES ASSUME Init PROVE Accounted
  OBVIOUS
<1>1. TypeOK
  BY IdleIsOp DEF Init, TypeOK, NoRow, Row
<1>2. \A g \in Gens, k \in Keys : ~Live(g, k)
  BY DEF Init, Live, NoRow
<1>3. \A p \in Procs : ops[p].kind = "idle"
  BY DEF Init, Idle
<1> QED
  BY <1>1, <1>2, <1>3 DEF Init, Accounted

\* The first round trip of any operation.
LEMMA AccountedBegin ==
  ASSUME Accounted,
         NEW p \in Procs, NEW kind \in Kinds, NEW k \in Keys, NEW t \in RowTtls,
         Begin(p, kind, k, t)
  PROVE  Accounted'
<1>0. PICK g \in CounterReads :
         ops' = [ops EXCEPT ![p] = [kind |-> kind, gen |-> g, key |-> k, ttl |-> t,
                                    epoch |-> epoch, life |-> life, age |-> 0]]
  BY DEF Begin
<1> DEFINE o == [kind |-> kind, gen |-> g, key |-> k, ttl |-> t,
                 epoch |-> epoch, life |-> life, age |-> 0]
<1>1. o \in Op /\ GenOf(o, o.gen)
  BY DEF Accounted, TypeOK, Op, Gens, CounterReads, CurrentVersion, GenOf
<1>2. ops' = [ops EXCEPT ![p] = o]
  BY <1>0
<1>3. UNCHANGED <<bumps, counterTtl, rows, epoch, life>>
  BY DEF Begin
<1>4. TypeOK'
  BY <1>1, <1>2, <1>3 DEF Accounted, TypeOK
<1>5. \A q \in Procs : ops'[q].kind # "idle" => GenOf(ops'[q], ops'[q].gen)
  <2> TAKE q \in Procs
  <2>1. CASE q = p
    BY <1>1, <1>2, <2>1 DEF Accounted, TypeOK
  <2>2. CASE q # p
    BY <1>2, <2>2 DEF Accounted, TypeOK
  <2> QED
    BY <2>1, <2>2
<1> QED
  BY <1>3, <1>4, <1>5 DEF Accounted, Live

\* The second round trip: whatever the command is, it puts into the target of
\* the operation a row that belongs to the target's generation.
LEMMA AccountedStore ==
  ASSUME Accounted,
         NEW p \in Procs, NEW kind \in Kinds, NEW row \in Row,
         Finish(p, kind), Store(p, row),
         row.ttl > 0 => GenOf(row, ops[p].gen)
  PROVE  Accounted'
<1> DEFINE g == ops[p].gen
           k == ops[p].key
<1>1. g \in Gens /\ k \in Keys
  BY DEF Accounted, TypeOK, Op
<1>2. rows' = [rows EXCEPT ![g][k] = row]
  BY DEF Store
<1>3. /\ ops' = [ops EXCEPT ![p] = Idle]
      /\ UNCHANGED <<bumps, counterTtl, epoch, life>>
  BY DEF Finish
<1>4. TypeOK'
  BY <1>1, <1>2, <1>3, IdleIsOp DEF Accounted, TypeOK
<1>5. \A q \in Procs : ops'[q].kind # "idle" => GenOf(ops'[q], ops'[q].gen)
  <2> TAKE q \in Procs
  <2>1. CASE q = p
    BY <1>3, <2>1 DEF Accounted, TypeOK, Idle
  <2>2. CASE q # p
    BY <1>3, <2>2 DEF Accounted, TypeOK
  <2> QED
    BY <2>1, <2>2
<1>6. \A h \in Gens, j \in Keys : rows'[h][j].ttl > 0 => GenOf(rows'[h][j], h)
  <2> TAKE h \in Gens, j \in Keys
  <2>1. CASE h = g /\ j = k
    BY <1>1, <1>2, <2>1 DEF Accounted, TypeOK
  <2>2. CASE ~(h = g /\ j = k)
    <3>1. rows'[h][j] = rows[h][j]
      BY <1>1, <1>2, <2>2 DEF Accounted, TypeOK
    <3> QED
      BY <3>1 DEF Accounted, Live
  <2> QED
    BY <2>1, <2>2
<1> QED
  BY <1>3, <1>4, <1>5, <1>6 DEF Accounted, Live

\* Bumping the version keeps the account.
LEMMA AccountedBump ==
  ASSUME Accounted, BumpVersion
  PROVE  Accounted'
<1>1. /\ epoch' = epoch + 1 /\ bumps' = bumps + 1 /\ counterTtl' = VersionTtl
      /\ UNCHANGED <<rows, ops, life>>
  BY DEF BumpVersion
<1>2. TypeOK'
  BY <1>1 DEF Accounted, TypeOK, BumpVersion
<1>3. epoch' = life' + bumps' /\ (counterTtl' = 0 <=> bumps' = 0)
  BY <1>1 DEF Accounted, TypeOK
<1> QED
  BY <1>1, <1>2, <1>3 DEF Accounted, Live

\* A row that ages keeps what it is until its time to live is over.
LEMMA AgedRow ==
  ASSUME NEW row \in Row
  PROVE  /\ Aged(row) \in Row
         /\ Aged(row).ttl > 0 => /\ row.ttl > 0
                                 /\ Aged(row).epoch = row.epoch
                                 /\ Aged(row).life = row.life
         /\ Aged(row).ttl = Sooner(row.ttl)
         /\ Aged(row).given = row.given \/ (Aged(row).ttl = 0 /\ Aged(row).given = 0)
  BY DEF Row, Aged, NoRow, Sooner

\* The passing of time keeps the account.
LEMMA AccountedTick ==
  ASSUME Accounted, Tick
  PROVE  Accounted'
<1>1. /\ counterTtl' = Sooner(counterTtl)
      /\ bumps' = IF counterTtl = 1 THEN 0 ELSE bumps
      /\ life' = IF counterTtl = 1 THEN epoch ELSE life
      /\ epoch' = epoch
  BY DEF Tick
<1>2. rows' = [g \in Gens |-> [k \in Keys |-> Aged(rows[g][k])]]
  BY DEF Tick
<1>3. ops' = [p \in Procs |-> IF ops[p].kind = "idle" THEN ops[p]
                              ELSE [ops[p] EXCEPT !.age = @ + 1]]
  BY DEF Tick
<1>4. /\ counterTtl' \in Nat /\ bumps' \in Nat /\ life' \in Nat
      /\ epoch' = life' + bumps' /\ (counterTtl' = 0 <=> bumps' = 0)
  BY <1>1 DEF Accounted, TypeOK, Sooner
<1>5. rows' \in [Gens -> [Keys -> Row]]
  BY <1>2, AgedRow DEF Accounted, TypeOK
<1>6. \A p \in Procs : /\ ops'[p] \in Op
                       /\ ops'[p].kind # "idle" => GenOf(ops'[p], ops'[p].gen)
  <2> TAKE p \in Procs
  <2>1. ops[p] \in Op
    BY DEF Accounted, TypeOK
  <2>2. CASE ops[p].kind = "idle"
    BY <1>3, <2>1, <2>2
  <2>3. CASE ops[p].kind # "idle"
    <3>1. ops[p].age < MaxFlight
      BY <2>3 DEF Tick
    <3>2. ops'[p] = [ops[p] EXCEPT !.age = @ + 1]
      BY <1>3, <2>3
    <3>3. ops'[p] \in Op
      BY <2>1, <3>1, <3>2 DEF Op
    <3>4. GenOf(ops[p], ops[p].gen)
      BY <2>3 DEF Accounted
    <3> QED
      BY <2>1, <3>2, <3>3, <3>4 DEF GenOf, Op
  <2> QED
    BY <2>2, <2>3
<1>7. \A g \in Gens, k \in Keys : rows'[g][k].ttl > 0 => GenOf(rows'[g][k], g)
  <2> TAKE g \in Gens, k \in Keys
  <2>1. rows[g][k] \in Row /\ rows'[g][k] = Aged(rows[g][k])
    BY <1>2 DEF Accounted, TypeOK
  <2> QED
    BY <2>1, AgedRow DEF Accounted, Live, GenOf
<1>8. TypeOK'
  <2>1. ops' \in [Procs -> Op]
    BY <1>3, <1>6
  <2> QED
    BY <1>1, <1>4, <1>5, <2>1 DEF Accounted, TypeOK
<1> QED
  BY <1>4, <1>6, <1>7, <1>8 DEF Accounted, Live

\* Whatever caller p finds in its target belongs to the target's generation,
\* and so does whatever it writes there.
LEMMA TargetRow ==
  ASSUME Accounted, NEW p \in Procs, ops[p].kind # "idle"
  PROVE  /\ Target(p) \in Row
         /\ Present(p) <=> Target(p).ttl > 0
         /\ Target(p).ttl > 0 => GenOf(Target(p), ops[p].gen)
         /\ Written(p) \in Row
         /\ GenOf(Written(p), ops[p].gen)
<1>1. ops[p] \in Op /\ GenOf(ops[p], ops[p].gen)
  BY DEF Accounted, TypeOK
<1>2. Written(p) \in Row
  BY <1>1 DEF Written, Op, Row
<1>3. GenOf(Written(p), ops[p].gen)
  BY <1>1 DEF Written, GenOf
<1>4. Target(p) \in Row
  BY <1>1 DEF Accounted, TypeOK, Target, Op
<1> QED
  BY <1>1, <1>2, <1>3, <1>4 DEF Accounted, Target, Present, Live, Op

\* The second round trip of an operation, a write into the generation it read
\* or none, keeps the account.
LEMMA AccountedFinish ==
  ASSUME Accounted, NEW p \in Procs,
         \/ Get(p) \/ Upsert(p) \/ CreateIfAbsent(p) \/ ReplaceIf(p)
         \/ UpdateField(p) \/ RenewTtl(p) \/ Delete(p) \/ Fail(p)
  PROVE  Accounted'
<1> USE DEF Kinds
<1>a. \A kind \in Kinds : kind # "idle"
  OBVIOUS
<1>b. ASSUME NEW kind \in Kinds, Finish(p, kind), UNCHANGED rows
      PROVE  Accounted'
  <2>1. ops[p].kind # "idle" /\ ops[p] \in Op
    BY <1>a, <1>b DEF Finish, Accounted, TypeOK
  <2>2. rows[ops[p].gen][ops[p].key] \in Row
    BY <2>1 DEF Op, Accounted, TypeOK
  <2>3. Store(p, Target(p))
    BY <1>b, <2>1 DEF Store, Target, Accounted, TypeOK, Op
  <2> QED
    BY <1>b, <2>1, <2>3, TargetRow, AccountedStore
<1>1. CASE Get(p)
  BY <1>1, <1>b DEF Get
<1>2. CASE Upsert(p)
  <2>1. Finish(p, "upsert") /\ Store(p, Written(p)) /\ ops[p].kind # "idle"
    BY <1>2 DEF Upsert, Finish
  <2> QED
    BY <2>1, TargetRow, AccountedStore
<1>3. CASE CreateIfAbsent(p)
  <2> DEFINE r == IF Present(p) THEN Target(p) ELSE Written(p)
  <2>1. Finish(p, "create") /\ Store(p, r) /\ ops[p].kind # "idle"
    BY <1>3 DEF CreateIfAbsent, Finish
  <2>2. r \in Row /\ (r.ttl > 0 => GenOf(r, ops[p].gen))
    BY <2>1, TargetRow
  <2> HIDE DEF r
  <2> QED
    BY <2>1, <2>2, AccountedStore
<1>4. CASE ReplaceIf(p)
  <2>1. Finish(p, "replace") /\ ops[p].kind # "idle"
    BY <1>4 DEF ReplaceIf, Finish
  <2>2. CASE Store(p, Written(p))
    BY <2>1, <2>2, TargetRow, AccountedStore
  <2>3. CASE UNCHANGED rows
    BY <2>1, <2>3, <1>b
  <2> QED
    BY <1>4, <2>2, <2>3 DEF ReplaceIf
<1>5. ASSUME Finish(p, "update") \/ Finish(p, "renew"),
             NEW other \in Row,
             other.ttl > 0 => GenOf(other, ops[p].gen),
             Store(p, IF Present(p) THEN Renewed(p) ELSE other)
      PROVE  Accounted'
  <2> DEFINE r == IF Present(p) THEN Renewed(p) ELSE other
  <2>1. ops[p].kind # "idle" /\ ops[p].ttl \in Nat
    BY <1>5 DEF Finish, Accounted, TypeOK, Op
  <2>2. r \in Row
    BY <2>1, TargetRow, <1>5 DEF Row, Renewed
  <2>3. r.ttl > 0 => GenOf(r, ops[p].gen)
    BY <2>1, TargetRow, <1>5 DEF Row, GenOf, Renewed
  <2>4. Store(p, r)
    BY <1>5
  <2> HIDE DEF r
  <2> QED
    BY <1>5, <2>2, <2>3, <2>4, AccountedStore
<1>6. CASE UpdateField(p)
  <2>1. Finish(p, "update") /\ ops[p].kind # "idle"
    BY <1>6 DEF UpdateField, Finish
  <2> QED
    BY <1>5, <1>6, <2>1, TargetRow DEF UpdateField
<1>7. CASE RenewTtl(p)
  <2>1. Finish(p, "renew") /\ ops[p].kind # "idle"
    BY <1>7 DEF RenewTtl, Finish
  <2> QED
    BY <1>5, <1>7, <2>1, TargetRow DEF RenewTtl
<1>8. CASE Delete(p)
  <2>1. Finish(p, "delete") /\ Store(p, NoRow)
    BY <1>8 DEF Delete
  <2>2. NoRow \in Row /\ ~(NoRow.ttl > 0)
    BY DEF NoRow, Row
  <2> QED
    BY <2>1, <2>2, AccountedStore
<1>9. CASE Fail(p)
  BY <1>9, <1>b DEF Fail
<1> QED
  BY <1>1, <1>2, <1>3, <1>4, <1>6, <1>7, <1>8, <1>9

\* Every step keeps the account.
LEMMA AccountedNext == Accounted /\ [Next]_vars => Accounted'
<1> SUFFICES ASSUME Accounted, [Next]_vars PROVE Accounted'
  OBVIOUS
<1>1. CASE UNCHANGED vars
  BY <1>1 DEF vars, Accounted, TypeOK, Live
<1>2. CASE Next
  BY <1>2, AccountedBegin, AccountedFinish, AccountedBump, AccountedTick DEF Next
<1> QED
  BY <1>1, <1>2

\* The account holds in every behaviour.
LEMMA AccountedAlways == Spec => []Accounted
  BY AccountedInit, AccountedNext, PTL DEF Spec

-----------------------------------------------------------------------------

\* Every variable of the versioned cache keeps its type; in particular the
\* generation never leaves the tables a bounded number of bumps can name.
THEOREM TypeCorrect == Spec => []TypeOK
<1>1. Accounted => TypeOK
  BY DEF Accounted
<1> QED
  BY <1>1, AccountedAlways, PTL

\* While the counter row lives and can be read, a bump invalidates every row:
\* an operation that read the counter meets only rows of the same epoch,
\* however the round trips of other callers, bumps and row expiries interleave
\* with its own.
THEOREM ExactWithinOneLife ==
  ASSUME ~ReadsFail
  PROVE  Spec => []BumpInvalidatesWithinOneLife
<1>1. Accounted => BumpInvalidatesWithinOneLife
  <2> SUFFICES ASSUME Accounted, NEW p \in Procs, ops[p].kind \in Readers,
                      Present(p), Target(p).life = ops[p].life
               PROVE  Target(p).epoch = ops[p].epoch
    BY DEF BumpInvalidatesWithinOneLife
  <2>1. ops[p].kind # "idle"
    BY DEF Readers, Kinds
  <2>2. GenOf(Target(p), ops[p].gen) /\ Target(p) \in Row
    BY <2>1, TargetRow
  <2>3. GenOf(ops[p], ops[p].gen) /\ ops[p] \in Op
    BY <2>1 DEF Accounted, TypeOK
  <2> QED
    BY <2>2, <2>3 DEF GenOf, Row, Op
<1> QED
  BY <1>1, AccountedAlways, PTL

-----------------------------------------------------------------------------
(***************************************************************************)
(* The margin.  An operation that was on its way at a bump writes its row  *)
(* into an orphaned generation with a full TTL, while the counter has lost *)
(* no more than the time of that flight.  What the TTL has beyond that is  *)
(* its excess, whatever TTL the caller chose.                              *)
(***************************************************************************)

Covered ==
    /\ Accounted
    /\ \A g \in Gens, k \in Keys : rows[g][k].ttl <= rows[g][k].given
    /\ CounterOutlivesOrphans
    /\ \A p \in Procs :
          ops[p].kind # "idle" /\ ops[p].gen < CurrentVersion
              => VersionTtl <= counterTtl + ops[p].age

\* An excess is a number, and with it the counter's TTL covers the row's.
LEMMA ExcessCovers ==
  ASSUME NEW t \in Nat
  PROVE  /\ Excess(t) \in Nat
         /\ t + MaxFlight <= VersionTtl + Excess(t)
  BY DEF Excess

\* Every row is outlived by the counter at the start: there is none.
LEMMA CoveredInit == Init => Covered
<1> SUFFICES ASSUME Init PROVE Covered
  OBVIOUS
<1>1. \A g \in Gens, k \in Keys : rows[g][k].ttl = 0 /\ rows[g][k].given = 0
  BY DEF Init, NoRow
<1>2. \A p \in Procs : ops[p].kind = "idle"
  BY DEF Init, Idle
<1>3. counterTtl = 0
  BY DEF Init
<1> QED
  BY <1>1, <1>2, <1>3, AccountedInit, ExcessCovers DEF Covered, CounterOutlivesOrphans

\* An operation that reads the version begins with a counter that covers it.
LEMMA CoveredBegin ==
  ASSUME ~ReadsFail, Covered,
         NEW p \in Procs, NEW kind \in Kinds, NEW k \in Keys, NEW t \in RowTtls,
         Begin(p, kind, k, t)
  PROVE  Covered'
<1>1. Accounted'
  BY AccountedBegin DEF Covered
<1>2. UNCHANGED <<bumps, counterTtl, rows>>
  BY DEF Begin
<1>3. \A q \in Procs : ops'[q] = ops[q] \/ ops'[q].gen = CurrentVersion
  BY DEF Begin, CounterReads, Covered, Accounted, TypeOK
<1>4. CurrentVersion \in Nat /\ CurrentVersion' = CurrentVersion
  BY <1>2 DEF CurrentVersion, Covered, Accounted, TypeOK
<1> QED
  BY <1>1, <1>2, <1>3, <1>4 DEF Covered, CounterOutlivesOrphans

\* A write into an orphaned generation comes from an operation that was in
\* flight at the bump, so the counter still has its margin.
LEMMA CoveredStore ==
  ASSUME Covered, Accounted',
         NEW p \in Procs, NEW kind \in Kinds, NEW row \in Row,
         ops[p].kind # "idle", Finish(p, kind), Store(p, row),
         \/ row.ttl = 0 /\ row.given = 0
         \/ row.ttl = ops[p].ttl /\ row.given = ops[p].ttl
         \/ row = Target(p)
  PROVE  Covered'
<1> DEFINE g == ops[p].gen
           k == ops[p].key
<1>1. /\ g \in Gens /\ k \in Keys /\ ops[p].ttl \in RowTtls
      /\ ops[p].age \in 0..MaxFlight /\ ops[p].ttl \in Nat
      /\ row.ttl \in Nat /\ row.given \in Nat /\ counterTtl \in Nat
  BY DEF Covered, Accounted, TypeOK, Op, Row
<1>2. rows' = [rows EXCEPT ![g][k] = row]
  BY DEF Store
<1>3. UNCHANGED <<bumps, counterTtl>> /\ CurrentVersion' = CurrentVersion
  BY DEF Finish, CurrentVersion
<1>4. row.ttl <= row.given
  BY <1>1 DEF Covered, Target
<1>5. ASSUME g < CurrentVersion
      PROVE  row.ttl <= counterTtl + Excess(row.given)
  <2>1. VersionTtl <= counterTtl + ops[p].age
    BY <1>5 DEF Covered
  <2>2. CASE row.ttl = 0
    BY <1>1, <2>2, ExcessCovers
  <2>3. CASE row.ttl = ops[p].ttl /\ row.given = ops[p].ttl
    BY <1>1, <2>1, <2>3, ExcessCovers
  <2>4. CASE row = Target(p)
    BY <1>1, <1>5, <2>4 DEF Covered, CounterOutlivesOrphans, Target
  <2> QED
    BY <2>2, <2>3, <2>4
<1>6. \A h \in Gens, j \in Keys :
         rows'[h][j] = rows[h][j] \/ (h = g /\ rows'[h][j] = row)
  BY <1>1, <1>2 DEF Covered, Accounted, TypeOK
<1>7. \A q \in Procs : ops'[q] = ops[q] \/ ops'[q].kind = "idle"
  BY DEF Finish, Covered, Accounted, TypeOK, Idle
<1> QED
  BY <1>3, <1>4, <1>5, <1>6, <1>7 DEF Covered, CounterOutlivesOrphans

\* The second round trip of an operation leaves the rows covered.
LEMMA CoveredFinish ==
  ASSUME Covered, Accounted', NEW p \in Procs,
         \/ Get(p) \/ Upsert(p) \/ CreateIfAbsent(p) \/ ReplaceIf(p)
         \/ UpdateField(p) \/ RenewTtl(p) \/ Delete(p) \/ Fail(p)
  PROVE  Covered'
<1>1. PICK kind \in Kinds : Finish(p, kind)
  BY DEF Get, Upsert, CreateIfAbsent, ReplaceIf, UpdateField, RenewTtl, Delete, Fail, Kinds
<1>2. ops[p].kind # "idle"
  BY <1>1 DEF Finish, Kinds
<1>3. /\ Target(p) \in Row /\ Written(p) \in Row /\ NoRow \in Row
      /\ ops[p].ttl \in Nat
  BY <1>2, TargetRow DEF Covered, Accounted, TypeOK, Op, NoRow, Row
<1>4. PICK row \in Row : /\ Store(p, row)
                         /\ \/ row.ttl = 0 /\ row.given = 0
                            \/ row.ttl = ops[p].ttl /\ row.given = ops[p].ttl
                            \/ row = Target(p)
  <2>1. /\ Renewed(p) \in Row
        /\ Renewed(p).ttl = ops[p].ttl /\ Renewed(p).given = ops[p].ttl
    BY <1>3 DEF Row, Renewed
  <2>2. /\ Written(p).ttl = ops[p].ttl /\ Written(p).given = ops[p].ttl
        /\ NoRow.ttl = 0 /\ NoRow.given = 0
    BY DEF Written, NoRow
  <2>3. CASE UNCHANGED rows
    <3>1. Store(p, Target(p))
      BY <2>3 DEF Store, Target, Covered, Accounted, TypeOK, Op
    <3> QED
      BY <3>1, <1>3
  <2>4. CASE Store(p, Written(p))
    BY <2>2, <2>4, <1>3
  <2>5. CASE Store(p, NoRow)
    BY <2>2, <2>5, <1>3
  <2>6. CASE Store(p, Target(p))
    BY <2>6, <1>3
  <2>7. CASE Store(p, Renewed(p))
    BY <2>1, <2>7
  <2>8. \/ UNCHANGED rows \/ Store(p, Written(p)) \/ Store(p, NoRow)
        \/ Store(p, Target(p)) \/ Store(p, Renewed(p))
    BY DEF Get, Upsert, CreateIfAbsent, ReplaceIf, UpdateField, RenewTtl, Delete,
           Fail
  <2> QED
    BY <2>3, <2>4, <2>5, <2>6, <2>7, <2>8
<1> QED
  BY <1>1, <1>2, <1>4, CoveredStore

\* Bumping the version renews the counter, so that it outlives every row.
LEMMA CoveredBump ==
  ASSUME Covered, BumpVersion
  PROVE  Covered'
<1>1. Accounted'
  BY AccountedBump DEF Covered
<1>2. counterTtl' = VersionTtl /\ UNCHANGED <<rows, ops>>
  BY DEF BumpVersion
<1>3. \A p \in Procs : ops[p].age \in Nat
  BY DEF Covered, Accounted, TypeOK, Op
<1>4. \A g \in Gens, k \in Keys :
         /\ rows[g][k].ttl \in Nat /\ rows[g][k].given \in Nat
         /\ rows[g][k].ttl <= VersionTtl + Excess(rows[g][k].given)
  <2> TAKE g \in Gens, k \in Keys
  <2>1. /\ rows[g][k].ttl \in Nat /\ rows[g][k].given \in Nat
        /\ rows[g][k].ttl <= rows[g][k].given
    BY DEF Covered, Accounted, TypeOK, Row
  <2> QED
    BY <2>1, ExcessCovers
<1> QED
  BY <1>1, <1>2, <1>3, <1>4 DEF Covered, CounterOutlivesOrphans

\* The counter and the rows age together.
LEMMA CoveredTick ==
  ASSUME Covered, Tick
  PROVE  Covered'
<1>1. Accounted'
  BY AccountedTick DEF Covered
<1>2. /\ counterTtl' = Sooner(counterTtl) /\ counterTtl \in Nat /\ bumps \in Nat
      /\ bumps' = IF counterTtl = 1 THEN 0 ELSE bumps
      /\ (counterTtl = 0 <=> bumps = 0)
  BY DEF Tick, Covered, Accounted, TypeOK
<1>3. \A g \in Gens, k \in Keys :
         /\ rows[g][k].ttl \in Nat /\ rows[g][k].given \in Nat
         /\ rows'[g][k].ttl = Sooner(rows[g][k].ttl)
         /\ \/ rows'[g][k].given = rows[g][k].given
            \/ rows'[g][k].ttl = 0 /\ rows'[g][k].given = 0
  <2> TAKE g \in Gens, k \in Keys
  <2>1. rows[g][k] \in Row
    BY DEF Covered, Accounted, TypeOK
  <2>2. rows'[g][k] = Aged(rows[g][k])
    BY DEF Tick
  <2> QED
    BY <2>1, <2>2, AgedRow DEF Row
<1>4. \A p \in Procs : /\ ops[p].kind # "idle" => ops'[p].age = ops[p].age + 1
                       /\ ops[p].age \in Nat
                       /\ ops'[p].kind = ops[p].kind
                       /\ ops'[p].gen = ops[p].gen
                       /\ ops[p].gen \in Nat
  BY DEF Tick, Covered, Accounted, TypeOK, Op, Gens
<1>5. bumps' = 0 => CurrentVersion' = 1
  BY DEF CurrentVersion
<1>6. bumps' # 0 => /\ CurrentVersion' = CurrentVersion
                    /\ counterTtl' = counterTtl - 1 /\ counterTtl > 1
  BY <1>2 DEF CurrentVersion, Sooner
<1>7. \A g \in Gens, k \in Keys : rows'[g][k].ttl <= rows'[g][k].given
  BY <1>3 DEF Covered, Sooner
<1>8. CounterOutlivesOrphans'
  <2> SUFFICES ASSUME NEW g \in Gens, NEW k \in Keys, g < CurrentVersion'
               PROVE  rows'[g][k].ttl <= counterTtl' + Excess(rows'[g][k].given)
    BY DEF CounterOutlivesOrphans
  <2>1. bumps' # 0
    BY <1>5 DEF Gens
  <2>2. rows[g][k].ttl <= counterTtl + Excess(rows[g][k].given)
    BY <1>6, <2>1 DEF Covered, CounterOutlivesOrphans
  <2>3. Excess(rows[g][k].given) \in Nat /\ Excess(0) \in Nat
    BY <1>3, ExcessCovers
  <2> QED
    BY <1>2, <1>3, <1>6, <2>1, <2>2, <2>3 DEF Sooner
<1>9. ASSUME NEW p \in Procs, ops'[p].kind # "idle", ops'[p].gen < CurrentVersion'
      PROVE  VersionTtl <= counterTtl' + ops'[p].age
  <2>1. ops'[p].gen \in Gens
    BY <1>1 DEF Accounted, TypeOK, Op
  <2>2. bumps' # 0
    BY <1>5, <1>9, <2>1 DEF Gens
  <2>3. VersionTtl <= counterTtl + ops[p].age
    BY <1>4, <1>6, <1>9, <2>2 DEF Covered
  <2> QED
    BY <1>2, <1>4, <1>6, <1>9, <2>2, <2>3
<1> QED
  BY <1>1, <1>7, <1>8, <1>9 DEF Covered

\* Every step keeps the rows covered, where reads of the counter do not fail.
LEMMA CoveredNext ==
  ASSUME ~ReadsFail
  PROVE  Covered /\ [Next]_vars => Covered'
<1> SUFFICES ASSUME Covered, [Next]_vars PROVE Covered'
  OBVIOUS
<1>1. CASE UNCHANGED vars
  BY <1>1, AccountedNext DEF vars, Covered, CounterOutlivesOrphans, CurrentVersion
<1>2. CASE Next
  BY <1>2, AccountedNext, CoveredBegin, CoveredFinish, CoveredBump, CoveredTick
     DEF Next, Covered
<1> QED
  BY <1>1, <1>2

\* The rows are covered in every behaviour.
LEMMA CoveredAlways ==
  ASSUME ~ReadsFail
  PROVE  Spec => []Covered
  BY CoveredInit, CoveredNext, PTL DEF Spec

\* The counter outlives every row of an older generation, the rows written late
\* by operations that were in flight at a bump included, but for the excess of a
\* TTL that a caller chose beyond the margin.
THEOREM MarginHolds ==
  ASSUME ~ReadsFail
  PROVE  Spec => []CounterOutlivesOrphans
<1>1. Covered => CounterOutlivesOrphans
  BY DEF Covered
<1> QED
  BY <1>1, CoveredAlways, PTL

\* The generation v1 that readers fall back to when the counter expires holds
\* no row, but one that is in the excess of its TTL: what a lapse brings back is
\* never a row that was written with default_ttl and orphaned by a bump.
THEOREM LapseFindsV1Empty ==
  ASSUME ~ReadsFail
  PROVE  Spec => LapseIsCold
<1>1. Covered /\ [Next]_vars
        => [bumps > 0 /\ bumps' = 0 =>
               \A k \in Keys : rows'[1][k].ttl <= Excess(rows'[1][k].given)]_vars
  <2> SUFFICES ASSUME Covered, Next, bumps > 0, bumps' = 0, NEW k \in Keys
               PROVE  rows'[1][k].ttl <= Excess(rows'[1][k].given)
    BY DEF vars
  <2>1. bumps \in Nat
    BY DEF Covered, Accounted, TypeOK
  <2>2. Tick
    <3>1. ~BumpVersion
      BY <2>1 DEF BumpVersion
    <3>2. \A p \in Procs, kind \in Kinds : ~Finish(p, kind)
      BY DEF Finish
    <3>3. \A p \in Procs, kind \in Kinds, j \in Keys, t \in RowTtls :
             ~Begin(p, kind, j, t)
      BY DEF Begin
    <3> QED
      BY <3>1, <3>2, <3>3 DEF Next, Kinds, Get, Upsert, CreateIfAbsent, ReplaceIf,
                              UpdateField, RenewTtl, Delete, Fail
  <2>3. counterTtl = 1
    BY <2>2 DEF Tick
  <2>4. 1 \in Gens /\ 1 < CurrentVersion
    BY <2>1 DEF Gens, CurrentVersion
  <2>5. rows[1][k] \in Row /\ rows[1][k].ttl <= 1 + Excess(rows[1][k].given)
    BY <2>3, <2>4 DEF Covered, CounterOutlivesOrphans, Accounted, TypeOK
  <2>6. rows'[1][k] = Aged(rows[1][k])
    BY <2>2, <2>4 DEF Tick
  <2>7. /\ rows[1][k].ttl \in Nat /\ rows[1][k].given \in Nat
        /\ Excess(rows[1][k].given) \in Nat /\ Excess(0) \in Nat
    BY <2>5, ExcessCovers DEF Row
  <2>8. \/ rows'[1][k].given = rows[1][k].given
        \/ rows'[1][k].ttl = 0 /\ rows'[1][k].given = 0
    BY <2>5, <2>6, AgedRow
  <2> QED
    BY <2>5, <2>6, <2>7, <2>8, AgedRow DEF Sooner
<1> QED
  BY <1>1, CoveredAlways, PTL DEF Spec, LapseIsCold
=============================================================================
