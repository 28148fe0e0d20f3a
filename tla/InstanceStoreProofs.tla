------------------------ MODULE InstanceStoreProofs ------------------------
(***************************************************************************)
(* Theorems about InstanceStore, for any instances, keys, TTLs and bounds. *)
(***************************************************************************)
EXTENDS InstanceStore, InstanceKeysProofs

\* The set of names is a constant.
LEMMA NamesStay == Names' = Names
  BY DEF Names, CacheKey, BuildKey, NoInstance, Prefix, CacheKind

USE StoreAssumption DEF NoTTL

-----------------------------------------------------------------------------
(* Rows and values                                                         *)

LEMMA RowFacts ==
  /\ NoRow \notin Row /\ NoRow.version = 0
  /\ \A r \in Row : /\ r.value \in Values /\ r.version \in Nat \ {0}
                    /\ r.ttl \in TTLs /\ r.updated \in 0 .. MaxTime
  BY DEF Row, NoRow

LEMMA ValueFacts ==
  /\ \A n \in WriteIds, valid \in BOOLEAN :
       Wrap(n, valid) \in Values /\ Origin(Wrap(n, valid)) = n
  /\ \A n \in WriteIds : n \in Values /\ Origin(n) = n
  /\ \A v \in Values : Origin(v) \in WriteIds /\ v # None
<1>1. \A n \in WriteIds, valid \in BOOLEAN : Wrap(n, valid) \in Values
  BY DEF Values
<1>2. \A n \in WriteIds, valid \in BOOLEAN :
        Wrap(n, valid) # None /\ Origin(Wrap(n, valid)) = n
  BY DEF Wrap, Origin, WriteIds, None
<1>3. \A n \in WriteIds : n = Wrap(n, TRUE)
  BY DEF Wrap
<1>4. \A n \in WriteIds : n \in Values /\ Origin(n) = n
  BY <1>1, <1>2, <1>3
<1>5. \A v \in Values : \E n \in WriteIds, valid \in BOOLEAN : v = Wrap(n, valid)
  BY DEF Values
<1>6. \A v \in Values : Origin(v) \in WriteIds /\ v # None
  BY <1>2, <1>5
<1> QED BY <1>1, <1>2, <1>4, <1>6

LEMMA TriggerFacts ==
  ASSUME NEW old \in Row, NEW new \in Row, now \in 0 .. MaxTime
  PROVE  /\ Trigger(old, new) \in Row /\ Trigger(old, new).value = new.value
         /\ Trigger(old, new).version = old.version + 1
<1>1. old.version \in Nat
  BY RowFacts
<1>2. old.version + 1 \in Nat \ {0}
  BY <1>1
<1>3. Trigger(old, new) = [new EXCEPT !.version = old.version + 1, !.updated = now]
  BY DEF Trigger
<1>4. ASSUME NEW v \in Nat \ {0}, NEW t \in 0 .. MaxTime
      PROVE  /\ [new EXCEPT !.version = v, !.updated = t] \in Row
             /\ [new EXCEPT !.version = v, !.updated = t].value = new.value
             /\ [new EXCEPT !.version = v, !.updated = t].version = v
  BY DEF Row
<1>5. LET r == [new EXCEPT !.version = old.version + 1, !.updated = now]
      IN  r \in Row /\ r.value = new.value /\ r.version = old.version + 1
  BY <1>2, <1>4, Zenon
<1> QED BY <1>3, <1>5, Zenon

LEMMA UpsertFacts ==
  ASSUME NEW old \in Row \cup {NoRow}, NEW new \in Row, now \in 0 .. MaxTime
  PROVE  /\ Upsert(old, new) \in Row /\ Upsert(old, new).value = new.value
         /\ old # NoRow => Upsert(old, new).version = old.version + 1
<1>1. CASE old = NoRow
  BY <1>1 DEF Upsert
<1>2. CASE old # NoRow
  BY <1>2, TriggerFacts DEF Upsert
<1> QED BY <1>1, <1>2

LEMMA TargetFacts ==
  ASSUME NEW asked \in Asked, NEW i \in Target(asked), NEW ks
  PROVE  i \in Instances /\ Meant(asked, i, ks) = {i} \X ks
  BY DEF Asked, Target, Resolve, Meant

-----------------------------------------------------------------------------
(* What a step does to a row                                               *)

\* A row stays as it is, goes, or is replaced by one with the next version.
RowStep(e) == \/ rows'[e] = rows[e]
              \/ rows'[e] = NoRow
              \/ rows'[e] \in Row /\ (Has(e) => rows'[e].version = rows[e].version + 1)

RowSteps == rows' \in [Entries -> Row \cup {NoRow}] /\ \A e \in Entries : RowStep(e)

LEMMA RowsUnchanged ==
  ASSUME TypeOK, rows' = rows
  PROVE  RowSteps
  BY DEF TypeOK, RowSteps, RowStep

LEMMA RowsRemoved ==
  ASSUME TypeOK, NEW es, Remove(es)
  PROVE  RowSteps
  BY DEF TypeOK, Remove, RowSteps, RowStep

LEMMA RowPut ==
  ASSUME TypeOK, NEW i \in Instances, NEW k \in Keys, NEW v \in Values, NEW t \in TTLs,
         Put(<<i, k>>, v, t)
  PROVE  /\ RowSteps
         /\ rows'[<<i, k>>].value = v
         /\ \A e \in Entries \ {<<i, k>>} : rows'[e] = rows[e]
<1> DEFINE e   == <<i, k>>
           new == [value |-> v, version |-> rows[e].version + 1, ttl |-> t, updated |-> now]
<1>1. e \in Entries /\ rows \in [Entries -> Row \cup {NoRow}] /\ now \in 0 .. MaxTime
  BY DEF TypeOK, Entries
<1>2. rows[e] \in Row \cup {NoRow}
  BY <1>1
<1>3. rows[e].version \in Nat
  BY <1>2, RowFacts
<1>4. new \in Row
  BY <1>1, <1>3 DEF Row
<1>5. rows' = [rows EXCEPT ![e] = Upsert(rows[e], new)]
  BY DEF Put
<1>6. /\ Upsert(rows[e], new) \in Row /\ Upsert(rows[e], new).value = v
      /\ rows[e] # NoRow => Upsert(rows[e], new).version = rows[e].version + 1
  BY <1>1, <1>2, <1>4, UpsertFacts
<1> HIDE DEF new, e
<1>7. /\ rows'[e] = Upsert(rows[e], new)
      /\ \A f \in Entries \ {e} : rows'[f] = rows[f]
      /\ rows' \in [Entries -> Row \cup {NoRow}]
  BY <1>1, <1>5, <1>6
<1>8. \A f \in Entries : RowStep(f)
  BY <1>6, <1>7 DEF RowStep, Has
<1> QED BY <1>6, <1>7, <1>8 DEF RowSteps, e

LEMMA RowsVersioned ==
  ASSUME TypeOK, NEW d \in Entries, NEW n \in WriteIds, NEW t \in TTLs, NEW version,
         SetWithVersion(d, n, t, version)
  PROVE  /\ RowSteps
         /\ \A e \in Entries : \/ rows'[e] = rows[e]
                               \/ e[2] = d[2] /\ rows'[e].value = n
<1> DEFINE es     == Versioned(d[2], version)
           new(e) == [rows[e] EXCEPT !.value = n, !.ttl = t]
<1>1. /\ rows \in [Entries -> Row \cup {NoRow}] /\ now \in 0 .. MaxTime
      /\ es \subseteq Entries /\ \A e \in es : e[2] = d[2] /\ Has(e)
  BY DEF TypeOK, Entries, Versioned
<1>2. rows' = [e \in Entries |-> IF e \in es THEN Trigger(rows[e], new(e)) ELSE rows[e]]
  BY DEF SetWithVersion
<1>3. \A e \in es : rows[e] \in Row
  BY <1>1 DEF Has
<1>4. \A e \in es : new(e) \in Row /\ new(e).value = n
  BY <1>3, ValueFacts DEF Row
<1> HIDE DEF es, new
<1>5. ASSUME NEW e \in es
      PROVE  /\ rows'[e] \in Row /\ rows'[e].value = n
             /\ rows'[e].version = rows[e].version + 1
  <2>1. rows'[e] = Trigger(rows[e], new(e))
    BY <1>1, <1>2
  <2> QED BY <1>1, <1>3, <1>4, <2>1, TriggerFacts
<1>6. \A e \in Entries \ es : rows'[e] = rows[e]
  BY <1>2
<1>7. rows' \in [Entries -> Row \cup {NoRow}]
  <2>1. \A e \in Entries : rows'[e] \in Row \cup {NoRow}
    BY <1>1, <1>5, <1>6
  <2> QED BY <1>2, <2>1
<1>8. \A e \in Entries : RowStep(e)
  BY <1>5, <1>6 DEF RowStep
<1> QED BY <1>1, <1>5, <1>6, <1>7, <1>8 DEF RowSteps

LEMMA RowsRestored ==
  ASSUME TypeOK, NEW i \in Instances, RestoreInstance(i)
  PROVE  /\ RowSteps
         /\ \A e \in Entries :
              \/ rows'[e] = rows[e]
              \/ e[1] = i /\ \E f \in file : f.key = e[2] /\ rows'[e].value = f.row.value
<1> DEFINE into(e) == e[1] = i /\ \E f \in file : f.key = e[2]
           from(e) == CHOOSE f \in file : f.key = e[2]
<1>1. /\ rows \in [Entries -> Row \cup {NoRow}] /\ now \in 0 .. MaxTime
      /\ file \subseteq [key : Keys, row : Row]
  BY DEF TypeOK
<1>2. rows' = [e \in Entries |-> IF into(e) THEN Upsert(rows[e], from(e).row) ELSE rows[e]]
  BY DEF RestoreInstance
<1>3. \A e \in Entries : into(e) => e[1] = i /\ from(e) \in file /\ from(e).key = e[2]
  OBVIOUS
<1> HIDE DEF into, from
<1>4. ASSUME NEW e \in Entries, into(e)
      PROVE  /\ rows'[e] \in Row /\ rows'[e].value = from(e).row.value
             /\ Has(e) => rows'[e].version = rows[e].version + 1
  <2>1. from(e).row \in Row /\ rows[e] \in Row \cup {NoRow}
    BY <1>1, <1>3, <1>4
  <2>2. rows'[e] = Upsert(rows[e], from(e).row)
    BY <1>2, <1>4
  <2>3. /\ Upsert(rows[e], from(e).row) \in Row
        /\ Upsert(rows[e], from(e).row).value = from(e).row.value
        /\ rows[e] # NoRow => Upsert(rows[e], from(e).row).version = rows[e].version + 1
    BY <1>1, <2>1, UpsertFacts
  <2> QED BY <2>2, <2>3 DEF Has
<1>5. \A e \in Entries : ~into(e) => rows'[e] = rows[e]
  BY <1>2
<1>6. rows' \in [Entries -> Row \cup {NoRow}]
  <2>1. \A e \in Entries : rows'[e] \in Row \cup {NoRow}
    BY <1>1, <1>4, <1>5
  <2> QED BY <1>2, <2>1
<1>7. \A e \in Entries : RowStep(e)
  BY <1>4, <1>5 DEF RowStep
<1> QED BY <1>3, <1>4, <1>5, <1>6, <1>7 DEF RowSteps

-----------------------------------------------------------------------------
(* Type correctness                                                        *)

LEMMA BringFacts ==
  ASSUME TypeOK, NEW n \in WriteIds, NEW es \in SUBSET Entries, Bring(n, es)
  PROVE  /\ n = writes + 1 /\ writes' = n /\ writes' \in 0 .. MaxWrites
         /\ deletes' = deletes /\ moves' = moves
         /\ addressed' \in [WriteIds -> SUBSET Entries]
         /\ addressed'[n] = es
         /\ \A m \in WriteIds \ {n} : addressed'[m] = addressed[m]
  BY DEF TypeOK, Bring, WriteIds

LEMMA StoredType ==
  ASSUME TypeOK, NEW i, NEW ks, NEW n \in Values \cup {None}
  PROVE  Stored(i, ks, n) \in [Names -> Values \cup {None}]
  BY DEF TypeOK, Stored

LEMMA LoadedType ==
  ASSUME TypeOK, NEW batch \in SUBSET load.left
  PROVE  Loaded(batch) \in [Names -> Values \cup {None}]
<1> DEFINE of(p) == CHOOSE b \in batch : p = CacheKey(load.inst, b[1])
<1>1. batch \subseteq Keys \X Values /\ redis \in [Names -> Values \cup {None}]
  BY DEF TypeOK
<1>2. \A p \in Names : (\E b \in batch : p = CacheKey(load.inst, b[1])) => of(p) \in batch
  OBVIOUS
<1>3. Loaded(batch) = [p \in Names |-> IF \E b \in batch : p = CacheKey(load.inst, b[1])
                                         THEN of(p)[2] ELSE redis[p]]
  BY DEF Loaded
<1> HIDE DEF of
<1>4. \A p \in Names : (\E b \in batch : p = CacheKey(load.inst, b[1])) => of(p)[2] \in Values
  BY <1>1, <1>2
<1> QED BY <1>1, <1>3, <1>4

LEMMA TypeInit == Init => TypeOK
<1> SUFFICES ASSUME Init PROVE TypeOK
  OBVIOUS
<1>1. Idle \in [inst : Instances \cup {NoInstance}, left : SUBSET (Keys \X Values)] /\ Idle.left = {}
  BY DEF Idle
<1> QED BY <1>1 DEF Init, TypeOK

\* The variables that a step leaves alone keep their types; what is left to show
\* is about the others.
LEMMA TypeRepository ==
  ASSUME TypeOK, Repository
  PROVE  TypeOK' /\ RowSteps
<1>1. ASSUME NEW k \in Keys, NEW n \in WriteIds, NEW t \in TTLs, NEW i \in Instances,
             SetWithInstance(i, k, n, t)
      PROVE  TypeOK' /\ RowSteps
  <2>1. {<<i, k>>} \in SUBSET Entries /\ n \in Values
    BY ValueFacts DEF Entries
  <2>2. Bring(n, {<<i, k>>}) /\ Put(<<i, k>>, n, t)
    BY <1>1 DEF SetWithInstance
  <2>3. RowSteps
    BY <2>1, <2>2, RowPut
  <2>4. /\ writes' \in 0 .. MaxWrites /\ deletes' = deletes /\ moves' = moves
        /\ addressed' \in [WriteIds -> SUBSET Entries]
    BY <2>1, <2>2, BringFacts
  <2> QED BY <1>1, <2>3, <2>4 DEF TypeOK, RowSteps, SetWithInstance
<1>2. ASSUME NEW d \in Entries, NEW n \in WriteIds, NEW t \in TTLs, NEW version,
             SetWithVersion(d, n, t, version)
      PROVE  TypeOK' /\ RowSteps
  <2>1. Bring(n, {d}) /\ {d} \in SUBSET Entries /\ versioned' = versioned \cup {n}
    BY <1>2 DEF SetWithVersion
  <2>2. RowSteps
    BY <1>2, RowsVersioned
  <2>3. /\ writes' \in 0 .. MaxWrites /\ deletes' = deletes /\ moves' = moves
        /\ addressed' \in [WriteIds -> SUBSET Entries]
    BY <2>1, BringFacts
  <2>4. UNCHANGED <<now, redis, reaping, load, file>> /\ versioned' \subseteq WriteIds
    BY <1>2, <2>1 DEF SetWithVersion, TypeOK
  <2> QED BY <2>2, <2>3, <2>4 DEF TypeOK, RowSteps
<1>3. ASSUME NEW e \in Entries, FindExpired(e)
      PROVE  TypeOK' /\ RowSteps
  BY <1>3, RowsUnchanged DEF FindExpired, TypeOK, counts, ghosts
<1>4. ASSUME NEW e \in Entries, Reap(e)
      PROVE  TypeOK' /\ RowSteps
  <2>1. RowSteps
    BY <1>4, RowsRemoved DEF Reap
  <2> QED BY <1>4, <2>1 DEF Reap, TypeOK, RowSteps, counts, ghosts
<1>5. ASSUME NEW es, Delete(es)
      PROVE  TypeOK' /\ RowSteps
  <2>1. RowSteps
    BY <1>5, RowsRemoved DEF Delete
  <2>2. deletes' \in 0 .. MaxDeletes
    BY <1>5 DEF Delete, TypeOK
  <2> QED BY <1>5, <2>1, <2>2 DEF Delete, TypeOK, RowSteps, ghosts
<1>6. ASSUME CleanupExpired
      PROVE  TypeOK' /\ RowSteps
  <2>1. PICK es : Remove(es)
    BY <1>6 DEF CleanupExpired
  <2>2. RowSteps
    BY <2>1, RowsRemoved
  <2> QED BY <1>6, <2>2 DEF CleanupExpired, TypeOK, RowSteps, counts, ghosts
<1> QED BY <1>1, <1>2, <1>3, <1>4, <1>5, <1>6 DEF Repository

LEMMA TypeCache ==
  ASSUME TypeOK, Client \/ Cache
  PROVE  TypeOK' /\ RowSteps
<1>1. ASSUME NEW asked \in Asked, NEW n \in WriteIds, NEW k \in Keys, ClientSet(asked, k, n)
      PROVE  TypeOK' /\ RowSteps
  <2>1. PICK i \in Target(asked), valid \in BOOLEAN :
          /\ Bring(n, Meant(asked, i, {k}))
          /\ Put(<<i, k>>, Wrap(n, valid), NoTTL)
          /\ UNCHANGED <<now, redis, reaping, load, file, versioned>>
    BY <1>1 DEF ClientSet
  <2>2. i \in Instances /\ Meant(asked, i, {k}) = {i} \X {k}
    BY TargetFacts
  <2>3. Meant(asked, i, {k}) \in SUBSET Entries /\ Wrap(n, valid) \in Values
    BY <2>2, ValueFacts DEF Entries
  <2>4. RowSteps
    BY <2>1, <2>2, <2>3, RowPut
  <2>5. /\ writes' \in 0 .. MaxWrites /\ deletes' = deletes /\ moves' = moves
        /\ addressed' \in [WriteIds -> SUBSET Entries]
    BY <2>1, <2>3, BringFacts
  <2> QED BY <2>1, <2>4, <2>5 DEF TypeOK, RowSteps
<1>2. ASSUME NEW asked \in Asked, NEW ks \in SUBSET Keys, CacheDelete(asked, ks)
      PROVE  TypeOK' /\ RowSteps
  <2>1. PICK i : redis' = Stored(i, ks, None)
    BY <1>2 DEF CacheDelete
  <2>2. redis' \in [Names -> Values \cup {None}]
    BY <2>1, StoredType
  <2> QED BY <1>2, <2>2, RowsUnchanged DEF CacheDelete, TypeOK, counts, ghosts
<1>3. ASSUME NEW asked \in Asked, NEW ks \in SUBSET Keys, NEW n \in WriteIds,
             CacheSet(asked, ks, n)
      PROVE  TypeOK' /\ RowSteps
  <2>1. PICK i \in Target(asked), done \in SUBSET ks :
          /\ Bring(n, Meant(asked, i, ks)) /\ redis' = Stored(i, done, n)
    BY <1>3 DEF CacheSet
  <2>2. i \in Instances /\ Meant(asked, i, ks) = {i} \X ks
    BY TargetFacts
  <2>3. Meant(asked, i, ks) \in SUBSET Entries /\ n \in Values
    BY <2>2, ValueFacts DEF Entries
  <2>4. redis' \in [Names -> Values \cup {None}]
    BY <2>1, <2>3, StoredType
  <2>5. /\ writes' \in 0 .. MaxWrites /\ deletes' = deletes /\ moves' = moves
        /\ addressed' \in [WriteIds -> SUBSET Entries]
    BY <2>1, <2>3, BringFacts
  <2>6. UNCHANGED <<rows, now, reaping, load, file, versioned>>
    BY <1>3 DEF CacheSet
  <2> QED BY <2>4, <2>5, <2>6, RowsUnchanged DEF TypeOK
<1> QED BY <1>1, <1>2, <1>3 DEF Client, Cache

LEMMA TypeOperations ==
  ASSUME TypeOK, Operations
  PROVE  TypeOK' /\ RowSteps
<1>0. Move => moves' \in 0 .. MaxMoves /\ writes' = writes /\ deletes' = deletes
  BY DEF Move, TypeOK
<1>1. ASSUME NEW i \in Instances, LoadInstance(i)
      PROVE  TypeOK' /\ RowSteps
  <2> DEFINE found == {<<k, rows[<<i, k>>].value>> : k \in {x \in Keys : Has(<<i, x>>)}}
  <2>1. \A k \in Keys : Has(<<i, k>>) => rows[<<i, k>>].value \in Values
    <3>1. \A k \in Keys : <<i, k>> \in Entries
      BY DEF Entries
    <3>2. \A e \in Entries : Has(e) => rows[e] \in Row
      BY DEF TypeOK, Has
    <3> QED BY <3>1, <3>2, RowFacts
  <2>2. found \in SUBSET (Keys \X Values)
    <3>1. ASSUME NEW b \in found PROVE b \in Keys \X Values
      <4>1. PICK k \in {x \in Keys : Has(<<i, x>>)} : b = <<k, rows[<<i, k>>].value>>
        BY Zenon
      <4> QED BY <2>1, <4>1
    <3> QED BY <3>1, Zenon
  <2>3. load' = [inst |-> i, left |-> found]
    BY <1>1 DEF LoadInstance
  <2> HIDE DEF found
  <2>4. /\ load' \in [inst : Instances \cup {NoInstance}, left : SUBSET (Keys \X Values)]
        /\ load'.inst \in Instances
    BY <2>2, <2>3
  <2> QED BY <1>0, <1>1, <2>4, RowsUnchanged DEF LoadInstance, TypeOK, ghosts
<1>2. ASSUME NEW i \in Instances, BackupInstance(i)
      PROVE  TypeOK' /\ RowSteps
  <2>1. PICK ks \in SUBSET {k \in Keys : Has(<<i, k>>)} :
          file' = {[key |-> k, row |-> rows[<<i, k>>]] : k \in ks}
    BY <1>2 DEF BackupInstance
  <2>2. \A k \in ks : k \in Keys /\ rows[<<i, k>>] \in Row
    <3>1. \A k \in Keys : <<i, k>> \in Entries
      BY DEF Entries
    <3>2. \A e \in Entries : Has(e) => rows[e] \in Row
      BY DEF TypeOK, Has
    <3> QED BY <2>1, <3>1, <3>2
  <2>3. ASSUME NEW f \in file' PROVE f \in [key : Keys, row : Row]
    <3>1. PICK k \in ks : f = [key |-> k, row |-> rows[<<i, k>>]]
      BY <2>1, Zenon
    <3> QED BY <2>2, <3>1
  <2> QED BY <1>0, <1>2, <2>3, RowsUnchanged DEF BackupInstance, TypeOK, ghosts
<1>3. ASSUME NEW i \in Instances, RestoreInstance(i)
      PROVE  TypeOK' /\ RowSteps
  <2>1. RowSteps
    BY <1>3, RowsRestored
  <2>2. addressed' \in [WriteIds -> SUBSET Entries]
    <3>1. /\ file \subseteq [key : Keys, row : Row]
          /\ addressed \in [WriteIds -> SUBSET Entries]
      BY DEF TypeOK
    <3>2. \A n \in WriteIds :
            {<<i, f.key>> : f \in {g \in file : Origin(g.row.value) = n}} \subseteq Entries
      BY <3>1 DEF Entries
    <3> QED BY <1>3, <3>1, <3>2 DEF RestoreInstance
  <2> QED BY <1>0, <1>3, <2>1, <2>2 DEF RestoreInstance, TypeOK, RowSteps
<1>4. ASSUME LoadBatch
      PROVE  TypeOK' /\ RowSteps
  <2>1. PICK batch \in SUBSET load.left :
          redis' = Loaded(batch) /\ load' = [load EXCEPT !.left = @ \ batch]
    BY <1>4 DEF LoadBatch
  <2>2. redis' \in [Names -> Values \cup {None}]
    BY <2>1, LoadedType
  <2>3. /\ load' \in [inst : Instances \cup {NoInstance}, left : SUBSET (Keys \X Values)]
        /\ load'.left # {} => load'.inst \in Instances
    <3>1. /\ load \in [inst : Instances \cup {NoInstance}, left : SUBSET (Keys \X Values)]
          /\ load.left # {} => load.inst \in Instances
      BY DEF TypeOK
    <3> QED BY <2>1, <3>1
  <2>4. UNCHANGED <<rows, now, reaping, file, counts, ghosts>>
    BY <1>4 DEF LoadBatch
  <2> QED BY <2>2, <2>3, <2>4, RowsUnchanged DEF TypeOK, counts, ghosts
<1>5. ASSUME LoadFails
      PROVE  TypeOK' /\ RowSteps
  <2>1. PICK part \in SUBSET load.left : redis' = Loaded(part)
    BY <1>5 DEF LoadFails
  <2>2. redis' \in [Names -> Values \cup {None}]
    BY <2>1, LoadedType
  <2>3. /\ load' \in [inst : Instances \cup {NoInstance}, left : SUBSET (Keys \X Values)]
        /\ load'.left = {}
    BY <1>5 DEF LoadFails, Idle
  <2>4. UNCHANGED <<rows, now, reaping, file, counts, ghosts>>
    BY <1>5 DEF LoadFails
  <2> QED BY <2>2, <2>3, <2>4, RowsUnchanged DEF TypeOK, counts, ghosts
<1> QED BY <1>1, <1>2, <1>3, <1>4, <1>5 DEF Operations

LEMMA TypeNext == TypeOK /\ [Next]_vars => TypeOK' /\ RowSteps
<1> SUFFICES ASSUME TypeOK, [Next]_vars PROVE TypeOK' /\ RowSteps
  OBVIOUS
<1>1. CASE Tick
  BY <1>1, RowsUnchanged DEF Tick, TypeOK, counts, ghosts
<1>2. CASE UNCHANGED vars
  BY <1>2, RowsUnchanged DEF vars, counts, ghosts, TypeOK
<1> QED BY <1>1, <1>2, TypeRepository, TypeCache, TypeOperations DEF Next

\* Type correctness, for any instances, keys and bounds: the rows of a running
\* load and of a backup included.
THEOREM TypeCorrect == Spec => []TypeOK
  BY TypeInit, TypeNext, PTL DEF Spec

\* Whatever statement changes a row, its version grows: while a row stays,
\* no version it has had comes back, a restore of an old backup included.
THEOREM VersionsOnlyGrow == Spec => VersionsGrow
<1>1. TypeOK /\ RowSteps =>
        \A e \in Entries : Has(e) /\ rows'[e] \notin {rows[e], NoRow} =>
          rows'[e].version > rows[e].version
  <2> SUFFICES ASSUME TypeOK, RowSteps, NEW e \in Entries,
                      Has(e), rows'[e] \notin {rows[e], NoRow}
               PROVE  rows'[e].version > rows[e].version
    OBVIOUS
  <2>1. rows'[e].version = rows[e].version + 1
    BY DEF RowSteps, RowStep
  <2>2. rows[e].version \in Nat
    BY RowFacts DEF TypeOK, Has
  <2> QED BY <2>1, <2>2
<1> QED BY <1>1, TypeInit, TypeNext, PTL DEF Spec, VersionsGrow

\* Existence checks, listings, single and batch reads and the clean-up agree about
\* which rows have expired, at every instant.
THEOREM ReadsAlwaysAgree == Spec => []ReadsAgree
<1>1. TypeOK => ReadsAgree
  <2> SUFFICES ASSUME TypeOK PROVE ReadsAgree
    OBVIOUS
  <2>0. now \in Nat /\ \A e \in Entries : Has(e) => rows[e] \in Row
    BY DEF TypeOK, Has
  <2>1. ASSUME NEW e \in Entries, Has(e)
        PROVE  rows[e].updated \in Nat /\ now \in Nat /\ rows[e].ttl \in Nat \cup {NoTTL}
    <3>1. rows[e].updated \in Nat /\ rows[e].ttl \in TTLs
      BY <2>0, <2>1, RowFacts
    <3>2. rows[e].ttl \in Nat \cup {NoTTL}
      BY <3>1, Zenon
    <3> QED BY <2>0, <3>1, <3>2
  <2>2. \A e \in Entries : Exists(e) => Get(e)
    BY <2>1 DEF Exists, Get, SqlLive, IsExpired
  <2>3. \A i \in Instances : {i} \X KeysByInstance(i) \subseteq BatchGetIn(i, Keys)
    BY <2>2 DEF KeysByInstance, BatchGetIn, Entries
  <2>4. \A k \in AllKeys : BatchGet({k}) # {}
    <3> TAKE k \in AllKeys
    <3>1. PICK e \in Entries : Exists(e) /\ k = e[2]
      BY DEF AllKeys
    <3>2. e \in Instances \X {k} /\ Get(e)
      BY <2>2, <3>1 DEF Entries
    <3> QED BY <3>2 DEF BatchGet
  <2>5. \A e \in BatchGet(Keys) : e \in ExpiredRows => rows[e].ttl = 0
    <3> TAKE e \in BatchGet(Keys)
    <3>1. e \in Entries /\ Has(e) /\ ~IsExpired(rows[e])
      BY DEF BatchGet, Get, Entries
    <3> QED BY <2>1, <3>1 DEF IsExpired, ExpiredRows, SqlExpired
  <2> QED BY <2>3, <2>4, <2>5 DEF ReadsAgree
<1> QED BY <1>1, TypeCorrect, PTL

-----------------------------------------------------------------------------
(* Where a value may be                                                    *)

\* A call has brought the value; and it may be in the entry.
Known(v)    == Origin(v) <= writes
Sent(e, v)  == Known(v) /\ e \in Reach(Origin(v))
NameOf(e)   == CacheKey(e[1], e[2])
Under(p, v) == \E e \in Entries : p = NameOf(e) /\ Sent(e, v)

\* Every value in a row, in Redis, in a running load or in the backup is one that
\* a call has brought; rows and the load hold it for an entry in its reach, Redis
\* under the name of one.  The two last parts are what a load and a restore need,
\* the first of Sent what keeps the next call's value from being there already.
Placed ==
  /\ \A e \in Entries : Has(e) => Sent(e, rows[e].value)
  /\ \A p \in Names : redis[p] # None => Under(p, redis[p])
  /\ \A b \in load.left : Sent(<<load.inst, b[1]>>, b[2])
  /\ \A f \in file : Known(f.row.value)

\* What was in reach stays so.
Grows == \A v \in Values : /\ Known(v) => Known(v)'
                           /\ \A e \in Entries : Sent(e, v) => Sent(e, v)'

LEMMA SameCallsGrow ==
  ASSUME UNCHANGED <<writes, addressed, versioned>>
  PROVE  Grows
  BY DEF Grows, Known, Sent, Origin, Reach, Entries

\* What a call was meant for, and what a SetWithVersion finds, is in its reach.
LEMMA NewCallGrows ==
  ASSUME TypeOK, NEW n \in WriteIds, NEW es \in SUBSET Entries, Bring(n, es),
         versioned \subseteq versioned'
  PROVE  /\ Grows
         /\ \A e \in es, v \in Values : Origin(v) = n => Sent(e, v)'
         /\ n \in versioned' => \A e \in Entries, v \in Values :
              Origin(v) = n /\ (\E f \in es : f[2] = e[2]) => Sent(e, v)'
<1>1. /\ n = writes + 1 /\ writes' = n /\ writes \in Nat /\ addressed'[n] = es
      /\ \A m \in WriteIds \ {n} : addressed'[m] = addressed[m]
  BY BringFacts DEF TypeOK
<1>2. ASSUME NEW v \in Values, Known(v)
      PROVE  /\ Known(v)' /\ Origin(v) \in WriteIds
             /\ addressed'[Origin(v)] = addressed[Origin(v)]
  <2>1. Origin(v) \in WriteIds /\ Origin(v) <= writes
    BY <1>2, ValueFacts DEF Known
  <2>2. Origin(v) \in Nat /\ Origin(v) # n /\ Origin(v) <= n
    BY <1>1, <2>1 DEF WriteIds
  <2> QED BY <1>1, <2>1, <2>2 DEF Known, Origin
<1>3. ASSUME NEW v \in Values, NEW e \in Entries, Sent(e, v)
      PROVE  Sent(e, v)'
  <2>1. Known(v) /\ e \in Reach(Origin(v))
    BY <1>3 DEF Sent
  <2>2. Known(v)' /\ addressed'[Origin(v)] = addressed[Origin(v)]
    BY <1>2, <2>1
  <2>3. \/ e \in addressed'[Origin(v)]
        \/ Origin(v) \in versioned' /\ \E f \in addressed'[Origin(v)] : f[2] = e[2]
    BY <2>1, <2>2 DEF Reach
  <2> QED BY <2>2, <2>3 DEF Sent, Reach, Origin, Entries
<1>4. Grows
  BY <1>2, <1>3 DEF Grows
<1>5. ASSUME NEW e \in Entries, NEW v \in Values, Origin(v) = n,
             e \in es \/ (n \in versioned' /\ \E f \in es : f[2] = e[2])
      PROVE  Sent(e, v)'
  <2>1. Origin(v)' = n
    BY <1>5 DEF Origin
  <2>2. Known(v)'
    BY <1>1, <2>1 DEF Known, WriteIds
  <2>3. e \in Reach(n)'
    BY <1>1, <1>5 DEF Reach, Entries
  <2> QED BY <2>1, <2>2, <2>3 DEF Sent
<1> QED BY <1>4, <1>5

LEMMA RestoreGrows ==
  ASSUME TypeOK, Placed, NEW i \in Instances, RestoreInstance(i)
  PROVE  /\ Grows
         /\ \A f \in file : Sent(<<i, f.key>>, f.row.value)'
<1> DEFINE to(n) == {<<i, f.key>> : f \in {g \in file : Origin(g.row.value) = n}}
<1>1. /\ writes' = writes /\ versioned' = versioned
      /\ \A n \in WriteIds : addressed'[n] = addressed[n] \cup to(n)
  BY DEF RestoreInstance, Move
<1> HIDE DEF to
<1>2. Grows
  <2>1. \A v \in Values : Origin(v) \in WriteIds
    BY ValueFacts
  <2>2. ASSUME NEW v \in Values, NEW e \in Entries, Sent(e, v)
        PROVE  Sent(e, v)'
    <3>1. Known(v) /\ e \in Reach(Origin(v)) /\ Origin(v) \in WriteIds
      BY <2>1, <2>2 DEF Sent
    <3>2. \/ e \in addressed'[Origin(v)]
          \/ Origin(v) \in versioned' /\ \E f \in addressed'[Origin(v)] : f[2] = e[2]
      BY <1>1, <3>1 DEF Reach
    <3> QED BY <1>1, <3>1, <3>2 DEF Sent, Known, Reach, Origin, Entries
  <2> QED BY <1>1, <2>2 DEF Grows, Known, Origin
<1>3. ASSUME NEW f \in file PROVE Sent(<<i, f.key>>, f.row.value)'
  <2> DEFINE v == f.row.value
             e == <<i, f.key>>
  <2>1. v \in Values /\ e \in Entries
    BY RowFacts DEF TypeOK, Entries
  <2>2. Origin(v) \in WriteIds /\ Origin(v) <= writes
    BY <2>1, ValueFacts DEF Placed, Known
  <2>3. e \in to(Origin(v))
    BY DEF to
  <2>4. e \in addressed'[Origin(v)] /\ Origin(v) <= writes'
    BY <1>1, <2>2, <2>3
  <2> QED BY <2>1, <2>4 DEF Sent, Known, Origin, Reach, Entries
<1> QED BY <1>2, <1>3

\* What a DEL, a SET or a pipeline does to a name: it holds what it held, or what
\* was stored under it for some entry.
LEMMA EntriesHaveNames ==
  ASSUME NEW i \in Instances, NEW k \in Keys
  PROVE  <<i, k>> \in Entries /\ NameOf(<<i, k>>) = CacheKey(i, k) /\ CacheKey(i, k) \in Names
  BY DEF Entries, NameOf, Names

LEMMA StoredNames ==
  ASSUME NEW i \in Instances, NEW ks \in SUBSET Keys, NEW n, NEW p \in Names,
         redis' = Stored(i, ks, n)
  PROVE  \/ redis'[p] = redis[p]
         \/ redis'[p] = n /\ \E k \in ks : p = NameOf(<<i, k>>)
  BY DEF Stored, NameOf

LEMMA LoadedNames ==
  ASSUME TypeOK, NEW batch \in SUBSET load.left, NEW p \in Names, redis' = Loaded(batch)
  PROVE  \/ redis'[p] = redis[p]
         \/ \E b \in batch : p = NameOf(<<load.inst, b[1]>>) /\ redis'[p] = b[2]
<1> DEFINE of == CHOOSE b \in batch : p = CacheKey(load.inst, b[1])
<1>1. redis'[p] = IF \E b \in batch : p = CacheKey(load.inst, b[1]) THEN of[2] ELSE redis[p]
  BY DEF Loaded
<1>2. CASE \E b \in batch : p = CacheKey(load.inst, b[1])
  <2>1. of \in batch /\ p = CacheKey(load.inst, of[1])
    BY <1>2
  <2> HIDE DEF of
  <2> QED BY <1>1, <1>2, <2>1 DEF NameOf
<1>3. CASE ~\E b \in batch : p = CacheKey(load.inst, b[1])
  BY <1>1, <1>3
<1> QED BY <1>2, <1>3
-----------------------------------------------------------------------------
(* Every step keeps Placed                                                 *)

LEMMA RowsPlaced ==
  ASSUME TypeOK, Placed, Grows,
         \A e \in Entries : \/ rows'[e] = rows[e] \/ rows'[e] = NoRow
                            \/ \E v \in Values : rows'[e].value = v /\ Sent(e, v)'
  PROVE  (\A e \in Entries : Has(e) => Sent(e, rows[e].value))'
<1> SUFFICES ASSUME NEW e \in Entries, Has(e)' PROVE Sent(e, rows[e].value)'
  BY DEF Entries
<1>1. CASE rows'[e] = rows[e]
  <2>1. Has(e) /\ rows[e] \in Row
    BY <1>1 DEF Has, TypeOK
  <2>2. rows[e].value \in Values /\ Sent(e, rows[e].value)
    BY <2>1, RowFacts DEF Placed
  <2>3. PICK v \in Values : v = rows[e].value
    BY <2>2
  <2>4. Sent(e, v)'
    BY <2>2, <2>3 DEF Grows
  <2> QED BY <1>1, <2>3, <2>4
<1>2. CASE rows'[e] = NoRow
  BY <1>2 DEF Has
<1>3. CASE \E v \in Values : rows'[e].value = v /\ Sent(e, v)'
  BY <1>3
<1> QED BY <1>1, <1>2, <1>3

LEMMA RedisPlaced ==
  ASSUME TypeOK, Placed, Grows,
         \A p \in Names : \/ redis'[p] = redis[p] \/ redis'[p] = None
                          \/ \E v \in Values, e \in Entries :
                               redis'[p] = v /\ p = NameOf(e) /\ Sent(e, v)'
  PROVE  (\A p \in Names : redis[p] # None => Under(p, redis[p]))'
<1> SUFFICES ASSUME NEW p \in Names, redis'[p] # None PROVE Under(p, redis[p])'
  BY NamesStay
<1>1. CASE redis'[p] = redis[p]
  <2>1. redis[p] \in Values
    BY <1>1 DEF TypeOK
  <2>2. PICK v \in Values : v = redis[p]
    BY <2>1
  <2>3. PICK e \in Entries : p = NameOf(e) /\ Sent(e, v)
    BY <1>1, <2>2 DEF Placed, Under
  <2>4. Sent(e, v)'
    BY <2>3 DEF Grows
  <2>5. redis'[p] = v /\ \E d \in Entries : p = NameOf(d) /\ Sent(d, v)'
    BY <1>1, <2>2, <2>3, <2>4
  <2> QED BY <2>5 DEF Under, Entries, NameOf, CacheKey, BuildKey
<1>2. CASE \E v \in Values, e \in Entries : redis'[p] = v /\ p = NameOf(e) /\ Sent(e, v)'
  <2>1. PICK v \in Values, e \in Entries : redis'[p] = v /\ p = NameOf(e) /\ Sent(e, v)'
    BY <1>2
  <2> QED BY <2>1 DEF Under, Entries, NameOf, CacheKey, BuildKey
<1> QED BY <1>1, <1>2

LEMMA LoadPlaced ==
  ASSUME TypeOK, Placed, Grows, load'.left \subseteq load.left,
         load'.left # {} => load'.inst = load.inst
  PROVE  (\A b \in load.left : Sent(<<load.inst, b[1]>>, b[2]))'
<1> SUFFICES ASSUME NEW b \in load'.left PROVE Sent(<<load.inst, b[1]>>, b[2])'
  OBVIOUS
<1>1. b \in load.left /\ load'.inst = load.inst /\ load.inst \in Instances /\ b \in Keys \X Values
  BY DEF TypeOK
<1>2. PICK e \in Entries : e = <<load.inst, b[1]>>
  BY <1>1 DEF Entries
<1>3. Sent(e, b[2]) /\ b[2] \in Values
  BY <1>1, <1>2 DEF Placed
<1>4. Sent(e, b[2])'
  BY <1>3 DEF Grows
<1> QED BY <1>1, <1>2, <1>4 DEF Sent, Known

LEMMA FilePlaced ==
  ASSUME TypeOK, Placed, Grows, file' = file
  PROVE  (\A f \in file : Known(f.row.value))'
<1> SUFFICES ASSUME NEW f \in file PROVE Known(f.row.value)'
  OBVIOUS
<1>1. f.row.value \in Values /\ Known(f.row.value)
  BY RowFacts DEF TypeOK, Placed
<1> QED BY <1>1 DEF Grows

LEMMA PlacedRepository ==
  ASSUME TypeOK, Placed, Repository
  PROVE  Placed'
<1>1. ASSUME NEW k \in Keys, NEW n \in WriteIds, NEW t \in TTLs, NEW i \in Instances,
             SetWithInstance(i, k, n, t)
      PROVE  Placed'
  <2>1. /\ Bring(n, {<<i, k>>}) /\ Put(<<i, k>>, n, t)
        /\ redis' = redis /\ load' = load /\ file' = file /\ versioned' = versioned
    BY <1>1 DEF SetWithInstance
  <2>2. {<<i, k>>} \in SUBSET Entries /\ n \in Values /\ Origin(n) = n
    BY ValueFacts DEF Entries
  <2>3. Grows /\ Sent(<<i, k>>, n)'
    BY <2>1, <2>2, NewCallGrows
  <2>4. rows'[<<i, k>>].value = n /\ \A e \in Entries \ {<<i, k>>} : rows'[e] = rows[e]
    BY <2>1, <2>2, RowPut
  <2>5. \A e \in Entries : \/ rows'[e] = rows[e]
                           \/ \E v \in Values : rows'[e].value = v /\ Sent(e, v)'
    BY <2>2, <2>3, <2>4
  <2> QED BY <2>1, <2>3, <2>5, RowsPlaced, RedisPlaced, LoadPlaced, FilePlaced DEF Placed
<1>2. ASSUME NEW d \in Entries, NEW n \in WriteIds, NEW t \in TTLs, NEW version,
             SetWithVersion(d, n, t, version)
      PROVE  Placed'
  <2>1. /\ Bring(n, {d}) /\ versioned' = versioned \cup {n}
        /\ redis' = redis /\ load' = load /\ file' = file
    BY <1>2 DEF SetWithVersion
  <2>2. n \in Values /\ Origin(n) = n
    BY ValueFacts
  <2>3. Grows /\ \A e \in Entries : e[2] = d[2] => Sent(e, n)'
    <3>1. {d} \in SUBSET Entries /\ versioned \subseteq versioned' /\ n \in versioned'
      BY <2>1
    <3>2. /\ Grows
          /\ \A e \in Entries, v \in Values :
               Origin(v) = n /\ (\E f \in {d} : f[2] = e[2]) => Sent(e, v)'
      BY <2>1, <3>1, NewCallGrows
    <3> QED BY <2>2, <3>2
  <2>4. ASSUME NEW e \in Entries
        PROVE  \/ rows'[e] = rows[e]
               \/ \E v \in Values : rows'[e].value = v /\ Sent(e, v)'
    <3>1. \A f \in Entries : rows'[f] = rows[f] \/ (f[2] = d[2] /\ rows'[f].value = n)
      BY <1>2, RowsVersioned
    <3> QED BY <2>2, <2>3, <3>1
  <2> QED BY <2>1, <2>3, <2>4, RowsPlaced, RedisPlaced, LoadPlaced, FilePlaced DEF Placed
<1>3. ASSUME NEW e \in Entries, FindExpired(e)
      PROVE  Placed'
  <2>1. UNCHANGED <<rows, redis, load, file, writes, addressed, versioned>>
    BY <1>3 DEF FindExpired, counts, ghosts
  <2> QED BY <2>1, SameCallsGrow, RowsPlaced, RedisPlaced, LoadPlaced, FilePlaced DEF Placed
<1>4. ASSUME NEW es, Remove(es), UNCHANGED <<redis, load, file, writes, addressed, versioned>>
      PROVE  Placed'
  <2>1. Grows
    BY <1>4, SameCallsGrow
  <2>2. \A e \in Entries : rows'[e] = rows[e] \/ rows'[e] = NoRow
    BY <1>4 DEF Remove
  <2> QED BY <1>4, <2>1, <2>2, RowsPlaced, RedisPlaced, LoadPlaced, FilePlaced DEF Placed
<1>5. ASSUME NEW e \in Entries, Reap(e)
      PROVE  Placed'
  BY <1>4, <1>5 DEF Reap, counts, ghosts
<1>6. ASSUME NEW es, Delete(es)
      PROVE  Placed'
  BY <1>4, <1>6 DEF Delete, ghosts
<1>7. ASSUME CleanupExpired
      PROVE  Placed'
  BY <1>4, <1>7 DEF CleanupExpired, counts, ghosts
<1> QED BY <1>1, <1>2, <1>3, <1>5, <1>6, <1>7 DEF Repository

LEMMA PlacedCache ==
  ASSUME TypeOK, Placed, Client \/ Cache
  PROVE  Placed'
<1>1. ASSUME NEW asked \in Asked, NEW n \in WriteIds, NEW k \in Keys, ClientSet(asked, k, n)
      PROVE  Placed'
  <2>1. PICK i \in Target(asked), valid \in BOOLEAN :
          /\ Bring(n, Meant(asked, i, {k}))
          /\ Put(<<i, k>>, Wrap(n, valid), NoTTL)
          /\ UNCHANGED <<now, redis, reaping, load, file, versioned>>
    BY <1>1 DEF ClientSet
  <2> DEFINE w == Wrap(n, valid)
  <2>2. i \in Instances /\ Meant(asked, i, {k}) = {i} \X {k}
    BY TargetFacts
  <2>3. w \in Values /\ Origin(w) = n
    BY ValueFacts
  <2>4. /\ Meant(asked, i, {k}) \in SUBSET Entries
        /\ <<i, k>> \in Meant(asked, i, {k})
    BY <2>2 DEF Entries
  <2> HIDE DEF w
  <2>5. Grows /\ Sent(<<i, k>>, w)'
    BY <2>1, <2>3, <2>4, NewCallGrows
  <2>6. rows'[<<i, k>>].value = w /\ \A e \in Entries \ {<<i, k>>} : rows'[e] = rows[e]
    BY <2>1, <2>2, <2>3, RowPut DEF w
  <2>7. \A e \in Entries : \/ rows'[e] = rows[e]
                           \/ \E v \in Values : rows'[e].value = v /\ Sent(e, v)'
    BY <2>3, <2>5, <2>6
  <2> QED BY <2>1, <2>5, <2>7, RowsPlaced, RedisPlaced, LoadPlaced, FilePlaced DEF Placed
<1>2. ASSUME NEW asked \in Asked, NEW ks \in SUBSET Keys, CacheDelete(asked, ks)
      PROVE  Placed'
  <2>1. PICK i \in Target(asked) : redis' = Stored(i, ks, None)
    BY <1>2 DEF CacheDelete
  <2>2. UNCHANGED <<rows, load, file, writes, addressed, versioned>>
    BY <1>2 DEF CacheDelete, counts, ghosts
  <2>3. i \in Instances
    BY TargetFacts
  <2>4. \A p \in Names : redis'[p] = redis[p] \/ redis'[p] = None
    BY <2>1, <2>3, StoredNames
  <2> QED BY <2>2, <2>4, SameCallsGrow, RowsPlaced, RedisPlaced, LoadPlaced, FilePlaced DEF Placed
<1>3. ASSUME NEW asked \in Asked, NEW ks \in SUBSET Keys, NEW n \in WriteIds,
             CacheSet(asked, ks, n)
      PROVE  Placed'
  <2>1. PICK i \in Target(asked), done \in SUBSET ks :
          /\ Bring(n, Meant(asked, i, ks)) /\ redis' = Stored(i, done, n)
    BY <1>3 DEF CacheSet
  <2>2. UNCHANGED <<rows, load, file, versioned>>
    BY <1>3 DEF CacheSet
  <2>3. i \in Instances /\ Meant(asked, i, ks) = {i} \X ks
    BY TargetFacts
  <2>4. Meant(asked, i, ks) \in SUBSET Entries /\ n \in Values /\ Origin(n) = n
    BY <2>3, ValueFacts DEF Entries
  <2>5. Grows /\ \A e \in Meant(asked, i, ks) : Sent(e, n)'
    BY <2>1, <2>2, <2>4, NewCallGrows
  <2>6. ASSUME NEW p \in Names
        PROVE  \/ redis'[p] = redis[p]
               \/ \E v \in Values, e \in Entries : redis'[p] = v /\ p = NameOf(e) /\ Sent(e, v)'
    <3>1. done \in SUBSET Keys
      OBVIOUS
    <3>2. CASE redis'[p] = n /\ \E k \in done : p = NameOf(<<i, k>>)
      <4>1. PICK k \in done : p = NameOf(<<i, k>>)
        BY <3>2
      <4>2. PICK e \in Entries : e = <<i, k>> /\ e \in Meant(asked, i, ks)
        BY <2>3, <2>4
      <4> QED BY <2>4, <2>5, <3>2, <4>1, <4>2
    <3>3. \/ redis'[p] = redis[p]
          \/ redis'[p] = n /\ \E k \in done : p = NameOf(<<i, k>>)
      BY <2>1, <2>3, <3>1, StoredNames
    <3> QED BY <3>2, <3>3
  <2> QED BY <2>2, <2>5, <2>6, RowsPlaced, RedisPlaced, LoadPlaced, FilePlaced DEF Placed
<1> QED BY <1>1, <1>2, <1>3 DEF Client, Cache

LEMMA PlacedOperations ==
  ASSUME TypeOK, Placed, Operations
  PROVE  Placed'
<1>1. ASSUME NEW i \in Instances, LoadInstance(i)
      PROVE  Placed'
  <2>1. UNCHANGED <<rows, redis, file, writes, addressed, versioned>>
    BY <1>1 DEF LoadInstance, Move, ghosts
  <2>2. /\ load'.inst = i
        /\ load'.left = {<<k, rows[<<i, k>>].value>> : k \in {x \in Keys : Has(<<i, x>>)}}
    BY <1>1 DEF LoadInstance
  <2>3. ASSUME NEW b \in load'.left PROVE Sent(<<load.inst, b[1]>>, b[2])'
    <3>1. PICK k \in {x \in Keys : Has(<<i, x>>)} : b = <<k, rows[<<i, k>>].value>>
      BY <2>2, Zenon
    <3>2. <<i, k>> \in Entries /\ Has(<<i, k>>) /\ b[1] = k /\ b[2] = rows[<<i, k>>].value
      BY <3>1 DEF Entries
    <3>3. Sent(<<i, k>>, b[2])
      BY <3>2 DEF Placed
    <3> QED BY <2>1, <2>2, <3>2, <3>3 DEF Sent, Known, Origin, Reach, Entries
  <2> QED BY <2>1, <2>3, SameCallsGrow, RowsPlaced, RedisPlaced, FilePlaced DEF Placed
<1>2. ASSUME NEW i \in Instances, BackupInstance(i)
      PROVE  Placed'
  <2>1. UNCHANGED <<rows, redis, load, writes, addressed, versioned>>
    BY <1>2 DEF BackupInstance, Move, ghosts
  <2>2. PICK ks \in SUBSET {k \in Keys : Has(<<i, k>>)} :
          file' = {[key |-> k, row |-> rows[<<i, k>>]] : k \in ks}
    BY <1>2 DEF BackupInstance
  <2>3. ASSUME NEW f \in file' PROVE Known(f.row.value)'
    <3>1. PICK k \in ks : f = [key |-> k, row |-> rows[<<i, k>>]]
      BY <2>2, Zenon
    <3>2. <<i, k>> \in Entries /\ Has(<<i, k>>) /\ f.row.value = rows[<<i, k>>].value
      BY <2>2, <3>1 DEF Entries
    <3>3. Known(f.row.value)
      BY <3>2 DEF Placed, Sent
    <3> QED BY <2>1, <3>3 DEF Known, Origin
  <2> QED BY <2>1, <2>3, SameCallsGrow, RowsPlaced, RedisPlaced, LoadPlaced DEF Placed
<1>3. ASSUME NEW i \in Instances, RestoreInstance(i)
      PROVE  Placed'
  <2>1. Grows /\ \A f \in file : Sent(<<i, f.key>>, f.row.value)'
    BY <1>3, RestoreGrows
  <2>2. UNCHANGED <<redis, load, file>>
    BY <1>3 DEF RestoreInstance
  <2>3. ASSUME NEW e \in Entries
        PROVE  \/ rows'[e] = rows[e]
               \/ \E v \in Values : rows'[e].value = v /\ Sent(e, v)'
    <3>1. CASE e[1] = i /\ \E f \in file : f.key = e[2] /\ rows'[e].value = f.row.value
      <4>1. PICK f \in file : f.key = e[2] /\ rows'[e].value = f.row.value
        BY <3>1
      <4>2. e = <<i, f.key>>
        BY <3>1, <4>1 DEF Entries
      <4>3. f.row.value \in Values
        BY RowFacts DEF TypeOK
      <4>4. PICK v \in Values : v = f.row.value
        BY <4>3
      <4>5. Sent(e, v)'
        BY <2>1, <4>2, <4>4
      <4> QED BY <4>1, <4>4, <4>5
    <3> QED BY <1>3, <3>1, RowsRestored
  <2> QED BY <2>1, <2>2, <2>3, RowsPlaced, RedisPlaced, LoadPlaced, FilePlaced DEF Placed
<1>4. ASSUME NEW batch \in SUBSET load.left, redis' = Loaded(batch),
             UNCHANGED <<rows, file, writes, addressed, versioned>>
      PROVE  Grows /\ (\A p \in Names : redis[p] # None => Under(p, redis[p]))'
  <2>1. Grows
    BY <1>4, SameCallsGrow
  <2>2. ASSUME NEW p \in Names
        PROVE  \/ redis'[p] = redis[p]
               \/ \E v \in Values, e \in Entries : redis'[p] = v /\ p = NameOf(e) /\ Sent(e, v)'
    <3>1. CASE \E b \in batch : p = NameOf(<<load.inst, b[1]>>) /\ redis'[p] = b[2]
      <4>1. PICK b \in batch : p = NameOf(<<load.inst, b[1]>>) /\ redis'[p] = b[2]
        BY <3>1
      <4>2. b \in load.left /\ b[1] \in Keys /\ b[2] \in Values /\ load.inst \in Instances
        BY DEF TypeOK
      <4>3. PICK e \in Entries : e = <<load.inst, b[1]>>
        BY <4>2 DEF Entries
      <4>4. Sent(e, b[2])
        BY <4>2, <4>3 DEF Placed
      <4>5. Sent(e, b[2])'
        BY <2>1, <4>2, <4>4 DEF Grows
      <4> QED BY <4>1, <4>2, <4>3, <4>5
    <3> QED BY <1>4, <3>1, LoadedNames
  <2> QED BY <2>1, <2>2, RedisPlaced
<1>5. ASSUME LoadBatch
      PROVE  Placed'
  <2>1. PICK batch \in SUBSET load.left :
          redis' = Loaded(batch) /\ load' = [load EXCEPT !.left = @ \ batch]
    BY <1>5 DEF LoadBatch
  <2>2. UNCHANGED <<rows, file, writes, addressed, versioned>>
    BY <1>5 DEF LoadBatch, counts, ghosts
  <2>3. load'.left \subseteq load.left /\ load'.inst = load.inst
    BY <2>1 DEF TypeOK
  <2> QED BY <1>4, <2>1, <2>2, <2>3, RowsPlaced, LoadPlaced, FilePlaced DEF Placed
<1>6. ASSUME LoadFails
      PROVE  Placed'
  <2>1. PICK part \in SUBSET load.left : redis' = Loaded(part)
    BY <1>6 DEF LoadFails
  <2>2. UNCHANGED <<rows, file, writes, addressed, versioned>> /\ load'.left = {}
    BY <1>6 DEF LoadFails, counts, ghosts, Idle
  <2> QED BY <1>4, <2>1, <2>2, RowsPlaced, LoadPlaced, FilePlaced DEF Placed
<1> QED BY <1>1, <1>2, <1>3, <1>5, <1>6 DEF Operations

LEMMA PlacedInit == Init => Placed
<1> SUFFICES ASSUME Init PROVE Placed
  OBVIOUS
<1>1. \A e \in Entries : ~Has(e)
  BY DEF Init, Has
<1>2. \A p \in Names : redis[p] = None
  BY DEF Init
<1>3. load.left = {} /\ file = {}
  BY DEF Init, Idle
<1> QED BY <1>1, <1>2, <1>3 DEF Placed

LEMMA PlacedNext == TypeOK /\ Placed /\ [Next]_vars => Placed'
<1> SUFFICES ASSUME TypeOK, Placed, [Next]_vars PROVE Placed'
  OBVIOUS
<1>1. CASE Tick \/ UNCHANGED vars
  <2>1. UNCHANGED <<rows, redis, load, file, writes, addressed, versioned>>
    BY <1>1 DEF Tick, vars, counts, ghosts
  <2> QED BY <2>1, SameCallsGrow, RowsPlaced, RedisPlaced, LoadPlaced, FilePlaced DEF Placed
<1> QED BY <1>1, PlacedRepository, PlacedCache, PlacedOperations DEF Next

\* Rows and cached values come from callers, for any instances and keys, names
\* that run into each other among them: a row holds what was set on its entry or
\* restored into it, or found by a SetWithVersion on its key, and a name of
\* Redis what may be in some entry of that name.
THEOREM ValuesStay == Spec => []ValuesStayInReach
<1>1. TypeOK /\ Placed => ValuesStayInReach
  <2> SUFFICES ASSUME TypeOK, Placed, NEW i \in Instances, NEW k \in Keys
               PROVE  /\ Has(<<i, k>>) => <<i, k>> \in Reach(Origin(rows[<<i, k>>].value))
                      /\ k \in DOMAIN CacheGet(i, Keys) =>
                           \E e \in Reach(Origin(CacheGet(i, Keys)[k])) :
                             CacheKey(e[1], e[2]) = CacheKey(i, k)
    BY DEF ValuesStayInReach
  <2>1. <<i, k>> \in Entries /\ CacheKey(i, k) \in Names
    BY EntriesHaveNames
  <2>2. ASSUME k \in DOMAIN CacheGet(i, Keys)
        PROVE  \E e \in Reach(Origin(CacheGet(i, Keys)[k])) : CacheKey(e[1], e[2]) = CacheKey(i, k)
    <3>1. redis[CacheKey(i, k)] # None /\ CacheGet(i, Keys)[k] = redis[CacheKey(i, k)]
      BY <2>2 DEF CacheGet
    <3>2. Under(CacheKey(i, k), redis[CacheKey(i, k)])
      BY <2>1, <3>1 DEF Placed
    <3> QED BY <3>1, <3>2 DEF Under, Sent, NameOf
  <2> QED BY <2>1, <2>2 DEF Placed, Sent
<1> QED BY <1>1, TypeInit, TypeNext, PlacedInit, PlacedNext, PTL DEF Spec

\* Nothing that a reader of the cache is shown is another entry's.
OwnValuesOnly ==
  \A i \in Instances, k \in Keys :
    k \in DOMAIN CacheGet(i, Keys) => <<i, k>> \in Reach(Origin(CacheGet(i, Keys)[k]))

\* If no identifier goes on where the names of another have "cache", what Redis
\* shows for a key of an instance may be in the row of that key of that instance:
\* identifiers of one segment are enough.
THEOREM ApartValuesStay ==
  ASSUME \A i \in Instances, j \in Instances : ~Shadows(Segments, i, j)
  PROVE  Spec => []OwnValuesOnly
<1>1. ValuesStayInReach => OwnValuesOnly
  <2> SUFFICES ASSUME ValuesStayInReach, NEW i \in Instances, NEW k \in Keys,
                      k \in DOMAIN CacheGet(i, Keys)
               PROVE  <<i, k>> \in Reach(Origin(CacheGet(i, Keys)[k]))
    BY DEF OwnValuesOnly
  <2>1. PICK e \in Reach(Origin(CacheGet(i, Keys)[k])) : CacheKey(e[1], e[2]) = CacheKey(i, k)
    BY DEF ValuesStayInReach
  <2>2. e \in Entries
    BY DEF Reach
  <2>3. PICK j \in Instances, l \in Keys : e = <<j, l>>
    BY <2>2 DEF Entries
  <2>4. /\ SegmentSet(Segments) /\ i \in Ids(Segments) /\ j \in Ids(Segments)
        /\ k \in Strings(Segments) /\ l \in Strings(Segments)
    BY DEF SegmentSet, Ids, Strings
  <2>5. CacheKey(j, l) = CacheKey(i, k)
    BY <2>1, <2>3
  <2>6. ~Shadows(Segments, i, j) /\ ~Shadows(Segments, j, i)
    OBVIOUS
  <2>7. j = i /\ l = k
    BY <2>4, <2>5, <2>6, NamesAreUnique
  <2> QED BY <2>3, <2>7
<1> QED BY <1>1, ValuesStay, PTL
=============================================================================
