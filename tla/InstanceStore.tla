--------------------------- MODULE InstanceStore ---------------------------
(***************************************************************************)
(* The entries of all instances, in the table cache_entries of PostgreSQL  *)
(* (internal/database, scripts/init-db.sql) and in Redis (internal/cache), *)
(* and the operations that move them between the two and to a backup       *)
(* (internal/operations).                                                  *)
(*                                                                         *)
(* A statement of PostgreSQL and a transaction are one step each; a call   *)
(* of Go that sends two statements is two steps.  Values are named by the  *)
(* number of the call that brought them.  Time is counted in the seconds   *)
(* a TTL is counted in; PostgreSQL and the process agree on it.            *)
(***************************************************************************)
EXTENDS InstanceKeys, Integers, FiniteSets

CONSTANTS Segments,    \* what may be between two ":" of a name
          Instances,   \* identifiers of instances, as sequences of segments
          Keys,        \* keys of clients, likewise
          Configured,  \* the instance a cache or client was made for
          TTLs,        \* what a caller gives for the TTL
          BatchSize,   \* LoadInstance: rows in one batch
          Limit,       \* CleanupExpired: rows looked at
          Faults,      \* may Redis fail, and a result set end early?
          MaxTime, MaxWrites, MaxDeletes, MaxMoves  \* bounds

\* NULL: the row never expires.
NoTTL == -1

\* The instance of those who name none.
Global == <<"global">>

ASSUME StoreAssumption ==
  /\ {Prefix, CacheKind} \subseteq Segments
  /\ Instances \subseteq Seq(Segments) \ {<<>>, NoInstance}
  /\ Keys \subseteq Seq(Segments) \ {<<>>}
  /\ {Global, Configured} \subseteq Instances
  /\ NoTTL \in TTLs /\ TTLs \subseteq Nat \cup {NoTTL}
  /\ BatchSize \in Nat \ {0} /\ Limit \in Nat \ {0} /\ Faults \in BOOLEAN
  /\ MaxTime \in Nat /\ MaxWrites \in Nat /\ MaxDeletes \in Nat /\ MaxMoves \in Nat

VARIABLES rows,     \* the table: one row or none per instance and key
          now,      \* CURRENT_TIMESTAMP
          redis,    \* the value Redis holds under each name, 0 if none
          reaping,  \* rows a Get has found expired and is about to delete
          load,     \* the LoadInstance that is running
          file,     \* the rows in the last backup
          writes, deletes, moves,   \* calls made so far
          addressed, \* the entries each value was meant for, by its callers
          versioned  \* the values SetWithVersion has brought

counts == <<writes, deletes, moves>>
ghosts == <<addressed, versioned>>
vars   == <<rows, now, redis, reaping, load, file, counts, ghosts>>

Entries  == Instances \X Keys
Names    == {CacheKey(i, k) : i \in Instances \cup {NoInstance}, k \in Keys}
WriteIds == 1 .. MaxWrites
None     == 0

\* json.Marshal of bytes that are not JSON makes them a base64 string, which
\* is another value; nothing turns it back.
Wrap(n, valid) == IF valid THEN n ELSE n + MaxWrites
Origin(v)      == IF v > MaxWrites THEN v - MaxWrites ELSE v
Values         == {Wrap(n, valid) : n \in WriteIds, valid \in BOOLEAN}

Row   == [value : Values, version : Nat \ {0}, ttl : TTLs, updated : 0 .. MaxTime]
NoRow == [value |-> None, version |-> 0, ttl |-> NoTTL, updated |-> 0]

Idle == [inst |-> NoInstance, left |-> {}]

Init == /\ rows = [e \in Entries |-> NoRow]
        /\ now = 0
        /\ redis = [p \in Names |-> None]
        /\ reaping = {}
        /\ load = Idle
        /\ file = {}
        /\ writes = 0 /\ deletes = 0 /\ moves = 0
        /\ addressed = [n \in WriteIds |-> {}] /\ versioned = {}

-----------------------------------------------------------------------------
(* Which instance a call is about                                          *)

\* The instance of the context if it has one.
Resolve(asked, fallback) == IF asked = NoInstance THEN fallback ELSE asked

\* Callers ask for an instance, or for none; InstanceCache and
\* PostgreSQLClient fall back on theirs, ContextCache and the repository's
\* methods without an instance on "global".
Target(asked) == {Resolve(asked, Configured), Resolve(asked, Global)}
Asked         == Instances \cup {NoInstance}

\* The next call brings a value, meant for these entries.
Bring(n, es) == /\ n = writes + 1 /\ n \in WriteIds
                /\ writes' = n
                /\ addressed' = [addressed EXCEPT ![n] = es]
                /\ UNCHANGED <<deletes, moves>>

\* What the caller means: the instance it asked for, if it asked for one.
Meant(asked, i, ks) == {IF asked = NoInstance THEN i ELSE asked} \X ks

-----------------------------------------------------------------------------
(* Rows: expiry                                                            *)

\* CacheEntry.IsExpired, on the clock of the process.
IsExpired(r) == r.ttl # NoTTL /\ r.ttl > 0 /\ now > r.updated + r.ttl

\* Mutant of SqlExpired: a row has expired in the second before its last.
SqlExpired_TooEarly(r) == r.ttl # NoTTL /\ r.updated + r.ttl <= now

\* The conditions on the TTL in the statements, on PostgreSQL's clock.
SqlLive(r)    == r.ttl = NoTTL \/ r.updated + r.ttl > now
SqlExpired(r) == r.ttl # NoTTL /\ r.updated + r.ttl < now

Has(e) == rows[e] # NoRow

Get(e)               == Has(e) /\ ~IsExpired(rows[e])
Exists(e)            == Has(e) /\ SqlLive(rows[e])
BatchGet(ks)         == {e \in Instances \X ks : Get(e)}
BatchGetIn(i, ks)    == {e \in {i} \X ks : Get(e)}
AllKeys              == {e[2] : e \in {f \in Entries : Exists(f)}}
KeysByInstance(i)    == {k \in Keys : Exists(<<i, k>>)}
ExpiredRows          == {e \in Entries : Has(e) /\ SqlExpired(rows[e])}

-----------------------------------------------------------------------------
(* Rows: changes                                                           *)

\* Mutant of Trigger: only updated_at has a trigger.
Trigger_TimeOnly(old, new) == [new EXCEPT !.updated = now]

\* The triggers of cache_entries have the last word on every UPDATE.
Trigger(old, new) == [new EXCEPT !.version = old.version + 1, !.updated = now]

\* INSERT ... ON CONFLICT DO UPDATE with the row new.
Upsert(old, new) == IF old = NoRow THEN new ELSE Trigger(old, new)

\* Mutant of Remove: a row is emptied and stays.
Remove_Softly(es) ==
  rows' = [e \in Entries |-> IF e \in es THEN [rows[e] EXCEPT !.value = None] ELSE rows[e]]

Remove(es) == rows' = [e \in Entries |-> IF e \in es THEN NoRow ELSE rows[e]]

Put(e, v, t) == rows' = [rows EXCEPT ![e] =
                  Upsert(@, [value |-> v, version |-> @.version + 1, ttl |-> t, updated |-> now])]

SetWithInstance(i, k, n, t) ==
  /\ Bring(n, {<<i, k>>})
  /\ Put(<<i, k>>, n, t)
  /\ UNCHANGED <<now, redis, reaping, load, file, versioned>>

\* PostgreSQLClient: no TTL, and any bytes, JSON or not.
ClientSet(asked, k, n) ==
  \E i \in Target(asked), valid \in BOOLEAN :
    /\ Bring(n, Meant(asked, i, {k}))
    /\ Put(<<i, k>>, Wrap(n, valid), NoTTL)
    /\ UNCHANGED <<now, redis, reaping, load, file, versioned>>

\* The condition of the statement: a key and a version, and no instance.
Versioned(k, version) == {e \in Instances \X {k} : Has(e) /\ rows[e].version = version}

\* The caller means e, whose row it has read, at this version or an earlier one;
\* the statement changes every row of that key with the version it expects.
SetWithVersion(e, n, t, version) ==
  LET es == Versioned(e[2], version)
  IN  /\ Has(e) /\ version <= rows[e].version
      /\ es # {}       \* otherwise: ErrVersionMismatch
      /\ Bring(n, {e})
      /\ versioned' = versioned \cup {n}
      /\ rows' = [f \in Entries |->
                    IF f \in es THEN Trigger(rows[f], [rows[f] EXCEPT !.value = n, !.ttl = t])
                                ELSE rows[f]]
      /\ UNCHANGED <<now, redis, reaping, load, file>>

\* GetWithInstance finds an expired row, and deletes what is there next.
FindExpired(e) == /\ Has(e) /\ IsExpired(rows[e])
                  /\ reaping' = reaping \cup {e}
                  /\ UNCHANGED <<rows, now, redis, load, file, counts, ghosts>>

Reap(e) == /\ e \in reaping
           /\ reaping' = reaping \ {e}
           /\ Remove({e})
           /\ UNCHANGED <<now, redis, load, file, counts, ghosts>>

\* DeleteWithInstance, or DeleteByInstance for all its keys; also the data
\* step of DeleteInstance, which leaves the cache alone.
Delete(es) == /\ deletes < MaxDeletes
              /\ \E e \in es : Has(e)
              /\ deletes' = deletes + 1
              /\ Remove(es)
              /\ UNCHANGED <<now, redis, reaping, load, file, writes, moves, ghosts>>

\* The keys of at most Limit expired rows, in every instance.
CleanupExpired ==
  \E es \in SUBSET ExpiredRows :
    /\ es # {}
    /\ Cardinality(es) <= Limit
    /\ es = ExpiredRows \/ Cardinality(es) = Limit
    /\ Remove({e \in Entries : \E f \in es : f[2] = e[2]})
    /\ UNCHANGED <<now, redis, reaping, load, file, counts, ghosts>>

Tick == /\ now < MaxTime /\ now' = now + 1
        /\ UNCHANGED <<rows, redis, reaping, load, file, counts, ghosts>>

-----------------------------------------------------------------------------
(* Redis                                                                   *)

Stored(i, ks, n) == [p \in Names |-> IF \E k \in ks : p = CacheKey(i, k)
                                       THEN n ELSE redis[p]]

\* Set, or SetMultiple for several keys: a pipeline, of which a part is done
\* when it fails.
CacheSet(asked, ks, n) ==
  \E i \in Target(asked) :
    /\ Bring(n, Meant(asked, i, ks))
    /\ \E done \in SUBSET ks : /\ Faults \/ done = ks
                               /\ redis' = Stored(i, done, n)
    /\ UNCHANGED <<rows, now, reaping, load, file, versioned>>

\* Delete, DeleteMultiple: one DEL.
CacheDelete(asked, ks) ==
  \E i \in Target(asked) :
    /\ redis' = Stored(i, ks, None)
    /\ redis' # redis
    /\ UNCHANGED <<rows, now, reaping, load, file, counts, ghosts>>

\* GetMultiple, Get and Exists: what the names of these keys hold, by key.
CacheGet(i, ks) == [k \in {x \in ks : redis[CacheKey(i, x)] # None} |-> redis[CacheKey(i, k)]]

-----------------------------------------------------------------------------
(* Loading, backup and restore                                             *)

Move == moves < MaxMoves /\ moves' = moves + 1 /\ UNCHANGED <<writes, deletes>>

\* The result of the query: every row of i, the expired ones too.
LoadInstance(i) ==
  /\ load.left = {} /\ Move
  /\ load' = [inst |-> i, left |-> {<<k, rows[<<i, k>>].value>> : k \in {x \in Keys : Has(<<i, x>>)}}]
  /\ UNCHANGED <<rows, now, redis, reaping, file, ghosts>>

\* Mutant of Loaded: the names lack the part that CacheKey adds.
Loaded_BuildKey(batch) ==
  [p \in Names |-> IF \E b \in batch : p = BuildKey(load.inst, b[1])
                     THEN (CHOOSE b \in batch : p = BuildKey(load.inst, b[1]))[2]
                     ELSE redis[p]]

Loaded(batch) ==
  [p \in Names |-> IF \E b \in batch : p = CacheKey(load.inst, b[1])
                     THEN (CHOOSE b \in batch : p = CacheKey(load.inst, b[1]))[2]
                     ELSE redis[p]]

\* SetMultiple of a full batch, or of the rest.  What the rows and the cache
\* hold by now is not looked at.
LoadBatch ==
  /\ load.left # {}
  /\ \E batch \in SUBSET load.left :
       /\ batch # {} /\ Cardinality(batch) <= BatchSize
       /\ batch = load.left \/ Cardinality(batch) = BatchSize
       /\ redis' = Loaded(batch)
       /\ load' = [load EXCEPT !.left = @ \ batch]
  /\ UNCHANGED <<rows, now, reaping, file, counts, ghosts>>

\* SetMultiple fails, having stored a part: the load is given up.  A result
\* that ends early, which LoadInstance takes for complete, does the same.
LoadFails == /\ Faults /\ load.left # {}
             /\ \E part \in SUBSET load.left : redis' = Loaded(part)
             /\ load' = Idle
             /\ UNCHANGED <<rows, now, reaping, file, counts, ghosts>>

\* rows.Err is not asked for: a result that ends early is a complete backup.
BackupInstance(i) ==
  /\ Move
  /\ \E ks \in SUBSET {k \in Keys : Has(<<i, k>>)} :
       /\ Faults \/ \A k \in Keys : Has(<<i, k>>) => k \in ks
       /\ file' = {[key |-> k, row |-> rows[<<i, k>>]] : k \in ks}
  /\ UNCHANGED <<rows, now, redis, reaping, load, ghosts>>

\* Into any instance, in one transaction; an entry that exists is updated, with
\* the triggers' version and time.
RestoreInstance(i) ==
  /\ Move /\ file # {}
  /\ rows' = [e \in Entries |->
                IF e[1] = i /\ \E f \in file : f.key = e[2]
                  THEN Upsert(rows[e], (CHOOSE f \in file : f.key = e[2]).row)
                  ELSE rows[e]]
  /\ addressed' = [n \in WriteIds |-> addressed[n] \cup
                     {<<i, f.key>> : f \in {g \in file : Origin(g.row.value) = n}}]
  /\ UNCHANGED <<now, redis, reaping, load, file, versioned>>

-----------------------------------------------------------------------------
Repository ==
  \/ \E n \in WriteIds, t \in TTLs :
       \/ \E i \in Instances, k \in Keys : SetWithInstance(i, k, n, t)
       \/ \E e \in Entries, version \in 1 .. MaxWrites + MaxMoves : SetWithVersion(e, n, t, version)
  \/ \E e \in Entries : FindExpired(e) \/ Reap(e) \/ Delete({e})
  \/ \E i \in Instances : Delete({i} \X Keys)
  \/ CleanupExpired

Client == \E asked \in Asked, n \in WriteIds, k \in Keys : ClientSet(asked, k, n)

Cache == \E asked \in Asked, ks \in SUBSET Keys \ {{}} :
           CacheDelete(asked, ks) \/ \E n \in WriteIds : CacheSet(asked, ks, n)

Operations == \/ \E i \in Instances : \/ LoadInstance(i) \/ BackupInstance(i)
                                      \/ RestoreInstance(i)
              \/ LoadBatch \/ LoadFails

Next == Repository \/ Client \/ Cache \/ Operations \/ Tick

Spec == Init /\ [][Next]_vars

-----------------------------------------------------------------------------
(* Properties                                                              *)

\* Every variable keeps its type; a LoadInstance and a backup hold rows of the
\* instance as they were.
TypeOK == /\ rows \in [Entries -> Row \cup {NoRow}]
          /\ now \in 0 .. MaxTime
          /\ redis \in [Names -> Values \cup {None}]
          /\ reaping \subseteq Entries
          /\ load \in [inst : Instances \cup {NoInstance}, left : SUBSET (Keys \X Values)]
          /\ load.left # {} => load.inst \in Instances
          /\ file \subseteq [key : Keys, row : Row]
          /\ writes \in 0 .. MaxWrites /\ deletes \in 0 .. MaxDeletes /\ moves \in 0 .. MaxMoves
          /\ addressed \in [WriteIds -> SUBSET Entries] /\ versioned \subseteq WriteIds

\* The entries whose rows may hold what call n brought: those it was meant for;
\* and for a SetWithVersion, which finds rows by key and version, those of the
\* same key in any instance.
Reach(n) == {e \in Entries : \/ e \in addressed[n]
                             \/ n \in versioned /\ \E f \in addressed[n] : f[2] = e[2]}

\* What a row holds was set on its entry by a caller, in whatever way it named
\* its instance, or restored into it, but for a SetWithVersion on its key; what
\* Redis holds under the name of an entry came from an entry of that name.  No
\* batch, load or restore crosses instances or keys in any other way.
ValuesStayInReach ==
  \A i \in Instances, k \in Keys :
    /\ Has(<<i, k>>) => <<i, k>> \in Reach(Origin(rows[<<i, k>>].value))
    /\ k \in DOMAIN CacheGet(i, Keys) =>
         \E e \in Reach(Origin(CacheGet(i, Keys)[k])) : CacheKey(e[1], e[2]) = CacheKey(i, k)

\* "Writes are scoped to instance ID" and "Each instance has isolated cache
\* namespace" (README.md:179-180): a call that brings a value changes no row and
\* no cached value of an entry it was not meant for, and "CleanupExpired
\* removes expired entries" (cache_repository.go:295).  The code holds to none
\* of it: identifiers and keys may run into one name, SetWithVersion finds rows
\* and CleanupExpired deletes them without their instance.
CallsStayInTheirInstance ==
  [][\A i \in Instances, k \in Keys :
       \/ rows'[<<i, k>>] # rows[<<i, k>>]
       \/ redis'[CacheKey(i, k)] # redis[CacheKey(i, k)]
       => /\ writes' > writes => <<i, k>> \in addressed'[writes']
          /\ CleanupExpired => <<i, k>> \in ExpiredRows]_vars

\* While a row stays, every change of it raises its version, whichever
\* statement makes it and whatever version a backup brings: an expected version
\* that the row has left does not come back.  This is the triggers' doing, which
\* init-db.sql creates and migrations/001 does not; a row that is removed and
\* made anew starts over.
VersionsGrow ==
  [][\A e \in Entries : Has(e) /\ rows'[e] \notin {rows[e], NoRow} =>
       rows'[e].version > rows[e].version]_vars

\* At any instant of a TTL, a key that Exists or a listing reports can be
\* read, one by one and in a batch, and what can be read and has a TTL is not
\* about to be cleaned up; a TTL of 0 is "none" to IsExpired and "at once" to
\* the statements.
ReadsAgree ==
  /\ \A i \in Instances : {i} \X KeysByInstance(i) \subseteq BatchGetIn(i, Keys)
  /\ \A k \in AllKeys : BatchGet({k}) # {}
  /\ \A e \in BatchGet(Keys) : e \in ExpiredRows => rows[e].ttl = 0
=============================================================================
