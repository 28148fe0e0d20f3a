------------------------------ MODULE Registry ------------------------------
(***************************************************************************)
(* One instance in the registry (internal/instance/registry.go), the       *)
(* middleware that admits requests to it (internal/api/middleware) and the *)
(* operations that change its status (internal/operations).                *)
(*                                                                         *)
(* The context of the instance is kept in Redis and, for CacheTTL, in the  *)
(* memory of the process.  Every operation is a goroutine that reads and   *)
(* writes the whole context and can be interrupted between any two calls   *)
(* to Redis or to the memory cache; no lock spans them.                    *)
(*                                                                         *)
(* Contexts of different instances share nothing, so one is enough.  Of a  *)
(* context we keep the NewContext that made it (its CreatedAt), Status and *)
(* IsPermanent.                                                            *)
(***************************************************************************)
EXTENDS Naturals, Sequences

CONSTANTS Tasks,      \* goroutines that may run at the same time
          IsDefault,  \* is this the default instance?
          Asked,      \* statuses that callers of Update ask for
          MaxBirths,  \* bound: calls of NewContext in a behaviour
          Faults      \* may Redis and PostgreSQL fail?

Statuses == {"active", "inactive", "migrating", "deleting", "paused"}

ASSUME RegistryAssumption == /\ Asked \subseteq Statuses
                             /\ IsDefault \in BOOLEAN /\ Faults \in BOOLEAN
                             /\ MaxBirths \in Nat

Context == [created : 1 .. MaxBirths, status : Statuses, permanent : BOOLEAN]
None    == [created |-> 0, status |-> "none", permanent |-> FALSE]

NewContext(n) == [created |-> n, status |-> "active", permanent |-> FALSE]

\* What memCache takes and gives is a copy, made field by field.
Clone(c) == [created |-> c.created, status |-> c.status, permanent |-> c.permanent]

VARIABLES redis,      \* the context Redis holds
          mem,        \* the context memCache holds, None once it has expired
          throttled,  \* is lastActivity younger than ActivityUpdateInterval?
          births,     \* calls of NewContext so far
          task        \* what each goroutine is doing

vars == <<redis, mem, throttled, births, task>>

\* A goroutine: what it is for, its next step, the context it holds, one it
\* has read and is about to cache, and the statuses it is still to register.
Jobs  == {"none", "request", "touch", "refresh", "status", "load", "delete"}
Steps == {"free", "throttle", "find", "found", "check", "checked", "save",
          "publish", "drop", "forget", "reread", "rewrite"}
Plans == {<<>>} \cup {<<s>> : s \in Statuses} \cup {<<"migrating", "active">>}
Task  == [job : Jobs, pc : Steps, own : Context \cup {None},
          got : Context \cup {None}, todo : Plans]
Idle  == [job |-> "none", pc |-> "free", own |-> None, got |-> None, todo |-> <<>>]

Init == /\ redis = None /\ mem = None
        /\ throttled = FALSE /\ births = 0
        /\ task = [t \in Tasks |-> Idle]

At(t, pc)      == task[t].pc = pc
Becomes(t, r)  == task' = [task EXCEPT ![t] = r]

\* Mutant of CanAcceptRequests: only a deletion turns requests away.
CanAcceptRequests_UnlessDeleting(c) == c.status # "deleting"

CanAcceptRequests(c) == c.status \in {"active", "migrating"}

-----------------------------------------------------------------------------
(* What a goroutine r does next                                            *)

\* The middleware's last step: turned away, or served by the handler while
\* the goroutine that records the activity takes over.
Serve(r) == IF CanAcceptRequests(r.own)
              THEN [Idle EXCEPT !.job = "touch", !.pc = "throttle"]
              ELSE Idle

\* GetOrCreate has returned r.own: the default instance is made permanent.
Enter(r) == IF IsDefault /\ ~r.own.permanent
              THEN [r EXCEPT !.own.permanent = TRUE, !.pc = "check"]
              ELSE Serve(r)

\* The next Update of an operation, or what follows its last one.
Change(r) == CASE r.todo # <<>> -> [r EXCEPT !.own.status = Head(r.todo),
                                             !.todo = Tail(r.todo), !.pc = "check"]
               [] r.todo = <<>> /\ r.job = "delete" -> [r EXCEPT !.pc = "drop"]
               [] OTHER -> Idle

\* Get has returned c: to the operation itself, or to Update, which takes
\* CreatedAt from it.
Got(r, c) ==
  LET f == [r EXCEPT !.own = c, !.got = None]
  IN  CASE r.pc \in {"check", "checked"} -> [r EXCEPT !.own.created = c.created,
                                                      !.got = None, !.pc = "save"]
        [] r.pc \in {"find", "found"} /\ r.job = "request" -> Enter(f)
        [] r.pc \in {"find", "found"} /\ r.job = "touch" -> [f EXCEPT !.pc = "save"]
        [] OTHER -> Change(f)

\* Register has returned nil.
Registered(r) == CASE r.job = "request" -> Enter(r)
                   [] r.job = "touch"   -> Idle
                   [] OTHER             -> Change(r)

\* Get, Update or Register has returned an error.  The middleware ignores it
\* when it was making the default instance permanent.
Failed(r) == IF r.job = "request" /\ r.own.permanent THEN Serve(r) ELSE Idle

-----------------------------------------------------------------------------
(* Operations begin                                                        *)

Begin(t, job, pc, todo) == /\ At(t, "free")
                           /\ Becomes(t, [Idle EXCEPT !.job = job, !.pc = pc, !.todo = todo])
                           /\ UNCHANGED <<redis, mem, throttled, births>>

\* A request under /v1/cache (a BatchGet is checked by two middlewares, one after
\* the other: two requests here).
Request(t)        == Begin(t, "request", "find", <<>>)
SetStatus(t, s)   == Begin(t, "status", "find", <<s>>)
LoadInstance(t)   == Begin(t, "load", "find", <<"migrating", "active">>)
DeleteInstance(t) == Begin(t, "delete", "find", <<"deleting">>)

\* A handler records the activity too, while it serves a request.
Handler(t) == Begin(t, "touch", "throttle", <<>>)

-----------------------------------------------------------------------------
(* Registry.Get                                                            *)

Looking(t) == At(t, "find") \/ At(t, "check")

Hit(t) == /\ Looking(t) /\ mem # None
          /\ Becomes(t, Got(task[t], Clone(mem)))
          /\ UNCHANGED <<redis, mem, throttled, births>>

\* Mutant of Fetch: a key that Redis does not have is taken for an empty
\* context.
Fetch_NilIsEmpty(t) ==
  /\ Looking(t) /\ mem = None
  /\ Becomes(t, [task[t] EXCEPT !.got = redis,
                               !.pc = IF @ = "find" THEN "found" ELSE "checked"])
  /\ UNCHANGED <<redis, mem, throttled, births>>

\* Redis answers, and the goroutine that refreshes its TTL starts.
Fetch(t) == /\ Looking(t) /\ mem = None /\ redis # None
            /\ \E g \in Tasks :
                 /\ At(g, "free")
                 /\ task' = [task EXCEPT
                      ![t] = [task[t] EXCEPT
                               !.got = redis,
                               !.pc = IF At(t, "find") THEN "found" ELSE "checked"],
                      ![g] = [Idle EXCEPT !.job = "refresh", !.pc = "reread"]]
            /\ UNCHANGED <<redis, mem, throttled, births>>

\* updateMemCache; what Redis holds may be newer by now, or gone.
Keep(t) == /\ At(t, "found") \/ At(t, "checked")
           /\ mem' = Clone(task[t].got)
           /\ Becomes(t, Got(task[t], task[t].got))
           /\ UNCHANGED <<redis, throttled, births>>

\* Mutant of Missing: Update registers an instance that does not exist.
Missing_Upserts(t) ==
  /\ Looking(t) /\ mem = None /\ redis = None
  /\ IF At(t, "find") THEN Becomes(t, Failed(task[t]))
                      ELSE Becomes(t, [task[t] EXCEPT !.pc = "save"])
  /\ UNCHANGED <<redis, mem, throttled, births>>

Missing(t) == /\ Looking(t) /\ mem = None /\ redis = None
              /\ task[t].job = "request" => At(t, "check")
              /\ Becomes(t, Failed(task[t]))
              /\ UNCHANGED <<redis, mem, throttled, births>>

\* GetOrCreate finds nothing and makes a context.
Create(t) == /\ At(t, "find") /\ task[t].job = "request"
             /\ mem = None /\ redis = None
             /\ births < MaxBirths
             /\ births' = births + 1
             /\ Becomes(t, [task[t] EXCEPT !.pc = "save", !.own = NewContext(births')])
             /\ UNCHANGED <<redis, mem, throttled>>

GetError(t) == /\ Faults /\ Looking(t) /\ mem = None
               /\ Becomes(t, Failed(task[t]))
               /\ UNCHANGED <<redis, mem, throttled, births>>

-----------------------------------------------------------------------------
(* Registry.Register                                                       *)

Save(t) == /\ At(t, "save")
           /\ redis' = task[t].own
           /\ Becomes(t, [task[t] EXCEPT !.pc = "publish"])
           /\ UNCHANGED <<mem, throttled, births>>

SaveError(t) == /\ Faults /\ At(t, "save")
                /\ redis' \in {redis, task[t].own}
                /\ Becomes(t, Failed(task[t]))
                /\ UNCHANGED <<mem, throttled, births>>

Publish(t) == /\ At(t, "publish")
              /\ mem' = Clone(task[t].own)
              /\ Becomes(t, Registered(task[t]))
              /\ UNCHANGED <<redis, throttled, births>>

-----------------------------------------------------------------------------
(* Registry.Delete, UpdateLastActive and refreshTTL                        *)

Drop(t) == /\ At(t, "drop") /\ redis # None
           /\ redis' = None
           /\ Becomes(t, [task[t] EXCEPT !.pc = "forget"])
           /\ UNCHANGED <<mem, throttled, births>>

\* Redis fails, or has no such key, which is an error too: the memory cache
\* keeps its entry.
DropError(t) == /\ At(t, "drop")
                /\ \/ redis = None /\ UNCHANGED redis
                   \/ Faults /\ redis' \in {redis, None}
                /\ Becomes(t, Idle)
                /\ UNCHANGED <<mem, throttled, births>>

Forget(t) == /\ At(t, "forget")
             /\ mem' = None /\ throttled' = FALSE
             /\ Becomes(t, Idle)
             /\ UNCHANGED <<redis, births>>

\* shouldUpdateActivity
Throttle(t) == /\ At(t, "throttle")
               /\ throttled' = TRUE
               /\ Becomes(t, IF throttled THEN Idle ELSE [task[t] EXCEPT !.pc = "find"])
               /\ UNCHANGED <<redis, mem, births>>

Reread(t) == /\ At(t, "reread")
             /\ \/ /\ redis # None
                   /\ Becomes(t, [task[t] EXCEPT !.got = redis, !.pc = "rewrite"])
                \/ (redis = None \/ Faults) /\ Becomes(t, Idle)
             /\ UNCHANGED <<redis, mem, throttled, births>>

Rewrite(t) == /\ At(t, "rewrite")
              /\ redis' = task[t].got \/ (Faults /\ UNCHANGED redis)
              /\ Becomes(t, Idle)
              /\ UNCHANGED <<mem, throttled, births>>

\* PostgreSQL or the cache fails between two registry calls of LoadInstance or
\* DeleteInstance: the status registered last stays.
DataError(t) == /\ Faults
                /\ \/ At(t, "drop")
                   \/ At(t, "check") /\ task[t].job = "load" /\ task[t].todo = <<>>
                /\ Becomes(t, Idle)
                /\ UNCHANGED <<redis, mem, throttled, births>>

-----------------------------------------------------------------------------
(* Time, and a restart of the process                                      *)

MemExpire == /\ mem # None /\ mem' = None
             /\ UNCHANGED <<redis, throttled, births, task>>

RedisExpire == /\ redis # None /\ redis' = None
               /\ UNCHANGED <<mem, throttled, births, task>>

Interval == /\ throttled /\ throttled' = FALSE
            /\ UNCHANGED <<redis, mem, births, task>>

Restart == /\ mem' = None /\ throttled' = FALSE
           /\ task' = [t \in Tasks |-> Idle]
           /\ UNCHANGED <<redis, births>>

-----------------------------------------------------------------------------
Operation(t) == \/ Request(t) \/ Handler(t) \/ LoadInstance(t) \/ DeleteInstance(t)
                \/ \E s \in Asked : SetStatus(t, s)

Step(t) == \/ Hit(t) \/ Fetch(t) \/ Keep(t) \/ Missing(t) \/ Create(t) \/ GetError(t)
           \/ Save(t) \/ SaveError(t) \/ Publish(t)
           \/ Drop(t) \/ DropError(t) \/ Forget(t)
           \/ Throttle(t) \/ Reread(t) \/ Rewrite(t) \/ DataError(t)

Next == \/ \E t \in Tasks : Operation(t) \/ Step(t)
        \/ MemExpire \/ RedisExpire \/ Interval \/ Restart

Spec == Init /\ [][Next]_vars

-----------------------------------------------------------------------------
(* Properties                                                              *)

TypeOK == /\ redis \in Context \cup {None}
          /\ mem \in Context \cup {None}
          /\ throttled \in BOOLEAN
          /\ births \in 0 .. MaxBirths
          /\ task \in [Tasks -> Task]

\* Steps at which a goroutine is going to write a context it already has, to
\* Redis or to memory, without asking whether the instance still exists.
Committed == {"found", "checked", "save", "publish", "rewrite"}

Gone == /\ redis = None /\ mem = None
        /\ \A t \in Tasks : task[t].pc \notin Committed

\* An instance in neither store that no goroutine is committed to write stays
\* gone until a request creates a new one: an Update, a load, a deletion or a
\* touch that began while it existed finds nothing and gives up.
GoneUntilCreated == [][Gone => Gone' \/ births' > births]_vars

Refusing(c) == c.status \in {"inactive", "deleting", "paused"}

\* All there is about the instance refuses requests, and nobody is asked to
\* change that.
Blocked == /\ Refusing(redis)
           /\ mem = None \/ Refusing(mem)
           /\ \A t \in Tasks :
                /\ task[t].job \notin {"status", "load"}
                /\ task[t].own = None \/ Refusing(task[t].own)
                /\ task[t].got = None \/ Refusing(task[t].got)

\* The middleware passes a request on to its handler.
Admits(t) == task[t].job = "request" /\ task'[t].job = "touch"

\* An instance that is paused, inactive or being deleted admits no request
\* until someone asks for another status or its context is gone: neither the
\* activity updates nor the TTL refreshes nor what is in memory lets one in.
RefusedUntilChanged ==
  [][Blocked => /\ \A t \in Tasks : ~Admits(t)
                /\ \/ Blocked' \/ redis' = None
                   \/ \E t \in Tasks : task'[t].job \in {"status", "load"}]_vars
=============================================================================
