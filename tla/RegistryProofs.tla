--------------------------- MODULE RegistryProofs ---------------------------
(***************************************************************************)
(* Theorems about Registry, for any number of goroutines and creations and *)
(* any statuses that are asked for.                                        *)
(***************************************************************************)
EXTENDS Registry, TLAPS

USE RegistryAssumption

-----------------------------------------------------------------------------
(* The invariant                                                           *)

\* A goroutine holds a context when it is about to write one, and what it is
\* still to register fits its job.
Sane(r) ==
  /\ r.pc \in {"check", "checked", "save", "publish", "drop"} => r.own \in Context
  /\ r.pc \in {"found", "checked", "rewrite"} => r.got \in Context
  /\ r.pc = "free" => r.job = "none"
  /\ r.pc \in {"throttle", "find", "found", "check", "checked", "save", "publish"} =>
       r.job \notin {"none", "refresh"}
  /\ r.job \in {"none", "request", "touch", "refresh"} => r.todo = <<>>
  /\ r.job = "delete" => r.todo \in {<<>>, <<"deleting">>}

TasksOK == \A t \in Tasks : task[t] \in Task /\ Sane(task[t])

Inv == TypeOK /\ TasksOK

-----------------------------------------------------------------------------
(* What a goroutine does next                                              *)

LEMMA IdleSane == Idle \in Task /\ Sane(Idle)
  BY DEF Idle, Task, Jobs, Steps, Plans, Sane

\* A goroutine that holds nothing.
LEMMA BeginSane ==
  ASSUME NEW job \in Jobs, NEW pc \in {"free", "find", "throttle", "reread"},
         NEW todo \in Plans, pc = "free" => job = "none",
         pc \in {"find", "throttle"} => job \notin {"none", "refresh"},
         job \in {"none", "request", "touch", "refresh"} => todo = <<>>,
         job = "delete" => todo \in {<<>>, <<"deleting">>}
  PROVE  LET r == [Idle EXCEPT !.job = job, !.pc = pc, !.todo = todo]
         IN  r \in Task /\ Sane(r)
<1> DEFINE r == [Idle EXCEPT !.job = job, !.pc = pc, !.todo = todo]
<1>1. r \in Task
  BY DEF Idle, Task, Steps
<1>2. Sane(r)
  BY DEF Idle, Sane
<1> QED BY <1>1, <1>2

LEMMA CloneSame == \A c \in Context \cup {None} : Clone(c) = c
  BY DEF Clone, Context, None

LEMMA ServeSane ==
  ASSUME NEW r
  PROVE  Serve(r) \in Task /\ Sane(Serve(r))
<1>1. LET s == [Idle EXCEPT !.job = "touch", !.pc = "throttle"]
      IN  s \in Task /\ Sane(s)
  BY DEF Idle, Task, Jobs, Steps, Plans, Sane
<1> QED BY <1>1, IdleSane DEF Serve

LEMMA EnterSane ==
  ASSUME NEW r \in Task, r.own \in Context, r.job = "request", r.todo = <<>>
  PROVE  Enter(r) \in Task /\ Sane(Enter(r))
<1> DEFINE s == [r EXCEPT !.own.permanent = TRUE, !.pc = "check"]
<1>1. [r.own EXCEPT !.permanent = TRUE] \in Context
  BY DEF Context
<1>2. s \in Task
  BY <1>1 DEF Task, Steps
<1>3. s.own \in Context /\ s.pc = "check" /\ s.job = "request" /\ s.todo = <<>>
  BY <1>1 DEF Task
<1> HIDE DEF s
<1>4. Sane(s)
  BY <1>3 DEF Sane
<1> QED BY <1>2, <1>4, ServeSane DEF Enter, s

LEMMA ChangeSane ==
  ASSUME NEW r \in Task, r.own \in Context, r.job \in {"status", "load", "delete"},
         r.job = "delete" => r.todo \in {<<>>, <<"deleting">>}
  PROVE  Change(r) \in Task /\ Sane(Change(r))
<1>1. CASE r.todo # <<>>
  <2> DEFINE s == [r EXCEPT !.own.status = Head(r.todo), !.todo = Tail(r.todo),
                            !.pc = "check"]
  <2>1. r.todo \in {<<a>> : a \in Statuses} \cup {<<"migrating", "active">>}
    BY <1>1 DEF Task, Plans
  <2>2. /\ Head(r.todo) \in Statuses /\ Tail(r.todo) \in Plans
        /\ r.todo = <<"deleting">> => Tail(r.todo) = <<>>
    <3>1. ASSUME NEW a \in Statuses, r.todo = <<a>>
          PROVE  Head(r.todo) = a /\ Tail(r.todo) = <<>>
      BY <3>1
    <3>2. CASE r.todo = <<"migrating", "active">>
      <4>1. Head(r.todo) = "migrating" /\ Tail(r.todo) = <<"active">>
        BY <3>2
      <4>2. r.todo # <<"deleting">>
        BY <4>1
      <4> QED BY <4>1, <4>2 DEF Plans, Statuses
    <3> QED BY <2>1, <3>1, <3>2 DEF Plans
  <2>3. [r.own EXCEPT !.status = Head(r.todo)] \in Context
    BY <2>2 DEF Context
  <2>4. s \in Task
    BY <2>2, <2>3 DEF Task, Steps
  <2>5. s.own \in Context /\ s.pc = "check" /\ s.job = r.job /\ s.todo = Tail(r.todo)
    BY <2>3 DEF Task
  <2> HIDE DEF s
  <2>6. Sane(s)
    BY <1>1, <2>2, <2>5 DEF Sane
  <2> QED BY <1>1, <2>4, <2>6 DEF Change, s
<1>2. CASE r.todo = <<>> /\ r.job = "delete"
  <2>1. Change(r) = [r EXCEPT !.pc = "drop"]
    BY <1>2 DEF Change
  <2>2. [r EXCEPT !.pc = "drop"] \in Task
    BY DEF Task, Steps
  <2>3. Sane([r EXCEPT !.pc = "drop"])
    BY <1>2 DEF Task, Sane
  <2> QED BY <2>1, <2>2, <2>3
<1>3. CASE r.todo = <<>> /\ r.job # "delete"
  BY <1>3, IdleSane DEF Change
<1> QED BY <1>1, <1>2, <1>3

LEMMA GotSane ==
  ASSUME NEW r \in Task, Sane(r), NEW c \in Context,
         r.pc \in {"find", "found", "check", "checked"}, r.job \in Jobs \ {"none"},
         r.job # "refresh"
  PROVE  Got(r, c) \in Task /\ Sane(Got(r, c))
<1>1. CASE r.pc \in {"check", "checked"}
  <2> DEFINE s == [r EXCEPT !.own.created = c.created, !.got = None, !.pc = "save"]
  <2>1. [r.own EXCEPT !.created = c.created] \in Context
    BY <1>1 DEF Context, Sane
  <2>2. s \in Task
    BY <2>1 DEF Task, Steps
  <2>3. s.own \in Context /\ s.pc = "save" /\ s.job = r.job /\ s.todo = r.todo
    BY <2>1 DEF Task
  <2> HIDE DEF s
  <2>4. Sane(s)
    BY <2>3, <1>1 DEF Sane
  <2>5. Got(r, c) = s
    BY <1>1 DEF Got, s
  <2> QED BY <2>2, <2>4, <2>5
<1>2. CASE r.pc \in {"find", "found"}
  <2> DEFINE f == [r EXCEPT !.own = c, !.got = None]
  <2>1. f \in Task
    BY DEF Task
  <2>2. f.own = c /\ f.job = r.job /\ f.todo = r.todo /\ f.pc = r.pc
    BY DEF Task
  <2>3. [f EXCEPT !.pc = "save"] \in Task
    BY <2>1 DEF Task, Steps
  <2>4. LET s == [f EXCEPT !.pc = "save"]
        IN  s.own = c /\ s.job = r.job /\ s.todo = r.todo /\ s.pc = "save"
    BY DEF Task
  <2>5. Got(r, c) = CASE r.job = "request" -> Enter(f)
                      [] r.job = "touch" -> [f EXCEPT !.pc = "save"]
                      [] OTHER -> Change(f)
    BY <1>2 DEF Got
  <2> HIDE DEF f
  <2>6. CASE r.job = "request"
    BY <2>1, <2>2, <2>5, <2>6, EnterSane DEF Sane
  <2>7. CASE r.job = "touch"
    <3>1. Sane([f EXCEPT !.pc = "save"])
      BY <2>4, <2>7 DEF Sane
    <3> QED BY <2>3, <2>5, <2>7, <3>1
  <2>8. CASE r.job \in {"status", "load", "delete"}
    BY <2>1, <2>2, <2>5, <2>8, ChangeSane DEF Sane
  <2> QED BY <2>6, <2>7, <2>8 DEF Jobs
<1> QED BY <1>1, <1>2

LEMMA RegisteredSane ==
  ASSUME NEW r \in Task, Sane(r), r.pc = "publish", r.job \in Jobs \ {"none", "refresh"}
  PROVE  Registered(r) \in Task /\ Sane(Registered(r))
<1>1. r.own \in Context
  BY DEF Sane
<1>2. CASE r.job = "request"
  BY <1>1, <1>2, EnterSane DEF Registered, Sane
<1>3. CASE r.job = "touch"
  BY <1>3, IdleSane DEF Registered
<1>4. CASE r.job \in {"status", "load", "delete"}
  BY <1>1, <1>4, ChangeSane DEF Registered, Sane
<1> QED BY <1>2, <1>3, <1>4 DEF Jobs

LEMMA FailedSane == \A r : Failed(r) \in Task /\ Sane(Failed(r))
  BY ServeSane, IdleSane DEF Failed

-----------------------------------------------------------------------------
(* The invariant holds initially and is kept by each action                *)

\* A goroutine goes on to a sane record.
LEMMA BecomesKeeps ==
  ASSUME Inv, NEW t \in Tasks, NEW r \in Task, Sane(r), Becomes(t, r),
         redis' \in Context \cup {None}, mem' \in Context \cup {None},
         throttled' \in BOOLEAN, births' \in 0 .. MaxBirths
  PROVE  Inv'
<1>1. task' = [task EXCEPT ![t] = r] /\ task \in [Tasks -> Task]
  BY DEF Becomes, Inv, TypeOK
<1>2. task' \in [Tasks -> Task]
  BY <1>1
<1>3. TasksOK'
  BY <1>1 DEF Inv, TasksOK
<1> QED BY <1>2, <1>3 DEF Inv, TypeOK

LEMMA InvInit == Init => Inv
<1> SUFFICES ASSUME Init PROVE Inv
  OBVIOUS
<1>1. TypeOK
  <2>1. redis \in {None} /\ mem \in {None} /\ throttled \in BOOLEAN /\ births = 0
    BY DEF Init
  <2>2. task \in [Tasks -> Task]
    BY IdleSane DEF Init
  <2> QED BY <2>1, <2>2 DEF TypeOK
<1>2. TasksOK
  BY IdleSane DEF Init, TasksOK
<1> QED BY <1>1, <1>2 DEF Inv

LEMMA OperationKeeps ==
  ASSUME Inv, NEW t \in Tasks, Operation(t)
  PROVE  Inv'
<1>1. PICK job \in Jobs \ {"none", "refresh"}, pc \in {"find", "throttle"}, todo \in Plans :
        /\ Begin(t, job, pc, todo)
        /\ job \in {"request", "touch"} => todo = <<>>
        /\ job = "delete" => todo = <<"deleting">>
  <2>1. CASE Request(t)
    BY <2>1 DEF Request, Jobs, Plans
  <2>2. CASE Handler(t)
    BY <2>2 DEF Handler, Jobs, Plans
  <2>3. CASE LoadInstance(t)
    BY <2>3 DEF LoadInstance, Jobs, Plans
  <2>4. CASE DeleteInstance(t)
    <3>1. <<"deleting">> \in Plans
      BY DEF Plans, Statuses
    <3> QED BY <2>4, <3>1 DEF DeleteInstance, Jobs
  <2>5. ASSUME NEW s \in Asked, SetStatus(t, s)
        PROVE  /\ Begin(t, "status", "find", <<s>>)
               /\ <<s>> \in Plans
    BY <2>5 DEF SetStatus, Plans
  <2>6. CASE \E s \in Asked : SetStatus(t, s)
    <3>1. PICK s \in Asked : Begin(t, "status", "find", <<s>>) /\ <<s>> \in Plans
      BY <2>5, <2>6
    <3> QED BY <3>1 DEF Jobs
  <2> QED BY <2>1, <2>2, <2>3, <2>4, <2>6 DEF Operation
<1>2. LET r == [Idle EXCEPT !.job = job, !.pc = pc, !.todo = todo]
      IN  r \in Task /\ Sane(r)
  BY <1>1, BeginSane
<1> QED BY <1>1, <1>2, BecomesKeeps DEF Begin, Inv, TypeOK

LEMMA GetKeeps ==
  ASSUME Inv, NEW t \in Tasks,
         Hit(t) \/ Fetch(t) \/ Keep(t) \/ Missing(t) \/ Create(t) \/ GetError(t)
  PROVE  Inv'
<1>0. /\ task[t] \in Task /\ Sane(task[t])
      /\ redis \in Context \cup {None} /\ mem \in Context \cup {None}
      /\ throttled \in BOOLEAN /\ births \in 0 .. MaxBirths
  BY DEF Inv, TypeOK, TasksOK
<1>1. CASE Hit(t)
  <2>1. mem \in Context /\ Clone(mem) = mem
    BY <1>0, <1>1, CloneSame DEF Hit
  <2>2. Got(task[t], mem) \in Task /\ Sane(Got(task[t], mem))
    BY <1>0, <1>1, <2>1, GotSane DEF Hit, Looking, At, Sane, Task
  <2> QED BY <1>0, <1>1, <2>1, <2>2, BecomesKeeps DEF Hit
<1>2. CASE Fetch(t)
  <2> DEFINE r == [task[t] EXCEPT
                     !.got = redis, !.pc = IF At(t, "find") THEN "found" ELSE "checked"]
             s == [Idle EXCEPT !.job = "refresh", !.pc = "reread"]
  <2>1. PICK g \in Tasks :
          At(g, "free") /\ task' = [task EXCEPT ![t] = r, ![g] = s]
    BY <1>2 DEF Fetch
  <2>2. redis \in Context /\ Looking(t)
    BY <1>0, <1>2 DEF Fetch
  <2>3. r \in Task
    BY <1>0, <2>2 DEF Task, Steps
  <2>4. /\ r.got = redis /\ r.own = task[t].own /\ r.job = task[t].job
        /\ r.todo = task[t].todo
        /\ r.pc = IF At(t, "find") THEN "found" ELSE "checked"
    BY <1>0 DEF Task
  <2>5. s \in Task /\ Sane(s)
    BY DEF Idle, Task, Jobs, Steps, Plans, Sane
  <2> HIDE DEF r, s
  <2>6. Sane(r)
    BY <1>0, <2>2, <2>4 DEF Sane, Looking, At
  <2>7. task' \in [Tasks -> Task] /\ TasksOK'
    BY <2>1, <2>3, <2>5, <2>6 DEF Inv, TypeOK, TasksOK
  <2> QED BY <1>0, <1>2, <2>7 DEF Fetch, Inv, TypeOK
<1>3. CASE Keep(t)
  <2>1. task[t].got \in Context /\ Clone(task[t].got) = task[t].got
    BY <1>0, <1>3, CloneSame DEF Keep, At, Sane
  <2>2. LET r == Got(task[t], task[t].got) IN r \in Task /\ Sane(r)
    BY <1>0, <1>3, <2>1, GotSane DEF Keep, At, Sane, Task
  <2> QED BY <1>0, <1>3, <2>1, <2>2, BecomesKeeps DEF Keep
<1>4. CASE Missing(t) \/ GetError(t)
  BY <1>0, <1>4, FailedSane, BecomesKeeps DEF Missing, GetError
<1>5. CASE Create(t)
  <2> DEFINE r == [task[t] EXCEPT !.pc = "save", !.own = NewContext(births')]
  <2>1. births' \in 1 .. MaxBirths
    BY <1>0, <1>5 DEF Create
  <2>2. NewContext(births') \in Context
    BY <2>1 DEF NewContext, Context, Statuses
  <2>3. r \in Task
    BY <1>0, <2>2 DEF Task, Steps
  <2>4. /\ r.own = NewContext(births') /\ r.pc = "save" /\ r.job = "request"
        /\ r.todo = task[t].todo
    BY <1>0, <1>5 DEF Create, Task
  <2>5. Becomes(t, r)
    BY <1>5 DEF Create
  <2> HIDE DEF r
  <2>6. Sane(r)
    BY <1>0, <1>5, <2>2, <2>4 DEF Create, Sane
  <2> QED BY <1>0, <1>5, <2>1, <2>3, <2>5, <2>6, BecomesKeeps DEF Create
<1> QED BY <1>1, <1>2, <1>3, <1>4, <1>5

LEMMA StoreKeeps ==
  ASSUME Inv, NEW t \in Tasks,
         \/ Save(t) \/ SaveError(t) \/ Publish(t) \/ Drop(t) \/ DropError(t)
         \/ Forget(t) \/ Throttle(t) \/ Reread(t) \/ Rewrite(t) \/ DataError(t)
  PROVE  Inv'
<1>0. /\ task[t] \in Task /\ Sane(task[t])
      /\ redis \in Context \cup {None} /\ mem \in Context \cup {None}
      /\ throttled \in BOOLEAN /\ births \in 0 .. MaxBirths
  BY DEF Inv, TypeOK, TasksOK
<1> DEFINE To(pc) == [task[t] EXCEPT !.pc = pc]
<1>1. ASSUME NEW pc \in Steps
      PROVE  To(pc) \in Task /\ To(pc).pc = pc /\ To(pc).own = task[t].own
             /\ To(pc).job = task[t].job /\ To(pc).todo = task[t].todo
  BY <1>0 DEF Task
<1>2. CASE Save(t) \/ SaveError(t)
  <2>1. task[t].own \in Context
    BY <1>0, <1>2 DEF Save, SaveError, At, Sane
  <2>2. To("publish") \in Task
    BY <1>1 DEF Steps
  <2>3. Sane(To("publish")) \/ SaveError(t)
    BY <1>0, <1>1, <1>2, <2>1 DEF Save, At, Sane, Steps
  <2>4. CASE Save(t) /\ Sane(To("publish"))
    BY <1>0, <2>1, <2>2, <2>4, BecomesKeeps DEF Save
  <2>5. CASE SaveError(t)
    BY <1>0, <2>1, <2>5, FailedSane, BecomesKeeps DEF SaveError
  <2> QED BY <1>2, <2>3, <2>4, <2>5
<1>3. CASE Publish(t)
  <2>1. task[t].own \in Context /\ Clone(task[t].own) = task[t].own
    BY <1>0, <1>3, CloneSame DEF Publish, At, Sane
  <2>2. Registered(task[t]) \in Task /\ Sane(Registered(task[t]))
    BY <1>0, <1>3, RegisteredSane DEF Publish, At, Sane, Task
  <2> QED BY <1>0, <1>3, <2>1, <2>2, BecomesKeeps DEF Publish
<1>4. CASE Drop(t)
  <2>1. To("forget") \in Task /\ Sane(To("forget"))
    <3>1. To("forget") \in Task
      BY <1>1 DEF Steps
    <3>2. Sane(To("forget"))
      BY <1>0, <1>1, <1>4 DEF Sane, Steps
    <3> QED BY <3>1, <3>2
  <2> QED BY <1>0, <1>4, <2>1, BecomesKeeps DEF Drop
<1>5. CASE DropError(t) \/ Forget(t) \/ DataError(t)
  BY <1>0, <1>5, IdleSane, BecomesKeeps DEF DropError, Forget, DataError
<1>6. CASE Throttle(t)
  <2>1. To("find") \in Task
    BY <1>1 DEF Steps
  <2>2. throttled \/ Sane(To("find"))
    BY <1>0, <1>1, <1>6 DEF Throttle, At, Sane, Steps
  <2> QED BY <1>0, <1>6, <2>1, <2>2, IdleSane, BecomesKeeps DEF Throttle
<1>7. CASE Reread(t)
  <2> DEFINE r == [task[t] EXCEPT !.got = redis, !.pc = "rewrite"]
  <2>1. CASE Becomes(t, Idle)
    BY <1>0, <1>7, <2>1, IdleSane, BecomesKeeps DEF Reread
  <2>2. CASE redis # None /\ Becomes(t, r)
    <3>1. r \in Task
      BY <1>0 DEF Task, Steps
    <3>2. Sane(r)
      BY <1>0, <2>2 DEF Task, Sane
    <3> QED BY <1>0, <1>7, <2>2, <3>1, <3>2, BecomesKeeps DEF Reread
  <2> QED BY <1>7, <2>1, <2>2 DEF Reread
<1>8. CASE Rewrite(t)
  <2>1. task[t].got \in Context
    BY <1>0, <1>8 DEF Rewrite, At, Sane
  <2> QED BY <1>0, <1>8, <2>1, IdleSane, BecomesKeeps DEF Rewrite
<1> QED BY <1>2, <1>3, <1>4, <1>5, <1>6, <1>7, <1>8

LEMMA InvNext == Inv /\ [Next]_vars => Inv'
<1> SUFFICES ASSUME Inv, [Next]_vars PROVE Inv'
  OBVIOUS
<1>1. CASE \E t \in Tasks : Operation(t) \/ Step(t)
  BY <1>1, OperationKeeps, GetKeeps, StoreKeeps DEF Step
<1>2. CASE MemExpire \/ RedisExpire \/ Interval \/ UNCHANGED vars
  BY <1>2 DEF MemExpire, RedisExpire, Interval, vars, Inv, TypeOK, TasksOK
<1>3. CASE Restart
  BY <1>3, IdleSane DEF Restart, Inv, TypeOK, TasksOK
<1> QED BY <1>1, <1>2, <1>3 DEF Next

LEMMA InvAlways == Spec => []Inv
  BY InvInit, InvNext, PTL DEF Spec

\* A goroutine always holds a real context when it writes one.
THEOREM TypeCorrect == Spec => []TypeOK
<1>1. Inv => TypeOK
  BY DEF Inv
<1> QED BY <1>1, InvAlways, PTL

-----------------------------------------------------------------------------
(* A gone instance stays gone                                              *)

LEMMA FailedWritesNot == \A r : Failed(r).pc \notin Committed
  BY DEF Failed, Serve, Idle, Committed

\* A goroutine that does not become committed leaves a gone instance gone.
LEMMA GoneKept ==
  ASSUME Inv, Gone, NEW t \in Tasks, NEW r, r.pc \notin Committed, Becomes(t, r),
         redis' = redis, mem' \in {mem, None}
  PROVE  Gone'
  BY DEF Inv, TypeOK, Gone, Becomes

LEMMA GoneNext ==
  ASSUME Inv, Gone, [Next]_vars
  PROVE  Gone' \/ births' > births
<1>0. redis = None /\ mem = None /\ \A t \in Tasks : task[t].pc \notin Committed
  BY DEF Gone
<1>1. ASSUME NEW t \in Tasks, Operation(t)
      PROVE  Gone'
  <2>1. PICK job, pc, todo : /\ job \in Jobs
                                /\ pc \in {"find", "throttle"}
                                /\ Begin(t, job, pc, todo)
    BY <1>1 DEF Operation, Request, Handler, LoadInstance, DeleteInstance, SetStatus, Jobs
  <2>2. [Idle EXCEPT !.job = job, !.pc = pc, !.todo = todo].pc \notin Committed
    BY <2>1 DEF Idle, Committed
  <2> QED BY <2>1, <2>2, GoneKept DEF Begin
<1>2. ASSUME NEW t \in Tasks, Step(t)
      PROVE  Gone' \/ births' > births
  <2>0. task[t] \in Task
    BY DEF Inv, TasksOK
  <2>1. /\ ~Hit(t) /\ ~Fetch(t) /\ ~Drop(t) /\ ~Rewrite(t)
        /\ ~Keep(t) /\ ~Save(t) /\ ~SaveError(t) /\ ~Publish(t)
    BY <1>0 DEF Hit, Fetch, Drop, Keep, Save, SaveError, Publish, Rewrite, At, Committed
  <2>2. CASE Missing(t) \/ GetError(t)
    BY <2>2, FailedWritesNot, GoneKept DEF Missing, GetError
  <2>3. CASE Create(t)
    BY <2>3 DEF Create, Inv, TypeOK
  <2>4. CASE DropError(t) \/ Forget(t) \/ Reread(t) \/ DataError(t)
    <3>1. Becomes(t, Idle) /\ redis' = redis /\ mem' \in {mem, None}
      BY <1>0, <2>4 DEF DropError, Forget, Reread, DataError
    <3> QED BY <3>1, GoneKept DEF Idle, Committed
  <2>5. CASE Throttle(t)
    <3>1. Idle.pc \notin Committed /\ [task[t] EXCEPT !.pc = "find"].pc \notin Committed
      BY <2>0 DEF Task, Idle, Committed
    <3> QED BY <2>5, <3>1, GoneKept DEF Throttle
  <2> QED BY <1>2, <2>1, <2>2, <2>3, <2>4, <2>5 DEF Step
<1>3. CASE MemExpire \/ RedisExpire \/ Interval \/ UNCHANGED vars
  BY <1>0, <1>3 DEF MemExpire, RedisExpire, Interval, vars, Gone
<1>4. CASE Restart
  BY <1>0, <1>4 DEF Restart, Gone, Idle, Committed
<1> QED BY <1>1, <1>2, <1>3, <1>4 DEF Next

\* What began while an instance existed never brings it back.
THEOREM NothingResurrects == Spec => GoneUntilCreated
<1>1. Inv /\ [Next]_vars => [Gone => Gone' \/ births' > births]_vars
  BY GoneNext
<1> QED BY <1>1, InvAlways, PTL DEF Spec, GoneUntilCreated

-----------------------------------------------------------------------------
(* A refusing instance goes on refusing                                    *)

Calm(c) == c = None \/ Refusing(c)

\* What r may become while the instance is blocked.
Quiet(r, s) == /\ s.job \notin {"status", "load"}
               /\ Calm(s.own) /\ Calm(s.got)
               /\ r.job = "request" => s.job # "touch"

LEMMA IdleQuiet == \A r : Quiet(r, Idle)
  BY DEF Quiet, Idle, Calm

LEMMA ServeQuiet ==
  ASSUME NEW r, NEW q, Calm(r.own)
  PROVE  Serve(r) = Idle /\ Quiet(q, Serve(r))
<1>1. ~CanAcceptRequests(r.own)
  BY DEF Calm, CanAcceptRequests, Refusing, None
<1> QED BY <1>1, IdleQuiet DEF Serve

LEMMA EnterQuiet ==
  ASSUME NEW r \in Task, r.job = "request", Calm(r.own), Calm(r.got), r.own \in Context
  PROVE  Quiet(r, Enter(r))
<1> DEFINE s == [r EXCEPT !.own.permanent = TRUE, !.pc = "check"]
<1>1. /\ s.job = "request" /\ s.got = r.got
      /\ s.own = [r.own EXCEPT !.permanent = TRUE]
  BY DEF Task
<1>2. s.own.status = r.own.status
  BY <1>1 DEF Context
<1>3. Refusing(r.own)
  BY DEF Calm, None, Context, Statuses
<1> HIDE DEF s
<1>4. Quiet(r, s)
  BY <1>1, <1>2, <1>3 DEF Quiet, Calm, Refusing
<1> QED BY <1>4, ServeQuiet DEF Enter, s

LEMMA ChangeQuiet ==
  ASSUME NEW r \in Task, r.job = "delete", r.todo \in {<<>>, <<"deleting">>},
         r.own \in Context, Calm(r.own), Calm(r.got)
  PROVE  Quiet(r, Change(r))
<1>1. CASE r.todo = <<>>
  <2>1. Change(r) = [r EXCEPT !.pc = "drop"]
    BY <1>1 DEF Change
  <2> QED BY <2>1 DEF Task, Quiet
<1>2. CASE r.todo = <<"deleting">>
  <2> DEFINE s == [r EXCEPT !.own.status = Head(r.todo), !.todo = Tail(r.todo),
                            !.pc = "check"]
  <2>1. Change(r) = s /\ Head(r.todo) = "deleting"
    BY <1>2 DEF Change
  <2>2. /\ s.job = "delete" /\ s.got = r.got
        /\ s.own = [r.own EXCEPT !.status = Head(r.todo)]
    BY DEF Task
  <2>3. s.own.status = "deleting"
    BY <2>1, <2>2 DEF Context
  <2> HIDE DEF s
  <2> QED BY <2>1, <2>2, <2>3 DEF Quiet, Calm, Refusing
<1> QED BY <1>1, <1>2

LEMMA GotQuiet ==
  ASSUME NEW r \in Task, Sane(r), NEW c \in Context, Refusing(c), Calm(r.own), Calm(r.got),
         r.pc \in {"find", "found", "check", "checked"}, r.job \in {"request", "touch", "delete"}
  PROVE  Quiet(r, Got(r, c))
<1>0. Calm(None)
  BY DEF Calm
<1>1. CASE r.pc \in {"check", "checked"}
  <2> DEFINE s == [r EXCEPT !.own.created = c.created, !.got = None, !.pc = "save"]
  <2>1. /\ s.job = r.job /\ s.got = None
        /\ s.own = [r.own EXCEPT !.created = c.created]
    BY DEF Task
  <2>2. r.own \in Context /\ Refusing(r.own)
    BY <1>1 DEF Sane, Calm, None, Context, Statuses
  <2>3. s.own.status = r.own.status
    BY <2>1, <2>2 DEF Context
  <2>4. Got(r, c) = s
    BY <1>1 DEF Got
  <2> HIDE DEF s
  <2> QED BY <1>0, <2>1, <2>2, <2>3, <2>4 DEF Quiet, Calm, Refusing
<1>2. CASE r.pc \in {"find", "found"}
  <2> DEFINE f == [r EXCEPT !.own = c, !.got = None]
  <2>1. f \in Task
    BY DEF Task
  <2>2. f.own = c /\ f.job = r.job /\ f.todo = r.todo /\ f.got = None
    BY DEF Task
  <2>3. LET s == [f EXCEPT !.pc = "save"]
        IN  s.own = c /\ s.job = r.job /\ s.got = None
    BY DEF Task
  <2>4. Got(r, c) = CASE r.job = "request" -> Enter(f)
                      [] r.job = "touch" -> [f EXCEPT !.pc = "save"]
                      [] OTHER -> Change(f)
    BY <1>2 DEF Got
  <2> HIDE DEF f
  <2>5. Calm(c) /\ Calm(None)
    BY DEF Calm
  <2>6. CASE r.job = "request"
    <3>1. Quiet(f, Enter(f))
      BY <2>1, <2>2, <2>5, <2>6, EnterQuiet
    <3> QED BY <2>2, <2>4, <2>6, <3>1 DEF Quiet
  <2>7. CASE r.job = "touch"
    BY <2>3, <2>4, <2>5, <2>7 DEF Quiet
  <2>8. CASE r.job = "delete"
    <3>1. Quiet(f, Change(f))
      BY <2>1, <2>2, <2>5, <2>8, ChangeQuiet DEF Sane
    <3> QED BY <2>2, <2>4, <2>8, <3>1 DEF Quiet
  <2> QED BY <2>6, <2>7, <2>8
<1> QED BY <1>1, <1>2

Continues == /\ \A t \in Tasks : ~Admits(t)
             /\ \/ Blocked' \/ redis' = None
                \/ \E t \in Tasks : task'[t].job \in {"status", "load"}

\* What a blocked instance looks like to a goroutine.
LEMMA BlockedFacts ==
  ASSUME Inv, Blocked
  PROVE  /\ redis \in Context /\ Refusing(redis) /\ redis # None /\ Calm(mem)
         /\ \A t \in Tasks : /\ task[t] \in Task /\ Sane(task[t])
                             /\ task[t].job \notin {"status", "load"}
                             /\ Calm(task[t].own) /\ Calm(task[t].got)
  BY DEF Inv, TypeOK, TasksOK, Blocked, Refusing, None, Calm, Quiet

\* One goroutine that goes on quietly leaves the instance blocked.
LEMMA QuietKeeps ==
  ASSUME Inv, Blocked, NEW t \in Tasks, NEW r, Quiet(task[t], r), Becomes(t, r),
         Calm(redis'), Calm(mem')
  PROVE  Continues
<1>1. task' = [task EXCEPT ![t] = r] /\ task \in [Tasks -> Task]
  BY DEF Inv, TypeOK, Becomes
<1>2. \A g \in Tasks : task'[g] = IF g = t THEN r ELSE task[g]
  BY <1>1
<1>3. \A g \in Tasks : ~Admits(g)
  BY <1>2 DEF Admits, Quiet
<1>4. \A g \in Tasks : task'[g].job \notin {"status", "load"}
                       /\ Calm(task'[g].own) /\ Calm(task'[g].got)
  BY <1>2, BlockedFacts DEF Quiet
<1>5. CASE redis' = None
  BY <1>3, <1>5 DEF Continues
<1>6. CASE redis' # None
  <2>1. Blocked'
    BY <1>4, <1>6 DEF Blocked, Calm
  <2> QED BY <1>3, <2>1 DEF Continues
<1> QED BY <1>5, <1>6

LEMMA BlockedOperation ==
  ASSUME Inv, Blocked, NEW t \in Tasks, Operation(t)
  PROVE  Continues
<1>0. Calm(redis) /\ Calm(mem) /\ Calm(None)
  BY BlockedFacts DEF Calm
<1>1. CASE Request(t) \/ Handler(t) \/ DeleteInstance(t)
  <2>1. PICK job, pc, todo : job \in {"request", "touch", "delete"} /\ Begin(t, job, pc, todo)
    BY <1>1 DEF Request, Handler, DeleteInstance
  <2>2. task[t].job = "none"
    BY <2>1, BlockedFacts DEF Begin, At, Sane
  <2>3. Quiet(task[t], [Idle EXCEPT !.job = job, !.pc = pc, !.todo = todo])
    BY <1>0, <2>1, <2>2 DEF Quiet, Idle
  <2>4. redis' = redis /\ mem' = mem
    BY <2>1 DEF Begin
  <2>5. Calm(redis') /\ Calm(mem')
    BY <1>0, <2>4
  <2> QED BY <2>1, <2>3, <2>5, QuietKeeps DEF Begin
<1>2. CASE LoadInstance(t) \/ \E s \in Asked : SetStatus(t, s)
  <2>1. PICK job \in {"status", "load"} : \E pc, todo : Begin(t, job, pc, todo)
    BY <1>2 DEF LoadInstance, SetStatus
  <2>2. task[t].job = "none" /\ task \in [Tasks -> Task]
    BY <2>1, BlockedFacts DEF Begin, At, Sane, Inv, TypeOK
  <2>3. \A g \in Tasks : g # t => task'[g] = task[g]
    BY <2>1, <2>2 DEF Begin, Becomes
  <2>4. task'[t].job = job
    BY <2>1, <2>2 DEF Begin, Becomes, Idle
  <2> QED BY <2>2, <2>3, <2>4 DEF Continues, Admits
<1> QED BY <1>1, <1>2 DEF Operation

LEMMA BlockedGet ==
  ASSUME Inv, Blocked, NEW t \in Tasks,
         Hit(t) \/ Fetch(t) \/ Keep(t) \/ Missing(t) \/ Create(t) \/ GetError(t)
  PROVE  Continues
<1>0. /\ task[t] \in Task /\ Sane(task[t]) /\ task[t].job \notin {"status", "load"}
      /\ redis \in Context /\ redis # None
      /\ Calm(redis) /\ Calm(mem) /\ Calm(task[t].own) /\ Calm(task[t].got)
      /\ mem \in Context \cup {None}
  BY BlockedFacts DEF Calm, Inv, TypeOK
<1>1. ~Missing(t) /\ ~Create(t)
  BY <1>0 DEF Missing, Create
<1>2. CASE Hit(t)
  <2>1. mem \in Context /\ Refusing(mem) /\ Clone(mem) = mem
    BY <1>0, <1>2, CloneSame DEF Hit, Calm
  <2>2. Quiet(task[t], Got(task[t], mem))
    BY <1>0, <1>2, <2>1, GotQuiet DEF Hit, Looking, At, Sane, Task, Jobs
  <2>3. redis' = redis /\ mem' = mem
    BY <1>2 DEF Hit
  <2>4. Calm(redis') /\ Calm(mem')
    BY <1>0, <2>3
  <2> QED BY <1>2, <2>1, <2>2, <2>4, QuietKeeps DEF Hit
<1>3. CASE Keep(t)
  <2>1. /\ task[t].got \in Context /\ Clone(task[t].got) = task[t].got
        /\ task[t].pc \in {"found", "checked"}
    BY <1>0, <1>3, CloneSame DEF Keep, At, Sane
  <2>2. Refusing(task[t].got)
    BY <1>0, <2>1 DEF Calm, None, Context, Statuses
  <2>3. Quiet(task[t], Got(task[t], task[t].got))
    BY <1>0, <2>1, <2>2, GotQuiet DEF Sane, Task, Jobs
  <2>4. redis' = redis /\ mem' = task[t].got
    BY <1>3, <2>1 DEF Keep
  <2>5. Calm(redis') /\ Calm(mem')
    BY <1>0, <2>4
  <2> QED BY <1>3, <2>3, <2>5, QuietKeeps DEF Keep
<1>4. CASE GetError(t)
  <2>1. Quiet(task[t], Failed(task[t]))
    BY <1>0, ServeQuiet, IdleQuiet DEF Failed
  <2>2. redis' = redis /\ mem' = mem
    BY <1>4 DEF GetError
  <2>3. Calm(redis') /\ Calm(mem')
    BY <1>0, <2>2
  <2> QED BY <1>4, <2>1, <2>3, QuietKeeps DEF GetError
<1>5. CASE Fetch(t)
  <2> DEFINE r == [task[t] EXCEPT
                     !.got = redis, !.pc = IF At(t, "find") THEN "found" ELSE "checked"]
             s == [Idle EXCEPT !.job = "refresh", !.pc = "reread"]
  <2>1. PICK g \in Tasks :
          At(g, "free") /\ task' = [task EXCEPT ![t] = r, ![g] = s]
    BY <1>5 DEF Fetch
  <2>2. task[g].job = "none" /\ g # t
    BY <1>5, <2>1, BlockedFacts DEF Fetch, Looking, At, Sane
  <2>3. r.job = task[t].job /\ r.own = task[t].own /\ r.got = redis
    BY <1>0 DEF Task
  <2>4. s.job = "refresh" /\ s.own = None /\ s.got = None
    BY DEF Idle
  <2> HIDE DEF r, s
  <2>5. task \in [Tasks -> Task]
    BY DEF Inv, TypeOK
  <2>6. \A u \in Tasks : task'[u] = IF u = g THEN s ELSE IF u = t THEN r ELSE task[u]
    BY <2>1, <2>2, <2>5
  <2>7. \A u \in Tasks : ~Admits(u)
    BY <2>2, <2>3, <2>4, <2>6 DEF Admits
  <2>8. \A u \in Tasks : task'[u].job \notin {"status", "load"}
                         /\ Calm(task'[u].own) /\ Calm(task'[u].got)
    BY <1>0, <2>3, <2>4, <2>6, BlockedFacts DEF Calm
  <2>9. Blocked'
    BY <1>5, <2>8 DEF Fetch, Blocked, Calm
  <2> QED BY <2>7, <2>9 DEF Continues
<1> QED BY <1>1, <1>2, <1>3, <1>4, <1>5

LEMMA BlockedStore ==
  ASSUME Inv, Blocked, NEW t \in Tasks,
         \/ Save(t) \/ SaveError(t) \/ Publish(t) \/ Drop(t) \/ DropError(t)
         \/ Forget(t) \/ Throttle(t) \/ Reread(t) \/ Rewrite(t) \/ DataError(t)
  PROVE  Continues
<1>0. /\ task[t] \in Task /\ Sane(task[t]) /\ task[t].job \notin {"status", "load"}
      /\ Calm(redis) /\ Calm(mem) /\ Calm(task[t].own) /\ Calm(task[t].got) /\ Calm(None)
  BY BlockedFacts DEF Calm
<1>1. \A pc \in Steps : LET r == [task[t] EXCEPT !.pc = pc]
                        IN  r.job = task[t].job /\ r.own = task[t].own /\ r.got = task[t].got
  BY <1>0 DEF Task
<1>2. \A pc \in Steps : Quiet(task[t], [task[t] EXCEPT !.pc = pc])
  BY <1>0, <1>1 DEF Quiet
<1>3. CASE Save(t)
  <2>1. redis' = task[t].own /\ mem' = mem
    BY <1>3 DEF Save
  <2>2. Calm(redis') /\ Calm(mem')
    BY <1>0, <2>1
  <2> QED BY <1>2, <1>3, <2>2, QuietKeeps DEF Save, Steps
<1>4. CASE SaveError(t)
  <2>1. Quiet(task[t], Failed(task[t]))
    BY <1>0, ServeQuiet, IdleQuiet DEF Failed
  <2>2. redis' \in {redis, task[t].own} /\ mem' = mem
    BY <1>4 DEF SaveError
  <2>3. Calm(redis') /\ Calm(mem')
    BY <1>0, <2>2
  <2> QED BY <1>4, <2>1, <2>3, QuietKeeps DEF SaveError
<1>5. CASE Publish(t)
  <2>1. task[t].own \in Context /\ Clone(task[t].own) = task[t].own
    BY <1>0, <1>5, CloneSame DEF Publish, At, Sane
  <2>2. Quiet(task[t], Registered(task[t]))
    <3>1. CASE task[t].job = "request"
      BY <1>0, <2>1, <3>1, EnterQuiet DEF Registered
    <3>2. CASE task[t].job = "touch"
      BY <3>2, IdleQuiet DEF Registered
    <3>3. CASE task[t].job = "delete"
      BY <1>0, <2>1, <3>3, ChangeQuiet DEF Registered, Sane
    <3> QED BY <1>0, <1>5, <3>1, <3>2, <3>3 DEF Publish, At, Sane, Task, Jobs
  <2>3. redis' = redis /\ mem' = task[t].own
    BY <1>5, <2>1 DEF Publish
  <2>4. Calm(redis') /\ Calm(mem')
    BY <1>0, <2>3
  <2> QED BY <1>5, <2>2, <2>4, QuietKeeps DEF Publish
<1>6. CASE Drop(t) \/ Throttle(t)
  <2>1. PICK r \in {Idle} \cup {[task[t] EXCEPT !.pc = pc] : pc \in {"forget", "find"}} :
          Becomes(t, r)
    BY <1>6 DEF Drop, Throttle
  <2>2. Quiet(task[t], r)
    BY <1>2, <2>1, IdleQuiet DEF Steps
  <2>3. redis' \in {redis, None} /\ mem' = mem
    BY <1>6 DEF Drop, Throttle
  <2>4. Calm(redis') /\ Calm(mem')
    BY <1>0, <2>3
  <2> QED BY <2>1, <2>2, <2>4, QuietKeeps
<1>7. CASE DropError(t) \/ Forget(t) \/ Rewrite(t) \/ DataError(t)
  <2>1. Becomes(t, Idle)
    BY <1>7 DEF DropError, Forget, Rewrite, DataError
  <2>2. redis' \in {redis, None, task[t].got} /\ mem' \in {mem, None}
    BY <1>7 DEF DropError, Forget, Rewrite, DataError
  <2>3. Calm(redis') /\ Calm(mem')
    BY <1>0, <2>2
  <2> QED BY <2>1, <2>3, IdleQuiet, QuietKeeps
<1>8. CASE Reread(t)
  <2> DEFINE r == [task[t] EXCEPT !.got = redis, !.pc = "rewrite"]
  <2>1. Becomes(t, Idle) \/ Becomes(t, r)
    BY <1>8 DEF Reread
  <2>2. r.job = task[t].job /\ r.own = task[t].own /\ r.got = redis
    BY <1>0 DEF Task
  <2> HIDE DEF r
  <2>3. Quiet(task[t], r)
    BY <1>0, <2>2 DEF Quiet
  <2>4. redis' = redis /\ mem' = mem
    BY <1>8 DEF Reread
  <2>5. Calm(redis') /\ Calm(mem')
    BY <1>0, <2>4
  <2> QED BY <2>1, <2>3, <2>5, IdleQuiet, QuietKeeps
<1> QED BY <1>3, <1>4, <1>5, <1>6, <1>7, <1>8

LEMMA BlockedNext ==
  ASSUME Inv, Blocked, Next
  PROVE  Continues
<1>1. CASE \E t \in Tasks : Operation(t) \/ Step(t)
  BY <1>1, BlockedOperation, BlockedGet, BlockedStore DEF Step
<1>2. CASE MemExpire \/ RedisExpire \/ Interval
  <2>1. task' = task /\ redis' \in {redis, None} /\ mem' \in {mem, None}
    BY <1>2 DEF MemExpire, RedisExpire, Interval
  <2> QED BY <2>1, BlockedFacts DEF Continues, Admits, Blocked, Refusing, Calm, Quiet
<1>3. CASE Restart
  BY <1>3 DEF Restart, Continues, Admits, Blocked, Idle
<1> QED BY <1>1, <1>2, <1>3 DEF Next

\* A paused, inactive or dying instance admits no request until somebody asks
\* for another status or its context is gone.
THEOREM RefusalLasts == Spec => RefusedUntilChanged
<1>1. Inv /\ [Next]_vars =>
        [Blocked => /\ \A t \in Tasks : ~Admits(t)
                    /\ \/ Blocked' \/ redis' = None
                       \/ \E t \in Tasks : task'[t].job \in {"status", "load"}]_vars
  BY BlockedNext DEF Continues
<1> QED BY <1>1, InvAlways, PTL DEF Spec, RefusedUntilChanged
=============================================================================
