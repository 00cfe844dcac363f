----------------------- MODULE TenantDatabaseManager -----------------------
(***************************************************************************)
(* The connection cache of TenantDatabaseManager (src/database.rs): a map  *)
(* from database names to shared connections behind one tokio RwLock.      *)
(* get_connection looks under the read lock, looks again under the write   *)
(* lock, and keeps the write lock while the provider opens a connection.   *)
(*                                                                         *)
(* One action is the code from one await to the next.  A critical section  *)
(* without an await in it (the look under the read lock, clear, remove) is *)
(* one action, taken when the lock is granted.                             *)
(***************************************************************************)
EXTENDS Naturals, Sequences, SequencesExt

CONSTANTS
    Tasks,       \* tasks that share the manager
    Tenants,     \* tenants, as the application has built them
    database,    \* Tenant::database of each tenant, None when it has none
    CallsCancel, \* whether the future of a call may be dropped
    None         \* no task, no database

\* The databases the tenants are configured with.
Dbs == {database[tenant] : tenant \in Tenants} \ {None}

ASSUME TaskAssumption == None \notin Tasks
ASSUME CancelAssumption == CallsCancel \in BOOLEAN

\* Points at which a call waits; at "provider" it holds the write lock.
Points == {"idle", "read", "write", "provider", "clear", "invalidate"}

VARIABLES
    cache,     \* connection_cache: database name -> "current" or "outdated"
    lock,      \* the task that holds the write lock across an await, or None
    queue,     \* tasks that wait for the lock, first come first served
    call,      \* the call each task has in progress
    opened,    \* history: connections opened since the database was last dropped
    overtaken  \* history: tasks whose database was dropped while they opened it

vars == <<cache, lock, queue, call, opened, overtaken>>

Idle == [at |-> "idle", db |-> None]

Init ==
    /\ cache = <<>>
    /\ lock = None
    /\ queue = <<>>
    /\ call = [t \in Tasks |-> Idle]
    /\ opened = [db \in Dbs |-> 0]
    /\ overtaken = {}

-----------------------------------------------------------------------------
(* The lock: tokio's RwLock queues readers and writers in one order.       *)

Granted(t) == lock = None /\ queue # <<>> /\ Head(queue) = t

Await(t, at, db) == call' = [call EXCEPT ![t] = [at |-> at, db |-> db]]

Return(t) == call' = [call EXCEPT ![t] = Idle]

-----------------------------------------------------------------------------
(* get_connection                                                          *)

\* A tenant without a database is refused before anything happens.
CallGet(t, tenant) ==
    /\ call[t].at = "idle"
    /\ database[tenant] # None
    /\ Await(t, "read", database[tenant])
    /\ queue' = Append(queue, t)
    /\ UNCHANGED <<cache, lock, opened, overtaken>>

ReadHit(t) ==
    /\ call[t].at = "read"
    /\ Granted(t)
    /\ call[t].db \in DOMAIN cache
    /\ Return(t)
    /\ queue' = Tail(queue)
    /\ UNCHANGED <<cache, lock, opened, overtaken>>

\* The read lock is released, and the write lock asked for.
ReadMiss(t) ==
    /\ call[t].at = "read"
    /\ Granted(t)
    /\ call[t].db \notin DOMAIN cache
    /\ Await(t, "write", call[t].db)
    /\ queue' = Append(Tail(queue), t)
    /\ UNCHANGED <<cache, lock, opened, overtaken>>

\* Another task has opened the connection in the meantime.
RecheckHit(t) ==
    /\ call[t].at = "write"
    /\ Granted(t)
    /\ call[t].db \in DOMAIN cache
    /\ Return(t)
    /\ queue' = Tail(queue)
    /\ UNCHANGED <<cache, lock, opened, overtaken>>

\* Slip: no second look.
NoRecheck(t) ==
    /\ call[t].at = "write"
    /\ Granted(t)
    /\ Await(t, "provider", call[t].db)
    /\ lock' = t
    /\ queue' = Tail(queue)
    /\ UNCHANGED <<cache, opened, overtaken>>

\* Slip: the lock is not kept while the connection is opened.
UnlockedRecheck(t) ==
    /\ call[t].at = "write"
    /\ Granted(t)
    /\ call[t].db \notin DOMAIN cache
    /\ Await(t, "provider", call[t].db)
    /\ queue' = Tail(queue)
    /\ UNCHANGED <<cache, lock, opened, overtaken>>

RecheckMiss(t) ==
    /\ call[t].at = "write"
    /\ Granted(t)
    /\ call[t].db \notin DOMAIN cache
    /\ Await(t, "provider", call[t].db)
    /\ lock' = t
    /\ queue' = Tail(queue)
    /\ UNCHANGED <<cache, opened, overtaken>>

\* Leaving the section in which the provider is called.
Unlock(t) ==
    /\ lock' = IF lock = t THEN None ELSE lock
    /\ overtaken' = overtaken \ {t}

ProviderAnswers(t) ==
    /\ call[t].at = "provider"
    /\ cache' = [db \in DOMAIN cache \cup {call[t].db} |->
                   IF db # call[t].db THEN cache[db]
                   ELSE IF t \in overtaken THEN "outdated" ELSE "current"]
    /\ opened' = [opened EXCEPT ![call[t].db] = @ + 1]
    /\ Unlock(t)
    /\ Return(t)
    /\ UNCHANGED queue

\* Slip: an error path that forgets the guard.
ProviderFailsLocked(t) ==
    /\ call[t].at = "provider"
    /\ Return(t)
    /\ UNCHANGED <<cache, lock, queue, opened, overtaken>>

\* The error is passed on, nothing is cached, the guard is dropped.
ProviderFails(t) ==
    /\ call[t].at = "provider"
    /\ Unlock(t)
    /\ Return(t)
    /\ UNCHANGED <<cache, queue, opened>>

-----------------------------------------------------------------------------
(* clear_cache, invalidate_tenant                                          *)

CallDrop(t, at, db) ==
    /\ call[t].at = "idle"
    /\ Await(t, at, db)
    /\ queue' = Append(queue, t)
    /\ UNCHANGED <<cache, lock, opened, overtaken>>

CallClear(t) == CallDrop(t, "clear", None)

\* Slip: a tenant without a database goes on to take the lock.
CallInvalidateAny(t, tenant) == CallDrop(t, "invalidate", database[tenant])

\* Nothing is done for a tenant without a database.
CallInvalidate(t, tenant) ==
    /\ database[tenant] # None
    /\ CallDrop(t, "invalidate", database[tenant])

\* The databases are forgotten; later calls open new connections.
Drop(t, dbs) ==
    /\ Granted(t)
    /\ cache' = [db \in DOMAIN cache \ dbs |-> cache[db]]
    /\ opened' = [db \in Dbs |-> IF db \in dbs THEN 0 ELSE opened[db]]
    /\ overtaken' = overtaken \cup
         {u \in Tasks : call[u].at = "provider" /\ call[u].db \in dbs}
    /\ Return(t)
    /\ queue' = Tail(queue)
    /\ UNCHANGED lock

Clear(t) == call[t].at = "clear" /\ Drop(t, Dbs)

Invalidate(t) == call[t].at = "invalidate" /\ Drop(t, {call[t].db})

-----------------------------------------------------------------------------
\* database_exists and create_database, which only pass the name on to the
\* provider, and every call that a tenant without a database makes.
ReadOnly(t) == call[t].at = "idle" /\ UNCHANGED vars

Leave(t) ==
    \/ t \notin Range(queue) /\ UNCHANGED queue
    \/ \E place \in DOMAIN queue :
         queue[place] = t /\ queue' = RemoveAt(queue, place)

\* The future of a call is dropped while it waits: it leaves the queue, or its
\* guard goes and what the provider was opening is lost.
Cancel(t) ==
    /\ CallsCancel
    /\ call[t].at # "idle"
    /\ Leave(t)
    /\ Unlock(t)
    /\ Return(t)
    /\ UNCHANGED <<cache, opened>>

Invoke(t) ==
    \/ \E tenant \in Tenants : CallGet(t, tenant) \/ CallInvalidate(t, tenant)
    \/ CallClear(t)
    \/ ReadOnly(t)

Continue(t) ==
    \/ ReadHit(t)
    \/ ReadMiss(t)
    \/ RecheckHit(t)
    \/ RecheckMiss(t)
    \/ ProviderAnswers(t)
    \/ ProviderFails(t)
    \/ Clear(t)
    \/ Invalidate(t)

Next == \E t \in Tasks : Invoke(t) \/ Continue(t) \/ Cancel(t)

\* Tasks whose turn it is are polled, and the provider answers or fails.
Fairness == \A t \in Tasks : WF_vars(Continue(t))

Spec == Init /\ [][Next]_vars /\ Fairness

-----------------------------------------------------------------------------
(* Properties.                                                             *)

\* The variables keep their types; a call that asks for one database has one.
TypeOK ==
    /\ DOMAIN cache \subseteq Dbs
    /\ \A db \in DOMAIN cache : cache[db] \in {"current", "outdated"}
    /\ lock \in Tasks \cup {None}
    /\ queue \in Seq(Tasks)
    /\ call \in [Tasks -> [at : {"idle", "clear"}, db : {None}]
                    \cup [at : Points \ {"idle", "clear"}, db : Dbs]]
    /\ opened \in [Dbs -> Nat]
    /\ overtaken \subseteq Tasks

\* "Exactly one connection per tenant database is opened": however many first
\* requests come together and whichever are cancelled, the provider has opened
\* one connection for a cached database since that was last dropped, and none
\* for a database that is not cached.
OneConnectionPerDatabase ==
    \A db \in Dbs : opened[db] = IF db \in DOMAIN cache THEN 1 ELSE 0

\* Once a tenant has been invalidated no connection whose opening began before
\* is cached, let alone handed out: an invalidation does not overtake it.
InvalidationIsFinal == \A db \in DOMAIN cache : cache[db] = "current"

\* Calls do not wait for each other in a circle, nor for a task that has gone away
\* with the lock: while a call waits, one is with the provider, or has its turn.
SomebodyMoves ==
    \A t \in Tasks : call[t].at # "idle" =>
        \E u \in Tasks : call[u].at = "provider" \/ (Granted(u) /\ call[u].at # "idle")

\* Every call ends although gets queue twice and wait behind the provider calls
\* of other tenants.
EveryCallEnds == \A t \in Tasks : call[t].at # "idle" ~> call[t].at = "idle"

=============================================================================
