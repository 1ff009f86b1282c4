----------------------------- MODULE AwsDatabase -----------------------------
(***************************************************************************)
(* The blueprint for a MySQL database on AWS RDS: orders, the discovery    *)
(* that imports what it finds, refresh, start and stop, and the teardown.  *)
(* RDS knows an instance by the identifier the requester typed, and so do  *)
(* the resources, so several of them may mean the same instance.           *)
(*                                                                         *)
(* RDS is not in the sources.  A resource runs one job at a time; the jobs *)
(* of different resources interleave.                                      *)
(***************************************************************************)
CONSTANTS
    Orders,      \* resources that are ordered
    DbIds,       \* DBInstanceIdentifiers
    Wanted,      \* [Orders -> DbIds]: the identifier typed in the order form
    Imports,     \* resources the discovery may make
    None

VARIABLES
    rds,         \* [DbIds -> DBInstanceStatus of the instance, or None]
    dbRecord,    \* [resources -> db_identifier and db_status, or None]
    dbPc,        \* [resources -> control point of the resource's job]
    builders,    \* resources whose create_db_instance made an instance
    deleters     \* resources whose teardown deleted an instance

vars == <<rds, dbRecord, dbPc, builders, deleters>>
DbResources == Orders \cup Imports

Statuses == {"creating", "available", "stopping", "stopped", "starting", "deleting"}

TypeOK ==
    /\ rds \in [DbIds -> Statuses \cup {None}]
    /\ dbRecord \in [DbResources -> [id : DbIds, status : Statuses] \cup {None}]
    /\ dbPc \in [DbResources ->
            {"new", "wait", "idle", "stopping", "starting", "gone"}]
    /\ builders \subseteq Orders
    /\ deleters \subseteq DbResources

Init == /\ rds = [i \in DbIds |-> None]
        /\ dbRecord = [r \in DbResources |-> None]
        /\ dbPc = [r \in DbResources |-> "new"]
        /\ builders = {} /\ deleters = {}

Goto(r, point) == dbPc' = [dbPc EXCEPT ![r] = point]
Record(r, i, s) == dbRecord' = [dbRecord EXCEPT ![r] = [id |-> i, status |-> s]]
SetStatus(i, s) == rds' = [rds EXCEPT ![i] = s]

-----------------------------------------------------------------------------
\* RDS finishes what it is doing to an instance.
Settle(i) ==
    /\ \/ rds[i] \in {"creating", "starting"} /\ SetStatus(i, "available")
       \/ rds[i] = "stopping" /\ SetStatus(i, "stopped")
       \/ rds[i] = "deleting" /\ SetStatus(i, None)
    /\ UNCHANGED <<dbRecord, dbPc, builders, deleters>>

-----------------------------------------------------------------------------
(* The build. *)

Makes(r) == /\ rds[Wanted[r]] = None
            /\ SetStatus(Wanted[r], "creating")
            /\ builders' = builders \cup {r}

CreateInstance(r) ==
    /\ dbPc[r] = "new" /\ Makes(r)
    /\ Goto(r, "wait")
    /\ UNCHANGED <<dbRecord, deleters>>

\* Bug: an instance that exists already is taken for the one ordered.
IdentifierTakenAdopts(r) ==
    /\ dbPc[r] = "new" /\ rds[Wanted[r]] # None
    /\ Goto(r, "wait")
    /\ UNCHANGED <<rds, dbRecord, builders, deleters>>

\* DBInstanceAlreadyExists.
IdentifierTaken(r) ==
    /\ dbPc[r] = "new" /\ rds[Wanted[r]] # None
    /\ Goto(r, "idle")
    /\ UNCHANGED <<rds, dbRecord, builders, deleters>>

\* The call raises, before or after RDS has accepted it.
CreateFails(r) ==
    /\ dbPc[r] = "new"
    /\ Makes(r) \/ UNCHANGED <<rds, builders>>
    /\ Goto(r, "idle")
    /\ UNCHANGED <<dbRecord, deleters>>

\* The waiter sees the instance available.  What is recorded is the answer to
\* the creation, the endpoint excepted.
BuildDone(r) ==
    /\ dbPc[r] = "wait"
    /\ rds[Wanted[r]] = "available"
    /\ Record(r, Wanted[r], "creating")
    /\ Goto(r, "idle")
    /\ UNCHANGED <<rds, builders, deleters>>

\* The waiter gives up, or the endpoint cannot be read: nothing is recorded.
WaitFails(r) ==
    /\ dbPc[r] = "wait"
    /\ Goto(r, "idle")
    /\ UNCHANGED <<rds, dbRecord, builders, deleters>>

-----------------------------------------------------------------------------
\* The discovery makes a resource of an instance no resource is known to be.
Discover(r, i) ==
    /\ r \in Imports /\ dbPc[r] = "new"
    /\ rds[i] # None
    /\ \A q \in DbResources :
          dbRecord[q] # None => dbRecord[q].id # i
    /\ Record(r, i, rds[i])
    /\ Goto(r, "idle")
    /\ UNCHANGED <<rds, builders, deleters>>

-----------------------------------------------------------------------------
(* The management actions of a resource with a record; without one the      *)
(* handler of id None is not found, which ends the job.                     *)

Managed(r) == dbPc[r] = "idle" /\ dbRecord[r] # None
Instance(r) == rds[dbRecord[r].id]

Refresh(r) ==
    /\ Managed(r) /\ Instance(r) # None
    /\ Record(r, dbRecord[r].id, Instance(r))
    /\ Goto(r, "idle")
    /\ UNCHANGED <<rds, builders, deleters>>

\* Start's waiter gives up.  (Elsewhere a job whose call raises, or that finds
\* the instance in the wrong state, changes nothing.)
StartFails(r) ==
    /\ dbPc[r] = "starting"
    /\ Goto(r, "idle")
    /\ UNCHANGED <<rds, dbRecord, builders, deleters>>

Stop(r) ==
    /\ Managed(r) /\ Instance(r) = "available"
    /\ SetStatus(dbRecord[r].id, "stopping")
    /\ Goto(r, "stopping")
    /\ UNCHANGED <<dbRecord, builders, deleters>>

\* The loop ends when the instance is seen stopped, and at the first error,
\* which is taken for it.
StopDone(r, error) ==
    /\ dbPc[r] = "stopping"
    /\ error \/ Instance(r) = "stopped"
    /\ Record(r, dbRecord[r].id, "stopped")
    /\ Goto(r, "idle")
    /\ UNCHANGED <<rds, builders, deleters>>

Start(r) ==
    /\ Managed(r) /\ Instance(r) = "stopped"
    /\ SetStatus(dbRecord[r].id, "starting")
    /\ Goto(r, "starting")
    /\ UNCHANGED <<dbRecord, builders, deleters>>

StartDone(r) ==
    /\ dbPc[r] = "starting"
    /\ Instance(r) = "available"
    /\ Record(r, dbRecord[r].id, "available")
    /\ Goto(r, "idle")
    /\ UNCHANGED <<rds, builders, deleters>>

-----------------------------------------------------------------------------
(* The teardown. *)

\* RDS takes the request unless the instance is being deleted.
Deletes(r) == /\ Instance(r) \notin {None, "deleting"}
              /\ SetStatus(dbRecord[r].id, "deleting")
              /\ deleters' = deleters \cup {r}

\* With the resource its record goes.
Teardown(r) ==
    /\ Managed(r)
    /\ Deletes(r) \/ (Instance(r) = None /\ UNCHANGED <<rds, deleters>>)
    /\ dbRecord' = [dbRecord EXCEPT ![r] = None]
    /\ Goto(r, "gone")
    /\ UNCHANGED builders

\* The call raises although RDS has accepted it.
TeardownLost(r) ==
    /\ Managed(r) /\ Deletes(r)
    /\ Goto(r, "idle")
    /\ UNCHANGED <<dbRecord, builders>>

-----------------------------------------------------------------------------
Next ==
    \/ \E i \in DbIds : Settle(i)
    \/ \E r \in Orders : \/ CreateInstance(r) \/ IdentifierTaken(r) \/ CreateFails(r)
                         \/ BuildDone(r) \/ WaitFails(r)
    \/ \E r \in Imports, i \in DbIds : Discover(r, i)
    \/ \E r \in DbResources :
          \/ Refresh(r)
          \/ Stop(r) \/ \E error \in BOOLEAN : StopDone(r, error)
          \/ Start(r) \/ StartDone(r) \/ StartFails(r)
          \/ Teardown(r) \/ TeardownLost(r)

Spec == Init /\ [][Next]_vars

-----------------------------------------------------------------------------
(* Properties. *)

\* An order that was refused deletes nothing: a teardown deletes what the
\* discovery, or a build that made an instance, has recorded on the resource.
\* (It may still be another order's instance by then: RDS gives the identifier
\* away again once the first one is gone.)
RefusedOrderDeletesNothing == deleters \subseteq Imports \cup builders
=============================================================================
