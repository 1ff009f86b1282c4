---------------------------- MODULE ServerPower -----------------------------
(***************************************************************************)
(* Two recurring jobs that act on the same servers: the automatic power    *)
(* control, which powers the servers of the resources on the schedules of  *)
(* the hour on or off, one thread of a pool to a resource, and the job     *)
(* that warns of, powers off and deletes the servers whose lease is over.  *)
(*                                                                         *)
(* The powering of a resource's servers, one after another in the sequence *)
(* of deployment, is the platform's.                                       *)
(***************************************************************************)
EXTENDS FiniteSets, Naturals, Sequences, Selection

CONSTANTS
    Order,      \* [resources -> sequence of servers, as they are deployed]
    On,         \* servers that are on at first
    Workers,    \* threads of the pool: 100 in the code
    LeaseOrder  \* sequence of servers with an expiration date

VARIABLES
    power,      \* [servers -> "on" or "off"]
    historical, \* servers that are deleted
    decoms,     \* servers with a decommission job that has not ended
    due,        \* [Leased -> "no", "warn", "off", "delete"]: by days_expired
    todoOn, todoOff,   \* power_on_resources, power_off_resources
    tasks,      \* tasks of the pool: [on, resource, left: its servers to do,
                \* started, failures, raised]
    powered,    \* servers something else acted on since the run began
    failures,   \* total_server_failures, by server
    raised,     \* resources whose thread raised
    powerPc,    \* "idle", "run", or what the run returned
    leaseTodo,  \* servers of the lease run still to be looked at
    leaseSeen,  \* those that were historical when they were read
    leasePc

vars == <<power, historical, decoms, due, todoOn, todoOff, tasks, powered, failures, raised,
          powerPc, leaseTodo, leaseSeen, leasePc>>
pool == <<todoOn, todoOff, tasks, failures, raised, powerPc>>
lease == <<leaseTodo, leaseSeen, leasePc>>

Powered == DOMAIN Order
OfResource(r) == {Order[r][k] : k \in DOMAIN Order[r]}
Leased == {LeaseOrder[k] : k \in DOMAIN LeaseOrder}
Machines == Leased \cup UNION {OfResource(r) : r \in Powered}
Backwards(s) == [k \in DOMAIN s |-> s[Len(s) + 1 - k]]

TypeOK == /\ power \in [Machines -> {"on", "off"}]
          /\ historical \subseteq Machines /\ decoms \subseteq Machines
          /\ due \in [Leased -> {"no", "warn", "off", "delete"}]
          /\ todoOn \subseteq Powered /\ todoOff \subseteq Powered
          /\ \A t \in tasks : t.resource \in Powered /\ t.failures \subseteq Machines
          /\ powered \subseteq Machines /\ failures \subseteq Machines
          /\ raised \subseteq Powered
          /\ powerPc \in {"idle", "run", "SUCCESS", "WARNING"}
          /\ leasePc \in {"idle", "look", "email", "wait", "failed"}

Init == /\ power = [s \in Machines |-> IF s \in On THEN "on" ELSE "off"]
        /\ historical = {} /\ decoms = {}
        /\ due = [s \in Leased |-> "no"]
        /\ todoOn = {} /\ todoOff = {} /\ tasks = {}
        /\ powered = {} /\ failures = {} /\ raised = {} /\ powerPc = "idle"
        /\ leaseTodo = <<>> /\ leaseSeen = {} /\ leasePc = "idle"

-----------------------------------------------------------------------------
(* The power control. *)

Active == {r \in Powered : OfResource(r) \ historical # {}}

Task(on, r) == [on |-> on, resource |-> r, started |-> FALSE, failures |-> {},
                left |-> IF on = "on" THEN Order[r] ELSE Backwards(Order[r])]

\* One run.  The schedules of the hour may name a resource on both sides.
RunPowerControl ==
    /\ powerPc = "idle"
    /\ \E on, off \in SUBSET Active :
          /\ on \cup off # {}
          /\ todoOn' = on /\ todoOff' = off
          /\ tasks' = {Task("on", r) : r \in on} \cup {Task("off", r) : r \in off}
    /\ powered' = {} /\ powerPc' = "run"
    /\ UNCHANGED <<power, historical, decoms, due, failures, raised, lease>>

Running == {t \in tasks : t.started}
With(t, new) == tasks' = (tasks \ {t}) \cup {new}

StartTask(t) ==
    /\ t \in tasks /\ ~t.started /\ Cardinality(Running) < Workers
    /\ With(t, [t EXCEPT !.started = TRUE])
    /\ UNCHANGED <<power, historical, decoms, due, todoOn, todoOff, powered, failures, raised,
                   powerPc, lease>>

\* power_on_servers, power_off_servers: the next one, also after a failure.
PowerServer(t) ==
    /\ t \in Running /\ t.left # <<>>
    /\ LET s == Head(t.left)
       IN  \/ /\ power' = [power EXCEPT ![s] = t.on]
              /\ With(t, [t EXCEPT !.left = Tail(t.left)])
           \/ /\ UNCHANGED power
              /\ With(t, [t EXCEPT !.left = Tail(t.left), !.failures = @ \cup {s}])
    /\ UNCHANGED <<historical, decoms, due, todoOn, todoOff, powered, failures, raised, powerPc,
                   lease>>

\* Bug: the failures are those of the thread that ended last.
EndTaskLast(t) ==
    /\ t \in Running /\ t.left = <<>>
    /\ failures' = t.failures
    /\ tasks' = tasks \ {t}
    /\ UNCHANGED <<power, historical, decoms, due, todoOn, todoOff, powered, raised, powerPc,
                   lease>>

\* as_completed: threads in the order in which they end.
EndTask(t) ==
    /\ t \in Running /\ t.left = <<>>
    /\ failures' = failures \cup t.failures
    /\ tasks' = tasks \ {t}
    /\ UNCHANGED <<power, historical, decoms, due, todoOn, todoOff, powered, raised, powerPc,
                   lease>>

\* A thread that raises is logged and counts for nothing.
TaskRaises(t) ==
    /\ t \in Running
    /\ raised' = raised \cup {t.resource}
    /\ tasks' = tasks \ {t}
    /\ UNCHANGED <<power, historical, decoms, due, todoOn, todoOff, powered, failures, powerPc,
                   lease>>

EndPowerControl ==
    /\ powerPc = "run" /\ tasks = {}
    /\ powerPc' = IF failures = {} THEN "SUCCESS" ELSE "WARNING"
    /\ UNCHANGED <<power, historical, decoms, due, todoOn, todoOff, tasks, powered, failures,
                   raised, lease>>

-----------------------------------------------------------------------------
(* The leases. *)

Later(d) == CASE d = "no" -> "warn" [] d = "warn" -> "off" [] OTHER -> "delete"

\* Between two runs.
DayPasses(s) ==
    /\ s \notin historical /\ due[s] # "delete" /\ leasePc \in {"idle", "failed"}
    /\ due' = [due EXCEPT ![s] = Later(@)]
    /\ UNCHANGED <<power, historical, decoms, powered, pool, lease>>

\* The rule hands the expired servers over; their rows are read once.
RunLeases ==
    /\ leasePc \in {"idle", "failed"} /\ \E s \in Leased : due[s] # "no"
    /\ leaseTodo' = Selected(LeaseOrder, {s \in Leased : due[s] # "no"})
    /\ leaseSeen' = historical
    /\ leasePc' = "look"
    /\ UNCHANGED <<power, historical, decoms, due, powered, pool>>

This == Head(leaseTodo)
Looking == leasePc = "look" /\ leaseTodo # <<>>

SkipHistorical ==
    /\ Looking /\ This \in leaseSeen
    /\ leaseTodo' = Tail(leaseTodo)
    /\ UNCHANGED <<power, historical, decoms, due, powered, pool, leaseSeen, leasePc>>

DeleteServer ==
    /\ Looking /\ This \notin leaseSeen /\ due[This] = "delete"
    /\ decoms' = decoms \cup {This} /\ leasePc' = "email"
    /\ UNCHANGED <<power, historical, due, powered, pool, leaseTodo, leaseSeen>>

\* A power-off that fails is noted; the mail goes out all the same.
PowerOffServer ==
    /\ Looking /\ This \notin leaseSeen /\ due[This] = "off"
    /\ power' \in {power, [power EXCEPT ![This] = "off"]}
    /\ powered' = powered \cup {This} /\ leasePc' = "email"
    /\ UNCHANGED <<historical, decoms, due, pool, leaseTodo, leaseSeen>>

WarnOwner ==
    /\ Looking /\ This \notin leaseSeen /\ due[This] \in {"warn", "no"}
    /\ leasePc' = "email"
    /\ UNCHANGED <<power, historical, decoms, due, powered, pool, leaseTodo, leaseSeen>>

\* A server without an owner; who owns a server is left open.
EmailOwner ==
    /\ leasePc = "email"
    /\ leasePc' = IF This \in decoms THEN "wait" ELSE "look"
    /\ leaseTodo' = IF This \in decoms THEN leaseTodo ELSE Tail(leaseTodo)
    /\ UNCHANGED <<power, historical, decoms, due, powered, pool, leaseSeen>>

\* One with an owner: names that are not bound, and the run is over.
EmailOwnerRaises ==
    /\ leasePc = "email"
    /\ leasePc' = "failed" /\ leaseTodo' = <<>>
    /\ UNCHANGED <<power, historical, decoms, due, powered, pool, leaseSeen>>

WaitForJobs ==
    /\ leasePc = "wait" /\ This \notin decoms
    /\ leasePc' = "look" /\ leaseTodo' = Tail(leaseTodo)
    /\ UNCHANGED <<power, historical, decoms, due, powered, pool, leaseSeen>>

EndLeases ==
    /\ leasePc = "look" /\ leaseTodo = <<>>
    /\ leasePc' = "idle"
    /\ UNCHANGED <<power, historical, decoms, due, powered, pool, leaseTodo, leaseSeen>>

\* The decommission job powers the server off and deletes it, or fails.
DecommissionEnds(s) ==
    /\ s \in decoms
    /\ decoms' = decoms \ {s}
    /\ \/ /\ power' = [power EXCEPT ![s] = "off"]
          /\ historical' = historical \cup {s} /\ powered' = powered \cup {s}
       \/ UNCHANGED <<power, historical, powered>>
    /\ UNCHANGED <<due, pool, lease>>

-----------------------------------------------------------------------------
Next ==
    \/ RunPowerControl \/ EndPowerControl
    \/ \E t \in tasks : StartTask(t) \/ PowerServer(t) \/ EndTask(t) \/ TaskRaises(t)
    \/ \E s \in Leased : DayPasses(s) \/ DecommissionEnds(s)
    \/ RunLeases \/ SkipHistorical \/ DeleteServer \/ PowerOffServer \/ WarnOwner
    \/ EmailOwner \/ EmailOwnerRaises \/ WaitForJobs \/ EndLeases

Spec == Init /\ [][Next]_vars

-----------------------------------------------------------------------------
(* Properties. *)

\* When a run of the power control returns SUCCESS, the servers of a resource
\* that was to be powered on, and not off as well, are on, and the other way
\* round, whatever order the threads ran in, unless its thread raised or the
\* lease job acted on the server meanwhile.
ScheduledPower ==
    powerPc = "SUCCESS" =>
        \A r \in (todoOn \cup todoOff) \ ((todoOn \cap todoOff) \cup raised) :
            \A s \in OfResource(r) \ powered :
                power[s] = IF r \in todoOn THEN "on" ELSE "off"
=============================================================================
