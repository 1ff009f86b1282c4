--------------------------- MODULE OrderApproval ---------------------------
(***************************************************************************)
(* Approval of CloudBolt orders through ServiceNow: the submit hook that   *)
(* opens a service catalog request for an order, the recurring job that    *)
(* polls ServiceNow and applies the verdicts, and the post-order hook that *)
(* closes the request.  They share the database of orders and ServiceNow   *)
(* and nothing serialises them, so each database write and each HTTP call  *)
(* is a step of its own.                                                   *)
(*                                                                         *)
(* The platform (Order.approve(), Order.complete(), the job engine, an     *)
(* administrator's decision) and ServiceNow are not part of the sources:   *)
(* they are modelled from how the scripts use them.                        *)
(***************************************************************************)
EXTENDS Naturals, FiniteSets

CONSTANTS
    Orders, Items,      \* orders, and the order items they consist of
    OrderOf,            \* [Items -> Orders]: the order an item belongs to
    Kind,               \* [Items -> {"blueprint", "servermod", "other"}]
    Quantity,           \* [Items -> Nat \cup {NoQuantity}]: the item's field
    NoQuantity,         \* the quantity of an item that has none
    Approvers,          \* the orders for which order.approvers.exists()
    Pollers,            \* concurrent executions of the recurring job
    NoOrder,            \* "not working on an order"
    MaxRepends,         \* bound: how often hooks return an order to PENDING
    Env                 \* what the environment may do in this instance

\* "admin":    an administrator decides pending orders
\* "snowauto": ServiceNow may approve a request as it is created
\* "revise":   ServiceNow may cancel a request it approved
\* "delete":   a request may be deleted in ServiceNow
\* "down":     calls to ServiceNow may fail or time out
\* "hookfail", "repend": a pre_order_execution hook may fail, or set the
\*             order back to PENDING
\* "crash":    a worker may die between two steps
EnvChoices == {"admin", "snowauto", "revise", "delete", "down",
               "hookfail", "repend", "crash"}

Workers == Orders \cup Pollers   \* the submit hook of o is the worker o

ItemsOf(o)   == {i \in Items : OrderOf[i] = o}
OfKind(o, k) == {i \in ItemsOf(o) : Kind[i] = k}

\* get_order_items: the blueprint item if there is one, otherwise the server
\* modification items; the items that get the sys_id of the request.
Targets(o) == IF OfKind(o, "blueprint") # {} THEN OfKind(o, "blueprint")
                                             ELSE OfKind(o, "servermod")

\* How many jobs an item is launched with: an item without a quantity gets one.
JobsFor(i) == IF Quantity[i] = NoQuantity THEN 1 ELSE Quantity[i]

\* Bugs the runs must notice: the quantity is ignored; range() is one too long.
PlanOnePerItem(o) == [i \in Items |-> IF OrderOf[i] = o THEN 1 ELSE 0]
PlanOffByOne(o) ==
    [i \in Items |-> IF OrderOf[i] = o THEN JobsFor(i) + 1 ELSE 0]

\* The jobs an execution of approve_order has to save for order o.
Plan(o) == [i \in Items |-> IF OrderOf[i] = o THEN JobsFor(i) ELSE 0]
NoJobs  == [i \in Items |-> 0]

ASSUME ConstantsAssumption ==
    /\ OrderOf \in [Items -> Orders]
    /\ Kind \in [Items -> {"blueprint", "servermod", "other"}]
    /\ NoQuantity \notin Nat
    /\ Quantity \in [Items -> Nat \cup {NoQuantity}]
    /\ Approvers \subseteq Orders
    /\ Orders \cap Pollers = {}
    /\ NoOrder \notin Orders
    /\ MaxRepends \in Nat
    /\ Env \subseteq EnvChoices
    \* create_service_request.py:48: a single blueprint item per order
    /\ \A i, j \in Items :
          OrderOf[i] = OrderOf[j] /\ Kind[i] = "blueprint" /\ Kind[j] = "blueprint"
          => i = j

VARIABLES
    status,      \* [Orders -> Status]: Order.status in the database
    approvedBy,  \* [Orders -> who]: Order.approved_by in the database
    hasSysId,    \* the items with a snow_order_submit_sys_id value
    jobs,        \* [Items -> Nat]: Job rows saved for the item
    approval,    \* [Orders -> field "approval" of the order's sc_request]
    verdicts,    \* history: what ServiceNow or the platform decided on the order
    reqState,    \* [Orders -> "state" of the sc_request]
    closeDue,    \* [Orders -> status the post-order hook is to report]
    pc,          \* [Workers -> control point]
    queue,       \* [Pollers -> orders of the snapshot still to look at]
    cur,         \* [Workers -> the order object the worker holds]
    found,       \* [Workers -> the approval field the worker read]
    todo,        \* [Workers -> [Items -> Nat]]: jobs the worker has yet to save
    approvals,   \* history: how often the order was made ACTIVE
    repends      \* history: how often a hook made the order PENDING again

orderVars == <<status, approvedBy, hasSysId, jobs>>
snowVars  == <<approval, verdicts, reqState>>
workVars  == <<pc, queue, cur, found, todo>>
vars == <<orderVars, snowVars, closeDue, workVars, approvals, repends>>

Status   == {"CART", "PENDING", "ACTIVE", "SUCCESS", "FAILURE", "DENIED",
             "CANCELED"}
Verdicts == {"approved", "rejected", "cancelled"}
Decisions == Verdicts \cup {"platform"}
Approval == Verdicts \cup {"absent", "requested", "deleted"}
ReqState == {"open", "closed_complete", "closed_incomplete", "closed_rejected"}
HookPC   == {"cart", "submit", "post", "store", "apply", "launch", "done"}
PollPC   == {"idle", "query", "loop", "apply", "hooks", "launch"}

\* Where a worker holds an order object.
Busy == {"submit", "post", "store", "apply", "hooks", "launch"}

TypeOK ==
    /\ status \in [Orders -> Status]
    /\ approvedBy \in [Orders -> {"none", "snow", "platform"}]
    /\ hasSysId \subseteq Items
    /\ jobs \in [Items -> Nat]
    /\ approval \in [Orders -> Approval]
    /\ verdicts \in [Orders -> SUBSET Decisions]
    /\ reqState \in [Orders -> ReqState]
    /\ closeDue \in [Orders -> {"no", "SUCCESS", "FAILURE", "DENIED"}]
    /\ pc \in [Workers -> HookPC \cup PollPC]
    /\ queue \in [Pollers -> SUBSET Orders]
    /\ cur \in [Workers -> Orders \cup {NoOrder}]
    /\ found \in [Workers -> Approval]
    /\ todo \in [Workers -> [Items -> Nat]]
    /\ approvals \in [Orders -> Nat]
    /\ repends \in [Orders -> 0 .. MaxRepends]
    /\ \A w \in Workers : pc[w] \in Busy => cur[w] \in Orders

Init ==
    /\ status = [o \in Orders |-> "CART"]
    /\ approvedBy = [o \in Orders |-> "none"]
    /\ hasSysId = {}
    /\ jobs = NoJobs
    /\ approval = [o \in Orders |-> "absent"]
    /\ verdicts = [o \in Orders |-> {}]
    /\ reqState = [o \in Orders |-> "open"]
    /\ closeDue = [o \in Orders |-> "no"]
    /\ pc = [w \in Workers |-> IF w \in Orders THEN "cart" ELSE "idle"]
    /\ queue = [p \in Pollers |-> {}]
    /\ cur = [w \in Workers |-> NoOrder]
    /\ found = [w \in Workers |-> "absent"]
    /\ todo = [w \in Workers |-> NoJobs]
    /\ approvals = [o \in Orders |-> 0]
    /\ repends = [o \in Orders |-> 0]

-----------------------------------------------------------------------------
(* What the platform does with an order (not in the sources). *)

\* Order.complete(): the final status, and the post-order hook becomes due.
Complete(o, s) == /\ status' = [status EXCEPT ![o] = s]
                  /\ closeDue' = [closeDue EXCEPT ![o] = s]

DecidedByPlatform(o) ==
    /\ approvedBy' = [approvedBy EXCEPT ![o] = "platform"]
    /\ verdicts' = [verdicts EXCEPT ![o] = @ \cup {"platform"}]
    /\ UNCHANGED <<approval, reqState>>

\* Order.approve(): the order is ACTIVE with all its jobs, or done if it has none.
PlatformApprove(o) ==
    /\ IF \A i \in ItemsOf(o) : JobsFor(i) = 0
       THEN Complete(o, "SUCCESS")
       ELSE /\ status' = [status EXCEPT ![o] = "ACTIVE"]
            /\ UNCHANGED closeDue
    /\ DecidedByPlatform(o)
    /\ jobs' = [i \in Items |-> jobs[i] + Plan(o)[i]]
    /\ approvals' = [approvals EXCEPT ![o] = @ + 1]

\* The order is submitted: PENDING, and its submit hook starts.
SubmitOrder(o) ==
    /\ status[o] = "CART"
    /\ pc[o] = "cart"
    /\ status' = [status EXCEPT ![o] = "PENDING"]
    /\ pc' = [pc EXCEPT ![o] = "submit"]
    /\ cur' = [cur EXCEPT ![o] = o]
    /\ UNCHANGED <<approvedBy, hasSysId, jobs, snowVars, closeDue, queue, found,
                   todo, approvals, repends>>

AdminApprove(o) ==
    /\ "admin" \in Env
    /\ status[o] = "PENDING"
    /\ PlatformApprove(o)
    /\ UNCHANGED <<hasSysId, workVars, repends>>

AdminDeny(o) ==
    /\ "admin" \in Env
    /\ status[o] = "PENDING"
    /\ Complete(o, "DENIED")
    /\ DecidedByPlatform(o)
    /\ UNCHANGED <<hasSysId, jobs, workVars, approvals, repends>>

\* The job engine has run every job saved so far of an ACTIVE order.
CompleteOrder(o) ==
    /\ status[o] = "ACTIVE"
    /\ \E i \in ItemsOf(o) : jobs[i] > 0
    /\ \E s \in {"SUCCESS", "FAILURE"} : Complete(o, s)
    /\ UNCHANGED <<approvedBy, hasSysId, jobs, snowVars, workVars, approvals,
                   repends>>

-----------------------------------------------------------------------------
(* What ServiceNow does with the request of order o (not in the sources). *)

Decide(o, v) == /\ approval' = [approval EXCEPT ![o] = v]
                /\ verdicts' = [verdicts EXCEPT ![o] = @ \cup {v}]
                /\ UNCHANGED <<reqState, orderVars, closeDue, workVars,
                               approvals, repends>>

SnowDecide(o) == /\ approval[o] = "requested"
                 /\ \E v \in Verdicts : Decide(o, v)

SnowRevise(o) == /\ "revise" \in Env
                 /\ approval[o] = "approved"
                 /\ Decide(o, "cancelled")

SnowDelete(o) ==
    /\ "delete" \in Env
    /\ approval[o] \notin {"absent", "deleted"}
    /\ approval' = [approval EXCEPT ![o] = "deleted"]
    /\ UNCHANGED <<verdicts, reqState, orderVars, closeDue, workVars,
                   approvals, repends>>

-----------------------------------------------------------------------------
(* A worker leaves its order: a poller goes on with its snapshot, a submit  *)
(* hook is done.  Stop also drops the snapshot: an exception ends the run.  *)

Leave(w, rest) ==
    /\ pc' = [pc EXCEPT ![w] = IF w \in Orders THEN "done"
                               ELSE IF rest = {} THEN "idle" ELSE "loop"]
    /\ cur' = [cur EXCEPT ![w] = NoOrder]
    /\ found' = [found EXCEPT ![w] = "absent"]

Stop(w) == /\ Leave(w, {})
           /\ queue' = [p \in Pollers |-> IF p = w THEN {} ELSE queue[p]]
           /\ todo' = [todo EXCEPT ![w] = NoJobs]

Rest(w) == IF w \in Pollers THEN queue[w] ELSE {}

-----------------------------------------------------------------------------
(* create_service_request.py: the submit hook of order o. *)

\* run: an order with neither kind of item is approved by the platform.
AutoApproveOther(o) ==
    /\ pc[o] = "submit"
    /\ Targets(o) = {}
    /\ PlatformApprove(o)
    /\ Leave(o, {})
    /\ UNCHANGED <<hasSysId, queue, todo, repends>>

\* run, get_sysid_for_users: the requester is looked up by user name, then by
\* e-mail address; an exception leaves the hook before any request is made.
GetSysidForUsers(o) ==
    /\ pc[o] = "submit"
    /\ Targets(o) # {}
    /\ \/ /\ pc' = [pc EXCEPT ![o] = "post"]
          /\ UNCHANGED <<cur, found>>
       \/ /\ "down" \in Env
          /\ Leave(o, {})
    /\ UNCHANGED <<orderVars, snowVars, closeDue, queue, todo, approvals, repends>>

\* create_service_request, the POST: ServiceNow creates the request and the
\* response is read, or the response is lost, or nothing was created.  An
\* exception becomes a FAILURE result: the order stays PENDING.
CreateServiceRequest(o) ==
    /\ pc[o] = "post"
    /\ \/ \E a \in {"requested"} \cup IF "snowauto" \in Env THEN {"approved"} ELSE {} :
             /\ approval' = [approval EXCEPT ![o] = a]
             /\ verdicts' = [verdicts EXCEPT ![o] = @ \cup ({a} \cap Verdicts)]
             /\ \/ /\ pc' = [pc EXCEPT ![o] = "store"]
                   /\ found' = [found EXCEPT ![o] = a]
                   /\ UNCHANGED cur
                \/ /\ "down" \in Env
                   /\ Leave(o, {})
       \/ /\ "down" \in Env
          /\ Leave(o, {})
          /\ UNCHANGED <<approval, verdicts>>
    /\ UNCHANGED <<orderVars, reqState, closeDue, queue, todo, approvals, repends>>

\* add_servicenow_info_to_oi: the sys_id is saved item by item; then the
\* approval field of the POST's response decides.
AddServicenowInfoToOi(o) ==
    /\ pc[o] = "store"
    /\ \E i \in Targets(o) \ hasSysId :
          /\ hasSysId' = hasSysId \cup {i}
          /\ IF Targets(o) \subseteq hasSysId'
             THEN IF found[o] = "approved"
                  THEN /\ pc' = [pc EXCEPT ![o] = "apply"]
                       /\ UNCHANGED <<cur, found>>
                  ELSE Leave(o, {})
             ELSE UNCHANGED <<pc, cur, found>>
    /\ UNCHANGED <<status, approvedBy, jobs, snowVars, closeDue, queue, todo,
                   approvals, repends>>

-----------------------------------------------------------------------------
(* approve_from_servicenow.py: an execution p of the recurring job. *)

\* Bug: the status='PENDING' filter is missing.
PendingOrdersAnyStatus(k) ==
    {o \in Orders : status[o] # "CART" /\ OfKind(o, k) \cap hasSysId # {}}

\* The PENDING orders with an item of kind k that has a sys_id.
PendingOrders(k) ==
    {o \in Orders : status[o] = "PENDING" /\ OfKind(o, k) \cap hasSysId # {}}

\* get_pending_smoi_orders is evaluated first: the other query set is lazy.
GetPendingSmoiOrders(p) ==
    /\ pc[p] = "idle"
    /\ queue' = [queue EXCEPT ![p] = PendingOrders("servermod")]
    /\ pc' = [pc EXCEPT ![p] = "query"]
    /\ UNCHANGED <<orderVars, snowVars, closeDue, cur, found, todo, approvals,
                   repends>>

\* run: the lazy query set of blueprint orders is read and cached.
GetPendingBpoiOrders(p) ==
    /\ pc[p] = "query"
    /\ queue' = [queue EXCEPT ![p] = @ \cup PendingOrders("blueprint")]
    /\ pc' = [pc EXCEPT ![p] = IF queue'[p] = {} THEN "idle" ELSE "loop"]
    /\ UNCHANGED <<orderVars, snowVars, closeDue, cur, found, todo, approvals,
                   repends>>

\* The orders of the snapshot that can be next: blueprint orders come first,
\* neither list is ordered.
NextUp(p) ==
    LET bpois == {o \in queue[p] : OfKind(o, "blueprint") \cap hasSysId # {}}
    IN  IF bpois # {} THEN bpois ELSE queue[p]

\* get_approval_status finds the request.
GetApprovalStatus(p, o) ==
    /\ pc[p] = "loop"
    /\ o \in NextUp(p)
    /\ approval[o] # "deleted"
    /\ queue' = [queue EXCEPT ![p] = @ \ {o}]
    /\ cur' = [cur EXCEPT ![p] = o]
    /\ found' = [found EXCEPT ![p] = approval[o]]
    /\ pc' = [pc EXCEPT ![p] = "apply"]
    /\ UNCHANGED <<orderVars, snowVars, closeDue, todo, approvals, repends>>

\* get_approval_status raises: lookup_ci returns {} for a request that is gone,
\* so approval_data["approval"] is a KeyError; a failed GET raises as well.
\* Nothing catches the exception: the run ends and the rest is not looked at.
LookupFails(p, o) ==
    /\ pc[p] = "loop"
    /\ o \in NextUp(p)
    /\ approval[o] = "deleted" \/ "down" \in Env
    /\ Stop(p)
    /\ UNCHANGED <<orderVars, snowVars, closeDue, approvals, repends>>

\* Bug: a request that is not decided yet ends the run.
LeavePendingEndsRun(p) ==
    /\ pc[p] = "apply"
    /\ found[p] \notin Verdicts
    /\ Stop(p)
    /\ UNCHANGED <<orderVars, snowVars, closeDue, approvals, repends>>

\* Bug: every verdict but "approved" and "rejected" cancels the order.
LeavePendingCancels(p) ==
    /\ pc[p] = "apply"
    /\ found[p] \notin Verdicts
    /\ status' = [status EXCEPT ![cur[p]] = "CANCELED"]
    /\ approvedBy' = [approvedBy EXCEPT ![cur[p]] = "snow"]
    /\ Leave(p, queue[p])
    /\ UNCHANGED <<hasSysId, jobs, snowVars, closeDue, queue, todo, approvals,
                   repends>>

\* approve_order_from_status: nothing is done with any other verdict.
LeavePending(p) ==
    /\ pc[p] = "apply"
    /\ found[p] \notin Verdicts
    /\ Leave(p, queue[p])
    /\ UNCHANGED <<orderVars, snowVars, closeDue, queue, todo, approvals, repends>>

\* reject_order and cancel_order save the order they hold, whatever the row is.
Refuse(p, v, s) ==
    /\ pc[p] = "apply"
    /\ found[p] = v
    /\ status' = [status EXCEPT ![cur[p]] = s]
    /\ approvedBy' = [approvedBy EXCEPT ![cur[p]] = "snow"]
    /\ Leave(p, queue[p])
    /\ UNCHANGED <<hasSysId, jobs, snowVars, closeDue, queue, todo, approvals,
                   repends>>

\* Bugs: the two refusals are swapped; ServiceNow's spelling is stored.
RejectOrderSwapped(p)  == Refuse(p, "rejected", "CANCELED")
CancelOrderMisspelt(p) == Refuse(p, "cancelled", "CANCELLED")

RejectOrder(p) == Refuse(p, "rejected", "DENIED")
CancelOrder(p) == Refuse(p, "cancelled", "CANCELED")

-----------------------------------------------------------------------------
(* approve_order, in the recurring job and in the submit hook. *)

\* The held order is saved as ACTIVE; only the job runs the hooks.
ApproveOrder(w) ==
    /\ pc[w] = "apply"
    /\ found[w] = "approved"
    /\ status' = [status EXCEPT ![cur[w]] = "ACTIVE"]
    /\ approvedBy' = [approvedBy EXCEPT ![cur[w]] = "snow"]
    /\ approvals' = [approvals EXCEPT ![cur[w]] = @ + 1]
    /\ IF w \in Pollers
       THEN /\ pc' = [pc EXCEPT ![w] = "hooks"]
            /\ UNCHANGED todo
       ELSE /\ pc' = [pc EXCEPT ![w] = "launch"]
            /\ todo' = [todo EXCEPT ![w] = Plan(cur[w])]
    /\ UNCHANGED <<hasSysId, jobs, snowVars, closeDue, queue, cur, found, repends>>

Launch(p) == /\ pc' = [pc EXCEPT ![p] = "launch"]
             /\ todo' = [todo EXCEPT ![p] = Plan(cur[p])]

\* run_hooks("pre_order_execution") returns.
HooksPass(p) ==
    /\ pc[p] = "hooks"
    /\ Launch(p)
    /\ UNCHANGED <<orderVars, snowVars, closeDue, queue, cur, found, approvals,
                   repends>>

\* Bug: the exception is logged and not raised again.
HooksFailGoesOn(p) ==
    /\ "hookfail" \in Env
    /\ pc[p] = "hooks"
    /\ status' = [status EXCEPT ![cur[p]] = "FAILURE"]
    /\ Launch(p)
    /\ UNCHANGED <<approvedBy, hasSysId, jobs, snowVars, closeDue, queue, cur,
                   found, approvals, repends>>

\* HookFailureException: FAILURE is saved and a CloudBoltException ends the run.
HooksFail(p) ==
    /\ "hookfail" \in Env
    /\ pc[p] = "hooks"
    /\ status' = [status EXCEPT ![cur[p]] = "FAILURE"]
    /\ Stop(p)
    /\ UNCHANGED <<approvedBy, hasSysId, jobs, snowVars, closeDue, approvals,
                   repends>>

\* A hook set the order back to PENDING: approve_order returns without jobs,
\* but only if the order has approvers; otherwise it goes on and launches it.
HooksRepend(p) ==
    /\ "repend" \in Env
    /\ pc[p] = "hooks"
    /\ repends[cur[p]] < MaxRepends
    /\ status' = [status EXCEPT ![cur[p]] = "PENDING"]
    /\ repends' = [repends EXCEPT ![cur[p]] = @ + 1]
    /\ IF cur[p] \in Approvers
       THEN /\ Leave(p, queue[p])
            /\ UNCHANGED todo
       ELSE /\ Launch(p)
            /\ UNCHANGED <<cur, found>>
    /\ UNCHANGED <<approvedBy, hasSysId, jobs, snowVars, closeDue, queue, approvals>>

\* job.save(), one row at a time; the engine may run the job at once.
SaveJob(w) ==
    /\ pc[w] = "launch"
    /\ \E i \in Items :
          /\ todo[w][i] > 0
          /\ todo' = [todo EXCEPT ![w][i] = @ - 1]
          /\ jobs' = [jobs EXCEPT ![i] = @ + 1]
    /\ UNCHANGED <<status, approvedBy, hasSysId, snowVars, closeDue, pc, queue,
                   cur, found, approvals, repends>>

\* Bug: the launch stops after the first job of the order.
FinishApprovalEarly(w) ==
    /\ pc[w] = "launch"
    /\ todo[w] # Plan(cur[w])
    /\ Leave(w, Rest(w))
    /\ todo' = [todo EXCEPT ![w] = NoJobs]
    /\ UNCHANGED <<orderVars, snowVars, closeDue, queue, approvals, repends>>

\* All jobs are saved; an order that made none is completed here.
FinishApproval(w) ==
    /\ pc[w] = "launch"
    /\ todo[w] = NoJobs
    /\ IF \A i \in ItemsOf(cur[w]) : JobsFor(i) = 0
       THEN Complete(cur[w], "SUCCESS")
       ELSE UNCHANGED <<status, closeDue>>
    /\ Leave(w, Rest(w))
    /\ UNCHANGED <<approvedBy, hasSysId, jobs, snowVars, queue, todo, approvals,
                   repends>>

\* A worker dies between two steps; a later run starts from the database.
Crash(w) ==
    /\ "crash" \in Env
    /\ pc[w] \notin {"cart", "done", "idle"}
    /\ Stop(w)
    /\ UNCHANGED <<orderVars, snowVars, closeDue, approvals, repends>>

-----------------------------------------------------------------------------
(* close_request.py: the post-order hook of order o. *)

\* Bug: a failed order is reported as complete.
ClosedStateNoFailure(s) == IF s = "DENIED" THEN "closed_rejected"
                                           ELSE "closed_complete"

\* get_state raises for any other status.
ClosedState(s) == CASE s = "FAILURE" -> "closed_incomplete"
                    [] s = "SUCCESS" -> "closed_complete"
                    [] s = "DENIED"  -> "closed_rejected"

\* run: without a sys_id there is nothing to close; the PUT may fail, and is
\* not tried again.
CloseRequest(o) ==
    /\ closeDue[o] # "no"
    /\ closeDue' = [closeDue EXCEPT ![o] = "no"]
    /\ \/ /\ ItemsOf(o) \cap hasSysId # {}
          /\ approval[o] # "deleted"
          /\ reqState' = [reqState EXCEPT ![o] = ClosedState(closeDue[o])]
       \/ /\ \/ ItemsOf(o) \cap hasSysId = {}
             \/ approval[o] = "deleted"
             \/ "down" \in Env
          /\ UNCHANGED reqState
    /\ UNCHANGED <<orderVars, approval, verdicts, workVars, approvals, repends>>

-----------------------------------------------------------------------------

Hook(o) == \/ AutoApproveOther(o)
           \/ GetSysidForUsers(o)
           \/ CreateServiceRequest(o)
           \/ AddServicenowInfoToOi(o)

Poll(p) == \/ GetPendingSmoiOrders(p)
           \/ GetPendingBpoiOrders(p)
           \/ \E o \in Orders : GetApprovalStatus(p, o) \/ LookupFails(p, o)
           \/ LeavePending(p)
           \/ RejectOrder(p)
           \/ CancelOrder(p)
           \/ HooksPass(p)
           \/ HooksFail(p)
           \/ HooksRepend(p)

Approve(w) == ApproveOrder(w) \/ SaveJob(w) \/ FinishApproval(w)

Environment(o) == \/ SubmitOrder(o)
                  \/ AdminApprove(o)
                  \/ AdminDeny(o)
                  \/ CompleteOrder(o)
                  \/ SnowDecide(o)
                  \/ SnowRevise(o)
                  \/ SnowDelete(o)

Next == \/ \E o \in Orders : Environment(o) \/ Hook(o) \/ CloseRequest(o)
        \/ \E p \in Pollers : Poll(p)
        \/ \E w \in Workers : Approve(w) \/ Crash(w)

Spec == Init /\ [][Next]_vars

-----------------------------------------------------------------------------
(* Properties. *)

\* No item is ever launched with more jobs than it asks for
\* (approve_from_servicenow.py:217-235): neither a second look at an order nor
\* a crash in the middle of a launch saves a job twice.
NoDuplicateJobs == \A i \in Items : jobs[i] <= JobsFor(i)

\* Who is launching order o: a worker between the save of ACTIVE and the last
\* job of approve_order.
Launching(w, o) == cur[w] = o /\ pc[w] \in {"hooks", "launch"}

\* An order that ServiceNow approved is fully launched, or a worker is still
\* at it and has exactly the missing jobs to save (approve_order, lines 172 to
\* 235): no order stays half launched.  A crash breaks this for good.
LaunchedOrOwned ==
    \A o \in Orders : (status[o] = "ACTIVE" /\ approvedBy[o] = "snow") =>
        \/ \A i \in ItemsOf(o) : jobs[i] = JobsFor(i)
        \/ \E w \in Workers :
              /\ Launching(w, o)
              /\ \A i \in ItemsOf(o) : jobs[i] = IF pc[w] = "hooks" THEN 0
                                                 ELSE JobsFor(i) - todo[w][i]

\* What a closed request says of its order is the order's final status
\* (close_request.py:137-147), also after later steps of the other workers.
ClosedMatchesOrder ==
    \A o \in Orders :
        /\ reqState[o] = "closed_complete"   => status[o] = "SUCCESS"
        /\ reqState[o] = "closed_incomplete" => status[o] = "FAILURE"
        /\ reqState[o] = "closed_rejected"   => status[o] = "DENIED"

\* What the service-now user decided on an order, ServiceNow decided on its
\* request, however stale the snapshot and the verdict the worker acted on
\* (approve_order_from_status); and no order has a job unless it was approved.
SnowAuthority ==
    \A o \in Orders :
        /\ approvedBy[o] = "snow" =>
              /\ status[o] = "DENIED"   => "rejected"  \in verdicts[o]
              /\ status[o] = "CANCELED" => "cancelled" \in verdicts[o]
              /\ status[o] \notin {"DENIED", "CANCELED"} => "approved" \in verdicts[o]
        /\ approvedBy[o] = "none" => \A i \in ItemsOf(o) : jobs[i] = 0

\* Overlapping executions may launch an order twice, but every execution of
\* approve_order saves at most one set of jobs, even one that crashed.
JobsBoundedByApprovals ==
    \A i \in Items : jobs[i] <= approvals[OrderOf[i]] * JobsFor(i)

\* Overlapping executions do not contradict one another: as long as one
\* decision was given on an order, by ServiceNow or by the platform, an order
\* with jobs is never refused, and a refused order gets no jobs.
NoConflictingDecisions ==
    \A o \in Orders : status[o] \in {"DENIED", "CANCELED"} /\ Cardinality(verdicts[o]) = 1 =>
        /\ \A i \in ItemsOf(o) : jobs[i] = 0
        /\ ~\E w \in Workers : Launching(w, o)

\* Orders decided by the poller are orders that are PENDING at that moment.
\* approve_from_servicenow.py:43: "Loop through pending orders which have a
\* PENDING status. Update status to be the status which has been set in
\* ServiceNow".
DecidesPendingOnly ==
    [][\A p \in Pollers : ApproveOrder(p) \/ RejectOrder(p) \/ CancelOrder(p)
            => status[cur[p]] = "PENDING"]_vars

-----------------------------------------------------------------------------
(* Inductive invariants: why the properties above hold. *)

\* What a worker read, ServiceNow said; a worker that launches was told to; the
\* jobs a worker still has to save are jobs of the order it launches.
AuthorityInv ==
    /\ \A o \in Orders : /\ approval[o] \in Verdicts => approval[o] \in verdicts[o]
                         /\ pc[o] \in Busy => cur[o] = o
    /\ \A w \in Workers :
          /\ pc[w] \in {"store", "apply"} /\ found[w] \in Verdicts
                => found[w] \in verdicts[cur[w]]
          /\ pc[w] \in {"hooks", "launch"} => /\ "approved" \in verdicts[cur[w]]
                                             /\ approvedBy[cur[w]] # "none"
          /\ \A i \in Items : todo[w][i] > 0 => /\ pc[w] = "launch"
                                               /\ OrderOf[i] = cur[w]
    /\ SnowAuthority

\* Nobody but one execution of the recurring job decides orders that have a
\* request, and an order that a hook returns to PENDING is not launched.
Serial == /\ \A p, q \in Pollers : p = q
          /\ "admin" \notin Env /\ "snowauto" \notin Env
          /\ "repend" \in Env => Approvers = Orders

Stored(o)   == ItemsOf(o) \cap hasSysId # {}
Launched(o) == \E i \in ItemsOf(o) : jobs[i] > 0

\* A submit hook never launches, and has stored nothing before its POST.
HookInv ==
    \A o \in Orders :
        /\ pc[o] \notin {"apply", "hooks", "launch"}
        /\ pc[o] = "store" => found[o] # "approved"
        /\ pc[o] \in {"cart", "submit", "post"} => ~Stored(o)
        /\ pc[o] = "submit" => status[o] = "PENDING"

\* The poller's snapshot, and the verdict it read, are about orders that still
\* are PENDING; the order it works on is in the snapshot no more.
PollInv ==
    \A p \in Pollers :
        /\ \A o \in queue[p] : Stored(o) /\ status[o] = "PENDING"
        /\ pc[p] \in {"apply", "hooks", "launch"} =>
              Stored(cur[p]) /\ cur[p] \notin queue[p]
        /\ pc[p] = "apply" => status[cur[p]] = "PENDING"
        /\ pc[p] = "hooks" => status[cur[p]] = "ACTIVE" /\ ~Launched(cur[p])
        /\ pc[p] = "launch" =>
              \/ status[cur[p]] = "ACTIVE"
              \/ status[cur[p]] \in {"SUCCESS", "FAILURE"} /\ Launched(cur[p])

\* Orders that are not decided have no jobs, and the jobs saved and the jobs
\* still to be saved are together no more than the item asks for.
JobsInv ==
    /\ \A o \in Orders : status[o] \in {"CART", "PENDING"} => ~Launched(o)
    /\ \A p \in Pollers, i \in Items :
          pc[p] = "launch" /\ OrderOf[i] = cur[p] => jobs[i] + todo[p][i] <= JobsFor(i)
    /\ \A p \in Pollers, i \in Items :
          todo[p][i] > 0 => pc[p] = "launch" /\ OrderOf[i] = cur[p]
    /\ NoDuplicateJobs

SerialInv == HookInv /\ PollInv /\ JobsInv

-----------------------------------------------------------------------------
(* Fairness: the recurring job is started again and again and each of its   *)
(* steps is eventually taken; a request that is asked for again and again is *)
(* found again and again.  Nothing is assumed of administrators, hooks' bad  *)
(* outcomes, crashes, or of what ServiceNow decides.                         *)

Fairness ==
    /\ \A o \in Orders : WF_vars(Hook(o)) /\ WF_vars(Approve(o))
    /\ \A p \in Pollers : /\ WF_vars(Poll(p) \/ Approve(p))
                          /\ \A o \in Orders : SF_vars(GetApprovalStatus(p, o))

FairSpec == Spec /\ Fairness

\* The verdict of ServiceNow reaches the order: an order with a stored sys_id
\* whose request was approved does not stay PENDING.
\* approve_from_servicenow.py:2-4: "Once ServiceNow has approved the Request,
\* this action will set the order to Approved in CloudBolt".
Approved(o) == /\ status[o] = "PENDING"
               /\ Targets(o) \cap hasSysId # {}
               /\ approval[o] = "approved"
VerdictApplied == \A o \in Orders : Approved(o) ~> ~Approved(o)

\* An order saved as ACTIVE gets all its jobs, or leaves ACTIVE.
LaunchFinishes ==
    \A o \in Orders : status[o] = "ACTIVE" ~>
        (status[o] # "ACTIVE" \/ \A i \in ItemsOf(o) : jobs[i] >= JobsFor(i))

-----------------------------------------------------------------------------
(* The abstract specification this implements when executions do not overlap *)

Lifecycle == INSTANCE OrderLifecycle WITH JobsOf <- [i \in Items |-> JobsFor(i)]

\* An order is decided once, launched once, and stays refused or completed.
ImplementsLifecycle == Lifecycle!Spec
=============================================================================
