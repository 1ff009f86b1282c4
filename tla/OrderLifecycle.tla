--------------------------- MODULE OrderLifecycle ---------------------------
(***************************************************************************)
(* What order approval promises of an order, whoever decides on it: the    *)
(* order is decided once each time it is PENDING, no job exists before a   *)
(* positive decision, no item is launched with more jobs than it asks for, *)
(* and a refused or completed order keeps its status.                      *)
(***************************************************************************)
EXTENDS Naturals

CONSTANTS Orders, Items, OrderOf, JobsOf   \* JobsOf[i]: the jobs item i asks for

VARIABLES status, jobs
vars == <<status, jobs>>

ItemsOf(o) == {i \in Items : OrderOf[i] = o}
Unlaunched(o) == \A i \in ItemsOf(o) : jobs[i] = 0

Init == /\ status = [o \in Orders |-> "CART"]
        /\ jobs = [i \in Items |-> 0]

\* Order o goes from status s to status t; its jobs stay as they are.
Move(o, s, t) == /\ status[o] = s
                 /\ status' = [status EXCEPT ![o] = t]
                 /\ UNCHANGED jobs

Submit(o) == Move(o, "CART", "PENDING")

Approve(o) == Unlaunched(o) /\ Move(o, "PENDING", "ACTIVE")

Refuse(o) == /\ Unlaunched(o)
             /\ Move(o, "PENDING", "DENIED") \/ Move(o, "PENDING", "CANCELED")

\* A hook returns an approved order to PENDING, or fails it.
Repend(o) == Unlaunched(o) /\ Move(o, "ACTIVE", "PENDING")
Fail(o)   == Unlaunched(o) /\ Move(o, "ACTIVE", "FAILURE")

\* One more job; jobs that are done may complete the order before its last one,
\* but an order that failed or succeeded without a job gets none.
Launch(i) == /\ \/ status[OrderOf[i]] = "ACTIVE"
                \/ /\ status[OrderOf[i]] \in {"SUCCESS", "FAILURE"}
                   /\ ~Unlaunched(OrderOf[i])
             /\ jobs[i] < JobsOf[i]
             /\ jobs' = [jobs EXCEPT ![i] = @ + 1]
             /\ UNCHANGED status

Complete(o) ==
    /\ ~Unlaunched(o) \/ \A i \in ItemsOf(o) : JobsOf[i] = 0
    /\ Move(o, "ACTIVE", "SUCCESS") \/ Move(o, "ACTIVE", "FAILURE")

\* The platform approves an order and saves all its jobs in one step.
ApproveAndLaunch(o) ==
    /\ Unlaunched(o)
    /\ status[o] = "PENDING"
    /\ status' = [status EXCEPT ![o] = IF \A i \in ItemsOf(o) : JobsOf[i] = 0
                                       THEN "SUCCESS" ELSE "ACTIVE"]
    /\ jobs' = [i \in Items |-> IF OrderOf[i] = o THEN JobsOf[i] ELSE jobs[i]]

Next == \/ \E o \in Orders : \/ Submit(o) \/ Approve(o) \/ Refuse(o) \/ Repend(o)
                             \/ Fail(o) \/ Complete(o) \/ ApproveAndLaunch(o)
        \/ \E i \in Items : Launch(i)

Spec == Init /\ [][Next]_vars
=============================================================================
