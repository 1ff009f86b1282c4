------------------------ MODULE OrderApproval_proofs ------------------------
(***************************************************************************)
(* Proofs about OrderApproval, for every set of orders, items and pollers. *)
(***************************************************************************)
EXTENDS OrderApproval, FiniteSetTheorems, TLAPS

LEMMA JobsForType ==
    ASSUME NEW i \in Items
    PROVE  JobsFor(i) \in Nat
BY ConstantsAssumption DEF JobsFor

LEMMA PlanType ==
    ASSUME NEW o
    PROVE  Plan(o) \in [Items -> Nat]
BY JobsForType DEF Plan

LEMMA ExceptType ==
    ASSUME NEW S, NEW T, NEW f \in [S -> T], NEW x, NEW v \in T
    PROVE  [f EXCEPT ![x] = v] \in [S -> T]
OBVIOUS

-----------------------------------------------------------------------------
(* Type correctness. *)

\* The last conjunct of TypeOK.
Holding == \A w \in Workers : pc[w] \in Busy => cur[w] \in Orders

LEMMA InitTypeOK == Init => TypeOK
<1> SUFFICES ASSUME Init PROVE TypeOK
  OBVIOUS
<1>1. /\ status \in [Orders -> Status]
      /\ approvedBy \in [Orders -> {"none", "snow", "platform"}]
      /\ hasSysId \subseteq Items
      /\ jobs \in [Items -> Nat]
      /\ approvals \in [Orders -> Nat]
      /\ repends \in [Orders -> 0 .. MaxRepends]
  BY ConstantsAssumption DEF Init, NoJobs, Status
<1>2. /\ approval \in [Orders -> Approval]
      /\ verdicts \in [Orders -> SUBSET Decisions]
      /\ reqState \in [Orders -> ReqState]
      /\ closeDue \in [Orders -> {"no", "SUCCESS", "FAILURE", "DENIED"}]
  BY DEF Init, Approval, ReqState
<1>3. /\ pc \in [Workers -> HookPC \cup PollPC]
      /\ queue \in [Pollers -> SUBSET Orders]
      /\ cur \in [Workers -> Orders \cup {NoOrder}]
      /\ found \in [Workers -> Approval]
      /\ todo \in [Workers -> [Items -> Nat]]
  BY DEF Init, HookPC, PollPC, Approval, NoJobs
<1>4. \A w \in Workers : pc[w] \notin Busy
  BY DEF Init, Busy
<1> QED
  BY <1>1, <1>2, <1>3, <1>4 DEF TypeOK

\* What a worker that leaves its order does to the types of its own state.
LEMMA LeaveType ==
    ASSUME TypeOK, NEW w \in Workers, NEW rest, Leave(w, rest)
    PROVE  /\ pc' \in [Workers -> HookPC \cup PollPC]
           /\ cur' \in [Workers -> Orders \cup {NoOrder}]
           /\ found' \in [Workers -> Approval]
           /\ Holding'
BY DEF TypeOK, Leave, HookPC, PollPC, Approval, Verdicts, Holding, Busy

LEMMA StopType ==
    ASSUME TypeOK, NEW w \in Workers, Stop(w)
    PROVE  /\ pc' \in [Workers -> HookPC \cup PollPC]
           /\ cur' \in [Workers -> Orders \cup {NoOrder}]
           /\ found' \in [Workers -> Approval]
           /\ Holding'
           /\ queue' \in [Pollers -> SUBSET Orders]
           /\ todo' \in [Workers -> [Items -> Nat]]
BY LeaveType DEF Stop, TypeOK, NoJobs

LEMMA CompleteType ==
    ASSUME TypeOK, NEW o, NEW s \in {"SUCCESS", "FAILURE", "DENIED"},
           Complete(o, s)
    PROVE  /\ status' \in [Orders -> Status]
           /\ closeDue' \in [Orders -> {"no", "SUCCESS", "FAILURE", "DENIED"}]
BY DEF Complete, TypeOK, Status

LEMMA DecidedType ==
    ASSUME TypeOK, NEW o \in Orders, DecidedByPlatform(o)
    PROVE  /\ approvedBy' \in [Orders -> {"none", "snow", "platform"}]
           /\ approval' = approval /\ reqState' = reqState
           /\ verdicts' \in [Orders -> SUBSET Decisions]
BY DEF DecidedByPlatform, TypeOK, Decisions

LEMMA PlatformApproveType ==
    ASSUME TypeOK, NEW o \in Orders, PlatformApprove(o)
    PROVE  /\ status' \in [Orders -> Status]
           /\ closeDue' \in [Orders -> {"no", "SUCCESS", "FAILURE", "DENIED"}]
           /\ approvedBy' \in [Orders -> {"none", "snow", "platform"}]
           /\ jobs' \in [Items -> Nat]
           /\ approvals' \in [Orders -> Nat]
           /\ approval' = approval /\ reqState' = reqState
           /\ verdicts' \in [Orders -> SUBSET Decisions]
<1>1. /\ status' \in [Orders -> Status]
      /\ closeDue' \in [Orders -> {"no", "SUCCESS", "FAILURE", "DENIED"}]
  BY CompleteType DEF PlatformApprove, TypeOK, Status
<1>2. jobs' \in [Items -> Nat]
  BY PlanType DEF PlatformApprove, TypeOK
<1>3. /\ approvedBy' = [approvedBy EXCEPT ![o] = "platform"]
      /\ approvals' = [approvals EXCEPT ![o] = approvals[o] + 1]
  BY DEF PlatformApprove, DecidedByPlatform
<1>4. /\ approvedBy' \in [Orders -> {"none", "snow", "platform"}]
      /\ approvals' \in [Orders -> Nat]
  BY <1>3 DEF TypeOK
<1>5. /\ approval' = approval /\ reqState' = reqState
      /\ verdicts' \in [Orders -> SUBSET Decisions]
  BY DecidedType DEF PlatformApprove
<1> QED
  BY <1>1, <1>2, <1>4, <1>5

LEMMA NextTypeOK == TypeOK /\ [Next]_vars => TypeOK'
<1> SUFFICES ASSUME TypeOK, [Next]_vars
             PROVE  TypeOK'
  OBVIOUS
<1>w. Orders \subseteq Workers /\ Pollers \subseteq Workers
  BY DEF Workers
<1> USE DEF orderVars, snowVars, workVars, Busy
<1>1. ASSUME NEW o \in Orders, SubmitOrder(o)
      PROVE  TypeOK'
  BY <1>1, <1>w DEF SubmitOrder, TypeOK, Status, HookPC
<1>2. ASSUME NEW o \in Orders, AdminApprove(o)
      PROVE  TypeOK'
  BY <1>2, PlatformApproveType DEF AdminApprove, TypeOK
<1>3. ASSUME NEW o \in Orders, AdminDeny(o)
      PROVE  TypeOK'
  BY <1>3, CompleteType, DecidedType DEF AdminDeny, TypeOK
<1>4. ASSUME NEW o \in Orders, CompleteOrder(o)
      PROVE  TypeOK'
  BY <1>4, CompleteType DEF CompleteOrder, TypeOK
<1>5. ASSUME NEW o \in Orders, NEW v \in Verdicts, Decide(o, v)
      PROVE  TypeOK'
  <2>1. /\ approval' \in [Orders -> Approval]
        /\ verdicts' \in [Orders -> SUBSET Decisions]
    BY <1>5 DEF Decide, TypeOK, Approval, Decisions
  <2> QED
    BY <1>5, <2>1 DEF Decide, TypeOK
<1>5a. ASSUME NEW o \in Orders, SnowDecide(o) \/ SnowRevise(o)
       PROVE  TypeOK'
  BY <1>5, <1>5a DEF SnowDecide, SnowRevise, Verdicts
<1>5b. ASSUME NEW o \in Orders, SnowDelete(o)
       PROVE  TypeOK'
  BY <1>5b DEF SnowDelete, TypeOK, Approval
<1>6. ASSUME NEW o \in Orders, AutoApproveOther(o)
      PROVE  TypeOK'
  BY <1>6, <1>w, PlatformApproveType, LeaveType DEF AutoApproveOther, TypeOK, Holding
<1>7. ASSUME NEW o \in Orders, GetSysidForUsers(o)
      PROVE  TypeOK'
  BY <1>7, <1>w, LeaveType DEF GetSysidForUsers, TypeOK, HookPC, Holding
<1>8. ASSUME NEW o \in Orders, CreateServiceRequest(o)
      PROVE  TypeOK'
  <2> DEFINE Reply == {"requested"} \cup IF "snowauto" \in Env THEN {"approved"} ELSE {}
  <2>1. Reply \subseteq Approval
    BY DEF Approval, Verdicts
  <2>2. /\ approval' \in [Orders -> Approval]
        /\ verdicts' \in [Orders -> SUBSET Decisions]
    <3>1. CASE UNCHANGED <<approval, verdicts>>
      BY <3>1 DEF TypeOK
    <3>2. ASSUME NEW a \in Reply,
                 approval' = [approval EXCEPT ![o] = a],
                 verdicts' = [verdicts EXCEPT ![o] = @ \cup ({a} \cap Verdicts)]
          PROVE  /\ approval' \in [Orders -> Approval]
                 /\ verdicts' \in [Orders -> SUBSET Decisions]
      <4>1. verdicts[o] \cup ({a} \cap Verdicts) \in SUBSET Decisions
        BY DEF TypeOK, Decisions
      <4> QED
        BY <2>1, <3>2, <4>1, ExceptType DEF TypeOK
    <3> QED
      BY <1>8, <3>1, <3>2 DEF CreateServiceRequest
  <2>3. /\ pc' \in [Workers -> HookPC \cup PollPC]
        /\ cur' \in [Workers -> Orders \cup {NoOrder}]
        /\ found' \in [Workers -> Approval]
        /\ Holding'
    <3>1. CASE Leave(o, {})
      BY <3>1, <1>w, LeaveType
    <3>2. CASE ~Leave(o, {})
      <4>1. /\ pc' = [pc EXCEPT ![o] = "store"]
            /\ \E a \in Reply : found' = [found EXCEPT ![o] = a]
            /\ cur' = cur
        BY <1>8, <3>2 DEF CreateServiceRequest
      <4>2. found' \in [Workers -> Approval]
        BY <4>1, <2>1, ExceptType DEF TypeOK
      <4>3. pc[o] = "post"
        BY <1>8 DEF CreateServiceRequest
      <4> QED
        BY <4>1, <4>2, <4>3, <1>w DEF TypeOK, HookPC, Holding
    <3> QED
      BY <3>1, <3>2
  <2> QED
    BY <1>8, <2>2, <2>3 DEF CreateServiceRequest, TypeOK, Holding
<1>9. ASSUME NEW o \in Orders, AddServicenowInfoToOi(o)
      PROVE  TypeOK'
  <2>1. /\ pc' \in [Workers -> HookPC \cup PollPC]
        /\ cur' \in [Workers -> Orders \cup {NoOrder}]
        /\ found' \in [Workers -> Approval]
        /\ Holding'
    BY <1>9, <1>w, LeaveType DEF AddServicenowInfoToOi, TypeOK, HookPC, Holding
  <2> QED
    BY <1>9, <2>1 DEF AddServicenowInfoToOi, TypeOK, Targets, OfKind, ItemsOf, Holding
<1>10. ASSUME NEW o \in Orders, CloseRequest(o)
       PROVE  TypeOK'
  <2>1. ClosedState(closeDue[o]) \in ReqState
    BY <1>10 DEF CloseRequest, TypeOK, ClosedState, ReqState
  <2> QED
    BY <1>10, <2>1 DEF CloseRequest, TypeOK
<1>11. ASSUME NEW p \in Pollers, GetPendingSmoiOrders(p)
       PROVE  TypeOK'
  <2>1. queue' \in [Pollers -> SUBSET Orders]
    BY <1>11 DEF GetPendingSmoiOrders, PendingOrders, TypeOK
  <2> QED
    BY <1>11, <2>1, <1>w DEF GetPendingSmoiOrders, TypeOK, PollPC
<1>11a. ASSUME NEW p \in Pollers, GetPendingBpoiOrders(p)
        PROVE  TypeOK'
  <2>1. queue[p] \cup PendingOrders("blueprint") \in SUBSET Orders
    BY DEF PendingOrders, TypeOK
  <2>2. queue' \in [Pollers -> SUBSET Orders]
    BY <1>11a, <2>1, ExceptType DEF GetPendingBpoiOrders, TypeOK
  <2> QED
    BY <1>11a, <2>2, <1>w DEF GetPendingBpoiOrders, TypeOK, PollPC
<1>12. ASSUME NEW p \in Pollers, NEW o \in Orders, GetApprovalStatus(p, o)
       PROVE  TypeOK'
  BY <1>12, <1>w DEF GetApprovalStatus, TypeOK, PollPC
<1>13. ASSUME NEW p \in Pollers, NEW o \in Orders, LookupFails(p, o)
       PROVE  TypeOK'
  BY <1>13, <1>w, StopType DEF LookupFails, TypeOK, Holding
<1>14. ASSUME NEW p \in Pollers, LeavePending(p)
       PROVE  TypeOK'
  BY <1>14, <1>w, LeaveType DEF LeavePending, TypeOK, Holding
<1>15. ASSUME NEW p \in Pollers, RejectOrder(p) \/ CancelOrder(p)
       PROVE  TypeOK'
  <2>1. PICK v \in Verdicts, s \in {"DENIED", "CANCELED"} : Refuse(p, v, s)
    BY <1>15 DEF RejectOrder, CancelOrder, Verdicts
  <2>2. /\ status' \in [Orders -> Status]
        /\ approvedBy' \in [Orders -> {"none", "snow", "platform"}]
    BY <2>1, ExceptType DEF Refuse, TypeOK, Status
  <2> QED
    BY <2>1, <2>2, <1>w, LeaveType DEF Refuse, TypeOK, Holding
<1>16. ASSUME NEW p \in Pollers, HooksPass(p)
       PROVE  TypeOK'
  BY <1>16, <1>w, PlanType DEF HooksPass, Launch, TypeOK, PollPC
<1>17. ASSUME NEW p \in Pollers, HooksFail(p)
       PROVE  TypeOK'
  BY <1>17, <1>w, StopType DEF HooksFail, TypeOK, Status, Holding
<1>18. ASSUME NEW p \in Pollers, HooksRepend(p)
       PROVE  TypeOK'
  <2>1. /\ pc' \in [Workers -> HookPC \cup PollPC]
        /\ cur' \in [Workers -> Orders \cup {NoOrder}]
        /\ found' \in [Workers -> Approval]
        /\ todo' \in [Workers -> [Items -> Nat]]
        /\ Holding'
    <3>1. CASE cur[p] \in Approvers
      BY <1>18, <3>1, <1>w, LeaveType DEF HooksRepend, TypeOK
    <3>2. CASE cur[p] \notin Approvers
      <4>1. Plan(cur[p]) \in [Items -> Nat]
        BY PlanType
      <4>2. todo' \in [Workers -> [Items -> Nat]]
        BY <1>18, <3>2, <4>1, ExceptType DEF HooksRepend, Launch, TypeOK
      <4> QED
        BY <1>18, <3>2, <4>2, <1>w DEF HooksRepend, Launch, TypeOK, PollPC, Holding
    <3> QED
      BY <3>1, <3>2
  <2>2. cur[p] \in Orders
    BY <1>18, <1>w DEF HooksRepend, TypeOK
  <2>3. repends[cur[p]] + 1 \in 0 .. MaxRepends
    BY <1>18, <2>2, ConstantsAssumption DEF HooksRepend, TypeOK
  <2>4. /\ repends' \in [Orders -> 0 .. MaxRepends]
        /\ status' \in [Orders -> Status]
    BY <1>18, <2>3, ExceptType DEF HooksRepend, TypeOK, Status
  <2> QED
    BY <1>18, <2>1, <2>4 DEF HooksRepend, TypeOK, Holding
<1>19. ASSUME NEW w \in Workers, ApproveOrder(w)
       PROVE  TypeOK'
  <2>1. todo' \in [Workers -> [Items -> Nat]]
    <3>1. Plan(cur[w]) \in [Items -> Nat]
      BY PlanType
    <3>2. todo' = todo \/ todo' = [todo EXCEPT ![w] = Plan(cur[w])]
      BY <1>19 DEF ApproveOrder
    <3>3. [todo EXCEPT ![w] = Plan(cur[w])] \in [Workers -> [Items -> Nat]]
      BY <3>1, ExceptType DEF TypeOK
    <3> QED
      BY <3>2, <3>3 DEF TypeOK
  <2>2. pc' \in [Workers -> HookPC \cup PollPC]
    <3>1. PICK c \in {"hooks", "launch"} : pc' = [pc EXCEPT ![w] = c]
      BY <1>19 DEF ApproveOrder
    <3> QED
      BY <3>1, ExceptType DEF TypeOK, HookPC, PollPC
  <2>3. /\ cur[w] \in Orders
        /\ cur' = cur
        /\ \A x \in Workers : x # w => pc'[x] = pc[x]
    BY <1>19 DEF ApproveOrder, TypeOK
  <2>4. /\ status' \in [Orders -> Status]
        /\ approvedBy' \in [Orders -> {"none", "snow", "platform"}]
        /\ approvals' \in [Orders -> Nat]
    BY <1>19, <2>3 DEF ApproveOrder, TypeOK, Status
  <2> QED
    BY <1>19, <2>1, <2>2, <2>3, <2>4 DEF ApproveOrder, TypeOK
<1>20. ASSUME NEW w \in Workers, SaveJob(w)
       PROVE  TypeOK'
  <2>1. PICK i \in Items : /\ todo[w][i] > 0
                           /\ todo' = [todo EXCEPT ![w][i] = @ - 1]
                           /\ jobs' = [jobs EXCEPT ![i] = @ + 1]
    BY <1>20 DEF SaveJob
  <2>2. /\ todo[w][i] \in Nat /\ todo[w][i] - 1 \in Nat
        /\ jobs[i] + 1 \in Nat
    BY <2>1 DEF TypeOK
  <2>3. /\ todo' \in [Workers -> [Items -> Nat]]
        /\ jobs' \in [Items -> Nat]
    BY <2>1, <2>2 DEF TypeOK
  <2> QED
    BY <1>20, <2>3 DEF SaveJob, TypeOK
<1>21. ASSUME NEW w \in Workers, FinishApproval(w)
       PROVE  TypeOK'
  BY <1>21, LeaveType, CompleteType DEF FinishApproval, TypeOK, Holding
<1>22. ASSUME NEW w \in Workers, Crash(w)
       PROVE  TypeOK'
  BY <1>22, StopType DEF Crash, TypeOK, Holding
<1>23. CASE UNCHANGED vars
  BY <1>23 DEF TypeOK, vars
<1> QED
  BY <1>1, <1>2, <1>3, <1>4, <1>5a, <1>5b, <1>6, <1>7, <1>8, <1>9, <1>10, <1>11, <1>11a, <1>12,
     <1>13, <1>14, <1>15, <1>16, <1>17, <1>18, <1>19, <1>20, <1>21, <1>22, <1>23
     DEF Next, Environment, Hook, Poll, Approve

\* Every reachable state has the types of the database fields, the requests and
\* the workers' locals, for every value of the constants.
THEOREM TypeCorrect == Spec => []TypeOK
BY InitTypeOK, NextTypeOK, PTL DEF Spec

-----------------------------------------------------------------------------
(* The service-now user decides what ServiceNow decided. *)

LEMMA InitAuthority == Init => AuthorityInv
<1> SUFFICES ASSUME Init PROVE AuthorityInv
  OBVIOUS
<1>1. \A o \in Orders : approval[o] = "absent" /\ approvedBy[o] = "none"
  BY DEF Init
<1>2. \A w \in Workers : pc[w] \in {"cart", "idle"}
  BY DEF Init
<1>3. /\ \A i \in Items : jobs[i] = 0
      /\ \A w \in Workers, i \in Items : todo[w][i] = 0
  BY DEF Init, NoJobs
<1>4. Orders \subseteq Workers
  BY DEF Workers
<1> QED
  BY <1>1, <1>2, <1>3, <1>4 DEF AuthorityInv, SnowAuthority, Busy, Verdicts, ItemsOf

\* A worker that leaves its order has nothing left to save.
LEMMA LeaveAuthority ==
    ASSUME TypeOK, AuthorityInv, NEW w \in Workers, NEW rest, Leave(w, rest),
           UNCHANGED <<approval, verdicts, approvedBy>>,
           \/ todo' = [todo EXCEPT ![w] = NoJobs]
           \/ todo' = todo /\ pc[w] # "launch"
           \/ todo' = todo /\ todo[w] = NoJobs,
           SnowAuthority'
    PROVE  AuthorityInv'
  BY DEF AuthorityInv, Leave, TypeOK, NoJobs, Busy

LEMMA NextAuthority == TypeOK /\ AuthorityInv /\ [Next]_vars => AuthorityInv'
<1> SUFFICES ASSUME TypeOK, AuthorityInv, [Next]_vars
             PROVE  AuthorityInv'
  OBVIOUS
<1>w. Orders \subseteq Workers /\ Pollers \subseteq Workers
  BY DEF Workers
<1> USE DEF orderVars, snowVars, workVars, Busy
<1>1. ASSUME NEW o \in Orders, SubmitOrder(o)
      PROVE  AuthorityInv'
  BY <1>1, <1>w DEF SubmitOrder, AuthorityInv, SnowAuthority, TypeOK
<1>p. ASSUME NEW o \in Orders, DecidedByPlatform(o)
      PROVE  /\ approval' = approval
             /\ \A x \in Orders : verdicts[x] \subseteq verdicts'[x]
             /\ approvedBy'[o] = "platform"
             /\ \A x \in Orders \ {o} : approvedBy'[x] = approvedBy[x]
  BY <1>p DEF DecidedByPlatform, TypeOK
<1>2. ASSUME NEW o \in Orders, PlatformApprove(o)
      PROVE  SnowAuthority'
  <2>1. \A x \in Orders \ {o} : status'[x] = status[x]
    BY <1>2 DEF PlatformApprove, Complete, TypeOK
  <2>2. \A x \in Orders \ {o} : \A i \in ItemsOf(x) : jobs'[i] = jobs[i] + 0
    BY <1>2 DEF PlatformApprove, Plan, ItemsOf
  <2>3. \A i \in Items : jobs[i] \in Nat
    BY DEF TypeOK
  <2>4. ASSUME NEW x \in Orders
        PROVE  /\ approvedBy'[x] = "snow" =>
                    /\ status'[x] = "DENIED"   => "rejected"  \in verdicts'[x]
                    /\ status'[x] = "CANCELED" => "cancelled" \in verdicts'[x]
                    /\ status'[x] \notin {"DENIED", "CANCELED"} => "approved" \in verdicts'[x]
               /\ approvedBy'[x] = "none" => \A i \in ItemsOf(x) : jobs'[i] = 0
    <3>1. CASE x = o
      BY <1>2, <1>p, <3>1 DEF PlatformApprove
    <3>2. CASE x # o
      BY <1>2, <1>p, <2>1, <2>2, <2>3, <3>2
         DEF PlatformApprove, ItemsOf, AuthorityInv, SnowAuthority
    <3> QED
      BY <3>1, <3>2
  <2> QED
    BY <2>4 DEF SnowAuthority, ItemsOf
<1>2a. ASSUME NEW o \in Orders, AdminApprove(o)
       PROVE  AuthorityInv'
  <2>1. SnowAuthority'
    BY <1>2a, <1>2 DEF AdminApprove
  <2> QED
    BY <1>2a, <1>p, <2>1, <1>w DEF AdminApprove, PlatformApprove, AuthorityInv, TypeOK
<1>3. ASSUME NEW o \in Orders, AdminDeny(o)
      PROVE  AuthorityInv'
  BY <1>3, <1>p, <1>w DEF AdminDeny, Complete, AuthorityInv, SnowAuthority, TypeOK
<1>4. ASSUME NEW o \in Orders, CompleteOrder(o)
      PROVE  AuthorityInv'
  BY <1>4, <1>w DEF CompleteOrder, Complete, AuthorityInv, SnowAuthority, TypeOK
<1>5. ASSUME NEW o \in Orders, NEW v, Decide(o, v)
      PROVE  AuthorityInv'
  BY <1>5, <1>w DEF Decide, AuthorityInv, SnowAuthority, TypeOK
<1>5a. ASSUME NEW o \in Orders, SnowDecide(o) \/ SnowRevise(o)
       PROVE  AuthorityInv'
  BY <1>5, <1>5a DEF SnowDecide, SnowRevise
<1>5b. ASSUME NEW o \in Orders, SnowDelete(o)
       PROVE  AuthorityInv'
  BY <1>5b, <1>w DEF SnowDelete, AuthorityInv, SnowAuthority, TypeOK, Verdicts
<1>6. ASSUME NEW o \in Orders, AutoApproveOther(o)
      PROVE  AuthorityInv'
  <2>1. SnowAuthority'
    BY <1>6, <1>2 DEF AutoApproveOther
  <2> QED
    BY <1>6, <1>p, <2>1, <1>w DEF AutoApproveOther, PlatformApprove, Leave, AuthorityInv, TypeOK
<1>7. ASSUME NEW o \in Orders, GetSysidForUsers(o)
      PROVE  AuthorityInv'
  BY <1>7, <1>w DEF GetSysidForUsers, Leave, AuthorityInv, SnowAuthority, TypeOK
<1>8. ASSUME NEW o \in Orders, CreateServiceRequest(o)
      PROVE  AuthorityInv'
  <2>1. CASE Leave(o, {}) /\ UNCHANGED <<approval, verdicts>>
    <3>1. SnowAuthority'
      BY <1>8, <2>1 DEF CreateServiceRequest, AuthorityInv, SnowAuthority
    <3>2. pc[o] = "post"
      BY <1>8 DEF CreateServiceRequest
    <3> QED
      BY <1>8, <2>1, <3>1, <3>2, <1>w, LeaveAuthority DEF CreateServiceRequest
  <2>2. ASSUME NEW a, approval' = [approval EXCEPT ![o] = a],
               verdicts' = [verdicts EXCEPT ![o] = @ \cup ({a} \cap Verdicts)],
               \/ /\ pc' = [pc EXCEPT ![o] = "store"]
                  /\ found' = [found EXCEPT ![o] = a]
                  /\ UNCHANGED cur
               \/ Leave(o, {})
        PROVE  AuthorityInv'
    <3>1. \A x \in Orders : verdicts[x] \subseteq verdicts'[x]
      BY <2>2 DEF TypeOK
    <3>2. a \in Verdicts => a \in verdicts'[o]
      BY <2>2 DEF TypeOK
    <3>3. SnowAuthority'
      BY <1>8, <3>1 DEF CreateServiceRequest, AuthorityInv, SnowAuthority
    <3>4. /\ UNCHANGED <<approvedBy, todo>>
          /\ pc[o] = "post"
          /\ cur[o] = o
      BY <1>8 DEF CreateServiceRequest, AuthorityInv
    <3>5. \A x \in Orders : approval'[x] \in Verdicts => approval'[x] \in verdicts'[x]
      BY <2>2, <3>1, <3>2 DEF AuthorityInv, TypeOK
    <3>6. CASE Leave(o, {})
      BY <3>1, <3>3, <3>4, <3>5, <3>6, <1>w DEF Leave, AuthorityInv, TypeOK
    <3>7. CASE ~Leave(o, {})
      <4>1. /\ pc' = [pc EXCEPT ![o] = "store"]
            /\ found' = [found EXCEPT ![o] = a]
            /\ UNCHANGED cur
        BY <2>2, <3>7
      <4>2. \A x \in Workers :
               /\ pc'[x] \in {"store", "apply"} /\ found'[x] \in Verdicts
                    => found'[x] \in verdicts'[cur'[x]]
               /\ pc'[x] \in {"hooks", "launch"} => "approved" \in verdicts'[cur'[x]]
        BY <4>1, <3>1, <3>2, <3>4, <1>w DEF AuthorityInv, TypeOK
      <4>3. \A x \in Orders : pc'[x] \in Busy => cur'[x] = x
        BY <4>1, <3>4, <1>w DEF AuthorityInv, TypeOK
      <4> QED
        BY <4>1, <4>2, <4>3, <3>3, <3>4, <3>5, <1>w DEF AuthorityInv, TypeOK
    <3> QED
      BY <3>6, <3>7
  <2> QED
    BY <1>8, <2>1, <2>2 DEF CreateServiceRequest
<1>9. ASSUME NEW o \in Orders, AddServicenowInfoToOi(o)
      PROVE  AuthorityInv'
  BY <1>9, <1>w DEF AddServicenowInfoToOi, Leave, AuthorityInv, SnowAuthority, TypeOK
<1>10. ASSUME NEW o \in Orders, CloseRequest(o)
       PROVE  AuthorityInv'
  BY <1>10, <1>w DEF CloseRequest, AuthorityInv, SnowAuthority, TypeOK
<1>11. ASSUME NEW p \in Pollers, GetPendingSmoiOrders(p) \/ GetPendingBpoiOrders(p)
       PROVE  AuthorityInv'
  BY <1>11, <1>w, ConstantsAssumption
     DEF GetPendingSmoiOrders, GetPendingBpoiOrders, AuthorityInv, SnowAuthority, TypeOK
<1>12. ASSUME NEW p \in Pollers, NEW o \in Orders, GetApprovalStatus(p, o)
       PROVE  AuthorityInv'
  BY <1>12, <1>w, ConstantsAssumption DEF GetApprovalStatus, AuthorityInv, SnowAuthority, TypeOK
<1>13. ASSUME NEW p \in Pollers, NEW o \in Orders, LookupFails(p, o)
       PROVE  AuthorityInv'
  BY <1>13, <1>w, LeaveAuthority DEF LookupFails, Stop, AuthorityInv, SnowAuthority
<1>14. ASSUME NEW p \in Pollers, LeavePending(p)
       PROVE  AuthorityInv'
  BY <1>14, <1>w, LeaveAuthority DEF LeavePending, AuthorityInv, SnowAuthority
<1>15. ASSUME NEW p \in Pollers, NEW v \in Verdicts, NEW s, Refuse(p, v, s),
              \/ v = "rejected" /\ s = "DENIED"
              \/ v = "cancelled" /\ s = "CANCELED"
       PROVE  AuthorityInv'
  <2>1. cur[p] \in Orders /\ v \in verdicts[cur[p]]
    BY <1>15, <1>w DEF Refuse, AuthorityInv, TypeOK
  <2>2. SnowAuthority'
    BY <1>15, <2>1 DEF Refuse, AuthorityInv, SnowAuthority, TypeOK
  <2>3. \A x \in Orders : approvedBy'[x] = "none" => approvedBy[x] = "none"
    BY <1>15 DEF Refuse, TypeOK
  <2>4. /\ UNCHANGED <<approval, verdicts, todo>>
        /\ pc[p] = "apply"
        /\ Leave(p, queue[p])
    BY <1>15 DEF Refuse
  <2> QED
    BY <2>2, <2>3, <2>4, <1>w DEF Leave, AuthorityInv, TypeOK
<1>15a. ASSUME NEW p \in Pollers, RejectOrder(p) \/ CancelOrder(p)
        PROVE  AuthorityInv'
  BY <1>15, <1>15a DEF RejectOrder, CancelOrder, Verdicts
<1>16. ASSUME NEW p \in Pollers, HooksPass(p)
       PROVE  AuthorityInv'
  BY <1>16, <1>w, ConstantsAssumption
     DEF HooksPass, Launch, Plan, AuthorityInv, SnowAuthority, TypeOK
<1>17. ASSUME NEW p \in Pollers, HooksFail(p)
       PROVE  AuthorityInv'
  <2>1. SnowAuthority'
    BY <1>17, <1>w DEF HooksFail, AuthorityInv, SnowAuthority, TypeOK
  <2> QED
    BY <1>17, <2>1, <1>w, LeaveAuthority DEF HooksFail, Stop
<1>18. ASSUME NEW p \in Pollers, HooksRepend(p)
       PROVE  AuthorityInv'
  <2>1. SnowAuthority'
    BY <1>18, <1>w DEF HooksRepend, AuthorityInv, SnowAuthority, TypeOK
  <2>2. CASE cur[p] \in Approvers
    BY <1>18, <2>1, <2>2, <1>w, LeaveAuthority DEF HooksRepend
  <2>3. CASE cur[p] \notin Approvers
    BY <1>18, <2>1, <2>3, <1>w, ConstantsAssumption
       DEF HooksRepend, Launch, Plan, AuthorityInv, TypeOK
  <2> QED
    BY <2>2, <2>3
<1>19. ASSUME NEW w \in Workers, ApproveOrder(w)
       PROVE  AuthorityInv'
  <2>1. SnowAuthority'
    BY <1>19 DEF ApproveOrder, AuthorityInv, SnowAuthority, TypeOK, Verdicts
  <2>2. /\ UNCHANGED <<approval, verdicts, cur, found>>
        /\ cur[w] \in Orders
        /\ "approved" \in verdicts[cur[w]]
        /\ approvedBy' = [approvedBy EXCEPT ![cur[w]] = "snow"]
        /\ \E c \in {"hooks", "launch"} : pc' = [pc EXCEPT ![w] = c]
        /\ pc[w] = "apply"
    BY <1>19 DEF ApproveOrder, AuthorityInv, TypeOK, Verdicts
  <2>3. \A o \in Orders : /\ approval'[o] \in Verdicts => approval'[o] \in verdicts'[o]
                          /\ pc'[o] \in Busy => cur'[o] = o
    BY <2>2, <1>w DEF AuthorityInv, TypeOK
  <2>4. \A x \in Workers :
          /\ pc'[x] \in {"store", "apply"} /\ found'[x] \in Verdicts
                => found'[x] \in verdicts'[cur'[x]]
          /\ pc'[x] \in {"hooks", "launch"} => /\ "approved" \in verdicts'[cur'[x]]
                                              /\ approvedBy'[cur'[x]] # "none"
    BY <2>2 DEF AuthorityInv, TypeOK
  <2>5. \A x \in Workers, i \in Items : todo'[x][i] > 0 => /\ pc'[x] = "launch"
                                                        /\ OrderOf[i] = cur'[x]
    <3>1. CASE w \in Pollers
      BY <1>19, <3>1, <2>2 DEF ApproveOrder, AuthorityInv, TypeOK
    <3>2. CASE w \notin Pollers
      BY <1>19, <3>2, <2>2 DEF ApproveOrder, Plan, AuthorityInv, TypeOK
    <3> QED
      BY <3>1, <3>2
  <2> QED
    BY <2>1, <2>2, <2>3, <2>4, <2>5 DEF AuthorityInv
<1>20. ASSUME NEW w \in Workers, SaveJob(w)
       PROVE  AuthorityInv'
  BY <1>20 DEF SaveJob, AuthorityInv, SnowAuthority, TypeOK, ItemsOf
<1>21. ASSUME NEW w \in Workers, FinishApproval(w)
       PROVE  AuthorityInv'
  <2>1. SnowAuthority'
    BY <1>21 DEF FinishApproval, Complete, AuthorityInv, SnowAuthority, TypeOK
  <2> QED
    BY <1>21, <2>1, LeaveAuthority DEF FinishApproval
<1>22. ASSUME NEW w \in Workers, Crash(w)
       PROVE  AuthorityInv'
  BY <1>22, LeaveAuthority DEF Crash, Stop, AuthorityInv, SnowAuthority
<1>23. CASE UNCHANGED vars
  BY <1>23 DEF AuthorityInv, SnowAuthority, vars
<1> QED
  BY <1>1, <1>2a, <1>3, <1>4, <1>5a, <1>5b, <1>6, <1>7, <1>8, <1>9, <1>10, <1>11,
     <1>12, <1>13, <1>14, <1>15a, <1>16, <1>17, <1>18, <1>19, <1>20, <1>21, <1>22, <1>23
     DEF Next, Environment, Hook, Poll, Approve

\* Whatever administrators, crashes, overlapping executions and ServiceNow do,
\* an order the service-now user decided was decided that way in ServiceNow, and
\* no order has a job that nobody approved.
THEOREM Authority == Spec => []SnowAuthority
<1>1. Init => TypeOK /\ AuthorityInv
  BY InitTypeOK, InitAuthority
<1>2. TypeOK /\ AuthorityInv /\ [Next]_vars => TypeOK' /\ AuthorityInv'
  BY NextTypeOK, NextAuthority
<1>3. AuthorityInv => SnowAuthority
  BY DEF AuthorityInv
<1> QED
  BY <1>1, <1>2, <1>3, PTL DEF Spec

-----------------------------------------------------------------------------
(* A refused order has no jobs unless decisions contradicted one another. *)

Refused(o) == status[o] \in {"DENIED", "CANCELED"}

\* A refusal was somebody's decision; an order that only the platform decided
\* on does not go back to where it could be refused once it has jobs.
DecisionInv ==
    \A o \in Orders :
        /\ status[o] = "DENIED"   => "rejected" \in verdicts[o] \/ "platform" \in verdicts[o]
        /\ status[o] = "CANCELED" => "cancelled" \in verdicts[o]
        /\ Launched(o) => "approved" \in verdicts[o] \/ "platform" \in verdicts[o]
        /\ Launched(o) /\ verdicts[o] = {"platform"} =>
              status[o] \in {"ACTIVE", "SUCCESS", "FAILURE"}

LEMMA InitDecision == Init => DecisionInv
BY DEF Init, DecisionInv, Launched, ItemsOf, NoJobs

\* A step that decides nothing and saves no job: an order's status may change to
\* one that is no refusal, and to PENDING only if ServiceNow approved the order.
LEMMA DecisionFrame ==
    ASSUME TypeOK, DecisionInv, UNCHANGED jobs,
           \A o \in Orders :
              /\ verdicts[o] \subseteq verdicts'[o]
              /\ "platform" \in verdicts'[o] => "platform" \in verdicts[o]
              /\ \/ status'[o] = status[o]
                 \/ status'[o] \in {"ACTIVE", "SUCCESS", "FAILURE"}
                 \/ status[o] = "CART" /\ status'[o] = "PENDING"
                 \/ status'[o] = "PENDING" /\ "approved" \in verdicts[o]
                 \/ status'[o] = "DENIED" /\ "rejected" \in verdicts[o]
                 \/ status'[o] = "CANCELED" /\ "cancelled" \in verdicts[o]
    PROVE  DecisionInv'
<1>1. \A o : Launched(o)' <=> Launched(o)
  BY DEF Launched
<1>2. ASSUME NEW o \in Orders
      PROVE  /\ status'[o] = "DENIED"   => "rejected" \in verdicts'[o] \/ "platform" \in verdicts'[o]
             /\ status'[o] = "CANCELED" => "cancelled" \in verdicts'[o]
             /\ Launched(o) => "approved" \in verdicts'[o] \/ "platform" \in verdicts'[o]
  BY DEF DecisionInv
<1>3. ASSUME NEW o \in Orders, Launched(o), verdicts'[o] = {"platform"}
      PROVE  status'[o] \in {"ACTIVE", "SUCCESS", "FAILURE"}
  <2>1. verdicts[o] = {"platform"}
    BY <1>3
  <2> QED
    BY <1>3, <2>1 DEF DecisionInv
<1> QED
  BY <1>1, <1>2, <1>3 DEF DecisionInv

LEMMA NextDecision == TypeOK /\ AuthorityInv /\ DecisionInv /\ [Next]_vars => DecisionInv'
<1> SUFFICES ASSUME TypeOK, AuthorityInv, DecisionInv, [Next]_vars
             PROVE  DecisionInv'
  OBVIOUS
<1>w. Orders \subseteq Workers /\ Pollers \subseteq Workers
  BY DEF Workers
<1> USE DEF orderVars, snowVars, workVars
<1>1. ASSUME NEW o \in Orders, SubmitOrder(o)
      PROVE  DecisionInv'
  BY <1>1, DecisionFrame DEF SubmitOrder, TypeOK
<1>2. ASSUME NEW o \in Orders, PlatformApprove(o)
      PROVE  DecisionInv'
  <2>1. /\ \A x \in Orders : x # o => status'[x] = status[x] /\ verdicts'[x] = verdicts[x]
        /\ status'[o] \in {"ACTIVE", "SUCCESS"}
        /\ "platform" \in verdicts'[o]
    BY <1>2 DEF PlatformApprove, Complete, DecidedByPlatform, TypeOK
  <2>2. \A x \in Orders : x # o => (Launched(x)' <=> Launched(x))
    BY <1>2 DEF PlatformApprove, Launched, ItemsOf, Plan, TypeOK
  <2> QED
    BY <2>1, <2>2 DEF DecisionInv
<1>2a. ASSUME NEW o \in Orders, AdminApprove(o)
       PROVE  DecisionInv'
  BY <1>2, <1>2a DEF AdminApprove
<1>3. ASSUME NEW o \in Orders, AdminDeny(o)
      PROVE  DecisionInv'
  <2>1. /\ \A x \in Orders : x # o => status'[x] = status[x] /\ verdicts'[x] = verdicts[x]
        /\ status[o] = "PENDING" /\ status'[o] = "DENIED"
        /\ verdicts'[o] = verdicts[o] \cup {"platform"}
    BY <1>3 DEF AdminDeny, Complete, DecidedByPlatform, TypeOK
  <2>2. \A x \in Orders : Launched(x)' <=> Launched(x)
    BY <1>3 DEF AdminDeny, Launched
  <2>3. ~(Launched(o) /\ verdicts'[o] = {"platform"})
    BY <2>1 DEF DecisionInv
  <2> QED
    BY <2>1, <2>2, <2>3 DEF DecisionInv
<1>4. ASSUME NEW o \in Orders, CompleteOrder(o)
      PROVE  DecisionInv'
  BY <1>4, DecisionFrame DEF CompleteOrder, Complete, TypeOK
<1>5. ASSUME NEW o \in Orders, NEW v \in Verdicts, Decide(o, v)
      PROVE  DecisionInv'
  BY <1>5, DecisionFrame DEF Decide, TypeOK, Verdicts
<1>5a. ASSUME NEW o \in Orders, SnowDecide(o) \/ SnowRevise(o)
       PROVE  DecisionInv'
  BY <1>5, <1>5a DEF SnowDecide, SnowRevise, Verdicts
<1>6. ASSUME NEW o \in Orders, AutoApproveOther(o)
      PROVE  DecisionInv'
  BY <1>2, <1>6 DEF AutoApproveOther
<1>8. ASSUME NEW o \in Orders, CreateServiceRequest(o)
      PROVE  DecisionInv'
  <2>1. /\ \A x \in Orders : verdicts[x] \subseteq verdicts'[x]
        /\ \A x \in Orders : "platform" \in verdicts'[x] => "platform" \in verdicts[x]
    BY <1>8 DEF CreateServiceRequest, TypeOK, Verdicts
  <2> QED
    BY <1>8, <2>1, DecisionFrame DEF CreateServiceRequest
<1>9. ASSUME UNCHANGED <<status, verdicts, jobs>>
      PROVE  DecisionInv'
  BY <1>9, DecisionFrame
<1>10. ASSUME NEW o \in Orders, \/ SnowDelete(o) \/ GetSysidForUsers(o)
                                \/ AddServicenowInfoToOi(o) \/ CloseRequest(o)
       PROVE  DecisionInv'
  BY <1>9, <1>10 DEF SnowDelete, GetSysidForUsers, AddServicenowInfoToOi, CloseRequest
<1>11. ASSUME NEW p \in Pollers, \/ GetPendingSmoiOrders(p) \/ GetPendingBpoiOrders(p)
                                 \/ LeavePending(p) \/ HooksPass(p)
       PROVE  DecisionInv'
  BY <1>9, <1>11 DEF GetPendingSmoiOrders, GetPendingBpoiOrders, LeavePending, HooksPass
<1>12. ASSUME NEW p \in Pollers, NEW o \in Orders, GetApprovalStatus(p, o) \/ LookupFails(p, o)
       PROVE  DecisionInv'
  BY <1>9, <1>12 DEF GetApprovalStatus, LookupFails
<1>13. ASSUME NEW p \in Pollers, RejectOrder(p) \/ CancelOrder(p)
       PROVE  DecisionInv'
  BY <1>13, <1>w, DecisionFrame
     DEF RejectOrder, CancelOrder, Refuse, AuthorityInv, TypeOK, Verdicts
<1>14. ASSUME NEW p \in Pollers, HooksFail(p) \/ HooksRepend(p)
       PROVE  DecisionInv'
  BY <1>14, <1>w, DecisionFrame DEF HooksFail, HooksRepend, AuthorityInv, TypeOK
<1>15. ASSUME NEW w \in Workers, ApproveOrder(w)
       PROVE  DecisionInv'
  BY <1>15, DecisionFrame DEF ApproveOrder, TypeOK
<1>16. ASSUME NEW w \in Workers, SaveJob(w)
       PROVE  DecisionInv'
  <2>1. PICK i \in Items : todo[w][i] > 0 /\ jobs' = [jobs EXCEPT ![i] = @ + 1]
    BY <1>16 DEF SaveJob
  <2>2. "approved" \in verdicts[OrderOf[i]] /\ UNCHANGED <<status, verdicts>>
    BY <1>16, <2>1 DEF SaveJob, AuthorityInv
  <2>3. \A x \in Orders : x # OrderOf[i] => (Launched(x)' <=> Launched(x))
    BY <2>1 DEF Launched, ItemsOf, TypeOK
  <2> QED
    BY <2>2, <2>3 DEF DecisionInv
<1>17. ASSUME NEW w \in Workers, FinishApproval(w)
       PROVE  DecisionInv'
  BY <1>17, DecisionFrame DEF FinishApproval, Complete, TypeOK
<1>18. ASSUME NEW w \in Workers, Crash(w)
       PROVE  DecisionInv'
  BY <1>9, <1>18 DEF Crash
<1>19. CASE UNCHANGED vars
  BY <1>9, <1>19 DEF vars
<1> QED
  BY <1>1, <1>2a, <1>3, <1>4, <1>5a, <1>6, <1>8, <1>10, <1>11, <1>12, <1>13, <1>14, <1>15,
     <1>16, <1>17, <1>18, <1>19
     DEF Next, Environment, Hook, Poll, Approve

LEMMA DecisionsAgree ==
    ASSUME TypeOK, AuthorityInv, DecisionInv
    PROVE  NoConflictingDecisions
<1> SUFFICES ASSUME NEW o \in Orders, Refused(o), Cardinality(verdicts[o]) = 1
             PROVE  /\ \A i \in ItemsOf(o) : jobs[i] = 0
                    /\ ~\E w \in Workers : Launching(w, o)
  BY DEF NoConflictingDecisions, Refused
<1>1. PICK v : verdicts[o] = {v}
  <2>1. IsFiniteSet(Decisions)
    <3>1. IsFiniteSet({"approved", "rejected", "cancelled"}) /\ IsFiniteSet({"platform"})
      <4>1. IsFiniteSet({}) /\ "approved" \notin {}
        BY FS_EmptySet
      <4>2. IsFiniteSet({} \cup {"approved"})
        BY <4>1, FS_AddElement
      <4>3. IsFiniteSet({} \cup {"approved"} \cup {"rejected"})
        BY <4>2, FS_AddElement
      <4>4. IsFiniteSet({} \cup {"approved"} \cup {"rejected"} \cup {"cancelled"})
        BY <4>3, FS_AddElement
      <4>5. {} \cup {"approved"} \cup {"rejected"} \cup {"cancelled"}
               = {"approved", "rejected", "cancelled"}
        OBVIOUS
      <4> QED
        BY <4>4, <4>5, FS_Singleton
    <3> QED
      BY <3>1, FS_Union DEF Decisions, Verdicts
  <2>2. IsFiniteSet(verdicts[o])
    BY <2>1, FS_Subset DEF TypeOK
  <2> QED
    BY <2>2, FS_Singleton
<1>2. ~Launched(o)
  <2> SUFFICES ASSUME Launched(o) PROVE FALSE
    OBVIOUS
  <2>1. v = "approved" \/ v = "platform"
    BY <1>1 DEF DecisionInv
  <2> QED
    BY <1>1, <2>1 DEF DecisionInv, Refused
<1>3. \A w \in Workers : ~Launching(w, o)
  BY <1>1 DEF Launching, AuthorityInv, DecisionInv, Refused
<1> QED
  BY <1>2, <1>3 DEF Launched, ItemsOf, TypeOK

\* An order with jobs is never refused, and a refused order gets no jobs, as long
\* as the order was decided in one way: however executions of the recurring job,
\* submit hooks, administrators and crashes interleave, orders are launched and
\* refused at once only where ServiceNow and CloudBolt disagreed.
THEOREM DecisionsDoNotConflict == Spec => []NoConflictingDecisions
<1>1. Init => TypeOK /\ AuthorityInv /\ DecisionInv
  BY InitTypeOK, InitAuthority, InitDecision
<1>2. TypeOK /\ AuthorityInv /\ DecisionInv /\ [Next]_vars
         => TypeOK' /\ AuthorityInv' /\ DecisionInv'
  BY NextTypeOK, NextAuthority, NextDecision
<1>3. TypeOK /\ AuthorityInv /\ DecisionInv => NoConflictingDecisions
  BY DecisionsAgree
<1> QED
  BY <1>1, <1>2, <1>3, PTL DEF Spec

-----------------------------------------------------------------------------
(* Every execution of approve_order saves at most one set of jobs.         *)

\* The jobs of item i that worker w, who launches its order, still has to save.
Unsaved(w, i) == IF pc[w] = "launch" THEN todo[w][i] ELSE JobsFor(i)

\* T has an element <<n, k>> for each job of item i: it is the k-th of the jobs
\* the n-th approval of the order asked for.  Worker w launches the order for
\* approval f[w], and for no other worker's approval; the jobs it has still to
\* save are not in T.
Accounts(i, f, T) ==
    LET o == OrderOf[i]
    IN  /\ f \in [Workers -> Nat]
        /\ \A w \in Workers : Launching(w, o) => f[w] \in 1 .. approvals[o]
        /\ \A v, w \in Workers : Launching(v, o) /\ Launching(w, o) /\ f[v] = f[w] => v = w
        /\ T \subseteq (1 .. approvals[o]) \X (1 .. JobsFor(i))
        /\ IsFiniteSet(T) /\ Cardinality(T) = jobs[i]
        /\ \A w \in Workers : Launching(w, o) =>
              \A k \in 1 .. Unsaved(w, i) : <<f[w], k>> \notin T

Accounted(i) == \E f, T : Accounts(i, f, T)

AccountInv == /\ \A i \in Items : Accounted(i)
              /\ \A w \in Workers, i \in Items :
                    pc[w] = "launch" => todo[w][i] <= JobsFor(i)

\* The sets of numbers and of pairs of numbers the lemmas below count.
LEMMA SizeOfRange ==
    ASSUME NEW n \in Nat
    PROVE  IsFiniteSet(1 .. n) /\ Cardinality(1 .. n) = n
<1>1. IsFiniteSet(1 .. n) /\ Cardinality(1 .. n) = IF 1 > n THEN 0 ELSE n - 1 + 1
  <2>1. 1 \in Int /\ n \in Int
    OBVIOUS
  <2> QED
    BY <2>1, FS_Interval
<1>2. (IF 1 > n THEN 0 ELSE n - 1 + 1) = n
  OBVIOUS
<1> QED
  BY <1>1, <1>2

LEMMA SizeOfPairs ==
    ASSUME NEW S, IsFiniteSet(S), NEW n \in Nat
    PROVE  IsFiniteSet(S \X (1 .. n)) /\ Cardinality(S \X (1 .. n)) = Cardinality(S) * n
<1> DEFINE R == 1 .. n
<1>1. IsFiniteSet(R) /\ Cardinality(R) = n
  BY SizeOfRange
<1> HIDE DEF R
<1>2. IsFiniteSet(S \X R) /\ Cardinality(S \X R) = Cardinality(S) * Cardinality(R)
  BY <1>1, FS_Product
<1>3. IsFiniteSet(S \X R) /\ Cardinality(S \X R) = Cardinality(S) * n
  BY <1>1, <1>2
<1> QED
  BY <1>3 DEF R

LEMMA InitAccount == Init => AccountInv
<1> SUFFICES ASSUME Init PROVE AccountInv
  OBVIOUS
<1>1. \A w \in Workers : pc[w] \in {"cart", "idle"}
  BY DEF Init
<1>2. ASSUME NEW i \in Items
      PROVE  Accounted(i)
  <2>1. \A w \in Workers : ~Launching(w, OrderOf[i])
    BY <1>1 DEF Launching
  <2>2. IsFiniteSet({}) /\ Cardinality({}) = 0
    BY FS_EmptySet
  <2>3. jobs[i] = 0
    BY DEF Init, NoJobs
  <2>4. [w \in Workers |-> 0] \in [Workers -> Nat]
    OBVIOUS
  <2>5. Accounts(i, [w \in Workers |-> 0], {})
    BY <2>1, <2>2, <2>3, <2>4 DEF Accounts
  <2> QED
    BY <2>5 DEF Accounted
<1> QED
  BY <1>1, <1>2 DEF AccountInv

\* A step that saves no job of the item, and whose launching workers launched
\* before and have no more to save.
LEMMA AccountFrame ==
    ASSUME NEW i \in Items, Accounted(i), TypeOK, TypeOK', jobs'[i] = jobs[i],
           approvals[OrderOf[i]] <= approvals'[OrderOf[i]],
           \A w \in Workers : Launching(w, OrderOf[i])' =>
              Launching(w, OrderOf[i]) /\ Unsaved(w, i)' <= Unsaved(w, i)
    PROVE  Accounted(i)'
<1> DEFINE o == OrderOf[i]
<1>1. PICK f, T : Accounts(i, f, T)
  BY DEF Accounted
<1>2. approvals[o] \in Nat /\ approvals'[o] \in Nat /\ o \in Orders /\ JobsFor(i) \in Nat
  BY JobsForType, ConstantsAssumption DEF TypeOK
<1>3. 1 .. approvals[o] \subseteq 1 .. approvals'[o]
  BY <1>2
<1>4. \A w \in Workers : Launching(w, o)' => f[w] \in 1 .. approvals'[o]
  BY <1>1, <1>3 DEF Accounts
<1>5. T \subseteq (1 .. approvals'[o]) \X (1 .. JobsFor(i))
  BY <1>1, <1>3 DEF Accounts
<1>6. ASSUME NEW w \in Workers, Launching(w, o)', NEW k \in 1 .. Unsaved(w, i)'
      PROVE  <<f[w], k>> \notin T
  <2>1. Unsaved(w, i)' \in Nat /\ Unsaved(w, i) \in Nat
    BY <1>2 DEF Unsaved, TypeOK
  <2>2. Launching(w, o) /\ k \in 1 .. Unsaved(w, i)
    BY <1>6, <2>1
  <2> QED
    BY <1>1, <2>2 DEF Accounts
<1>7. Accounts(i, f, T)'
  BY <1>1, <1>4, <1>5, <1>6 DEF Accounts
<1> QED
  BY <1>7 DEF Accounted

\* The platform approves the order of the item and saves all its jobs.
LEMMA AccountPlatform ==
    ASSUME NEW i \in Items, Accounted(i), TypeOK, TypeOK',
           jobs'[i] = jobs[i] + JobsFor(i),
           approvals'[OrderOf[i]] = approvals[OrderOf[i]] + 1,
           \A w \in Workers : Launching(w, OrderOf[i])' =>
              Launching(w, OrderOf[i]) /\ Unsaved(w, i)' = Unsaved(w, i)
    PROVE  Accounted(i)'
<1> DEFINE o == OrderOf[i]
           a == approvals[o] + 1
           new == {a} \X (1 .. JobsFor(i))
<1>1. PICK f, T : Accounts(i, f, T)
  BY DEF Accounted
<1>2. /\ approvals[o] \in Nat /\ a \in Nat /\ o \in Orders /\ JobsFor(i) \in Nat
      /\ a \notin 1 .. approvals[o]
  BY JobsForType, ConstantsAssumption DEF TypeOK
<1>3. 1 .. approvals[o] \subseteq 1 .. a /\ a \in 1 .. a
  BY <1>2
<1>4. IsFiniteSet(new) /\ Cardinality(new) = JobsFor(i)
  <2>1. IsFiniteSet({a}) /\ Cardinality({a}) = 1
    BY FS_Singleton
  <2> DEFINE sole == {a}
             j == JobsFor(i)
  <2>2. j \in Nat /\ 1 \in Nat /\ 1 * j = j
    BY <1>2
  <2> HIDE DEF sole, j
  <2>3. IsFiniteSet(sole \X (1 .. j)) /\ Cardinality(sole \X (1 .. j)) = Cardinality(sole) * j
    BY <2>1, <2>2, SizeOfPairs DEF sole
  <2> QED
    BY <2>1, <2>2, <2>3 DEF sole, j
<1>5. T \cap new = {}
  BY <1>1, <1>2 DEF Accounts
<1> HIDE DEF new
<1>6. IsFiniteSet(T \cup new) /\ Cardinality(T \cup new) = jobs'[i]
  <2>1. IsFiniteSet(T) /\ Cardinality(T) = jobs[i] /\ jobs[i] \in Nat
    BY <1>1 DEF Accounts, TypeOK
  <2>2. /\ IsFiniteSet(T \cup new)
        /\ Cardinality(T \cup new) = Cardinality(T) + Cardinality(new) - Cardinality(T \cap new)
    BY <1>4, <2>1, FS_Union
  <2>3. Cardinality(T \cap new) = 0
    BY <1>5, FS_EmptySet
  <2>4. Cardinality(T \cup new) = jobs[i] + JobsFor(i) - 0
    BY <1>4, <2>1, <2>2, <2>3
  <2>5. jobs[i] + JobsFor(i) - 0 = jobs[i] + JobsFor(i)
    BY <1>2, <2>1
  <2> QED
    BY <2>2, <2>4, <2>5
<1>7. \A w \in Workers : Launching(w, o)' => f[w] \in 1 .. approvals'[o]
  BY <1>1, <1>3 DEF Accounts
<1>8. T \cup new \subseteq (1 .. approvals'[o]) \X (1 .. JobsFor(i))
  BY <1>1, <1>3 DEF Accounts, new
<1>9. ASSUME NEW w \in Workers, Launching(w, o)', NEW k \in 1 .. Unsaved(w, i)'
      PROVE  <<f[w], k>> \notin T \cup new
  <2>1. <<f[w], k>> \notin T /\ f[w] \in 1 .. approvals[o]
    BY <1>1, <1>9 DEF Accounts
  <2> QED
    BY <1>2, <2>1 DEF new
<1>10. /\ f \in [Workers -> Nat]
       /\ \A v, w \in Workers : Launching(v, o)' /\ Launching(w, o)' /\ f[v] = f[w] => v = w
  BY <1>1 DEF Accounts
<1>u. PICK U : U = T \cup new
  OBVIOUS
<1>11. \A w \in Workers : Launching(w, o)' => \A k \in 1 .. Unsaved(w, i)' : <<f[w], k>> \notin U
  BY <1>9, <1>u
<1>12. /\ U \subseteq (1 .. approvals'[o]) \X (1 .. JobsFor(i))
       /\ IsFiniteSet(U) /\ Cardinality(U) = jobs'[i]
  BY <1>6, <1>8, <1>u
<1>13. Accounts(i, f, U)'
  BY <1>7, <1>10, <1>11, <1>12 DEF Accounts
<1> QED
  BY <1>13 DEF Accounted

\* A worker begins to launch the order for a new approval.
LEMMA AccountApproved ==
    ASSUME NEW i \in Items, Accounted(i), TypeOK, TypeOK', jobs'[i] = jobs[i],
           approvals'[OrderOf[i]] = approvals[OrderOf[i]] + 1,
           NEW v \in Workers,
           \A w \in Workers : w # v /\ Launching(w, OrderOf[i])' =>
              Launching(w, OrderOf[i]) /\ Unsaved(w, i)' = Unsaved(w, i)
    PROVE  Accounted(i)'
<1> DEFINE o == OrderOf[i]
           a == approvals[o] + 1
<1>1. PICK f, T : Accounts(i, f, T)
  BY DEF Accounted
<1>g. PICK g : g = [f EXCEPT ![v] = a]
  OBVIOUS
<1>2. /\ approvals[o] \in Nat /\ a \in Nat /\ o \in Orders /\ JobsFor(i) \in Nat
      /\ a \notin 1 .. approvals[o]
  BY JobsForType, ConstantsAssumption DEF TypeOK
<1>3. 1 .. approvals[o] \subseteq 1 .. a /\ a \in 1 .. a
  BY <1>2
<1>4. /\ g \in [Workers -> Nat] /\ g[v] = a
      /\ \A w \in Workers : w # v => g[w] = f[w]
  BY <1>1, <1>2, <1>g DEF Accounts
<1>5. \A w \in Workers : w # v /\ Launching(w, o)' => g[w] \in 1 .. approvals[o]
  BY <1>1, <1>4 DEF Accounts
<1>6. \A w \in Workers : Launching(w, o)' => g[w] \in 1 .. approvals'[o]
  BY <1>3, <1>4, <1>5
<1>7. T \subseteq (1 .. approvals'[o]) \X (1 .. JobsFor(i))
  BY <1>1, <1>3 DEF Accounts
<1>8. ASSUME NEW x \in Workers, NEW w \in Workers, Launching(x, o)', Launching(w, o)', g[x] = g[w]
      PROVE  x = w
  BY <1>1, <1>2, <1>4, <1>5, <1>8 DEF Accounts
<1>9. ASSUME NEW w \in Workers, Launching(w, o)', NEW k \in 1 .. Unsaved(w, i)'
      PROVE  <<g[w], k>> \notin T
  <2>1. CASE w = v
    BY <1>1, <1>2, <1>4, <2>1 DEF Accounts
  <2>2. CASE w # v
    BY <1>1, <1>4, <1>9, <2>2 DEF Accounts
  <2> QED
    BY <2>1, <2>2
<1>10. IsFiniteSet(T) /\ Cardinality(T) = jobs'[i] /\ g \in [Workers -> Nat]
  BY <1>1, <1>4 DEF Accounts
<1>11. \A x, w \in Workers : Launching(x, o)' /\ Launching(w, o)' /\ g[x] = g[w] => x = w
  BY <1>8
<1>12. \A w \in Workers : Launching(w, o)' => \A k \in 1 .. Unsaved(w, i)' : <<g[w], k>> \notin T
  BY <1>9
<1>13. Accounts(i, g, T)'
  BY <1>6, <1>7, <1>10, <1>11, <1>12 DEF Accounts
<1> QED
  BY <1>13 DEF Accounted

\* A worker saves a job of the item.
LEMMA AccountSaved ==
    ASSUME NEW i \in Items, Accounted(i), TypeOK, TypeOK', jobs'[i] = jobs[i] + 1,
           approvals' = approvals,
           NEW v \in Workers, Launching(v, OrderOf[i]), pc[v] = "launch", pc' = pc, cur' = cur,
           todo[v][i] > 0, todo[v][i] <= JobsFor(i), todo'[v][i] = todo[v][i] - 1,
           \A w \in Workers : w # v => todo'[w][i] = todo[w][i]
    PROVE  Accounted(i)'
<1> DEFINE o == OrderOf[i]
<1>1. PICK f, T : Accounts(i, f, T)
  BY DEF Accounted
<1>j. PICK job : job = <<f[v], todo[v][i]>>
  OBVIOUS
<1>2. /\ approvals[o] \in Nat /\ o \in Orders /\ JobsFor(i) \in Nat
      /\ todo[v][i] \in 1 .. JobsFor(i) /\ todo[v][i] \in 1 .. Unsaved(v, i)
  BY JobsForType, ConstantsAssumption DEF TypeOK, Unsaved
<1>3. job \notin T /\ job \in (1 .. approvals[o]) \X (1 .. JobsFor(i))
  BY <1>1, <1>2, <1>j DEF Accounts
<1>4. IsFiniteSet(T \cup {job}) /\ Cardinality(T \cup {job}) = jobs'[i]
  <2>1. IsFiniteSet(T) /\ Cardinality(T) = jobs[i] /\ job \notin T
    BY <1>1, <1>3 DEF Accounts
  <2>2. IsFiniteSet(T \cup {job}) /\ Cardinality(T \cup {job}) = Cardinality(T) + 1
    BY <2>1, FS_AddElement
  <2> QED
    BY <2>1, <2>2
<1>5. T \cup {job} \subseteq (1 .. approvals'[o]) \X (1 .. JobsFor(i))
  BY <1>1, <1>3 DEF Accounts
<1>6. \A w \in Workers : Launching(w, o)' <=> Launching(w, o)
  BY DEF Launching
<1>7. ASSUME NEW w \in Workers, Launching(w, o), NEW k \in 1 .. Unsaved(w, i)'
      PROVE  <<f[w], k>> \notin T \cup {job}
  <2>1. CASE w = v
    <3>1. k \in 1 .. Unsaved(v, i) /\ k # todo[v][i]
      BY <1>2, <1>7, <2>1 DEF Unsaved
    <3> QED
      BY <1>1, <1>7, <1>j, <2>1, <3>1 DEF Accounts
  <2>2. CASE w # v
    <3>1. k \in 1 .. Unsaved(w, i)
      BY <1>7, <2>2 DEF Unsaved
    <3>2. f[w] # f[v]
      BY <1>1, <1>7, <2>2 DEF Accounts
    <3> QED
      BY <1>1, <1>7, <1>j, <3>1, <3>2 DEF Accounts
  <2> QED
    BY <2>1, <2>2
<1>8. Accounts(i, f, T \cup {job})'
  BY <1>1, <1>4, <1>5, <1>6, <1>7 DEF Accounts
<1> QED
  BY <1>8 DEF Accounted

\* A step that approves no order and saves no job; a worker may get to know the
\* jobs it has to save.
LEMMA AccountQuiet ==
    ASSUME AccountInv, TypeOK, TypeOK', UNCHANGED <<jobs, approvals>>,
           \A w \in Workers : pc'[w] \in {"hooks", "launch"} =>
              /\ cur'[w] = cur[w]
              /\ \/ pc'[w] = pc[w] /\ todo'[w] = todo[w]
                 \/ pc[w] = "hooks" /\ pc'[w] = "launch" /\ todo'[w] = Plan(cur[w])
    PROVE  AccountInv'
<1>1. ASSUME NEW i \in Items
      PROVE  Accounted(i)'
  <2>1. \A w \in Workers : Launching(w, OrderOf[i])' => Launching(w, OrderOf[i])
    BY DEF Launching
  <2>2. ASSUME NEW w \in Workers, Launching(w, OrderOf[i])'
        PROVE  Unsaved(w, i)' = Unsaved(w, i)
    <3>1. cur[w] = OrderOf[i] /\ pc'[w] \in {"hooks", "launch"}
      BY <2>2 DEF Launching
    <3>2. CASE pc'[w] = pc[w] /\ todo'[w] = todo[w]
      BY <3>2 DEF Unsaved
    <3>3. CASE pc[w] = "hooks" /\ pc'[w] = "launch" /\ todo'[w] = Plan(cur[w])
      BY <3>1, <3>3 DEF Unsaved, Plan
    <3> QED
      BY <3>1, <3>2, <3>3
  <2>3. /\ jobs'[i] = jobs[i] /\ approvals[OrderOf[i]] <= approvals'[OrderOf[i]]
        /\ \A w \in Workers : Unsaved(w, i) \in Nat
    BY JobsForType, ConstantsAssumption DEF TypeOK, Unsaved
  <2>4. \A w \in Workers : Launching(w, OrderOf[i])' => Unsaved(w, i)' <= Unsaved(w, i)
    BY <2>2, <2>3
  <2>5. Accounted(i)
    BY DEF AccountInv
  <2> QED
    BY <2>1, <2>3, <2>4, <2>5, AccountFrame
<1>2. ASSUME NEW w \in Workers, NEW i \in Items, pc'[w] = "launch"
      PROVE  todo'[w][i] <= JobsFor(i)
  <2>1. CASE pc'[w] = pc[w] /\ todo'[w] = todo[w]
    BY <1>2, <2>1 DEF AccountInv
  <2>2. CASE todo'[w] = Plan(cur[w])
    BY <2>2, JobsForType DEF Plan
  <2> QED
    BY <1>2, <2>1, <2>2
<1> QED
  BY <1>1, <1>2 DEF AccountInv

\* The platform approves order o; no worker starts or goes on with a launch.
LEMMA AccountApprove ==
    ASSUME AccountInv, TypeOK, TypeOK', NEW o \in Orders, PlatformApprove(o),
           \A w \in Workers : pc'[w] \in {"hooks", "launch"} =>
              cur'[w] = cur[w] /\ pc'[w] = pc[w] /\ todo'[w] = todo[w]
    PROVE  AccountInv'
<1>1. \A i \in Items : \A w \in Workers : Launching(w, OrderOf[i])' =>
         Launching(w, OrderOf[i]) /\ Unsaved(w, i)' = Unsaved(w, i)
  BY DEF Launching, Unsaved
<1>2. ASSUME NEW i \in Items
      PROVE  Accounted(i)'
  <2>1. Accounted(i) /\ OrderOf[i] \in Orders
    BY ConstantsAssumption DEF AccountInv
  <2>2. \A w \in Workers : Unsaved(w, i) \in Nat
    BY JobsForType DEF TypeOK, Unsaved
  <2>3. CASE OrderOf[i] = o
    <3>1. jobs'[i] = jobs[i] + JobsFor(i) /\ approvals'[o] = approvals[o] + 1
      BY <2>3 DEF PlatformApprove, Plan, TypeOK
    <3> QED
      BY <1>1, <2>1, <2>3, <3>1, AccountPlatform
  <2>4. CASE OrderOf[i] # o
    <3>1. jobs'[i] = jobs[i] /\ approvals'[OrderOf[i]] = approvals[OrderOf[i]]
      BY <2>1, <2>4 DEF PlatformApprove, Plan, TypeOK
    <3>2. approvals[OrderOf[i]] <= approvals'[OrderOf[i]]
      BY <2>1, <3>1 DEF TypeOK
    <3>3. \A w \in Workers : Launching(w, OrderOf[i])' =>
             Launching(w, OrderOf[i]) /\ Unsaved(w, i)' <= Unsaved(w, i)
      BY <1>1, <2>2
    <3> QED
      BY <2>1, <3>1, <3>2, <3>3, AccountFrame
  <2> QED
    BY <2>3, <2>4
<1>3. \A w \in Workers, i \in Items : pc'[w] = "launch" => todo'[w][i] <= JobsFor(i)
  BY DEF AccountInv
<1> QED
  BY <1>2, <1>3 DEF AccountInv

LEMMA AccountApproveOrder ==
    ASSUME AccountInv, TypeOK, TypeOK', NEW v \in Workers, ApproveOrder(v)
    PROVE  AccountInv'
<1>1. /\ pc[v] = "apply" /\ cur[v] \in Orders /\ jobs' = jobs /\ cur' = cur
      /\ approvals' = [approvals EXCEPT ![cur[v]] = @ + 1]
      /\ \A w \in Workers : w # v => pc'[w] = pc[w] /\ todo'[w] = todo[w]
      /\ pc'[v] = "launch" => todo'[v] = Plan(cur[v])
  BY DEF ApproveOrder, TypeOK, Busy, orderVars
<1>2. ASSUME NEW i \in Items
      PROVE  Accounted(i)'
  <2>1. Accounted(i) /\ OrderOf[i] \in Orders /\ jobs'[i] = jobs[i]
    BY <1>1, ConstantsAssumption DEF AccountInv
  <2>2. \A w \in Workers : Unsaved(w, i) \in Nat
    BY JobsForType DEF TypeOK, Unsaved
  <2>3. \A w \in Workers : w # v /\ Launching(w, OrderOf[i])' =>
           Launching(w, OrderOf[i]) /\ Unsaved(w, i)' = Unsaved(w, i)
    BY <1>1 DEF Launching, Unsaved
  <2>4. CASE OrderOf[i] = cur[v]
    <3>1. approvals'[OrderOf[i]] = approvals[OrderOf[i]] + 1
      BY <1>1, <2>4 DEF TypeOK
    <3> QED
      BY <2>1, <2>3, <3>1, AccountApproved
  <2>5. CASE OrderOf[i] # cur[v]
    <3>1. approvals[OrderOf[i]] <= approvals'[OrderOf[i]]
      BY <1>1, <2>1, <2>5 DEF TypeOK
    <3>2. \A w \in Workers : Launching(w, OrderOf[i])' =>
             Launching(w, OrderOf[i]) /\ Unsaved(w, i)' <= Unsaved(w, i)
      BY <1>1, <2>2, <2>3, <2>5 DEF Launching
    <3> QED
      BY <2>1, <3>1, <3>2, AccountFrame
  <2> QED
    BY <2>4, <2>5
<1>3. ASSUME NEW w \in Workers, NEW i \in Items, pc'[w] = "launch"
      PROVE  todo'[w][i] <= JobsFor(i)
  <2>1. CASE w = v
    BY <1>1, <1>3, <2>1, JobsForType DEF Plan
  <2>2. CASE w # v
    BY <1>1, <1>3, <2>2 DEF AccountInv
  <2> QED
    BY <2>1, <2>2
<1> QED
  BY <1>2, <1>3 DEF AccountInv

LEMMA AccountSaveJob ==
    ASSUME AccountInv, AuthorityInv, TypeOK, TypeOK', NEW v \in Workers, SaveJob(v)
    PROVE  AccountInv'
<1>1. PICK j \in Items : /\ todo[v][j] > 0
                         /\ todo' = [todo EXCEPT ![v][j] = @ - 1]
                         /\ jobs' = [jobs EXCEPT ![j] = @ + 1]
  BY DEF SaveJob
<1>2. /\ pc[v] = "launch" /\ OrderOf[j] = cur[v] /\ Launching(v, OrderOf[j])
      /\ UNCHANGED <<pc, cur, approvals>> /\ todo[v][j] <= JobsFor(j)
  BY <1>1 DEF SaveJob, AuthorityInv, Launching, AccountInv
<1>3. /\ todo'[v][j] = todo[v][j] - 1 /\ jobs'[j] = jobs[j] + 1
      /\ \A w \in Workers : w # v => todo'[w] = todo[w]
      /\ \A i \in Items : i # j => todo'[v][i] = todo[v][i] /\ jobs'[i] = jobs[i]
      /\ todo[v][j] \in Nat
  BY <1>1 DEF TypeOK
<1>4. ASSUME NEW i \in Items
      PROVE  Accounted(i)'
  <2>1. Accounted(i)
    BY DEF AccountInv
  <2>2. CASE i = j
    BY <1>1, <1>2, <1>3, <2>1, <2>2, AccountSaved
  <2>3. CASE i # j
    <3>1. \A w \in Workers : todo'[w][i] = todo[w][i]
      BY <1>3, <2>3
    <3>2. jobs'[i] = jobs[i] /\ approvals[OrderOf[i]] <= approvals'[OrderOf[i]]
      BY <1>2, <1>3, <2>3, ConstantsAssumption DEF TypeOK
    <3>3. \A w \in Workers : Launching(w, OrderOf[i])' =>
             Launching(w, OrderOf[i]) /\ Unsaved(w, i)' = Unsaved(w, i)
      BY <1>2, <3>1 DEF Launching, Unsaved
    <3>4. \A w \in Workers : Unsaved(w, i) \in Nat
      BY JobsForType DEF TypeOK, Unsaved
    <3>5. \A w \in Workers : Launching(w, OrderOf[i])' =>
             Launching(w, OrderOf[i]) /\ Unsaved(w, i)' <= Unsaved(w, i)
      BY <3>3, <3>4
    <3> QED
      BY <2>1, <3>2, <3>5, AccountFrame
  <2> QED
    BY <2>2, <2>3
<1>5. ASSUME NEW w \in Workers, NEW i \in Items, pc'[w] = "launch"
      PROVE  todo'[w][i] <= JobsFor(i)
  <2>1. pc[w] = "launch" /\ todo[w][i] <= JobsFor(i) /\ JobsFor(i) \in Nat
    BY <1>2, <1>5, JobsForType DEF AccountInv
  <2>2. CASE w = v /\ i = j
    BY <1>3, <2>1, <2>2
  <2>3. CASE ~(w = v /\ i = j)
    BY <1>3, <2>1, <2>3
  <2> QED
    BY <2>2, <2>3
<1> QED
  BY <1>4, <1>5 DEF AccountInv

LEMMA NextAccount ==
    TypeOK /\ TypeOK' /\ AuthorityInv /\ AccountInv /\ [Next]_vars => AccountInv'
<1> SUFFICES ASSUME TypeOK, TypeOK', AuthorityInv, AccountInv, [Next]_vars
             PROVE  AccountInv'
  OBVIOUS
<1>w. Orders \subseteq Workers /\ Pollers \subseteq Workers
  BY DEF Workers
<1> USE DEF orderVars, snowVars, workVars
<1>1. ASSUME NEW o \in Orders, SubmitOrder(o)
      PROVE  AccountInv'
  <2>1. /\ UNCHANGED <<jobs, approvals, todo>>
        /\ pc'[o] = "submit" /\ \A w \in Workers : w # o => pc'[w] = pc[w] /\ cur'[w] = cur[w]
    BY <1>1, <1>w DEF SubmitOrder, TypeOK
  <2> QED
    BY <2>1, AccountQuiet
<1>2. ASSUME NEW o \in Orders, AdminApprove(o)
      PROVE  AccountInv'
  BY <1>2, AccountApprove DEF AdminApprove
<1>3. ASSUME UNCHANGED <<jobs, approvals, pc, cur, todo>>
      PROVE  AccountInv'
  BY <1>3, AccountQuiet
<1>4. ASSUME NEW o \in Orders, \/ AdminDeny(o) \/ CompleteOrder(o) \/ SnowDecide(o)
                               \/ SnowRevise(o) \/ SnowDelete(o) \/ CloseRequest(o)
      PROVE  AccountInv'
  BY <1>3, <1>4 DEF AdminDeny, CompleteOrder, SnowDecide, SnowRevise, SnowDelete, Decide,
                    CloseRequest
\* A worker that leaves its order, or takes another step outside a launch.
<1>5. ASSUME NEW v \in Workers, UNCHANGED <<jobs, approvals>>,
             pc'[v] \notin {"hooks", "launch"},
             \A w \in Workers : w # v => /\ pc'[w] = pc[w] /\ cur'[w] = cur[w]
                                          /\ todo'[w] = todo[w]
      PROVE  AccountInv'
  BY <1>5, AccountQuiet
<1>6. ASSUME NEW v \in Workers, NEW rest, Leave(v, rest)
      PROVE  /\ pc'[v] \notin {"hooks", "launch"}
             /\ \A w \in Workers : w # v => pc'[w] = pc[w] /\ cur'[w] = cur[w]
  BY <1>6 DEF Leave, TypeOK
<1>7. ASSUME NEW v \in Workers, Stop(v), UNCHANGED <<jobs, approvals>>
      PROVE  AccountInv'
  BY <1>5, <1>6, <1>7 DEF Stop, TypeOK
<1>8. ASSUME NEW o \in Orders, AutoApproveOther(o)
      PROVE  AccountInv'
  <2>1. Leave(o, {}) /\ PlatformApprove(o) /\ UNCHANGED todo
    BY <1>8 DEF AutoApproveOther
  <2>2. \A w \in Workers : pc'[w] \in {"hooks", "launch"} =>
           cur'[w] = cur[w] /\ pc'[w] = pc[w] /\ todo'[w] = todo[w]
    BY <2>1, <1>6, <1>w
  <2> QED
    BY <2>1, <2>2, AccountApprove
<1>9. ASSUME NEW o \in Orders, GetSysidForUsers(o) \/ CreateServiceRequest(o)
      PROVE  AccountInv'
  <2>1. /\ UNCHANGED <<jobs, approvals, todo>>
        /\ \/ Leave(o, {})
           \/ cur' = cur /\ \E c \in {"post", "store"} : pc' = [pc EXCEPT ![o] = c]
    BY <1>9 DEF GetSysidForUsers, CreateServiceRequest
  <2>2. /\ pc'[o] \notin {"hooks", "launch"}
        /\ \A w \in Workers : w # o => pc'[w] = pc[w] /\ cur'[w] = cur[w]
    BY <2>1, <1>6, <1>w DEF TypeOK
  <2> QED
    BY <2>1, <2>2, <1>5, <1>w
<1>10. ASSUME NEW o \in Orders, AddServicenowInfoToOi(o)
       PROVE  AccountInv'
  <2>1. /\ UNCHANGED <<jobs, approvals, todo>> /\ pc[o] = "store"
        /\ \/ Leave(o, {})
           \/ cur' = cur /\ pc' = [pc EXCEPT ![o] = "apply"]
           \/ UNCHANGED <<pc, cur>>
    BY <1>10 DEF AddServicenowInfoToOi
  <2>2. /\ pc'[o] \notin {"hooks", "launch"}
        /\ \A w \in Workers : w # o => pc'[w] = pc[w] /\ cur'[w] = cur[w]
    BY <2>1, <1>6, <1>w DEF TypeOK
  <2> QED
    BY <2>1, <2>2, <1>5, <1>w
<1>11. ASSUME NEW p \in Pollers, GetPendingSmoiOrders(p) \/ GetPendingBpoiOrders(p)
       PROVE  AccountInv'
  <2>1. /\ UNCHANGED <<jobs, approvals, todo, cur>>
        /\ \E c \in {"query", "idle", "loop"} : pc' = [pc EXCEPT ![p] = c]
    BY <1>11 DEF GetPendingSmoiOrders, GetPendingBpoiOrders
  <2> QED
    BY <2>1, <1>5, <1>w DEF TypeOK
<1>12. ASSUME NEW p \in Pollers, NEW o \in Orders, GetApprovalStatus(p, o)
       PROVE  AccountInv'
  BY <1>12, <1>5, <1>w DEF GetApprovalStatus, TypeOK
<1>13. ASSUME NEW p \in Pollers, NEW o \in Orders, LookupFails(p, o)
       PROVE  AccountInv'
  BY <1>13, <1>7, <1>w DEF LookupFails
<1>14. ASSUME NEW p \in Pollers, LeavePending(p) \/ RejectOrder(p) \/ CancelOrder(p)
       PROVE  AccountInv'
  <2>1. Leave(p, queue[p]) /\ UNCHANGED <<jobs, approvals, todo>>
    BY <1>14 DEF LeavePending, RejectOrder, CancelOrder, Refuse
  <2> QED
    BY <2>1, <1>5, <1>6, <1>w
<1>15. ASSUME NEW p \in Pollers, pc[p] = "hooks", Launch(p), UNCHANGED <<jobs, approvals, cur>>
       PROVE  AccountInv'
  <2>1. /\ pc'[p] = "launch" /\ todo'[p] = Plan(cur[p])
        /\ \A w \in Workers : w # p => pc'[w] = pc[w] /\ todo'[w] = todo[w]
    BY <1>15, <1>w DEF Launch, TypeOK
  <2> QED
    BY <2>1, <1>15, AccountQuiet
<1>16. ASSUME NEW p \in Pollers, HooksPass(p)
       PROVE  AccountInv'
  BY <1>15, <1>16 DEF HooksPass
<1>17. ASSUME NEW p \in Pollers, HooksFail(p)
       PROVE  AccountInv'
  BY <1>17, <1>7, <1>w DEF HooksFail
<1>18. ASSUME NEW p \in Pollers, HooksRepend(p)
       PROVE  AccountInv'
  <2>1. pc[p] = "hooks" /\ UNCHANGED <<jobs, approvals>>
    BY <1>18 DEF HooksRepend
  <2>2. CASE cur[p] \in Approvers
    <3>1. Leave(p, queue[p]) /\ UNCHANGED todo
      BY <1>18, <2>2 DEF HooksRepend
    <3> QED
      BY <2>1, <3>1, <1>5, <1>6, <1>w
  <2>3. CASE cur[p] \notin Approvers
    BY <1>18, <2>1, <2>3, <1>15 DEF HooksRepend
  <2> QED
    BY <2>2, <2>3
<1>19. ASSUME NEW w \in Workers, ApproveOrder(w)
       PROVE  AccountInv'
  BY <1>19, AccountApproveOrder
<1>20. ASSUME NEW w \in Workers, SaveJob(w)
       PROVE  AccountInv'
  BY <1>20, AccountSaveJob
<1>21. ASSUME NEW v \in Workers, FinishApproval(v)
       PROVE  AccountInv'
  <2>1. Leave(v, Rest(v)) /\ UNCHANGED <<jobs, approvals, todo>>
    BY <1>21 DEF FinishApproval
  <2> QED
    BY <2>1, <1>5, <1>6
<1>22. ASSUME NEW w \in Workers, Crash(w)
       PROVE  AccountInv'
  BY <1>22, <1>7 DEF Crash
<1>23. CASE UNCHANGED vars
  BY <1>3, <1>23 DEF vars
<1> QED
  BY <1>1, <1>2, <1>4, <1>8, <1>9, <1>10, <1>11, <1>12, <1>13, <1>14, <1>16, <1>17, <1>18,
     <1>19, <1>20, <1>21, <1>22, <1>23
     DEF Next, Environment, Hook, Poll, Approve

LEMMA AccountBound ==
    ASSUME TypeOK, AccountInv
    PROVE  JobsBoundedByApprovals
<1> SUFFICES ASSUME NEW i \in Items
             PROVE  jobs[i] <= approvals[OrderOf[i]] * JobsFor(i)
  BY DEF JobsBoundedByApprovals
<1>1. PICK f, T : Accounts(i, f, T)
  BY DEF AccountInv, Accounted
<1>2. approvals[OrderOf[i]] \in Nat /\ JobsFor(i) \in Nat
  BY JobsForType, ConstantsAssumption DEF TypeOK
<1> DEFINE m == approvals[OrderOf[i]]
           n == JobsFor(i)
           A == 1 .. m
           P == A \X (1 .. n)
<1>3. m \in Nat /\ n \in Nat
  BY <1>2
<1>4. T \subseteq P /\ Cardinality(T) = jobs[i]
  BY <1>1 DEF Accounts
<1> HIDE DEF m, n
<1>5. IsFiniteSet(A) /\ Cardinality(A) = m
  BY <1>3, SizeOfRange
<1> HIDE DEF A
<1>6. IsFiniteSet(P) /\ Cardinality(P) = m * n
  <2>1. IsFiniteSet(P) /\ Cardinality(P) = Cardinality(A) * n
    BY <1>3, <1>5, SizeOfPairs
  <2> HIDE DEF P
  <2> QED
    BY <1>5, <2>1
<1> HIDE DEF P
<1>7. Cardinality(T) <= Cardinality(P)
  BY <1>4, <1>6, FS_Subset
<1> QED
  BY <1>4, <1>6, <1>7 DEF m, n

\* However often executions of the recurring job, submit hooks and administrators
\* approve an order at once, and wherever they crash: each approval saves at most
\* the jobs the order's items ask for.
THEOREM JobsBounded == Spec => []JobsBoundedByApprovals
<1>1. Init => TypeOK /\ AuthorityInv /\ AccountInv
  BY InitTypeOK, InitAuthority, InitAccount
<1>2. TypeOK /\ AuthorityInv /\ AccountInv /\ [Next]_vars
         => TypeOK' /\ AuthorityInv' /\ AccountInv'
  BY NextTypeOK, NextAuthority, NextAccount
<1>3. TypeOK /\ AccountInv => JobsBoundedByApprovals
  BY AccountBound
<1> QED
  BY <1>1, <1>2, <1>3, PTL DEF Spec
=============================================================================
