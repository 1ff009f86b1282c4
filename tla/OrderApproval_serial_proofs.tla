--------------------- MODULE OrderApproval_serial_proofs ---------------------
(***************************************************************************)
(* What holds when one execution of the recurring job at a time, and       *)
(* nobody else, decides orders that have a request (Serial): no job is     *)
(* saved twice, not even when the execution crashes and the next one       *)
(* starts again, OrderApproval implements OrderLifecycle, closed requests  *)
(* stay true, and without crashes no order is left half launched.          *)
(***************************************************************************)
EXTENDS OrderApproval_proofs

LEMMA WorkerSets == /\ Orders \subseteq Workers
                    /\ Pollers \subseteq Workers
                    /\ \A o \in Orders : o \notin Pollers
BY ConstantsAssumption DEF Workers

LEMMA SameStored ==
    ASSUME UNCHANGED hasSysId
    PROVE  \A o : Stored(o)' <=> Stored(o)
BY DEF Stored

LEMMA SameLaunched ==
    ASSUME UNCHANGED jobs
    PROVE  \A o : Launched(o)' <=> Launched(o)
BY DEF Launched

LEMMA InitSerial == Init => SerialInv
<1> SUFFICES ASSUME Init PROVE SerialInv
  OBVIOUS
<1>1. /\ \A o \in Orders : ~Stored(o) /\ ~Launched(o)
      /\ \A i \in Items : jobs[i] = 0
      /\ \A w \in Workers, i \in Items : todo[w][i] = 0
  BY DEF Init, Stored, Launched, NoJobs, ItemsOf
<1>2. /\ \A o \in Orders : pc[o] = "cart"
      /\ \A p \in Pollers : pc[p] = "idle" /\ queue[p] = {}
  BY WorkerSets DEF Init
<1>3. NoDuplicateJobs
  BY <1>1, JobsForType DEF NoDuplicateJobs
<1> QED
  BY <1>1, <1>2, <1>3, WorkerSets DEF SerialInv, HookInv, PollInv, JobsInv

-----------------------------------------------------------------------------
(* Each part of the invariant depends on little of the state. *)

\* A step that leaves the submit hooks alone, and the status of the orders
\* whose hook has just started.
LEMMA HookFrame ==
    ASSUME HookInv, UNCHANGED hasSysId,
           \A o \in Orders : /\ pc'[o] = pc[o]
                             /\ found'[o] = found[o]
                             /\ pc[o] = "submit" => status'[o] = status[o]
    PROVE  HookInv'
BY SameStored DEF HookInv

\* A step that leaves the pollers and the orders with a request alone.
LEMMA PollFrame ==
    ASSUME PollInv, TypeOK, UNCHANGED queue,
           \A p \in Pollers : pc'[p] = pc[p] /\ cur'[p] = cur[p],
           \A o \in Orders : Stored(o) => /\ Stored(o)'
                                          /\ status'[o] = status[o]
                                          /\ Launched(o)' <=> Launched(o)
    PROVE  PollInv'
BY WorkerSets DEF PollInv, TypeOK, Busy

\* A step that saves no job and leaves the launches alone.
LEMMA JobsFrame ==
    ASSUME JobsInv, UNCHANGED <<jobs, todo>>,
           \A p \in Pollers : pc'[p] = pc[p] /\ cur'[p] = cur[p],
           \A o \in Orders : status'[o] \in {"CART", "PENDING"}
                                => status[o] \in {"CART", "PENDING"}
    PROVE  JobsInv'
BY SameLaunched DEF JobsInv, NoDuplicateJobs

-----------------------------------------------------------------------------

LEMMA NextSerial == ASSUME Serial
                    PROVE  TypeOK /\ SerialInv /\ [Next]_vars => SerialInv'
<1> SUFFICES ASSUME TypeOK, SerialInv, [Next]_vars
             PROVE  SerialInv'
  OBVIOUS
<1>i. HookInv /\ PollInv /\ JobsInv
  BY DEF SerialInv
<1> USE DEF orderVars, snowVars, workVars
<1>1. ASSUME NEW o \in Orders, SubmitOrder(o)
      PROVE  SerialInv'
  <2>1. HookInv'
    BY <1>1, <1>i, WorkerSets, SameStored DEF SubmitOrder, HookInv, TypeOK
  <2>2. PollInv'
    BY <1>1, <1>i, WorkerSets, SameStored, SameLaunched, PollFrame
       DEF SubmitOrder, HookInv, TypeOK
  <2>3. JobsInv'
    BY <1>1, <1>i, WorkerSets, JobsFrame DEF SubmitOrder, TypeOK
  <2> QED
    BY <2>1, <2>2, <2>3 DEF SerialInv
<1>2. ASSUME NEW o \in Orders, AdminApprove(o) \/ AdminDeny(o)
      PROVE  FALSE
  BY <1>2 DEF AdminApprove, AdminDeny, Serial
<1>3. ASSUME NEW o \in Orders, CompleteOrder(o)
      PROVE  SerialInv'
  <2>0. Launched(o) /\ status[o] = "ACTIVE"
    BY <1>3 DEF CompleteOrder, Launched
  <2>1. HookInv'
    BY <1>3, <2>0, <1>i, HookFrame DEF CompleteOrder, Complete, HookInv, TypeOK
  <2>2. PollInv'
    BY <1>3, <2>0, <1>i, WorkerSets, SameStored, SameLaunched
       DEF CompleteOrder, Complete, PollInv, TypeOK
  <2>3. JobsInv'
    BY <1>3, <2>0, <1>i, WorkerSets, JobsFrame DEF CompleteOrder, Complete, TypeOK
  <2> QED
    BY <2>1, <2>2, <2>3 DEF SerialInv
<1>4. ASSUME NEW o \in Orders, SnowDecide(o) \/ SnowRevise(o) \/ SnowDelete(o)
      PROVE  SerialInv'
  <2>1. UNCHANGED <<orderVars, workVars>>
    BY <1>4 DEF SnowDecide, SnowRevise, SnowDelete, Decide
  <2> QED
    BY <2>1, <1>i, HookFrame, PollFrame, JobsFrame, SameStored, SameLaunched DEF SerialInv
<1>5. ASSUME NEW o \in Orders, AutoApproveOther(o)
      PROVE  SerialInv'
  <2>1. /\ pc[o] = "submit" /\ status[o] = "PENDING" /\ ~Stored(o) /\ ~Launched(o)
        /\ UNCHANGED <<hasSysId, queue, todo>>
        /\ jobs' = [i \in Items |-> jobs[i] + Plan(o)[i]]
    BY <1>5, <1>i DEF AutoApproveOther, PlatformApprove, HookInv, JobsInv
  <2>2. /\ \A x \in Orders : x # o => status'[x] = status[x] /\ pc'[x] = pc[x]
                                      /\ found'[x] = found[x]
        /\ pc'[o] = "done"
        /\ status'[o] \in {"ACTIVE", "SUCCESS"}
        /\ \A p \in Pollers : pc'[p] = pc[p] /\ cur'[p] = cur[p]
    BY <1>5, WorkerSets DEF AutoApproveOther, PlatformApprove, Complete, Leave, TypeOK
  <2>3. /\ \A i \in Items : OrderOf[i] # o => jobs'[i] = jobs[i]
        /\ \A i \in Items : OrderOf[i] = o => jobs'[i] = JobsFor(i)
    <3>1. \A i \in Items : OrderOf[i] = o => jobs[i] = 0
      BY <2>1 DEF Launched, ItemsOf, TypeOK
    <3> QED
      BY <2>1, <3>1, JobsForType DEF Plan, TypeOK
  <2>4. \A x \in Orders : x # o => (Launched(x)' <=> Launched(x))
    BY <2>3 DEF Launched, ItemsOf
  <2>5. HookInv'
    BY <2>1, <2>2, <1>i, SameStored DEF HookInv
  <2>6. PollInv'
    BY <2>1, <2>2, <2>4, <1>i, SameStored, PollFrame
  <2>7. NoDuplicateJobs'
    BY <2>3, <1>i, JobsForType DEF JobsInv, NoDuplicateJobs
  <2>8. \A p \in Pollers : pc[p] = "launch" => cur[p] # o
    BY <2>1, <1>i DEF PollInv
  <2>9. JobsInv'
    BY <2>1, <2>2, <2>3, <2>4, <2>7, <2>8, <1>i DEF JobsInv
  <2> QED
    BY <2>5, <2>6, <2>9 DEF SerialInv
<1>6. ASSUME NEW o \in Orders, GetSysidForUsers(o) \/ CreateServiceRequest(o)
      PROVE  SerialInv'
  <2>1. /\ UNCHANGED <<orderVars, queue, todo>>
        /\ \A p \in Pollers : pc'[p] = pc[p] /\ cur'[p] = cur[p]
    BY <1>6, WorkerSets DEF GetSysidForUsers, CreateServiceRequest, Leave, TypeOK
  <2>2. HookInv'
    BY <1>6, <2>1, <1>i, WorkerSets, SameStored
       DEF GetSysidForUsers, CreateServiceRequest, Leave, HookInv, TypeOK, Serial
  <2> QED
    BY <2>1, <2>2, <1>i, PollFrame, JobsFrame, SameStored, SameLaunched DEF SerialInv
<1>7. ASSUME NEW o \in Orders, AddServicenowInfoToOi(o)
      PROVE  SerialInv'
  <2>1. /\ UNCHANGED <<status, jobs, queue, todo>>
        /\ \A p \in Pollers : pc'[p] = pc[p] /\ cur'[p] = cur[p]
    BY <1>7, WorkerSets DEF AddServicenowInfoToOi, Leave, TypeOK
  <2>2. /\ pc[o] = "store" /\ found[o] # "approved"
        /\ pc'[o] \in {"store", "done"}
        /\ pc'[o] = "store" => found'[o] = found[o]
        /\ \A x \in Orders : x # o => pc'[x] = pc[x] /\ found'[x] = found[x]
    BY <1>7, <1>i, WorkerSets DEF AddServicenowInfoToOi, Leave, HookInv, TypeOK
  <2>3. \A x \in Orders : /\ Stored(x) => Stored(x)'
                          /\ x # o => (Stored(x)' <=> Stored(x))
    BY <1>7 DEF AddServicenowInfoToOi, Stored, Targets, OfKind, ItemsOf
  <2>4. HookInv'
    BY <2>1, <2>2, <2>3, <1>i DEF HookInv
  <2> QED
    BY <2>1, <2>3, <2>4, <1>i, PollFrame, JobsFrame, SameLaunched DEF SerialInv
<1>8. ASSUME NEW o \in Orders, CloseRequest(o)
      PROVE  SerialInv'
  BY <1>8, <1>i, HookFrame, PollFrame, JobsFrame, SameStored, SameLaunched
     DEF CloseRequest, SerialInv
<1>9. ASSUME NEW p \in Pollers
      PROVE  \A q \in Pollers : q = p
  BY DEF Serial
<1>10. ASSUME NEW p \in Pollers, GetPendingSmoiOrders(p) \/ GetPendingBpoiOrders(p)
       PROVE  SerialInv'
  <2>1. /\ UNCHANGED <<orderVars, cur, found, todo>>
        /\ pc[p] \in {"idle", "query"} /\ pc'[p] \in {"query", "idle", "loop"}
        /\ \A o \in Orders : pc'[o] = pc[o]
    BY <1>10, WorkerSets DEF GetPendingSmoiOrders, GetPendingBpoiOrders, TypeOK
  <2>2. \A o \in queue'[p] : o \in queue[p] \/ (Stored(o) /\ status[o] = "PENDING")
    <3>1. \A k : \A o \in PendingOrders(k) : Stored(o) /\ status[o] = "PENDING"
      BY DEF PendingOrders, Stored, OfKind
    <3>2. \E k : \A o \in queue'[p] : o \in queue[p] \/ o \in PendingOrders(k)
      <4>1. CASE GetPendingSmoiOrders(p)
        BY <4>1 DEF GetPendingSmoiOrders, TypeOK
      <4>2. CASE GetPendingBpoiOrders(p)
        BY <4>2 DEF GetPendingBpoiOrders, TypeOK
      <4> QED
        BY <1>10, <4>1, <4>2
    <3>3. PICK k : \A o \in queue'[p] : o \in queue[p] \/ o \in PendingOrders(k)
      BY <3>2
    <3>4. \A o \in PendingOrders(k) : Stored(o) /\ status[o] = "PENDING"
      BY <3>1
    <3> QED
      BY <3>3, <3>4
  <2>3. HookInv'
    BY <2>1, <1>i, HookFrame
  <2>4. PollInv'
    BY <2>1, <2>2, <1>i, <1>9, SameStored DEF PollInv
  <2>5. JobsInv'
    BY <2>1, <1>i, <1>9, SameLaunched DEF JobsInv, NoDuplicateJobs
  <2> QED
    BY <2>3, <2>4, <2>5 DEF SerialInv
<1>11. ASSUME NEW p \in Pollers, NEW o \in Orders, GetApprovalStatus(p, o)
       PROVE  SerialInv'
  <2>1. /\ UNCHANGED <<orderVars, todo>>
        /\ o \in queue[p] /\ queue' = [queue EXCEPT ![p] = @ \ {o}]
        /\ pc[p] = "loop" /\ pc'[p] = "apply" /\ cur'[p] = o
        /\ \A x \in Orders : pc'[x] = pc[x] /\ found'[x] = found[x]
    BY <1>11, WorkerSets DEF GetApprovalStatus, NextUp, TypeOK
  <2>2. HookInv'
    BY <2>1, <1>i, HookFrame
  <2>3. PollInv'
    BY <2>1, <1>i, <1>9, SameStored DEF PollInv, TypeOK
  <2>4. JobsInv'
    BY <2>1, <1>i, <1>9, SameLaunched DEF JobsInv, NoDuplicateJobs
  <2> QED
    BY <2>2, <2>3, <2>4 DEF SerialInv
<1>12. ASSUME NEW p \in Pollers, Leave(p, queue[p]) \/ Leave(p, {}),
              UNCHANGED <<hasSysId, jobs>>,
              queue' = queue \/ queue' = [q \in Pollers |-> {}],
              todo'[p] = NoJobs,
              \A x \in Orders : x # cur[p] => status'[x] = status[x],
              (Stored(cur[p]) /\ cur[p] \notin queue[p]) \/ status' = status,
              status'[cur[p]] \in {"CART", "PENDING"} /\ cur[p] \in Orders
                 => ~Launched(cur[p])
       PROVE  SerialInv'
  <2>1. /\ pc'[p] \in {"idle", "loop"}
        /\ \A x \in Orders : pc'[x] = pc[x] /\ found'[x] = found[x]
    BY <1>12, WorkerSets DEF Leave, TypeOK
  <2>2. HookInv'
    BY <2>1, <1>12, <1>i, HookFrame DEF HookInv
  <2>3. PollInv'
    BY <2>1, <1>12, <1>i, <1>9, SameStored DEF PollInv, TypeOK
  <2>4. JobsInv'
    BY <2>1, <1>12, <1>i, <1>9, SameLaunched DEF JobsInv, NoDuplicateJobs, NoJobs
  <2> QED
    BY <2>2, <2>3, <2>4 DEF SerialInv
<1>13. ASSUME NEW p \in Pollers, pc[p] # "launch"
       PROVE  todo[p] = NoJobs
  BY <1>13, <1>i, WorkerSets DEF JobsInv, NoJobs, TypeOK
<1>14. ASSUME NEW p \in Pollers, Stop(p)
       PROVE  /\ Leave(p, {}) /\ todo'[p] = NoJobs
              /\ queue' = [q \in Pollers |-> {}]
  BY <1>14, <1>9, WorkerSets DEF Stop, TypeOK
<1>15. ASSUME NEW p \in Pollers, NEW o \in Orders, LookupFails(p, o)
       PROVE  SerialInv'
  <2>1. Stop(p) /\ UNCHANGED orderVars /\ pc[p] = "loop"
    BY <1>15 DEF LookupFails
  <2> QED
    BY <2>1, <1>12, <1>14, <1>i DEF JobsInv
<1>16. ASSUME NEW p \in Pollers, LeavePending(p)
       PROVE  SerialInv'
  <2>1. Leave(p, queue[p]) /\ UNCHANGED <<orderVars, queue, todo>> /\ pc[p] = "apply"
    BY <1>16 DEF LeavePending
  <2> QED
    BY <2>1, <1>12, <1>13, <1>i DEF JobsInv
<1>17. ASSUME NEW p \in Pollers, RejectOrder(p) \/ CancelOrder(p)
       PROVE  SerialInv'
  <2>1. PICK s \in {"DENIED", "CANCELED"} :
           /\ pc[p] = "apply" /\ Leave(p, queue[p])
           /\ status' = [status EXCEPT ![cur[p]] = s]
           /\ UNCHANGED <<hasSysId, jobs, queue, todo>>
    BY <1>17 DEF RejectOrder, CancelOrder, Refuse
  <2>2. cur[p] \in Orders /\ Stored(cur[p]) /\ cur[p] \notin queue[p]
    BY <2>1, <1>i, WorkerSets DEF PollInv, TypeOK, Busy
  <2> QED
    BY <2>1, <2>2, <1>12, <1>13 DEF TypeOK
<1>18. ASSUME NEW w \in Workers, ApproveOrder(w)
       PROVE  SerialInv'
  <2>1. /\ w \in Pollers /\ cur[w] \in Orders /\ pc[w] = "apply"
        /\ Stored(cur[w]) /\ cur[w] \notin queue[w] /\ status[cur[w]] = "PENDING"
        /\ ~Launched(cur[w])
    BY <1>18, <1>i DEF ApproveOrder, Workers, HookInv, PollInv, JobsInv, TypeOK, Busy
  <2>2. /\ UNCHANGED <<hasSysId, jobs, queue, cur, found, todo>>
        /\ status' = [status EXCEPT ![cur[w]] = "ACTIVE"]
        /\ pc'[w] = "hooks" /\ \A x \in Orders : pc'[x] = pc[x]
    BY <1>18, <2>1, WorkerSets DEF ApproveOrder, TypeOK
  <2>3. HookInv'
    BY <2>1, <2>2, <1>i, HookFrame DEF HookInv, TypeOK
  <2>4. PollInv'
    BY <2>1, <2>2, <1>i, <1>9, SameStored, SameLaunched DEF PollInv, TypeOK
  <2>5. JobsInv'
    BY <2>1, <2>2, <1>i, <1>9, SameLaunched DEF JobsInv, NoDuplicateJobs, TypeOK
  <2> QED
    BY <2>3, <2>4, <2>5 DEF SerialInv
<1>19. ASSUME NEW p \in Pollers, HooksPass(p)
       PROVE  SerialInv'
  <2>1. /\ pc[p] = "hooks" /\ cur[p] \in Orders
        /\ status[cur[p]] = "ACTIVE" /\ ~Launched(cur[p])
        /\ UNCHANGED <<orderVars, queue, cur, found>>
        /\ pc'[p] = "launch" /\ \A x \in Orders : pc'[x] = pc[x]
        /\ todo'[p] = Plan(cur[p])
    BY <1>19, <1>i, WorkerSets DEF HooksPass, Launch, PollInv, TypeOK, Busy
  <2>2. HookInv'
    BY <2>1, <1>i, HookFrame
  <2>3. PollInv'
    BY <2>1, <1>i, <1>9, SameStored, SameLaunched DEF PollInv, TypeOK
  <2>4. \A i \in Items : OrderOf[i] = cur[p] => jobs[i] = 0
    BY <2>1 DEF Launched, ItemsOf, TypeOK
  <2>5. \A i \in Items : todo'[p][i] = IF OrderOf[i] = cur[p] THEN JobsFor(i) ELSE 0
    BY <2>1 DEF Plan
  <2>6. JobsInv'
    BY <2>1, <2>4, <2>5, <1>i, <1>9, JobsForType, SameLaunched
       DEF JobsInv, NoDuplicateJobs, TypeOK
  <2> QED
    BY <2>2, <2>3, <2>6 DEF SerialInv
<1>20. ASSUME NEW p \in Pollers, HooksFail(p)
       PROVE  SerialInv'
  <2>1. /\ pc[p] = "hooks" /\ cur[p] \in Orders
        /\ Stored(cur[p]) /\ cur[p] \notin queue[p]
        /\ status' = [status EXCEPT ![cur[p]] = "FAILURE"]
        /\ Stop(p) /\ UNCHANGED <<hasSysId, jobs>>
    BY <1>20, <1>i, WorkerSets DEF HooksFail, PollInv, TypeOK, Busy
  <2> QED
    BY <2>1, <1>12, <1>14 DEF TypeOK
<1>21. ASSUME NEW p \in Pollers, HooksRepend(p)
       PROVE  SerialInv'
  <2>1. /\ pc[p] = "hooks" /\ cur[p] \in Orders /\ ~Launched(cur[p])
        /\ Stored(cur[p]) /\ cur[p] \notin queue[p]
        /\ status' = [status EXCEPT ![cur[p]] = "PENDING"]
        /\ Leave(p, queue[p]) /\ UNCHANGED <<hasSysId, jobs, queue, todo>>
    BY <1>21, <1>i, WorkerSets DEF HooksRepend, PollInv, TypeOK, Busy, Serial
  <2> QED
    BY <2>1, <1>12, <1>13 DEF TypeOK
<1>22. ASSUME NEW w \in Workers, SaveJob(w)
       PROVE  SerialInv'
  <2>1. w \in Pollers /\ pc[w] = "launch" /\ cur[w] \in Orders
    BY <1>22, <1>i DEF SaveJob, Workers, HookInv, TypeOK, Busy
  <2>2. PICK i \in Items : /\ todo[w][i] > 0
                           /\ todo' = [todo EXCEPT ![w][i] = @ - 1]
                           /\ jobs' = [jobs EXCEPT ![i] = @ + 1]
    BY <1>22 DEF SaveJob
  <2>3. /\ UNCHANGED <<status, hasSysId, pc, queue, cur, found>>
        /\ OrderOf[i] = cur[w] /\ jobs[i] + todo[w][i] <= JobsFor(i)
        /\ jobs[i] \in Nat /\ todo[w][i] \in Nat
        /\ jobs'[i] = jobs[i] + 1 /\ todo'[w][i] = todo[w][i] - 1
        /\ \A j \in Items : j # i => jobs'[j] = jobs[j] /\ todo'[w][j] = todo[w][j]
    BY <1>22, <2>1, <2>2, <1>i DEF SaveJob, JobsInv, TypeOK
  <2>4. /\ Launched(cur[w])'
        /\ \A x \in Orders : x # cur[w] => (Launched(x)' <=> Launched(x))
    BY <2>1, <2>3 DEF Launched, ItemsOf
  <2>5. HookInv'
    BY <2>3, <1>i, HookFrame
  <2>6. PollInv'
    BY <2>1, <2>3, <2>4, <1>i, <1>9, SameStored DEF PollInv
  <2>7. NoDuplicateJobs'
    BY <2>2, <2>3, <1>i, JobsForType DEF JobsInv, NoDuplicateJobs
  <2>8. status[cur[w]] \notin {"CART", "PENDING"}
    BY <2>1, <1>i DEF PollInv
  <2>9. JobsInv'
    BY <2>1, <2>3, <2>4, <2>7, <2>8, <1>i, <1>9, JobsForType DEF JobsInv
  <2> QED
    BY <2>5, <2>6, <2>9 DEF SerialInv
<1>23. ASSUME NEW w \in Workers, FinishApproval(w)
       PROVE  SerialInv'
  <2>1. w \in Pollers /\ pc[w] = "launch" /\ cur[w] \in Orders
        /\ Stored(cur[w]) /\ cur[w] \notin queue[w]
        /\ status[cur[w]] \notin {"CART", "PENDING"}
    BY <1>23, <1>i DEF FinishApproval, Workers, HookInv, PollInv, TypeOK, Busy
  <2>2. /\ UNCHANGED <<hasSysId, jobs, queue, todo>>
        /\ todo[w] = NoJobs /\ Leave(w, queue[w])
        /\ status' = status \/ status' = [status EXCEPT ![cur[w]] = "SUCCESS"]
    BY <1>23, <2>1 DEF FinishApproval, Complete, Rest
  <2> QED
    BY <2>1, <2>2, <1>12 DEF TypeOK
<1>24. ASSUME NEW w \in Workers, Crash(w)
       PROVE  SerialInv'
  <2>1. Stop(w) /\ UNCHANGED orderVars
    BY <1>24 DEF Crash
  <2>2. CASE w \in Pollers
    BY <2>1, <2>2, <1>12, <1>14, <1>i DEF JobsInv
  <2>3. CASE w \in Orders
    <3>1. /\ pc'[w] = "done"
          /\ \A x \in Workers : x # w => /\ pc'[x] = pc[x] /\ cur'[x] = cur[x]
                                         /\ found'[x] = found[x] /\ todo'[x] = todo[x]
          /\ UNCHANGED queue
      BY <2>1, <2>3, WorkerSets DEF Stop, Leave, TypeOK
    <3>2. HookInv'
      BY <2>1, <2>3, <3>1, <1>i, WorkerSets, SameStored DEF HookInv
    <3>3. PollInv'
      BY <2>1, <2>3, <3>1, <1>i, WorkerSets, SameStored, SameLaunched, PollFrame
    <3>4. JobsInv'
      BY <2>1, <2>3, <3>1, <1>i, WorkerSets, SameLaunched DEF JobsInv, NoDuplicateJobs
    <3> QED
      BY <3>2, <3>3, <3>4 DEF SerialInv
  <2> QED
    BY <2>2, <2>3 DEF Workers
<1>25. CASE UNCHANGED vars
  BY <1>25, <1>i, HookFrame, PollFrame, JobsFrame, SameStored, SameLaunched
     DEF vars, SerialInv
<1> QED
  BY <1>1, <1>2, <1>3, <1>4, <1>5, <1>6, <1>7, <1>8, <1>10, <1>11, <1>15, <1>16,
     <1>17, <1>18, <1>19, <1>20, <1>21, <1>22, <1>23, <1>24, <1>25
     DEF Next, Environment, Hook, Poll, Approve

\* An execution that is alone in deciding orders, one at a time, never saves more
\* jobs for an item than its quantity, across crashes, re-pended orders and
\* requests that change their verdict.
THEOREM JobsSavedOnce == ASSUME Serial PROVE Spec => []NoDuplicateJobs
<1>1. Init => TypeOK /\ SerialInv
  BY InitTypeOK, InitSerial
<1>2. TypeOK /\ SerialInv /\ [Next]_vars => TypeOK' /\ SerialInv'
  BY NextTypeOK, NextSerial
<1>3. SerialInv => NoDuplicateJobs
  BY DEF SerialInv, JobsInv
<1> QED
  BY <1>1, <1>2, <1>3, PTL DEF Spec

-----------------------------------------------------------------------------
(* Implementation of OrderLifecycle. *)

LEMMA UnlaunchedIs ==
    ASSUME TypeOK
    PROVE  \A o : Lifecycle!Unlaunched(o) <=> ~Launched(o)
BY DEF Lifecycle!Unlaunched, Lifecycle!ItemsOf, Launched, ItemsOf, TypeOK

LEMMA InitLifecycle == Init => Lifecycle!Init
BY DEF Init, Lifecycle!Init, NoJobs

\* The moves of the lifecycle that the steps below are mapped to.
LEMMA MoveSteps ==
    ASSUME NEW o \in Orders, NEW s, NEW t, Lifecycle!Move(o, s, t),
           \/ s = "CART" /\ t = "PENDING"
           \/ /\ Lifecycle!Unlaunched(o)
              /\ \/ s = "PENDING" /\ t \in {"ACTIVE", "DENIED", "CANCELED"}
                 \/ s = "ACTIVE"  /\ t \in {"PENDING", "FAILURE"}
           \/ /\ \/ ~Lifecycle!Unlaunched(o)
                 \/ \A i \in ItemsOf(o) : JobsFor(i) = 0
              /\ s = "ACTIVE" /\ t \in {"SUCCESS", "FAILURE"}
    PROVE  Lifecycle!Next
BY DEF Lifecycle!Next, Lifecycle!Submit, Lifecycle!Approve, Lifecycle!Refuse,
       Lifecycle!Repend, Lifecycle!Fail, Lifecycle!Complete, Lifecycle!ItemsOf, ItemsOf

LEMMA NextLifecycle ==
    ASSUME Serial
    PROVE  TypeOK /\ SerialInv /\ [Next]_vars => [Lifecycle!Next]_<<status, jobs>>
<1> SUFFICES ASSUME TypeOK, SerialInv, [Next]_vars
             PROVE  Lifecycle!Next \/ UNCHANGED <<status, jobs>>
  OBVIOUS
<1>i. HookInv /\ PollInv /\ JobsInv
  BY DEF SerialInv
<1>m. ASSUME NEW o \in Orders, NEW t, status' = [status EXCEPT ![o] = t], jobs' = jobs
      PROVE  Lifecycle!Move(o, status[o], t)
  BY <1>m DEF Lifecycle!Move
<1> USE DEF orderVars, snowVars, workVars
<1>1. ASSUME NEW o \in Orders, Environment(o), status' # status \/ jobs' # jobs
      PROVE  Lifecycle!Next
  <2>1. CASE SubmitOrder(o)
    BY <2>1, <1>m, MoveSteps DEF SubmitOrder
  <2>2. CASE AdminApprove(o) \/ AdminDeny(o)
    BY <2>2 DEF AdminApprove, AdminDeny, Serial
  <2>3. CASE CompleteOrder(o)
    <3>1. status[o] = "ACTIVE" /\ Launched(o)
      BY <2>3 DEF CompleteOrder, Launched
    <3> QED
      BY <2>3, <3>1, <1>m, MoveSteps, UnlaunchedIs DEF CompleteOrder, Complete
  <2>4. CASE SnowDecide(o) \/ SnowRevise(o) \/ SnowDelete(o)
    BY <2>4, <1>1 DEF SnowDecide, SnowRevise, SnowDelete, Decide
  <2> QED
    BY <1>1, <2>1, <2>2, <2>3, <2>4 DEF Environment
<1>2. ASSUME NEW o \in Orders, AutoApproveOther(o)
      PROVE  Lifecycle!Next
  <2>1. status[o] = "PENDING" /\ ~Launched(o)
    BY <1>2, <1>i DEF AutoApproveOther, HookInv, JobsInv
  <2>2. \A i \in Items : OrderOf[i] = o => jobs[i] = 0
    BY <2>1 DEF Launched, ItemsOf, TypeOK
  <2>3. jobs' = [i \in Items |-> IF OrderOf[i] = o
                                 THEN [j \in Items |-> JobsFor(j)][i] ELSE jobs[i]]
    BY <1>2, <2>2, JobsForType DEF AutoApproveOther, PlatformApprove, Plan, TypeOK
  <2>4. status' = [status EXCEPT ![o] =
                     IF \A i \in Lifecycle!ItemsOf(o) : [j \in Items |-> JobsFor(j)][i] = 0
                     THEN "SUCCESS" ELSE "ACTIVE"]
    BY <1>2 DEF AutoApproveOther, PlatformApprove, Complete, ItemsOf, Lifecycle!ItemsOf
  <2>5. Lifecycle!ApproveAndLaunch(o)
    BY <2>1, <2>3, <2>4, UnlaunchedIs DEF Lifecycle!ApproveAndLaunch
  <2> QED
    BY <2>5 DEF Lifecycle!Next
<1>3. ASSUME NEW o \in Orders, Hook(o) \/ CloseRequest(o), ~AutoApproveOther(o)
      PROVE  UNCHANGED <<status, jobs>>
  BY <1>3 DEF Hook, GetSysidForUsers, CreateServiceRequest, AddServicenowInfoToOi,
              CloseRequest
<1>4. ASSUME NEW p \in Pollers, pc[p] \in {"apply", "hooks", "launch"}
      PROVE  /\ cur[p] \in Orders
             /\ pc[p] = "apply" => status[cur[p]] = "PENDING" /\ ~Launched(cur[p])
             /\ pc[p] = "hooks" => status[cur[p]] = "ACTIVE" /\ ~Launched(cur[p])
  BY <1>4, <1>i, WorkerSets DEF PollInv, JobsInv, TypeOK, Busy
<1>5. ASSUME NEW p \in Pollers, Poll(p), status' # status \/ jobs' # jobs
      PROVE  Lifecycle!Next
  <2>1. CASE RejectOrder(p) \/ CancelOrder(p)
    BY <2>1, <1>4, <1>m, MoveSteps, UnlaunchedIs DEF RejectOrder, CancelOrder, Refuse
  <2>2. CASE HooksFail(p) \/ HooksRepend(p)
    BY <2>2, <1>4, <1>m, MoveSteps, UnlaunchedIs DEF HooksFail, HooksRepend
  <2>3. CASE ~(RejectOrder(p) \/ CancelOrder(p) \/ HooksFail(p) \/ HooksRepend(p))
    BY <2>3, <1>5 DEF Poll, GetPendingSmoiOrders, GetPendingBpoiOrders,
                      GetApprovalStatus, LookupFails, LeavePending, HooksPass
  <2> QED
    BY <2>1, <2>2, <2>3
<1>6. ASSUME NEW w \in Workers, Approve(w)
      PROVE  w \in Pollers
  BY <1>6, <1>i DEF Approve, ApproveOrder, SaveJob, FinishApproval, Workers, HookInv
<1>7. ASSUME NEW p \in Pollers, ApproveOrder(p)
      PROVE  Lifecycle!Next
  BY <1>7, <1>4, <1>m, MoveSteps, UnlaunchedIs DEF ApproveOrder
<1>8. ASSUME NEW p \in Pollers, SaveJob(p)
      PROVE  Lifecycle!Next
  <2>1. PICK i \in Items : todo[p][i] > 0 /\ jobs' = [jobs EXCEPT ![i] = @ + 1]
    BY <1>8 DEF SaveJob
  <2>2. /\ pc[p] = "launch" /\ OrderOf[i] = cur[p] /\ cur[p] \in Orders
        /\ status' = status
    BY <1>8, <2>1, <1>4, <1>i DEF SaveJob, JobsInv
  <2>3. jobs[i] < JobsFor(i)
    BY <2>1, <2>2, <1>i, WorkerSets, JobsForType DEF JobsInv, TypeOK
  <2>4. \/ status[OrderOf[i]] = "ACTIVE"
        \/ /\ status[OrderOf[i]] \in {"SUCCESS", "FAILURE"}
           /\ ~Lifecycle!Unlaunched(OrderOf[i])
    BY <2>2, <1>i, UnlaunchedIs DEF PollInv
  <2>5. Lifecycle!Launch(i)
    BY <2>1, <2>2, <2>3, <2>4 DEF Lifecycle!Launch
  <2> QED
    BY <2>5 DEF Lifecycle!Next
<1>9. ASSUME NEW p \in Pollers, FinishApproval(p), status' # status \/ jobs' # jobs
      PROVE  Lifecycle!Next
  <2>1. /\ \A i \in ItemsOf(cur[p]) : JobsFor(i) = 0
        /\ status' = [status EXCEPT ![cur[p]] = "SUCCESS"]
        /\ jobs' = jobs /\ pc[p] = "launch"
    BY <1>9 DEF FinishApproval, Complete
  <2>2. ~Launched(cur[p])
    BY <2>1, <1>i DEF JobsInv, NoDuplicateJobs, Launched, ItemsOf, TypeOK
  <2>3. cur[p] \in Orders /\ status[cur[p]] = "ACTIVE"
    BY <2>1, <2>2, <1>4, <1>i DEF PollInv
  <2> QED
    BY <2>1, <2>3, <1>m, MoveSteps
<1>10. ASSUME NEW w \in Workers, Crash(w)
       PROVE  UNCHANGED <<status, jobs>>
  BY <1>10 DEF Crash
<1>11. CASE UNCHANGED vars
  BY <1>11 DEF vars
<1> QED
  BY <1>1, <1>2, <1>3, <1>5, <1>6, <1>7, <1>8, <1>9, <1>10, <1>11 DEF Next, Approve

\* The approval of orders implements OrderLifecycle as long as one execution at
\* a time decides: each PENDING order is decided once, launched at most once and
\* only after a positive decision, and a refusal or a completion is final.
THEOREM LifecycleImplemented == ASSUME Serial PROVE Spec => ImplementsLifecycle
<1>1. Init => TypeOK /\ SerialInv /\ Lifecycle!Init
  BY InitTypeOK, InitSerial, InitLifecycle
<1>2. TypeOK /\ SerialInv /\ [Next]_vars => TypeOK' /\ SerialInv'
  BY NextTypeOK, NextSerial
<1>3. TypeOK /\ SerialInv /\ [Next]_vars => [Lifecycle!Next]_<<status, jobs>>
  BY NextLifecycle
<1> QED
  BY <1>1, <1>2, <1>3, PTL DEF Spec, ImplementsLifecycle, Lifecycle!Spec, Lifecycle!vars

-----------------------------------------------------------------------------
(* What a closed request says of its order stays true. *)

Final == {"SUCCESS", "FAILURE", "DENIED"}

\* What the post-order hook is to report is the status of the order.
CloseInv == /\ \A o \in Orders : closeDue[o] # "no" => status[o] = closeDue[o]
            /\ ClosedMatchesOrder

LEMMA InitClose == Init => CloseInv
BY DEF Init, CloseInv, ClosedMatchesOrder

\* A status that a request is closed with is final: the lifecycle has no step
\* that leaves it.
LEMMA FinalStays ==
    ASSUME TypeOK, [Lifecycle!Next]_<<status, jobs>>, NEW o \in Orders, status[o] \in Final
    PROVE  status'[o] = status[o]
<1>1. ASSUME NEW x \in Orders, NEW s \in {"CART", "PENDING", "ACTIVE"}, NEW t,
             Lifecycle!Move(x, s, t)
      PROVE  status'[o] = status[o]
  BY <1>1 DEF Lifecycle!Move, TypeOK, Final
<1>2. ASSUME NEW x \in Orders, Lifecycle!ApproveAndLaunch(x)
      PROVE  status'[o] = status[o]
  BY <1>2 DEF Lifecycle!ApproveAndLaunch, TypeOK, Final
<1>3. ASSUME NEW i \in Items, Lifecycle!Launch(i)
      PROVE  status'[o] = status[o]
  BY <1>3 DEF Lifecycle!Launch
<1> QED
  BY <1>1, <1>2, <1>3
     DEF Lifecycle!Next, Lifecycle!Submit, Lifecycle!Approve, Lifecycle!Refuse,
         Lifecycle!Repend, Lifecycle!Fail, Lifecycle!Complete

\* The hook becomes due with the order's new status, and closes the request with
\* the status it was due with.
Closing(o) ==
    /\ \/ closeDue'[o] = closeDue[o]
       \/ closeDue'[o] = "no"
       \/ closeDue'[o] = status'[o]
    /\ \/ reqState'[o] = reqState[o]
       \/ closeDue[o] # "no" /\ reqState'[o] = ClosedState(closeDue[o])

LEMMA NextClosing == ASSUME TypeOK, [Next]_vars, NEW o \in Orders
                     PROVE  Closing(o)
<1> USE DEF orderVars, snowVars, workVars
<1>1. ASSUME UNCHANGED <<closeDue, reqState>>
      PROVE  Closing(o)
  BY <1>1 DEF Closing
<1>2. ASSUME NEW x \in Orders, NEW s, Complete(x, s), UNCHANGED reqState
      PROVE  Closing(o)
  BY <1>2 DEF Complete, Closing, TypeOK
<1>3. ASSUME NEW x \in Orders, PlatformApprove(x)
      PROVE  Closing(o)
  <2>1. UNCHANGED reqState
    BY <1>3 DEF PlatformApprove, DecidedByPlatform
  <2> QED
    BY <1>1, <1>2, <1>3, <2>1 DEF PlatformApprove
<1>4. ASSUME NEW x \in Orders, CloseRequest(x)
      PROVE  Closing(o)
  BY <1>4 DEF CloseRequest, Closing, TypeOK
<1>5. ASSUME NEW x \in Orders, Environment(x)
      PROVE  Closing(o)
  <2>1. CASE AdminApprove(x) \/ AdminDeny(x) \/ CompleteOrder(x)
    BY <1>2, <1>3, <2>1 DEF AdminApprove, AdminDeny, CompleteOrder, DecidedByPlatform
  <2>2. CASE ~(AdminApprove(x) \/ AdminDeny(x) \/ CompleteOrder(x))
    BY <1>1, <1>5, <2>2 DEF Environment, SubmitOrder, SnowDecide, SnowRevise, SnowDelete, Decide
  <2> QED
    BY <2>1, <2>2
<1>6. ASSUME NEW x \in Orders, Hook(x)
      PROVE  Closing(o)
  BY <1>1, <1>3, <1>6 DEF Hook, AutoApproveOther, GetSysidForUsers, CreateServiceRequest,
                          AddServicenowInfoToOi
<1>7. ASSUME NEW p \in Pollers, Poll(p)
      PROVE  Closing(o)
  BY <1>1, <1>7 DEF Poll, GetPendingSmoiOrders, GetPendingBpoiOrders, GetApprovalStatus,
                    LookupFails, LeavePending, RejectOrder, CancelOrder, Refuse, HooksPass,
                    HooksFail, HooksRepend
<1>8. ASSUME NEW w \in Workers, Approve(w) \/ Crash(w)
      PROVE  Closing(o)
  <2>1. CASE FinishApproval(w)
    <3>1. cur[w] \in Orders
      BY <2>1 DEF FinishApproval, TypeOK, Busy
    <3> QED
      BY <1>1, <1>2, <2>1, <3>1 DEF FinishApproval
  <2>2. CASE ~FinishApproval(w)
    BY <1>1, <1>8, <2>2 DEF Approve, ApproveOrder, SaveJob, Crash
  <2> QED
    BY <2>1, <2>2
<1>9. CASE UNCHANGED vars
  BY <1>1, <1>9 DEF vars
<1> QED
  BY <1>4, <1>5, <1>6, <1>7, <1>8, <1>9 DEF Next

LEMMA NextClose ==
    ASSUME TypeOK, CloseInv, [Next]_vars, [Lifecycle!Next]_<<status, jobs>>
    PROVE  CloseInv'
<1>1. ASSUME NEW o \in Orders, closeDue'[o] # "no"
      PROVE  status'[o] = closeDue'[o]
  <2>1. CASE closeDue'[o] = closeDue[o]
    <3>1. status[o] = closeDue[o] /\ status[o] \in Final
      BY <1>1, <2>1 DEF CloseInv, TypeOK, Final
    <3> QED
      BY <2>1, <3>1, FinalStays
  <2> QED
    BY <1>1, <2>1, NextClosing DEF Closing
<1>2. ASSUME NEW o \in Orders
      PROVE  /\ reqState'[o] = "closed_complete"   => status'[o] = "SUCCESS"
             /\ reqState'[o] = "closed_incomplete" => status'[o] = "FAILURE"
             /\ reqState'[o] = "closed_rejected"   => status'[o] = "DENIED"
  <2>1. CASE reqState'[o] = reqState[o]
    BY <2>1, FinalStays DEF CloseInv, ClosedMatchesOrder, Final
  <2>2. CASE closeDue[o] # "no" /\ reqState'[o] = ClosedState(closeDue[o])
    <3>1. status[o] = closeDue[o] /\ closeDue[o] \in Final
      BY <2>2 DEF CloseInv, TypeOK, Final
    <3>2. status'[o] = closeDue[o]
      BY <3>1, FinalStays
    <3> QED
      BY <2>2, <3>1, <3>2 DEF ClosedState, Final
  <2> QED
    BY <2>1, <2>2, NextClosing DEF Closing
<1> QED
  BY <1>1, <1>2 DEF CloseInv, ClosedMatchesOrder

\* When one execution at a time decides orders, a request is closed with the
\* order's final status, and that stays the order's status: no later step of a
\* hook, an execution or the job engine makes the closed request wrong.
THEOREM ClosedStaysTrue == ASSUME Serial PROVE Spec => []ClosedMatchesOrder
<1>1. Init => TypeOK /\ SerialInv /\ CloseInv
  BY InitTypeOK, InitSerial, InitClose
<1>2. TypeOK /\ SerialInv /\ CloseInv /\ [Next]_vars => TypeOK' /\ SerialInv' /\ CloseInv'
  BY NextTypeOK, NextSerial, NextLifecycle, NextClose
<1>3. CloseInv => ClosedMatchesOrder
  BY DEF CloseInv
<1> QED
  BY <1>1, <1>2, <1>3, PTL DEF Spec

-----------------------------------------------------------------------------
(* No order stays half launched, unless a worker dies. *)

\* Worker w launches order o and has exactly the missing jobs to save.
Owns(w, o) == /\ Launching(w, o)
              /\ \A i \in ItemsOf(o) : jobs[i] = IF pc[w] = "hooks" THEN 0
                                                 ELSE JobsFor(i) - todo[w][i]

OwnedOrder(o) == \/ \A i \in ItemsOf(o) : jobs[i] = JobsFor(i)
                 \/ \E w \in Workers : Owns(w, o)

LEMMA OwnedIs ==
    LaunchedOrOwned <=>
       \A o \in Orders : status[o] = "ACTIVE" /\ approvedBy[o] = "snow" => OwnedOrder(o)
BY DEF LaunchedOrOwned, OwnedOrder, Owns

\* A step that leaves the launches of an order alone.
LEMMA OwnedFrame ==
    ASSUME NEW o \in Orders, OwnedOrder(o),
           \A i \in ItemsOf(o) : jobs'[i] = jobs[i],
           \A w \in Workers : Launching(w, o) =>
              pc'[w] = pc[w] /\ cur'[w] = cur[w] /\ todo'[w] = todo[w]
    PROVE  OwnedOrder(o)'
<1>1. CASE \A i \in ItemsOf(o) : jobs[i] = JobsFor(i)
  BY <1>1 DEF OwnedOrder
<1>2. ASSUME NEW w \in Workers, Owns(w, o)
      PROVE  Owns(w, o)'
  BY <1>2 DEF Owns, Launching
<1> QED
  BY <1>1, <1>2 DEF OwnedOrder

\* A step of worker v outside a launch, or one that is no step of a worker.
LEMMA OwnedQuiet ==
    ASSUME LaunchedOrOwned, UNCHANGED jobs,
           \A o \in Orders : status'[o] = "ACTIVE" /\ approvedBy'[o] = "snow" =>
              status[o] = "ACTIVE" /\ approvedBy[o] = "snow",
           \A w \in Workers : pc[w] \in {"hooks", "launch"} =>
              pc'[w] = pc[w] /\ cur'[w] = cur[w] /\ todo'[w] = todo[w]
    PROVE  LaunchedOrOwned'
<1>1. ASSUME NEW o \in Orders, status'[o] = "ACTIVE", approvedBy'[o] = "snow"
      PROVE  OwnedOrder(o)'
  <2>1. OwnedOrder(o)
    BY <1>1, OwnedIs
  <2> QED
    BY <2>1, OwnedFrame DEF Launching
<1>2. LaunchedOrOwned' <=>
         \A o \in Orders : status'[o] = "ACTIVE" /\ approvedBy'[o] = "snow" => OwnedOrder(o)'
  BY DEF LaunchedOrOwned, OwnedOrder, Owns
<1> QED
  BY <1>1, <1>2

LEMMA NextOwned ==
    ASSUME Serial, "crash" \notin Env
    PROVE  TypeOK /\ SerialInv /\ AuthorityInv /\ LaunchedOrOwned /\ [Next]_vars
              => LaunchedOrOwned'
<1> SUFFICES ASSUME TypeOK, SerialInv, AuthorityInv, LaunchedOrOwned, [Next]_vars
             PROVE  LaunchedOrOwned'
  OBVIOUS
<1>i. HookInv /\ PollInv /\ JobsInv
  BY DEF SerialInv
<1>q. ASSUME NEW p \in Pollers, NEW q \in Pollers
      PROVE  p = q
  BY DEF Serial
<1>l. \A o \in Orders : pc[o] \notin {"hooks", "launch"}
  BY <1>i DEF HookInv
<1>p. LaunchedOrOwned' <=>
         \A o \in Orders : status'[o] = "ACTIVE" /\ approvedBy'[o] = "snow" => OwnedOrder(o)'
  BY DEF LaunchedOrOwned, OwnedOrder, Owns
<1> USE DEF orderVars, snowVars, workVars
\* A step of the submit hook of order o.
<1>1. ASSUME NEW o \in Orders, SubmitOrder(o) \/ GetSysidForUsers(o)
                                \/ CreateServiceRequest(o) \/ AddServicenowInfoToOi(o)
      PROVE  LaunchedOrOwned'
  <2>1. /\ UNCHANGED <<jobs, todo, approvedBy>>
        /\ \A w \in Workers : w # o => pc'[w] = pc[w] /\ cur'[w] = cur[w]
        /\ \A x \in Orders : status'[x] = "ACTIVE" => status[x] = "ACTIVE"
    BY <1>1, WorkerSets DEF SubmitOrder, GetSysidForUsers, CreateServiceRequest,
                            AddServicenowInfoToOi, Leave, TypeOK
  <2> QED
    BY <2>1, <1>l, OwnedQuiet
<1>2. ASSUME NEW o \in Orders, AdminApprove(o) \/ AdminDeny(o)
      PROVE  FALSE
  BY <1>2 DEF AdminApprove, AdminDeny, Serial
<1>3. ASSUME NEW o \in Orders, \/ CompleteOrder(o) \/ SnowDecide(o) \/ SnowRevise(o)
                               \/ SnowDelete(o) \/ CloseRequest(o)
      PROVE  LaunchedOrOwned'
  <2>1. /\ UNCHANGED <<jobs, workVars, approvedBy>>
        /\ \A x \in Orders : status'[x] = "ACTIVE" => status[x] = "ACTIVE"
    BY <1>3 DEF CompleteOrder, Complete, SnowDecide, SnowRevise, SnowDelete, Decide,
                CloseRequest, TypeOK
  <2> QED
    BY <2>1, OwnedQuiet
<1>4. ASSUME NEW o \in Orders, AutoApproveOther(o)
      PROVE  LaunchedOrOwned'
  <2>1. /\ approvedBy'[o] = "platform" /\ UNCHANGED todo
        /\ \A x \in Orders : x # o => status'[x] = status[x] /\ approvedBy'[x] = approvedBy[x]
        /\ \A w \in Workers : w # o => pc'[w] = pc[w] /\ cur'[w] = cur[w]
    BY <1>4, WorkerSets DEF AutoApproveOther, PlatformApprove, Complete, DecidedByPlatform,
                            Leave, TypeOK
  <2>2. ASSUME NEW x \in Orders, status'[x] = "ACTIVE", approvedBy'[x] = "snow"
        PROVE  OwnedOrder(x)'
    <3>1. x # o /\ OwnedOrder(x)
      BY <2>1, <2>2, OwnedIs
    <3>2. \A i \in ItemsOf(x) : jobs'[i] = jobs[i]
      BY <1>4, <3>1 DEF AutoApproveOther, PlatformApprove, Plan, ItemsOf, TypeOK
    <3> QED
      BY <2>1, <3>1, <3>2, <1>l, OwnedFrame DEF Launching
  <2> QED
    BY <2>2, <1>p
\* A step of the execution p outside a launch.
<1>5. ASSUME NEW p \in Pollers, pc[p] \notin {"hooks", "launch"}, UNCHANGED jobs,
             \A w \in Workers : w # p => pc'[w] = pc[w] /\ cur'[w] = cur[w]
                                          /\ todo'[w] = todo[w],
             \A x \in Orders : status'[x] = "ACTIVE" /\ approvedBy'[x] = "snow" =>
                status[x] = "ACTIVE" /\ approvedBy[x] = "snow"
      PROVE  LaunchedOrOwned'
  BY <1>5, OwnedQuiet
<1>6. ASSUME NEW p \in Pollers, \/ GetPendingSmoiOrders(p) \/ GetPendingBpoiOrders(p)
                                \/ LeavePending(p)
      PROVE  LaunchedOrOwned'
  <2>1. /\ pc[p] \notin {"hooks", "launch"} /\ UNCHANGED <<status, approvedBy, jobs, todo>>
        /\ \A w \in Workers : w # p => pc'[w] = pc[w] /\ cur'[w] = cur[w]
    BY <1>6, WorkerSets DEF GetPendingSmoiOrders, GetPendingBpoiOrders, LeavePending, Leave,
                            TypeOK
  <2> QED
    BY <2>1, <1>5
<1>7. ASSUME NEW p \in Pollers, NEW o \in Orders, GetApprovalStatus(p, o) \/ LookupFails(p, o)
      PROVE  LaunchedOrOwned'
  <2>1. /\ pc[p] \notin {"hooks", "launch"} /\ UNCHANGED <<status, approvedBy, jobs>>
        /\ \A w \in Workers : w # p => pc'[w] = pc[w] /\ cur'[w] = cur[w]
                                        /\ todo'[w] = todo[w]
    BY <1>7, WorkerSets DEF GetApprovalStatus, LookupFails, Stop, Leave, TypeOK
  <2> QED
    BY <2>1, <1>5
<1>8. ASSUME NEW p \in Pollers, RejectOrder(p) \/ CancelOrder(p)
      PROVE  LaunchedOrOwned'
  <2>1. /\ pc[p] = "apply" /\ UNCHANGED <<jobs, todo>>
        /\ \A w \in Workers : w # p => pc'[w] = pc[w] /\ cur'[w] = cur[w]
        /\ \E s \in {"DENIED", "CANCELED"} : status' = [status EXCEPT ![cur[p]] = s]
        /\ approvedBy' = [approvedBy EXCEPT ![cur[p]] = "snow"]
    BY <1>8, WorkerSets DEF RejectOrder, CancelOrder, Refuse, Leave, TypeOK
  <2> QED
    BY <2>1, <1>5 DEF TypeOK
<1>9. ASSUME NEW w \in Workers, ApproveOrder(w)
      PROVE  LaunchedOrOwned'
  <2>1. /\ w \in Pollers /\ pc[w] = "apply" /\ cur[w] \in Orders /\ ~Launched(cur[w])
        /\ cur' = cur /\ jobs' = jobs /\ todo' = todo /\ pc' = [pc EXCEPT ![w] = "hooks"]
        /\ status' = [status EXCEPT ![cur[w]] = "ACTIVE"]
        /\ approvedBy' = [approvedBy EXCEPT ![cur[w]] = "snow"]
    BY <1>9, <1>i DEF ApproveOrder, Workers, HookInv, PollInv, JobsInv, TypeOK, Busy
  <2>2. ASSUME NEW x \in Orders, status'[x] = "ACTIVE", approvedBy'[x] = "snow"
        PROVE  OwnedOrder(x)'
    <3>1. CASE x = cur[w]
      <4>1. pc'[w] = "hooks" /\ cur'[w] = x
        BY <2>1, <3>1 DEF TypeOK
      <4>2. \A i \in ItemsOf(x) : jobs'[i] = 0
        BY <2>1, <3>1 DEF Launched, ItemsOf, TypeOK
      <4>3. Owns(w, x)'
        BY <4>1, <4>2 DEF Owns, Launching
      <4> QED
        BY <4>3 DEF OwnedOrder
    <3>2. CASE x # cur[w]
      <4>1. OwnedOrder(x)
        BY <2>1, <2>2, <3>2, OwnedIs DEF TypeOK
      <4>2. \A v \in Workers : Launching(v, x) => pc'[v] = pc[v]
        BY <2>1 DEF Launching, TypeOK
      <4> QED
        BY <2>1, <4>1, <4>2, OwnedFrame
    <3> QED
      BY <3>1, <3>2
  <2> QED
    BY <2>2, <1>p
\* The execution p is the only worker that launches, and only its order.
<1>10. ASSUME NEW p \in Pollers, pc[p] \in {"hooks", "launch"},
              NEW x \in Orders, OwnedOrder(x), x # cur[p]
       PROVE  \A i \in ItemsOf(x) : jobs[i] = JobsFor(i)
  <2>1. ~\E w \in Workers : Owns(w, x)
    BY <1>10, <1>l, <1>q DEF Owns, Launching, Workers
  <2> QED
    BY <1>10, <2>1 DEF OwnedOrder
<1>11. ASSUME NEW p \in Pollers, pc[p] \in {"hooks", "launch"},
              OwnedOrder(cur[p]), cur[p] \in Orders
       PROVE  \/ \A i \in ItemsOf(cur[p]) : jobs[i] = JobsFor(i)
              \/ \A i \in ItemsOf(cur[p]) : jobs[i] = IF pc[p] = "hooks" THEN 0
                                                       ELSE JobsFor(i) - todo[p][i]
  BY <1>11, <1>l, <1>q DEF OwnedOrder, Owns, Launching, Workers
<1>12. ASSUME NEW p \in Pollers, pc[p] \in {"hooks", "launch"},
              NEW o \in Orders, o = cur[p],
              \A x \in Orders : status'[x] = "ACTIVE" /\ approvedBy'[x] = "snow" =>
                 status[x] = "ACTIVE" /\ approvedBy[x] = "snow",
              \A i \in Items : OrderOf[i] # o => jobs'[i] = jobs[i],
              status'[o] = "ACTIVE" /\ OwnedOrder(o) => OwnedOrder(o)'
       PROVE  LaunchedOrOwned'
  <2>1. ASSUME NEW x \in Orders, status'[x] = "ACTIVE", approvedBy'[x] = "snow"
        PROVE  OwnedOrder(x)'
    <3>1. OwnedOrder(x)
      BY <1>12, <2>1, OwnedIs
    <3>2. CASE x # o
      <4>1. \A i \in ItemsOf(x) : jobs'[i] = jobs[i] /\ jobs[i] = JobsFor(i)
        BY <1>10, <1>12, <3>1, <3>2 DEF ItemsOf
      <4> QED
        BY <4>1 DEF OwnedOrder
    <3>3. CASE x = o
      BY <1>12, <2>1, <3>1, <3>3
    <3> QED
      BY <3>2, <3>3
  <2> QED
    BY <2>1, <1>p
<1>13. ASSUME NEW p \in Pollers, pc[p] = "hooks"
       PROVE  cur[p] \in Orders /\ \A i \in ItemsOf(cur[p]) : jobs[i] = 0
  BY <1>13, <1>i, WorkerSets DEF PollInv, Launched, ItemsOf, TypeOK, Busy
<1>14. ASSUME NEW p \in Pollers, HooksPass(p)
       PROVE  LaunchedOrOwned'
  <2>1. /\ pc[p] = "hooks" /\ UNCHANGED <<status, approvedBy, jobs, cur>>
        /\ pc'[p] = "launch" /\ todo'[p] = Plan(cur[p])
    BY <1>14, WorkerSets DEF HooksPass, Launch, TypeOK
  <2>2. \A i \in ItemsOf(cur[p]) : jobs[i] = JobsFor(i) - todo'[p][i]
    BY <1>13, <2>1, JobsForType DEF Plan, ItemsOf
  <2>3. Owns(p, cur[p])'
    BY <2>1, <2>2 DEF Owns, Launching
  <2>4. OwnedOrder(cur[p])'
    BY <2>3, WorkerSets DEF OwnedOrder
  <2>5. PICK o \in Orders : o = cur[p]
    BY <1>13, <2>1
  <2> QED
    BY <2>1, <2>4, <2>5, <1>12
<1>15. ASSUME NEW p \in Pollers, HooksFail(p) \/ HooksRepend(p)
       PROVE  LaunchedOrOwned'
  <2>1. /\ pc[p] = "hooks" /\ UNCHANGED <<approvedBy, jobs>> /\ cur[p] \in Orders
        /\ \E s \in {"FAILURE", "PENDING"} : status' = [status EXCEPT ![cur[p]] = s]
    BY <1>13, <1>15 DEF HooksFail, HooksRepend
  <2>2. PICK o \in Orders : o = cur[p]
    BY <2>1
  <2> QED
    BY <2>1, <2>2, <1>12 DEF TypeOK
<1>16. ASSUME NEW p \in Pollers, SaveJob(p)
       PROVE  LaunchedOrOwned'
  <2>1. PICK j \in Items : /\ todo[p][j] > 0
                           /\ todo' = [todo EXCEPT ![p][j] = @ - 1]
                           /\ jobs' = [jobs EXCEPT ![j] = @ + 1]
    BY <1>16 DEF SaveJob
  <2>2. /\ pc[p] = "launch" /\ OrderOf[j] = cur[p] /\ cur[p] \in Orders
        /\ UNCHANGED <<status, approvedBy, pc, cur>>
    BY <1>16, <2>1, WorkerSets DEF SaveJob, AuthorityInv, TypeOK, Busy
  <2>3. ASSUME OwnedOrder(cur[p])
        PROVE  OwnedOrder(cur[p])'
    <3>1. jobs[j] + todo[p][j] <= JobsFor(j) /\ jobs[j] \in Nat /\ todo[p][j] \in Nat
          /\ JobsFor(j) \in Nat
      BY <2>2, <1>i, WorkerSets, JobsForType DEF JobsInv, TypeOK
    <3>2. \A i \in ItemsOf(cur[p]) : jobs[i] = JobsFor(i) - todo[p][i]
      <4>1. ~\A i \in ItemsOf(cur[p]) : jobs[i] = JobsFor(i)
        BY <2>1, <2>2, <3>1 DEF ItemsOf
      <4> QED
        BY <1>11, <2>2, <2>3, <4>1
    <3>3. \A i \in Items : jobs[i] \in Nat /\ todo[p][i] \in Nat /\ JobsFor(i) \in Nat
      BY WorkerSets, JobsForType DEF TypeOK
    <3>4. \A i \in ItemsOf(cur[p]) : jobs'[i] = JobsFor(i) - todo'[p][i]
      <4>1. ASSUME NEW i \in ItemsOf(cur[p])
            PROVE  jobs'[i] = JobsFor(i) - todo'[p][i]
        <5>1. i \in Items /\ jobs[i] = JobsFor(i) - todo[p][i]
          BY <3>2 DEF ItemsOf
        <5>2. CASE i = j
          <6>1. jobs'[i] = jobs[i] + 1 /\ todo'[p][i] = todo[p][i] - 1
            BY <2>1, <5>2, WorkerSets DEF TypeOK
          <6> QED
            BY <3>3, <5>1, <6>1
        <5>3. CASE i # j
          <6>1. jobs'[i] = jobs[i] /\ todo'[p][i] = todo[p][i]
            BY <2>1, <5>1, <5>3, WorkerSets DEF TypeOK
          <6> QED
            BY <5>1, <6>1
        <5> QED
          BY <5>2, <5>3
      <4> QED
        BY <4>1
    <3>5. Owns(p, cur[p])'
      BY <2>2, <3>4 DEF Owns, Launching
    <3> QED
      BY <3>5, WorkerSets DEF OwnedOrder
  <2>4. \A i \in Items : OrderOf[i] # cur[p] => jobs'[i] = jobs[i]
    BY <2>1, <2>2 DEF TypeOK
  <2>5. PICK o \in Orders : o = cur[p]
    BY <2>2
  <2> QED
    BY <2>2, <2>3, <2>4, <2>5, <1>12
<1>17. ASSUME NEW p \in Pollers, FinishApproval(p)
       PROVE  LaunchedOrOwned'
  <2>1. /\ pc[p] = "launch" /\ todo[p] = NoJobs /\ UNCHANGED <<approvedBy, jobs>>
        /\ cur[p] \in Orders
        /\ status' = status \/ status' = [status EXCEPT ![cur[p]] = "SUCCESS"]
    BY <1>17, WorkerSets DEF FinishApproval, Complete, TypeOK, Busy
  <2>2. PICK o \in Orders : o = cur[p]
    BY <2>1
  <2>3. ASSUME OwnedOrder(o)
        PROVE  OwnedOrder(o)'
    <3>1. \A i \in ItemsOf(o) : JobsFor(i) - todo[p][i] = JobsFor(i)
      BY <2>1, JobsForType DEF NoJobs, ItemsOf
    <3>2. \A i \in ItemsOf(o) : jobs[i] = JobsFor(i)
      BY <1>11, <2>1, <2>2, <2>3, <3>1
    <3> QED
      BY <2>1, <3>2 DEF OwnedOrder
  <2> QED
    BY <2>1, <2>2, <2>3, <1>12 DEF TypeOK
<1>18. ASSUME NEW w \in Workers, SaveJob(w) \/ FinishApproval(w)
       PROVE  w \in Pollers
  BY <1>18, <1>l DEF SaveJob, FinishApproval, Workers
<1>19. ASSUME NEW w \in Workers, Crash(w)
       PROVE  FALSE
  BY <1>19 DEF Crash
<1>20. CASE UNCHANGED vars
  BY <1>20, OwnedQuiet DEF vars
<1> QED
  BY <1>1, <1>2, <1>3, <1>4, <1>6, <1>7, <1>8, <1>9, <1>14, <1>15, <1>16, <1>17, <1>18, <1>19, <1>20
     DEF Next, Environment, Hook, Poll, Approve

\* While no worker dies and one execution at a time decides orders, an order that
\* ServiceNow approved has all its jobs, or the execution that approved it is
\* still at it and has exactly the missing jobs to save.
THEOREM NoneHalfLaunched ==
    ASSUME Serial, "crash" \notin Env
    PROVE  Spec => []LaunchedOrOwned
<1>1. Init => TypeOK /\ SerialInv /\ AuthorityInv /\ LaunchedOrOwned
  <2>1. Init => LaunchedOrOwned
    BY DEF Init, LaunchedOrOwned
  <2> QED
    BY <2>1, InitTypeOK, InitSerial, InitAuthority
<1>2. TypeOK /\ SerialInv /\ AuthorityInv /\ LaunchedOrOwned /\ [Next]_vars
         => TypeOK' /\ SerialInv' /\ AuthorityInv' /\ LaunchedOrOwned'
  BY NextTypeOK, NextSerial, NextAuthority, NextOwned
<1> QED
  BY <1>1, <1>2, PTL DEF Spec
=============================================================================
