---------------------- MODULE TerraformServers_proofs ----------------------
(***************************************************************************)
(* Proofs about TerraformServers, for every set of plans, machines and     *)
(* server records, and for every combination of faults.                    *)
(***************************************************************************)
EXTENDS TerraformServers, TLAPS

-----------------------------------------------------------------------------
(* The inductive invariant. *)

Recording == {"record", "create", "mark", "import"}

\* Server i records machine vm as DoneRecordsAll asks.
Good(i, vm) ==
    /\ i \in Ids /\ server[i] \in Server
    /\ server[i].vm = vm /\ server[i].owned
    /\ vm \in Importable => server[i].env = "ordered" /\ server[i].handler

\* The machine and the server a job has at hand.
CurInv(p) ==
    /\ pc[p] \in Recording => queue[p] \subseteq tfState[p] \cap ServerVMs
    /\ pc[p] \in {"create", "mark", "import"} =>
          /\ cur[p] \in tfState[p] \cap ServerVMs
          /\ cur[p] \in Importable => environment[p] = "ordered"
    /\ pc[p] = "create" =>
          \A i \in Recorded : server[i].vm = cur[p] => server[i].by = "sync"
    /\ pc[p] \in {"mark", "import"} =>
          /\ rec[p] \in Ids /\ server[rec[p]] \in Server
          /\ server[rec[p]].vm = cur[p] /\ server[rec[p]].owned
          /\ cur[p] \in Importable => server[rec[p]].env = "ordered"

\* The machines the job is through with are recorded.
ProgressInv(p) ==
    pc[p] \in Recording =>
        \A vm \in (tfState[p] \cap ServerVMs) \ queue[p] :
            pc[p] = "record" \/ vm # cur[p] => \E i \in recorded[p] : Good(i, vm)

DoneInv(p) ==
    status[p] = "done" /\ pc[p] = "idle" =>
        \A vm \in tfState[p] \cap ServerVMs : \E i \in jobServers : Good(i, vm)

\* What was created by whom; the state file of a plan has all that still exists.
MadeInv ==
    /\ \A p \in Plans : tfState[p] \subseteq made[p] /\ cloud \cap made[p] \subseteq tfState[p]
    /\ \A p, q \in Plans : p # q => made[p] \cap made[q] = {}
    /\ \A vm \in cloud : \E p \in Plans : vm \in made[p]
    /\ \A i \in Recorded : \E p \in Plans : server[i].vm \in made[p]

\* Nothing is deployed while the resource is being deleted.
ModeInv ==
    \A p, q \in Plans : pc[p] \in Destroying \/ status[p] = "deleted" => pc[q] \notin Deploying

Claimed(i, p) == server[i].vm \in made[p] /\ server[i].owned /\ server[i].handler

DeletedInv(p) ==
    /\ pc[p] = "post" \/ status[p] = "deleted" => tfState[p] = {}
    /\ pc[p] = "post" =>
          \A i \in Recorded : Claimed(i, p) => i \in check[p] \/ server[i].state = "HISTORICAL"
    /\ status[p] = "deleted" =>
          \A i \in Recorded : Claimed(i, p) => server[i].state = "HISTORICAL"

PlanInv(p) == CurInv(p) /\ ProgressInv(p) /\ DoneInv(p) /\ DeletedInv(p)

ServersInv ==
    /\ TypeOK /\ MadeInv /\ ModeInv
    /\ CreatedOnce /\ HistoricalIsGone
    /\ \A p \in Plans : PlanInv(p)

-----------------------------------------------------------------------------
(* Server records. *)

LEMMA NoServerFact == NoServer \notin Server /\ NoServer.vm = None
BY TerraformAssumption DEF NoServer, Server

LEMMA RecordedFact ==
    ASSUME TypeOK
    PROVE  /\ Recorded = {i \in Ids : server[i] \in Server}
           /\ \A vm \in VMs : Records(vm) = {i \in Recorded : server[i].vm = vm}
<1>1. \A i \in Ids : server[i] \in Server \/ server[i] = NoServer
  BY DEF TypeOK
<1>2. Recorded = {i \in Ids : server[i] \in Server}
  BY <1>1, NoServerFact DEF Recorded
<1>3. \A i \in Ids : i \notin Recorded => server[i].vm = None
  BY NoServerFact DEF Recorded
<1>4. None \notin VMs
  BY TerraformAssumption
<1>5. \A vm \in VMs : Records(vm) = {i \in Recorded : server[i].vm = vm}
  BY <1>3, <1>4 DEF Records, Recorded
<1> QED
  BY <1>2, <1>5

\* One record is written.
LEMMA Rewrite ==
    ASSUME TypeOK, NEW i \in Ids, NEW r \in Server, server' = [server EXCEPT ![i] = r]
    PROVE  /\ server' \in [Ids -> Server \cup {NoServer}]
           /\ Recorded' = Recorded \cup {i}
           /\ server'[i] = r
           /\ \A j \in Ids : j # i => server'[j] = server[j]
<1>1. server \in [Ids -> Server \cup {NoServer}]
  BY DEF TypeOK
<1>2. /\ server' \in [Ids -> Server \cup {NoServer}]
      /\ server'[i] = r
      /\ \A j \in Ids : j # i => server'[j] = server[j]
  BY <1>1
<1>3. Recorded' = Recorded \cup {i}
  BY <1>2, NoServerFact DEF Recorded
<1> QED
  BY <1>2, <1>3

\* No record is taken away or from the resource, and an environment is changed
\* only in records of machine v, which get the ordered one if v can be imported.
Grows(v) ==
    \A i \in Recorded :
        /\ i \in Recorded'
        /\ server'[i] \in Server
        /\ server'[i].vm = server[i].vm
        /\ server'[i].by = server[i].by
        /\ server[i].owned => server'[i].owned
        /\ server[i].handler => server'[i].handler
        /\ \/ server'[i].env = server[i].env
           \/ server[i].vm = v /\ (v \in Importable => server'[i].env = "ordered")

LEMMA GrowsSame ==
    ASSUME TypeOK, UNCHANGED server
    PROVE  Grows(None) /\ Recorded' = Recorded
<1>1. Recorded' = Recorded
  BY DEF Recorded
<1>2. \A i \in Recorded : server[i] \in Server
  BY RecordedFact
<1> QED
  BY <1>1, <1>2 DEF Grows

LEMMA GoodKept ==
    ASSUME TypeOK, NEW v, Grows(v), NEW i, NEW vm, Good(i, vm)
    PROVE  Good(i, vm)'
<1>1. i \in Recorded
  BY RecordedFact DEF Good
<1>2. i \in Ids /\ server[i].vm = vm /\ server[i].owned
  BY DEF Good
<1>3. server'[i] \in Server /\ server'[i].vm = vm /\ server'[i].owned
  BY <1>1, <1>2 DEF Grows
<1>4. vm \in Importable => server'[i].env = "ordered" /\ server'[i].handler
  BY <1>1, <1>2 DEF Grows, Good
<1> QED
  BY <1>2, <1>3, <1>4 DEF Good

-----------------------------------------------------------------------------
(* What a step leaves alone. *)

\* Neither the job of plan q nor its state file changes.
SamePlan(q) ==
    /\ pc'[q] = pc[q] /\ status'[q] = status[q]
    /\ queue'[q] = queue[q] /\ cur'[q] = cur[q] /\ rec'[q] = rec[q]
    /\ environment'[q] = environment[q] /\ recorded'[q] = recorded[q]
    /\ check'[q] = check[q]
    /\ tfState'[q] = tfState[q] /\ made'[q] = made[q]

LEMMA SamePlanKept ==
    ASSUME ServersInv, NEW q \in Plans, SamePlan(q), jobServers \subseteq jobServers',
           NEW v, Grows(v),
           pc[q] = "create" =>
              \A i \in Recorded' \ Recorded : server'[i].vm = cur[q] => server'[i].by = "sync",
           pc[q] = "post" \/ status[q] = "deleted" =>
              \A i \in Recorded' : Claimed(i, q)' =>
                 /\ i \in Recorded /\ Claimed(i, q)
                 /\ server[i].state = "HISTORICAL" => server'[i].state = "HISTORICAL"
    PROVE  PlanInv(q)'
<1>0. TypeOK /\ CurInv(q) /\ ProgressInv(q) /\ DoneInv(q) /\ DeletedInv(q)
  BY DEF ServersInv, PlanInv
<1>1. CurInv(q)'
  <2>1. pc[q] = "create" =>
           \A i \in Recorded' : server'[i].vm = cur[q] => server'[i].by = "sync"
    <3> SUFFICES ASSUME pc[q] = "create", NEW i \in Recorded', server'[i].vm = cur[q]
                 PROVE  server'[i].by = "sync"
      OBVIOUS
    <3>1. CASE i \in Recorded
      BY <1>0, <3>1 DEF CurInv, Grows
    <3> QED
      BY <3>1
  <2>2. pc[q] \in {"mark", "import"} =>
           /\ rec[q] \in Ids /\ server'[rec[q]] \in Server
           /\ server'[rec[q]].vm = cur[q] /\ server'[rec[q]].owned
           /\ cur[q] \in Importable => server'[rec[q]].env = "ordered"
    <3> SUFFICES ASSUME pc[q] \in {"mark", "import"}
                 PROVE  /\ rec[q] \in Ids /\ server'[rec[q]] \in Server
                        /\ server'[rec[q]].vm = cur[q] /\ server'[rec[q]].owned
                        /\ cur[q] \in Importable => server'[rec[q]].env = "ordered"
      OBVIOUS
    <3>1. /\ rec[q] \in Ids /\ server[rec[q]] \in Server
          /\ server[rec[q]].vm = cur[q] /\ server[rec[q]].owned
          /\ cur[q] \in Importable => server[rec[q]].env = "ordered"
      BY <1>0 DEF CurInv
    <3>2. rec[q] \in Recorded
      BY <1>0, <3>1, RecordedFact
    <3> QED
      BY <3>1, <3>2 DEF Grows
  <2>3. /\ pc[q] \in Recording => queue[q] \subseteq tfState[q] \cap ServerVMs
        /\ pc[q] \in {"create", "mark", "import"} =>
              /\ cur[q] \in tfState[q] \cap ServerVMs
              /\ cur[q] \in Importable => environment[q] = "ordered"
    BY <1>0 DEF CurInv
  <2> QED
    BY <2>1, <2>2, <2>3 DEF CurInv, SamePlan
<1>2. ProgressInv(q)'
  <2>1. pc[q] \in Recording =>
           \A vm \in (tfState[q] \cap ServerVMs) \ queue[q] :
               pc[q] = "record" \/ vm # cur[q] => \E i \in recorded[q] : Good(i, vm)'
    BY <1>0, GoodKept DEF ProgressInv
  <2> QED
    BY <2>1 DEF ProgressInv, SamePlan
<1>3. DoneInv(q)'
  <2>1. status[q] = "done" /\ pc[q] = "idle" =>
           \A vm \in tfState[q] \cap ServerVMs : \E i \in jobServers : Good(i, vm)'
    BY <1>0, GoodKept DEF DoneInv
  <2> QED
    BY <2>1 DEF DoneInv, SamePlan
<1>4. DeletedInv(q)'
  BY <1>0 DEF DeletedInv, SamePlan
<1> QED
  BY <1>1, <1>2, <1>3, <1>4 DEF PlanInv

\* The same when no server changes.
LEMMA SameServersKept ==
    ASSUME ServersInv, NEW q \in Plans, SamePlan(q), jobServers \subseteq jobServers',
           UNCHANGED server
    PROVE  PlanInv(q)'
<1>1. TypeOK
  BY DEF ServersInv
<1>2. Grows(None) /\ Recorded' = Recorded
  BY <1>1, GrowsSame
<1>3. \A i \in Recorded' : Claimed(i, q)' => Claimed(i, q)
  BY DEF Claimed, SamePlan
<1> QED
  BY <1>2, <1>3, SamePlanKept

LEMMA ModeKept ==
    ASSUME ServersInv, NEW p \in Plans,
           \A q \in Plans \ {p} : pc'[q] = pc[q] /\ status'[q] = status[q],
           pc'[p] \in Destroying => pc[p] \in Destroying,
           pc'[p] \in Deploying => pc[p] \in Deploying,
           status'[p] = "deleted" => status[p] = "deleted" \/ pc[p] \in Destroying
    PROVE  ModeInv'
BY DEF ServersInv, ModeInv

\* Machines and servers that do not change keep what is said of them alone.
LEMMA StillKept ==
    ASSUME ServersInv, UNCHANGED <<cloudVars, server>>
    PROVE  MadeInv' /\ CreatedOnce' /\ HistoricalIsGone'
BY DEF ServersInv, cloudVars, MadeInv, CreatedOnce, HistoricalIsGone, Recorded

\* The jobs of the other plans.
Others(p) ==
    \A q \in Plans \ {p} :
        /\ pc'[q] = pc[q] /\ status'[q] = status[q]
        /\ queue'[q] = queue[q] /\ cur'[q] = cur[q] /\ rec'[q] = rec[q]
        /\ environment'[q] = environment[q] /\ recorded'[q] = recorded[q]
        /\ check'[q] = check[q]

\* A job that ends forgets what it had in memory and frees no other job.
LEMMA EndFact ==
    ASSUME TypeOK, NEW p \in Plans, NEW result \in {"done", "failed", "deleted"},
           End(p, result)
    PROVE  /\ pc'[p] = "idle" /\ status'[p] = result
           /\ Others(p)
           /\ pc' \in [Plans -> {"idle"} \cup Deploying \cup Destroying]
           /\ status' \in [Plans -> {"new", "done", "failed", "deleted"}]
           /\ queue' \in [Plans -> SUBSET VMs]
           /\ cur' \in [Plans -> VMs \cup {None}]
           /\ rec' \in [Plans -> Ids \cup {None}]
           /\ environment' \in [Plans -> Environments]
           /\ recorded' \in [Plans -> SUBSET Ids]
           /\ check' \in [Plans -> SUBSET Ids]
BY DEF TypeOK, End, Goto, Others, Environments

\* A job that ended, but not well, has nothing to answer for.
LEMMA IdlePlan ==
    ASSUME NEW p \in Plans, pc'[p] = "idle", status'[p] \notin {"done", "deleted"}
    PROVE  PlanInv(p)'
BY DEF PlanInv, CurInv, ProgressInv, DoneInv, DeletedInv, Recording

LEMMA FailKept ==
    ASSUME ServersInv, NEW p \in Plans, Fail(p)
    PROVE  ServersInv'
<1>0. TypeOK
  BY DEF ServersInv
<1>1. End(p, "failed") /\ UNCHANGED <<cloudVars, server, stateFile, jobServers, outputs>>
  BY DEF Fail
<1>2. TypeOK'
  BY <1>0, <1>1, EndFact DEF TypeOK, cloudVars
<1>3. MadeInv' /\ CreatedOnce' /\ HistoricalIsGone'
  BY <1>1, StillKept
<1>4. pc'[p] = "idle" /\ status'[p] = "failed" /\ Others(p)
  BY <1>0, <1>1, EndFact
<1>5. ModeInv'
  BY <1>4, ModeKept DEF Others, Destroying, Deploying
<1>6. PlanInv(p)'
  BY <1>4, IdlePlan
<1>7. \A q \in Plans \ {p} : PlanInv(q)'
  BY <1>1, <1>4, SameServersKept DEF SamePlan, Others, cloudVars
<1> QED
  BY <1>2, <1>3, <1>5, <1>6, <1>7 DEF ServersInv

-----------------------------------------------------------------------------
(* What is not in the sources. *)

LEMMA LoseMachineKept ==
    ASSUME ServersInv, NEW vm \in VMs, LoseMachine(vm)
    PROVE  ServersInv'
<1>1. /\ cloud' = cloud \ {vm}
      /\ UNCHANGED <<made, tfState, server, resultVars, pc, loopVars, check>>
  BY DEF LoseMachine
<1>2. TypeOK'
  BY <1>1 DEF ServersInv, TypeOK, resultVars, loopVars
<1>3. MadeInv'
  BY <1>1 DEF ServersInv, MadeInv, Recorded
<1>4. CreatedOnce' /\ HistoricalIsGone'
  BY <1>1 DEF ServersInv, CreatedOnce, HistoricalIsGone, Recorded
<1>5. ModeInv'
  BY <1>1 DEF ServersInv, ModeInv, resultVars
<1>6. \A q \in Plans : PlanInv(q)'
  BY <1>1, SameServersKept DEF SamePlan, resultVars, loopVars
<1> QED
  BY <1>2, <1>3, <1>4, <1>5, <1>6 DEF ServersInv

LEMMA SynchronizeKept ==
    ASSUME ServersInv, NEW vm \in VMs, Synchronize(vm)
    PROVE  ServersInv'
<1>0. TypeOK /\ MadeInv
  BY DEF ServersInv
<1>1. /\ vm \in cloud \cap Importable
      /\ Records(vm) = {}
      /\ UNCHANGED <<cloudVars, resultVars, pc, loopVars, check>>
  BY DEF Synchronize
<1>2. PICK i \in Ids \ Recorded :
         server' = [server EXCEPT ![i] =
            [vm |-> vm, owned |-> FALSE, env |-> "ordered", handler |-> TRUE,
             created_by_terraform |-> FALSE, by |-> "sync", state |-> "ACTIVE"]]
  BY DEF Synchronize
<1> DEFINE r == [vm |-> vm, owned |-> FALSE, env |-> "ordered", handler |-> TRUE,
                 created_by_terraform |-> FALSE, by |-> "sync", state |-> "ACTIVE"]
<1>3. r \in Server
  BY DEF Server, Environments
<1>4. /\ server' \in [Ids -> Server \cup {NoServer}]
      /\ Recorded' = Recorded \cup {i}
      /\ server'[i] = r
      /\ \A j \in Ids : j # i => server'[j] = server[j]
  BY <1>0, <1>2, <1>3, Rewrite
<1>5. \A j \in Recorded : j \in Ids /\ j # i /\ server'[j] = server[j] /\ server[j] \in Server
  BY <1>0, <1>2, <1>4, RecordedFact
<1>6. Grows(None)
  BY <1>4, <1>5 DEF Grows
<1>7. TypeOK'
  BY <1>0, <1>1, <1>4 DEF TypeOK, cloudVars, resultVars, loopVars
<1>8. MadeInv'
  BY <1>0, <1>1, <1>4, <1>5 DEF MadeInv, cloudVars
<1>9. CreatedOnce'
  <2>1. \A j \in Recorded' : server'[j].by = "hook" => j \in Recorded
    BY <1>4
  <2> QED
    BY <2>1, <1>5 DEF ServersInv, CreatedOnce
<1>10. HistoricalIsGone'
  BY <1>1, <1>4, <1>5 DEF ServersInv, HistoricalIsGone, cloudVars
<1>11. ModeInv'
  BY <1>1 DEF ServersInv, ModeInv, resultVars
<1>12. \A q \in Plans : PlanInv(q)'
  <2> SUFFICES ASSUME NEW q \in Plans
               PROVE  PlanInv(q)'
    OBVIOUS
  <2>1. SamePlan(q) /\ jobServers' = jobServers
    BY <1>1 DEF SamePlan, cloudVars, resultVars, loopVars
  <2>2. \A j \in Recorded' : Claimed(j, q)' => j \in Recorded /\ Claimed(j, q)
    BY <1>4, <1>5, <2>1 DEF Claimed, SamePlan
  <2>3. \A j \in Recorded' \ Recorded : server'[j].by = "sync"
    BY <1>4
  <2> QED
    BY <1>5, <1>6, <2>1, <2>2, <2>3, SamePlanKept
<1> QED
  BY <1>7, <1>8, <1>9, <1>10, <1>11, <1>12 DEF ServersInv

LEMMA ApplyKept ==
    ASSUME ServersInv, NEW p \in Plans, Apply(p)
    PROVE  ServersInv'
<1>0. TypeOK /\ MadeInv
  BY DEF ServersInv
<1>1. pc[p] = "apply" /\ UNCHANGED <<server, stateFile, jobServers, outputs>>
  BY DEF Apply
<1>2. PICK new \in SUBSET (VMs \ UNION {made[q] : q \in Plans}) :
         /\ made' = [made EXCEPT ![p] = @ \cup new]
         /\ cloud' = cloud \cup new
         /\ tfState' = [tfState EXCEPT ![p] = (@ \cap cloud) \cup new]
  BY DEF Apply
<1>3. \A q \in Plans : made[q] \cap new = {}
  BY <1>2
<1>4. /\ made' \in [Plans -> SUBSET VMs] /\ cloud' \subseteq VMs
      /\ tfState' \in [Plans -> SUBSET VMs]
      /\ made'[p] = made[p] \cup new
      /\ tfState'[p] = (tfState[p] \cap cloud) \cup new
      /\ \A q \in Plans \ {p} : made'[q] = made[q] /\ tfState'[q] = tfState[q]
  BY <1>0, <1>2 DEF TypeOK
<1>5. /\ \/ pc'[p] = "parse" /\ status'[p] = status[p]
         \/ pc'[p] = "idle" /\ status'[p] = "failed"
      /\ Others(p)
      /\ TypeOK'
  <2>1. CASE Goto(p, "parse") /\ UNCHANGED <<status, loopVars, check>>
    <3>1. pc' \in [Plans -> {"idle"} \cup Deploying \cup Destroying]
      BY <1>0, <2>1 DEF TypeOK, Goto, Deploying
    <3>2. pc'[p] = "parse" /\ status'[p] = status[p] /\ Others(p)
      BY <1>0, <2>1 DEF TypeOK, Goto, Others, loopVars
    <3>3. TypeOK'
      BY <1>0, <1>1, <1>4, <2>1, <3>1 DEF TypeOK, loopVars
    <3> QED
      BY <3>2, <3>3
  <2>2. CASE End(p, "failed")
    <3>1. TypeOK'
      BY <1>0, <1>1, <1>4, <2>2, EndFact DEF TypeOK
    <3> QED
      BY <1>0, <2>2, <3>1, EndFact
  <2> QED
    BY <2>1, <2>2 DEF Apply
<1>6. MadeInv'
  <2>1. \A q \in Plans : tfState'[q] \subseteq made'[q] /\ cloud' \cap made'[q] \subseteq tfState'[q]
    BY <1>0, <1>2, <1>3, <1>4 DEF MadeInv
  <2>2. \A q, s \in Plans : q # s => made'[q] \cap made'[s] = {}
    BY <1>0, <1>3, <1>4 DEF MadeInv
  <2>3. \A q \in Plans : made[q] \subseteq made'[q]
    BY <1>4
  <2>4. \A vm \in cloud' : \E q \in Plans : vm \in made'[q]
    BY <1>0, <1>2, <1>4, <2>3 DEF MadeInv
  <2>5. \A i \in Recorded' : \E q \in Plans : server'[i].vm \in made'[q]
    BY <1>0, <1>1, <2>3 DEF MadeInv, Recorded
  <2> QED
    BY <2>1, <2>2, <2>4, <2>5 DEF MadeInv
<1>7. CreatedOnce'
  BY <1>1 DEF ServersInv, CreatedOnce, Recorded
<1>8. HistoricalIsGone'
  <2> SUFFICES ASSUME NEW i \in Recorded, server[i].state = "HISTORICAL"
               PROVE  server[i].vm \notin cloud'
    BY <1>1 DEF HistoricalIsGone, Recorded
  <2>1. server[i].vm \notin cloud
    BY DEF ServersInv, HistoricalIsGone
  <2>2. server[i].vm \notin new
    BY <1>0, <1>3 DEF MadeInv
  <2> QED
    BY <1>2, <2>1, <2>2
<1>9. ModeInv'
  BY <1>1, <1>5, ModeKept DEF Others, Deploying, Destroying
<1>10. PlanInv(p)'
  <2>1. status[p] # "deleted"
    BY <1>1 DEF ServersInv, ModeInv, Deploying
  <2> QED
    BY <1>5, <2>1, IdlePlan
       DEF PlanInv, CurInv, ProgressInv, DoneInv, DeletedInv, Recording
<1>11. \A q \in Plans \ {p} : PlanInv(q)'
  BY <1>1, <1>4, <1>5, SameServersKept DEF SamePlan, Others
<1> QED
  BY <1>5, <1>6, <1>7, <1>8, <1>9, <1>10, <1>11 DEF ServersInv

-----------------------------------------------------------------------------
(* The job that deploys a plan. *)

LEMMA GetStateFileKept ==
    ASSUME ServersInv, NEW p \in Plans, GetStateFile(p)
    PROVE  ServersInv'
<1>0. TypeOK
  BY DEF ServersInv
<1>1. /\ pc[p] = "idle" /\ status[p] \in {"new", "failed"}
      /\ \A q \in Plans : pc[q] \notin Destroying /\ status[q] # "deleted"
      /\ UNCHANGED <<cloudVars, server, jobServers, outputs, loopVars, check>>
  BY DEF GetStateFile
<1>2. /\ \/ pc'[p] \in {"file", "inputs"} /\ status'[p] = status[p]
         \/ pc'[p] = "idle" /\ status'[p] = "failed"
      /\ Others(p)
      /\ TypeOK'
  <2>1. CASE /\ stateFile' = [stateFile EXCEPT ![p] = "row"]
             /\ Goto(p, "file")
             /\ UNCHANGED status
    <3>1. /\ pc' \in [Plans -> {"idle"} \cup Deploying \cup Destroying]
          /\ stateFile' \in [Plans -> {"none", "row", "file"}]
      BY <1>0, <2>1 DEF TypeOK, Goto, Deploying
    <3>2. TypeOK'
      BY <1>0, <1>1, <2>1, <3>1 DEF TypeOK, cloudVars, loopVars
    <3> QED
      BY <1>0, <1>1, <2>1, <3>2 DEF TypeOK, Goto, Others, loopVars
  <2>2. CASE Goto(p, "inputs") /\ UNCHANGED <<stateFile, status>>
    <3>1. pc' \in [Plans -> {"idle"} \cup Deploying \cup Destroying]
      BY <1>0, <2>2 DEF TypeOK, Goto, Deploying
    <3>2. TypeOK'
      BY <1>0, <1>1, <2>2, <3>1 DEF TypeOK, cloudVars, loopVars
    <3> QED
      BY <1>0, <1>1, <2>2, <3>2 DEF TypeOK, Goto, Others, loopVars
  <2>3. CASE status' = [status EXCEPT ![p] = "failed"] /\ UNCHANGED <<stateFile, pc>>
    <3>1. status' \in [Plans -> {"new", "done", "failed", "deleted"}]
      BY <1>0, <2>3 DEF TypeOK
    <3>2. TypeOK'
      BY <1>0, <1>1, <2>3, <3>1 DEF TypeOK, cloudVars, loopVars
    <3> QED
      BY <1>0, <1>1, <2>3, <3>2 DEF TypeOK, Others, loopVars
  <2> QED
    BY <2>1, <2>2, <2>3 DEF GetStateFile
<1>3. MadeInv' /\ CreatedOnce' /\ HistoricalIsGone'
  BY <1>1, StillKept
<1>4. ModeInv'
  BY <1>1, <1>2 DEF ModeInv, Others, Destroying
<1>5. PlanInv(p)'
  BY <1>1, <1>2 DEF PlanInv, CurInv, ProgressInv, DoneInv, DeletedInv, Recording
<1>6. \A q \in Plans \ {p} : PlanInv(q)'
  BY <1>1, <1>2, SameServersKept DEF SamePlan, Others, cloudVars
<1> QED
  BY <1>2, <1>3, <1>4, <1>5, <1>6 DEF ServersInv

\* A step of the job to a control point before the records.
LEMMA StepKept ==
    ASSUME ServersInv, NEW p \in Plans, NEW label \in {"inputs", "apply"},
           pc[p] \in Deploying, Goto(p, label),
           stateFile' \in [Plans -> {"none", "row", "file"}],
           UNCHANGED <<cloudVars, server, jobServers, outputs, status, loopVars, check>>
    PROVE  ServersInv'
<1>0. TypeOK
  BY DEF ServersInv
<1>1. pc' \in [Plans -> {"idle"} \cup Deploying \cup Destroying]
  BY <1>0 DEF TypeOK, Goto, Deploying
<1>2. TypeOK'
  BY <1>0, <1>1 DEF TypeOK, cloudVars, loopVars
<1>3. pc'[p] = label /\ status'[p] = status[p] /\ Others(p)
  BY <1>0 DEF TypeOK, Goto, Others, loopVars
<1>4. MadeInv' /\ CreatedOnce' /\ HistoricalIsGone'
  BY StillKept
<1>5. ModeInv'
  BY <1>3, ModeKept DEF Others, Destroying
<1>6. PlanInv(p)'
  <2>1. status[p] # "deleted"
    BY DEF ServersInv, ModeInv
  <2> QED
    BY <1>3, <2>1 DEF PlanInv, CurInv, ProgressInv, DoneInv, DeletedInv, Recording
<1>7. \A q \in Plans \ {p} : PlanInv(q)'
  BY <1>3, SameServersKept DEF SamePlan, Others, cloudVars
<1> QED
  BY <1>2, <1>4, <1>5, <1>6, <1>7 DEF ServersInv

LEMMA SaveStateFileKept ==
    ASSUME ServersInv, NEW p \in Plans, SaveStateFile(p)
    PROVE  ServersInv'
<1>1. stateFile' \in [Plans -> {"none", "row", "file"}]
  BY DEF SaveStateFile, ServersInv, TypeOK
<1> QED
  BY <1>1, StepKept DEF SaveStateFile, Deploying

LEMMA RenderInputsKept ==
    ASSUME ServersInv, NEW p \in Plans, RenderInputs(p)
    PROVE  ServersInv'
<1>1. stateFile' \in [Plans -> {"none", "row", "file"}]
  BY DEF RenderInputs, resultVars, ServersInv, TypeOK
<1> QED
  BY <1>1, StepKept DEF RenderInputs, Deploying, resultVars

LEMMA ParseStateFileKept ==
    ASSUME ServersInv, NEW p \in Plans, ParseStateFile(p)
    PROVE  ServersInv'
<1>0. TypeOK
  BY DEF ServersInv
<1>1. /\ pc[p] = "parse"
      /\ queue' = [queue EXCEPT ![p] = tfState[p] \cap ServerVMs]
      /\ UNCHANGED <<cloudVars, server, resultVars, cur, rec, environment, recorded, check>>
  BY DEF ParseStateFile
<1>2. pc' = [pc EXCEPT ![p] = "record"]
  BY DEF ParseStateFile, Goto
<1>3. /\ pc' \in [Plans -> {"idle"} \cup Deploying \cup Destroying]
      /\ queue' \in [Plans -> SUBSET VMs]
  BY <1>0, <1>1, <1>2 DEF TypeOK, Deploying
<1>4. TypeOK'
  BY <1>0, <1>1, <1>3 DEF TypeOK, cloudVars, resultVars
<1>5. pc'[p] = "record" /\ queue'[p] = tfState[p] \cap ServerVMs /\ Others(p)
  BY <1>0, <1>1, <1>2 DEF TypeOK, Others, resultVars
<1>6. MadeInv' /\ CreatedOnce' /\ HistoricalIsGone'
  BY <1>1, StillKept
<1>7. status'[p] = status[p] /\ status[p] # "deleted"
  BY <1>1 DEF resultVars, ServersInv, ModeInv, Deploying
<1>8. ModeInv'
  BY <1>1, <1>5, <1>7, ModeKept DEF Others, Destroying, Deploying
<1>9. PlanInv(p)'
  BY <1>1, <1>5, <1>7
     DEF PlanInv, CurInv, ProgressInv, DoneInv, DeletedInv, Recording, cloudVars
<1>10. \A q \in Plans \ {p} : PlanInv(q)'
  BY <1>1, <1>5, SameServersKept DEF SamePlan, Others, cloudVars, resultVars
<1> QED
  BY <1>4, <1>6, <1>8, <1>9, <1>10 DEF ServersInv

\* A record of the machine of plan p is written while plan p is deployed: the
\* other plans do not notice.
LEMMA OthersKept ==
    ASSUME ServersInv, NEW p \in Plans, pc[p] \in Deploying, Others(p),
           UNCHANGED <<cloudVars, jobServers>>,
           NEW v, Grows(v),
           \A i \in Recorded' \ Recorded : server'[i].vm \in made[p]
    PROVE  \A q \in Plans \ {p} : PlanInv(q)'
<1> SUFFICES ASSUME NEW q \in Plans \ {p}
             PROVE  PlanInv(q)'
  OBVIOUS
<1>1. SamePlan(q)
  BY DEF SamePlan, Others, cloudVars
<1>2. ~(pc[q] = "post" \/ status[q] = "deleted")
  BY DEF ServersInv, ModeInv, Destroying
<1>3. pc[q] = "create" => cur[q] \notin made[p]
  BY DEF ServersInv, PlanInv, CurInv, MadeInv
<1> QED
  BY <1>1, <1>2, <1>3, SamePlanKept

\* Machines and records when one record is written over, or a new one created.
LEMMA RecordsKept ==
    ASSUME ServersInv, UNCHANGED cloudVars, NEW i \in Ids, NEW r \in Server,
           server' = [server EXCEPT ![i] = r],
           \E p \in Plans : r.vm \in made[p],
           r.state = "HISTORICAL" => r.vm \notin cloud,
           \A j \in Recorded \ {i} : ~(server[j].vm = r.vm /\ server[j].by = "hook" /\ r.by = "hook")
    PROVE  MadeInv' /\ CreatedOnce' /\ HistoricalIsGone'
<1>0. TypeOK /\ MadeInv /\ CreatedOnce /\ HistoricalIsGone
  BY DEF ServersInv
<1>1. /\ Recorded' = Recorded \cup {i}
      /\ server'[i] = r
      /\ \A j \in Recorded : j # i => server'[j] = server[j]
  BY <1>0, Rewrite DEF Recorded
<1>2. MadeInv'
  BY <1>0, <1>1 DEF MadeInv, cloudVars
<1>3. CreatedOnce'
  BY <1>0, <1>1 DEF CreatedOnce
<1>4. HistoricalIsGone'
  BY <1>0, <1>1 DEF HistoricalIsGone, cloudVars
<1> QED
  BY <1>2, <1>3, <1>4

LEMMA GetServerKept ==
    ASSUME ServersInv, NEW p \in Plans, NEW vm \in VMs, GetServer(p, vm)
    PROVE  ServersInv'
<1>0. TypeOK /\ MadeInv /\ PlanInv(p)
  BY DEF ServersInv
<1>1. /\ pc[p] = "record" /\ vm \in queue[p]
      /\ queue' = [queue EXCEPT ![p] = @ \ {vm}]
      /\ cur' = [cur EXCEPT ![p] = vm]
      /\ environment' = [environment EXCEPT ![p] = EnvironmentFor(p, vm)]
      /\ UNCHANGED <<cloudVars, resultVars, recorded, check>>
  BY DEF GetServer
<1>2. /\ EnvironmentFor(p, vm) \in Environments
      /\ vm \in Importable => EnvironmentFor(p, vm) = "ordered"
  BY <1>0 DEF EnvironmentFor, TypeOK, Environments
<1>3. /\ queue' \in [Plans -> SUBSET VMs] /\ cur' \in [Plans -> VMs \cup {None}]
      /\ environment' \in [Plans -> Environments]
      /\ queue'[p] = queue[p] \ {vm} /\ cur'[p] = vm
      /\ environment'[p] = EnvironmentFor(p, vm)
  BY <1>0, <1>1, <1>2 DEF TypeOK
<1>4. vm \in tfState[p] \cap ServerVMs /\ queue[p] \subseteq tfState[p] \cap ServerVMs
  BY <1>0, <1>1 DEF PlanInv, CurInv, Recording
<1>5. status'[p] = status[p] /\ status[p] # "deleted"
  BY <1>1 DEF resultVars, ServersInv, ModeInv, Deploying
<1>6. CASE Records(vm) = {} /\ Goto(p, "create") /\ UNCHANGED <<server, rec>>
  <2>1. pc' \in [Plans -> {"idle"} \cup Deploying \cup Destroying]
    BY <1>0, <1>6 DEF TypeOK, Goto, Deploying
  <2>2. TypeOK'
    BY <1>0, <1>1, <1>3, <1>6, <2>1 DEF TypeOK, cloudVars, resultVars
  <2>3. pc'[p] = "create" /\ Others(p)
    BY <1>0, <1>1, <1>6 DEF TypeOK, Goto, Others, resultVars
  <2>4. MadeInv' /\ CreatedOnce' /\ HistoricalIsGone'
    BY <1>1, <1>6, StillKept
  <2>5. ModeInv'
    BY <1>1, <1>5, <2>3, ModeKept DEF Others, Destroying, Deploying
  <2>6. Grows(None) /\ Recorded' = Recorded
    BY <1>0, <1>6, GrowsSame
  <2>7. CurInv(p)'
    <3>1. \A i \in Recorded' : server'[i].vm # vm
      BY <1>0, <1>6, <2>6, RecordedFact
    <3> QED
      BY <1>1, <1>2, <1>3, <1>4, <2>3, <3>1 DEF CurInv, cloudVars
  <2>8. ProgressInv(p)'
    <3> SUFFICES ASSUME NEW m \in (tfState[p] \cap ServerVMs) \ queue'[p], m # cur'[p]
                 PROVE  \E i \in recorded[p] : Good(i, m)'
      BY <1>1, <2>3 DEF ProgressInv, cloudVars
    <3>1. \E i \in recorded[p] : Good(i, m)
      BY <1>0, <1>1, <1>3 DEF PlanInv, ProgressInv, Recording
    <3> QED
      BY <1>0, <2>6, <3>1, GoodKept
  <2>9. DoneInv(p)' /\ DeletedInv(p)'
    BY <1>5, <2>3 DEF DoneInv, DeletedInv
  <2>10. \A q \in Plans \ {p} : PlanInv(q)'
    BY <1>1, <1>6, <2>3, SameServersKept DEF SamePlan, Others, cloudVars, resultVars
  <2> QED
    BY <2>2, <2>4, <2>5, <2>7, <2>8, <2>9, <2>10 DEF ServersInv, PlanInv
<1>7. CASE \E i \in Ids :
             /\ Records(vm) = {i}
             /\ server' = [server EXCEPT ![i].owned = TRUE,
                                         ![i].env = EnvironmentFor(p, vm)]
             /\ rec' = [rec EXCEPT ![p] = i]
             /\ Goto(p, "import")
  <2>1. PICK i \in Ids :
             /\ Records(vm) = {i}
             /\ server' = [server EXCEPT ![i].owned = TRUE,
                                         ![i].env = EnvironmentFor(p, vm)]
             /\ rec' = [rec EXCEPT ![p] = i]
             /\ Goto(p, "import")
    BY <1>7
  <2>2. i \in Recorded /\ server[i] \in Server /\ server[i].vm = vm
    BY <1>0, <2>1, RecordedFact
  <2> DEFINE r == [server[i] EXCEPT !.owned = TRUE, !.env = EnvironmentFor(p, vm)]
  <2>3. /\ r \in Server /\ r.vm = vm /\ r.owned /\ r.env = EnvironmentFor(p, vm)
        /\ r.by = server[i].by /\ r.handler = server[i].handler
        /\ r.state = server[i].state
    BY <1>2, <2>2 DEF Server
  <2>4. server' = [server EXCEPT ![i] = r]
    BY <1>0, <2>1 DEF TypeOK
  <2>5. /\ server' \in [Ids -> Server \cup {NoServer}]
        /\ Recorded' = Recorded \cup {i}
        /\ server'[i] = r
        /\ \A j \in Ids : j # i => server'[j] = server[j]
    BY <1>0, <2>3, <2>4, Rewrite
  <2>6. /\ pc' \in [Plans -> {"idle"} \cup Deploying \cup Destroying]
        /\ rec' \in [Plans -> Ids \cup {None}]
    BY <1>0, <2>1 DEF TypeOK, Goto, Deploying
  <2>7. TypeOK'
    BY <1>0, <1>1, <1>3, <2>5, <2>6 DEF TypeOK, cloudVars, resultVars
  <2>8. pc'[p] = "import" /\ rec'[p] = i /\ Others(p)
    BY <1>0, <1>1, <2>1 DEF TypeOK, Goto, Others, resultVars
  <2>9. Grows(vm)
    <3>1. \A j \in Recorded : server[j] \in Server
      BY <1>0, RecordedFact
    <3>2. \A j \in Recorded : j \in Ids
      BY DEF Recorded
    <3> QED
      BY <1>2, <2>2, <2>3, <2>5, <3>1, <3>2 DEF Grows
  <2>10. MadeInv' /\ CreatedOnce' /\ HistoricalIsGone'
    <3>1. \E q \in Plans : r.vm \in made[q]
      BY <1>0, <2>2, <2>3 DEF MadeInv
    <3>2. r.state = "HISTORICAL" => r.vm \notin cloud
      BY <2>2, <2>3 DEF ServersInv, HistoricalIsGone
    <3>3. \A j \in Recorded \ {i} : server[j].vm # r.vm
      BY <1>0, <2>1, <2>3, RecordedFact
    <3> HIDE DEF r
    <3> QED
      BY <1>1, <2>3, <2>4, <3>1, <3>2, <3>3, RecordsKept
  <2>11. ModeInv'
    BY <1>1, <1>5, <2>8, ModeKept DEF Others, Destroying, Deploying
  <2>12. CurInv(p)'
    BY <1>1, <1>2, <1>3, <1>4, <2>3, <2>5, <2>8 DEF CurInv, cloudVars
  <2>13. ProgressInv(p)'
    <3> SUFFICES ASSUME NEW m \in (tfState[p] \cap ServerVMs) \ queue'[p], m # cur'[p]
                 PROVE  \E j \in recorded[p] : Good(j, m)'
      BY <1>1, <2>8 DEF ProgressInv, cloudVars
    <3>1. \E j \in recorded[p] : Good(j, m)
      BY <1>0, <1>1, <1>3 DEF PlanInv, ProgressInv, Recording
    <3> QED
      BY <1>0, <2>9, <3>1, GoodKept
  <2>14. DoneInv(p)' /\ DeletedInv(p)'
    BY <1>5, <2>8 DEF DoneInv, DeletedInv
  <2>15. \A q \in Plans \ {p} : PlanInv(q)'
    BY <1>1, <2>2, <2>5, <2>8, <2>9, OthersKept DEF Deploying, resultVars
  <2> QED
    BY <2>7, <2>10, <2>11, <2>12, <2>13, <2>14, <2>15 DEF ServersInv, PlanInv
<1> QED
  BY <1>6, <1>7 DEF GetServer

LEMMA CreateServerKept ==
    ASSUME ServersInv, NEW p \in Plans, CreateServer(p)
    PROVE  ServersInv'
<1>0. TypeOK /\ MadeInv /\ PlanInv(p)
  BY DEF ServersInv
<1>1. /\ pc[p] = "create"
      /\ UNCHANGED <<cloudVars, resultVars, queue, cur, environment, recorded, check>>
      /\ pc' = [pc EXCEPT ![p] = "mark"]
  BY DEF CreateServer, Goto
<1> DEFINE r == [vm |-> cur[p], owned |-> TRUE, env |-> environment[p], handler |-> FALSE,
                 created_by_terraform |-> FALSE, by |-> "hook", state |-> "ACTIVE"]
<1>2. PICK i \in Ids \ Recorded :
         server' = [server EXCEPT ![i] = r] /\ rec' = [rec EXCEPT ![p] = i]
  BY DEF CreateServer
<1>3. /\ cur[p] \in tfState[p] \cap ServerVMs
      /\ cur[p] \in Importable => environment[p] = "ordered"
      /\ \A j \in Recorded : server[j].vm = cur[p] => server[j].by = "sync"
      /\ queue[p] \subseteq tfState[p] \cap ServerVMs
  BY <1>0, <1>1 DEF PlanInv, CurInv, Recording
<1>4. r \in Server
  <2>1. cur[p] \in VMs /\ environment[p] \in Environments
    BY <1>0, <1>3 DEF TypeOK
  <2> QED
    BY <2>1 DEF Server
<1>5. /\ server' \in [Ids -> Server \cup {NoServer}]
      /\ Recorded' = Recorded \cup {i}
      /\ server'[i] = r
      /\ \A j \in Ids : j # i => server'[j] = server[j]
  BY <1>0, <1>2, <1>4, Rewrite
<1>6. /\ pc' \in [Plans -> {"idle"} \cup Deploying \cup Destroying]
      /\ rec' \in [Plans -> Ids \cup {None}]
  BY <1>0, <1>1, <1>2 DEF TypeOK, Deploying
<1>7. TypeOK'
  BY <1>0, <1>1, <1>5, <1>6 DEF TypeOK, cloudVars, resultVars
<1>8. pc'[p] = "mark" /\ rec'[p] = i /\ Others(p) /\ status'[p] = status[p]
  BY <1>0, <1>1, <1>2 DEF TypeOK, Others, resultVars
<1>9. \A j \in Recorded : j \in Ids /\ j # i /\ server[j] \in Server
  BY <1>0, RecordedFact
<1>10. Grows(None)
  BY <1>5, <1>9 DEF Grows
<1>11. MadeInv' /\ CreatedOnce' /\ HistoricalIsGone'
  <2>1. \E q \in Plans : r.vm \in made[q]
    BY <1>0, <1>3 DEF MadeInv
  <2>2. \A j \in Recorded \ {i} : ~(server[j].vm = r.vm /\ server[j].by = "hook" /\ r.by = "hook")
    BY <1>3
  <2> HIDE DEF r
  <2>3. r.state = "HISTORICAL" => r.vm \notin cloud
    BY DEF r
  <2> QED
    BY <1>1, <1>2, <1>4, <2>1, <2>2, <2>3, RecordsKept
<1>12. status[p] # "deleted"
  BY <1>1 DEF ServersInv, ModeInv, Deploying
<1>13. ModeInv'
  BY <1>1, <1>8, <1>12, ModeKept DEF Others, Destroying, Deploying
<1>14. CurInv(p)'
  <2>1. r.vm = cur[p] /\ r.owned /\ r.env = environment[p]
    OBVIOUS
  <2> HIDE DEF r
  <2> QED
    BY <1>1, <1>3, <1>4, <1>5, <1>8, <2>1 DEF CurInv, cloudVars
<1>15. ProgressInv(p)'
  <2> SUFFICES ASSUME NEW m \in (tfState[p] \cap ServerVMs) \ queue[p], m # cur[p]
               PROVE  \E j \in recorded[p] : Good(j, m)'
    BY <1>1, <1>8 DEF ProgressInv, cloudVars
  <2>1. \E j \in recorded[p] : Good(j, m)
    BY <1>0, <1>1 DEF PlanInv, ProgressInv, Recording
  <2> QED
    BY <1>0, <1>10, <2>1, GoodKept
<1>16. DoneInv(p)' /\ DeletedInv(p)'
  BY <1>8, <1>12 DEF DoneInv, DeletedInv
<1>17. \A q \in Plans \ {p} : PlanInv(q)'
  <2>1. \A j \in Recorded' \ Recorded : server'[j].vm \in made[p]
    BY <1>0, <1>3, <1>5 DEF MadeInv
  <2>2. pc[p] \in Deploying
    BY <1>1 DEF Deploying
  <2> QED
    BY <1>1, <1>8, <1>10, <2>1, <2>2, OthersKept DEF resultVars
<1> QED
  BY <1>7, <1>11, <1>13, <1>14, <1>15, <1>16, <1>17 DEF ServersInv, PlanInv

\* The server at hand is written over, nothing else of the records.
LEMMA AtHand ==
    ASSUME ServersInv, NEW p \in Plans, pc[p] \in {"mark", "import"}
    PROVE  /\ rec[p] \in Recorded /\ rec[p] \in Ids /\ server[rec[p]] \in Server
           /\ server[rec[p]].vm = cur[p] /\ server[rec[p]].owned
           /\ cur[p] \in Importable => server[rec[p]].env = "ordered"
           /\ cur[p] \in tfState[p] \cap ServerVMs
BY RecordedFact DEF ServersInv, PlanInv, CurInv

LEMMA WriteOver ==
    ASSUME ServersInv, UNCHANGED cloudVars, NEW i \in Recorded, NEW r \in Server,
           server' = [server EXCEPT ![i] = r],
           r.vm = server[i].vm, r.by = server[i].by, r.env = server[i].env,
           server[i].owned => r.owned, server[i].handler => r.handler,
           r.state = "HISTORICAL" => r.vm \notin cloud
    PROVE  /\ Grows(None)
           /\ server' \in [Ids -> Server \cup {NoServer}]
           /\ Recorded' = Recorded
           /\ server'[i] = r
           /\ \A j \in Recorded \ {i} : server'[j] = server[j]
           /\ MadeInv' /\ CreatedOnce' /\ HistoricalIsGone'
<1>0. TypeOK /\ i \in Ids
  BY DEF ServersInv, Recorded
<1>1. /\ server' \in [Ids -> Server \cup {NoServer}]
      /\ Recorded' = Recorded
      /\ server'[i] = r
      /\ \A j \in Recorded \ {i} : server'[j] = server[j]
  BY <1>0, Rewrite DEF Recorded
<1>2. \A j \in Recorded : server[j] \in Server
  BY <1>0, RecordedFact
<1>3. Grows(None)
  BY <1>1, <1>2 DEF Grows
<1>4. \E p \in Plans : r.vm \in made[p]
  BY DEF ServersInv, MadeInv
<1>5. \A j \in Recorded \ {i} : ~(server[j].vm = r.vm /\ server[j].by = "hook" /\ r.by = "hook")
  BY DEF ServersInv, CreatedOnce
<1>6. MadeInv' /\ CreatedOnce' /\ HistoricalIsGone'
  BY <1>0, <1>4, <1>5, RecordsKept
<1> QED
  BY <1>1, <1>3, <1>6

LEMMA MarkServerKept ==
    ASSUME ServersInv, NEW p \in Plans, MarkServer(p)
    PROVE  ServersInv'
<1>0. TypeOK /\ PlanInv(p)
  BY DEF ServersInv
<1>1. /\ pc[p] = "mark"
      /\ server' = [server EXCEPT ![rec[p]].created_by_terraform = TRUE]
      /\ pc' = [pc EXCEPT ![p] = "import"]
      /\ UNCHANGED <<cloudVars, resultVars, loopVars, check>>
  BY DEF MarkServer, Goto
<1> DEFINE i == rec[p]
<1>2. /\ i \in Recorded /\ i \in Ids /\ server[i] \in Server
      /\ server[i].vm = cur[p] /\ server[i].owned
      /\ cur[p] \in Importable => server[i].env = "ordered"
      /\ cur[p] \in tfState[p] \cap ServerVMs
  BY <1>1, AtHand
<1> DEFINE r == [server[i] EXCEPT !.created_by_terraform = TRUE]
<1>3. /\ r \in Server /\ r.vm = server[i].vm /\ r.owned = server[i].owned
      /\ r.env = server[i].env /\ r.by = server[i].by
      /\ r.handler = server[i].handler /\ r.state = server[i].state
  BY <1>2 DEF Server
<1>4. server' = [server EXCEPT ![i] = r]
  BY <1>0, <1>1 DEF TypeOK
<1>5. r.state = "HISTORICAL" => r.vm \notin cloud
  BY <1>2, <1>3 DEF ServersInv, HistoricalIsGone
<1>6. /\ Grows(None)
      /\ server' \in [Ids -> Server \cup {NoServer}]
      /\ Recorded' = Recorded
      /\ server'[i] = r
      /\ MadeInv' /\ CreatedOnce' /\ HistoricalIsGone'
  <2> HIDE DEF r, i
  <2> QED
    BY <1>1, <1>2, <1>3, <1>4, <1>5, WriteOver
<1>7. pc' \in [Plans -> {"idle"} \cup Deploying \cup Destroying]
  BY <1>0, <1>1 DEF TypeOK, Deploying
<1>8. TypeOK'
  BY <1>0, <1>1, <1>6, <1>7 DEF TypeOK, cloudVars, resultVars, loopVars
<1>9. pc'[p] = "import" /\ Others(p) /\ status'[p] = status[p] /\ status[p] # "deleted"
  BY <1>0, <1>1 DEF TypeOK, Others, resultVars, loopVars, ServersInv, ModeInv, Deploying
<1>10. ModeInv'
  BY <1>1, <1>9, ModeKept DEF Others, Destroying, Deploying
<1>11. CurInv(p)'
  <2>1. queue[p] \subseteq tfState[p] \cap ServerVMs
    BY <1>0, <1>1 DEF PlanInv, CurInv, Recording
  <2>2. cur[p] \in Importable => environment[p] = "ordered"
    BY <1>0, <1>1 DEF PlanInv, CurInv
  <2> HIDE DEF r
  <2> QED
    BY <1>1, <1>2, <1>3, <1>6, <1>9, <2>1, <2>2 DEF CurInv, cloudVars, loopVars
<1>12. ProgressInv(p)'
  <2> SUFFICES ASSUME NEW m \in (tfState[p] \cap ServerVMs) \ queue[p], m # cur[p]
               PROVE  \E j \in recorded[p] : Good(j, m)'
    BY <1>1, <1>9 DEF ProgressInv, cloudVars, loopVars
  <2>1. \E j \in recorded[p] : Good(j, m)
    BY <1>0, <1>1 DEF PlanInv, ProgressInv, Recording
  <2> QED
    BY <1>0, <1>6, <2>1, GoodKept
<1>13. DoneInv(p)' /\ DeletedInv(p)'
  BY <1>9 DEF DoneInv, DeletedInv
<1>14. \A q \in Plans \ {p} : PlanInv(q)'
  BY <1>1, <1>6, <1>9, OthersKept DEF Deploying, resultVars
<1> QED
  BY <1>6, <1>8, <1>10, <1>11, <1>12, <1>13, <1>14 DEF ServersInv, PlanInv

LEMMA ImportServerKept ==
    ASSUME ServersInv, NEW p \in Plans, ImportServer(p)
    PROVE  ServersInv'
<1>0. TypeOK /\ PlanInv(p)
  BY DEF ServersInv
<1>1. /\ pc[p] = "import"
      /\ server' = IF cur[p] \in Importable
                   THEN [server EXCEPT ![rec[p]].handler = TRUE] ELSE server
      /\ recorded' = [recorded EXCEPT ![p] = @ \cup {rec[p]}]
      /\ cur' = [cur EXCEPT ![p] = None]
      /\ rec' = [rec EXCEPT ![p] = None]
      /\ pc' = [pc EXCEPT ![p] = "record"]
      /\ UNCHANGED <<cloudVars, resultVars, queue, environment, check>>
  BY DEF ImportServer, Goto
<1>i. PICK i \in Recorded : i = rec[p]
  BY <1>1, AtHand
<1>2. /\ i \in Recorded /\ i \in Ids /\ server[i] \in Server
      /\ server[i].vm = cur[p] /\ server[i].owned
      /\ cur[p] \in Importable => server[i].env = "ordered"
      /\ cur[p] \in tfState[p] \cap ServerVMs
  BY <1>1, <1>i, AtHand
<1> DEFINE r == IF cur[p] \in Importable THEN [server[i] EXCEPT !.handler = TRUE] ELSE server[i]
<1>3. /\ r \in Server /\ r.vm = server[i].vm /\ r.owned = server[i].owned
      /\ r.env = server[i].env /\ r.by = server[i].by
      /\ server[i].handler => r.handler
      /\ cur[p] \in Importable => r.handler
      /\ r.state = server[i].state
  BY <1>2 DEF Server
<1>4. server' = [server EXCEPT ![i] = r]
  BY <1>0, <1>1, <1>i DEF TypeOK
<1>5. r.state = "HISTORICAL" => r.vm \notin cloud
  BY <1>2, <1>3 DEF ServersInv, HistoricalIsGone
<1>6. /\ Grows(None)
      /\ server' \in [Ids -> Server \cup {NoServer}]
      /\ Recorded' = Recorded
      /\ server'[i] = r
      /\ MadeInv' /\ CreatedOnce' /\ HistoricalIsGone'
  <2> HIDE DEF r
  <2> QED
    BY <1>1, <1>2, <1>3, <1>4, <1>5, WriteOver
<1>7. /\ pc' \in [Plans -> {"idle"} \cup Deploying \cup Destroying]
      /\ recorded' \in [Plans -> SUBSET Ids]
      /\ cur' \in [Plans -> VMs \cup {None}]
      /\ rec' \in [Plans -> Ids \cup {None}]
  BY <1>0, <1>1, <1>2, <1>i DEF TypeOK, Deploying
<1>8. TypeOK'
  BY <1>0, <1>1, <1>6, <1>7 DEF TypeOK, cloudVars, resultVars
<1>9. /\ pc'[p] = "record" /\ Others(p) /\ recorded'[p] = recorded[p] \cup {i}
      /\ status'[p] = status[p] /\ status[p] # "deleted"
  BY <1>0, <1>1, <1>i DEF TypeOK, Others, resultVars, ServersInv, ModeInv, Deploying
<1>10. ModeInv'
  BY <1>1, <1>9, ModeKept DEF Others, Destroying, Deploying
<1>11. CurInv(p)'
  BY <1>0, <1>1, <1>9 DEF PlanInv, CurInv, Recording, cloudVars
<1>12. ProgressInv(p)'
  <2> SUFFICES ASSUME NEW m \in (tfState[p] \cap ServerVMs) \ queue[p]
               PROVE  \E j \in recorded'[p] : Good(j, m)'
    BY <1>1 DEF ProgressInv, cloudVars
  <2>1. CASE m = cur[p]
    <3>1. Good(i, m)'
      <4> HIDE DEF r
      <4> QED
        BY <1>2, <1>3, <1>6, <2>1 DEF Good
    <3> QED
      BY <1>9, <3>1
  <2>2. CASE m # cur[p]
    <3>1. \E j \in recorded[p] : Good(j, m)
      BY <1>0, <1>1, <2>2 DEF PlanInv, ProgressInv, Recording
    <3> QED
      BY <1>0, <1>6, <1>9, <3>1, GoodKept
  <2> QED
    BY <2>1, <2>2
<1>13. DoneInv(p)' /\ DeletedInv(p)'
  BY <1>9 DEF DoneInv, DeletedInv
<1>14. \A q \in Plans \ {p} : PlanInv(q)'
  BY <1>1, <1>6, <1>9, OthersKept DEF Deploying, resultVars
<1> QED
  BY <1>6, <1>8, <1>10, <1>11, <1>12, <1>13, <1>14 DEF ServersInv, PlanInv

LEMMA FinishDeployKept ==
    ASSUME ServersInv, NEW p \in Plans, FinishDeploy(p)
    PROVE  ServersInv'
<1>0. TypeOK /\ PlanInv(p)
  BY DEF ServersInv
<1>1. /\ pc[p] = "record" /\ queue[p] = {}
      /\ outputs' = outputs \cup {p}
      /\ jobServers' = jobServers \cup recorded[p]
      /\ End(p, "done")
      /\ UNCHANGED <<cloudVars, server, stateFile>>
  BY DEF FinishDeploy
<1>2. pc'[p] = "idle" /\ status'[p] = "done" /\ Others(p)
  BY <1>0, <1>1, EndFact
<1>3. jobServers' \subseteq Ids /\ outputs' \subseteq Plans
  BY <1>0, <1>1 DEF TypeOK
<1>4. TypeOK'
  BY <1>0, <1>1, <1>3, EndFact DEF TypeOK, cloudVars
<1>5. MadeInv' /\ CreatedOnce' /\ HistoricalIsGone'
  BY <1>1, StillKept
<1>6. ModeInv'
  BY <1>2, ModeKept DEF Others, Destroying, Deploying
<1>7. Grows(None)
  BY <1>0, <1>1, GrowsSame
<1>8. DoneInv(p)'
  <2> SUFFICES ASSUME NEW m \in tfState[p] \cap ServerVMs
               PROVE  \E j \in jobServers' : Good(j, m)'
    BY <1>1 DEF DoneInv, cloudVars
  <2>1. \E j \in recorded[p] : Good(j, m)
    BY <1>0, <1>1 DEF PlanInv, ProgressInv, Recording
  <2> QED
    BY <1>0, <1>1, <1>7, <2>1, GoodKept
<1>9. PlanInv(p)'
  BY <1>2, <1>8 DEF PlanInv, CurInv, ProgressInv, DeletedInv, Recording
<1>10. \A q \in Plans \ {p} : PlanInv(q)'
  BY <1>1, <1>2, SameServersKept DEF SamePlan, Others, cloudVars
<1> QED
  BY <1>4, <1>5, <1>6, <1>9, <1>10 DEF ServersInv

-----------------------------------------------------------------------------
(* The job that deletes the resource. *)

LEMMA PreDestroyKept ==
    ASSUME ServersInv, NEW p \in Plans, PreDestroy(p)
    PROVE  ServersInv'
<1>0. TypeOK
  BY DEF ServersInv
<1>1. /\ pc[p] = "idle" /\ status[p] \in {"done", "failed"}
      /\ \A q \in Plans : pc[q] \notin Deploying
      /\ pc' = [pc EXCEPT ![p] = "destroy"]
      /\ UNCHANGED <<cloudVars, server, resultVars, loopVars, check>>
  BY DEF PreDestroy, Goto
<1>2. pc' \in [Plans -> {"idle"} \cup Deploying \cup Destroying]
  BY <1>0, <1>1 DEF TypeOK, Destroying
<1>3. TypeOK'
  BY <1>0, <1>1, <1>2 DEF TypeOK, cloudVars, resultVars, loopVars
<1>4. pc'[p] = "destroy" /\ status'[p] = status[p] /\ Others(p)
  BY <1>0, <1>1 DEF TypeOK, Others, resultVars, loopVars
<1>5. MadeInv' /\ CreatedOnce' /\ HistoricalIsGone'
  BY <1>1, StillKept
<1>6. ModeInv'
  BY <1>1, <1>4 DEF ModeInv, Others, Deploying
<1>7. PlanInv(p)'
  BY <1>1, <1>4 DEF PlanInv, CurInv, ProgressInv, DoneInv, DeletedInv, Recording
<1>8. \A q \in Plans \ {p} : PlanInv(q)'
  BY <1>1, <1>4, SameServersKept DEF SamePlan, Others, cloudVars, resultVars
<1> QED
  BY <1>3, <1>5, <1>6, <1>7, <1>8 DEF ServersInv

LEMMA DestroyKept ==
    ASSUME ServersInv, NEW p \in Plans, Destroy(p)
    PROVE  ServersInv'
<1>0. TypeOK /\ MadeInv
  BY DEF ServersInv
<1>1. pc[p] = "destroy" /\ UNCHANGED <<made, server, stateFile, jobServers, outputs>>
  BY DEF Destroy
<1>2. PICK gone \in SUBSET tfState[p] :
          /\ cloud' = cloud \ gone
          /\ tfState' = [tfState EXCEPT ![p] = @ \ gone]
          /\ \/ /\ gone = tfState[p]
                /\ Goto(p, "post")
                /\ check' = [check EXCEPT ![p] = {i \in Recorded : server[i].owned}]
                /\ UNCHANGED <<status, loopVars>>
             \/ End(p, "failed")
  BY DEF Destroy
<1>3. /\ cloud' \subseteq VMs /\ tfState' \in [Plans -> SUBSET VMs]
      /\ tfState'[p] = tfState[p] \ gone
      /\ \A q \in Plans \ {p} : tfState'[q] = tfState[q]
  BY <1>0, <1>2 DEF TypeOK
<1>4. MadeInv'
  <2>1. \A q \in Plans : tfState'[q] \subseteq made[q] /\ cloud' \cap made[q] \subseteq tfState'[q]
    BY <1>0, <1>2, <1>3 DEF MadeInv
  <2> QED
    BY <1>0, <1>1, <1>2, <2>1 DEF MadeInv, Recorded
<1>5. CreatedOnce' /\ HistoricalIsGone'
  BY <1>1, <1>2 DEF ServersInv, CreatedOnce, HistoricalIsGone, Recorded
<1>6. Recorded' = Recorded
  BY <1>1 DEF Recorded
<1>7. CASE /\ gone = tfState[p]
           /\ Goto(p, "post")
           /\ check' = [check EXCEPT ![p] = {i \in Recorded : server[i].owned}]
           /\ UNCHANGED <<status, loopVars>>
  <2>1. /\ pc' \in [Plans -> {"idle"} \cup Deploying \cup Destroying]
        /\ check' \in [Plans -> SUBSET Ids]
    BY <1>0, <1>7 DEF TypeOK, Goto, Destroying, Recorded
  <2>2. TypeOK'
    BY <1>0, <1>1, <1>3, <1>7, <2>1 DEF TypeOK, loopVars
  <2>3. /\ pc'[p] = "post" /\ status'[p] = status[p] /\ Others(p)
        /\ check'[p] = {i \in Recorded : server[i].owned}
        /\ tfState'[p] = {}
    BY <1>0, <1>3, <1>7 DEF TypeOK, Goto, Others, loopVars
  <2>4. ModeInv'
    BY <1>1, <2>3, ModeKept DEF Others, Destroying, Deploying
  <2>5. DeletedInv(p)'
    <3>1. \A i \in Recorded : Claimed(i, p)' => i \in check'[p]
      BY <1>1, <2>3 DEF Claimed
    <3>2. status[p] = "deleted" => \A i \in Recorded : Claimed(i, p) => server[i].state = "HISTORICAL"
      BY DEF ServersInv, PlanInv, DeletedInv
    <3> QED
      BY <1>1, <1>6, <2>3, <3>1, <3>2 DEF DeletedInv, Claimed
  <2>6. PlanInv(p)'
    BY <2>3, <2>5 DEF PlanInv, CurInv, ProgressInv, DoneInv, Recording
  <2>7. \A q \in Plans \ {p} : PlanInv(q)'
    BY <1>1, <1>3, <2>3, SameServersKept DEF SamePlan, Others
  <2> QED
    BY <1>4, <1>5, <2>2, <2>4, <2>6, <2>7 DEF ServersInv
<1>8. CASE End(p, "failed")
  <2>1. pc'[p] = "idle" /\ status'[p] = "failed" /\ Others(p)
    BY <1>0, <1>8, EndFact
  <2>2. TypeOK'
    BY <1>0, <1>1, <1>3, <1>8, EndFact DEF TypeOK
  <2>3. ModeInv'
    BY <2>1, ModeKept DEF Others, Destroying, Deploying
  <2>4. PlanInv(p)'
    BY <2>1, IdlePlan
  <2>5. \A q \in Plans \ {p} : PlanInv(q)'
    BY <1>1, <1>3, <2>1, SameServersKept DEF SamePlan, Others
  <2> QED
    BY <1>4, <1>5, <2>2, <2>3, <2>4, <2>5 DEF ServersInv
<1> QED
  BY <1>2, <1>7, <1>8

LEMMA SetHistoricalKept ==
    ASSUME ServersInv, NEW p \in Plans, NEW i \in Ids, SetHistorical(p, i)
    PROVE  ServersInv'
<1>0. TypeOK /\ PlanInv(p)
  BY DEF ServersInv
<1>1. /\ pc[p] = "post" /\ i \in check[p]
      /\ server[i].created_by_terraform
      /\ check' = [check EXCEPT ![p] = @ \ {i}]
      /\ server' = IF server[i].handler /\ server[i].vm \notin cloud
                   THEN [server EXCEPT ![i].state = "HISTORICAL"] ELSE server
      /\ UNCHANGED <<cloudVars, resultVars, pc, loopVars>>
  BY DEF SetHistorical
<1>2. /\ check' \in [Plans -> SUBSET Ids] /\ check'[p] = check[p] \ {i}
      /\ Others(p)
  BY <1>0, <1>1 DEF TypeOK, Others, resultVars, loopVars
\* Who owns what is as before, no server is ACTIVE again, and i is HISTORICAL if
\* it has a handler and its machine is gone.
<1>3. /\ Grows(None)
      /\ server' \in [Ids -> Server \cup {NoServer}]
      /\ Recorded' = Recorded
      /\ \A j \in Recorded :
            /\ server'[j].vm = server[j].vm /\ server'[j].owned = server[j].owned
            /\ server'[j].handler = server[j].handler
            /\ server[j].state = "HISTORICAL" => server'[j].state = "HISTORICAL"
      /\ i \in Recorded /\ server[i].handler /\ server[i].vm \notin cloud
            => server'[i].state = "HISTORICAL"
      /\ MadeInv' /\ CreatedOnce' /\ HistoricalIsGone'
  <2>1. CASE i \in Recorded /\ server[i].handler /\ server[i].vm \notin cloud
    <3> DEFINE r == [server[i] EXCEPT !.state = "HISTORICAL"]
    <3>1. server[i] \in Server
      BY <1>0, <2>1, RecordedFact
    <3>2. /\ r \in Server /\ r.vm = server[i].vm /\ r.owned = server[i].owned
          /\ r.env = server[i].env /\ r.by = server[i].by
          /\ r.handler = server[i].handler /\ r.state = "HISTORICAL"
      BY <3>1 DEF Server
    <3>3. server' = [server EXCEPT ![i] = r]
      BY <1>0, <1>1, <2>1 DEF TypeOK
    <3>4. r.vm \notin cloud
      BY <2>1, <3>2
    <3> HIDE DEF r
    <3>5. /\ Grows(None)
          /\ server' \in [Ids -> Server \cup {NoServer}]
          /\ Recorded' = Recorded
          /\ server'[i] = r
          /\ \A j \in Recorded \ {i} : server'[j] = server[j]
          /\ MadeInv' /\ CreatedOnce' /\ HistoricalIsGone'
      BY <1>1, <2>1, <3>2, <3>3, <3>4, WriteOver
    <3> QED
      BY <3>2, <3>5
  <2>2. CASE ~(i \in Recorded /\ server[i].handler /\ server[i].vm \notin cloud)
    <3>1. UNCHANGED server
      <4>1. CASE i \in Recorded
        BY <1>1, <2>2, <4>1
      <4>2. CASE i \notin Recorded
        <5>1. server[i] = NoServer
          BY <4>2 DEF Recorded
        <5>2. [NoServer EXCEPT !.state = "HISTORICAL"] = NoServer
          BY DEF NoServer
        <5> QED
          BY <1>0, <1>1, <5>1, <5>2 DEF TypeOK
      <4> QED
        BY <4>1, <4>2
    <3> QED
      BY <1>0, <1>1, <2>2, <3>1, GrowsSame, StillKept DEF TypeOK
  <2> QED
    BY <2>1, <2>2
<1>4. TypeOK'
  BY <1>0, <1>1, <1>2, <1>3 DEF TypeOK, cloudVars, resultVars, loopVars
<1>5. ModeInv'
  BY <1>1 DEF ServersInv, ModeInv, resultVars
<1>6. \A q \in Plans : \A j \in Recorded' : Claimed(j, q)' => j \in Recorded /\ Claimed(j, q)
  BY <1>1, <1>3 DEF Claimed, cloudVars
<1>7. PlanInv(p)'
  <2>1. pc'[p] = "post" /\ status'[p] = status[p] /\ tfState'[p] = tfState[p] /\ UNCHANGED cloud
    BY <1>1 DEF cloudVars, resultVars
  <2>2. ASSUME NEW j \in Recorded, Claimed(j, p)
        PROVE  j \in check'[p] \/ server'[j].state = "HISTORICAL"
    <3>1. j \in check[p] \/ server[j].state = "HISTORICAL"
      BY <1>0, <1>1, <2>2 DEF PlanInv, DeletedInv
    <3>2. server[j].vm \notin cloud
      BY <1>0, <1>1, <2>2 DEF PlanInv, DeletedInv, Claimed, ServersInv, MadeInv
    <3> QED
      BY <1>2, <1>3, <2>2, <3>1, <3>2 DEF Claimed
  <2>3. DeletedInv(p)'
    BY <1>0, <1>1, <1>3, <1>6, <2>1, <2>2 DEF PlanInv, DeletedInv
  <2> QED
    BY <2>1, <2>3 DEF PlanInv, CurInv, ProgressInv, DoneInv, Recording
<1>8. \A q \in Plans \ {p} : PlanInv(q)'
  <2> SUFFICES ASSUME NEW q \in Plans \ {p}
               PROVE  PlanInv(q)'
    OBVIOUS
  <2>1. SamePlan(q) /\ jobServers' = jobServers
    BY <1>1, <1>2 DEF SamePlan, Others, cloudVars, resultVars
  <2> QED
    BY <1>3, <1>6, <2>1, SamePlanKept
<1> QED
  BY <1>3, <1>4, <1>5, <1>7, <1>8 DEF ServersInv

LEMMA FinishDeleteKept ==
    ASSUME ServersInv, NEW p \in Plans, FinishDelete(p)
    PROVE  ServersInv'
<1>0. TypeOK /\ PlanInv(p)
  BY DEF ServersInv
<1>1. /\ pc[p] = "post" /\ check[p] = {}
      /\ End(p, "deleted")
      /\ UNCHANGED <<cloudVars, server, stateFile, jobServers, outputs>>
  BY DEF FinishDelete
<1>2. pc'[p] = "idle" /\ status'[p] = "deleted" /\ Others(p)
  BY <1>0, <1>1, EndFact
<1>3. TypeOK'
  BY <1>0, <1>1, EndFact DEF TypeOK, cloudVars
<1>4. MadeInv' /\ CreatedOnce' /\ HistoricalIsGone'
  BY <1>1, StillKept
<1>5. ModeInv'
  BY <1>1, <1>2, ModeKept DEF Others, Destroying, Deploying
<1>6. DeletedInv(p)'
  BY <1>0, <1>1, <1>2 DEF PlanInv, DeletedInv, Claimed, Recorded, cloudVars
<1>7. PlanInv(p)'
  BY <1>2, <1>6 DEF PlanInv, CurInv, ProgressInv, DoneInv, Recording
<1>8. \A q \in Plans \ {p} : PlanInv(q)'
  BY <1>1, <1>2, SameServersKept DEF SamePlan, Others, cloudVars
<1> QED
  BY <1>3, <1>4, <1>5, <1>7, <1>8 DEF ServersInv

-----------------------------------------------------------------------------
(* The theorems. *)

LEMMA InitInv == Init => ServersInv
<1> SUFFICES ASSUME Init
             PROVE  ServersInv
  OBVIOUS
<1>1. Recorded = {}
  BY DEF Init, Recorded
<1>2. TypeOK
  BY DEF Init, TypeOK, Environments
<1>3. MadeInv /\ ModeInv
  BY <1>1 DEF Init, MadeInv, ModeInv, Destroying
<1>4. CreatedOnce /\ HistoricalIsGone
  BY <1>1 DEF CreatedOnce, HistoricalIsGone
<1>5. \A p \in Plans : PlanInv(p)
  BY <1>1 DEF Init, PlanInv, CurInv, ProgressInv, DoneInv, DeletedInv, Recording
<1> QED
  BY <1>2, <1>3, <1>4, <1>5 DEF ServersInv

LEMMA JobKept ==
    ASSUME ServersInv, NEW p \in Plans, Job(p)
    PROVE  ServersInv'
<1>1. ASSUME Fail(p) PROVE ServersInv'
  BY <1>1, FailKept
<1>2. CASE GetStateFile(p) \/ SaveStateFile(p) \/ RenderInputs(p) \/ RenderInputsFails(p)
  BY <1>1, <1>2, GetStateFileKept, SaveStateFileKept, RenderInputsKept DEF RenderInputsFails
<1>3. CASE Apply(p) \/ ParseStateFile(p) \/ LookupFails(p)
  BY <1>1, <1>3, ApplyKept, ParseStateFileKept DEF LookupFails
<1>4. CASE \E vm \in VMs : GetServer(p, vm) \/ SeveralServers(p, vm)
  BY <1>1, <1>4, GetServerKept DEF SeveralServers
<1>5. CASE CreateServer(p) \/ MarkServer(p) \/ ImportServer(p)
  BY <1>5, CreateServerKept, MarkServerKept, ImportServerKept
<1>6. CASE FinishDeploy(p) \/ WriteOutputsFails(p)
  BY <1>1, <1>6, FinishDeployKept DEF WriteOutputsFails
<1>7. CASE PreDestroy(p) \/ Destroy(p)
  BY <1>7, PreDestroyKept, DestroyKept
<1>8. CASE \E i \in Ids : SetHistorical(p, i) \/ NotMarked(p, i)
  BY <1>1, <1>8, SetHistoricalKept DEF NotMarked
<1>9. CASE FinishDelete(p) \/ Crash(p)
  BY <1>1, <1>9, FinishDeleteKept DEF Crash
<1> QED
  BY <1>2, <1>3, <1>4, <1>5, <1>6, <1>7, <1>8, <1>9 DEF Job

LEMMA NextInv == ServersInv /\ [Next]_vars => ServersInv'
<1> SUFFICES ASSUME ServersInv, [Next]_vars
             PROVE  ServersInv'
  OBVIOUS
<1>1. ASSUME NEW vm \in VMs, LoseMachine(vm) \/ Synchronize(vm)
      PROVE  ServersInv'
  BY <1>1, LoseMachineKept, SynchronizeKept
<1>2. ASSUME NEW p \in Plans, Job(p)
      PROVE  ServersInv'
  BY <1>2, JobKept
<1>3. CASE UNCHANGED vars
  <2>1. UNCHANGED <<made, cloud, tfState, server, stateFile, jobServers, outputs, status,
                    pc, queue, cur, rec, environment, recorded, check>>
    BY <1>3 DEF vars, cloudVars, resultVars, loopVars
  <2>2. TypeOK'
    BY <2>1 DEF ServersInv, TypeOK
  <2>3. MadeInv' /\ CreatedOnce' /\ HistoricalIsGone'
    BY <2>1, StillKept DEF cloudVars
  <2>4. ModeInv'
    BY <2>1 DEF ServersInv, ModeInv
  <2>5. \A q \in Plans : PlanInv(q)'
    BY <2>1, SameServersKept DEF SamePlan
  <2> QED
    BY <2>2, <2>3, <2>4, <2>5 DEF ServersInv
<1> QED
  BY <1>1, <1>2, <1>3 DEF Next

\* What the properties say follows from the inductive invariant.
LEMMA InvImplies == ServersInv => TypeOK /\ CreatedOnce /\ DoneRecordsAll
                                  /\ HistoricalIsGone /\ DeletedIsHistorical
<1> SUFFICES ASSUME ServersInv
             PROVE  DoneRecordsAll /\ DeletedIsHistorical
  BY DEF ServersInv
<1>1. DoneRecordsAll
  <2> SUFFICES ASSUME NEW p \in Plans, status[p] = "done", pc[p] = "idle",
                      NEW vm \in tfState[p] \cap ServerVMs
               PROVE  \E i \in Records(vm) \cap jobServers :
                         /\ server[i].owned
                         /\ vm \in Importable => server[i].env = "ordered" /\ server[i].handler
    BY DEF DoneRecordsAll
  <2>1. PICK i \in jobServers : Good(i, vm)
    BY DEF ServersInv, PlanInv, DoneInv
  <2>2. i \in Records(vm)
    BY <2>1 DEF Good, Records
  <2> QED
    BY <2>1, <2>2 DEF Good
<1>2. DeletedIsHistorical
  BY DEF ServersInv, PlanInv, DeletedInv, Claimed, DeletedIsHistorical
<1> QED
  BY <1>1, <1>2

LEMMA Invariance == Spec => []ServersInv
  BY InitInv, NextInv, PTL DEF Spec

\* Every variable keeps its type, for every set of plans, machines and records
\* and every combination of faults.
THEOREM TypeCorrect == Spec => []TypeOK
  BY Invariance, InvImplies, PTL

\* The hook never creates two servers for one machine, however often the jobs of
\* the plans fail, die and are run again (tf_post_provision.py:171-204).
THEOREM CreatedAtMostOnce == Spec => []CreatedOnce
  BY Invariance, InvImplies, PTL

\* A job that ends well has recorded every machine of its state file, whoever
\* recorded it first (post_provision, tf_post_provision.py:71-86).
THEOREM AllRecorded == Spec => []DoneRecordsAll
  BY Invariance, InvImplies, PTL

\* A server is HISTORICAL only if its machine is gone, while the plans of the
\* resource are destroyed side by side (tf_post_destroy.py:36-50).
THEOREM HistoricalOnlyIfGone == Spec => []HistoricalIsGone
  BY Invariance, InvImplies, PTL

\* When a plan has been deleted, the servers of its machines that belong to the
\* resource and have a handler are HISTORICAL (tf_post_destroy.py:36-50).
THEOREM DeletedLeavesHistorical == Spec => []DeletedIsHistorical
  BY Invariance, InvImplies, PTL
=============================================================================
