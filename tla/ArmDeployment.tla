---------------------------- MODULE ArmDeployment ----------------------------
(***************************************************************************)
(* The blueprints that deploy an ARM template to Azure and tear it down:   *)
(* the AKS cluster, the blueprints made by the ARM Builder, and the ARM    *)
(* template from GitLab.  The build writes the ids of what Azure created   *)
(* on the resource; the teardown deletes what it reads there.  Calls to    *)
(* Azure fail, a deployment may fail half way, a failed job is run again.  *)
(*                                                                         *)
(* Azure is not in the sources: it creates what the template describes and *)
(* refuses to delete what something else uses.                             *)
(***************************************************************************)
EXTENDS Naturals, Sequences, FiniteSets, Selection

CONSTANTS
    Ids,       \* Azure ids of what the template creates, the VMs' disks included
    VMs,       \* those of type virtualMachines
    Children,  \* ids of more than nine parts, below the id of a parent
    Parent,    \* [Children -> Ids]
    Disks,     \* [VMs -> Seq(Ids)]: osDisk and dataDisks
    Nics,      \* [VMs -> Seq(Ids)]: networkInterfaces
    Uses       \* [Ids -> SUBSET Ids]: what cannot be deleted before it

Blueprints == {"aks", "arm_builder", "arm_gitlab"}
Deployment == "deployment"    \* the deployment object itself

VARIABLES
    armBlueprint,  \* whose scripts the resource's jobs run
    nested,        \* ids whose type only a nested template declares
    azure,         \* what exists in Azure
    outputs,       \* outputResources of the deployment
    handled,       \* azure_rh_id and azure_deployment_id are on the resource
    recordedIds,   \* output_resource_0_id, output_resource_1_id, ...
    armServers,    \* VMs with a server record that belongs to the resource
    armPc,         \* control point of the build or teardown job
    built,         \* result of the build job
    torn,          \* result of the last teardown job
    ids,           \* azure_resource_ids of the teardown
    at,            \* position in the loop of the job
    attempts,      \* passes over ids that are done
    failedIds,     \* failed_ids of this pass
    refused        \* whether Azure failed a call of this teardown, or of an
                   \* earlier one that ended in an exception, for no reason of
                   \* its own

buildVars    == <<armBlueprint, nested, outputs, handled, recordedIds, built>>
teardownVars == <<torn, ids, attempts, failedIds, refused>>
vars == <<buildVars, azure, armServers, armPc, at, teardownVars>>

Results == {"none", "SUCCESS", "WARNING", "FAILURE"}
Range(s) == {s[i] : i \in DOMAIN s}

TypeOK == /\ armBlueprint \in Blueprints
          /\ nested \subseteq Ids
          /\ azure \subseteq Ids \cup {Deployment}
          /\ Range(outputs) \subseteq Ids /\ Range(recordedIds) \subseteq Ids
          /\ handled \in BOOLEAN /\ refused \in BOOLEAN
          /\ armServers \subseteq VMs
          /\ armPc \in {"new", "deploy", "record", "idle", "delete", "gone"}
          /\ built \in Results /\ torn \in Results
          /\ Range(ids) \subseteq Ids \cup {Deployment}
          /\ at \in 1 .. Len(outputs) + Len(ids) + 1
          /\ attempts \in 0 .. 2
          /\ failedIds \subseteq Range(ids)

Init == /\ armBlueprint = "aks" /\ nested = {}
        /\ azure = {} /\ outputs = <<>>
        /\ handled = FALSE /\ recordedIds = <<>> /\ armServers = {}
        /\ armPc = "new" /\ built = "none" /\ torn = "none"
        /\ ids = <<>> /\ at = 1 /\ attempts = 0
        /\ failedIds = {} /\ refused = FALSE

-----------------------------------------------------------------------------
(* The build jobs. *)

\* The disks of a VM come with it and are no output of the deployment.
OutputIds == Ids \ UNION {Range(Disks[v]) : v \in VMs}
OutputOrders == {s \in [1 .. Cardinality(OutputIds) -> OutputIds] :
                    Range(s) = OutputIds}

\* The job reads its parameters and the template, or fails before it asks
\* Azure for anything; nested: types whose API version it does not learn.
Starts(b, n) ==
    /\ armPc = "new"
    /\ armBlueprint' = b /\ nested' = n
    /\ \/ armPc' = "deploy" /\ UNCHANGED built
       \/ armPc' = "idle" /\ built' = "FAILURE"
    /\ UNCHANGED <<azure, outputs, handled, recordedIds, armServers, at, teardownVars>>

\* The template of the AKS cluster declares every type it uses, and the API
\* version of each type declared is written to the resource.
OrderCluster == Starts("aks", {})

\* A template may use types that only a nested template declares.
OrderBuilder(n) == Starts("arm_builder", n)

\* The template from GitLab: its teardown has a version for every type.
OrderGitLab == Starts("arm_gitlab", {})

\* deploy_template returns: what the template describes exists.
Deploy ==
    /\ armPc = "deploy"
    /\ azure' = Ids \cup {Deployment}
    /\ outputs' \in OutputOrders
    /\ handled' = TRUE
    /\ armPc' = "record"
    /\ UNCHANGED <<armBlueprint, nested, recordedIds, built, armServers, at, teardownVars>>

\* deploy_template raises: the deployment failed or ran into the timeout, with
\* some of it there and nothing written to the resource.
DeployFails ==
    /\ armPc = "deploy"
    /\ azure' \in {made \cup {Deployment} : made \in
                      {S \in SUBSET Ids : \A r \in S : Uses[r] \subseteq S}}
    /\ armPc' = "idle" /\ built' = "FAILURE"
    /\ UNCHANGED <<armBlueprint, nested, outputs, handled, recordedIds, armServers, at,
                   teardownVars>>

\* An output of the AKS or the ARM Builder deployment: a VM becomes a server
\* of the resource, and the ids of its disks are written before its own.
RecordOutput ==
    /\ armPc = "record" /\ armBlueprint # "arm_gitlab"
    /\ at <= Len(outputs)
    /\ LET id == outputs[at]
       IN  IF id \in VMs
           THEN /\ id \notin nested
                /\ armServers' = armServers \cup {id}
                /\ recordedIds' = recordedIds \o Append(Disks[id], id)
           ELSE recordedIds' = Append(recordedIds, id) /\ UNCHANGED armServers
    /\ at' = at + 1
    /\ UNCHANGED <<armBlueprint, nested, outputs, handled, built, azure, armPc, teardownVars>>

\* The API version of the VM's type is unknown, the VM cannot be read, or its
\* server record is saved and cannot be completed.
RecordFails ==
    /\ armPc = "record" /\ armBlueprint # "arm_gitlab"
    /\ at <= Len(outputs)
    /\ outputs[at] \in VMs
    /\ armServers' \in {armServers, armServers \cup ({outputs[at]} \ nested)}
    /\ armPc' = "idle" /\ built' = "FAILURE" /\ at' = 1
    /\ UNCHANGED <<armBlueprint, nested, outputs, handled, recordedIds, azure, teardownVars>>

\* An output of the deployment from GitLab: its id and its type.
RecordGitLabOutput ==
    /\ armPc = "record" /\ armBlueprint = "arm_gitlab"
    /\ at <= Len(outputs)
    /\ recordedIds' = Append(recordedIds, outputs[at])
    /\ at' = at + 1
    /\ UNCHANGED <<armBlueprint, nested, outputs, handled, built, azure, armServers, armPc,
                   teardownVars>>

BuildDone ==
    /\ armPc = "record" /\ at = Len(outputs) + 1
    /\ armPc' = "idle" /\ built' = "SUCCESS" /\ at' = 1
    /\ UNCHANGED <<armBlueprint, nested, outputs, handled, recordedIds, azure, armServers,
                   teardownVars>>

-----------------------------------------------------------------------------
(* The teardown jobs. *)

\* Bug: VMs are appended like everything else.
GatheredAppending ==
    LET gathered[i \in 0 .. Len(recordedIds)] ==
            IF i = 0 THEN <<>>
            ELSE LET id == recordedIds[i]
                 IN  IF id \in Children \cup Range(gathered[i - 1]) THEN gathered[i - 1]
                     ELSE Append(gathered[i - 1], id)
    IN  gathered[Len(recordedIds)]

\* The parents among the recorded ids, VMs first.
Gathered ==
    LET gathered[i \in 0 .. Len(recordedIds)] ==
            IF i = 0 THEN <<>>
            ELSE LET id == recordedIds[i]
                     before == gathered[i - 1]
                 IN  CASE id \in Children \cup (Range(before) \ VMs) -> before
                       [] id \in VMs \ Children                   -> <<id>> \o before
                       [] OTHER                                   -> Append(before, id)
    IN  gathered[Len(recordedIds)]

\* From GitLab: all recorded ids, and after a VM of those that could be read
\* its disks and network interfaces.
GatheredWithDependents(read) ==
    LET gathered[i \in 0 .. Len(recordedIds)] ==
            IF i = 0 THEN <<>>
            ELSE LET id == recordedIds[i]
                     before == gathered[i - 1]
                     own == IF id \in Range(before) THEN before ELSE Append(before, id)
                 IN  IF id \in read
                     THEN own \o Selected(Disks[id] \o Nics[id], Ids \ Range(own))
                     ELSE own
    IN  gathered[Len(recordedIds)]

\* A teardown of a resource without a handler id has nothing to do.
NothingToTearDown ==
    /\ armPc = "idle" /\ ~handled
    /\ armPc' = "gone" /\ torn' = "SUCCESS"
    /\ UNCHANGED <<buildVars, azure, armServers, at, ids, attempts, failedIds, refused>>

\* A VM that cannot be read, for whatever reason, counts as gone.
StartTeardown ==
    /\ armPc = "idle" /\ handled
    /\ \E read \in SUBSET (VMs \cap azure) :
          ids' = CASE armBlueprint = "aks"         -> Gathered
                   [] armBlueprint = "arm_builder" -> Append(Gathered, Deployment)
                   [] OTHER -> Append(GatheredWithDependents(read), Deployment)
    /\ armPc' = "delete" /\ attempts' = 0 /\ failedIds' = {}
    /\ UNCHANGED <<buildVars, azure, armServers, at, torn, refused>>

InLoop == armPc = "delete" /\ at <= Len(ids)

\* Deleting a parent deletes its children.
Removed(id) == {id} \cup {c \in Children : Parent[c] = id}

InUse(id) == \E r \in azure \ Removed(id) : r \in Ids /\ id \in Uses[r]

Deletable(id) == id \in azure \ nested /\ ~InUse(id)

\* A delete that was not waited for to its end may still take effect.
MaybeDeleted(id) == \/ UNCHANGED azure
                    \/ Deletable(id) /\ azure' = azure \ Removed(id)

\* An exception ends the job; CloudBolt runs the teardown again.
TeardownFails(fault) ==
    /\ armPc' = "idle" /\ torn' = "FAILURE" /\ at' = 1
    /\ refused' = (refused \/ fault)
    /\ UNCHANGED <<buildVars, ids, attempts, failedIds>>

\* The loop expects a CloudError of the read and any exception of the delete.
\* Whatever else is raised, there or before it, and the death of the job end
\* the teardown where it is; after the loop, with some server records gone.
TeardownRaises ==
    /\ armPc = "delete"
    /\ \/ at <= Len(ids) /\ MaybeDeleted(ids[at]) /\ UNCHANGED armServers
       \/ /\ at > Len(ids) /\ UNCHANGED azure
          /\ armServers' \in IF failedIds = {} \/ attempts = 1 THEN SUBSET armServers
                             ELSE {armServers}
    /\ TeardownFails(FALSE)

\* get_api_version: no version is known for the type.
UnknownApiVersion ==
    /\ InLoop /\ armBlueprint # "arm_gitlab"
    /\ ids[at] \in nested
    /\ TeardownFails(FALSE) /\ UNCHANGED <<azure, armServers>>

\* The id is gone already: nothing to delete, nothing failed.
AlreadyGone ==
    /\ InLoop /\ ids[at] \notin nested \cup azure
    /\ at' = at + 1
    /\ UNCHANGED <<buildVars, azure, armServers, armPc, teardownVars>>

DeleteId ==
    /\ InLoop /\ Deletable(ids[at])
    /\ azure' = azure \ Removed(ids[at])
    /\ at' = at + 1
    /\ UNCHANGED <<buildVars, armServers, armPc, teardownVars>>

\* Bug: an id that cannot be read is skipped like one that is gone.
DeleteFailsSkipping(fault) ==
    /\ InLoop /\ armBlueprint # "arm_gitlab"
    /\ ids[at] \notin nested
    /\ fault \/ (ids[at] \in azure /\ InUse(ids[at]))
    /\ failedIds' = IF fault THEN failedIds ELSE failedIds \cup {ids[at]}
    /\ refused' = (refused \/ fault)
    /\ at' = at + 1
    /\ UNCHANGED <<buildVars, azure, armServers, armPc, torn, ids, attempts>>

\* Azure refuses to delete what is in use, or fails for no reason of ours
\* (the read that precedes the delete may be what fails): the id is tried
\* again in the next pass.
DeleteFails(fault) ==
    /\ InLoop /\ armBlueprint # "arm_gitlab"
    /\ ids[at] \notin nested
    /\ fault \/ (ids[at] \in azure /\ InUse(ids[at]))
    /\ failedIds' = failedIds \cup {ids[at]}
    /\ refused' = (refused \/ fault)
    /\ at' = at + 1
    /\ IF fault THEN MaybeDeleted(ids[at]) ELSE UNCHANGED azure
    /\ UNCHANGED <<buildVars, armServers, armPc, torn, ids, attempts>>

\* From GitLab, a failing delete is an exception.
GitLabDeleteFails(fault) ==
    /\ InLoop /\ armBlueprint = "arm_gitlab"
    /\ fault \/ (ids[at] \in azure /\ InUse(ids[at]))
    /\ IF fault THEN MaybeDeleted(ids[at]) ELSE UNCHANGED azure
    /\ TeardownFails(fault) /\ UNCHANGED armServers

\* What failed is tried once more, after all else.
NextPass ==
    /\ armPc = "delete" /\ at > Len(ids)
    /\ failedIds # {} /\ attempts = 0
    /\ attempts' = 1 /\ failedIds' = {} /\ at' = 1
    /\ UNCHANGED <<buildVars, azure, armServers, armPc, torn, ids, refused>>

\* The server records go in any case (the teardown from GitLab leaves them,
\* it never made any).
TeardownDone ==
    /\ armPc = "delete" /\ at > Len(ids)
    /\ failedIds = {} \/ attempts = 1
    /\ armServers' = {}
    /\ torn' = IF failedIds = {} THEN "SUCCESS" ELSE "WARNING"
    /\ armPc' = "gone" /\ at' = 1
    /\ UNCHANGED <<buildVars, azure, ids, attempts, failedIds, refused>>

-----------------------------------------------------------------------------
Next ==
    \/ OrderCluster \/ OrderGitLab
    \/ \E n \in SUBSET (Ids \ UNION {Range(Disks[v]) : v \in VMs}) : OrderBuilder(n)
    \/ Deploy \/ DeployFails
    \/ RecordOutput \/ RecordFails \/ RecordGitLabOutput \/ BuildDone
    \/ NothingToTearDown \/ StartTeardown \/ TeardownRaises
    \/ UnknownApiVersion \/ AlreadyGone \/ DeleteId
    \/ \E fault \in BOOLEAN : DeleteFails(fault) \/ GitLabDeleteFails(fault)
    \/ NextPass \/ TeardownDone

Spec == Init /\ [][Next]_vars

-----------------------------------------------------------------------------
(* Properties. *)

\* What a successful build created, a teardown of AKS or of the ARM Builder
\* that reports success has deleted, disks and children included, wherever in
\* its loop an earlier run of it raised or died.  (The teardown from GitLab asks the VM for its
\* disks, so once the VM is gone a second run does not find them.)
TeardownLeavesNothing ==
    built = "SUCCESS" /\ torn = "SUCCESS" /\ armBlueprint # "arm_gitlab"
        => azure \subseteq (IF armBlueprint = "aks" THEN {Deployment} ELSE {})

\* Two passes with the VMs first are enough for what uses each other no deeper
\* than a VM, its network interface and the network: whatever the order of the
\* outputs, and wherever in the loop an earlier run of it raised or died, a
\* teardown only ends with a warning if Azure failed a call.
TwoPassesSuffice == built = "SUCCESS" /\ torn = "WARNING" => refused
=============================================================================
