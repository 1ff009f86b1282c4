-------------------------- MODULE TerraformServers --------------------------
(***************************************************************************)
(* The hooks CloudBolt runs around the Terraform plans of one resource: a  *)
(* plan's job makes sure that a state file exists, applies the plan, and   *)
(* records the machines it finds in the state file as servers; the delete  *)
(* job destroys the plan and marks the servers that are gone.  The plans   *)
(* of a resource run side by side, jobs fail, die and are run again, and   *)
(* the synchronization of a resource handler records machines as well.     *)
(*                                                                         *)
(* Terraform, the provider, the job engine and the synchronization are not *)
(* in the sources.                                                         *)
(***************************************************************************)
EXTENDS FiniteSets

CONSTANTS
    Plans,       \* Terraform plans of the resource, one state file each
    VMs,         \* bound: the machines that can ever be created
    ServerVMs,   \* of a type in TERRAFORM_VM_TYPES and with mode "managed"
    Importable,  \* AWS and vSphere machines in a state file of version 4
    Ids,         \* bound: the server records that can be created
    None,        \* no machine, no server
    Env          \* what may happen: "crash", "inputs", "lookup",
                 \* "outputs", "lost", "sync"

ASSUME TerraformAssumption ==
    /\ Importable \subseteq ServerVMs
    /\ ServerVMs \subseteq VMs
    /\ None \notin VMs \cup Ids

VARIABLES
    made,        \* [Plans -> the machines its applies created]
    cloud,       \* the machines that exist
    tfState,     \* [Plans -> the machines in its state file]
    stateFile,   \* [Plans -> "none", a "row" without a file, "file"]
    server,      \* [Ids -> a server record, or NoServer]
    jobServers,  \* ids in the server_set of the blueprint's job
    outputs,     \* plans whose outputs are parameters of the resource
    status,      \* [Plans -> how its last job ended]
    pc,          \* [Plans -> control point of its job]
    queue,       \* [Plans -> machines left to record]
    cur,         \* [Plans -> the machine at hand, or None]
    rec,         \* [Plans -> the id of the server at hand, or None]
    environment, \* [Plans -> the environment at hand]
    recorded,    \* [Plans -> ids of the servers recorded so far]
    check        \* [Plans -> ids of the servers post_destroy has left]

cloudVars  == <<made, cloud, tfState>>
resultVars == <<stateFile, jobServers, outputs, status>>
loopVars   == <<queue, cur, rec, environment, recorded>>
vars == <<cloudVars, server, resultVars, pc, loopVars, check>>

Environments == {"Unassigned", "ordered"}

Server == [vm : VMs, owned : BOOLEAN, env : Environments, handler : BOOLEAN,
           created_by_terraform : BOOLEAN, by : {"hook", "sync"},
           state : {"ACTIVE", "HISTORICAL"}]

NoServer == [vm |-> None]

Deploying  == {"file", "inputs", "apply", "parse", "record", "create", "mark", "import"}
Destroying == {"destroy", "post"}

TypeOK ==
    /\ made \in [Plans -> SUBSET VMs]
    /\ cloud \subseteq VMs
    /\ tfState \in [Plans -> SUBSET VMs]
    /\ stateFile \in [Plans -> {"none", "row", "file"}]
    /\ server \in [Ids -> Server \cup {NoServer}]
    /\ jobServers \subseteq Ids
    /\ outputs \subseteq Plans
    /\ status \in [Plans -> {"new", "done", "failed", "deleted"}]
    /\ pc \in [Plans -> {"idle"} \cup Deploying \cup Destroying]
    /\ queue \in [Plans -> SUBSET VMs]
    /\ cur \in [Plans -> VMs \cup {None}]
    /\ rec \in [Plans -> Ids \cup {None}]
    /\ environment \in [Plans -> Environments]
    /\ recorded \in [Plans -> SUBSET Ids]
    /\ check \in [Plans -> SUBSET Ids]

Init ==
    /\ made = [p \in Plans |-> {}]
    /\ cloud = {}
    /\ tfState = [p \in Plans |-> {}]
    /\ stateFile = [p \in Plans |-> "none"]
    /\ server = [i \in Ids |-> NoServer]
    /\ jobServers = {}
    /\ outputs = {}
    /\ status = [p \in Plans |-> "new"]
    /\ pc = [p \in Plans |-> "idle"]
    /\ queue = [p \in Plans |-> {}]
    /\ cur = [p \in Plans |-> None]
    /\ rec = [p \in Plans |-> None]
    /\ environment = [p \in Plans |-> "Unassigned"]
    /\ recorded = [p \in Plans |-> {}]
    /\ check = [p \in Plans |-> {}]

Goto(p, label) == pc' = [pc EXCEPT ![p] = label]

\* The records of a machine.
Records(vm) == {i \in Ids : server[i].vm = vm}
Recorded    == {i \in Ids : server[i] # NoServer}

\* The job ends: what it had in memory is forgotten.
End(p, result) ==
    /\ Goto(p, "idle")
    /\ status' = [status EXCEPT ![p] = result]
    /\ queue' = [queue EXCEPT ![p] = {}]
    /\ cur' = [cur EXCEPT ![p] = None]
    /\ rec' = [rec EXCEPT ![p] = None]
    /\ environment' = [environment EXCEPT ![p] = "Unassigned"]
    /\ recorded' = [recorded EXCEPT ![p] = {}]
    /\ check' = [check EXCEPT ![p] = {}]

\* An exception leaves the hook.
Fail(p) == End(p, "failed") /\ UNCHANGED <<cloudVars, server, stateFile, jobServers, outputs>>

-----------------------------------------------------------------------------
(* What is not in the sources. *)

\* A machine is deleted behind Terraform's back.
LoseMachine(vm) ==
    /\ "lost" \in Env
    /\ vm \in cloud
    /\ cloud' = cloud \ {vm}
    /\ UNCHANGED <<made, tfState, server, resultVars, pc, loopVars, check>>

\* The synchronization of a resource handler records the machines it does not
\* know.
Synchronize(vm) ==
    /\ "sync" \in Env
    /\ vm \in cloud \cap Importable
    /\ Records(vm) = {}
    /\ \E i \in Ids \ Recorded :
          server' = [server EXCEPT ![i] =
              [vm |-> vm, owned |-> FALSE, env |-> "ordered", handler |-> TRUE,
               created_by_terraform |-> FALSE, by |-> "sync", state |-> "ACTIVE"]]
    /\ UNCHANGED <<cloudVars, resultVars, pc, loopVars, check>>

\* The worker that runs the job of plan p dies.
Crash(p) == "crash" \in Env /\ pc[p] # "idle" /\ Fail(p)

\* terraform init and apply: what the state file has and the cloud has not is
\* forgotten, machines are created, all of them or, if it fails, some.
Apply(p) ==
    /\ pc[p] = "apply"
    /\ \E new \in SUBSET (VMs \ UNION {made[q] : q \in Plans}) :
          /\ made' = [made EXCEPT ![p] = @ \cup new]
          /\ cloud' = cloud \cup new
          /\ tfState' = [tfState EXCEPT ![p] = (@ \cap cloud) \cup new]
    /\ \/ /\ Goto(p, "parse")
          /\ UNCHANGED <<status, loopVars, check>>
       \/ End(p, "failed")
    /\ UNCHANGED <<server, stateFile, jobServers, outputs>>

-----------------------------------------------------------------------------
(* The job that deploys a plan. *)

\* pre_provision, get_or_create_state_file: the row is created first, and its
\* file after it.
GetStateFile(p) ==
    /\ pc[p] = "idle" /\ status[p] \in {"new", "failed"}
    /\ \A q \in Plans : pc[q] \notin Destroying /\ status[q] # "deleted"
    /\ \/ /\ stateFile[p] = "none"
          /\ stateFile' = [stateFile EXCEPT ![p] = "row"]
          /\ Goto(p, "file")
          /\ UNCHANGED status
       \/ /\ stateFile[p] = "file"
          /\ Goto(p, "inputs")
          /\ UNCHANGED <<stateFile, status>>
       \/ /\ stateFile[p] = "row"   \* a row without a file has no path
          /\ status' = [status EXCEPT ![p] = "failed"]
          /\ UNCHANGED <<stateFile, pc>>
    /\ UNCHANGED <<cloudVars, server, jobServers, outputs, loopVars, check>>

\* module_file.save
SaveStateFile(p) ==
    /\ pc[p] = "file"
    /\ stateFile' = [stateFile EXCEPT ![p] = "file"]
    /\ Goto(p, "inputs")
    /\ UNCHANGED <<cloudVars, server, jobServers, outputs, status, loopVars, check>>

\* The action inputs become variables of the plan.
RenderInputs(p) ==
    /\ pc[p] = "inputs"
    /\ Goto(p, "apply")
    /\ UNCHANGED <<cloudVars, server, resultVars, loopVars, check>>

\* Only ValueError is expected of ast.literal_eval, not SyntaxError.
RenderInputsFails(p) == "inputs" \in Env /\ pc[p] = "inputs" /\ Fail(p)

\* post_provision, _parse_state_file_for_server_ids.
ParseStateFile(p) ==
    /\ pc[p] = "parse"
    /\ queue' = [queue EXCEPT ![p] = tfState[p] \cap ServerVMs]
    /\ Goto(p, "record")
    /\ UNCHANGED <<cloudVars, server, resultVars, cur, rec, environment, recorded, check>>

\* get_tech_dict raises when the environment, the VPC or the clone of one of
\* the machines is not found, before any server is recorded.
LookupFails(p) ==
    /\ "lookup" \in Env
    /\ pc[p] = "parse" /\ tfState[p] \cap Importable # {}
    /\ Fail(p)

\* The environment of the machine before is kept if vm brings none.
EnvironmentFor(p, vm) == IF vm \in Importable THEN "ordered" ELSE environment[p]

\* Bug: the server found keeps its resource.
GetServerKeepsResource(p, vm) ==
    /\ pc[p] = "record" /\ vm \in queue[p]
    /\ queue' = [queue EXCEPT ![p] = @ \ {vm}]
    /\ cur' = [cur EXCEPT ![p] = vm]
    /\ environment' = [environment EXCEPT ![p] = EnvironmentFor(p, vm)]
    /\ \/ /\ Records(vm) = {}
          /\ Goto(p, "create")
          /\ UNCHANGED <<server, rec>>
       \/ \E i \in Ids :
             /\ Records(vm) = {i}
             /\ server' = [server EXCEPT ![i].env = EnvironmentFor(p, vm)]
             /\ rec' = [rec EXCEPT ![p] = i]
             /\ Goto(p, "import")
    /\ UNCHANGED <<cloudVars, resultVars, recorded, check>>

\* Bug: a server is created without looking for an existing one.
GetServerNever(p, vm) ==
    /\ pc[p] = "record" /\ vm \in queue[p]
    /\ queue' = [queue EXCEPT ![p] = @ \ {vm}]
    /\ cur' = [cur EXCEPT ![p] = vm]
    /\ environment' = [environment EXCEPT ![p] = EnvironmentFor(p, vm)]
    /\ Goto(p, "create")
    /\ UNCHANGED <<cloudVars, server, resultVars, rec, recorded, check>>

\* get_or_create_server_records_from_state_file: Server.objects.get; a server
\* that is found is moved to the resource, group, owner and environment.
GetServer(p, vm) ==
    /\ pc[p] = "record" /\ vm \in queue[p]
    /\ queue' = [queue EXCEPT ![p] = @ \ {vm}]
    /\ cur' = [cur EXCEPT ![p] = vm]
    /\ environment' = [environment EXCEPT ![p] = EnvironmentFor(p, vm)]
    /\ \/ /\ Records(vm) = {}
          /\ Goto(p, "create")
          /\ UNCHANGED <<server, rec>>
       \/ \E i \in Ids :
             /\ Records(vm) = {i}
             /\ server' = [server EXCEPT ![i].owned = TRUE,
                                         ![i].env = EnvironmentFor(p, vm)]
             /\ rec' = [rec EXCEPT ![p] = i]
             /\ Goto(p, "import")
    /\ UNCHANGED <<cloudVars, resultVars, recorded, check>>

\* Server.objects.get raises if there are two.
SeveralServers(p, vm) ==
    /\ pc[p] = "record" /\ vm \in queue[p]
    /\ \E i, j \in Records(vm) : i # j
    /\ Fail(p)

\* Server.DoesNotExist: a new server is saved ...
CreateServer(p) ==
    /\ pc[p] = "create"
    /\ \E i \in Ids \ Recorded :
          /\ server' = [server EXCEPT ![i] =
                [vm |-> cur[p], owned |-> TRUE, env |-> environment[p], handler |-> FALSE,
                 created_by_terraform |-> FALSE, by |-> "hook", state |-> "ACTIVE"]]
          /\ rec' = [rec EXCEPT ![p] = i]
    /\ Goto(p, "mark")
    /\ UNCHANGED <<cloudVars, resultVars, queue, cur, environment, recorded, check>>

\* ... and then saved again with created_by_terraform.
MarkServer(p) ==
    /\ pc[p] = "mark"
    /\ server' = [server EXCEPT ![rec[p]].created_by_terraform = TRUE]
    /\ Goto(p, "import")
    /\ UNCHANGED <<cloudVars, resultVars, loopVars, check>>

\* Bug: the list of the servers gets the machines.
ImportServerListsMachine(p) ==
    /\ pc[p] = "import"
    /\ server' = IF cur[p] \in Importable
                 THEN [server EXCEPT ![rec[p]].handler = TRUE] ELSE server
    /\ recorded' = [recorded EXCEPT ![p] = @ \cup {cur[p]}]
    /\ cur' = [cur EXCEPT ![p] = None]
    /\ rec' = [rec EXCEPT ![p] = None]
    /\ Goto(p, "record")
    /\ UNCHANGED <<cloudVars, resultVars, queue, environment, check>>

\* The resource handler is saved; errors of what follows are only logged.
ImportServer(p) ==
    /\ pc[p] = "import"
    /\ server' = IF cur[p] \in Importable
                 THEN [server EXCEPT ![rec[p]].handler = TRUE] ELSE server
    /\ recorded' = [recorded EXCEPT ![p] = @ \cup {rec[p]}]
    /\ cur' = [cur EXCEPT ![p] = None]
    /\ rec' = [rec EXCEPT ![p] = None]
    /\ Goto(p, "record")
    /\ UNCHANGED <<cloudVars, resultVars, queue, environment, check>>

\* write_outputs, and post_provision: blueprint_job.server_set.add.
FinishDeploy(p) ==
    /\ pc[p] = "record" /\ queue[p] = {}
    /\ outputs' = outputs \cup {p}
    /\ jobServers' = jobServers \cup recorded[p]
    /\ End(p, "done")
    /\ UNCHANGED <<cloudVars, server, stateFile>>

\* An output cannot be written.
WriteOutputsFails(p) ==
    /\ "outputs" \in Env
    /\ pc[p] = "record" /\ queue[p] = {}
    /\ Fail(p)

-----------------------------------------------------------------------------
(* The job that deletes the resource. *)

\* pre_destroy and destroy compute flags, once per state file.
PreDestroy(p) ==
    /\ pc[p] = "idle" /\ status[p] \in {"done", "failed"}
    /\ stateFile[p] = "file"
    /\ \A q \in Plans : pc[q] \notin Deploying
    /\ Goto(p, "destroy")
    /\ UNCHANGED <<cloudVars, server, resultVars, loopVars, check>>

\* terraform destroy (not in the sources): machines are deleted, all of them
\* or, if it fails, some; then post_destroy looks at the resource's servers.
Destroy(p) ==
    /\ pc[p] = "destroy"
    /\ \E gone \in SUBSET tfState[p] :
          /\ cloud' = cloud \ gone
          /\ tfState' = [tfState EXCEPT ![p] = @ \ gone]
          /\ \/ /\ gone = tfState[p]
                /\ Goto(p, "post")
                /\ check' = [check EXCEPT ![p] = {i \in Recorded : server[i].owned}]
                /\ UNCHANGED <<status, loopVars>>
             \/ End(p, "failed")
    /\ UNCHANGED <<made, server, stateFile, jobServers, outputs>>

\* Bug: the machine is not looked up.
SetHistoricalUnchecked(p, i) ==
    /\ pc[p] = "post" /\ i \in check[p]
    /\ server[i].created_by_terraform
    /\ check' = [check EXCEPT ![p] = @ \ {i}]
    /\ server' = [server EXCEPT ![i].state = "HISTORICAL"]
    /\ UNCHANGED <<cloudVars, resultVars, pc, loopVars>>

\* set_historical_servers: the machine is looked up with the resource handler,
\* if the server has one.
SetHistorical(p, i) ==
    /\ pc[p] = "post" /\ i \in check[p]
    /\ server[i].created_by_terraform
    /\ check' = [check EXCEPT ![p] = @ \ {i}]
    /\ server' = IF server[i].handler /\ server[i].vm \notin cloud
                 THEN [server EXCEPT ![i].state = "HISTORICAL"] ELSE server
    /\ UNCHANGED <<cloudVars, resultVars, pc, loopVars>>

\* Bug: servers without the custom field are passed over.
NotMarkedSkipped(p, i) ==
    /\ pc[p] = "post" /\ i \in check[p]
    /\ ~server[i].created_by_terraform
    /\ check' = [check EXCEPT ![p] = @ \ {i}]
    /\ UNCHANGED <<cloudVars, server, resultVars, pc, loopVars>>

\* A server without the custom field has no value to read: AttributeError.
NotMarked(p, i) ==
    /\ pc[p] = "post" /\ i \in check[p]
    /\ ~server[i].created_by_terraform
    /\ Fail(p)

FinishDelete(p) ==
    /\ pc[p] = "post" /\ check[p] = {}
    /\ End(p, "deleted")
    /\ UNCHANGED <<cloudVars, server, stateFile, jobServers, outputs>>

-----------------------------------------------------------------------------

Job(p) ==
    \/ GetStateFile(p) \/ SaveStateFile(p)
    \/ RenderInputs(p) \/ RenderInputsFails(p) \/ Apply(p)
    \/ ParseStateFile(p) \/ LookupFails(p)
    \/ \E vm \in VMs : GetServer(p, vm) \/ SeveralServers(p, vm)
    \/ CreateServer(p) \/ MarkServer(p) \/ ImportServer(p)
    \/ FinishDeploy(p) \/ WriteOutputsFails(p)
    \/ PreDestroy(p) \/ Destroy(p)
    \/ \E i \in Ids : SetHistorical(p, i) \/ NotMarked(p, i)
    \/ FinishDelete(p) \/ Crash(p)

Next == \/ \E vm \in VMs : LoseMachine(vm) \/ Synchronize(vm)
        \/ \E p \in Plans : Job(p)

Spec == Init /\ [][Next]_vars

-----------------------------------------------------------------------------
(* Properties. *)

\* However often a job fails, dies and is run again, the hook creates at most
\* one server for a machine (tf_post_provision.py:171-204).
CreatedOnce ==
    \A i, j \in Recorded :
        /\ server[i].vm = server[j].vm
        /\ server[i].by = "hook" /\ server[j].by = "hook"
        => i = j

\* A job that ends well has left no machine of the state file behind: each has
\* a server that belongs to the resource and to the blueprint's job, and one
\* that can be imported has the ordered environment and a resource handler,
\* whoever recorded it first (post_provision, 71-86).
DoneRecordsAll ==
    \A p \in Plans : status[p] = "done" /\ pc[p] = "idle" =>
        \A vm \in tfState[p] \cap ServerVMs :
            \E i \in Records(vm) \cap jobServers :
                /\ server[i].owned
                /\ vm \in Importable => server[i].env = "ordered" /\ server[i].handler

\* A server is HISTORICAL only if its machine is gone, although other plans of
\* the resource are still being destroyed and a destroy may fail half-way
\* (set_historical_servers, tf_post_destroy.py:36-50).
HistoricalIsGone ==
    \A i \in Recorded : server[i].state = "HISTORICAL" => server[i].vm \notin cloud

\* tf_post_destroy.py:37-38: "we want to set CB objects to HISTORICAL if they
\* were deleted by TF".  It holds for the servers with a resource handler.
DeletedIsHistorical ==
    \A p \in Plans : status[p] = "deleted" =>
        \A i \in Recorded :
            server[i].vm \in made[p] /\ server[i].owned /\ server[i].handler =>
                server[i].state = "HISTORICAL"
=============================================================================
