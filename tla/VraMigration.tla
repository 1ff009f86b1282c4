---------------------------- MODULE VraMigration ----------------------------
(***************************************************************************)
(* The scripts that take deployments of vRealize Automation over into      *)
(* CloudBolt: one makes groups from projects, the other lists the          *)
(* deployments of a cloud template, page by page, and gives a resource to  *)
(* each, with its owner, its group, its parts and the servers that         *)
(* CloudBolt knows already.  Without a resource type it only gives owner   *)
(* and group to the servers.  Both scripts are meant to be run again.      *)
(*                                                                         *)
(* vRA is not in the sources: its users create, change, move and delete    *)
(* deployments while a script runs.                                        *)
(***************************************************************************)
EXTENDS Integers, Sequences, Selection

CONSTANTS
    Deployments,
    Deployed,    \* sequence: the deployments there are at first
    Parts,       \* [Deployments -> sequence of parts]
    Kind,        \* [parts -> {"server", "child", "skipped"}]: a machine that
                 \* CloudBolt knows, a part of a blueprint tier, anything else
    Names, Owners,
    Projects,    \* a project's name is the name of its group
    Maps,        \* the GROUPS_MAPs used: [SUBSET Projects -> groups]; <<>> is none
    PageSize,    \* 200 in the code
    ChangesMax,  \* bound on what vRA's users do
    None

VARIABLES
    vraList,     \* deployments in the order vRA lists them, oldest first
    vraAttr,     \* [Deployments -> name, owner and project]
    groups,      \* groups of CloudBolt
    records,     \* [<<deployment, name>> -> owner and group of its resource]
    partOf,      \* [parts -> owner, group and parent of its resource or server]
    migMode,     \* "resources", or "servers" without a resource type
    groupsMap,
    migPc,
    skip,        \* $skip of the next page
    listed,      \* deployment_ids still to be migrated
    loaded,      \* the deployment as it was read
    todo,        \* its parts still to be migrated
    changed,     \* deployments that changed, or slipped from one page to
                 \* another, since the script began
    changes

vars == <<vraList, vraAttr, groups, records, partOf, migMode, groupsMap, migPc, skip,
          listed, loaded, todo, changed, changes>>
vra == <<vraList, vraAttr, changed, changes>>

AllParts == DOMAIN Kind
GroupNames == Projects \cup UNION {{m[p] : p \in DOMAIN m} : m \in Maps}
Attributes == [name : Names, owner : Owners, project : Projects]
Record == [owner : Owners, group : GroupNames \cup {None}]
PartRecord == [owner : Owners, group : GroupNames \cup {None},
               parent : (Deployments \X Names) \cup {None}]
Alive(d) == \E i \in DOMAIN vraList : vraList[i] = d

TypeOK == /\ \A i \in DOMAIN vraList : vraList[i] \in Deployments
          /\ vraAttr \in [Deployments -> Attributes]
          /\ groups \subseteq GroupNames
          /\ records \in [Deployments \X Names -> Record \cup {None}]
          /\ partOf \in [AllParts -> PartRecord \cup {None}]
          /\ migMode \in {"resources", "servers"} /\ groupsMap \in Maps
          /\ migPc \in {"idle", "list", "deployment", "record", "parts", "done", "failed"}
          /\ loaded \in Attributes \cup {None}
          /\ changed \subseteq Deployments /\ changes \in 0 .. ChangesMax

Init == /\ vraList = Deployed
        /\ vraAttr = [d \in Deployments |-> CHOOSE a \in Attributes : TRUE]
        /\ groups = {}
        /\ records = [k \in Deployments \X Names |-> None]
        /\ partOf = [p \in AllParts |-> None]
        /\ migMode = "resources" /\ groupsMap = CHOOSE m \in Maps : TRUE
        /\ migPc = "idle" /\ skip = 0 /\ listed = <<>> /\ loaded = None /\ todo = <<>>
        /\ changed = {} /\ changes = 0

\* get_group_from_vra_project_id.  With a map, a project it does not name has
\* no group, whatever its name.
Wanted(p) == IF groupsMap = <<>> THEN p
             ELSE IF p \in DOMAIN groupsMap THEN groupsMap[p] ELSE None
GroupOf(p) == IF Wanted(p) \in groups THEN Wanted(p) ELSE None

-----------------------------------------------------------------------------
(* vRA and its users. *)

Change == changes < ChangesMax /\ changes' = changes + 1

CreateDeployment(d) ==
    /\ Change /\ ~Alive(d)
    /\ vraList' = Append(vraList, d)
    /\ \E a \in Attributes : vraAttr' = [vraAttr EXCEPT ![d] = a]
    /\ changed' = changed \cup {d}
    /\ UNCHANGED <<groups, records, partOf, migMode, groupsMap, migPc, skip, listed, loaded, todo>>

\* Renamed, moved to another project, given to another user.
UpdateDeployment(d) ==
    /\ Change /\ Alive(d)
    /\ \E a \in Attributes : a # vraAttr[d] /\ vraAttr' = [vraAttr EXCEPT ![d] = a]
    /\ changed' = changed \cup {d}
    /\ UNCHANGED <<vraList, groups, records, partOf, migMode, groupsMap, migPc, skip, listed,
                   loaded, todo>>

\* What is behind it in the listing moves up: the first deployment of the next
\* page is now on a page that was read already.
DeleteDeployment(d) ==
    LET at == CHOOSE i \in DOMAIN vraList : vraList[i] = d
    IN  /\ Change /\ Alive(d)
        /\ vraList' = Selected(vraList, Deployments \ {d})
        /\ changed' = changed \cup {d} \cup
                      {vraList[i] : i \in {k \in DOMAIN vraList :
                                               migPc = "list" /\ at <= skip /\ k = skip + 1}}
        /\ UNCHANGED <<vraAttr, groups, records, partOf, migMode, groupsMap, migPc, skip,
                       listed, loaded, todo>>

\* vra8_migrate_projects: the group of a project, made once.
MigrateProject(p) ==
    /\ \E i \in DOMAIN vraList : vraAttr[vraList[i]].project = p
    /\ p \notin groups
    /\ groups' = groups \cup {p}
    /\ changed' = changed \cup {d \in Deployments : Wanted(vraAttr[d].project) = p}
    /\ UNCHANGED <<vraList, vraAttr, records, partOf, migMode, groupsMap, migPc, skip, listed,
                   loaded, todo, changes>>

-----------------------------------------------------------------------------
(* The ingest. *)

Least(i, j) == IF i < j THEN i ELSE j

Begin ==
    /\ migPc \in {"idle", "done", "failed"}
    /\ migMode' \in {"resources", "servers"} /\ groupsMap' \in Maps
    /\ migPc' = "list"
    /\ changed' = {}
    /\ UNCHANGED <<vraList, vraAttr, groups, records, partOf, skip, listed, loaded, todo,
                   changes>>

Returns(point) == migPc' = point /\ skip' = 0 /\ listed' = <<>> /\ loaded' = None /\ todo' = <<>>

\* list_deployment_ids_for_blueprint: until a page is empty.
Page == [i \in 1 .. Least(PageSize, Len(vraList) - skip) |-> vraList[skip + i]]

ListPage ==
    /\ migPc = "list"
    /\ listed' = listed \o Page
    /\ skip' = skip + PageSize
    /\ migPc' = IF skip >= Len(vraList) THEN "deployment" ELSE "list"
    /\ UNCHANGED <<vra, groups, records, partOf, migMode, groupsMap, loaded, todo>>

\* The owner is read from vRA and found or made through LDAP.
LoadDeployment ==
    /\ migPc = "deployment" /\ listed # <<>> /\ Alive(Head(listed))
    /\ loaded' = vraAttr[Head(listed)]
    /\ todo' = Parts[Head(listed)]
    /\ migPc' = IF migMode = "resources" THEN "record" ELSE "parts"
    /\ UNCHANGED <<vra, groups, records, partOf, migMode, groupsMap, skip, listed>>

SkipDeployment ==
    /\ migPc = "record" /\ GroupOf(loaded.project) = None
    /\ listed' = Tail(listed) /\ migPc' = "deployment" /\ loaded' = None /\ todo' = <<>>
    /\ UNCHANGED <<vra, groups, records, partOf, migMode, groupsMap, skip>>

Key == <<Head(listed), loaded.name>>

\* Bug: owner and group are the defaults of get_or_create only.
CreateResourceOnce ==
    /\ migPc = "record" /\ GroupOf(loaded.project) # None
    /\ records' = IF records[Key] # None THEN records
                  ELSE [records EXCEPT ![Key] = [owner |-> loaded.owner,
                                                 group |-> GroupOf(loaded.project)]]
    /\ migPc' = "parts"
    /\ UNCHANGED <<vra, groups, partOf, migMode, groupsMap, skip, listed, loaded, todo>>

\* create_deployment_resource: get_or_create by name and vRA id, then owner and
\* group whether it is new or not.
CreateResource ==
    /\ migPc = "record" /\ GroupOf(loaded.project) # None
    /\ records' = [records EXCEPT ![Key] = [owner |-> loaded.owner,
                                            group |-> GroupOf(loaded.project)]]
    /\ migPc' = "parts"
    /\ UNCHANGED <<vra, groups, partOf, migMode, groupsMap, skip, listed, loaded, todo>>

Parent == IF migMode = "resources" THEN Key ELSE None

MigratePart ==
    /\ migPc = "parts" /\ todo # <<>> /\ Kind[Head(todo)] = "child" /\ migMode = "resources"
    /\ partOf' = [partOf EXCEPT ![Head(todo)] = [owner  |-> loaded.owner,
                                                 group  |-> records[Key].group,
                                                 parent |-> Key]]
    /\ todo' = Tail(todo)
    /\ UNCHANGED <<vra, groups, records, migMode, groupsMap, migPc, skip, listed, loaded>>

\* The group is looked up anew, from the machine's own project, and saved if
\* there is none, too; the parent is saved last, and only below a resource.
Server(parent) ==
    [owner |-> loaded.owner, group |-> GroupOf(vraAttr[Head(listed)].project),
     parent |-> parent]
OldParent == IF partOf[Head(todo)] = None THEN None ELSE partOf[Head(todo)].parent

MigrateServer ==
    /\ migPc = "parts" /\ todo # <<>> /\ Kind[Head(todo)] = "server" /\ Alive(Head(listed))
    /\ partOf' = [partOf EXCEPT ![Head(todo)] =
                     Server(IF migMode = "resources" THEN Key ELSE OldParent)]
    /\ todo' = Tail(todo)
    /\ UNCHANGED <<vra, groups, records, migMode, groupsMap, migPc, skip, listed, loaded>>

\* A custom property raises (a dictionary among those of a server does): the
\* server has got its owner and group, and no parent.
MigrateServerFails ==
    /\ migPc = "parts" /\ todo # <<>> /\ Kind[Head(todo)] = "server" /\ Alive(Head(listed))
    /\ partOf' = [partOf EXCEPT ![Head(todo)] = Server(OldParent)]
    /\ Returns("failed")
    /\ UNCHANGED <<vra, groups, records, migMode, groupsMap>>

SkipPart ==
    /\ migPc = "parts" /\ todo # <<>>
    /\ Kind[Head(todo)] = "skipped" \/ (Kind[Head(todo)] = "child" /\ migMode = "servers")
    /\ todo' = Tail(todo)
    /\ UNCHANGED <<vra, groups, records, partOf, migMode, groupsMap, migPc, skip, listed, loaded>>

NextDeployment ==
    /\ migPc = "parts" /\ todo = <<>>
    /\ listed' = Tail(listed) /\ migPc' = "deployment" /\ loaded' = None /\ todo' = <<>>
    /\ UNCHANGED <<vra, groups, records, partOf, migMode, groupsMap, skip>>

\* A call of vRA or LDAP raises, a deployment is gone, no user is found, a part
\* is not in the DEPLOYMENT_MAP: the run ends, what it saved stays.
Fails ==
    /\ migPc \in {"list", "deployment", "record", "parts"}
    /\ Returns("failed")
    /\ UNCHANGED <<vra, groups, records, partOf, migMode, groupsMap>>

Done ==
    /\ migPc = "deployment" /\ listed = <<>>
    /\ Returns("done")
    /\ UNCHANGED <<vra, groups, records, partOf, migMode, groupsMap>>

-----------------------------------------------------------------------------
Next ==
    \/ \E d \in Deployments : CreateDeployment(d) \/ UpdateDeployment(d) \/ DeleteDeployment(d)
    \/ \E p \in Projects : MigrateProject(p)
    \/ Begin \/ ListPage \/ LoadDeployment \/ SkipDeployment \/ CreateResource
    \/ MigratePart \/ MigrateServer \/ MigrateServerFails \/ SkipPart
    \/ NextDeployment \/ Fails \/ Done

Spec == Init /\ [][Next]_vars

-----------------------------------------------------------------------------
(* Properties. *)

\* After a run that ends with SUCCESS, whatever earlier runs left behind, each
\* deployment that did not change or slip while the script ran has what vRA
\* says: its resource the owner and the group, if that group exists, and its
\* servers and parts the same and the resource as parent.
MigratedAgrees ==
    migPc = "done" =>
        \A i \in DOMAIN vraList :
            LET d == vraList[i]
                a == vraAttr[d]
                group == GroupOf(a.project)
                Agrees(r) == r # None /\ r.owner = a.owner /\ r.group = group
            IN  d \notin changed =>
                /\ migMode = "resources" /\ group # None =>
                      /\ Agrees(records[<<d, a.name>>])
                      /\ \A k \in DOMAIN Parts[d] : Kind[Parts[d][k]] # "skipped" =>
                            /\ Agrees(partOf[Parts[d][k]])
                            /\ partOf[Parts[d][k]].parent = <<d, a.name>>
                /\ migMode = "servers" =>
                      \A k \in DOMAIN Parts[d] :
                          Kind[Parts[d][k]] = "server" => Agrees(partOf[Parts[d][k]])
=============================================================================
