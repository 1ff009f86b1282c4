----------------------------- MODULE NsxSegment -----------------------------
(***************************************************************************)
(* The NSX-T network segment blueprint: the build makes a segment, waits   *)
(* until vCenter shows its port group, makes a CloudBolt network of it and *)
(* offers that to groups; an action changes the groups; the teardown       *)
(* deletes network and segment unless servers use it.  Servers are ordered *)
(* on the network meanwhile.                                               *)
(*                                                                         *)
(* NSX-T, vCenter and the provisioning of servers are not in the sources.  *)
(***************************************************************************)
EXTENDS Naturals

CONSTANTS
    NetGroups,  \* groups the network may be offered to
    Nics,       \* servers that may be ordered on it, by their network card
    Updates,    \* executions of the update action
    WaitMax,    \* polls for the port group: 12 in the code
    None

VARIABLES
    segment,      \* in NSX-T: "none", "created", or "attached" to the gateway
    portGroup,    \* vCenter shows the port group
    network,      \* the CloudBolt network exists
    segRecorded,  \* nsx_t_segment_id and nsx_t_rh_id are saved
    netRecorded,  \* nsx_t_network_id is saved
    offered,      \* groups the network is offered to
    groupIds,     \* nsx_t_group_ids
    segPc, polls,
    update,       \* [Updates -> None, or the groups read, to add and to remove]
    nic,          \* [Nics -> state of the server]
    slipped,      \* servers that were not active yet when a teardown looked
    misread       \* a teardown took a network that exists for deleted

vars == <<segment, portGroup, network, segRecorded, netRecorded, offered, groupIds, segPc,
          polls, update, nic, slipped, misread>>
cloud == <<segment, portGroup>>
fields == <<segRecorded, netRecorded, groupIds>>
servers == <<nic, slipped, misread>>

Update == [read : SUBSET NetGroups, add : SUBSET NetGroups, remove : SUBSET NetGroups,
           step : {"add", "remove", "save"}]

TypeOK == /\ segment \in {"none", "created", "attached"}
          /\ portGroup \in BOOLEAN /\ network \in BOOLEAN
          /\ segRecorded \in BOOLEAN /\ netRecorded \in BOOLEAN
          /\ offered \subseteq NetGroups /\ groupIds \subseteq NetGroups
          /\ segPc \in {"new", "attach", "write", "wait", "network", "clusters", "groups",
                        "idle", "check", "delete", "detach", "remove", "gone"}
          /\ polls \in 0 .. WaitMax
          /\ update \in [Updates -> Update \cup {None}]
          /\ nic \in [Nics -> {"none", "provisioning", "active", "gone"}]
          /\ slipped \subseteq Nics /\ misread \in BOOLEAN

Init == /\ segment = "none" /\ portGroup = FALSE /\ network = FALSE
        /\ segRecorded = FALSE /\ netRecorded = FALSE
        /\ offered = {} /\ groupIds = {}
        /\ segPc = "new" /\ polls = 0
        /\ update = [u \in Updates |-> None]
        /\ nic = [n \in Nics |-> "none"] /\ slipped = {} /\ misread = FALSE

-----------------------------------------------------------------------------
(* The build. *)

AddSegment ==
    /\ segPc = "new"
    /\ segment' = "created" /\ segPc' = "attach"
    /\ UNCHANGED <<portGroup, network, fields, offered, polls, update, servers>>

\* No segment was made, or one by a call that raised.
AddSegmentFails ==
    /\ segPc = "new"
    /\ segment' \in {"none", "created"} /\ segPc' = "idle"
    /\ UNCHANGED <<portGroup, network, fields, offered, polls, update, servers>>

AttachSegment ==
    /\ segPc = "attach"
    /\ segment' = "attached" /\ segPc' = "write"
    /\ UNCHANGED <<portGroup, network, fields, offered, polls, update, servers>>

WriteParams ==
    /\ segPc = "write"
    /\ segRecorded' = TRUE /\ segPc' = "wait"
    /\ UNCHANGED <<cloud, network, netRecorded, groupIds, offered, polls, update, servers>>

\* Bug: the build polls until it finds the port group.
PollPortGroupForever ==
    /\ segPc = "wait"
    /\ polls' = polls + 1
    /\ segPc' = IF portGroup THEN "network" ELSE "wait"
    /\ UNCHANGED <<cloud, network, fields, offered, update, servers>>

\* The last poll gives up even if it has found the port group.
PollPortGroup ==
    /\ segPc = "wait"
    /\ polls' = IF polls < WaitMax THEN polls + 1 ELSE polls
    /\ segPc' = IF polls = WaitMax THEN "idle" ELSE IF portGroup THEN "network" ELSE "wait"
    /\ UNCHANGED <<cloud, network, fields, offered, update, servers>>

AddNetwork ==
    /\ segPc = "network"
    /\ network' = TRUE /\ segPc' = "clusters"
    /\ UNCHANGED <<cloud, fields, offered, polls, update, servers>>

\* A network whose clusters cannot be found is not recorded.
AddClusters ==
    /\ segPc = "clusters"
    /\ netRecorded' = TRUE /\ segPc' = "groups"
    /\ UNCHANGED <<cloud, network, segRecorded, groupIds, offered, polls, update, servers>>

\* The groups are recorded, then the network is offered to one after another.
AddToGroups ==
    /\ segPc = "groups"
    /\ \E gs, reached \in SUBSET NetGroups :
          /\ reached \subseteq gs
          /\ groupIds' = gs /\ offered' = reached
    /\ segPc' = "idle"
    /\ UNCHANGED <<cloud, network, segRecorded, netRecorded, polls, update, servers>>

BuildFails ==
    /\ segPc \in {"attach", "write", "wait", "network", "clusters", "groups"}
    /\ segPc' = "idle"
    /\ UNCHANGED <<cloud, network, fields, offered, polls, update, servers>>

-----------------------------------------------------------------------------
(* change_groups: an action users run on the resource. *)

\* The job reads its resource when it starts.
StartUpdate(u) ==
    /\ segPc = "idle" /\ netRecorded /\ network /\ update[u] = None
    /\ \E add, remove \in SUBSET NetGroups :
          update' = [update EXCEPT ![u] = [read |-> groupIds, add |-> add,
                                           remove |-> remove, step |-> "add"]]
    /\ UNCHANGED <<cloud, network, fields, offered, segPc, polls, servers>>

Step(u, step) == update[u] # None /\ update[u].step = step

AddNetworkToGroups(u) ==
    /\ Step(u, "add") /\ network
    /\ offered' = offered \cup update[u].add
    /\ update' = [update EXCEPT ![u].step = "remove"]
    /\ UNCHANGED <<cloud, network, fields, segPc, polls, servers>>

RemoveNetworkFromGroups(u) ==
    /\ Step(u, "remove")
    /\ offered' = offered \ update[u].remove
    /\ update' = [update EXCEPT ![u].step = "save"]
    /\ UNCHANGED <<cloud, network, fields, segPc, polls, servers>>

UpdateGroupsCfv(u) ==
    /\ Step(u, "save")
    /\ groupIds' = (update[u].read \cup update[u].add) \ update[u].remove
    /\ update' = [update EXCEPT ![u] = None]
    /\ UNCHANGED <<cloud, network, segRecorded, netRecorded, offered, segPc, polls, servers>>

UpdateFails(u) ==
    /\ update[u] # None
    /\ update' = [update EXCEPT ![u] = None]
    /\ UNCHANGED <<cloud, network, fields, offered, segPc, polls, servers>>

-----------------------------------------------------------------------------
(* The teardown. *)

\* Bug: NSX-T first, CloudBolt's network last.
BeginTeardownNsxFirst ==
    /\ segPc = "idle"
    /\ segPc' = IF segRecorded THEN "detach" ELSE "gone"
    /\ UNCHANGED <<cloud, network, fields, offered, polls, update, servers>>

\* Nothing recorded is taken for a deployment that failed: nothing is deleted.
\* Whatever reading the network raises is taken for a network already deleted.
BeginTeardown ==
    /\ segPc = "idle"
    /\ \/ /\ segPc' = CASE ~segRecorded           -> "gone"
                       [] netRecorded /\ network -> "check"
                       [] OTHER                  -> "detach"
          /\ UNCHANGED misread
       \/ /\ segRecorded /\ netRecorded /\ network
          /\ segPc' = "detach" /\ misread' = TRUE
    /\ UNCHANGED <<cloud, network, fields, offered, polls, update, nic, slipped>>

\* Servers whose status is ACTIVE are looked for; others are not seen.
CheckServers ==
    /\ segPc = "check"
    /\ IF \E n \in Nics : nic[n] = "active"
       THEN segPc' = "idle" /\ UNCHANGED slipped
       ELSE segPc' = "delete" /\ slipped' = slipped \cup {n \in Nics : nic[n] = "provisioning"}
    /\ UNCHANGED <<cloud, network, fields, offered, polls, update, nic, misread>>

DeleteNetwork ==
    /\ segPc = "delete"
    /\ network' = FALSE /\ offered' = {} /\ segPc' = "detach"
    /\ UNCHANGED <<cloud, fields, polls, update, servers>>

DetachSegment ==
    /\ segPc = "detach" /\ segment # "none"
    /\ segment' = "created" /\ segPc' = "remove"
    /\ UNCHANGED <<portGroup, network, fields, offered, polls, update, servers>>

RemoveSegment ==
    /\ segPc = "remove"
    /\ segment' = "none" /\ portGroup' = FALSE /\ segPc' = "gone"
    /\ UNCHANGED <<network, fields, offered, polls, update, servers>>

\* The teardown can be run again; a lost answer has had its effect.
TeardownFails ==
    /\ \/ segPc \in {"delete", "detach", "remove"} /\ UNCHANGED cloud
       \/ segPc = "detach" /\ segment # "none" /\ segment' = "created" /\ UNCHANGED portGroup
       \/ segPc = "remove" /\ segment' = "none" /\ portGroup' = FALSE
    /\ segPc' = "idle"
    /\ UNCHANGED <<network, fields, offered, polls, update, servers>>

-----------------------------------------------------------------------------
(* vCenter and the servers. *)

ShowPortGroup ==
    /\ segment # "none" /\ ~portGroup
    /\ portGroup' = TRUE
    /\ UNCHANGED <<segment, network, fields, offered, segPc, polls, update, servers>>

OrderServer(n) ==
    /\ network /\ offered # {} /\ nic[n] = "none"
    /\ nic' = [nic EXCEPT ![n] = "provisioning"]
    /\ slipped' = IF segPc = "delete" THEN slipped \cup {n} ELSE slipped
    /\ UNCHANGED <<cloud, network, fields, offered, segPc, polls, update, misread>>

ProvisionServer(n) ==
    /\ nic[n] = "provisioning"
    /\ nic' \in {[nic EXCEPT ![n] = "active"], [nic EXCEPT ![n] = "gone"]}
    /\ UNCHANGED <<cloud, network, fields, offered, segPc, polls, update, slipped, misread>>

DeleteServer(n) ==
    /\ nic[n] = "active"
    /\ nic' = [nic EXCEPT ![n] = "gone"]
    /\ UNCHANGED <<cloud, network, fields, offered, segPc, polls, update, slipped, misread>>

-----------------------------------------------------------------------------
Next ==
    \/ AddSegment \/ AddSegmentFails \/ AttachSegment \/ WriteParams \/ PollPortGroup
    \/ AddNetwork \/ AddClusters \/ AddToGroups \/ BuildFails
    \/ \E u \in Updates : \/ StartUpdate(u) \/ AddNetworkToGroups(u)
                          \/ RemoveNetworkFromGroups(u) \/ UpdateGroupsCfv(u) \/ UpdateFails(u)
    \/ BeginTeardown \/ CheckServers \/ DeleteNetwork \/ DetachSegment \/ RemoveSegment
    \/ TeardownFails \/ ShowPortGroup
    \/ \E n \in Nics : OrderServer(n) \/ ProvisionServer(n) \/ DeleteServer(n)

Spec == Init /\ [][Next]_vars

-----------------------------------------------------------------------------
(* Properties. *)

\* However often updates and teardowns fail and are run again, no active
\* server loses its network or its segment ("Check to be sure no servers exist
\* on the network before deleting"), except one that was still being
\* provisioned when a teardown looked, and unless a teardown could not read
\* the network and took it for deleted.
ActiveServersConnected ==
    misread \/ \A n \in Nics :
        nic[n] = "active" /\ n \notin slipped => network /\ segment = "attached"
=============================================================================
