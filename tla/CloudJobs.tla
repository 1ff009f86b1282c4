----------------------------- MODULE CloudJobs -----------------------------
(***************************************************************************)
(* The components that share no state, side by side: an initial state      *)
(* chooses one of them, and only that one takes steps.  Their constants    *)
(* are constants of this module, with what the proofs assume of them.      *)
(* (The elements of an order that is no blueprint order are never looked   *)
(* at.)                                                                    *)
(***************************************************************************)
EXTENDS AutoApprove, Integers, Sequences, FiniteSets, TLC

CONSTANTS
    None,
    ArmIds, ArmVMs, ArmChildren, ArmParent, ArmDisks, ArmNics, ArmUses,
    EaHandlers, EaAccounts, EaEnrollments, EaUsers, EaGuests, EaPollMax, EaCheckMax,
    DbOrders, DbIdentifiers, DbWanted, DbImports,
    ObjectBuilds, ObjectKind, ObjectName, ObjectNames,
    TowerFacts, TowerPages,
    AapApps, AapTiers, AapManager, AapAppOf,
    VraDeployments, VraDeployed, VraParts, VraKind, VraNames, VraOwners, VraProjects,
    VraMaps, VraPageSize, VraChangesMax,
    SegmentGroups, SegmentNics, SegmentUpdates, SegmentWaitMax,
    NsxGroupRes, NsxGroupId, NsxSegments, NsxChanges, NsxRuleOrders,
    PowerOrder, PowerOn, PowerWorkers, PowerLeases,
    GitUserOf, GitNames, GitTokens,
    OfNaming, OfService, OfWindows, OfNameCount, OfBuildMax,
    SsoUserSet, SsoSignIns, SsoAttrs, SsoValues, SsoUnsent, SsoClaims, SsoGroupsMap,
    SsoGroups, SsoRoleSet, SsoEditMax

VARIABLES
    component,
    armBlueprint, nested, azure, outputs, handled, recordedIds,
    armServers, armPc, built, torn, ids, at, attempts, failedIds, refused,
    groupHandlers, form, eaPc, alias, subscription, metadata, seen, tries,
    matches, ownerRole, roleAnswer, warned, eaResult,
    rds, dbRecord, dbPc, builders, deleters,
    cloud, databases, namedOn, lost, objPc,
    ansScript, workflow, ansPc, towerJob, events, page, gathered, written,
    ansResult,
    aapAction, rounds, aapPc, inventory, aapJobs, jobState, aapResult,
    vraList, vraAttr, groups, records, partOf, migMode, groupsMap, migPc,
    skip, listed, loaded, todo, changed, changes,
    segment, portGroup, network, segRecorded, netRecorded, offered,
    groupIds, segPc, polls, update, nic, slipped, misread,
    nsxGroups, groupPc, members, known, change, policy, nsxRules, rulePc,
    unsure,
    power, historical, decoms, due, todoOn, todoOff, tasks, powered,
    failures, raised, powerPc, leaseTodo, leaseSeen, leasePc,
    cfvs, req, wanted, overlapped,
    oneFuse, fields, stage, unanswered, replaced, refusedOnce,
    ssoAttr, ssoLdap, memberships, cbGroups, cbRoles, signIn, claimed, edits

Components == {"auto_approve", "arm", "subscription", "database", "objects",
               "template", "configurations", "vra", "segment", "nsx", "power",
               "git", "onefuse", "sso"}

\* What the template creates below a parent, it creates the parent of, too.
ASSUME ArmAssumption ==
    /\ IsFiniteSet(ArmIds) /\ "deployment" \notin ArmIds
    /\ ArmChildren \subseteq ArmIds /\ ArmVMs \subseteq ArmIds \ ArmChildren
    /\ ArmParent \in [ArmChildren -> ArmIds \ ArmChildren]
    /\ ArmDisks \in [ArmVMs -> Seq(ArmIds \ ArmVMs)] /\ ArmNics \in [ArmVMs -> Seq(ArmIds)]
    /\ ArmUses \in [ArmIds -> SUBSET ArmIds]

\* The ids that nothing uses but S and their own children, and the children of S.
ArmFree(S) ==
    {id \in ArmIds \ ArmChildren :
        \A r \in ArmIds : id \in ArmUses[r] =>
           r \in S \cup {id} \/ (r \in ArmChildren /\ ArmParent[r] \in S \cup {id})}

\* Nothing uses a VM, and all else is used no deeper than a network by its
\* interfaces, and those by a VM.
ASSUME ArmDepthAssumption ==
    ArmVMs \subseteq ArmFree({}) /\ ArmIds \ ArmChildren \subseteq ArmFree(ArmFree(ArmVMs))

ASSUME SubscriptionAssumption ==
    EaPollMax \in Nat /\ EaCheckMax \in Nat /\ IsFiniteSet(EaUsers)

ASSUME DatabaseAssumption == DbWanted \in [DbOrders -> DbIdentifiers]

\* What is typed as a name may be equal for several orders.
ASSUME ObjectsAssumption ==
    /\ ObjectKind \in [ObjectBuilds -> {"azure", "s3", "stack", "lambda"}]
    /\ ObjectName \in [ObjectBuilds -> ObjectNames]
    /\ None \notin ObjectBuilds

\* A job has a page of events, which may be empty.
ASSUME TemplateAssumption ==
    /\ TowerPages \subseteq Seq(SUBSET TowerFacts) \ {<<>>}
    /\ <<{}>> \in TowerPages

ASSUME ConfigurationsAssumption ==
    /\ AapApps \in Seq(DOMAIN AapAppOf)
    /\ AapTiers \in Seq(Seq(DOMAIN AapManager))

\* A part is of one deployment; None is nothing that CloudBolt has.
ASSUME VraAssumption ==
    /\ VraDeployed \in Seq(VraDeployments)
    /\ \A i, j \in DOMAIN VraDeployed : VraDeployed[i] = VraDeployed[j] => i = j
    /\ VraParts \in [VraDeployments -> Seq(DOMAIN VraKind)]
    /\ \A d, e \in VraDeployments : d # e =>
          \A j \in DOMAIN VraParts[d], k \in DOMAIN VraParts[e] : VraParts[d][j] # VraParts[e][k]
    /\ \A p \in DOMAIN VraKind : VraKind[p] \in {"server", "child", "skipped"}
    /\ VraNames # {} /\ VraOwners # {} /\ VraProjects # {} /\ VraMaps # {}
    /\ VraPageSize \in Nat \ {0} /\ VraChangesMax \in Nat
    /\ LET Groups == {None} \cup VraProjects \cup UNION {{m[p] : p \in DOMAIN m} : m \in VraMaps}
       IN  /\ \A r \in [owner : VraOwners, group : Groups] : r # None
           /\ \A r \in [owner : VraOwners, group : Groups,
                         parent : (VraDeployments \X VraNames) \cup {None}] : r # None

ASSUME SegmentAssumption == SegmentWaitMax \in Nat

\* None is neither a set of members nor a change.
ASSUME NsxAssumption ==
    LET Sets == SUBSET ({NsxGroupId[r] : r \in NsxGroupRes} \cup NsxSegments)
    IN  /\ \A m \in Sets : m # None
        /\ \A c \in [group : NsxGroupRes, to : Sets, patch : BOOLEAN] : c # None

\* A server is of one resource.
ASSUME PowerAssumption ==
    /\ \A r \in DOMAIN PowerOrder :
          PowerOrder[r] \in Seq({PowerOrder[r][k] : k \in DOMAIN PowerOrder[r]})
    /\ \A q, r \in DOMAIN PowerOrder : q # r =>
          \A j \in DOMAIN PowerOrder[q], k \in DOMAIN PowerOrder[r] :
             PowerOrder[q][j] # PowerOrder[r][k]
    /\ PowerLeases \in Seq({PowerLeases[k] : k \in DOMAIN PowerLeases})

\* An entry is a JSON object, which is no user's name.
ASSUME GitAssumption ==
    /\ GitNames # {} /\ GitTokens # {}
    /\ \A r \in DOMAIN GitUserOf : GitUserOf[r] \notin GitTokens \cup {"token"}

ASSUME OneFuseAssumption == OfNameCount \in Nat /\ OfBuildMax \in Nat \ {0}

\* What is claimed is a list of groups; a user has a value for each attribute.
ASSUME SsoAssumption ==
    /\ SsoEditMax \in Nat /\ SsoValues # {}
    /\ \A claim \in SsoClaims : claim \in Seq({claim[k] : k \in DOMAIN claim})

-----------------------------------------------------------------------------
(* The components. *)

Arm == INSTANCE ArmDeployment WITH
    Ids <- ArmIds, VMs <- ArmVMs, Children <- ArmChildren, Parent <- ArmParent,
    Disks <- ArmDisks, Nics <- ArmNics, Uses <- ArmUses

Subscription == INSTANCE AzureSubscription WITH
    Handlers <- EaHandlers, Accounts <- EaAccounts, Enrollments <- EaEnrollments,
    Users <- EaUsers, Guests <- EaGuests, PollMax <- EaPollMax, CheckMax <- EaCheckMax

Database == INSTANCE AwsDatabase WITH
    Orders <- DbOrders, DbIds <- DbIdentifiers, Wanted <- DbWanted, Imports <- DbImports

Objects == INSTANCE CloudObjects WITH
    Builds <- ObjectBuilds, Kind <- ObjectKind, CloudName <- ObjectName,
    Names <- ObjectNames

Template == INSTANCE AnsibleTemplate WITH Facts <- TowerFacts, Pages <- TowerPages

Configurations == INSTANCE AnsibleConfigurations WITH
    Apps <- AapApps, Tiers <- AapTiers, Manager <- AapManager, AppOf <- AapAppOf

Vra == INSTANCE VraMigration WITH
    Deployments <- VraDeployments, Deployed <- VraDeployed, Parts <- VraParts,
    Kind <- VraKind, Names <- VraNames, Owners <- VraOwners, Projects <- VraProjects,
    Maps <- VraMaps, PageSize <- VraPageSize, ChangesMax <- VraChangesMax

Segment == INSTANCE NsxSegment WITH
    NetGroups <- SegmentGroups, Nics <- SegmentNics, Updates <- SegmentUpdates,
    WaitMax <- SegmentWaitMax

Nsx == INSTANCE NsxGroups WITH
    GroupRes <- NsxGroupRes, GroupId <- NsxGroupId, Segments <- NsxSegments,
    Changes <- NsxChanges, Rules <- NsxRuleOrders

Power == INSTANCE ServerPower WITH
    Order <- PowerOrder, On <- PowerOn, Workers <- PowerWorkers, LeaseOrder <- PowerLeases

Git == INSTANCE GitConfigs WITH UserOf <- GitUserOf, Names <- GitNames, Tokens <- GitTokens

OneFuse == INSTANCE OneFuseNaming WITH
    Naming <- OfNaming, Service <- OfService, Windows <- OfWindows,
    NameCount <- OfNameCount, BuildMax <- OfBuildMax

Sso == INSTANCE SsoSignIn WITH
    SsoUsers <- SsoUserSet, SignIns <- SsoSignIns, Attrs <- SsoAttrs, Values <- SsoValues,
    Unsent <- SsoUnsent, Claims <- SsoClaims, GroupsMap <- SsoGroupsMap,
    Groups <- SsoGroups, Roles <- SsoRoleSet, EditMax <- SsoEditMax

-----------------------------------------------------------------------------
(* The specification. *)

armVars == <<armBlueprint, nested, azure, outputs, handled, recordedIds,
             armServers, armPc, built, torn, ids, at, attempts, failedIds,
             refused>>
subscriptionVars == <<groupHandlers, form, eaPc, alias, subscription, metadata,
                      seen, tries, matches, ownerRole, roleAnswer, warned, eaResult>>
databaseVars == <<rds, dbRecord, dbPc, builders, deleters>>
objectsVars == <<cloud, databases, namedOn, lost, objPc>>
templateVars == <<ansScript, workflow, ansPc, towerJob, events, page, gathered,
                  written, ansResult>>
configurationsVars == <<aapAction, rounds, aapPc, inventory, aapJobs, jobState,
                        aapResult>>
vraVars == <<vraList, vraAttr, groups, records, partOf, migMode, groupsMap,
             migPc, skip, listed, loaded, todo, changed, changes>>
segmentVars == <<segment, portGroup, network, segRecorded, netRecorded,
                 offered, groupIds, segPc, polls, update, nic, slipped, misread>>
nsxVars == <<nsxGroups, groupPc, members, known, change, policy, nsxRules,
             rulePc, unsure>>
powerVars == <<power, historical, decoms, due, todoOn, todoOff, tasks, powered,
               failures, raised, powerPc, leaseTodo, leaseSeen, leasePc>>
gitVars == <<cfvs, req, wanted, overlapped>>
onefuseVars == <<oneFuse, fields, stage, unanswered, replaced, refusedOnce>>
ssoVars == <<ssoAttr, ssoLdap, memberships, cbGroups, cbRoles, signIn, claimed, edits>>

jobsVars == <<component, vars, armVars, subscriptionVars, databaseVars,
              objectsVars, templateVars, configurationsVars, vraVars,
              segmentVars, nsxVars, powerVars, gitVars,
              onefuseVars, ssoVars>>

NoElements == [k \in 1 .. N |-> [server |-> FALSE,
                                 preset |-> [r \in Resources |-> Unset],
                                 param |-> [r \in Resources |-> Unset]]]

\* An order that is none of the hook's, while another component runs.
NoOrder == /\ blueprintOrder = FALSE
           /\ bpias = NoElements
           /\ next = 1
           /\ bound = [r \in Resources |-> Unset]
           /\ serversFound = FALSE
           /\ exceeded = [r \in Resources |-> FALSE]
           /\ outcome = "left"

JobsInit == /\ component \in Components
            /\ IF component = "auto_approve"
               THEN Init /\ (blueprintOrder \/ bpias = NoElements)
               ELSE NoOrder
            /\ Arm!Init /\ Subscription!Init /\ Database!Init /\ Objects!Init /\ Template!Init
            /\ Configurations!Init /\ Vra!Init /\ Segment!Init /\ Nsx!Init
            /\ Power!Init /\ Git!Init /\ OneFuse!Init /\ Sso!Init

\* Nothing but the chosen component changes.
Only(c) == /\ component = c /\ UNCHANGED component
           /\ IF c = "auto_approve" THEN TRUE ELSE UNCHANGED vars
           /\ IF c = "arm" THEN TRUE ELSE UNCHANGED armVars
           /\ IF c = "subscription" THEN TRUE ELSE UNCHANGED subscriptionVars
           /\ IF c = "database" THEN TRUE ELSE UNCHANGED databaseVars
           /\ IF c = "objects" THEN TRUE ELSE UNCHANGED objectsVars
           /\ IF c = "template" THEN TRUE ELSE UNCHANGED templateVars
           /\ IF c = "configurations" THEN TRUE ELSE UNCHANGED configurationsVars
           /\ IF c = "vra" THEN TRUE ELSE UNCHANGED vraVars
           /\ IF c = "segment" THEN TRUE ELSE UNCHANGED segmentVars
           /\ IF c = "nsx" THEN TRUE ELSE UNCHANGED nsxVars
           /\ IF c = "power" THEN TRUE ELSE UNCHANGED powerVars
           /\ IF c = "git" THEN TRUE ELSE UNCHANGED gitVars
           /\ IF c = "onefuse" THEN TRUE ELSE UNCHANGED onefuseVars
           /\ IF c = "sso" THEN TRUE ELSE UNCHANGED ssoVars

JobsNext == \/ Only("auto_approve") /\ Next
            \/ Only("arm") /\ Arm!Next
            \/ Only("subscription") /\ Subscription!Next
            \/ Only("database") /\ Database!Next
            \/ Only("objects") /\ Objects!Next
            \/ Only("template") /\ Template!Next
            \/ Only("configurations") /\ Configurations!Next
            \/ Only("vra") /\ Vra!Next
            \/ Only("segment") /\ Segment!Next
            \/ Only("nsx") /\ Nsx!Next
            \/ Only("power") /\ Power!Next
            \/ Only("git") /\ Git!Next
            \/ Only("onefuse") /\ OneFuse!Next
            \/ Only("sso") /\ Sso!Next

JobsSpec == JobsInit /\ [][JobsNext]_jobsVars

-----------------------------------------------------------------------------
(* Properties: those of the components. *)

\* Every variable of the component that runs has its type.
TypesOK == /\ component = "auto_approve" => TypeOK
           /\ component = "arm" => Arm!TypeOK
           /\ component = "subscription" => Subscription!TypeOK
           /\ component = "database" => Database!TypeOK
           /\ component = "objects" => Objects!TypeOK
           /\ component = "template" => Template!TypeOK
           /\ component = "configurations" => Configurations!TypeOK
           /\ component = "vra" => Vra!TypeOK
           /\ component = "segment" => Segment!TypeOK
           /\ component = "nsx" => Nsx!TypeOK
           /\ component = "power" => Power!TypeOK
           /\ component = "git" => Git!TypeOK
           /\ component = "onefuse" => OneFuse!TypeOK
           /\ component = "sso" => Sso!TypeOK

\* ARM templates: nothing that a build made outlives a teardown of AKS or of
\* the ARM Builder that reports success, earlier runs of it included.
TeardownLeavesNothing == Arm!TeardownLeavesNothing
\* ARM templates: two passes of deletes are enough, in any order of the ids.
TwoPassesSuffice == Arm!TwoPassesSuffice
\* Azure subscription: a build that reports success has what was asked for,
\* but for an owner whose assignment Azure answered with 404.
SuccessIsTrue == Subscription!SuccessIsTrue
\* AWS MySQL: an order that was refused deletes nobody's database.
RefusedOrderDeletesNothing == Database!RefusedOrderDeletesNothing
\* Azure MySQL, S3, CloudFormation, Lambda: what was made can be found again,
\* unless a build that saves last ended before its save had returned.
NothingForgotten == Objects!NothingForgotten
\* Ansible templates: success means all facts of all pages are written, or
\* that there was nothing to run.
FactsComplete == Template!FactsComplete
\* Ansible configurations: the jobs of two configurations do not overlap.
OneConfigurationAtATime == Configurations!OneConfigurationAtATime
\* vRA migration: what was taken over is as vRA has it, after reruns too.
MigratedAgrees == Vra!MigratedAgrees
\* NSX-T segment: no active server that a teardown could see loses its network.
ActiveServersConnected == Segment!ActiveServersConnected
\* NSX-T groups: the members recorded are the members in NSX-T, until a call
\* fails or two jobs on a group overlap.
NsxAsRecorded == Nsx!NsxAsRecorded
\* Power control: SUCCESS means every scheduled server is on, or off, whose
\* thread did not raise and which the lease job left alone.
ScheduledPower == Power!ScheduledPower
\* Git configurations: the requests of others change nothing of a user's.
OwnEntriesKept == Git!OwnEntriesKept
\* OneFuse: the only ways in which an object outlives its resource.
LeftInOneFuse == OneFuse!LeftInOneFuse
\* Single sign-on: attributes and roles are those the claims stand for, as far
\* as groups and roles exist.
SignedInAsClaimed == Sso!SignedInAsClaimed
=============================================================================
