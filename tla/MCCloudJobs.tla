---------------------------- MODULE MCCloudJobs ----------------------------
(* An instance of CloudJobs for TLC. *)
EXTENDS CloudJobs, MCAutoApprove

MCArmIds == {"vm", "disk", "nic", "net", "ext"}
MCArmVMs == {"vm"}
MCArmChildren == {"ext"}
MCArmParent == "ext" :> "vm"
MCArmDisks == "vm" :> <<"disk">>
MCArmNics == "vm" :> <<"nic">>
MCArmUses == "vm" :> {"disk", "nic"} @@ "nic" :> {"net"} @@ "ext" :> {"vm"}
             @@ [id \in MCArmIds |-> {}]

MCEaHandlers == {"h1", "h2"}
MCEaAccounts == [h \in MCEaHandlers |-> {"b"}]
MCEaEnrollments == [h \in MCEaHandlers |-> "b" :> {"e"}]
MCEaUsers == {"u1", "u2", "g"}
MCEaGuests == {"g"}

MCDbOrders == {"o1", "o2"}
MCDbIdentifiers == {"db"}
MCDbWanted == "o1" :> "db" @@ "o2" :> "db"
MCDbImports == {"i"}

\* One of each kind; a name that is taken is a refusal.
MCObjectBuilds == {"a", "s", "f", "l"}
MCObjectKind == "a" :> "azure" @@ "s" :> "s3" @@ "f" :> "stack" @@ "l" :> "lambda"
MCObjectName == "a" :> "na" @@ "s" :> "ns" @@ "f" :> "nf" @@ "l" :> "nl"
MCObjectNames == {"na", "ns", "nf", "nl"}

MCTowerFacts == {"a", "b"}
MCTowerPages == {<<{}>>, <<{"a"}>>, <<{"a"}, {"a", "b"}>>}

MCAapApps == <<"x", "y", "w", "z">>
MCAapTiers == <<<<"s1">>, <<"s2", "s3">>>>
MCAapManager == "s1" :> "m1" @@ "s2" :> "m2" @@ "s3" :> "m2"
MCAapAppOf == "x" :> "m1" @@ "y" :> "m2" @@ "w" :> "m3" @@ "z" :> "m2"

\* One deployment per page; only one of the two projects is in the map.
MCVraDeployments == {"d1", "d2", "d3"}
MCVraDeployed == <<"d1", "d2">>
MCVraParts == "d1" :> <<"s1", "k">> @@ "d2" :> <<"c2">> @@ "d3" :> <<>>
MCVraKind == "s1" :> "server" @@ "c2" :> "child" @@ "k" :> "skipped"
MCVraNames == {"n", "o"}
MCVraOwners == {"u", "v"}
MCVraProjects == {"p", "q"}
MCVraMaps == {<<>>, "p" :> "p"}

MCSegmentGroups == {"g"}
MCSegmentNics == {"n1", "n2"}
MCSegmentUpdates == {"u"}

\* Two orders of one name, and another group.
MCNsxGroupRes == {"a", "b", "c"}
MCNsxGroupId == "a" :> "x" @@ "b" :> "x" @@ "c" :> "y"
MCNsxSegments == {}
MCNsxChanges == {"p"}
MCNsxRuleOrders == {"k"}

MCPowerOrder == "a" :> <<"s">> @@ "b" :> <<"t">>
MCPowerOn == {"s"}
MCPowerLeases == <<"t">>

MCGitUserOf == <<"u", "v", "u">>
MCGitNames == {"n"}
MCGitTokens == {"t"}

MCOfNaming == {"n"}
MCOfService == {"w", "l"}
MCOfWindows == {"w"}

MCSsoUserSet == {"u"}
MCSsoSignIns == {"s1", "s2"}
MCSsoAttrs == {"a", "b"}
\* An attribute may be empty; an empty value from the provider is not set.
MCSsoValues == {"", "y"}
\* The group of the name k does not exist, the other is in the map.
MCSsoClaims == {<<"k", "g">>}
MCSsoGroupsMap == "g" :> [group |-> "G", roles |-> {"requestor", "lost"}]
MCSsoGroups == {"G"}
MCSsoRoleSet == {"requestor"}
=============================================================================
