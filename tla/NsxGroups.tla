----------------------------- MODULE NsxGroups ------------------------------
(***************************************************************************)
(* The NSX-T blueprints for infrastructure groups and for distributed      *)
(* firewall policies with their rules.  Each resource keeps the id of its  *)
(* object in NSX-T, which is made from the name that was typed, and its    *)
(* members; an action changes the members of a group.                      *)
(*                                                                         *)
(* NSX-T is not in the sources: a PUT without a revision makes an object   *)
(* and fails if there is one, a group another one refers to is not deleted,*)
(* a policy is deleted with its rules, a call that raises may have worked. *)
(***************************************************************************)
EXTENDS FiniteSets

CONSTANTS
    GroupRes,   \* resources of the group blueprint
    GroupId,    \* [GroupRes -> ids]: equal for names that differ in case only
    Segments,   \* members that are no groups
    Changes,    \* executions of the action that changes members
    Rules,      \* orders of a rule in the policy, each under an id of its own
    None

VARIABLES
    nsxGroups,   \* [ids -> None, or the members of the group in NSX-T]
    groupPc,     \* [GroupRes -> where the build or the resource is]
    members,     \* [GroupRes -> nsxt_group_refs and nsxt_segment_refs]
    known,       \* resources with nsxt_group_id and nsxt_rh_id saved
    change,      \* [Changes -> None, or the group, the members, and the step]
    policy,      \* the policy: "new", "params" in NSX-T only, "built", "gone"
    nsxRules,    \* rules in NSX-T
    rulePc,      \* [Rules -> where the build or the rule's resource is]
    unsure       \* ids of groups on which a call failed or two jobs overlapped,
                 \* until the last resource that stands for one is torn down

vars == <<nsxGroups, groupPc, members, known, change, policy, nsxRules, rulePc, unsure>>
firewall == <<policy, nsxRules, rulePc>>

Ids == {GroupId[r] : r \in GroupRes}
Members == Ids \cup Segments
Own(r) == nsxGroups[GroupId[r]]

TypeOK == /\ nsxGroups \in [Ids -> (SUBSET Members) \cup {None}]
          /\ groupPc \in [GroupRes -> {"new", "params", "members", "patch", "idle", "gone"}]
          /\ members \in [GroupRes -> SUBSET Members]
          /\ known \subseteq GroupRes /\ unsure \subseteq Ids
          /\ change \in [Changes -> [group : GroupRes, to : SUBSET Members,
                                     patch : BOOLEAN] \cup {None}]
          /\ policy \in {"new", "params", "built", "gone"} /\ nsxRules \subseteq Rules
          /\ rulePc \in [Rules -> {"new", "resource", "active", "gone"}]

Init == /\ nsxGroups = [i \in Ids |-> None]
        /\ groupPc = [r \in GroupRes |-> "new"]
        /\ members = [r \in GroupRes |-> {}]
        /\ known = {} /\ unsure = {}
        /\ change = [c \in Changes |-> None]
        /\ policy = "new" /\ nsxRules = {} /\ rulePc = [k \in Rules |-> "new"]

GotoGroup(r, point) == groupPc' = [groupPc EXCEPT ![r] = point]
Unsure(r) == unsure' = unsure \cup {GroupId[r]}

\* Active groups, and segments, are offered as members; not the group itself.
Offered(r) ==
    Segments \cup ({GroupId[q] : q \in {k \in known : groupPc[k] = "idle"}} \ {GroupId[r]})

-----------------------------------------------------------------------------
(* The group: build, members, teardown. *)

CreateGroup(r) ==
    /\ groupPc[r] = "new" /\ Own(r) = None
    /\ nsxGroups' = [nsxGroups EXCEPT ![GroupId[r]] = {}]
    /\ GotoGroup(r, "params")
    /\ UNCHANGED <<members, known, change, firewall, unsure>>

\* There is a group of that id, or the call raises, with effect or not.
CreateGroupFails(r) ==
    /\ groupPc[r] = "new"
    /\ \/ UNCHANGED <<nsxGroups, unsure>>
       \/ /\ Own(r) = None
          /\ nsxGroups' = [nsxGroups EXCEPT ![GroupId[r]] = {}] /\ Unsure(r)
    /\ GotoGroup(r, "idle")
    /\ UNCHANGED <<members, known, change, firewall>>

SetParams(r) ==
    /\ groupPc[r] = "params"
    /\ known' = known \cup {r}
    /\ GotoGroup(r, "members") \/ GotoGroup(r, "idle")
    /\ UNCHANGED <<nsxGroups, members, change, firewall, unsure>>

\* Bug: the members recorded before are not removed.
RecordedKeepsOld(r, to) == members[r] \cup to

\* update_expression_parameters: the values there are, replaced.
Recorded(r, to) == to

UpdateExpressionParameters(r) ==
    /\ groupPc[r] = "members"
    /\ \E to \in SUBSET Offered(r) : members' = [members EXCEPT ![r] = Recorded(r, to)]
    /\ GotoGroup(r, "patch")
    /\ UNCHANGED <<nsxGroups, known, change, firewall, unsure>>

\* create_or_update_expression: a member that is gone is refused.
CreateExpression(r) ==
    /\ groupPc[r] = "patch"
    /\ IF Own(r) # None /\ \A i \in members[r] \cap Ids : nsxGroups[i] # None
       THEN nsxGroups' = [nsxGroups EXCEPT ![GroupId[r]] = members[r]] /\ UNCHANGED unsure
       ELSE UNCHANGED nsxGroups /\ Unsure(r)
    /\ GotoGroup(r, "idle")
    /\ UNCHANGED <<members, known, change, firewall>>

BuildFails(r) ==
    /\ groupPc[r] \in {"params", "members", "patch"}
    /\ GotoGroup(r, "idle") /\ Unsure(r)
    /\ UNCHANGED <<nsxGroups, members, known, change, firewall>>

At(c, patch) == change[c] # None /\ change[c].patch = patch
Changing(r) == \E c \in Changes : change[c] # None /\ change[c].group = r

\* A job of the action, one that overlaps another on the same group included.
StartChange(c, r) ==
    /\ change[c] = None /\ r \in known /\ groupPc[r] = "idle"
    /\ \E to \in SUBSET Offered(r) :
          change' = [change EXCEPT ![c] = [group |-> r, to |-> to, patch |-> FALSE]]
    /\ IF Changing(r) THEN Unsure(r) ELSE UNCHANGED unsure
    /\ UNCHANGED <<nsxGroups, groupPc, members, known, firewall>>

ChangeParameters(c) ==
    /\ At(c, FALSE)
    /\ LET r == change[c].group
       IN  members' = [members EXCEPT ![r] = Recorded(r, change[c].to)]
    /\ change' = [change EXCEPT ![c].patch = TRUE]
    /\ UNCHANGED <<nsxGroups, groupPc, known, firewall, unsure>>

\* The group is found by its id, whatever has become of the resource.
ChangeExpression(c) ==
    /\ At(c, TRUE)
    /\ LET r == change[c].group
       IN  IF Own(r) # None /\ \A i \in change[c].to \cap Ids : nsxGroups[i] # None
           THEN /\ nsxGroups' = [nsxGroups EXCEPT ![GroupId[r]] = change[c].to]
                /\ UNCHANGED unsure
           ELSE UNCHANGED nsxGroups /\ Unsure(r)
    /\ change' = [change EXCEPT ![c] = None]
    /\ UNCHANGED <<groupPc, members, known, firewall>>

ChangeFails(c) ==
    /\ change[c] # None
    /\ Unsure(change[c].group)
    /\ change' = [change EXCEPT ![c] = None]
    /\ UNCHANGED <<nsxGroups, groupPc, members, known, firewall>>

\* Without the recorded fields the teardown raises, each time.  It does not ask
\* whether a change of the members is under way.
Torn(r) == groupPc[r] = "idle" /\ r \in known
Referred(i) == \E j \in Ids \ {i} : nsxGroups[j] # None /\ i \in nsxGroups[j]

\* Another resource stands for the group of the same id, or is changed.
Shared(r) ==
    \E q \in GroupRes \ {r} :
       /\ GroupId[q] = GroupId[r]
       /\ \/ groupPc[q] \in {"params", "members", "patch"}
          \/ Torn(q) \/ Changing(q)

TeardownGroup(r) ==
    /\ Torn(r) /\ ~Referred(GroupId[r])
    /\ nsxGroups' = [nsxGroups EXCEPT ![GroupId[r]] = None]
    /\ GotoGroup(r, "gone")
    /\ CASE Changing(r) -> Unsure(r)
         [] Shared(r)   -> UNCHANGED unsure
         [] OTHER       -> unsure' = unsure \ {GroupId[r]}
    /\ UNCHANGED <<members, known, change, firewall>>

\* The group goes, its resource stays; a later group may get the same id.
TeardownGroupLost(r) ==
    /\ Torn(r) /\ ~Referred(GroupId[r])
    /\ nsxGroups' = [nsxGroups EXCEPT ![GroupId[r]] = None] /\ Unsure(r)
    /\ UNCHANGED <<groupPc, members, known, change, firewall>>

-----------------------------------------------------------------------------
(* The policy and its rules. *)

CreatePolicy ==
    /\ policy = "new" /\ policy' = "params"
    /\ UNCHANGED <<nsxGroups, groupPc, members, known, change, nsxRules, rulePc, unsure>>

\* A build that dies before leaves a policy that nobody can use or delete.
SetPolicyParams ==
    /\ policy = "params" /\ policy' = "built"
    /\ UNCHANGED <<nsxGroups, groupPc, members, known, change, nsxRules, rulePc, unsure>>

\* The rule may be made by a call that raises: no resource is made for it.
CreateRule(k) ==
    /\ policy = "built" /\ rulePc[k] = "new" /\ k \notin nsxRules
    /\ nsxRules' = nsxRules \cup {k}
    /\ rulePc' \in {[rulePc EXCEPT ![k] = "resource"], [rulePc EXCEPT ![k] = "gone"]}
    /\ UNCHANGED <<nsxGroups, groupPc, members, known, change, policy, unsure>>

CreateRuleResource(k) ==
    /\ rulePc[k] = "resource"
    /\ rulePc' \in {[rulePc EXCEPT ![k] = "active"], [rulePc EXCEPT ![k] = "gone"]}
    /\ UNCHANGED <<nsxGroups, groupPc, members, known, change, policy, nsxRules, unsure>>

\* A rule's teardown leaves an argument out and always raises, so rules go
\* with their policy only; their resources stay.
TeardownPolicy ==
    /\ policy = "built" /\ policy' = "gone" /\ nsxRules' = {}
    /\ UNCHANGED <<nsxGroups, groupPc, members, known, change, rulePc, unsure>>

-----------------------------------------------------------------------------
Next ==
    \/ \E r \in GroupRes :
          \/ CreateGroup(r) \/ CreateGroupFails(r) \/ SetParams(r)
          \/ UpdateExpressionParameters(r) \/ CreateExpression(r) \/ BuildFails(r)
          \/ TeardownGroup(r) \/ TeardownGroupLost(r)
          \/ \E c \in Changes : StartChange(c, r)
    \/ \E c \in Changes : ChangeParameters(c) \/ ChangeExpression(c) \/ ChangeFails(c)
    \/ CreatePolicy \/ SetPolicyParams \/ TeardownPolicy
    \/ \E k \in Rules : CreateRule(k) \/ CreateRuleResource(k)

Spec == Init /\ [][Next]_vars

-----------------------------------------------------------------------------
(* Properties. *)

\* The members on a group's resource are the members of its group in NSX-T
\* once no job works on it, unless a call on a group of that id failed or two
\* jobs on it overlapped (two changes, or a change and the teardown) and its
\* last resource has not been torn down since: whoever orders, changes and
\* tears down other groups, of the same name too.  A rule's resource has its rule until
\* the policy goes.
NsxAsRecorded ==
    /\ \A r \in known :
          /\ groupPc[r] = "idle"
          /\ ~Changing(r)
          /\ GroupId[r] \notin unsure
          => Own(r) = members[r]
    /\ policy = "built" => \A k \in Rules : rulePc[k] = "active" => k \in nsxRules
=============================================================================
