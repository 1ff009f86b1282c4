---------------------- MODULE CloudJobs_shared_proofs ----------------------
(***************************************************************************)
(* Proofs about the components of CloudJobs whose jobs meet at shared      *)
(* rows: the network segment and the groups of NSX-T, sign-ins, and the    *)
(* power control beside the leases; and the types of all components.       *)
(***************************************************************************)
EXTENDS CloudJobs_resources_proofs, AutoApprove_proofs

-----------------------------------------------------------------------------
(* The network segment of NSX-T. *)

Live(n) == nic[n] \in {"provisioning", "active"}

\* A network that is recorded hangs on its segment until the teardown deletes
\* it, which it only does when the servers there are were not active yet; a
\* teardown that cannot read the network breaks this, and is remembered.
SegmentInv ==
    /\ Segment!TypeOK
    /\ segPc \in {"new", "attach", "write", "wait", "network", "clusters"} => ~netRecorded
    /\ segPc \in {"write", "wait", "network", "clusters", "groups"} => segment = "attached"
    /\ segPc \in {"clusters", "groups"} => network
    /\ segPc = "groups" => netRecorded
    /\ segPc \in {"detach", "remove"} => misread \/ ~(netRecorded /\ network)
    /\ netRecorded /\ network => misread \/ segment = "attached"
    /\ \A u \in SegmentUpdates : update[u] # None => netRecorded
    /\ offered # {} => netRecorded /\ network
    /\ \A n \in SegmentNics \ slipped : Live(n) => netRecorded /\ network /\ segPc # "delete"

LEMMA SegmentInit == Segment!Init => SegmentInv
<1> SUFFICES ASSUME Segment!Init PROVE SegmentInv
  OBVIOUS
<1>1. polls \in 0 .. SegmentWaitMax
  BY SegmentAssumption DEF Segment!Init
<1> QED
  BY <1>1 DEF Segment!Init, SegmentInv, Segment!TypeOK, Live

LEMMA SegmentStep == SegmentInv /\ Segment!Next => SegmentInv'
<1> SUFFICES ASSUME SegmentInv, Segment!Next PROVE SegmentInv'
  OBVIOUS
<1> USE SegmentAssumption
    DEF SegmentInv, Segment!TypeOK, Segment!Update, Segment!cloud, Segment!fields,
        Segment!servers, Segment!Step, Live
<1>1. CASE Segment!AddSegment
  BY <1>1 DEF Segment!AddSegment
<1>2. CASE Segment!AddSegmentFails
  BY <1>2 DEF Segment!AddSegmentFails
<1>3. CASE Segment!AttachSegment
  BY <1>3 DEF Segment!AttachSegment
<1>4. CASE Segment!WriteParams
  BY <1>4 DEF Segment!WriteParams
<1>5. CASE Segment!PollPortGroup
  BY <1>5 DEF Segment!PollPortGroup
<1>6. CASE Segment!AddNetwork
  BY <1>6 DEF Segment!AddNetwork
<1>7. CASE Segment!AddClusters
  BY <1>7 DEF Segment!AddClusters
<1>8. CASE Segment!AddToGroups
  BY <1>8 DEF Segment!AddToGroups
<1>9. CASE Segment!BuildFails
  BY <1>9 DEF Segment!BuildFails
<1>10. CASE Segment!BeginTeardown
  BY <1>10 DEF Segment!BeginTeardown
<1>11. CASE Segment!CheckServers
  BY <1>11 DEF Segment!CheckServers
<1>12. CASE Segment!DeleteNetwork
  BY <1>12 DEF Segment!DeleteNetwork
<1>13. CASE Segment!DetachSegment
  BY <1>13 DEF Segment!DetachSegment
<1>14. CASE Segment!RemoveSegment
  BY <1>14 DEF Segment!RemoveSegment
<1>15. CASE Segment!TeardownFails
  BY <1>15 DEF Segment!TeardownFails
<1>16. CASE Segment!ShowPortGroup
  BY <1>16 DEF Segment!ShowPortGroup
<1>17. ASSUME NEW u \in SegmentUpdates, Segment!StartUpdate(u) PROVE SegmentInv'
  BY <1>17 DEF Segment!StartUpdate
<1>18. ASSUME NEW u \in SegmentUpdates, Segment!AddNetworkToGroups(u) PROVE SegmentInv'
  BY <1>18 DEF Segment!AddNetworkToGroups
<1>19. ASSUME NEW u \in SegmentUpdates, Segment!RemoveNetworkFromGroups(u)
      PROVE  SegmentInv'
  BY <1>19 DEF Segment!RemoveNetworkFromGroups
<1>20. ASSUME NEW u \in SegmentUpdates, Segment!UpdateGroupsCfv(u) PROVE SegmentInv'
  BY <1>20 DEF Segment!UpdateGroupsCfv
<1>21. ASSUME NEW u \in SegmentUpdates, Segment!UpdateFails(u) PROVE SegmentInv'
  BY <1>21 DEF Segment!UpdateFails
<1>22. ASSUME NEW n \in SegmentNics, Segment!OrderServer(n) PROVE SegmentInv'
  BY <1>22 DEF Segment!OrderServer
<1>23. ASSUME NEW n \in SegmentNics, Segment!ProvisionServer(n) PROVE SegmentInv'
  BY <1>23 DEF Segment!ProvisionServer
<1>24. ASSUME NEW n \in SegmentNics, Segment!DeleteServer(n) PROVE SegmentInv'
  BY <1>24 DEF Segment!DeleteServer
<1> QED
  BY <1>1, <1>2, <1>3, <1>4, <1>5, <1>6, <1>7, <1>8, <1>9, <1>10, <1>11, <1>12, <1>13,
     <1>14, <1>15, <1>16, <1>17, <1>18, <1>19, <1>20, <1>21, <1>22, <1>23, <1>24
     DEF Segment!Next

LEMMA SegmentStutter == SegmentInv /\ UNCHANGED segmentVars => SegmentInv'
BY DEF SegmentInv, segmentVars, Segment!TypeOK, Live

LEMMA SegmentPart == [JobsNext]_jobsVars => Segment!Next \/ UNCHANGED segmentVars
BY DEF JobsNext, Only, jobsVars

\* No active server loses its network or segment, unless it was being provisioned
\* when a teardown looked: for any servers, groups, updates and number of polls.
THEOREM ServersStayConnected == JobsSpec => []ActiveServersConnected
<1>1. JobsInit => SegmentInv
  BY SegmentInit DEF JobsInit
<1>2. SegmentInv /\ [JobsNext]_jobsVars => SegmentInv'
  BY SegmentPart, SegmentStep, SegmentStutter
<1>3. SegmentInv => ActiveServersConnected
  BY DEF SegmentInv, ActiveServersConnected, Segment!ActiveServersConnected, Live
<1> QED
  BY <1>1, <1>2, <1>3, PTL DEF JobsSpec

-----------------------------------------------------------------------------
(* The groups and the firewall policy of NSX-T. *)

\* The resource stands for the group of its id.
Holds(r) == \/ groupPc[r] \in {"params", "members", "patch"}
            \/ groupPc[r] = "idle" /\ r \in known

ChangesOf(r) == {c \in NsxChanges : change[c] # None /\ change[c].group = r}

\* A group whose calls all worked has one resource that stands for it and one
\* change at a time, and at each point of them the members it should have.
HeldInv ==
    \A r \in NsxGroupRes :
        /\ groupPc[r] \in {"new", "params"} => r \notin known /\ members[r] = {}
        /\ groupPc[r] \in {"idle", "gone"} \/ ChangesOf(r) = {}
        /\ ChangesOf(r) # {} => r \in known
        /\ groupPc[r] = "gone" /\ ChangesOf(r) # {} => NsxGroupId[r] \in unsure
        /\ Holds(r) /\ NsxGroupId[r] \notin unsure =>
              /\ Nsx!Own(r) # None
              /\ groupPc[r] \in {"params", "members"} => Nsx!Own(r) = members[r]
              /\ \A q \in NsxGroupRes \ {r} : NsxGroupId[q] = NsxGroupId[r] => ~Holds(q)
              /\ \A c, d \in ChangesOf(r) : c = d
              /\ groupPc[r] = "idle" /\ ChangesOf(r) = {} => Nsx!Own(r) = members[r]
              /\ \A c \in ChangesOf(r) :
                    IF change[c].patch THEN members[r] = change[c].to
                    ELSE Nsx!Own(r) = members[r]

PolicyInv ==
    /\ policy \in {"new", "params"} => \A k \in NsxRuleOrders : rulePc[k] = "new"
    /\ policy = "built" =>
          \A k \in NsxRuleOrders : rulePc[k] \in {"resource", "active"} => k \in nsxRules

NsxInv == Nsx!TypeOK /\ HeldInv /\ PolicyInv

LEMMA NsxInit == Nsx!Init => NsxInv
BY DEF Nsx!Init, NsxInv, Nsx!TypeOK, HeldInv, PolicyInv, Holds, ChangesOf

\* The members are recorded; the change has still to reach NSX-T.
LEMMA NsxChangeParameters ==
    ASSUME NsxInv, NEW c \in NsxChanges, Nsx!ChangeParameters(c)
    PROVE  NsxInv'
<1> DEFINE Sets == SUBSET ({NsxGroupId[r] : r \in NsxGroupRes} \cup NsxSegments)
           Records == [group : NsxGroupRes, to : Sets, patch : BOOLEAN]
           r == change[c].group
           after == [change[c] EXCEPT !.patch = TRUE]
<1>1. /\ change[c] \in Records /\ change[c].patch = FALSE /\ change[c] # None
      /\ change' = [change EXCEPT ![c].patch = TRUE]
      /\ members' = [members EXCEPT ![r] = change[c].to]
      /\ UNCHANGED <<nsxGroups, groupPc, known, policy, nsxRules, rulePc, unsure>>
  BY DEF NsxInv, Nsx!TypeOK, Nsx!ChangeParameters, Nsx!At, Nsx!Recorded, Nsx!firewall,
         Nsx!Members, Nsx!Ids
<1>2. /\ after \in Records /\ after # None
      /\ after.group = r /\ after.to = change[c].to /\ after.patch
  <2>1. after \in Records
    BY <1>1
  <2>2. after.group = r /\ after.to = change[c].to
    BY <1>1
  <2>3. after.patch
    BY <1>1
  <2>4. None \notin Records
    BY NsxAssumption
  <2> HIDE DEF after
  <2> QED
    BY <2>1, <2>2, <2>3, <2>4
<1>3. change' = [change EXCEPT ![c] = after]
  BY <1>1
<1> HIDE DEF after
<1>4. change \in [NsxChanges -> Records \cup {None}] /\ members \in [NsxGroupRes -> Sets]
  BY DEF NsxInv, Nsx!TypeOK, Nsx!Members, Nsx!Ids
<1>5. /\ change' \in [NsxChanges -> Records \cup {None}]
      /\ change'[c] = after
      /\ \A d \in NsxChanges \ {c} : change'[d] = change[d]
  BY <1>2, <1>3, <1>4
<1>6. r \in NsxGroupRes /\ change[c].to \in Sets
  BY <1>1
<1>7. /\ members' \in [NsxGroupRes -> Sets]
      /\ members'[r] = change[c].to
      /\ \A q \in NsxGroupRes \ {r} : members'[q] = members[q]
  BY <1>1, <1>4, <1>6
<1>8. Nsx!TypeOK'
  BY <1>1, <1>5, <1>7 DEF NsxInv, Nsx!TypeOK, Nsx!Members, Nsx!Ids
<1>9. /\ \A q \in NsxGroupRes : ChangesOf(q)' = ChangesOf(q)
      /\ \A q \in NsxGroupRes : Holds(q)' = Holds(q) /\ Nsx!Own(q)' = Nsx!Own(q)
      /\ c \in ChangesOf(r)
      /\ \A q \in NsxGroupRes \ {r} : c \notin ChangesOf(q)
  BY <1>1, <1>2, <1>5 DEF ChangesOf, Holds, Nsx!Own
<1>10. HeldInv'
  <2> SUFFICES ASSUME NEW q \in NsxGroupRes
               PROVE  /\ groupPc[q] \in {"new", "params"} => q \notin known /\ members'[q] = {}
                      /\ groupPc[q] \in {"idle", "gone"} \/ ChangesOf(q) = {}
                      /\ ChangesOf(q) # {} => q \in known
                      /\ groupPc[q] = "gone" /\ ChangesOf(q) # {} => NsxGroupId[q] \in unsure
                      /\ Holds(q) /\ NsxGroupId[q] \notin unsure =>
                            /\ Nsx!Own(q) # None
                            /\ groupPc[q] \in {"params", "members"}
                                  => Nsx!Own(q) = members'[q]
                            /\ \A o \in NsxGroupRes \ {q} :
                                  NsxGroupId[o] = NsxGroupId[q] => ~Holds(o)
                            /\ \A d, e \in ChangesOf(q) : d = e
                            /\ groupPc[q] = "idle" /\ ChangesOf(q) = {}
                                  => Nsx!Own(q) = members'[q]
                            /\ \A d \in ChangesOf(q) :
                                  IF change'[d].patch THEN members'[q] = change'[d].to
                                  ELSE Nsx!Own(q) = members'[q]
    BY <1>1, <1>9 DEF HeldInv
  <2>1. CASE q = r
    BY <2>1, <1>2, <1>5, <1>7, <1>9 DEF NsxInv, HeldInv
  <2>2. CASE q # r
    <3>1. members'[q] = members[q] /\ \A d \in ChangesOf(q) : change'[d] = change[d]
      BY <2>2, <1>5, <1>7, <1>9 DEF ChangesOf
    <3> QED
      BY <3>1 DEF NsxInv, HeldInv
  <2> QED
    BY <2>1, <2>2
<1>11. PolicyInv'
  BY <1>1 DEF NsxInv, PolicyInv
<1> QED
  BY <1>8, <1>10, <1>11 DEF NsxInv

LEMMA NsxStep == NsxInv /\ Nsx!Next => NsxInv'
<1> SUFFICES ASSUME NsxInv, Nsx!Next PROVE NsxInv'
  OBVIOUS
<1> USE NsxAssumption
    DEF NsxInv, Nsx!TypeOK, HeldInv, PolicyInv, Holds, ChangesOf, Nsx!Own, Nsx!Ids,
        Nsx!Members, Nsx!firewall, Nsx!GotoGroup, Nsx!Unsure, Nsx!Recorded, Nsx!At, Nsx!Torn, Nsx!Changing
<1>1. ASSUME NEW r \in NsxGroupRes, Nsx!CreateGroup(r) PROVE NsxInv'
  BY <1>1 DEF Nsx!CreateGroup
<1>2. ASSUME NEW r \in NsxGroupRes, Nsx!CreateGroupFails(r) PROVE NsxInv'
  BY <1>2 DEF Nsx!CreateGroupFails
<1>3. ASSUME NEW r \in NsxGroupRes, Nsx!SetParams(r) PROVE NsxInv'
  BY <1>3 DEF Nsx!SetParams
<1>4. ASSUME NEW r \in NsxGroupRes, Nsx!UpdateExpressionParameters(r) PROVE NsxInv'
  BY <1>4 DEF Nsx!UpdateExpressionParameters, Nsx!Offered
<1>5. ASSUME NEW r \in NsxGroupRes, Nsx!CreateExpression(r) PROVE NsxInv'
  BY <1>5 DEF Nsx!CreateExpression
<1>6. ASSUME NEW r \in NsxGroupRes, Nsx!BuildFails(r) PROVE NsxInv'
  BY <1>6 DEF Nsx!BuildFails
<1>7. ASSUME NEW r \in NsxGroupRes, Nsx!TeardownGroup(r) PROVE NsxInv'
  BY <1>7 DEF Nsx!TeardownGroup, Nsx!Shared
<1>8. ASSUME NEW r \in NsxGroupRes, Nsx!TeardownGroupLost(r) PROVE NsxInv'
  BY <1>8 DEF Nsx!TeardownGroupLost
<1>9. ASSUME NEW r \in NsxGroupRes, NEW c \in NsxChanges, Nsx!StartChange(c, r)
      PROVE  NsxInv'
  BY <1>9 DEF Nsx!StartChange, Nsx!Offered
<1>10. ASSUME NEW c \in NsxChanges, Nsx!ChangeParameters(c) PROVE NsxInv'
  BY <1>10, NsxChangeParameters
<1>11. ASSUME NEW c \in NsxChanges, Nsx!ChangeExpression(c) PROVE NsxInv'
  BY <1>11 DEF Nsx!ChangeExpression
<1>12. ASSUME NEW c \in NsxChanges, Nsx!ChangeFails(c) PROVE NsxInv'
  BY <1>12 DEF Nsx!ChangeFails
<1>13. CASE Nsx!CreatePolicy
  BY <1>13 DEF Nsx!CreatePolicy
<1>14. CASE Nsx!SetPolicyParams
  BY <1>14 DEF Nsx!SetPolicyParams
<1>15. CASE Nsx!TeardownPolicy
  BY <1>15 DEF Nsx!TeardownPolicy
<1>16. ASSUME NEW k \in NsxRuleOrders, Nsx!CreateRule(k) PROVE NsxInv'
  BY <1>16 DEF Nsx!CreateRule
<1>17. ASSUME NEW k \in NsxRuleOrders, Nsx!CreateRuleResource(k) PROVE NsxInv'
  BY <1>17 DEF Nsx!CreateRuleResource
<1> QED
  BY <1>1, <1>2, <1>3, <1>4, <1>5, <1>6, <1>7, <1>8, <1>9, <1>10, <1>11, <1>12, <1>13,
     <1>14, <1>15, <1>16, <1>17
     DEF Nsx!Next

LEMMA NsxStutter == NsxInv /\ UNCHANGED nsxVars => NsxInv'
BY DEF NsxInv, nsxVars, Nsx!TypeOK, HeldInv, PolicyInv, Holds, ChangesOf, Nsx!Own

LEMMA NsxPart == [JobsNext]_jobsVars => Nsx!Next \/ UNCHANGED nsxVars
BY DEF JobsNext, Only, jobsVars

\* What is recorded of a group and of a rule is what NSX-T has, for any groups,
\* equal ids, changes and rules.
THEOREM MembersAsRecorded == JobsSpec => []NsxAsRecorded
<1>1. JobsInit => NsxInv
  BY NsxInit DEF JobsInit
<1>2. NsxInv /\ [JobsNext]_jobsVars => NsxInv'
  BY NsxPart, NsxStep, NsxStutter
<1>3. NsxInv => NsxAsRecorded
  BY DEF NsxInv, NsxAsRecorded, Nsx!NsxAsRecorded, Nsx!TypeOK, Nsx!Own,
         Nsx!Changing, HeldInv, PolicyInv, Holds, ChangesOf
<1> QED
  BY <1>1, <1>2, <1>3, PTL DEF JobsSpec

-----------------------------------------------------------------------------
(* The users of single sign-on. *)

SsoRoles == SsoUserSet \X {Sso!Target(g).group : g \in Sso!AllClaimed}
                       \X UNION {Sso!Target(g).roles : g \in Sso!AllClaimed}
SsoThings == (SsoUserSet \X SsoAttrs) \cup SsoRoles
SsoIdle == {[pc |-> "none"], [pc |-> "failed"]}

\* A sign-in that has begun.
SsoBegun == [pc : {"update", "ldap", "groups", "done"}, user : SsoUserSet,
             claim : SsoClaims, sent : [SsoAttrs -> SsoValues \cup {SsoUnsent}],
             copy : [SsoAttrs -> SsoValues], at : Nat \ {0},
             left : SUBSET SsoRoles, stale : BOOLEAN, touched : SUBSET SsoThings,
             noGroup : SUBSET SsoGroups, noRole : SUBSET SsoRoleSet]

\* What a sign-in q has done by now holds of the attributes, memberships,
\* groups and roles there are, but for what changed since it began.
SignInOK(q, attr, held, cbgs, cbrs, grants) ==
    /\ \A k \in DOMAIN q.claim : Sso!Granted(q.user, q.claim[k]) \subseteq grants
    /\ q.left \subseteq grants
    /\ \A a \in SsoAttrs : <<q.user, a>> \notin q.touched =>
          /\ q.pc = "update" => attr[q.user][a] = q.copy[a]
          /\ q.pc # "update" /\ q.sent[a] # SsoUnsent => attr[q.user][a] = q.sent[a]
    /\ SsoGroups \ q.noGroup \subseteq cbgs
    /\ SsoRoleSet \ q.noRole \subseteq cbrs
    /\ \A k \in DOMAIN q.claim :
          k < q.at /\ Sso!Target(q.claim[k]).group \in SsoGroups \ q.noGroup
          => \A m \in Sso!Granted(q.user, q.claim[k]) :
                m[3] \in SsoRoleSet \ q.noRole
                => m \in q.left \/ m \in q.touched \/ m \in held
    /\ q.pc = "done" => q.at > Len(q.claim) /\ q.left = {}

SsoInv ==
    /\ Sso!TypeOK
    /\ memberships \subseteq claimed
    /\ signIn \in [SsoSignIns -> SsoBegun \cup SsoIdle]
    /\ \A s \in SsoSignIns : signIn[s] \in SsoBegun =>
          SignInOK(signIn[s], ssoAttr, memberships, cbGroups, cbRoles, claimed)

LEMMA SsoInit == Sso!Init => SsoInv
<1> SUFFICES ASSUME Sso!Init PROVE SsoInv
  OBVIOUS
<1>1. Sso!First(SsoValues) \in SsoValues
  BY SsoAssumption DEF Sso!First
<1>2. [pc |-> "none"] \notin SsoBegun
  BY DEF SsoBegun
<1> QED
  BY <1>1, <1>2, SsoAssumption DEF Sso!Init, SsoInv, Sso!TypeOK, SsoIdle

\* The sign-in q after it learnt of changes and deletions.
Learnt(q, things, gs, rs) ==
    [q EXCEPT !.touched = @ \cup things, !.noGroup = @ \cup gs, !.noRole = @ \cup rs,
              !.stale = @ \/ \E m \in q.left : m[2] \in gs]

\* It learns nothing else.
OnlyLearnt(p, q, things, gs, rs) ==
    /\ p.pc = q.pc /\ p.user = q.user /\ p.claim = q.claim /\ p.sent = q.sent
    /\ p.copy = q.copy /\ p.at = q.at /\ p.left = q.left
    /\ p.touched = q.touched \cup things
    /\ p.noGroup = q.noGroup \cup gs /\ p.noRole = q.noRole \cup rs

LEMMA SsoTouched ==
    ASSUME NEW q \in SsoBegun, NEW things, things \subseteq SsoThings,
           NEW gs, gs \subseteq SsoGroups, NEW rs, rs \subseteq SsoRoleSet
    PROVE  /\ Learnt(q, things, gs, rs) \in SsoBegun
           /\ OnlyLearnt(Learnt(q, things, gs, rs), q, things, gs, rs)
<1> DEFINE p == Learnt(q, things, gs, rs)
<1>1. /\ p.pc = q.pc /\ p.user = q.user /\ p.claim = q.claim /\ p.sent = q.sent
      /\ p.copy = q.copy /\ p.at = q.at /\ p.left = q.left
      /\ p.touched = q.touched \cup things
      /\ p.noGroup = q.noGroup \cup gs /\ p.noRole = q.noRole \cup rs
      /\ p.stale = (q.stale \/ \E m \in q.left : m[2] \in gs)
  BY DEF SsoBegun, Learnt
<1>2. p.stale \in BOOLEAN
  BY <1>1
<1>3. p \in SsoBegun
  <2>1. q.touched \cup things \in SUBSET SsoThings
    BY DEF SsoBegun
  <2>2. q.noGroup \cup gs \in SUBSET SsoGroups /\ q.noRole \cup rs \in SUBSET SsoRoleSet
    BY DEF SsoBegun
  <2>3. (q.stale \/ \E m \in q.left : m[2] \in gs) \in BOOLEAN
    OBVIOUS
  <2> QED
    BY <2>1, <2>2, <2>3 DEF SsoBegun, Learnt
<1> QED
  BY <1>1, <1>3 DEF OnlyLearnt

LEMMA SsoClaimed ==
    ASSUME NEW u \in SsoUserSet, NEW claim \in SsoClaims, NEW k \in DOMAIN claim
    PROVE  /\ Sso!Granted(u, claim[k]) \subseteq SsoRoles
           /\ DOMAIN claim = 1 .. Len(claim) /\ Len(claim) \in Nat
<1>1. claim[k] \in Sso!AllClaimed
  BY DEF Sso!AllClaimed
<1>2. claim \in Seq({claim[j] : j \in DOMAIN claim})
  BY SsoAssumption
<1> QED
  BY <1>1, <1>2 DEF Sso!Granted, SsoRoles

LEMMA SsoBegin ==
    ASSUME SsoInv, NEW s \in SsoSignIns, Sso!BeginSignIn(s)
    PROVE  SsoInv'
<1>1. PICK u \in SsoUserSet, claim \in SsoClaims,
           sent \in [SsoAttrs -> SsoValues \cup {SsoUnsent}] :
        /\ signIn' = [signIn EXCEPT ![s] =
              [pc |-> "update", user |-> u, claim |-> claim, sent |-> sent,
               copy |-> ssoAttr[u], at |-> 1, left |-> {}, stale |-> FALSE,
               touched |-> {}, noGroup |-> SsoGroups \ cbGroups,
               noRole |-> SsoRoleSet \ cbRoles]]
        /\ claimed' = claimed \cup
              UNION {Sso!Granted(u, claim[k]) : k \in DOMAIN claim}
  BY DEF Sso!BeginSignIn
<1> DEFINE q == [pc |-> "update", user |-> u, claim |-> claim, sent |-> sent,
                 copy |-> ssoAttr[u], at |-> 1, left |-> {}, stale |-> FALSE,
                 touched |-> {}, noGroup |-> SsoGroups \ cbGroups,
                 noRole |-> SsoRoleSet \ cbRoles]
<1>2. UNCHANGED <<ssoAttr, ssoLdap, memberships, cbGroups, cbRoles, edits>>
  BY DEF Sso!BeginSignIn
<1>3. q \in SsoBegun
  BY DEF SsoInv, Sso!TypeOK, SsoBegun, SsoThings
<1>4. claimed' \subseteq SsoRoles
  BY <1>1, SsoClaimed DEF SsoInv, Sso!TypeOK, SsoRoles
<1>5. /\ q.pc = "update" /\ q.user = u /\ q.claim = claim /\ q.copy = ssoAttr[u]
      /\ q.at = 1 /\ q.touched = {} /\ q.left = {}
      /\ q.noGroup = SsoGroups \ cbGroups /\ q.noRole = SsoRoleSet \ cbRoles
  OBVIOUS
<1> HIDE DEF q
<1>6. SignInOK(q, ssoAttr, memberships, cbGroups, cbRoles, claimed')
  <2>1. \A k \in DOMAIN claim : Sso!Granted(u, claim[k]) \subseteq claimed'
    BY <1>1
  <2>2. \A k \in DOMAIN claim : ~(k < 1)
    BY SsoClaimed
  <2> QED
    BY <2>1, <2>2, <1>5 DEF SignInOK
<1>7. /\ signIn'[s] = q
      /\ \A o \in SsoSignIns \ {s} : signIn'[o] = signIn[o]
      /\ signIn' \in [SsoSignIns -> SsoBegun \cup SsoIdle]
  BY <1>1, <1>3 DEF SsoInv, q
<1>8. ASSUME NEW o \in SsoSignIns, signIn'[o] \in SsoBegun
      PROVE  SignInOK(signIn'[o], ssoAttr, memberships, cbGroups, cbRoles, claimed')
  <2>1. CASE o = s
    BY <2>1, <1>6, <1>7
  <2>2. CASE o # s
    <3>1. signIn'[o] = signIn[o] /\ claimed \subseteq claimed'
      BY <2>2, <1>1, <1>7
    <3>2. SignInOK(signIn[o], ssoAttr, memberships, cbGroups, cbRoles, claimed)
      BY <3>1, <1>8 DEF SsoInv
    <3> QED
      BY <3>1, <3>2 DEF SignInOK
  <2> QED
    BY <2>1, <2>2
<1>9. \A o \in SsoSignIns :
         signIn'[o].pc \in {"none", "update", "ldap", "groups", "done", "failed"}
  BY <1>7 DEF SsoBegun, SsoIdle
<1> QED
  BY <1>1, <1>2, <1>4, <1>7, <1>8, <1>9 DEF SsoInv, Sso!TypeOK, SsoRoles

\* What the others change of a sign-in's user, groups and roles, it learns.
LEMMA SsoStays ==
    ASSUME NEW q \in SsoBegun, NEW things, things \subseteq SsoThings,
           NEW gs, gs \subseteq SsoGroups, NEW rs, rs \subseteq SsoRoleSet,
           NEW attr, NEW held, NEW gs0, NEW rs0, NEW grants,
           NEW attr1, NEW held1, NEW gs1, NEW rs1,
           SignInOK(q, attr, held, gs0, rs0, grants),
           \A a \in SsoAttrs :
              <<q.user, a>> \notin things => attr1[q.user][a] = attr[q.user][a],
           gs0 \subseteq gs1 \cup gs, rs0 \subseteq rs1 \cup rs,
           \A m \in held : m \in held1 \/ m \in things \/ m[2] \in gs \/ m[3] \in rs
    PROVE  SignInOK(Learnt(q, things, gs, rs), attr1, held1, gs1, rs1, grants)
<1> DEFINE p == Learnt(q, things, gs, rs)
<1>0. p \in SsoBegun /\ OnlyLearnt(p, q, things, gs, rs)
  BY SsoTouched
<1> HIDE DEF p
<1>1. /\ p \in SsoBegun /\ p.touched = q.touched \cup things
      /\ p.noGroup = q.noGroup \cup gs /\ p.noRole = q.noRole \cup rs
      /\ p.pc = q.pc /\ p.user = q.user /\ p.claim = q.claim /\ p.sent = q.sent
      /\ p.copy = q.copy /\ p.at = q.at /\ p.left = q.left
  BY <1>0 DEF OnlyLearnt
<1>2. \A k \in DOMAIN p.claim : \A m \in Sso!Granted(p.user, p.claim[k]) :
         m[2] = Sso!Target(p.claim[k]).group
  BY DEF Sso!Granted
<1>3. SignInOK(p, attr1, held1, gs1, rs1, grants)
  BY <1>1, <1>2 DEF SignInOK
<1> QED
  BY <1>3 DEF p

\* Every sign-in under way, but `mine', learns of changes and deletions.
LEMMA SsoTouch ==
    ASSUME SsoInv, NEW mine, NEW things, things \subseteq SsoThings,
           NEW gs, gs \subseteq SsoGroups, NEW rs, rs \subseteq SsoRoleSet
    PROVE  /\ Sso!Touch(mine, things, gs, rs) \in [SsoSignIns -> SsoBegun \cup SsoIdle]
           /\ \A o \in SsoSignIns :
                 Sso!Touch(mine, things, gs, rs)[o] =
                    IF o \in mine \/ signIn[o].pc \in {"none", "failed"} THEN signIn[o]
                    ELSE Learnt(signIn[o], things, gs, rs)
<1>1. \A o \in SsoSignIns : signIn[o].pc \notin {"none", "failed"}
         => signIn[o] \in SsoBegun
  BY DEF SsoInv, SsoIdle
<1>2. \A o \in SsoSignIns :
         Sso!Touch(mine, things, gs, rs)[o] =
            IF o \in mine \/ signIn[o].pc \in {"none", "failed"} THEN signIn[o]
            ELSE Learnt(signIn[o], things, gs, rs)
  BY DEF Sso!Touch, Learnt
<1>3. \A o \in SsoSignIns :
         Sso!Touch(mine, things, gs, rs)[o] \in SsoBegun \cup SsoIdle
  BY <1>1, <1>2, SsoTouched DEF SsoInv
<1>4. Sso!Touch(mine, things, gs, rs) =
         [o \in SsoSignIns |-> Sso!Touch(mine, things, gs, rs)[o]]
  BY DEF Sso!Touch
<1> QED
  BY <1>2, <1>3, <1>4

LEMMA SsoUpdate ==
    ASSUME SsoInv, NEW s \in SsoSignIns, Sso!UpdateUser(s)
    PROVE  SsoInv'
<1> DEFINE q == signIn[s]
           u == q.user
           saved == IF Sso!Updated(q) # q.copy THEN Sso!Updated(q) ELSE ssoAttr[u]
           things == {<<u, a>> : a \in {b \in SsoAttrs : saved[b] # ssoAttr[u][b]}}
<1>1. /\ q.pc = "update"
      /\ ssoAttr' = [ssoAttr EXCEPT ![u] = saved]
      /\ signIn' = [Sso!Touch({s}, things, {}, {}) EXCEPT
                       ![s].pc = "ldap", ![s].copy = Sso!Updated(q)]
      /\ UNCHANGED <<ssoLdap, memberships, cbGroups, cbRoles, claimed, edits>>
  BY DEF Sso!UpdateUser
<1>2. q \in SsoBegun /\ u \in SsoUserSet
  BY <1>1 DEF SsoInv, SsoBegun, SsoIdle
<1>3. /\ saved \in [SsoAttrs -> SsoValues]
      /\ ssoAttr' \in [SsoUserSet -> [SsoAttrs -> SsoValues]]
      /\ ssoAttr'[u] = saved
      /\ \A v \in SsoUserSet \ {u} : ssoAttr'[v] = ssoAttr[v]
  <2>1. Sso!Updated(q) \in [SsoAttrs -> SsoValues]
    BY <1>2 DEF Sso!Updated, SsoBegun
  <2>2. ssoAttr[u] \in [SsoAttrs -> SsoValues]
    BY <1>2 DEF SsoInv, Sso!TypeOK
  <2>3. saved \in [SsoAttrs -> SsoValues]
    BY <2>1, <2>2
  <2> QED
    BY <1>1, <1>2, <2>3 DEF SsoInv, Sso!TypeOK
<1>4. things \subseteq SsoThings
  BY <1>2 DEF SsoThings
<1>5. \A a \in SsoAttrs : <<u, a>> \notin q.touched /\ q.sent[a] # SsoUnsent
         => saved[a] = q.sent[a]
  <2>1. SignInOK(q, ssoAttr, memberships, cbGroups, cbRoles, claimed)
    BY <1>2 DEF SsoInv
  <2>2. \A a \in SsoAttrs : <<u, a>> \notin q.touched => ssoAttr[u][a] = q.copy[a]
    BY <1>1, <2>1 DEF SignInOK
  <2>3. \A a \in SsoAttrs : q.sent[a] # SsoUnsent => Sso!Updated(q)[a] = q.sent[a]
    BY DEF Sso!Updated
  <2> QED
    BY <2>2, <2>3
<1> DEFINE p == [q EXCEPT !.pc = "ldap", !.copy = Sso!Updated(q)]
<1>6. /\ p \in SsoBegun /\ p.pc = "ldap"
      /\ p.user = u /\ p.claim = q.claim /\ p.sent = q.sent
      /\ p.at = q.at /\ p.left = q.left /\ p.touched = q.touched
      /\ p.noGroup = q.noGroup /\ p.noRole = q.noRole
  BY <1>2 DEF SsoBegun, Sso!Updated
<1>7. /\ signIn'[s] = p /\ signIn' \in [SsoSignIns -> SsoBegun \cup SsoIdle]
      /\ \A o \in SsoSignIns \ {s} :
            signIn'[o] = IF signIn[o].pc \in {"none", "failed"} THEN signIn[o]
                         ELSE Learnt(signIn[o], things, {}, {})
  <2>1. /\ Sso!Touch({s}, things, {}, {}) \in [SsoSignIns -> SsoBegun \cup SsoIdle]
        /\ \A o \in SsoSignIns :
              Sso!Touch({s}, things, {}, {})[o] =
                 IF o \in {s} \/ signIn[o].pc \in {"none", "failed"} THEN signIn[o]
                 ELSE Learnt(signIn[o], things, {}, {})
    <3>1. PICK mine, none, th : mine = {s} /\ none = {} /\ th = things
      OBVIOUS
    <3>2. th \subseteq SsoThings /\ none \subseteq SsoGroups /\ none \subseteq SsoRoleSet
      BY <1>4, <3>1
    <3>3. /\ Sso!Touch(mine, th, none, none) \in [SsoSignIns -> SsoBegun \cup SsoIdle]
          /\ \A o \in SsoSignIns :
                Sso!Touch(mine, th, none, none)[o] =
                   IF o \in mine \/ signIn[o].pc \in {"none", "failed"} THEN signIn[o]
                   ELSE Learnt(signIn[o], th, none, none)
      BY <3>2, SsoTouch
    <3> HIDE DEF things
    <3> QED
      BY <3>1, <3>3
  <2>2. signIn' = [Sso!Touch({s}, things, {}, {}) EXCEPT ![s] = p]
    BY <1>1, <2>1
  <2> HIDE DEF p, things
  <2> QED
    BY <1>6, <2>1, <2>2
<1> HIDE DEF p, saved, things
<1>8. SignInOK(p, ssoAttr', memberships, cbGroups, cbRoles, claimed)
  <2>1. SignInOK(q, ssoAttr, memberships, cbGroups, cbRoles, claimed)
    BY <1>2 DEF SsoInv
  <2> QED
    BY <1>3, <1>5, <1>6, <2>1 DEF SignInOK
<1>9. ASSUME NEW o \in SsoSignIns \ {s}, signIn'[o] \in SsoBegun
      PROVE  SignInOK(signIn'[o], ssoAttr', memberships, cbGroups, cbRoles, claimed)
  <2>1. signIn[o] \in SsoBegun /\ signIn[o].pc \notin {"none", "failed"}
    BY <1>7, <1>9 DEF SsoInv, SsoBegun, SsoIdle
  <2>2. SignInOK(signIn[o], ssoAttr, memberships, cbGroups, cbRoles, claimed)
    BY <2>1 DEF SsoInv
  <2>3. \A a \in SsoAttrs : <<signIn[o].user, a>> \notin things
           => ssoAttr'[signIn[o].user][a] = ssoAttr[signIn[o].user][a]
    BY <1>3, <2>1 DEF things, SsoBegun
  <2>4. SignInOK(Learnt(signIn[o], things, {}, {}), ssoAttr', memberships, cbGroups,
                 cbRoles, claimed)
    BY <1>4, <2>1, <2>2, <2>3, SsoStays
  <2> QED
    BY <1>7, <2>1, <2>4
<1>10. \A o \in SsoSignIns :
          signIn'[o].pc \in {"none", "update", "ldap", "groups", "done", "failed"}
  BY <1>7 DEF SsoBegun, SsoIdle
<1> QED
  BY <1>1, <1>3, <1>7, <1>8, <1>9, <1>10 DEF SsoInv, Sso!TypeOK

\* A step of one sign-in, from q to p, that at most adds roles.
LEMMA SsoOwnStep ==
    ASSUME SsoInv, NEW s \in SsoSignIns, NEW p \in SsoBegun,
           signIn' = [signIn EXCEPT ![s] = p],
           memberships \subseteq memberships', memberships' \subseteq claimed,
           SignInOK(p, ssoAttr, memberships', cbGroups, cbRoles, claimed),
           ssoLdap' \subseteq SsoUserSet, UNCHANGED <<ssoAttr, cbGroups, cbRoles, claimed, edits>>
    PROVE  SsoInv'
<1>1. /\ signIn'[s] = p /\ signIn' \in [SsoSignIns -> SsoBegun \cup SsoIdle]
      /\ \A o \in SsoSignIns \ {s} : signIn'[o] = signIn[o]
  BY DEF SsoInv
<1>2. ASSUME NEW o \in SsoSignIns, signIn'[o] \in SsoBegun
      PROVE  SignInOK(signIn'[o], ssoAttr, memberships', cbGroups, cbRoles, claimed)
  <2>1. CASE o = s
    BY <2>1, <1>1
  <2>2. CASE o # s
    <3>1. signIn'[o] = signIn[o]
      BY <2>2, <1>1
    <3>2. SignInOK(signIn[o], ssoAttr, memberships, cbGroups, cbRoles, claimed)
      BY <3>1, <1>2 DEF SsoInv
    <3> QED
      BY <3>1, <3>2 DEF SignInOK
  <2> QED
    BY <2>1, <2>2
<1>3. \A o \in SsoSignIns :
         signIn'[o].pc \in {"none", "update", "ldap", "groups", "done", "failed"}
  BY <1>1 DEF SsoBegun, SsoIdle
<1> QED
  BY <1>1, <1>2, <1>3 DEF SsoInv, Sso!TypeOK

LEMMA SsoLdap ==
    ASSUME SsoInv, NEW s \in SsoSignIns, Sso!UpdateLdap(s)
    PROVE  SsoInv'
<1> DEFINE q == signIn[s]
           p == [q EXCEPT !.pc = "groups"]
<1>1. /\ q.pc = "ldap" /\ signIn' = [signIn EXCEPT ![s] = p]
      /\ ssoLdap' \subseteq ssoLdap \cup {q.user}
      /\ UNCHANGED <<ssoAttr, memberships, cbGroups, cbRoles, claimed, edits>>
  BY DEF Sso!UpdateLdap
<1>2. q \in SsoBegun
  BY <1>1 DEF SsoInv, SsoIdle
<1>3. /\ p \in SsoBegun /\ p.pc = "groups" /\ p.user = q.user /\ p.claim = q.claim
      /\ p.sent = q.sent /\ p.copy = q.copy /\ p.at = q.at /\ p.left = q.left
      /\ p.touched = q.touched /\ p.noGroup = q.noGroup /\ p.noRole = q.noRole
  BY <1>2 DEF SsoBegun
<1>4. ssoLdap' \subseteq SsoUserSet
  BY <1>1, <1>2 DEF SsoInv, Sso!TypeOK, SsoBegun
<1> HIDE DEF p
<1>5. SignInOK(p, ssoAttr, memberships, cbGroups, cbRoles, claimed)
  BY <1>1, <1>2, <1>3 DEF SsoInv, SignInOK
<1>6. memberships \subseteq claimed
  BY DEF SsoInv
<1> QED
  BY <1>1, <1>3, <1>4, <1>5, <1>6, SsoOwnStep

LEMMA SsoSetGroup ==
    ASSUME SsoInv, NEW s \in SsoSignIns, Sso!SetGroup(s)
    PROVE  SsoInv'
<1> DEFINE q == signIn[s]
           g == Sso!Target(q.claim[q.at]).group
           roles == IF g \in cbGroups THEN Sso!Granted(q.user, q.claim[q.at]) ELSE {}
           p == [q EXCEPT !.left = roles, !.at = q.at + 1, !.stale = FALSE]
<1>1. /\ q.pc = "groups" /\ q.left = {} /\ q.at <= Len(q.claim)
      /\ signIn' = [signIn EXCEPT ![s] = p]
      /\ UNCHANGED <<ssoAttr, ssoLdap, memberships, cbGroups, cbRoles, claimed, edits>>
  BY DEF Sso!SetGroup, Sso!AfterGroup
<1>2. q \in SsoBegun
  BY <1>1 DEF SsoInv, SsoIdle
<1>3. q.claim \in SsoClaims /\ q.user \in SsoUserSet /\ q.at \in Nat \ {0}
  BY <1>2 DEF SsoBegun
<1>4. DOMAIN q.claim = 1 .. Len(q.claim) /\ Len(q.claim) \in Nat
  <2>1. q.claim \in Seq({q.claim[j] : j \in DOMAIN q.claim})
    BY <1>3, SsoAssumption
  <2> QED
    BY <2>1
<1>5. q.at \in DOMAIN q.claim
  <2>1. q.at \in Nat /\ q.at >= 1
    BY <1>3
  <2> QED
    BY <1>1, <1>4, <2>1
<1>6. SignInOK(q, ssoAttr, memberships, cbGroups, cbRoles, claimed)
  BY <1>2 DEF SsoInv
<1>7. roles \subseteq claimed /\ roles \subseteq SsoRoles
  BY <1>3, <1>5, <1>6, SsoClaimed DEF SignInOK
<1> HIDE DEF roles, g
<1>8. /\ p \in SsoBegun /\ p.pc = "groups" /\ p.user = q.user /\ p.claim = q.claim
      /\ p.sent = q.sent /\ p.copy = q.copy /\ p.at = q.at + 1 /\ p.left = roles
      /\ p.touched = q.touched /\ p.noGroup = q.noGroup /\ p.noRole = q.noRole
  <2>1. q.at + 1 \in Nat \ {0}
    BY <1>3
  <2> QED
    BY <1>1, <1>2, <1>7, <2>1 DEF SsoBegun
<1> HIDE DEF p
<1>9. SignInOK(p, ssoAttr, memberships, cbGroups, cbRoles, claimed)
  <2>1. ASSUME NEW k \in DOMAIN q.claim, k < q.at + 1,
               Sso!Target(q.claim[k]).group \in SsoGroups \ q.noGroup,
               NEW m \in Sso!Granted(q.user, q.claim[k]),
               m[3] \in SsoRoleSet \ q.noRole
        PROVE  m \in roles \/ m \in q.touched \/ m \in memberships
    <3>1. CASE k = q.at
      <4>1. g \in cbGroups
        BY <1>6, <2>1, <3>1 DEF SignInOK, g
      <4> QED
        BY <2>1, <3>1, <4>1 DEF roles
    <3>2. CASE k # q.at
      <4>1. k < q.at
        BY <1>3, <1>4, <2>1, <3>2
      <4> QED
        BY <1>1, <1>6, <2>1, <4>1 DEF SignInOK
    <3> QED
      BY <3>1, <3>2
  <2> QED
    BY <1>1, <1>6, <1>7, <1>8, <2>1 DEF SignInOK
<1>10. memberships \subseteq claimed /\ ssoLdap' \subseteq SsoUserSet
  BY <1>1 DEF SsoInv, Sso!TypeOK
<1> QED
  BY <1>1, <1>8, <1>9, <1>10, SsoOwnStep

LEMMA SsoSetRole ==
    ASSUME SsoInv, NEW s \in SsoSignIns, Sso!SetRole(s)
    PROVE  SsoInv'
<1> DEFINE q == signIn[s]
<1>1. PICK m \in q.left :
        /\ \/ m[3] \in cbRoles /\ memberships' = memberships \cup {m}
           \/ m[3] \notin cbRoles /\ memberships' = memberships
        /\ signIn' = [signIn EXCEPT ![s].left = @ \ {m}]
  BY DEF Sso!SetRole
<1> DEFINE p == [q EXCEPT !.left = q.left \ {m}]
<1>2. /\ q.pc = "groups" /\ signIn' = [signIn EXCEPT ![s] = p]
      /\ UNCHANGED <<ssoAttr, ssoLdap, cbGroups, cbRoles, claimed, edits>>
  BY <1>1 DEF Sso!SetRole
<1>3. q \in SsoBegun
  BY <1>2 DEF SsoInv, SsoIdle
<1>4. /\ p \in SsoBegun /\ p.pc = "groups" /\ p.user = q.user /\ p.claim = q.claim
      /\ p.sent = q.sent /\ p.copy = q.copy /\ p.at = q.at /\ p.left = q.left \ {m}
      /\ p.touched = q.touched /\ p.noGroup = q.noGroup /\ p.noRole = q.noRole
  BY <1>2, <1>3 DEF SsoBegun
<1> HIDE DEF p
<1>5. SignInOK(q, ssoAttr, memberships, cbGroups, cbRoles, claimed)
  BY <1>3 DEF SsoInv
<1>6. memberships \subseteq memberships' /\ memberships' \subseteq claimed
  BY <1>1, <1>5 DEF SsoInv, SignInOK
<1>7. m[3] \in SsoRoleSet \ q.noRole => m \in memberships'
  BY <1>1, <1>5 DEF SignInOK
<1>8. SignInOK(p, ssoAttr, memberships', cbGroups, cbRoles, claimed)
  BY <1>2, <1>4, <1>5, <1>6, <1>7 DEF SignInOK
<1>9. ssoLdap' \subseteq SsoUserSet
  BY <1>2 DEF SsoInv, Sso!TypeOK
<1> QED
  BY <1>2, <1>4, <1>6, <1>8, <1>9, SsoOwnStep

LEMMA SsoRaises ==
    ASSUME SsoInv, NEW s \in SsoSignIns, Sso!SignInRaises(s)
    PROVE  SsoInv'
<1>1. /\ signIn' = [signIn EXCEPT ![s] = [pc |-> "failed"]]
      /\ UNCHANGED <<ssoAttr, ssoLdap, memberships, cbGroups, cbRoles, claimed, edits>>
  BY DEF Sso!SignInRaises
<1>2. [pc |-> "failed"] \in SsoIdle /\ [pc |-> "failed"] \notin SsoBegun
  BY DEF SsoIdle, SsoBegun
<1>3. /\ signIn'[s] = [pc |-> "failed"] /\ signIn' \in [SsoSignIns -> SsoBegun \cup SsoIdle]
      /\ \A o \in SsoSignIns \ {s} : signIn'[o] = signIn[o]
  BY <1>1, <1>2 DEF SsoInv
<1>4. \A o \in SsoSignIns :
         signIn'[o].pc \in {"none", "update", "ldap", "groups", "done", "failed"}
  BY <1>3 DEF SsoBegun, SsoIdle
<1> QED
  BY <1>1, <1>2, <1>3, <1>4 DEF SsoInv, Sso!TypeOK

LEMMA SsoSignedIn ==
    ASSUME SsoInv, NEW s \in SsoSignIns, Sso!SignedIn(s)
    PROVE  SsoInv'
<1> DEFINE q == signIn[s]
           p == [q EXCEPT !.pc = "done"]
<1>1. /\ q.pc = "groups" /\ q.left = {} /\ q.at > Len(q.claim)
      /\ signIn' = [signIn EXCEPT ![s] = p]
      /\ UNCHANGED <<ssoAttr, ssoLdap, memberships, cbGroups, cbRoles, claimed, edits>>
  BY DEF Sso!SignedIn
<1>2. q \in SsoBegun
  BY <1>1 DEF SsoInv, SsoIdle
<1>3. /\ p \in SsoBegun /\ p.pc = "done" /\ p.user = q.user /\ p.claim = q.claim
      /\ p.sent = q.sent /\ p.copy = q.copy /\ p.at = q.at /\ p.left = q.left
      /\ p.touched = q.touched /\ p.noGroup = q.noGroup /\ p.noRole = q.noRole
  BY <1>2 DEF SsoBegun
<1> HIDE DEF p
<1>4. SignInOK(p, ssoAttr, memberships, cbGroups, cbRoles, claimed)
  BY <1>1, <1>2, <1>3 DEF SsoInv, SignInOK
<1>5. memberships \subseteq claimed /\ ssoLdap' \subseteq SsoUserSet
  BY <1>1 DEF SsoInv, Sso!TypeOK
<1> QED
  BY <1>1, <1>3, <1>4, <1>5, SsoOwnStep

\* A change from outside that every sign-in learns of.
LEMMA SsoTouchStep ==
    ASSUME SsoInv, NEW things, things \subseteq SsoThings,
           NEW gs, gs \subseteq SsoGroups, NEW rs, rs \subseteq SsoRoleSet,
           signIn' = Sso!Touch({}, things, gs, rs),
           ssoAttr' \in [SsoUserSet -> [SsoAttrs -> SsoValues]],
           memberships' \subseteq memberships,
           cbGroups' \subseteq cbGroups, cbRoles' \subseteq cbRoles,
           edits' \in 0 .. SsoEditMax, UNCHANGED <<ssoLdap, claimed>>,
           \A u \in SsoUserSet, a \in SsoAttrs :
              <<u, a>> \notin things => ssoAttr'[u][a] = ssoAttr[u][a],
           cbGroups \subseteq cbGroups' \cup gs, cbRoles \subseteq cbRoles' \cup rs,
           \A m \in memberships :
              m \in memberships' \/ m \in things \/ m[2] \in gs \/ m[3] \in rs
    PROVE  SsoInv'
<1>1. /\ signIn' \in [SsoSignIns -> SsoBegun \cup SsoIdle]
      /\ \A o \in SsoSignIns :
            signIn'[o] = IF signIn[o].pc \in {"none", "failed"} THEN signIn[o]
                         ELSE Learnt(signIn[o], things, gs, rs)
  <2>1. PICK none : none = {}
    OBVIOUS
  <2>2. /\ Sso!Touch(none, things, gs, rs) \in [SsoSignIns -> SsoBegun \cup SsoIdle]
        /\ \A o \in SsoSignIns :
              Sso!Touch(none, things, gs, rs)[o] =
                 IF o \in none \/ signIn[o].pc \in {"none", "failed"} THEN signIn[o]
                 ELSE Learnt(signIn[o], things, gs, rs)
    BY SsoTouch
  <2>3. signIn' = Sso!Touch(none, things, gs, rs)
    BY <2>1
  <2> QED
    BY <2>1, <2>2, <2>3
<1>2. ASSUME NEW o \in SsoSignIns, signIn'[o] \in SsoBegun
      PROVE  SignInOK(signIn'[o], ssoAttr', memberships', cbGroups', cbRoles', claimed)
  <2>1. signIn[o] \in SsoBegun /\ signIn[o].pc \notin {"none", "failed"}
    BY <1>1, <1>2 DEF SsoInv, SsoBegun, SsoIdle
  <2>2. SignInOK(signIn[o], ssoAttr, memberships, cbGroups, cbRoles, claimed)
    BY <2>1 DEF SsoInv
  <2>3. \A a \in SsoAttrs : <<signIn[o].user, a>> \notin things
           => ssoAttr'[signIn[o].user][a] = ssoAttr[signIn[o].user][a]
    BY <2>1 DEF SsoBegun
  <2>4. SignInOK(Learnt(signIn[o], things, gs, rs), ssoAttr', memberships', cbGroups',
                 cbRoles', claimed)
    BY <2>1, <2>2, <2>3, SsoStays
  <2> QED
    BY <1>1, <2>1, <2>4
<1>3. \A o \in SsoSignIns :
         signIn'[o].pc \in {"none", "update", "ldap", "groups", "done", "failed"}
  BY <1>1 DEF SsoBegun, SsoIdle
<1> QED
  BY <1>1, <1>2, <1>3 DEF SsoInv, Sso!TypeOK

LEMMA SsoAdmin == SsoInv /\ Sso!AdminEdits => SsoInv'
<1> SUFFICES ASSUME SsoInv, Sso!AdminEdits PROVE SsoInv'
  OBVIOUS
<1>1. edits' \in 0 .. SsoEditMax /\ UNCHANGED <<ssoLdap, claimed>>
  BY SsoAssumption DEF Sso!AdminEdits, SsoInv, Sso!TypeOK
<1>2. /\ ssoAttr \in [SsoUserSet -> [SsoAttrs -> SsoValues]]
      /\ memberships \subseteq SsoRoles
      /\ cbGroups \subseteq SsoGroups /\ cbRoles \subseteq SsoRoleSet
  BY DEF SsoInv, Sso!TypeOK, SsoRoles
<1>3. ASSUME NEW u \in SsoUserSet, NEW a \in SsoAttrs, NEW v \in SsoValues,
             ssoAttr' = [ssoAttr EXCEPT ![u][a] = v],
             signIn' = Sso!Touch({}, {<<u, a>>}, {}, {}),
             UNCHANGED <<memberships, cbGroups, cbRoles>>
      PROVE  SsoInv'
  <2>1. {<<u, a>>} \subseteq SsoThings
    BY DEF SsoThings
  <2>2. /\ ssoAttr' \in [SsoUserSet -> [SsoAttrs -> SsoValues]]
        /\ \A w \in SsoUserSet, b \in SsoAttrs :
              <<w, b>> \notin {<<u, a>>} => ssoAttr'[w][b] = ssoAttr[w][b]
    BY <1>2, <1>3
  <2> QED
    BY <1>1, <1>3, <2>1, <2>2, SsoTouchStep
<1>4. ASSUME NEW m \in memberships, memberships' = memberships \ {m},
             signIn' = Sso!Touch({}, {m}, {}, {}), UNCHANGED <<ssoAttr, cbGroups, cbRoles>>
      PROVE  SsoInv'
  <2>1. {m} \subseteq SsoThings
    BY <1>2 DEF SsoThings
  <2> QED
    BY <1>1, <1>2, <1>4, <2>1, SsoTouchStep
<1>5. ASSUME NEW g \in cbGroups, cbGroups' = cbGroups \ {g},
             memberships' = {m \in memberships : m[2] # g},
             signIn' = Sso!Touch({}, {}, {g}, {}), UNCHANGED <<ssoAttr, cbRoles>>
      PROVE  SsoInv'
  <2>1. {g} \in SUBSET SsoGroups
    BY <1>2
  <2> QED
    BY <1>1, <1>2, <1>5, <2>1, SsoTouchStep
<1>6. ASSUME NEW r \in cbRoles, cbRoles' = cbRoles \ {r},
             memberships' = {m \in memberships : m[3] # r},
             signIn' = Sso!Touch({}, {}, {}, {r}), UNCHANGED <<ssoAttr, cbGroups>>
      PROVE  SsoInv'
  <2>1. {r} \in SUBSET SsoRoleSet
    BY <1>2
  <2> QED
    BY <1>1, <1>2, <1>6, <2>1, SsoTouchStep
<1>7. ASSUME cbGroups \subseteq cbGroups', cbGroups' \subseteq SsoGroups,
             cbRoles \subseteq cbRoles', cbRoles' \subseteq SsoRoleSet,
             UNCHANGED <<ssoAttr, memberships, signIn>>
      PROVE  SsoInv'
  BY <1>1, <1>7 DEF SsoInv, Sso!TypeOK, SignInOK
<1>8. CASE /\ \/ /\ \E g \in SsoGroups \ cbGroups : cbGroups' = cbGroups \cup {g}
                 /\ UNCHANGED cbRoles
              \/ /\ \E r \in SsoRoleSet \ cbRoles : cbRoles' = cbRoles \cup {r}
                 /\ UNCHANGED cbGroups
           /\ UNCHANGED <<ssoAttr, memberships, signIn>>
  BY <1>2, <1>7, <1>8
<1> QED
  BY <1>3, <1>4, <1>5, <1>6, <1>8 DEF Sso!AdminEdits

LEMMA SsoStep == SsoInv /\ Sso!Next => SsoInv'
BY SsoBegin, SsoUpdate, SsoLdap, SsoSetGroup, SsoSetRole, SsoSignedIn, SsoRaises, SsoAdmin
   DEF Sso!Next

LEMMA SsoStutter == SsoInv /\ UNCHANGED ssoVars => SsoInv'
BY DEF SsoInv, ssoVars, Sso!TypeOK

LEMMA SsoPart == [JobsNext]_jobsVars => Sso!Next \/ UNCHANGED ssoVars
BY DEF JobsNext, Only, jobsVars

\* A sign-in that ended has done what its claims stand for, for any users, claims,
\* map of groups, overlapping sign-ins and number of changes by administrators.
THEOREM SignInsAsClaimed == JobsSpec => []SignedInAsClaimed
<1>1. JobsInit => SsoInv
  BY SsoInit DEF JobsInit
<1>2. SsoInv /\ [JobsNext]_jobsVars => SsoInv'
  BY SsoPart, SsoStep, SsoStutter
<1>3. SsoInv => SignedInAsClaimed
  <2> SUFFICES ASSUME SsoInv PROVE SignedInAsClaimed
    OBVIOUS
  <2>1. ASSUME NEW s \in SsoSignIns, signIn[s].pc = "done"
        PROVE  /\ \A a \in SsoAttrs :
                     signIn[s].sent[a] # SsoUnsent
                     /\ <<signIn[s].user, a>> \notin signIn[s].touched
                     => ssoAttr[signIn[s].user][a] = signIn[s].sent[a]
               /\ \A k \in DOMAIN signIn[s].claim :
                     Sso!Target(signIn[s].claim[k]).group \in SsoGroups \ signIn[s].noGroup
                     => \A m \in Sso!Granted(signIn[s].user, signIn[s].claim[k]) :
                           m[3] \in SsoRoleSet \ signIn[s].noRole =>
                              m \in signIn[s].touched \/ m \in memberships
    <3> DEFINE q == signIn[s]
    <3>1. q \in SsoBegun
      BY <2>1 DEF SsoInv, SsoIdle
    <3>2. SignInOK(q, ssoAttr, memberships, cbGroups, cbRoles, claimed)
      BY <3>1 DEF SsoInv
    <3>3. q.claim \in Seq({q.claim[j] : j \in DOMAIN q.claim}) /\ q.at \in Nat
      BY <3>1, SsoAssumption DEF SsoBegun
    <3>4. \A k \in DOMAIN q.claim : k < q.at
      BY <2>1, <3>2, <3>3 DEF SignInOK
    <3> QED
      BY <2>1, <3>2, <3>4 DEF SignInOK
  <2> QED
    BY <2>1 DEF SsoInv, SignedInAsClaimed, Sso!SignedInAsClaimed, Sso!ClaimedGroups
<1> QED
  BY <1>1, <1>2, <1>3, PTL DEF JobsSpec

-----------------------------------------------------------------------------
(* The power control, beside the leases. *)

ServerSeqs == Seq(Power!Machines)

PowerTask == [on : {"on", "off"}, resource : Power!Powered, started : BOOLEAN,
              failures : SUBSET Power!Machines, left : ServerSeqs]

Scheduled(r) == IF r \in todoOn THEN "on" ELSE "off"

\* A task's servers are of its resource, which is scheduled on the task's side.
TasksInv ==
    /\ tasks \subseteq PowerTask
    /\ \A t \in tasks :
          /\ \A k \in DOMAIN t.left : t.left[k] \in Power!OfResource(t.resource)
          /\ t.on = "on" => t.resource \in todoOn
          /\ t.on = "off" => t.resource \in todoOff

\* A task of the resource has still to act on the server, or failed to.
Pending(r, s) == \E t \in tasks : /\ t.resource = r
                                  /\ \/ s \in t.failures
                                     \/ \E k \in DOMAIN t.left : t.left[k] = s

PowerInv ==
    /\ power \in [Power!Machines -> {"on", "off"}]
    /\ powerPc \in {"idle", "run", "SUCCESS", "WARNING"}
    /\ todoOn \cup todoOff \subseteq Power!Powered
    /\ TasksInv
    /\ powerPc # "run" => tasks = {}
    /\ powerPc \in {"idle", "SUCCESS"} => failures = {}
    /\ powerPc # "idle" =>
          \A r \in (todoOn \cup todoOff) \ ((todoOn \cap todoOff) \cup raised) :
             \A s \in Power!OfResource(r) \ powered :
                power[s] = Scheduled(r) \/ s \in failures \/ Pending(r, s)

LEMMA PowerInit == Power!Init => PowerInv
BY DEF Power!Init, PowerInv, TasksInv

\* Backwards or not, a task has all servers of its resource.
LEMMA PowerTasks ==
    ASSUME NEW r \in Power!Powered, NEW on \in {"on", "off"}
    PROVE  LET t == Power!Task(on, r)
           IN  /\ t \in PowerTask /\ t.resource = r /\ t.on = on
               /\ \A k \in DOMAIN t.left : t.left[k] \in Power!OfResource(r)
               /\ \A s \in Power!OfResource(r) : \E k \in DOMAIN t.left : t.left[k] = s
<1> DEFINE t == Power!Task(on, r)
           order == PowerOrder[r]
           back == Power!Backwards(order)
<1>1. order \in Seq(Power!OfResource(r))
  BY PowerAssumption DEF Power!Powered, Power!OfResource
<1>2. /\ back \in Seq(Power!OfResource(r)) /\ Len(back) = Len(order)
      /\ \A k \in 1 .. Len(order) : back[k] = order[Len(order) + 1 - k]
  <2>1. \A k \in 1 .. Len(order) : Len(order) + 1 - k \in 1 .. Len(order)
    BY <1>1
  <2>2. /\ back = [k \in 1 .. Len(order) |-> order[Len(order) + 1 - k]]
        /\ Len(order) \in Nat
    BY <1>1 DEF Power!Backwards
  <2> HIDE DEF back
  <2>3. back \in [1 .. Len(order) -> Power!OfResource(r)]
    BY <1>1, <2>1, <2>2
  <2>4. back \in Seq(Power!OfResource(r))
    BY <2>2, <2>3, SeqDef
  <2> QED
    BY <2>2, <2>3, <2>4
<1>3. \A s \in Power!OfResource(r) :
         /\ \E k \in DOMAIN order : order[k] = s
         /\ \E k \in DOMAIN back : back[k] = s
  <2> SUFFICES ASSUME NEW s \in Power!OfResource(r)
               PROVE  /\ \E k \in DOMAIN order : order[k] = s
                      /\ \E k \in DOMAIN back : back[k] = s
    OBVIOUS
  <2>1. PICK k \in 1 .. Len(order) : order[k] = s
    BY <1>1 DEF Power!OfResource
  <2>2. /\ Len(order) + 1 - k \in 1 .. Len(order)
        /\ Len(order) + 1 - (Len(order) + 1 - k) = k
    BY <1>1
  <2> QED
    BY <1>1, <1>2, <2>1, <2>2
<1>4. t.left \in {order, back} /\ t.resource = r /\ t.on = on
  BY DEF Power!Task
<1>5. Power!OfResource(r) \subseteq Power!Machines
  BY DEF Power!Machines
<1>6. t.left \in Seq(Power!OfResource(r))
  BY <1>1, <1>2, <1>4
<1>7. t \in PowerTask
  <2> DEFINE todoServers == IF on = "on" THEN order ELSE back
  <2>1. todoServers \in ServerSeqs
    BY <1>1, <1>2, <1>5 DEF ServerSeqs
  <2>2. t = [on |-> on, resource |-> r, started |-> FALSE, failures |-> {},
             left |-> todoServers]
    BY DEF Power!Task
  <2> HIDE DEF t, todoServers
  <2> QED
    BY <2>1, <2>2 DEF PowerTask
<1> HIDE DEF t, back, order
<1>8. \A k \in DOMAIN t.left : t.left[k] \in Power!OfResource(r)
  BY <1>6
<1> QED
  BY <1>3, <1>4, <1>7, <1>8 DEF t

LEMMA PowerRun == PowerInv /\ Power!RunPowerControl => PowerInv'
<1> SUFFICES ASSUME PowerInv, Power!RunPowerControl PROVE PowerInv'
  OBVIOUS
<1>1. PICK on, off \in SUBSET Power!Active :
         /\ todoOn' = on /\ todoOff' = off
         /\ tasks' = {Power!Task("on", r) : r \in on} \cup {Power!Task("off", r) : r \in off}
  BY DEF Power!RunPowerControl
<1>2. powerPc' = "run" /\ UNCHANGED <<power, failures, raised>>
  BY DEF Power!RunPowerControl
<1>3. Power!Active \subseteq Power!Powered
  BY DEF Power!Active
<1>4. TasksInv'
  BY <1>1, <1>3, PowerTasks DEF TasksInv
<1>5. ASSUME NEW r \in todoOn' \cup todoOff', NEW s \in Power!OfResource(r)
      PROVE  Pending(r, s)'
  BY <1>1, <1>3, PowerTasks DEF Pending
<1> QED
  BY <1>1, <1>2, <1>3, <1>4, <1>5 DEF PowerInv

\* Tasks act on the servers of their own resource only.
LEMMA PowerApart ==
    ASSUME NEW q \in Power!Powered, NEW r \in Power!Powered, q # r
    PROVE  Power!OfResource(q) \cap Power!OfResource(r) = {}
BY PowerAssumption DEF Power!OfResource, Power!Powered

LEMMA PowerServer ==
    ASSUME PowerInv, NEW t \in tasks, Power!PowerServer(t)
    PROVE  PowerInv'
<1> DEFINE s == Head(t.left)
           done == [t EXCEPT !.left = Tail(t.left)]
           failed == [t EXCEPT !.left = Tail(t.left), !.failures = @ \cup {s}]
<1>1. /\ t.left # <<>>
      /\ \/ power' = [power EXCEPT ![s] = t.on] /\ tasks' = (tasks \ {t}) \cup {done}
         \/ UNCHANGED power /\ tasks' = (tasks \ {t}) \cup {failed}
      /\ UNCHANGED <<todoOn, todoOff, powered, failures, raised, powerPc>>
  BY DEF Power!PowerServer, Power!With, Power!Running
<1>2. /\ t \in PowerTask /\ powerPc = "run"
      /\ \A k \in DOMAIN t.left : t.left[k] \in Power!OfResource(t.resource)
      /\ t.on = "on" => t.resource \in todoOn
      /\ t.on = "off" => t.resource \in todoOff
  BY DEF PowerInv, TasksInv
<1>3. t.left \in Seq(Power!Machines) /\ t.resource \in Power!Powered /\ t.on \in {"on", "off"}
  BY <1>2 DEF PowerTask, ServerSeqs
<1>4. /\ s \in Power!OfResource(t.resource) /\ s \in Power!Machines
      /\ Tail(t.left) \in Seq(Power!Machines)
      /\ \A k \in DOMAIN Tail(t.left) :
            k + 1 \in DOMAIN t.left /\ Tail(t.left)[k] = t.left[k + 1]
      /\ \A k \in DOMAIN t.left : t.left[k] = s \/ \E j \in DOMAIN Tail(t.left) :
            Tail(t.left)[j] = t.left[k]
  <2>1. s = t.left[1] /\ 1 \in DOMAIN t.left /\ Tail(t.left) \in Seq(Power!Machines)
    BY <1>1, <1>3
  <2>2. /\ DOMAIN t.left = 1 .. Len(t.left) /\ Len(Tail(t.left)) = Len(t.left) - 1
        /\ DOMAIN Tail(t.left) = 1 .. Len(t.left) - 1 /\ Len(t.left) \in Nat
        /\ \A k \in 1 .. Len(t.left) - 1 : Tail(t.left)[k] = t.left[k + 1]
    BY <1>1, <1>3
  <2>3. \A k \in DOMAIN t.left : k # 1 => k - 1 \in DOMAIN Tail(t.left) /\ (k - 1) + 1 = k
    BY <2>2
  <2>4. \A k \in DOMAIN t.left : t.left[k] = s \/ \E j \in DOMAIN Tail(t.left) :
            Tail(t.left)[j] = t.left[k]
    BY <2>1, <2>2, <2>3
  <2>5. s \in Power!OfResource(t.resource) /\ s \in Power!Machines
    BY <1>2, <1>3, <2>1
  <2>6. \A k \in DOMAIN Tail(t.left) :
           k + 1 \in DOMAIN t.left /\ Tail(t.left)[k] = t.left[k + 1]
    BY <2>2
  <2> QED
    BY <2>1, <2>4, <2>5, <2>6
<1>5. ASSUME NEW p \in {done, failed}
      PROVE  /\ p \in PowerTask /\ p.on = t.on /\ p.resource = t.resource
             /\ p.left = Tail(t.left) /\ t.failures \subseteq p.failures
  <2> DEFINE rest == Tail(t.left)
  <2>1. rest \in ServerSeqs
    BY <1>4 DEF ServerSeqs
  <2>2. s \in Power!Machines
    BY <1>4
  <2> HIDE DEF rest, s
  <2>3. CASE p = [t EXCEPT !.left = rest]
    BY <1>2, <2>1, <2>3 DEF PowerTask
  <2>4. CASE p = [t EXCEPT !.left = rest, !.failures = @ \cup {s}]
    BY <1>2, <2>1, <2>2, <2>4 DEF PowerTask
  <2> QED
    BY <2>3, <2>4 DEF rest
<1>6. failed.failures = t.failures \cup {s}
  BY <1>2 DEF PowerTask
<1> HIDE DEF done, failed, s
<1>7. /\ power' \in [Power!Machines -> {"on", "off"}]
      /\ \A m \in Power!Machines \ {s} : power'[m] = power[m]
  BY <1>1, <1>3, <1>4 DEF PowerInv
<1>8. PICK p \in {done, failed} : /\ tasks' = (tasks \ {t}) \cup {p}
                                  /\ power'[s] = t.on \/ s \in p.failures
  BY <1>1, <1>3, <1>4, <1>6 DEF PowerInv
<1>9. TasksInv'
  <2>1. /\ p \in PowerTask
        /\ \A k \in DOMAIN p.left : p.left[k] \in Power!OfResource(p.resource)
        /\ p.on = "on" => p.resource \in todoOn
        /\ p.on = "off" => p.resource \in todoOff
    BY <1>2, <1>4, <1>5
  <2> QED
    BY <1>1, <1>8, <2>1 DEF PowerInv, TasksInv
<1>10. ASSUME NEW r \in (todoOn \cup todoOff) \ ((todoOn \cap todoOff) \cup raised),
              NEW m \in Power!OfResource(r) \ powered
       PROVE  power'[m] = Scheduled(r) \/ m \in failures \/ Pending(r, m)'
  <2>1. power[m] = Scheduled(r) \/ m \in failures \/ Pending(r, m)
    BY <1>2, <1>10 DEF PowerInv
  <2>2. CASE m = s /\ r = t.resource
    <3>1. t.on = Scheduled(r)
      BY <1>2, <1>3, <1>10, <2>2 DEF Scheduled
    <3> QED
      BY <1>5, <1>8, <2>2, <3>1 DEF Pending
  <2>3. CASE m # s
    <3>1. Pending(r, m) => Pending(r, m)'
      <4> SUFFICES ASSUME NEW o \in tasks, o.resource = r,
                          m \in o.failures \/ \E k \in DOMAIN o.left : o.left[k] = m
                   PROVE  Pending(r, m)'
        BY DEF Pending
      <4>1. CASE o # t
        BY <1>8, <4>1 DEF Pending
      <4>2. CASE o = t
        <5>1. p.resource = r /\ p.left = Tail(t.left) /\ t.failures \subseteq p.failures
          BY <1>5, <4>2
        <5>2. m \in p.failures \/ \E j \in DOMAIN p.left : p.left[j] = m
          BY <1>4, <2>3, <4>2, <5>1
        <5> QED
          BY <1>8, <5>1, <5>2 DEF Pending
      <4> QED
        BY <4>1, <4>2
    <3>2. m \in Power!Machines => power'[m] = power[m]
      BY <1>7, <2>3
    <3>3. m \in Power!Machines
      BY <1>10 DEF Power!Machines, PowerInv
    <3> QED
      BY <2>1, <3>1, <3>2, <3>3
  <2>4. CASE r # t.resource
    <3>1. m # s
      <4>1. r \in Power!Powered
        BY <1>10 DEF PowerInv
      <4> QED
        BY <1>3, <1>4, <2>4, <4>1, PowerApart
    <3> QED
      BY <2>3, <3>1
  <2> QED
    BY <2>2, <2>3, <2>4
<1> QED
  BY <1>1, <1>2, <1>7, <1>9, <1>10 DEF PowerInv, Scheduled

LEMMA PowerStart == PowerInv /\ (\E t \in tasks : Power!StartTask(t)) => PowerInv'
<1> SUFFICES ASSUME PowerInv, NEW t \in tasks, Power!StartTask(t) PROVE PowerInv'
  OBVIOUS
<1> DEFINE p == [t EXCEPT !.started = TRUE]
<1>1. /\ tasks' = (tasks \ {t}) \cup {p}
      /\ UNCHANGED <<power, todoOn, todoOff, powered, failures, raised, powerPc>>
  BY DEF Power!StartTask, Power!With
<1>2. t \in PowerTask
  BY DEF PowerInv, TasksInv
<1>3. /\ p \in PowerTask /\ p.on = t.on /\ p.resource = t.resource
      /\ p.left = t.left /\ p.failures = t.failures
  BY <1>2 DEF PowerTask
<1> HIDE DEF p
<1>4. TasksInv'
  BY <1>1, <1>3 DEF PowerInv, TasksInv
<1>5. \A r, s : Pending(r, s) => Pending(r, s)'
  BY <1>1, <1>3 DEF Pending
<1> QED
  BY <1>1, <1>4, <1>5 DEF PowerInv, Scheduled

LEMMA PowerEnd == PowerInv /\ (\E t \in tasks : Power!EndTask(t)) => PowerInv'
<1> SUFFICES ASSUME PowerInv, NEW t \in tasks, Power!EndTask(t) PROVE PowerInv'
  OBVIOUS
<1>1. /\ t.left = <<>> /\ failures' = failures \cup t.failures /\ tasks' = tasks \ {t}
      /\ UNCHANGED <<power, todoOn, todoOff, powered, raised, powerPc>>
  BY DEF Power!EndTask
<1>2. \A r, s : Pending(r, s) => Pending(r, s)' \/ s \in failures'
  BY <1>1 DEF Pending
<1> QED
  BY <1>1, <1>2 DEF PowerInv, TasksInv, Scheduled

LEMMA PowerRaises == PowerInv /\ (\E t \in tasks : Power!TaskRaises(t)) => PowerInv'
<1> SUFFICES ASSUME PowerInv, NEW t \in tasks, Power!TaskRaises(t) PROVE PowerInv'
  OBVIOUS
<1>1. /\ raised' = raised \cup {t.resource} /\ tasks' = tasks \ {t}
      /\ UNCHANGED <<power, todoOn, todoOff, powered, failures, powerPc>>
  BY DEF Power!TaskRaises
<1>2. \A r, s : Pending(r, s) => Pending(r, s)' \/ r \in raised'
  BY <1>1 DEF Pending
<1> QED
  BY <1>1, <1>2 DEF PowerInv, TasksInv, Scheduled

\* The leases act on servers that count as acted on from then.
LEMMA PowerLease ==
    ASSUME PowerInv, NEW s, power' \in {power, [power EXCEPT ![s] = "off"]},
           powered' = powered \cup {s}, UNCHANGED <<todoOn, todoOff, tasks, failures, raised,
                                                    powerPc>>
    PROVE  PowerInv'
<1>1. /\ power' \in [Power!Machines -> {"on", "off"}]
      /\ \A m \in Power!Machines \ {s} : power'[m] = power[m]
  BY DEF PowerInv
<1>2. \A r \in Power!Powered : Power!OfResource(r) \subseteq Power!Machines
  BY DEF Power!Machines
<1> QED
  BY <1>1, <1>2 DEF PowerInv, TasksInv, Scheduled, Pending

LEMMA PowerStep == PowerInv /\ Power!Next => PowerInv'
<1> SUFFICES ASSUME PowerInv, Power!Next PROVE PowerInv'
  OBVIOUS
<1>1. CASE Power!RunPowerControl
  BY <1>1, PowerRun
<1>2. CASE Power!EndPowerControl
  BY <1>2 DEF Power!EndPowerControl, PowerInv, TasksInv, Scheduled, Pending
<1>3. ASSUME NEW t \in tasks, Power!StartTask(t) \/ Power!PowerServer(t) \/ Power!EndTask(t)
                              \/ Power!TaskRaises(t)
      PROVE  PowerInv'
  BY <1>3, PowerStart, PowerServer, PowerEnd, PowerRaises
<1>4. CASE \E s \in Power!Leased : Power!DayPasses(s)
  BY <1>4 DEF Power!DayPasses, Power!pool, PowerInv, TasksInv, Scheduled, Pending
<1>5. ASSUME NEW s \in Power!Leased, Power!DecommissionEnds(s)
      PROVE  PowerInv'
  <2>1. UNCHANGED <<todoOn, todoOff, tasks, failures, raised, powerPc>>
    BY <1>5 DEF Power!DecommissionEnds, Power!pool
  <2>2. CASE power' = [power EXCEPT ![s] = "off"] /\ powered' = powered \cup {s}
    <3>1. power' \in {power, [power EXCEPT ![s] = "off"]}
      BY <2>2
    <3>2. powered' = powered \cup {s}
      BY <2>2
    <3> QED
      BY <2>1, <3>1, <3>2, PowerLease
  <2>3. CASE UNCHANGED <<power, powered>>
    BY <2>1, <2>3 DEF PowerInv, TasksInv, Scheduled, Pending
  <2> QED
    BY <1>5, <2>2, <2>3 DEF Power!DecommissionEnds
<1>6. CASE Power!PowerOffServer
  <2>1. /\ UNCHANGED <<todoOn, todoOff, tasks, failures, raised, powerPc>>
        /\ power' \in {power, [power EXCEPT ![Power!This] = "off"]}
        /\ powered' = powered \cup {Power!This}
    BY <1>6 DEF Power!PowerOffServer, Power!pool
  <2> QED
    BY <2>1, PowerLease
<1>7. CASE \/ Power!RunLeases \/ Power!SkipHistorical \/ Power!DeleteServer
           \/ Power!WarnOwner \/ Power!EmailOwner \/ Power!EmailOwnerRaises
           \/ Power!WaitForJobs \/ Power!EndLeases
  <2>1. UNCHANGED <<power, powered, todoOn, todoOff, tasks, failures, raised, powerPc>>
    BY <1>7 DEF Power!RunLeases, Power!SkipHistorical, Power!DeleteServer, Power!WarnOwner,
                Power!EmailOwner, Power!EmailOwnerRaises, Power!WaitForJobs,
                Power!EndLeases, Power!pool
  <2> QED
    BY <2>1 DEF PowerInv, TasksInv, Scheduled, Pending
<1> QED
  BY <1>1, <1>2, <1>3, <1>4, <1>5, <1>6, <1>7 DEF Power!Next

LEMMA PowerStutter == PowerInv /\ UNCHANGED powerVars => PowerInv'
BY DEF PowerInv, powerVars, TasksInv, Scheduled, Pending

LEMMA PowerPart == [JobsNext]_jobsVars => Power!Next \/ UNCHANGED powerVars
BY DEF JobsNext, Only, jobsVars

\* A run that returns SUCCESS left every scheduled server on or off as scheduled, for
\* any resources, schedules, threads of the pool and leases.
THEOREM PoweredAsScheduled == JobsSpec => []ScheduledPower
<1>1. JobsInit => PowerInv
  BY PowerInit DEF JobsInit
<1>2. PowerInv /\ [JobsNext]_jobsVars => PowerInv'
  BY PowerPart, PowerStep, PowerStutter
<1>3. PowerInv => ScheduledPower
  BY DEF PowerInv, ScheduledPower, Power!ScheduledPower, Scheduled, Pending
<1> QED
  BY <1>1, <1>2, <1>3, PTL DEF JobsSpec

-----------------------------------------------------------------------------
(* Types: what the invariants above say of them, and for the others the rest. *)

LEMMA ObjectsTypes == JobsSpec => []Objects!TypeOK
<1>1. JobsInit => ObjectsInv
  BY ObjectsInit DEF JobsInit
<1>2. ObjectsInv /\ [JobsNext]_jobsVars => ObjectsInv'
  BY ObjectsPart, ObjectsStep, ObjectsStutter
<1>3. ObjectsInv => Objects!TypeOK
  BY DEF ObjectsInv
<1> QED
  BY <1>1, <1>2, <1>3, PTL DEF JobsSpec

LEMMA DatabaseTypes == JobsSpec => []Database!TypeOK
<1>1. JobsInit => DatabaseInv
  BY DatabaseInit DEF JobsInit
<1>2. DatabaseInv /\ [JobsNext]_jobsVars => DatabaseInv'
  BY DatabasePart, DatabaseStep, DatabaseStutter
<1>3. DatabaseInv => Database!TypeOK
  BY DEF DatabaseInv
<1> QED
  BY <1>1, <1>2, <1>3, PTL DEF JobsSpec

LEMMA SubscriptionTypes == JobsSpec => []Subscription!TypeOK
<1>1. JobsInit => SubscriptionInv
  BY SubscriptionInit DEF JobsInit
<1>2. SubscriptionInv /\ [JobsNext]_jobsVars => SubscriptionInv'
  BY SubscriptionPart, SubscriptionStep, SubscriptionStutter
<1>3. SubscriptionInv => Subscription!TypeOK
  BY DEF SubscriptionInv
<1> QED
  BY <1>1, <1>2, <1>3, PTL DEF JobsSpec

LEMMA TemplateTypes == JobsSpec => []Template!TypeOK
<1>1. JobsInit => TemplateInv
  BY TemplateInit DEF JobsInit
<1>2. TemplateInv /\ [JobsNext]_jobsVars => TemplateInv'
  BY TemplatePart, TemplateStep, TemplateStutter
<1>3. TemplateInv => Template!TypeOK
  BY DEF TemplateInv
<1> QED
  BY <1>1, <1>2, <1>3, PTL DEF JobsSpec

LEMMA SegmentTypes == JobsSpec => []Segment!TypeOK
<1>1. JobsInit => SegmentInv
  BY SegmentInit DEF JobsInit
<1>2. SegmentInv /\ [JobsNext]_jobsVars => SegmentInv'
  BY SegmentPart, SegmentStep, SegmentStutter
<1>3. SegmentInv => Segment!TypeOK
  BY DEF SegmentInv
<1> QED
  BY <1>1, <1>2, <1>3, PTL DEF JobsSpec

LEMMA NsxTypes == JobsSpec => []Nsx!TypeOK
<1>1. JobsInit => NsxInv
  BY NsxInit DEF JobsInit
<1>2. NsxInv /\ [JobsNext]_jobsVars => NsxInv'
  BY NsxPart, NsxStep, NsxStutter
<1>3. NsxInv => Nsx!TypeOK
  BY DEF NsxInv
<1> QED
  BY <1>1, <1>2, <1>3, PTL DEF JobsSpec

LEMMA SsoTypes == JobsSpec => []Sso!TypeOK
<1>1. JobsInit => SsoInv
  BY SsoInit DEF JobsInit
<1>2. SsoInv /\ [JobsNext]_jobsVars => SsoInv'
  BY SsoPart, SsoStep, SsoStutter
<1>3. SsoInv => Sso!TypeOK
  BY DEF SsoInv
<1> QED
  BY <1>1, <1>2, <1>3, PTL DEF JobsSpec

LEMMA VraTypes == JobsSpec => []Vra!TypeOK
<1>1. JobsInit => VraInv
  BY VraInit DEF JobsInit
<1>2. VraInv /\ [JobsNext]_jobsVars => VraInv'
  BY VraAlone, VraStep, VraStutter
<1>3. ASSUME VraInv PROVE Vra!TypeOK
  <2>1. VraTyped
    BY <1>3 DEF VraInv
  <2>2. \A i \in DOMAIN vraList : vraList[i] \in VraDeployments
    BY <2>1 DEF VraTyped, VraListTyped
  <2> QED
    BY <2>1, <2>2 DEF VraTyped, VraPoints, Vra!TypeOK, Vra!AllParts
<1> QED
  BY <1>1, <1>2, <1>3, PTL DEF JobsSpec

LEMMA GitTypes == JobsSpec => []Git!TypeOK
<1>1. JobsInit => GitInv
  BY GitInit DEF JobsInit
<1>2. GitInv /\ [JobsNext]_jobsVars => GitInv'
  BY GitPart, GitStep, GitStutter
<1>3. ASSUME GitInv PROVE Git!TypeOK
  <2>1. GitTyped
    BY <1>3 DEF GitInv
  <2>2. \A i \in DOMAIN cfvs : cfvs[i] \in GitCfv
    BY <2>1 DEF GitTyped
  <2>3. \A i \in DOMAIN cfvs : /\ cfvs[i].type \in Git!Types
                              /\ cfvs[i].users \in SUBSET Git!Users
                              /\ cfvs[i].data \in Git!Objects
    BY <2>2 DEF GitCfv
  <2>4. \A r \in Git!Requests :
           req[r].pc \in {"waiting", "look", "create", "again", "save", "answered"}
    BY <2>1 DEF GitTyped, GitRequest, Git!Waiting, Git!Answered
  <2>5. \A u \in Git!Users, t \in Git!Types : wanted[u][t] \in Git!Objects
    BY <2>1 DEF GitTyped
  <2> QED
    BY <2>1, <2>3, <2>4, <2>5 DEF GitTyped, Git!TypeOK
<1> QED
  BY <1>1, <1>2, <1>3, PTL DEF JobsSpec

LEMMA OneFuseTypes == JobsSpec => []OneFuse!TypeOK
<1>1. JobsInit => OneFuseInv
  BY OneFuseInit DEF JobsInit
<1>2. OneFuseInv /\ [JobsNext]_jobsVars => OneFuseInv'
  BY OneFusePart, OneFuseStep, OneFuseStutter
<1>3. ASSUME OneFuseInv PROVE OneFuse!TypeOK
  <2>1. OneFuseTyped
    BY <1>3 DEF OneFuseInv
  <2>2. ASSUME NEW r \in OneFuse!Named
        PROVE  /\ stage[r].pc \in {"none", "building", "built", "failed", "deleting",
                                   "undeleted", "gone"}
               /\ stage[r].at \in 1 .. Len(OneFuse!Kinds(r)) + 3
               /\ \A k \in DOMAIN fields[r] : fields[r][k] \in 1 .. OfBuildMax
    <3>1. stage[r] \in StageSet /\ stage[r].at <= Len(OneFuse!Kinds(r)) + 3
      BY <2>1 DEF OneFuseTyped
    <3>2. Len(OneFuse!Kinds(r)) \in Nat
      BY KindsOf
    <3>3. fields[r] \in [DOMAIN fields[r] -> 1 .. OfBuildMax]
      BY <2>1 DEF OneFuseTyped
    <3>4. \A k \in DOMAIN fields[r] : fields[r][k] \in 1 .. OfBuildMax
      BY <3>3
    <3>5. stage[r].at \in 1 .. Len(OneFuse!Kinds(r)) + 3
      BY <3>1, <3>2 DEF StageSet
    <3> QED
      BY <3>1, <3>4, <3>5 DEF StageSet
  <2>3. \A o \in oneFuse \cup unanswered \cup replaced \cup refusedOnce :
           o[1] \in OneFuse!Named /\ o[3] \in 1 .. OfBuildMax
    BY <2>1 DEF OneFuseTyped
  <2> QED
    BY ONLY <2>2, <2>3 DEF OneFuse!TypeOK
<1> QED
  BY <1>1, <1>2, <1>3, PTL DEF JobsSpec


\* The configurations: the host of a round's first job is a server.
ConfigurationsSorts ==
    /\ aapAction \in {"none", "build", "teardown", "provision", "day2", "terraform"}
    /\ aapPc \in {"idle", "host", "launch", "wait", "done"}
    /\ inventory \subseteq Configurations!Servers
    /\ aapResult \in {"none", "SUCCESS", "FAILURE"}

LEMMA ConfigurationsSortsStep ==
    ConfigurationsInv /\ ConfigurationsSorts /\ Configurations!Next => ConfigurationsSorts'
<1> SUFFICES ASSUME ConfigurationsInv, ConfigurationsSorts, Configurations!Next
             PROVE  ConfigurationsSorts'
  OBVIOUS
<1> USE DEF ConfigurationsSorts
<1>1. CASE Configurations!BeginBuild
  BY <1>1 DEF Configurations!BeginBuild, Configurations!Begin
<1>2. CASE Configurations!BeginDay2
  BY <1>2 DEF Configurations!BeginDay2, Configurations!Begin
<1>3. CASE Configurations!BeginTerraform
  BY <1>3 DEF Configurations!BeginTerraform, Configurations!Begin
<1>4. ASSUME NEW s \in Configurations!Servers,
             Configurations!BeginTeardown(s) \/ Configurations!BeginProvision(s)
      PROVE  ConfigurationsSorts'
  BY <1>4 DEF Configurations!BeginTeardown, Configurations!BeginProvision, Configurations!Begin
<1>5. ASSUME Configurations!InRound("host")
      PROVE  Configurations!Round[1][2] \in Configurations!Servers
  <2>1. rounds \in Rounds /\ rounds # <<>> /\ rounds[1] # <<>>
    BY <1>5 DEF ConfigurationsInv, Configurations!InRound, Configurations!Round
  <2>2. rounds[1] \in Seq(Configurations!Work)
    BY <2>1 DEF Rounds
  <2>3. rounds[1][1] \in Configurations!Work
    BY <2>1, <2>2
  <2> QED
    BY <2>3 DEF Configurations!Work, Configurations!Round
<1>6. ASSUME Configurations!Fails, UNCHANGED aapAction
      PROVE  aapPc' \in {"host", "done"} /\ aapResult' \in {"none", "SUCCESS", "FAILURE"}
  BY <1>6 DEF Configurations!Fails
<1>7. CASE Configurations!AddHost
  <2>1. inventory' \subseteq Configurations!Servers
    BY <1>5, <1>7 DEF Configurations!AddHost
  <2> QED
    BY <1>7, <2>1 DEF Configurations!AddHost
<1>8. CASE Configurations!AddHostFails
  <2>1. inventory' \subseteq Configurations!Servers
    BY <1>5, <1>8 DEF Configurations!AddHostFails
  <2> QED
    BY <1>6, <1>8, <2>1 DEF Configurations!AddHostFails
<1>9. CASE Configurations!LaunchJob
  BY <1>9 DEF Configurations!LaunchJob
<1>10. CASE Configurations!LaunchFails
  BY <1>6, <1>10 DEF Configurations!LaunchFails
<1>11. CASE Configurations!EmptyRound
  BY <1>11 DEF Configurations!EmptyRound
<1>12. CASE Configurations!WaitRound
  <2>1. PICK waited \in {"SUCCESS", "FAILURE"} : aapResult' = Configurations!ResultAfter(waited)
    BY <1>12 DEF Configurations!WaitRound
  <2>2. aapResult' \in {"none", "SUCCESS", "FAILURE"}
    BY <2>1 DEF Configurations!ResultAfter
  <2> QED
    BY <1>12, <2>2 DEF Configurations!WaitRound
<1>13. CASE Configurations!Done
  BY <1>13 DEF Configurations!Done
<1>14. ASSUME NEW w \in Configurations!Work, Configurations!JobEnds(w)
       PROVE  ConfigurationsSorts'
  BY <1>14 DEF Configurations!JobEnds
<1> QED
  BY <1>1, <1>2, <1>3, <1>4, <1>7, <1>8, <1>9, <1>10, <1>11, <1>12, <1>13, <1>14
     DEF Configurations!Next

LEMMA ConfigurationsTypes == JobsSpec => []Configurations!TypeOK
<1>1. JobsInit => ConfigurationsInv /\ ConfigurationsSorts
  BY ConfigurationsInit DEF JobsInit, ConfigurationsSorts, Configurations!Init
<1>2. ConfigurationsInv /\ [JobsNext]_jobsVars => ConfigurationsInv'
  BY ConfigurationsPart, ConfigurationsStep, ConfigurationsStutter
<1>3. ConfigurationsInv /\ ConfigurationsSorts /\ [JobsNext]_jobsVars => ConfigurationsSorts'
  <2>1. ConfigurationsSorts /\ UNCHANGED configurationsVars => ConfigurationsSorts'
    BY DEF ConfigurationsSorts, configurationsVars
  <2> QED
    BY <2>1, ConfigurationsSortsStep, ConfigurationsPart
<1>4. ASSUME ConfigurationsInv, ConfigurationsSorts PROVE Configurations!TypeOK
  <2>1. \A i \in DOMAIN rounds : rounds[i] \in Seq(Configurations!Work)
    BY <1>4 DEF ConfigurationsInv, Rounds
  <2>2. \A i \in DOMAIN rounds : \A j \in DOMAIN rounds[i] :
           rounds[i][j] \in Configurations!Work
    BY <2>1
  <2> QED
    BY <1>4, <2>2 DEF ConfigurationsInv, ConfigurationsSorts, Configurations!TypeOK
<1> QED
  BY <1>1, <1>2, <1>3, <1>4, PTL DEF JobsSpec

\* The servers that the two jobs note are known ones; the lease job is at a
\* server while it mails its owner and waits for its decommission job.
PowerSorts ==
    /\ historical \cup decoms \cup powered \cup failures \subseteq Power!Machines
    /\ raised \subseteq Power!Powered
    /\ due \in [Power!Leased -> {"no", "warn", "off", "delete"}]
    /\ leasePc \in {"idle", "look", "email", "wait", "failed"}
    /\ leaseTodo \in Seq(Power!Leased)
    /\ leasePc \in {"email", "wait"} => leaseTodo # <<>>

LEMMA LeasedMachines == Power!Leased \subseteq Power!Machines
BY DEF Power!Machines

LEMMA PowerSortsInit == Power!Init => PowerSorts
<1> SUFFICES ASSUME Power!Init PROVE PowerSorts
  OBVIOUS
<1>1. leaseTodo \in Seq(Power!Leased)
  BY DEF Power!Init
<1> QED
  BY <1>1 DEF Power!Init, PowerSorts

LEMMA PowerSortsControl ==
    ASSUME PowerInv, PowerSorts,
           \/ Power!RunPowerControl \/ Power!EndPowerControl
           \/ \E t \in tasks : \/ Power!StartTask(t) \/ Power!PowerServer(t)
                               \/ Power!EndTask(t) \/ Power!TaskRaises(t)
    PROVE  PowerSorts'
<1>1. UNCHANGED <<historical, decoms, due, leaseTodo, leaseSeen, leasePc>>
  BY DEF Power!RunPowerControl, Power!EndPowerControl, Power!StartTask, Power!PowerServer,
         Power!EndTask, Power!TaskRaises, Power!lease
<1>2. \A t \in tasks : t.failures \subseteq Power!Machines /\ t.resource \in Power!Powered
  BY DEF PowerInv, TasksInv, PowerTask
<1>3. powered' \cup failures' \subseteq Power!Machines /\ raised' \subseteq Power!Powered
  BY <1>2 DEF PowerSorts, Power!RunPowerControl, Power!EndPowerControl, Power!StartTask,
     Power!PowerServer, Power!EndTask, Power!TaskRaises
<1> QED
  BY <1>1, <1>3 DEF PowerSorts

LEMMA PowerSortsLeases ==
    ASSUME PowerSorts,
           \/ \E s \in Power!Leased : Power!DayPasses(s) \/ Power!DecommissionEnds(s)
           \/ Power!RunLeases \/ Power!SkipHistorical \/ Power!DeleteServer
           \/ Power!PowerOffServer \/ Power!WarnOwner \/ Power!EmailOwner
           \/ Power!EmailOwnerRaises \/ Power!WaitForJobs \/ Power!EndLeases
    PROVE  PowerSorts'
<1>1. CASE \E s \in Power!Leased : Power!DayPasses(s)
  <2>1. PICK s \in Power!Leased : due' = [due EXCEPT ![s] = Power!Later(@)]
    BY <1>1 DEF Power!DayPasses
  <2>2. Power!Later(due[s]) \in {"warn", "off", "delete"}
    BY DEF Power!Later
  <2>3. due' \in [Power!Leased -> {"no", "warn", "off", "delete"}]
    BY <2>1, <2>2 DEF PowerSorts
  <2> QED
    BY <1>1, <2>3 DEF PowerSorts, Power!DayPasses, Power!pool, Power!lease
<1>2. CASE \E s \in Power!Leased : Power!DecommissionEnds(s)
  BY <1>2, LeasedMachines DEF PowerSorts, Power!DecommissionEnds, Power!pool, Power!lease
<1>3. CASE Power!RunLeases
  <2>1. PICK S : leaseTodo' = Selected(PowerLeases, S)
    BY <1>3 DEF Power!RunLeases, Power!Selected, Selected
  <2>2. PowerLeases \in Seq(Power!Leased)
    BY PowerAssumption DEF Power!Leased
  <2>3. Selected(PowerLeases, S) \in Seq(Power!Leased \cap S)
    BY <2>2, SelectedItems
  <2>4. leaseTodo' \in Seq(Power!Leased)
    BY <2>1, <2>3
  <2> QED
    BY <1>3, <2>4 DEF PowerSorts, Power!RunLeases, Power!pool
<1>4. ASSUME leaseTodo # <<>>
      PROVE  Power!This \in Power!Leased /\ Tail(leaseTodo) \in Seq(Power!Leased)
  BY <1>4 DEF PowerSorts, Power!This
<1>5. CASE Power!SkipHistorical
  BY <1>4, <1>5 DEF PowerSorts, Power!SkipHistorical, Power!Looking, Power!pool
<1>6. CASE Power!DeleteServer
  BY <1>4, <1>6, LeasedMachines DEF PowerSorts, Power!DeleteServer, Power!Looking, Power!pool
<1>7. CASE Power!PowerOffServer
  BY <1>4, <1>7, LeasedMachines DEF PowerSorts, Power!PowerOffServer, Power!Looking, Power!pool
<1>8. CASE Power!WarnOwner
  BY <1>8 DEF PowerSorts, Power!WarnOwner, Power!Looking, Power!pool
<1>9. CASE Power!EmailOwner
  <2>1. leaseTodo' \in Seq(Power!Leased)
    BY <1>4, <1>9 DEF PowerSorts, Power!EmailOwner
  <2> QED
    BY <1>9, <2>1 DEF PowerSorts, Power!EmailOwner, Power!pool
<1>10. CASE Power!EmailOwnerRaises
  <2>1. leaseTodo' \in Seq(Power!Leased)
    BY <1>10 DEF Power!EmailOwnerRaises
  <2> QED
    BY <1>10, <2>1 DEF PowerSorts, Power!EmailOwnerRaises, Power!pool
<1>11. CASE Power!WaitForJobs
  BY <1>4, <1>11 DEF PowerSorts, Power!WaitForJobs, Power!pool
<1>12. CASE Power!EndLeases
  BY <1>12 DEF PowerSorts, Power!EndLeases, Power!pool
<1> QED
  BY <1>1, <1>2, <1>3, <1>5, <1>6, <1>7, <1>8, <1>9, <1>10, <1>11, <1>12

LEMMA PowerTypes == JobsSpec => []Power!TypeOK
<1>1. JobsInit => PowerInv /\ PowerSorts
  BY PowerInit, PowerSortsInit DEF JobsInit
<1>2. PowerInv /\ [JobsNext]_jobsVars => PowerInv'
  BY PowerPart, PowerStep, PowerStutter
<1>3. PowerInv /\ PowerSorts /\ [JobsNext]_jobsVars => PowerSorts'
  <2>1. PowerSorts /\ UNCHANGED powerVars => PowerSorts'
    BY DEF PowerSorts, powerVars
  <2>2. PowerInv /\ PowerSorts /\ Power!Next => PowerSorts'
    BY PowerSortsControl, PowerSortsLeases DEF Power!Next
  <2> QED
    BY <2>1, <2>2, PowerPart
<1>4. PowerInv /\ PowerSorts => Power!TypeOK
  BY DEF PowerInv, PowerSorts, TasksInv, PowerTask, Power!TypeOK
<1> QED
  BY <1>1, <1>2, <1>3, <1>4, PTL DEF JobsSpec

\* One more id gathered from GitLab, and after a VM that could be read what it
\* depends on.
WithOwn(id, before) == IF id \in Arm!Range(before) THEN before ELSE Append(before, id)
WithDependents(read, id, before) ==
    IF id \in read
    THEN WithOwn(id, before)
            \o Selected(ArmDisks[id] \o ArmNics[id], ArmIds \ Arm!Range(WithOwn(id, before)))
    ELSE WithOwn(id, before)

LEMMA ArmWithDependents ==
    ASSUME NEW read \in SUBSET ArmVMs, NEW id \in ArmIds, NEW s \in Seq(ArmIds)
    PROVE  WithDependents(read, id, s) \in Seq(ArmIds)
<1>1. PICK own : own = WithOwn(id, s)
  OBVIOUS
<1>2. own \in Seq(ArmIds)
  BY <1>1 DEF WithOwn
<1>3. ASSUME id \in read
      PROVE  WithDependents(read, id, s) \in Seq(ArmIds)
  <2>1. ArmDisks[id] \in Seq(ArmIds) /\ ArmNics[id] \in Seq(ArmIds)
    <3>1. ArmDisks[id] \in Seq(ArmIds \ ArmVMs) /\ ArmNics[id] \in Seq(ArmIds)
      BY <1>3, ArmAssumption
    <3> QED
      BY <3>1
  <2>2. PICK all : all = ArmDisks[id] \o ArmNics[id]
    OBVIOUS
  <2>3. all \in Seq(ArmIds)
    BY <2>1, <2>2
  <2>4. PICK S : S = ArmIds \ Arm!Range(own)
    OBVIOUS
  <2>5. Selected(all, S) \in Seq(ArmIds \cap S)
    BY <2>3, SelectedItems
  <2>6. WithDependents(read, id, s) = own \o Selected(all, S)
    BY <1>1, <1>3, <2>2, <2>4 DEF WithDependents
  <2>7. PICK more : more = Selected(all, S)
    OBVIOUS
  <2>8. more \in Seq(ArmIds)
    BY <2>5, <2>7
  <2> QED
    BY <1>2, <2>6, <2>7, <2>8
<1>4. CASE id \notin read
  BY <1>1, <1>2, <1>4 DEF WithDependents
<1> QED
  BY <1>3, <1>4

LEMMA ArmGatheredDependents ==
    ASSUME NEW read \in SUBSET ArmVMs, recordedIds \in Seq(ArmIds)
    PROVE  Arm!GatheredWithDependents(read) \in Seq(ArmIds)
<1>1. PICK s : s = recordedIds
  OBVIOUS
<1>2. s \in Seq(ArmIds) /\ Len(s) \in Nat /\ DOMAIN s = 1 .. Len(s)
  BY <1>1
<1> DEFINE Upto(g) == g = [i \in 0 .. Len(s) |->
                             IF i = 0 THEN <<>> ELSE WithDependents(read, s[i], g[i - 1])]
           f == CHOOSE g : Upto(g)
           X == Seq(ArmIds)
           F == [p \in (1 .. Len(s)) \X X |-> WithDependents(read, s[p[1]], p[2])]
<1>3. Arm!GatheredWithDependents(read) = f[Len(s)]
  BY <1>1 DEF Arm!GatheredWithDependents, WithDependents, WithOwn, Arm!Selected, Selected
<1>4. <<>> \in X
  OBVIOUS
<1>5. F \in [(1 .. Len(s)) \X X -> X]
  <2>1. \A p \in (1 .. Len(s)) \X X : WithDependents(read, s[p[1]], p[2]) \in X
    BY <1>2, ArmWithDependents
  <2> HIDE DEF X
  <2> QED
    BY <2>1
<1>6. PICK g \in [0 .. Len(s) -> X] :
         g[0] = <<>> /\ \A k \in 1 .. Len(s) : g[k] = F[<<k, g[k - 1]>>]
  <2>1. PICK m, Y, e, G : m = Len(s) /\ Y = X /\ e = <<>> /\ G = F
    OBVIOUS
  <2> HIDE DEF F, X
  <2>2. m \in Nat /\ e \in Y /\ G \in [(1 .. m) \X Y -> Y]
    BY <1>2, <1>4, <1>5, <2>1
  <2>3. \E g : Steps(g, m, Y, e, G)
    BY <2>2, StepsExist
  <2> QED
    BY <2>1, <2>3 DEF Steps
<1>7. \A k \in 1 .. Len(s) : k - 1 \in 0 .. Len(s) /\ g[k - 1] \in X
  <2> HIDE DEF X
  <2> QED
    BY <1>2
<1>8. Upto(g)
  <2>1. \A k \in 1 .. Len(s) : g[k] = WithDependents(read, s[k], g[k - 1])
    <3> HIDE DEF X
    <3> QED
      BY <1>6, <1>7
  <2>2. \A k \in 0 .. Len(s) : k # 0 => k \in 1 .. Len(s)
    BY <1>2
  <2>3. \A k \in 0 .. Len(s) : g[k] = IF k = 0 THEN <<>> ELSE WithDependents(read, s[k], g[k - 1])
    BY <1>6, <2>1, <2>2
  <2> HIDE DEF X, F
  <2> QED
    BY <2>3
<1>9. Upto(f)
  <2> HIDE DEF Upto
  <2> QED
    BY <1>8
<1> HIDE DEF f, X, F
<1>10. f[0] = <<>> /\ \A k \in 1 .. Len(s) : f[k] = WithDependents(read, s[k], f[k - 1])
  <2>1. 0 \in 0 .. Len(s) /\ \A k \in 1 .. Len(s) : k \in 0 .. Len(s) /\ k # 0
    BY <1>2
  <2>2. \A k \in 0 .. Len(s) : f[k] = IF k = 0 THEN <<>> ELSE WithDependents(read, s[k], f[k - 1])
    BY <1>9
  <2> QED
    BY <2>1, <2>2
<1> DEFINE W == {n \in 0 .. Len(s) : f[n] \notin X}
<1>11. ASSUME W # {} PROVE FALSE
  <2>1. PICK n \in W : \A j \in W : n <= j
    <3>1. W \in SUBSET Nat
      BY <1>2
    <3> HIDE DEF W
    <3> QED
      BY <1>11, <3>1, Least
  <2>2. n \in 0 .. Len(s) /\ f[n] \notin X
    OBVIOUS
  <2>3. n # 0
    BY <1>4, <1>10, <2>2
  <2>4. n \in 1 .. Len(s) /\ n - 1 \in 0 .. Len(s) /\ n - 1 \notin W
    <3> HIDE DEF W
    <3> QED
      BY <1>2, <2>1, <2>2, <2>3
  <2>5. f[n - 1] \in Seq(ArmIds)
    BY <2>4 DEF X
  <2>6. s[n] \in ArmIds
    BY <1>2, <2>4
  <2>7. WithDependents(read, s[n], f[n - 1]) \in Seq(ArmIds)
    BY <2>5, <2>6, ArmWithDependents
  <2> QED
    BY <1>10, <2>2, <2>4, <2>7 DEF X
<1>12. f[Len(s)] \in X
  BY <1>2, <1>11
<1> QED
  BY <1>3, <1>12 DEF X

\* A job's place is in the list it walks: the outputs, or the ids to delete.
ArmSorts ==
    /\ nested \subseteq ArmIds /\ azure \subseteq ArmIds \cup {"deployment"}
    /\ armServers \subseteq ArmVMs
    /\ armPc \in {"new", "deploy", "record", "idle", "delete", "gone"}
    /\ built \in Arm!Results /\ torn \in Arm!Results
    /\ ids \in Seq(ArmIds \cup {"deployment"}) /\ failedIds \subseteq Arm!Range(ids)
    /\ armPc = "delete" => at <= Len(ids) + 1
    /\ armPc = "gone" => at = 1

LEMMA ArmSortsInit == Arm!Init => ArmSorts
<1> SUFFICES ASSUME Arm!Init PROVE ArmSorts
  OBVIOUS
<1>1. ids \in Seq(ArmIds \cup {"deployment"})
  BY DEF Arm!Init
<1> QED
  BY <1>1 DEF Arm!Init, ArmSorts, Arm!Results

LEMMA ArmSortsBuild ==
    ASSUME ArmInv, ArmSorts,
           \/ Arm!OrderCluster \/ Arm!OrderGitLab
           \/ \E n \in SUBSET (ArmIds \ UNION {Arm!Range(ArmDisks[v]) : v \in ArmVMs}) :
                 Arm!OrderBuilder(n)
           \/ Arm!Deploy \/ Arm!DeployFails
           \/ Arm!RecordOutput \/ Arm!RecordFails \/ Arm!RecordGitLabOutput \/ Arm!BuildDone
    PROVE  ArmSorts'
<1>1. CASE \/ Arm!OrderCluster \/ Arm!OrderGitLab
           \/ \E n \in SUBSET (ArmIds \ UNION {Arm!Range(ArmDisks[v]) : v \in ArmVMs}) :
                 Arm!OrderBuilder(n)
  <2>1. PICK b, n : Arm!Starts(b, n) /\ n \subseteq ArmIds
    BY <1>1 DEF Arm!OrderCluster, Arm!OrderGitLab, Arm!OrderBuilder
  <2> QED
    BY <2>1 DEF Arm!Starts, ArmSorts, Arm!Results, Arm!teardownVars
<1>2. CASE Arm!Deploy
  BY <1>2 DEF Arm!Deploy, ArmSorts, Arm!Deployment, Arm!teardownVars
<1>3. CASE Arm!DeployFails
  BY <1>3 DEF Arm!DeployFails, ArmSorts, Arm!Results, Arm!Deployment, Arm!teardownVars
<1>4. CASE Arm!RecordOutput
  BY <1>4 DEF Arm!RecordOutput, ArmSorts, Arm!teardownVars
<1>5. CASE Arm!RecordFails
  BY <1>5 DEF Arm!RecordFails, ArmSorts, Arm!Results, Arm!teardownVars
<1>6. CASE Arm!RecordGitLabOutput
  BY <1>6 DEF Arm!RecordGitLabOutput, ArmSorts, Arm!teardownVars
<1>7. CASE Arm!BuildDone
  BY <1>7 DEF Arm!BuildDone, ArmSorts, Arm!Results, Arm!teardownVars
<1> QED
  BY <1>1, <1>2, <1>3, <1>4, <1>5, <1>6, <1>7

LEMMA ArmSortsTeardown ==
    ASSUME ArmInv, ArmSorts,
           \/ Arm!NothingToTearDown \/ Arm!StartTeardown
           \/ Arm!UnknownApiVersion \/ Arm!AlreadyGone \/ Arm!DeleteId
           \/ \E fault \in BOOLEAN : Arm!DeleteFails(fault) \/ Arm!GitLabDeleteFails(fault)
           \/ Arm!TeardownRaises \/ Arm!NextPass \/ Arm!TeardownDone
    PROVE  ArmSorts'
<1>1. CASE Arm!NothingToTearDown
  BY <1>1 DEF Arm!NothingToTearDown, Arm!buildVars, ArmSorts, Arm!Results, ArmInv, ArmBuild
<1>2. CASE Arm!StartTeardown
  <2>1. recordedIds \in Seq(ArmIds) /\ at = 1
    BY <1>2 DEF Arm!StartTeardown, ArmInv, ArmTyped, ArmBuild
  <2>0. PICK read \in SUBSET ArmVMs :
          ids' = CASE armBlueprint = "aks"         -> Arm!Gathered
                   [] armBlueprint = "arm_builder" -> Append(Arm!Gathered, "deployment")
                   [] OTHER -> Append(Arm!GatheredWithDependents(read), "deployment")
    BY <1>2 DEF Arm!StartTeardown, Arm!Deployment
  <2>2. PICK g, h : g = Arm!Gathered /\ h = Arm!GatheredWithDependents(read)
    OBVIOUS
  <2>3. g \in Seq(ArmIds) /\ h \in Seq(ArmIds)
    BY <2>1, <2>2, ArmGathered, ArmGatheredDependents
  <2>4. ids' \in {g, Append(g, "deployment"), Append(h, "deployment")}
    BY <2>0, <2>2
  <2>5. /\ ids' \in Seq(ArmIds \cup {"deployment"}) /\ Len(ids') \in Nat
    <3>1. PICK d : d = "deployment"
      OBVIOUS
    <3>2. /\ g \in Seq(ArmIds \cup {d}) /\ Append(g, d) \in Seq(ArmIds \cup {d})
          /\ Append(h, d) \in Seq(ArmIds \cup {d})
      BY <2>3
    <3>3. ids' \in Seq(ArmIds \cup {d})
      BY <2>4, <3>1, <3>2
    <3> QED
      BY <3>1, <3>3
  <2> QED
    BY <1>2, <2>1, <2>5 DEF Arm!StartTeardown, Arm!buildVars, ArmSorts
<1>3. ASSUME Arm!InLoop
      PROVE  /\ at + 1 <= Len(ids) + 1 /\ ids[at] \in Arm!Range(ids)
             /\ at \in Nat \ {0}
  <2>1. at \in Nat \ {0} /\ ids \in Seq(ArmIds \cup {"deployment"}) /\ at <= Len(ids)
    BY <1>3 DEF Arm!InLoop, ArmInv, ArmTyped, ArmSorts
  <2> QED
    BY <2>1 DEF Arm!Range
<1>4. ASSUME NEW fault \in BOOLEAN, Arm!TeardownFails(fault),
             azure' \subseteq azure, armServers' \subseteq armServers
      PROVE  ArmSorts'
  BY <1>4 DEF Arm!TeardownFails, Arm!buildVars, ArmSorts, Arm!Results
<1>5. CASE Arm!UnknownApiVersion
  BY <1>4, <1>5 DEF Arm!UnknownApiVersion
<1>11. ASSUME NEW id, Arm!MaybeDeleted(id) PROVE azure' \subseteq azure
  BY <1>11 DEF Arm!MaybeDeleted
<1>12. CASE Arm!TeardownRaises
  <2>1. Arm!TeardownFails(FALSE) /\ armServers' \subseteq armServers
    BY <1>12 DEF Arm!TeardownRaises
  <2>2. azure' \subseteq azure
    BY <1>11, <1>12 DEF Arm!TeardownRaises
  <2> QED
    BY <1>4, <2>1, <2>2
<1>6. CASE Arm!AlreadyGone
  BY <1>3, <1>6 DEF Arm!AlreadyGone, Arm!buildVars, Arm!teardownVars, ArmSorts, Arm!InLoop
<1>7. CASE Arm!DeleteId
  BY <1>3, <1>7 DEF Arm!DeleteId, Arm!buildVars, Arm!teardownVars, ArmSorts, Arm!InLoop
<1>8. ASSUME NEW fault \in BOOLEAN, Arm!DeleteFails(fault) \/ Arm!GitLabDeleteFails(fault)
      PROVE  ArmSorts'
  <2>0. azure' \subseteq azure
    BY <1>8, <1>11 DEF Arm!DeleteFails, Arm!GitLabDeleteFails
  <2>1. CASE Arm!DeleteFails(fault)
    <3>1. failedIds' \subseteq Arm!Range(ids)'
      BY <1>3, <2>1 DEF Arm!DeleteFails, ArmSorts, Arm!Range
    <3> QED
      BY <1>3, <2>0, <2>1, <3>1 DEF Arm!DeleteFails, Arm!buildVars, ArmSorts, Arm!InLoop
  <2>2. CASE Arm!GitLabDeleteFails(fault)
    BY <1>4, <2>0, <2>2 DEF Arm!GitLabDeleteFails
  <2> QED
    BY <1>8, <2>1, <2>2
<1>9. CASE Arm!NextPass
  <2>1. Len(ids) \in Nat
    BY DEF ArmSorts
  <2> QED
    BY <1>9, <2>1 DEF Arm!NextPass, Arm!buildVars, ArmSorts
<1>10. CASE Arm!TeardownDone
  BY <1>10 DEF Arm!TeardownDone, Arm!buildVars, ArmSorts, Arm!Results
<1> QED
  BY <1>1, <1>2, <1>5, <1>6, <1>7, <1>8, <1>9, <1>10, <1>12

LEMMA ArmTypes == JobsSpec => []Arm!TypeOK
<1>1. JobsInit => ArmInv /\ ArmSorts
  BY ArmInit, ArmSortsInit DEF JobsInit
<1>2. ArmInv /\ [JobsNext]_jobsVars => ArmInv'
  BY ArmPart, ArmStep, ArmStutter
<1>3. ArmInv /\ ArmSorts /\ [JobsNext]_jobsVars => ArmSorts'
  <2>1. ArmSorts /\ UNCHANGED armVars => ArmSorts'
    BY DEF ArmSorts, armVars, Arm!Range
  <2>2. ArmInv /\ ArmSorts /\ Arm!Next => ArmSorts'
    BY ArmSortsBuild, ArmSortsTeardown DEF Arm!Next
  <2> QED
    BY <2>1, <2>2, ArmPart
<1>4. ASSUME ArmInv, ArmSorts PROVE Arm!TypeOK
  <2>1. /\ recordedIds \in Seq(ArmIds) /\ outputs \in Seq(ArmIds)
        /\ ids \in Seq(ArmIds \cup {"deployment"}) /\ at \in Nat \ {0}
    BY <1>4 DEF ArmInv, ArmTyped, ArmSorts
  <2>2. /\ Arm!Range(outputs) \subseteq ArmIds /\ Arm!Range(recordedIds) \subseteq ArmIds
        /\ Arm!Range(ids) \subseteq ArmIds \cup {"deployment"}
    BY <2>1 DEF Arm!Range
  <2>3. Len(outputs) \in Nat /\ Len(ids) \in Nat
    BY <2>1
  <2>4. at <= Len(outputs) + Len(ids) + 1
    BY <1>4, <2>1, <2>3 DEF ArmInv, ArmBuild, ArmSorts
  <2>5. at \in 1 .. Len(outputs) + Len(ids) + 1
    BY <2>1, <2>3, <2>4
  <2> QED
    BY <1>4, <2>2, <2>5 DEF ArmInv, ArmTyped, ArmSorts, Arm!TypeOK, Arm!Deployment
<1> QED
  BY <1>1, <1>2, <1>3, <1>4, PTL DEF JobsSpec

\* The auto-approval runs in its own behaviours.
LEMMA ApprovalTypes == JobsSpec => [](component = "auto_approve" => TypeOK)
<1> DEFINE Typed == component = "auto_approve" => TypeOK
<1>1. JobsInit => Typed
  BY InitInv DEF JobsInit
<1>2. ASSUME Typed, [JobsNext]_jobsVars PROVE Typed'
  <2>1. CASE Only("auto_approve") /\ Next
    BY <1>2, <2>1, NextTypeOK DEF Only
  <2>2. CASE UNCHANGED vars /\ UNCHANGED component
    BY <1>2, <2>2 DEF TypeOK, vars
  <2>3. ASSUME NEW c \in Components \ {"auto_approve"}, Only(c)
        PROVE  UNCHANGED vars /\ UNCHANGED component
    BY <2>3 DEF Only
  <2>4. CASE UNCHANGED jobsVars
    BY <2>2, <2>4 DEF jobsVars
  <2> QED
    BY <1>2, <2>1, <2>2, <2>3, <2>4 DEF JobsNext, Components
<1> HIDE DEF Typed
<1>3. JobsSpec => []Typed
  BY <1>1, <1>2, PTL DEF JobsSpec
<1> QED
  BY <1>3 DEF Typed

\* Every variable of the component that runs has its type, for every value of the
\* constants.
THEOREM TypesCorrect == JobsSpec => []TypesOK
<1> DEFINE Each == /\ component = "auto_approve" => TypeOK
                   /\ Arm!TypeOK /\ Subscription!TypeOK /\ Database!TypeOK
                   /\ Objects!TypeOK /\ Template!TypeOK /\ Configurations!TypeOK
                   /\ Vra!TypeOK /\ Segment!TypeOK /\ Nsx!TypeOK /\ Power!TypeOK
                   /\ Git!TypeOK /\ OneFuse!TypeOK /\ Sso!TypeOK
<1>1. Each => TypesOK
  BY DEF TypesOK
<1>2. JobsSpec => []Each
  BY ApprovalTypes, ArmTypes, SubscriptionTypes, DatabaseTypes, ObjectsTypes, TemplateTypes,
     ConfigurationsTypes, VraTypes, SegmentTypes, NsxTypes, PowerTypes, GitTypes,
     OneFuseTypes, SsoTypes, PTL
<1> QED
  BY <1>1, <1>2, PTL
=============================================================================
