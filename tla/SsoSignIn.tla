------------------------------ MODULE SsoSignIn ------------------------------
(***************************************************************************)
(* The hook that updates a user at a single sign-on: it refreshes the user *)
(* from the database, sets the attributes the identity provider sent,      *)
(* saves the whole user if one differs, then (Azure AD only) points the    *)
(* profile at the LDAP of the user's domain, and gives the profile the     *)
(* roles mapped to each claimed group, one group after the other, one role *)
(* after the other; a group or a role that does not exist is passed over.  *)
(* Administrators and other sign-ins act between any two steps.            *)
(***************************************************************************)
EXTENDS Naturals, Sequences

CONSTANTS
    SsoUsers,
    SignIns,    \* sign-ins, each of one user, at any time
    Attrs,      \* attributes of a user, each holding a value of Values
    Values,     \* with Unsent, what the identity provider may send
    Unsent,     \* no value, or an empty one (which an attribute may hold too)
    Claims,     \* sequences of groups the identity provider may claim
    GroupsMap,  \* [some claimed groups -> CloudBolt group and roles]
    Groups,     \* CloudBolt groups there may be
    Roles,      \* CloudBolt roles there may be; the map may name others
    EditMax     \* bound on the changes administrators make

VARIABLES
    ssoAttr,      \* [SsoUsers -> [Attrs -> Values]]: the users in the database
    ssoLdap,      \* users whose profile points at an LDAP
    memberships,  \* group role memberships: <<user, group, role>>
    cbGroups,     \* groups that exist
    cbRoles,      \* roles that exist
    signIn,       \* [SignIns -> the sign-in's locals]
    claimed,      \* memberships some sign-in's claims stood for
    edits

ssoVars == <<ssoAttr, ssoLdap, memberships, cbGroups, cbRoles, signIn, claimed, edits>>

\* What a claimed group stands for; a group that is not in the map stands for
\* the group of its own name, with the default roles.
DefaultRoles == {"requestor"}
Target(g) == IF g \in DOMAIN GroupsMap THEN GroupsMap[g]
             ELSE [group |-> g, roles |-> DefaultRoles]

Granted(u, g) == {<<u, Target(g).group, role>> : role \in Target(g).roles}

AllClaimed == UNION {{claim[k] : k \in DOMAIN claim} : claim \in Claims}

ClaimedGroups(s) == {signIn[s].claim[k] : k \in DOMAIN signIn[s].claim}

TypeOK ==
    /\ ssoAttr \in [SsoUsers -> [Attrs -> Values]]
    /\ ssoLdap \subseteq SsoUsers
    /\ memberships \cup claimed \subseteq
          SsoUsers \X {Target(g).group : g \in AllClaimed}
                   \X UNION {Target(g).roles : g \in AllClaimed}
    /\ cbGroups \subseteq Groups /\ cbRoles \subseteq Roles
    /\ \A s \in SignIns :
          signIn[s].pc \in {"none", "update", "ldap", "groups", "done", "failed"}
    /\ edits \in 0 .. EditMax

First(S) == CHOOSE v \in S : TRUE

Init == /\ ssoAttr = [u \in SsoUsers |-> [a \in Attrs |-> First(Values)]]
        /\ ssoLdap = {} /\ memberships = {} /\ claimed = {}
        /\ cbGroups = Groups /\ cbRoles = Roles
        /\ signIn = [s \in SignIns |-> [pc |-> "none"]]
        /\ edits = 0

\* All sign-ins but `mine' learn that these attributes and memberships were
\* changed, and that these groups and roles were deleted.
Touch(mine, things, groups, roles) ==
    [s \in SignIns |->
        IF s \in mine \/ signIn[s].pc \in {"none", "failed"} THEN signIn[s]
        ELSE [signIn[s] EXCEPT
                 !.touched = @ \cup things,
                 !.noGroup = @ \cup groups, !.noRole = @ \cup roles,
                 !.stale = @ \/ \E m \in signIn[s].left : m[2] \in groups]]

\* No attributes from the provider is a failure of the hook, without effect.
BeginSignIn(s) ==
    /\ signIn[s].pc = "none"
    /\ \E u \in SsoUsers, claim \in Claims,
          sent \in [Attrs -> Values \cup {Unsent}] :
          /\ signIn' = [signIn EXCEPT ![s] =
                          [pc |-> "update", user |-> u, claim |-> claim, sent |-> sent,
                           copy |-> ssoAttr[u], at |-> 1, left |-> {}, stale |-> FALSE,
                           touched |-> {}, noGroup |-> Groups \ cbGroups,
                           noRole |-> Roles \ cbRoles]]
          /\ claimed' = claimed \cup
                          UNION {Granted(u, claim[k]) : k \in DOMAIN claim}
    /\ UNCHANGED <<ssoAttr, ssoLdap, memberships, cbGroups, cbRoles, edits>>

\* An attribute that was not sent keeps the value it was read with.
Updated(q) == [a \in Attrs |-> IF q.sent[a] = Unsent THEN q.copy[a] ELSE q.sent[a]]

\* The whole user is saved, the attributes that were not sent included.
UpdateUser(s) ==
    LET q == signIn[s]
        u == q.user
        saved == IF Updated(q) # q.copy THEN Updated(q) ELSE ssoAttr[u]
        changed == {<<u, a>> : a \in {b \in Attrs : saved[b] # ssoAttr[u][b]}}
    IN /\ q.pc = "update"
       /\ ssoAttr' = [ssoAttr EXCEPT ![u] = saved]
       /\ signIn' = [Touch({s}, changed, {}, {}) EXCEPT ![s].pc = "ldap",
                                                        ![s].copy = Updated(q)]
       /\ UNCHANGED <<ssoLdap, memberships, cbGroups, cbRoles, claimed, edits>>

\* There may be an LDAP for the domain of the name, or for the attribute sent.
UpdateLdap(s) ==
    /\ signIn[s].pc = "ldap"
    /\ ssoLdap' \in {ssoLdap, ssoLdap \cup {signIn[s].user}}
    /\ signIn' = [signIn EXCEPT ![s].pc = "groups"]
    /\ UNCHANGED <<ssoAttr, memberships, cbGroups, cbRoles, claimed, edits>>

\* Bug: a claimed group that does not exist ends the loop.
AfterGroupStops(q, exists) == IF exists THEN q.at + 1 ELSE Len(q.claim) + 1

\* A claimed group that does not exist is passed over.
AfterGroup(q, exists) == q.at + 1

\* The next claimed group is looked up: its roles are those left to give.
SetGroup(s) ==
    LET q == signIn[s]
        exists == Target(q.claim[q.at]).group \in cbGroups
    IN /\ q.pc = "groups" /\ q.left = {} /\ q.at <= Len(q.claim)
       /\ signIn' = [signIn EXCEPT
                        ![s].left = IF exists THEN Granted(q.user, q.claim[q.at]) ELSE {},
                        ![s].at = AfterGroup(q, exists), ![s].stale = FALSE]
       /\ UNCHANGED <<ssoAttr, ssoLdap, memberships, cbGroups, cbRoles, claimed, edits>>

\* A role that does not exist is passed over; one of a group that was deleted
\* after it was looked up cannot be given (SignInRaises).
SetRole(s) ==
    LET q == signIn[s] IN
    /\ q.pc = "groups"
    /\ \E m \in q.left :
          /\ \/ /\ m[3] \in cbRoles /\ ~q.stale
                /\ memberships' = memberships \cup {m}
             \/ /\ m[3] \notin cbRoles
                /\ UNCHANGED memberships
          /\ signIn' = [signIn EXCEPT ![s].left = @ \ {m}]
    /\ UNCHANGED <<ssoAttr, ssoLdap, cbGroups, cbRoles, claimed, edits>>

SignedIn(s) ==
    /\ signIn[s].pc = "groups" /\ signIn[s].left = {}
    /\ signIn[s].at > Len(signIn[s].claim)
    /\ signIn' = [signIn EXCEPT ![s].pc = "done"]
    /\ UNCHANGED <<ssoAttr, ssoLdap, memberships, cbGroups, cbRoles, claimed, edits>>

\* Nothing catches what else a call raises; what was saved and given stays.
SignInRaises(s) ==
    /\ signIn[s].pc \in {"update", "ldap", "groups"}
    /\ signIn' = [signIn EXCEPT ![s] = [pc |-> "failed"]]
    /\ UNCHANGED <<ssoAttr, ssoLdap, memberships, cbGroups, cbRoles, claimed, edits>>

\* An administrator edits an attribute, takes a role away, or deletes or makes
\* a group or a role; with a group or a role its memberships go.
AdminEdits ==
    /\ edits < EditMax /\ edits' = edits + 1
    /\ \/ \E u \in SsoUsers, a \in Attrs, v \in Values :
             /\ ssoAttr' = [ssoAttr EXCEPT ![u][a] = v]
             /\ signIn' = Touch({}, {<<u, a>>}, {}, {})
             /\ UNCHANGED <<memberships, cbGroups, cbRoles>>
       \/ \E m \in memberships :
             /\ memberships' = memberships \ {m}
             /\ signIn' = Touch({}, {m}, {}, {})
             /\ UNCHANGED <<ssoAttr, cbGroups, cbRoles>>
       \/ \E g \in cbGroups :
             /\ cbGroups' = cbGroups \ {g}
             /\ memberships' = {m \in memberships : m[2] # g}
             /\ signIn' = Touch({}, {}, {g}, {})
             /\ UNCHANGED <<ssoAttr, cbRoles>>
       \/ \E r \in cbRoles :
             /\ cbRoles' = cbRoles \ {r}
             /\ memberships' = {m \in memberships : m[3] # r}
             /\ signIn' = Touch({}, {}, {}, {r})
             /\ UNCHANGED <<ssoAttr, cbGroups>>
       \/ /\ \/ /\ \E g \in Groups \ cbGroups : cbGroups' = cbGroups \cup {g}
                /\ UNCHANGED cbRoles
             \/ /\ \E r \in Roles \ cbRoles : cbRoles' = cbRoles \cup {r}
                /\ UNCHANGED cbGroups
          /\ UNCHANGED <<ssoAttr, memberships, signIn>>
    /\ UNCHANGED <<ssoLdap, claimed>>

Next == \/ \E s \in SignIns : \/ BeginSignIn(s) \/ UpdateUser(s) \/ UpdateLdap(s)
                              \/ SetGroup(s) \/ SetRole(s) \/ SignedIn(s)
                              \/ SignInRaises(s)
        \/ AdminEdits

-----------------------------------------------------------------------------
(* Properties. *)

\* A sign-in that ended has done what the claims stand for, in whatever order
\* other sign-ins and administrators acted: each attribute that was sent has
\* its value, and the user has every role of every claimed group, unless the
\* attribute or the membership was changed since the sign-in began, or the
\* group or the role was missing at some time since then (both are passed over
\* with a warning only).  No role is held that no claim stood for.
SignedInAsClaimed ==
    /\ memberships \subseteq claimed
    /\ \A s \in SignIns :
           LET q == signIn[s] IN
           q.pc = "done" =>
               /\ \A a \in Attrs : q.sent[a] # Unsent /\ <<q.user, a>> \notin q.touched
                                      => ssoAttr[q.user][a] = q.sent[a]
               /\ \A g \in ClaimedGroups(s) :
                     Target(g).group \in Groups \ q.noGroup =>
                         \A m \in Granted(q.user, g) : m[3] \in Roles \ q.noRole =>
                             m \in q.touched \/ m \in memberships
=============================================================================
