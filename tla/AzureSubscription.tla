-------------------------- MODULE AzureSubscription --------------------------
(***************************************************************************)
(* The blueprint that creates an Azure subscription billed to an           *)
(* enrollment account: the order form with its dependent dropdowns, the    *)
(* alias that Azure provisions in its own time, the metadata that lets a   *)
(* teardown find the subscription, the wait for an active state, and the   *)
(* role assignment for the owner.  Any call may fail, and one that fails   *)
(* may have had its effect.                                                *)
(*                                                                         *)
(* Azure, its directory and the administrators of CloudBolt are not in the *)
(* sources.                                                                *)
(***************************************************************************)
EXTENDS Naturals, FiniteSets

CONSTANTS
    Handlers,        \* resource handlers of the technology Azure
    Accounts,        \* [Handlers -> EA billing accounts its principal sees]
    Enrollments,     \* [Handlers -> [billing accounts -> enrollment accounts]]
    Users, Guests,   \* users of the directory; those of userType Guest
    PollMax,         \* bound: POLL_MAX_ATTEMPTS is 30
    CheckMax,        \* bound: VALIDATION_MAX_ATTEMPTS is 24
    None

Fields == {"azure_subscription_id", "azure_subscription_name", "azure_subscription_tenant_id",
           "azure_subscription_rh_id", "azure_subscription_source_rh_id"}

VARIABLES
    groupHandlers,  \* handlers of the environments the group may use
    form,           \* what was ordered
    eaPc,           \* control point of the build
    alias,          \* "none", "creating", "Succeeded" or "Failed"
    subscription,   \* "none", "pending" or "active" (Enabled, Warned, PastDue)
    metadata,       \* the fields written to the resource
    seen,           \* sub_state: "none", "pending" or "active"
    tries,          \* attempts of the loop the build is in
    matches,        \* the users the directory found for owner_email
    ownerRole,      \* who was made Owner of the subscription
    roleAnswer,     \* answer to the PUT of the role: "none" so far, "assigned",
                    \* "notFound" (404) or "failed" (any other)
    warned,         \* owner_warning is set
    eaResult

azureVars == <<alias, subscription>>
ownerVars == <<matches, ownerRole, roleAnswer, warned>>
vars == <<groupHandlers, form, eaPc, azureVars, metadata, seen, tries, ownerVars,
          eaResult>>

NoForm == [handler |-> None, enrollment |-> None, owner |-> FALSE]

TypeOK ==
    /\ groupHandlers \subseteq Handlers
    /\ form = NoForm \/ (form.handler \in Handlers /\ form.owner \in BOOLEAN)
    /\ eaPc \in {"form", "run", "alias", "poll", "save", "check", "owner", "done"}
    /\ alias \in {"none", "creating", "Succeeded", "Failed"}
    /\ subscription \in {"none", "pending", "active"}
    /\ metadata \subseteq Fields
    /\ seen \in {"none", "pending", "active"}
    /\ tries \in 0 .. PollMax + CheckMax
    /\ matches \subseteq Users
    /\ ownerRole \in Users \cup {None}
    /\ roleAnswer \in {"none", "assigned", "notFound", "failed"}
    /\ warned \in BOOLEAN
    /\ eaResult \in {"none", "SUCCESS", "WARNING", "FAILURE"}

Init == /\ groupHandlers = Handlers /\ form = NoForm /\ eaPc = "form"
        /\ alias = "none" /\ subscription = "none"
        /\ metadata = {} /\ seen = "none" /\ tries = 0
        /\ matches = {} /\ ownerRole = None /\ roleAnswer = "none" /\ warned = FALSE
        /\ eaResult = "none"

End(result) == eaPc' = "done" /\ eaResult' = result
Goto(point) == eaPc' = point /\ UNCHANGED eaResult

-----------------------------------------------------------------------------
(* Azure and the administrators. *)

Provision ==
    /\ alias = "creating"
    /\ \/ alias' = "Succeeded" /\ subscription' \in {"pending", "active"}
       \/ alias' = "Failed" /\ UNCHANGED subscription
    /\ UNCHANGED <<groupHandlers, form, eaPc, metadata, seen, tries, ownerVars, eaResult>>

Activate ==
    /\ subscription = "pending" /\ subscription' = "active"
    /\ UNCHANGED <<groupHandlers, form, eaPc, alias, metadata, seen, tries, ownerVars, eaResult>>

\* The group loses the environments of a handler.
LoseAccess(h) ==
    /\ groupHandlers' = groupHandlers \ {h}
    /\ UNCHANGED <<form, eaPc, azureVars, metadata, seen, tries, ownerVars, eaResult>>

-----------------------------------------------------------------------------
(* The order form: every dropdown depends on the ones before it. *)

\* _get_rh_by_id: a handler the group has no environment of is not found.
Resolve(h) == IF h \in groupHandlers THEN h ELSE None

HandlerOptions == groupHandlers
AccountOptions(h) == IF Resolve(h) = None THEN {} ELSE Accounts[h]
EnrollmentOptions(h, a) == IF Resolve(h) = None THEN {} ELSE Enrollments[h][a]

FillForm(owner) ==
    /\ eaPc = "form"
    /\ \E h \in HandlerOptions : \E a \in AccountOptions(h) :
          \E e \in EnrollmentOptions(h, a) :
              form' = [handler |-> h, enrollment |-> e, owner |-> owner]
    /\ Goto("run")
    /\ UNCHANGED <<groupHandlers, azureVars, metadata, seen, tries, ownerVars>>

-----------------------------------------------------------------------------
(* The build. *)

Validate ==
    /\ eaPc = "run"
    /\ IF Resolve(form.handler) = None THEN End("FAILURE") ELSE Goto("alias")
    /\ UNCHANGED <<groupHandlers, form, azureVars, metadata, seen, tries, ownerVars>>

\* The PUT of an alias with a new name; Azure may be done at once.  Answered
\* with 404, it counts as not ready.
CreateAlias ==
    /\ eaPc = "alias"
    /\ \/ alias' \in {"none", "creating"} /\ Goto("poll") /\ UNCHANGED subscription
       \/ alias' = "Succeeded" /\ subscription' \in {"pending", "active"} /\ Goto("save")
    /\ UNCHANGED <<groupHandlers, form, metadata, seen, tries, ownerVars>>

\* No token, a refused PUT, or one whose answer is lost.
AliasFails ==
    /\ eaPc = "alias"
    /\ alias' \in {"none", "creating"}
    /\ End("FAILURE")
    /\ UNCHANGED <<groupHandlers, form, subscription, metadata, seen, tries, ownerVars>>

\* One GET of the alias: an answer that is not final, and 404 at any time, are
\* asked for again, until the attempts are used up.
PollAlias ==
    /\ eaPc = "poll" /\ tries < PollMax
    /\ \/ alias = "Succeeded" /\ Goto("save") /\ tries' = 0
       \/ alias = "Failed" /\ End("FAILURE") /\ UNCHANGED tries
       \/ tries' = tries + 1 /\ UNCHANGED <<eaPc, eaResult>>
    /\ UNCHANGED <<groupHandlers, form, azureVars, metadata, seen, ownerVars>>

\* What raises while polling or once the metadata is saved (a call, a field, an
\* answer of the directory that is no JSON), or a job that dies, ends the build,
\* whatever becomes of the alias and whoever is Owner by now.
BuildFails ==
    /\ eaPc \in {"poll", "check", "owner"}
    /\ End("FAILURE")
    /\ UNCHANGED <<groupHandlers, form, azureVars, metadata, seen, tries, ownerVars>>

PollTimeout ==
    /\ eaPc = "poll" /\ tries = PollMax
    /\ End("WARNING")
    /\ UNCHANGED <<groupHandlers, form, azureVars, metadata, seen, tries, ownerVars>>

\* The metadata a teardown needs, field by field; an answer without an id, a
\* field that cannot be written or a job that dies ends the build.
SaveMetadata ==
    /\ eaPc = "save"
    /\ \/ metadata' = Fields /\ Goto("check")
       \/ metadata' \in SUBSET Fields /\ End("FAILURE")
    /\ UNCHANGED <<groupHandlers, form, azureVars, seen, tries, ownerVars>>

\* One look at the subscription: its state, 404 (none), or an error, which
\* leaves what the look before has seen.
CheckActive ==
    /\ eaPc = "check" /\ tries < CheckMax
    /\ seen' \in {subscription, "none", seen}
    /\ tries' = tries + 1
    /\ IF seen' = "active" THEN Goto("owner") ELSE UNCHANGED <<eaPc, eaResult>>
    /\ UNCHANGED <<groupHandlers, form, azureVars, metadata, ownerVars>>

CheckTimeout ==
    /\ eaPc = "check" /\ tries = CheckMax
    /\ Goto("owner")
    /\ UNCHANGED <<groupHandlers, form, azureVars, metadata, seen, tries, ownerVars>>

\* Bug: the first of several users is taken.
FindUserFirst(found) == IF found = {} THEN None ELSE CHOOSE u \in found : TRUE

\* get_user_object_id_by_email: the only match, unless it is a guest.
FindUser(found) ==
    IF Cardinality(found) = 1 /\ found \cap Guests = {}
    THEN CHOOSE u \in found : TRUE ELSE None

\* The owner's role: on a subscription that was seen active, for a user who
\* was found.  409 says that the user has it.  404 is no exception of the call,
\* so nobody is warned that there is no Owner; any other failure, with or
\* without effect, is a warning.
AssignOwner(found) ==
    /\ eaPc = "owner" /\ form.owner /\ roleAnswer = "none" /\ ~warned
    /\ IF seen = "active" /\ FindUser(found) # None
       THEN /\ matches' = found
            /\ \/ /\ roleAnswer' = "assigned" /\ ownerRole' = FindUser(found)
                  /\ UNCHANGED warned
               \/ roleAnswer' = "notFound" /\ UNCHANGED <<ownerRole, warned>>
               \/ /\ roleAnswer' = "failed" /\ ownerRole' \in {None, FindUser(found)}
                  /\ warned' = TRUE
       ELSE warned' = TRUE /\ UNCHANGED <<matches, ownerRole, roleAnswer>>
    /\ UNCHANGED <<groupHandlers, form, eaPc, azureVars, metadata, seen, tries, eaResult>>

Finish ==
    /\ eaPc = "owner"
    /\ form.owner => (warned \/ roleAnswer # "none")
    /\ End(IF warned \/ seen # "active" THEN "WARNING" ELSE "SUCCESS")
    /\ UNCHANGED <<groupHandlers, form, azureVars, metadata, seen, tries, ownerVars>>

-----------------------------------------------------------------------------
Next ==
    \/ Provision \/ Activate \/ \E h \in Handlers : LoseAccess(h)
    \/ \E owner \in BOOLEAN : FillForm(owner)
    \/ Validate \/ CreateAlias \/ AliasFails
    \/ PollAlias \/ BuildFails \/ PollTimeout \/ SaveMetadata
    \/ CheckActive \/ CheckTimeout
    \/ \E found \in SUBSET Users : AssignOwner(found)
    \/ Finish

Spec == Init /\ [][Next]_vars

-----------------------------------------------------------------------------
(* Properties. *)

\* A build that reports success has an active subscription that the resource
\* knows by all its fields, and if an owner was asked for, the one user of
\* that address, and no guest, is Owner - unless Azure answered 404 to that
\* assignment, which add_subscription_owner takes for done although nobody is
\* Owner then.
SuccessIsTrue ==
    eaResult = "SUCCESS" =>
        /\ subscription = "active"
        /\ metadata = Fields
        /\ form.owner => \E u \in Users \ Guests :
              matches = {u} /\ (ownerRole = u \/ roleAnswer = "notFound")
=============================================================================
