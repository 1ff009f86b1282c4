# CloudBolt content samples: verification

The repository is a library of scripts that CloudBolt, a cloud management
platform, runs on its own behalf: approval hooks, recurring jobs, blueprint build
and teardown scripts, and web extensions (XUIs).  Each script is short; what is
hard is what happens between them.  They run in different workers with no lock,
share rows of CloudBolt's database, and act on remote systems (ServiceNow, GitHub,
GitLab, Azure, Jenkins, Terraform, ...) that answer late, twice, or not at all.

This directory holds TLA+ models of the scripts, the TLC configurations that check
them, and TLAPS proofs of the main results.  Platform functions (`Order.approve()`,
the job engine, Django's ORM) and remote services are not in the repository; they
are modelled from how the scripts use them and named as external in `PROJECT.json`.

## 1. Inventory

Every script runs inside a CloudBolt worker: a hook point, a job, a recurring job
or a web request.  What it keeps lives in CloudBolt's database or in a remote
system; between two writes or two calls another worker may act on the same rows.

| component | state it touches | operations | what is hard |
|---|---|---|---|
| **ServiceNow order approval** `src/service_now/` | `Order.status`, `sys_id` field values, `Job` rows; the request in ServiceNow | submit hook, recurring poller, close hook | snapshots gone stale, overlapping runs, a worker dying between saves, lost answers |
| **Auto-approval** `cloudbolt_content/orchestration-actions/auto_approve...` | the order's elements | one hook | locals that survive an iteration |
| **Git export** `src/xui/git_management/` | a branch in GitHub or GitLab, the content in CloudBolt | export request: export to a directory, list, build a tree or a list of actions, commit, move the branch | several API calls per export while others push |
| **Terraform plan hooks** `src/terraform/tf_*.py` | `Server` rows, state files, the machines of the provider | pre/post provision, pre/post destroy | plans of one resource side by side, reruns, synchronization recording the same machines |
| **Git configurations** `git_management/` | two JSON objects per user, each the value of a custom field | show, save, edit, delete | read-modify-write of the whole object by overlapping requests |
| **ARM templates, AKS cluster** `blueprints/arm_*`, `blueprints/aks_cluster` | a deployment in Azure, ids on the resource, `Server` rows | deploy, record; delete in passes | deployments that fail half way, deletes that depend on each other, reruns |
| **Azure EA subscription** `blueprints/azure_ea_subscription` | an alias and a subscription in Azure, field values | form, create, poll, save, wait, add the owner | nothing is stored until the poll succeeds |
| **AWS MySQL** `cloudbolt_content/blueprints/aws_mysql` | an RDS instance, field values | create, discover, refresh, stop, start, delete | several resources that mean one instance |
| **Azure MySQL, S3, CloudFormation, Lambda** | one object each, field values | build, teardown | what is saved before, and what after, the object is made |
| **Ansible Automation and Tower, templates** `blueprints/ansible_automation`, server action, `ansible/` | a job in the controller, field values | launch, poll, gather facts, write | pages of events, final statuses the loop does not know |
| **Ansible Automation, configurations** `actions/*ansible_automation_configurations*` | hosts in the inventory, jobs | five actions: add hosts, launch, wait in rounds | jobs on several servers and managers |
| **vRA migration** `blueprints/vra_migration` | groups, resources, `Server` rows | projects; list deployments by pages, take over | vRA changes meanwhile, reruns |
| **NSX-T segment** `ui-extension-packages/nsxt/.../nsx_t_network_segment` | a segment, a port group, a CloudBolt network, groups | build, change groups, teardown | servers ordered on the network meanwhile |
| **NSX-T groups, firewall policies** `.../nsx_t_group`, `.../nsx_t_distributed_firewall_*` | groups and rules in NSX-T, field values | build, change members, teardown | recorded before accepted; two resources of one id |
| **Expired servers, automatic power control** `leases/`, `recurring-jobs/auto_power_control_resources` | power and status of servers, decommission jobs | two recurring jobs | a pool of threads; on and off in one hour; an exception in the loop |
| **OneFuse** `terraform/naming_*`, `actions/onefuse_*` | names, addresses, DNS records, computers in OneFuse; field values | ask one by one; give back | a crash between answer and record, reruns |
| **User updates from SSO** `orchestration_actions/user_update_from_sso` | users, profiles, memberships | a hook at sign-in | the whole user is saved; sign-ins overlap |
| Jenkins webhook job, Terraform delete steps, discoveries, server actions, option scripts, wrappers, patch kits | see `PROJECT.json` | | |

How they meet: the approval hooks and the auto-approval hook decide the same
orders; what an order is approved for is a blueprint whose build items are the
Terraform, Azure, Ansible, Jenkins and OneFuse scripts, run one after the other by
the job engine and undone by their teardown scripts; the Git export writes those
scripts and blueprints to a repository.  `Server` rows are shared between the build
scripts, the synchronization of resource handlers, leases and power control.

The components in bold are modelled; `PROJECT.json` lists the source files of all of
them, why the others are not modelled, and under `hazards` where each of them
can go wrong and the property that would catch it.

## 2. Plan

| step | modules | abstract specification | theorems |
|---|---|---|---|
| done | `OrderApproval`, `AutoApprove` | `OrderLifecycle` | authority, jobs once, no conflicting decisions, jobs bounded, closed requests true, none half launched, lifecycle refinement, preconfigured decisions |
| done | `GitHubExport`, `GitLabExport` | `ContentPublication` | nothing lost, own directory, promise kept, publication refinement |
| done | `TerraformServers` | | created once, all recorded, HISTORICAL only if gone |
| done | `ArmDeployment`, `AzureSubscription`, `AwsDatabase`, `CloudObjects`, `OneFuseNaming`: blueprints that make remote objects | | what each promises |
| done | `AnsibleTemplate`, `AnsibleConfigurations`: actions on what was made | | facts complete, configurations apart |
| done | `NsxSegment`, `NsxGroups`, `VraMigration`, `ServerPower`, `GitConfigs`, `SsoSignIn`: shared rows | | what each promises |
| done | `CloudJobs`: all of these side by side | | types of all components |

What is left to do: weaker premises where a theorem has one that the code does not
always meet (`Serial`, `Alone`), by an abstract specification that also has the rival's steps.

The job models share nothing with each other, so one run, `cloud_jobs`, holds an
instance of each; the runs are for questions and not for scripts.  Modules hold no
`RECURSIVE` operator, so that each can be proved about; lists are selected from with
`Selected` (module `Selection`), a recursive function, which the proofs can expand.

## 3. Order approval

### ServiceNow approval (`OrderApproval`)

Three scripts share the order table and a ServiceNow instance.

* `create_service_request.py`, a hook that runs when an order is submitted, opens a
  service request and stores its `sys_id` on the order's items, one item at a time.
  If ServiceNow approves in its answer, the hook approves the order itself.
* `approve_from_servicenow.py`, a recurring job (the *poller*), takes a snapshot of
  the PENDING orders whose items have a `sys_id`, asks ServiceNow for each verdict
  and saves it: ACTIVE and then one job after another, DENIED, or CANCELED.
* `close_request.py`, a hook that runs after an order, reports its final status.

Every database write and every HTTP call is a step of its own.

| state | code |
|---|---|
| `status`, `approvedBy` | `Order.status`, `Order.approved_by` as saved |
| `hasSysId` | the `snow_order_submit_sys_id` custom field values |
| `jobs` | `Job` rows saved for an order item |
| `approval`, `verdicts`, `reqState` | the `sc_request` in ServiceNow; `verdicts` is a history |
| `closeDue` | the post-order hook is due to report this status |
| `pc`, `queue`, `cur`, `found`, `todo` | a worker: where it is, its snapshot, the order object it holds, the verdict it read, the jobs it has yet to save |
| `approvals`, `repends` | histories |

The workers are the submit hooks (one per order) and `Pollers`, concurrent
executions of the recurring job.  `Env` says what the environment may do in an
instance: an administrator decides orders, ServiceNow approves at once, revises a
verdict or deletes a request, calls fail, hooks fail or return an order to PENDING,
workers crash.  The lazy query set of blueprint orders is evaluated after the list
of server modification orders, hence two actions for the snapshot.

`OrderLifecycle` is the abstract specification: an order is decided once each time
it is PENDING, no job exists before a positive decision, no item gets more jobs
than it asks for, refused and completed orders keep their status.

Left out: the description and rate texts, `get_sysid_for_users`' two lookups (one
step that may fail), `add_event`, the association of jobs with servers.

### Auto-approval (`AutoApprove`)

The hook walks the elements of an order in the loop's order and keeps `cpu_cnt` and
`mem_gb` as locals that are bound by the first element with a value and never reset.
The model keeps exactly that: `bound` is what the locals hold, `next` the element the
loop is at, `exceeded` the flags.  `Bind` is the two lookups (preconfiguration, then
parameter, then whatever the local held).  `Init` takes every order of `N` elements, so
the run is exhaustive over inputs.  An order whose elements bring their own values is
judged correctly (`PreconfiguredDecision`, proved for every N); the documented claim
without that premise (`ApprovedOnlyBelow`) is refuted.

## 4. Git export

Both models have the same outline: the content in CloudBolt (`local`) is edited while
requests (`Sessions`) export it, one content after the other; each call to the API
is a step; others push to the branch (`"push"`), and calls fail (`"down"`).
`ContentPublication` is what an export promises: the whole directory of one content is
replaced in one step by what it was when it was exported, or nothing happens.

* **GitHub** (`GitHubExport`): `GetBranchSha`, `ListDirectory` (the contents of the
  parent directory, then the tree), `CreateCommit` (tree and commit on top of the sha
  read first), `UpdateBranchRef` (a fast-forward, refused if the branch has moved).
  Commits are model values with a `tree` and a `history`.  Because the update must be a
  fast-forward, whatever was listed is still true when it lands - but only if what was
  listed was on that branch: `get_tree_sha_from_path` names no ref, so it reads the
  default branch.  `Branch = Default` is the premise of the refinement, and the run
  `github_stale_listing` shows what happens without it.
* **GitLab** (`GitLabExport`): a GET per file decides create or update (`CheckFile`), one
  page of the tree decides the deletions (`SetDeletedFiles`), one POST commits, and GitLab
  accepts it only if each action fits the branch (`Acceptable`).  Nothing ties the commit
  to the state that was looked at, so with others at work the refinement fails: a file
  added after the listing survives.  What does hold then is `CommitKeepsPromise`; the
  refinement and the progress property hold for a request that has the branch for
  itself and a directory that fits a page (`gitlab_alone`).

What the code does and no run reports: the first export of a content to GitHub gets a 404
for the parent directory unless it exists (`ListDirectoryFails`); GitLab's tree listing
reads the first page only, so in a larger directory deleted files stay.

## 5. Terraform plan hooks (`TerraformServers`)

A resource has several plans, each with a state file; the engine runs their jobs side
by side.  Deploying: `GetStateFile`, `SaveStateFile` (pre_provision), `RenderInputs`,
`Apply` (Terraform itself, external), then post_provision: `ParseStateFile`, and for each
machine `GetServer`, `CreateServer` and `MarkServer` or only `GetServer`, then `ImportServer`; at
the end `FinishDeploy`.  Deleting: `PreDestroy`, `Destroy` (external), and `SetHistorical` for
each server of the resource.  A plan that failed is run again, whatever it left.

| state | code |
|---|---|
| `made`, `cloud`, `tfState` | what each plan's applies created (a history), what exists, the machines in the state file |
| `stateFile` | the state file row, with or without a file |
| `server` | `Server` rows: machine, `owned` (resource, group, owner set), environment, handler, `created_by_terraform`, who made it |
| `jobServers`, `outputs`, `status` | `blueprint_job.server_set`, written outputs, how the plan's last job ended |
| `pc`, `queue`, `cur`, `rec`, `environment`, `recorded`, `check` | the locals of a running hook |

`Env` may kill a job at any step, fail the rendering of inputs, the lookup of an
environment or the writing of outputs, delete machines behind Terraform's back and let
the synchronization record a machine first.  A machine that was never created by a plan
of the resource is outside the model.

What the model shows beyond its properties: a record that died between `CreateServer` and
`MarkServer` has no `created_by_terraform` value, and every later delete of the resource
fails on it (`NotMarked`); the environment of the previous machine is kept for a machine
that brings none (`EnvironmentFor`); a state file row without a file fails every later
deployment of the plan (`GetStateFile`, last disjunct).  Three more defects are visible in
the code and outside the model: the AWS lookup returns two values where three are
unpacked, a `SyntaxError` of `ast.literal_eval` is not caught, and state files of format
version 3 have no `mode`, so that none of their machines is recorded.

## 6. Blueprint jobs, actions, recurring jobs and hooks

Each of these modules is one component with its environment: what is remote (Azure,
RDS, NSX-T, vRA, OneFuse, an Ansible controller) is a few variables that only change as
the calls in the scripts need it, and a call that raises may have had its effect.  A
script is a control point (`armPc`, `eaPc`, `objPc`, ...), one action per call or save,
and a `...Fails` action where an exception leaves it.  A failed job is run again, from
its beginning, when CloudBolt would allow it.

| module | state and code | what it promises |
|---|---|---|
| `ArmDeployment` | `azure` what exists; `outputs`, `recordedIds` the loop over `outputResources`; `ids`, `at`, `attempts`, `failedIds` the teardown's passes; what no `except` clause of the loop catches ends the run where it is (`TeardownRaises`), and it is run again.  One build order per blueprint (`OrderCluster`, `OrderBuilder`, `OrderGitLab`). | `TeardownLeavesNothing`, `TwoPassesSuffice` |
| `AzureSubscription` | the form's dropdowns (`HandlerOptions` .. `FillForm`), the alias and its subscription, `metadata` on the resource, `tries` of the two waits, `ownerRole`, `roleAnswer`; a 404 is an answer and no exception. | `SuccessIsTrue` |
| `AwsDatabase` | `rds` per identifier, `dbRecord` per resource; several resources may name one identifier; `builders`, `deleters` are histories. | `RefusedOrderDeletesNothing` |
| `CloudObjects` | `cloud` who made the object of a name, `namedOn` whose resource names it; builds that save first (Azure, S3) and last (stack, function); `lost` whose job ended between the making and the end of the save. | `NothingForgotten` |
| `AnsibleTemplate` | the job's status, `events` in pages, `gathered` and `written` facts; three scripts that treat a failed job and a failed write differently, one of which may find nothing to run (`NamingSkipped`). | `FactsComplete` |
| `AnsibleConfigurations` | `rounds`: which configurations are launched on which servers before the script waits; the five actions differ in that and in what a failure means. | `OneConfigurationAtATime` |
| `VraMigration` | `vraList`, `vraAttr` vRA, `records` and `partOf` CloudBolt, `skip`, `listed`, `loaded` the script; `changed` what changed or slipped since the run began. | `MigratedAgrees` |
| `NsxSegment` | segment, port group, network, the fields of the resource, `groupIds`; `nic` servers on the network; `slipped` those that were not ACTIVE when a teardown looked, `misread` that it could not read the network. | `ActiveServersConnected` |
| `NsxGroups` | `nsxGroups` in NSX-T, `members` on the resource, `change` the jobs that change members, which overlap each other and the teardown; `unsure` the ids on which a call failed or jobs overlapped; policy and rules. | `NsxAsRecorded` |
| `ServerPower` | the sets to power on and off, one task per resource and `Workers` threads; the lease job's loop; decommission jobs. | `ScheduledPower` |
| `GitConfigs` | `cfvs` the field values, `req` each request with what it has read; `overlapped` whose own requests overlapped. | `OwnEntriesKept` |
| `OneFuseNaming` | `oneFuse` the objects, `fields` what is recorded; histories of unanswered requests, replaced records, refused deletions. | `LeftInOneFuse` |
| `SsoSignIn` | attributes, LDAP, memberships; a sign-in is a refresh, a save of the whole user, the LDAP, a step per claimed group and per role of it; groups and roles come and go. | `SignedInAsClaimed` |

`CloudJobs` instantiates them all, with `AutoApprove`, in one specification: `component` is
chosen in the initial state and only that one takes steps (`Only`), so the state
space is the sum of the components' and not their product.  Nothing is lost, for they
share no variable in the code either.  What an instance is of (templates, orders, names,
users, bounds) are constants of `CloudJobs`, with named assumptions that say what the
proofs need of them; `MCCloudJobs` holds the values that the run gives them, and TLC
evaluates the assumptions for those.  `Selection` has the one list operator that several
scripts' loops are.  For `AutoApprove` the run takes every order of
two elements (an order that is no blueprint order is left at once, so its elements do
not matter).

Several of the properties except a case by a history variable, and each exception
is something the code really does wrong or cannot know: an answer that was lost
(`lost`, `unanswered`, `unsure`, `roleAnswer`), a deletion taken for done (`refusedOnce`), a network that
could not be read (`misread`), a server that was
being provisioned (`slipped`), what changed or was missing while the script ran (`changed`,
`touched`, `noGroup`, `noRole`), two requests of one user at a time (`overlapped`).  The property says that
there are no other ways.

What else the models show, and no run reports:

* A GitLab teardown asks the VM for its disks; if it fails after the VM is gone, a second
  run does not find them, so `TeardownLeavesNothing` is about the other two blueprints
  (`arm_template_from_gitlab/delete.py:86`).
* A deployment that raises leaves what Azure made so far unrecorded, and the teardown of
  such a resource reports success (`aks_cluster/.../build.py:417`).
* A build of a stack or of a function that ends between the call that makes it and the save
  (the assertion on the function's name is one way) leaves an object that no teardown
  finds (`aws_lambda/.../Create AWS lambda Script.py:151`).
* The teardown of an NSX group does not ask whether its members are being changed: the change
  then patches a later group that got the same id (`change_members.py:61`).
* A sign-in saves the whole user, so it undoes an edit, made since the user was read, of an
  attribute that was not sent (`user_update_from_sso_azure_ad_new.py:98`).
* Any exception of the lookup of the network counts as "already deleted", and the segment is
  then deleted without counting servers (`teardown_segment.py:37`).
* The build of the configurations waits with the config manager of the last tier for the
  jobs of all tiers (`apply_ansible_automation_configurations_build.py:70`); hence `Asked`.
* A deployment that is renamed in vRA gets a second resource at the next run, and its parts
  move to that (`vra8_ingest.py:321`); listing by offset skips deployments when others are
  deleted (`vra8_connection.py:125`).
* An S3 bucket whose name was taken stays named on the resource, and the teardown empties
  and deletes somebody else's (`NothingForgotten` only asks the converse).
* The teardown of a firewall rule leaves an argument out and always raises
  (`teardown_nsxt_dfw_rule.py:20`); a rule's destinations are recorded from its sources
  (`build_nsxt_dfw_rule.py:109`); `apply_nsxt_security_tags.py` imports functions its
  library does not define.
* The OneFuse teardown deletes DNS and AD records under each other's fields and stops at the
  first that is not there (`onefuse_as_a_service_teardown.py:41`).
* The naming script's `run` handles only the first of its template ids; a job template
  has no deadline (`ansible_automation.py:309`).
* The lease job's e-mail uses names that are never bound, so the first server with an owner
  ends the run (`power_off_and_delete_expired_servers.py:141`, `EmailOwnerRaises`).
* Memberships are never removed at sign-in, although the docstring speaks of setting the
  user's groups.
* Two first requests of one user may leave two field values, after which every request
  raises (`git_management/utilities.py:143`); `OwnEntriesKept` shows that others cannot
  cause it.

## 7. What the runs check

| run | instance | what it shows |
|---|---|---|
| `approval_serial` | a blueprint order of quantity 0, an order of two modifications (no quantity, 2); one poller that may die; requests deleted, revised, unanswered; hooks that fail or return the order once | types, no job twice, the close hook reports the order's final status, the scripts implement `OrderLifecycle` |
| `approval_live` | the same without crashes and deletions, under fairness | verdicts reach the orders, a launch finishes, an ACTIVE order is launched or somebody is at it |
| `approval_any` | a blueprint order and one the hook does not handle, two pollers that overlap, an administrator, requests approved at once or revised, an order returned once | a decision made for ServiceNow is one ServiceNow gave; executions do not contradict each other; jobs are bounded by approvals |
| `approval_stale` | one administrator, one poller | *violation*: a decided order is decided again from a stale snapshot |
| `approval_poison` | requests may be deleted | *violation*: one deleted request keeps approved orders PENDING for ever |
| `cloud_jobs` | all orders of two elements, two resources, sizes 1 and 2, limit 2; one instance of each component of `CloudJobs` | the auto-approval is right where no element inherits a value; what a build, teardown or action reports and records is what there is; what is promised where jobs, users or sign-ins meet at the same rows |
| `auto_approve_inherited` | the orders of two elements | *violation*: a server is judged by the sizes of another |
| `github_default` | two requests for one content, pushes, failing calls, three commits, two directories of two paths | nothing lost, own directory only, implements `ContentPublication` |
| `github_stale_listing` | a branch that is not the default branch | *violation*: deleted files stay |
| `gitlab_shared` | two requests, pushes, failing calls, two versions | an accepted commit keeps its promise |
| `gitlab_alone` | one request of one or two contents | implements `ContentPublication`, exports land |
| `terraform` | two plans, two machines (one importable), three records, all faults | one server per machine, all recorded when done, HISTORICAL only if gone, and if deleted |

**Bounds.**  Every property is about one order, directory or machine and at most two
actors that meet there; the instances have two of each actor that can interfere and a
second object that must stay untouched.  `MaxRepends` bounds how often hooks return an
order to PENDING; one is enough to have every action run on an order that has been
decided before.  `Commits` bounds what is ever committed: three are a root, a request's
and a rival's.  In `gitlab_*` the page holds both paths, which is the premise of the
refinement.  `Ids` exceeds `VMs` by one so that a second record of a machine is possible.
`N = 2` is the smallest order in which a value can be inherited.
In `cloud_jobs`: a VM with a disk, an interface, a network and an extension is the
deepest chain of uses the templates make; two orders of one name (database) are
what it takes to meet; pages of one deployment, and of one or two facts, have
a last page and one before it; two names, so that a deployment can be renamed; two tiers
with different config managers, one of two
servers; deadlines of one or two polls, so that a wait may end before, at and after
what it waits for (`PollMax`, `CheckMax`, `WaitMax`); one change in vRA (`ChangesMax`).
Further: two group resources of one id and one of another, with one change of
members, which can overlap the teardown of its group and the build of the next one of
that id (two changes that overlap are left to the proof, they make the state space too
large); two servers and one update on a segment; as many threads as resources; two builds
of one resource (`BuildMax`); three requests of two users; two sign-ins of one user, each
of whose two attributes may be sent, be empty or not be sent, a claim of a group that
does not exist and of one that is mapped to two roles of which one does not exist, and one edit by
an administrator (`EditMax`).  Where it is sound
(pollers, requests, commits but the root, plans, ids) symmetry is used, never in a run
with a liveness property.

`approval_any` has no crash: a poller without fairness may stop for good at any step,
which is a crash of that execution; restarts are in `approval_serial`.

**Fairness.**  `approval_live` assumes that hooks and executions go on (CloudBolt's job
engine runs them until they end; no crash is in `Env`), and strong fairness of a successful
lookup, that is a ServiceNow that answers again and again.  `gitlab_alone` assumes that a web
worker that handles a request goes on with it.  No fairness is assumed of users,
administrators, pushes or failures.

**Deadlock** is checked except for the runs of the jobs (jobs and hooks end: `cloud_jobs`) and `terraform` (all
plans may be deleted for good).

## 8. What is proved

Every safety invariant, action property and refinement of a passing run is a theorem,
for every value of the constants that satisfies the named assumption.

| theorem | assumption | argument |
|---|---|---|
| `OrderApproval_proofs!TypeCorrect` | `ConstantsAssumption` | inductive; a busy worker holds an order |
| `OrderApproval_proofs!Authority` | `ConstantsAssumption` | `AuthorityInv`: what a worker has `found`, and what is stored for the service-now user, is among the request's `verdicts`, which only grow |
| `OrderApproval_proofs!DecisionsDoNotConflict` | `ConstantsAssumption` | `DecisionInv`: a DENIED order has a rejection or a decision of the platform among its verdicts, a CANCELED one a cancellation, and a launched one an approval or a decision of the platform |
| `OrderApproval_proofs!JobsBounded` | `ConstantsAssumption` | `AccountInv`, below |
| `OrderApproval_serial_proofs!JobsSavedOnce`, `LifecycleImplemented` | and `Serial`: one poller, no administrator, no approval at creation, orders a hook may return have approvers | `SerialInv`: a hook that still is at work has stored nothing the poller could find (`HookInv`), the snapshot and the verdict read are about orders that still are PENDING (`PollInv`), jobs saved and jobs still to save are together no more than an item asks for (`JobsInv`) |
| `OrderApproval_serial_proofs!ClosedStaysTrue` | and `Serial` | `CloseInv`: what is still to be reported (`closeDue`) is the status the order has, and no step of the lifecycle leaves a status that a request is closed with |
| `OrderApproval_serial_proofs!NoneHalfLaunched` | and `Serial`, no crash | `LaunchedOrOwned` itself is inductive beside `SerialInv` and `AuthorityInv`: the worker that saved ACTIVE owns the order (`Owns`) until it has saved its last job |
| `AutoApprove_proofs!PreconfiguredApproval`, `PresetExcess` | `AutoApproveAssumption` | `LoopInv` relates the locals to the elements walked so far, `OutcomeInv` the outcome to the flags |
| `GitHubExport_proofs!TypeCorrect`, `NothingIsLost`, `OwnDirectory` | `GitHubAssumption` | `ExportInv`: ancestry is a partial order (`Ancestry`), what a session has read of the branch is an ancestor of it (`BaseInv`), its commit is built on that and known to nobody else (`CommitInv`) |
| `GitHubExport_proofs!PublicationImplemented` | and `Branch = Default` | `ListingInv`: what a session listed is the directory of the sha it read, unless the branch has moved away for good, and then the update is refused |
| `GitLabExport_proofs!TypeCorrect`, `PromiseKept` | `GitLabAssumption` | `ActionsInv`: each exported file has an action when the commit is posted, and deletions are of other files |
| `GitLabExport_proofs!PublicationAlone` | and `Alone`: one request, nobody else, no failing call, a directory that fits a page | `FoundInv`: what was looked at is still what is there |
| `TerraformServers_proofs`: `TypeCorrect`, `CreatedAtMostOnce`, `AllRecorded`, `HistoricalOnlyIfGone`, `DeletedLeavesHistorical` | `TerraformAssumption` | `ServersInv`, see below |

The modules of section 6, all about `JobsSpec`, the specification of `CloudJobs`:

| theorem | assumption | argument |
|---|---|---|
| `CloudJobs_resources_proofs!ObjectsFound` | `ObjectsAssumption`: kinds and names are of those types; names may be equal | `ObjectsInv`: what a job's control point tells of the object and of the fields of its resource, and whose job was `lost` |
| `...!RefusedDeletesNothing` | `DatabaseAssumption` | `DatabaseInv`: only an import or the resource of a build that made an instance has a record, and only those delete |
| `...!SubscriptionAsOrdered` | `SubscriptionAssumption`: deadlines are numbers, users finite | `SubscriptionInv`: what the control point tells of alias, fields and owner, and what Azure answered to the assignment |
| `...!FactsWritten` | `TemplateAssumption`: a job has a page of events, perhaps an empty one | `TemplateInv`: what is gathered is on the pages up to the present one; nothing ran when there was nothing to run |
| `...!OnlyKnownLeftovers` | `OneFuseAssumption` | `OneFuseInv`: an object is recorded or one of the three known leftovers, and a teardown has given back the recorded ones it has passed |
| `...!ConfigurationsApart` | `ConfigurationsAssumption` | `RoundInv`: a round of the build and of the teardown is of one configuration, and what runs without having been waited for is of the round at hand |
| `...!OwnEntriesFound` | `GitAssumption`: a user's name is no token, so objects of different users differ | `GitInv`: a field value names no user but its own (`GitNamed`); what a request has read is what there is, unless another one of its user overlaps (`GitHeld`, `GitKept`) |
| `...!TornDownCompletely` | `ArmAssumption`: disks are no VMs, children have parents that are created and no children themselves | `ArmInv`: after a build that succeeded all is recorded; the teardown's list has all parents, and what it has passed is gone or has failed |
| `...!TwoPassesAreEnough` | and `ArmDepthAssumption`: uses are no deeper than a VM, its interface, the network | `ArmTwoPasses`, below |
| `...!MigratedAsInVra` | `VraAssumption`: a part is of one deployment | `VraInv`: a deployment that did not change is still to be listed, is listed, or is migrated (`VraToCome`); the one at hand is partly so (`VraInHand`) |
| `CloudJobs_shared_proofs!ServersStayConnected` | `SegmentAssumption` | `SegmentInv`: a recorded network hangs on its segment until the teardown deletes it, which it does when no server but a `slipped` one is there, or it has `misread` the network |
| `...!MembersAsRecorded` | `NsxAssumption` | `HeldInv`, `PolicyInv`: of an id that is not `unsure`, what the one job on it has still to do is what differs; a group that is torn down under a change is `unsure` |
| `...!SignInsAsClaimed` | `SsoAssumption` | `SsoInv`: what a sign-in has passed is as claimed, was touched since it began, or its group or role was missing; what is left of the group at hand is in `left` |
| `...!PoweredAsScheduled` | `PowerAssumption`: a server is of one resource | `PowerInv`: a server has the scheduled power, is noted as failed, or a task has it still to do |
| `...!TypesCorrect` | all of these | from the invariants above, with `ArmSorts`, `PowerSorts` and `ConfigurationsSorts` for what they do not say |

Two of the arguments need more than a case per action.  Azure gives ids in any order, and a
pass deletes what nothing uses any more: a first pass without
a failing call deletes what only VMs use (`ArmSecond`), so that the second can delete the rest;
`ArmTwoPasses` says that of what each pass has come to.  What `Gathered`, `Selected` and the like compute is
proved by the least length for which it would be wrong (`Least`), for the library's
induction theorems cannot be instantiated.  `JobsBounded` counts: the jobs saved for an item
are as many as a set of pairs of an approval and a number up to `JobsFor` has elements, and
the pairs of the jobs that a worker has still to save are not in that set.

None of the properties is inductive by itself.  For `TerraformServers`, `ServersInv` says in addition that plans
create disjoint sets of machines and a state file has all of its machines that still
exist (`MadeInv`), that nothing is deployed while the resource is deleted (`ModeInv`), and for
each plan what the machine and the record at hand are (`CurInv`), that the machines the loop
is through with are recorded (`ProgressInv`), and which servers `post_destroy` has left
(`DeletedInv`).  A step of one plan changes records of its own machines only (`Grows`), which
is why the other plans' parts survive it.

Only model-checked: the liveness properties (`VerdictApplied`, `LaunchFinishes`,
`ExportLands`), which need fairness and `ENABLED`, out of the provers' reach.  Not proved
because they are wrong: the properties of the four runs that end in a violation.

## 9. Findings

A run ends in each of the first four; the last two are cases that a property of `cloud_jobs`
excepts, as its comment says.

* The poller saves the order object of its snapshot (`approve_from_servicenow.py:173`), so it
  overwrites what an administrator or another execution decided since (`approval_stale`).
* A request deleted in ServiceNow raises a `KeyError` that ends every run before the later
  orders are looked at (`approve_from_servicenow.py:118`, `approval_poison`).
* An element without sizes of its own is judged by another element's
  (auto-approval hook, line 44, `auto_approve_inherited`).
* The files to remove are looked up on the default branch
  (`git_management/utilities.py:654`, `github_stale_listing`).
* A 404 is returned, not raised, by `azure_api_call`, and `add_subscription_owner` does not look:
  SUCCESS without an owner (`azure_subscription_helpers.py:296`).  `SuccessIsTrue` excepts it.
* The teardown of a segment counts ACTIVE servers only, and deletes the network of those that
  are being provisioned (`teardown_segment.py:42`).  `ActiveServersConnected` excepts them.

## 10. Not modelled

`PROJECT.json` gives the reason for each component: scripts that compute a list for
a form, wrappers of one call, rendering, configuration of the extensions, patches of
platform classes that are not in the repository, discoveries that only return a list,
and code that is in the repository only as an archive.  Within the modelled components:
texts and rates of requests, progress messages, events, credentials, the parameters of a
template, and the copies of a program under another directory (the poller under
`cloudbolt_content/recurring-jobs`, the Ansible scripts of `aci_network`, OneFuse naming
under `onefuse_content`).
