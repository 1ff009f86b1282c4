----------------------- MODULE AnsibleConfigurations -----------------------
(***************************************************************************)
(* The actions that apply configurations of the Ansible Automation         *)
(* Platform to servers: the build action for the tiers of a blueprint, the *)
(* teardown action for the server that goes, the action at the             *)
(* provisioning of a server, the server action, and the one for servers    *)
(* made by Terraform.  All go through apply_configurations_in_aap; they    *)
(* differ in what they launch before they wait (one configuration on all   *)
(* servers, or all configurations on one server) and in what a failure     *)
(* means.                                                                  *)
(*                                                                         *)
(* The platform and its config manager are not in the sources.             *)
(***************************************************************************)
EXTENDS Naturals, Sequences, Selection

CONSTANTS
    Apps,      \* sequence of the selected configurations, in database order
    Tiers,     \* sequence of tiers, each the sequence of its servers
    Manager,   \* [servers -> config manager of the server's environment]
    AppOf      \* [configurations -> config manager it is defined in]

VARIABLES
    aapAction,  \* "none", "build", "teardown", "provision", "day2", "terraform"
    rounds,     \* what is still to be launched: sequence of sequences of
                \* <<configuration, server>>, one for every wait
    aapPc,      \* control point of the action
    inventory,  \* servers that are hosts of the platform's inventory
    aapJobs,    \* all_aap_job_ids: what was launched since the last wait
    jobState,   \* [launched <<configuration, server>> -> state of its job]
    aapResult

vars == <<aapAction, rounds, aapPc, inventory, aapJobs, jobState, aapResult>>

Servers == DOMAIN Manager
Work == (DOMAIN AppOf) \X Servers

TypeOK == /\ aapAction \in {"none", "build", "teardown", "provision", "day2", "terraform"}
          /\ \A i \in DOMAIN rounds : \A j \in DOMAIN rounds[i] : rounds[i][j] \in Work
          /\ aapPc \in {"idle", "host", "launch", "wait", "done"}
          /\ inventory \subseteq Servers
          /\ aapJobs \subseteq Work
          /\ jobState \in [Work -> {"none", "running", "successful", "failed"}]
          /\ aapResult \in {"none", "SUCCESS", "FAILURE"}

Init == /\ aapAction = "none" /\ rounds = <<>> /\ aapPc = "idle"
        /\ inventory = {} /\ aapJobs = {}
        /\ jobState = [w \in Work |-> "none"]
        /\ aapResult = "none"

-----------------------------------------------------------------------------
AllServers ==
    LET concat[i \in 0 .. Len(Tiers)] == IF i = 0 THEN <<>> ELSE concat[i - 1] \o Tiers[i]
    IN  concat[Len(Tiers)]

\* What an environment's config manager knows is applied, the rest skipped.
Applicable(s) == Selected(Apps, {a \in DOMAIN AppOf : AppOf[a] = Manager[s]})
OnServers(a) == LET fitting == Selected(AllServers, {s \in Servers : AppOf[a] = Manager[s]})
                IN  [i \in DOMAIN fitting |-> <<a, fitting[i]>>]
OnServer(s) == [i \in DOMAIN Applicable(s) |-> <<Applicable(s)[i], s>>]

\* One configuration on the servers of all tiers, then the next one.
BuildRounds == [i \in DOMAIN Apps |-> OnServers(Apps[i])]
\* One configuration on the server, then the next one.
TeardownRounds(s) == [i \in DOMAIN Applicable(s) |-> <<<<Applicable(s)[i], s>>>>]
\* All configurations of a server, then the next server.
Day2Rounds == [i \in DOMAIN AllServers |-> OnServer(AllServers[i])]

Begin(action, work) ==
    /\ aapPc = "idle"
    /\ aapAction' = action /\ rounds' = work
    /\ aapPc' = "host" /\ aapResult' = "SUCCESS"
    /\ UNCHANGED <<inventory, aapJobs, jobState>>

BeginBuild == Begin("build", BuildRounds)

\* The server is turned on first; one of another blueprint is left alone.
BeginTeardown(s) == Begin("teardown", TeardownRounds(s)) \/ Begin("teardown", <<>>)

\* The server of a provisioning job, with the values of its own parameters.
BeginProvision(s) == Begin("provision", <<OnServer(s)>>)

BeginDay2 == Begin("day2", Day2Rounds)

\* The servers of all Terraform items of the order, one after the other.
BeginTerraform == Begin("terraform", Day2Rounds)

Round == rounds[1]
InRound(point) == aapPc = point /\ rounds # <<>> /\ Round # <<>>

\* A failure: the build and the teardown raise and the provisioning ends; the
\* server action notes it, waits for nothing of this server and goes on with
\* the next one, and so does the action for Terraform, which notes nothing.
Fails ==
    IF aapAction \in {"day2", "terraform"}
    THEN /\ rounds' = Tail(rounds) /\ aapJobs' = {}
         /\ aapPc' = "host"
         /\ aapResult' = IF aapAction = "day2" THEN "FAILURE" ELSE aapResult
    ELSE aapPc' = "done" /\ aapResult' = "FAILURE" /\ UNCHANGED <<rounds, aapJobs>>

\* The host is added, or is there already.
AddHost ==
    /\ InRound("host")
    /\ inventory' = inventory \cup {Round[1][2]}
    /\ aapPc' = "launch"
    /\ UNCHANGED <<aapAction, rounds, aapJobs, jobState, aapResult>>

\* Any other answer, or a host that was added and cannot be noted.
AddHostFails ==
    /\ InRound("host")
    /\ inventory' \in {inventory, inventory \cup {Round[1][2]}}
    /\ Fails
    /\ UNCHANGED <<aapAction, jobState>>

LaunchJob ==
    /\ InRound("launch")
    /\ jobState' = [jobState EXCEPT ![Round[1]] = "running"]
    /\ aapJobs' = aapJobs \cup {Round[1]}
    /\ rounds' = [rounds EXCEPT ![1] = Tail(Round)]
    /\ aapPc' = IF Len(Round) = 1 THEN "wait" ELSE "host"
    /\ UNCHANGED <<aapAction, inventory, aapResult>>

LaunchFails ==
    /\ InRound("launch") /\ Fails
    /\ UNCHANGED <<aapAction, inventory, jobState>>

\* A round without work launches nothing and waits for nothing.
EmptyRound ==
    /\ aapPc = "host" /\ rounds # <<>> /\ Round = <<>>
    /\ rounds' = Tail(rounds)
    /\ UNCHANGED <<aapAction, aapPc, inventory, aapJobs, jobState, aapResult>>

JobEnds(w) ==
    /\ jobState[w] = "running"
    /\ jobState' \in {[jobState EXCEPT ![w] = "successful"], [jobState EXCEPT ![w] = "failed"]}
    /\ UNCHANGED <<aapAction, rounds, aapPc, inventory, aapJobs, aapResult>>

\* Bug: the jobs of a round are not waited for.
WaitRoundNot ==
    /\ aapPc = "wait"
    /\ aapJobs' = {}
    /\ rounds' = Tail(rounds) /\ aapPc' = "host"
    /\ UNCHANGED <<aapAction, inventory, jobState, aapResult>>

\* The build asks the config manager of the last tier it looked at, which may
\* not know the jobs of another one's configuration.
LastManager == LET last == Tiers[Len(Tiers)] IN Manager[last[Len(last)]]
Asked(a) == aapAction = "build" => AppOf[a] = LastManager

\* The result of an action whose wait ended with `waited': the server action
\* keeps a failure, the one for Terraform does not look, for the others it is
\* the last wait that counts.
ResultAfter(waited) ==
    CASE aapAction = "terraform"                   -> aapResult
      [] aapAction = "day2" /\ waited = "SUCCESS" -> aapResult
      [] OTHER                                     -> waited

\* wait_for_completion_in_aap: all jobs of the round are over.
WaitRound ==
    /\ aapPc = "wait"
    /\ \A w \in aapJobs : Asked(w[1]) => jobState[w] # "running"
    /\ \E waited \in {"SUCCESS", "FAILURE"} :
          /\ (\A w \in aapJobs : Asked(w[1])) =>
                (waited = "FAILURE" <=> \E w \in aapJobs : jobState[w] = "failed")
          /\ aapResult' = ResultAfter(waited)
    /\ aapJobs' = {}
    /\ rounds' = Tail(rounds) /\ aapPc' = "host"
    /\ UNCHANGED <<aapAction, inventory, jobState>>

Done ==
    /\ aapPc = "host" /\ rounds = <<>>
    /\ aapPc' = "done"
    /\ UNCHANGED <<aapAction, rounds, inventory, aapJobs, jobState, aapResult>>

-----------------------------------------------------------------------------
Next ==
    \/ BeginBuild \/ BeginDay2 \/ BeginTerraform
    \/ \E s \in Servers : BeginTeardown(s) \/ BeginProvision(s)
    \/ AddHost \/ AddHostFails \/ LaunchJob \/ LaunchFails
    \/ EmptyRound \/ WaitRound \/ Done
    \/ \E w \in Work : JobEnds(w)

Spec == Init /\ [][Next]_vars

-----------------------------------------------------------------------------
(* Properties. *)

\* The build and the teardown launch a configuration only when no job of
\* another one runs, on whatever server ("to prevent race conditions ... where
\* multiple apps are selected"), unless that one was waited for in the wrong
\* config manager.
OneConfigurationAtATime ==
    [][\A w \in Work :
          jobState[w] = "none" /\ jobState'[w] = "running" /\ aapAction \in {"build", "teardown"} =>
              \A v \in Work : jobState[v] = "running" => v[1] = w[1] \/ ~Asked(v[1])]_vars
=============================================================================
