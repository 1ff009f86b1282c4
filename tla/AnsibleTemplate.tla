-------------------------- MODULE AnsibleTemplate --------------------------
(***************************************************************************)
(* The scripts that run job templates of an Ansible controller and write   *)
(* the facts of the job back: the blueprint action with its wrapper class  *)
(* ("automation"), the ad-hoc and server actions for Tower ("tower"), and  *)
(* the one that names servers ("naming").                                  *)
(*                                                                         *)
(* The controller is not in the sources.  A job's events come in pages.    *)
(***************************************************************************)
EXTENDS Naturals, Sequences

CONSTANTS
    Facts,   \* names of facts a template may set
    Pages    \* pages of job events a job may have: sequences of sets of facts

VARIABLES
    ansScript,   \* which of the scripts runs, "none" before one does
    workflow,    \* whether the template is a workflow
    ansPc,       \* control point of the script
    towerJob,    \* status of the job in the controller
    events,      \* the pages of its events
    page,        \* the page the script looks at
    gathered,    \* facts found on the pages before
    written,     \* facts that are parameters of the resource or the server
    ansResult

vars == <<ansScript, workflow, ansPc, towerJob, events, page, gathered, written, ansResult>>

TypeOK == /\ ansScript \in {"none", "automation", "tower", "naming"}
          /\ workflow \in BOOLEAN
          /\ ansPc \in {"idle", "launch", "wait", "events", "write", "verdict", "done"}
          /\ towerJob \in {"none", "running", "successful", "failed", "canceled"}
          /\ events \in Pages /\ page \in 1 .. Len(events) + 1
          /\ gathered \subseteq Facts /\ written \subseteq gathered
          /\ ansResult \in {"none", "SUCCESS", "FAILURE"}

Init == /\ ansScript = "none" /\ workflow = FALSE /\ ansPc = "idle"
        /\ towerJob = "none" /\ events = <<{}>> /\ page = 1
        /\ gathered = {} /\ written = {} /\ ansResult = "none"

Goto(point) == ansPc' = point /\ UNCHANGED ansResult
End(result) == ansPc' = "done" /\ ansResult' = result

-----------------------------------------------------------------------------
(* The controller. *)

JobEnds ==
    /\ towerJob = "running"
    /\ towerJob' \in {"successful", "failed", "canceled"}
    /\ events' \in Pages
    /\ UNCHANGED <<ansScript, workflow, ansPc, page, gathered, written, ansResult>>

-----------------------------------------------------------------------------
(* The scripts. *)

\* The template is looked up; the naming script knows job templates only.
Begin(s, w) ==
    /\ ansPc = "idle"
    /\ s = "naming" => ~w
    /\ ansScript' = s /\ workflow' = w
    /\ Goto("launch") \/ End("FAILURE")
    /\ UNCHANGED <<towerJob, events, page, gathered, written>>

\* Without a server, or for one that has no Ansible inputs, the naming script
\* reports success and asks nothing of the controller.
NamingSkipped ==
    /\ ansPc = "idle"
    /\ ansScript' = "naming"
    /\ End("SUCCESS")
    /\ UNCHANGED <<workflow, towerJob, events, page, gathered, written>>

\* The POST to the launch URL.  The Tower scripts expect the id of a job in
\* the answer, also of a workflow, which runs on when they have failed.
RunTemplate ==
    /\ ansPc = "launch"
    /\ towerJob' = "running"
    /\ IF workflow /\ ansScript = "tower" THEN End("FAILURE") ELSE Goto("wait")
    /\ UNCHANGED <<ansScript, workflow, events, page, gathered, written>>

RunTemplateFails ==
    /\ ansPc = "launch"
    /\ towerJob' \in {"none", "running"}
    /\ End("FAILURE")
    /\ UNCHANGED <<ansScript, workflow, events, page, gathered, written>>

\* wait_for_complete returns with the two final states it knows.  Any other
\* status but pending, waiting and running ends it without a result to unpack,
\* as does a call that raises; it waits as long as it takes.
WaitForComplete ==
    /\ ansPc = "wait"
    /\ IF towerJob \in {"successful", "failed"}
       THEN IF ansScript = "naming" /\ towerJob = "failed" THEN End("FAILURE")
            ELSE Goto("events")
       ELSE End("FAILURE")
    /\ UNCHANGED <<ansScript, workflow, towerJob, events, page, gathered, written>>

\* Bug: only the first page of events is looked at.
GetFactsFirstPage ==
    /\ ansPc = "events" /\ ~workflow
    /\ gathered' = gathered \cup events[page]
    /\ page' = page + 1
    /\ Goto("write")
    /\ UNCHANGED <<ansScript, workflow, towerJob, events, written>>

\* get_job_events_facts: one page after the other, and the next link of the
\* Tower server script has the path of the API twice, which is no page.
GetFacts ==
    /\ ansPc = "events" /\ ~workflow
    /\ gathered' = gathered \cup events[page]
    /\ page' = page + 1
    /\ IF page = Len(events) THEN Goto("write")
       ELSE IF ansScript = "tower" THEN End("FAILURE")
       ELSE Goto("events")
    /\ UNCHANGED <<ansScript, workflow, towerJob, events, written>>

\* A call raises; or the job is a workflow, whose own artifacts and events do
\* not exist and whose nodes are never asked (the test for its type compares
\* with a name no template type has).
GetFactsFails ==
    /\ ansPc = "events"
    /\ End("FAILURE")
    /\ UNCHANGED <<ansScript, workflow, towerJob, events, page, gathered, written>>

\* A parameter for each fact, created when there is none, and its value.
WriteFact(f) ==
    /\ ansPc = "write" /\ f \in gathered \ written
    /\ written' = written \cup {f}
    /\ UNCHANGED <<ansScript, workflow, ansPc, towerJob, events, page, gathered, ansResult>>

WriteFails ==
    /\ ansPc = "write" /\ gathered # written
    /\ End("FAILURE")
    /\ UNCHANGED <<ansScript, workflow, towerJob, events, page, gathered, written>>

\* The naming script returns after its first template, and fails if that has
\* not told the hostname and the address, be it the last one or not.
Verdict ==
    /\ ansPc = "write" /\ gathered = written
    /\ \/ End(IF towerJob = "successful" THEN "SUCCESS" ELSE "FAILURE")
       \/ ansScript = "naming" /\ End("FAILURE")
    /\ UNCHANGED <<ansScript, workflow, towerJob, events, page, gathered, written>>

-----------------------------------------------------------------------------
Next ==
    \/ JobEnds
    \/ \E s \in {"automation", "tower", "naming"}, w \in BOOLEAN : Begin(s, w)
    \/ NamingSkipped \/ RunTemplate \/ RunTemplateFails \/ WaitForComplete
    \/ GetFacts \/ GetFactsFails
    \/ \E f \in Facts : WriteFact(f)
    \/ WriteFails \/ Verdict

Spec == Init /\ [][Next]_vars

-----------------------------------------------------------------------------
(* Properties. *)

\* A script that reports success has seen the job succeed, and every fact of
\* every page of its events is written; only the naming script also reports
\* success when it had nothing to run, and then it has run nothing.
FactsComplete ==
    ansResult = "SUCCESS" =>
        \/ /\ towerJob = "successful"
           /\ \A i \in DOMAIN events : events[i] \subseteq written
        \/ ansScript = "naming" /\ towerJob = "none" /\ written = {}
=============================================================================
