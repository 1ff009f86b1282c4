------------------------- MODULE ContentPublication -------------------------
(***************************************************************************)
(* What an export of CloudBolt content to a Git repository promises: a     *)
(* request replaces the whole directory of one content by what the content *)
(* was when the request exported it, in one step and in that directory     *)
(* only, or it changes nothing.                                            *)
(***************************************************************************)
CONSTANTS
    Contents,     \* blueprints, actions, jobs, ... of CloudBolt
    DirOf,        \* the directory of the repository a content is kept in
    Directories,  \* what a directory may hold
    Sessions      \* requests that are handled concurrently

VARIABLES
    local,        \* [Contents -> Directories]: the content in CloudBolt
    published,    \* the directories of the branch: [directory -> Directories]
    export        \* [Sessions -> the export it has not published, as a set of 0 or 1]

vars == <<local, published, export>>

Init == /\ local \in [Contents -> Directories]
        /\ export = [s \in Sessions |-> {}]

\* Content is edited in CloudBolt; others push to the branch.
Edit == /\ local' \in [Contents -> Directories]
        /\ UNCHANGED <<published, export>>

Push == /\ \E d \in DOMAIN published, new \in Directories :
              published' = [published EXCEPT ![d] = new]
        /\ UNCHANGED <<local, export>>

Export(s, c) ==
    /\ export' = [export EXCEPT ![s] = {[content |-> c, files |-> local[c]]}]
    /\ UNCHANGED <<local, published>>

Publish(s) ==
    /\ \E e \in export[s] :
          published' = [published EXCEPT ![DirOf[e.content]] = e.files]
    /\ export' = [export EXCEPT ![s] = {}]
    /\ UNCHANGED local

GiveUp(s) == /\ export' = [export EXCEPT ![s] = {}]
             /\ UNCHANGED <<local, published>>

Next == \/ Edit \/ Push
        \/ \E s \in Sessions : \/ \E c \in Contents : Export(s, c)
                               \/ Publish(s) \/ GiveUp(s)

Spec == Init /\ [][Next]_vars
=============================================================================
