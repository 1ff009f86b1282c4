---------------------------- MODULE GitLabExport ----------------------------
(***************************************************************************)
(* The Git Management extension with a GitLab repository.  A request asks  *)
(* for every exported file whether it exists, lists the directory to find  *)
(* files to delete, and posts all actions as one commit, which GitLab      *)
(* applies at once or rejects.  Requests run concurrently and others push. *)
(*                                                                         *)
(* GitLab (its checks on a commit's actions, its pages, its answer for a   *)
(* directory that does not exist) is modelled from how the code uses it.   *)
(***************************************************************************)
EXTENDS Sequences, FiniteSets, Naturals

CONSTANTS
    Contents,   \* contents of one content type
    DirOf,      \* [Contents -> Dirs]: root directory, type and slugified name
    Dirs,
    Files,      \* paths below such a directory
    Versions,   \* file contents
    Absent,     \* "no such file"
    Sessions,   \* web requests
    Requests,   \* the content ids a form may be submitted with, in order
    PageSize,   \* entries in the first page of a repository tree
    Env         \* what the environment may do

\* "down":    API calls may fail or time out
\* "push":    others change files of the branch
\* "tree404": the tree of a missing directory is a 404, not an empty list
EnvChoices  == {"down", "push", "tree404"}
Directories == [Files -> Versions \cup {Absent}]
NoFiles     == [f \in Files |-> Absent]

ASSUME GitLabAssumption ==
    /\ DirOf \in [Contents -> Dirs]
    /\ Absent \notin Versions
    /\ IsFiniteSet(Files)
    /\ Requests \subseteq Seq(Contents) \ {<<>>}
    /\ PageSize \in Nat \ {0}
    /\ Env \subseteq EnvChoices

VARIABLES
    local,      \* [Contents -> Directories]: the content in CloudBolt
    published,  \* [Dirs -> Directories]: the configured branch
    pc,         \* [Sessions -> control point]
    todo,       \* [Sessions -> contents still to be exported]
    files,      \* [Sessions -> the exported directory, in the tmp directory]
    actions     \* [Sessions -> [Files -> action]]: the commit being prepared

sessionVars == <<pc, todo, files, actions>>
vars == <<local, published, sessionVars>>

Actions   == {"none", "create", "update", "delete"}
NoActions == [f \in Files |-> "none"]
PC        == {"idle", "export", "check", "commit", "report"}

TypeOK ==
    /\ local \in [Contents -> Directories]
    /\ published \in [Dirs -> Directories]
    /\ pc \in [Sessions -> PC]
    /\ todo \in [Sessions -> Seq(Contents)]
    /\ files \in [Sessions -> Directories]
    /\ actions \in [Sessions -> [Files -> Actions]]
    /\ \A s \in Sessions : pc[s] # "idle" => todo[s] # <<>>

Init ==
    /\ local \in [Contents -> Directories \ {NoFiles}]
    /\ published \in [Dirs -> Directories]
    /\ pc = [s \in Sessions |-> "idle"]
    /\ todo = [s \in Sessions |-> <<>>]
    /\ files = [s \in Sessions |-> NoFiles]
    /\ actions = [s \in Sessions |-> NoActions]

-----------------------------------------------------------------------------
(* The environment (not in the sources). *)

\* An administrator changes a content: a file is added, edited or removed.
EditContent(c) ==
    /\ \E f \in Files, v \in Versions \cup {Absent} :
          local' = [local EXCEPT ![c][f] = v]
    /\ local'[c] # NoFiles
    /\ UNCHANGED <<published, sessionVars>>

\* Somebody else changes a file of the branch.
Push ==
    /\ "push" \in Env
    /\ \E d \in Dirs, f \in Files, v \in Versions \cup {Absent} :
          published' = [published EXCEPT ![d][f] = v]
    /\ UNCHANGED <<local, sessionVars>>

-----------------------------------------------------------------------------
(* The requests. *)

\* create_git_commit, export_multiple: the form is submitted with one content
\* or a list of them.
Submit(s) ==
    /\ pc[s] = "idle"
    /\ \E q \in Requests : todo' = [todo EXCEPT ![s] = q]
    /\ pc' = [pc EXCEPT ![s] = "export"]
    /\ UNCHANGED <<local, published, files, actions>>

Dir(s)      == DirOf[Head(todo[s])]
Exported(s) == {f \in Files : files[s][f] # Absent}
PathsIn(d)  == {f \in Files : published[d][f] # Absent}

\* Bug: a request that has exported everything goes on.
ContinueForever(s, rest) ==
    /\ todo' = [todo EXCEPT ![s] = rest]
    /\ pc' = [pc EXCEPT ![s] = "export"]
    /\ files' = [files EXCEPT ![s] = NoFiles]
    /\ actions' = [actions EXCEPT ![s] = NoActions]

\* The request goes on with the contents in rest, or ends if there are none.
Continue(s, rest) ==
    /\ todo' = [todo EXCEPT ![s] = rest]
    /\ pc' = [pc EXCEPT ![s] = IF rest = <<>> THEN "idle" ELSE "export"]
    /\ files' = [files EXCEPT ![s] = NoFiles]
    /\ actions' = [actions EXCEPT ![s] = NoActions]

\* An exception ends the request; no later content of the list is tried.
Abort(s) == Continue(s, <<>>) /\ UNCHANGED <<local, published>>

\* export_content_to_tmp_dir
ExportContent(s) ==
    /\ pc[s] = "export"
    /\ files' = [files EXCEPT ![s] = local[Head(todo[s])]]
    /\ pc' = [pc EXCEPT ![s] = "check"]
    /\ UNCHANGED <<local, published, todo, actions>>

Mark(s, f, mode) == actions' = [actions EXCEPT ![s][f] = mode]

\* Bug: an error that says "not found" is taken for "found".
CheckFileSwapped(s, f) ==
    /\ pc[s] = "check"
    /\ f \in Exported(s) /\ actions[s][f] = "none"
    /\ Mark(s, f, IF f \in PathsIn(Dir(s)) THEN "create" ELSE "update")
    /\ UNCHANGED <<local, published, pc, todo, files>>

\* generate_actions_from_directory, get_file: any HTTP error counts as "does
\* not exist", also one of the server.
CheckFile(s, f) ==
    /\ pc[s] = "check"
    /\ f \in Exported(s) /\ actions[s][f] = "none"
    /\ \/ Mark(s, f, IF f \in PathsIn(Dir(s)) THEN "update" ELSE "create")
       \/ "down" \in Env /\ Mark(s, f, "create")
    /\ UNCHANGED <<local, published, pc, todo, files>>

Checked(s) == \A f \in Exported(s) : actions[s][f] # "none"

\* get_repository_tree returns the first page of the directory, in no
\* particular order.
FirstPages(d) ==
    {page \in SUBSET PathsIn(d) :
        \/ page = PathsIn(d) /\ Cardinality(page) <= PageSize
        \/ Cardinality(page) = PageSize}

\* Bug: the files that were exported are deleted, the others are kept.
DeletedInverted(s, page) == page \cap Exported(s)

\* set_deleted_files: the listed files that were not exported.
Deleted(s, page) == page \ Exported(s)

SetDeletedFiles(s) ==
    /\ pc[s] = "check" /\ Checked(s)
    /\ PathsIn(Dir(s)) # {} \/ "tree404" \notin Env
    /\ \E page \in FirstPages(Dir(s)) :
          actions' = [actions EXCEPT ![s] =
              [f \in Files |-> IF f \in Deleted(s, page) THEN "delete" ELSE @[f]]]
    /\ pc' = [pc EXCEPT ![s] = "commit"]
    /\ UNCHANGED <<local, published, todo, files>>

SetDeletedFilesFails(s) ==
    /\ pc[s] = "check" /\ Checked(s)
    /\ PathsIn(Dir(s)) = {} /\ "tree404" \in Env
    /\ Abort(s)

\* GitLab's checks of the actions of a commit.
Acceptable(s) ==
    \A f \in Files :
        /\ actions[s][f] = "create" => f \notin PathsIn(Dir(s))
        /\ actions[s][f] \in {"update", "delete"} => f \in PathsIn(Dir(s))

\* create_commit: all actions at once.  The answer may be lost.
CreateCommit(s) ==
    /\ pc[s] = "commit"
    /\ Acceptable(s)
    /\ published' = [published EXCEPT ![Dir(s)] =
          [f \in Files |-> CASE actions[s][f] = "none"   -> @[f]
                             [] actions[s][f] = "delete" -> Absent
                             [] OTHER                    -> files[s][f]]]
    /\ \/ /\ pc' = [pc EXCEPT ![s] = "report"]
          /\ UNCHANGED <<todo, files, actions>>
       \/ /\ "down" \in Env
          /\ Continue(s, <<>>)
    /\ UNCHANGED local

CreateCommitFails(s) == pc[s] = "commit" /\ ~Acceptable(s) /\ Abort(s)

\* delete_tmp_dir, web_url; the next content of the list, if any.
Report(s) ==
    /\ pc[s] = "report"
    /\ Continue(s, Tail(todo[s]))
    /\ UNCHANGED <<local, published>>

\* A call fails without an answer, or with one that is not JSON.
CallFails(s) == "down" \in Env /\ pc[s] \in {"check", "commit"} /\ Abort(s)

Request(s) ==
    \/ Submit(s) \/ ExportContent(s)
    \/ \E f \in Files : CheckFile(s, f)
    \/ SetDeletedFiles(s) \/ SetDeletedFilesFails(s)
    \/ CreateCommit(s) \/ CreateCommitFails(s)
    \/ Report(s) \/ CallFails(s)

Next == \/ \E c \in Contents : EditContent(c)
        \/ Push
        \/ \E s \in Sessions : Request(s)

Spec == Init /\ [][Next]_vars

\* A web worker that handles a request goes on with it.
FairSpec == Spec /\ \A s \in Sessions : WF_vars(Request(s))

-----------------------------------------------------------------------------
(* Properties. *)

\* The step of session s that GitLab accepts as a commit.
Lands(s) == /\ pc[s] = "commit" /\ Acceptable(s)
            /\ pc'[s] # "commit" /\ published' # published

\* However the branch was changed since the request looked at it, an accepted
\* commit leaves the exported files exactly as exported, nothing the request
\* found superfluous, and no other directory touched (utilities.py:1034-1094).
CommitKeepsPromise ==
    [][\A s \in Sessions : Lands(s) =>
        /\ \A f \in Exported(s) : published'[Dir(s)][f] = files[s][f]
        /\ \A f \in Files : actions[s][f] = "delete" => published'[Dir(s)][f] = Absent
        /\ \A d \in Dirs \ {Dir(s)} : published'[d] = published[d]]_vars

\* The content a session has exported and not yet published.
Pending(s) == IF pc[s] \in {"check", "commit"}
              THEN {[content |-> Head(todo[s]), files |-> files[s]]}
              ELSE {}

Publication == INSTANCE ContentPublication
                   WITH export <- [s \in Sessions |-> Pending(s)]

\* A request that has the branch for itself, and a directory that fits into one
\* page, publishes the whole directory in one step, or nothing.
ImplementsPublication == Publication!Spec

\* Such a request is not rejected: what it exports gets committed.
ExportLands == \A s \in Sessions : pc[s] = "check" ~> pc[s] = "report"
=============================================================================
