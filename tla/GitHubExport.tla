---------------------------- MODULE GitHubExport ----------------------------
(***************************************************************************)
(* The Git Management extension with a GitHub repository.  A web request   *)
(* exports one or more contents, each by a commit of its own that is put   *)
(* together by separate API calls: read the branch, upload the files, list *)
(* the directory, create the tree and the commit, move the branch.         *)
(* Requests run concurrently and others push to the same repository.       *)
(*                                                                         *)
(* GitHub (refs that only move forward, trees that cannot lose a path they *)
(* do not have) and CloudBolt's serializers are not in the sources.        *)
(***************************************************************************)
EXTENDS Sequences

CONSTANTS
    Contents,   \* contents of one content type
    DirOf,      \* [Contents -> Dirs]: root directory, type and slugified name
    Dirs,
    Files,      \* paths below such a directory
    Versions,   \* file contents
    Absent,     \* "no such file"
    Sessions,   \* web requests
    Requests,   \* the content ids a form may be submitted with, in order
    Branches, Branch, Default,   \* Branch: configured; Default: of the repository
    Commits,    \* bound: the commits that can be created
    Root,       \* the commit all branches start from
    Env         \* what the environment may do: "down", "push"

Directories == [Files -> Versions \cup {Absent}]
Trees       == [Dirs -> Directories]

ASSUME GitHubAssumption ==
    /\ DirOf \in [Contents -> Dirs]
    /\ Absent \notin Versions
    /\ Requests \subseteq Seq(Contents) \ {<<>>}
    /\ Branch \in Branches /\ Default \in Branches
    /\ Root \in Commits

VARIABLES
    local,    \* [Contents -> Directories]: the content in CloudBolt
    created,  \* the commits that exist
    tree,     \* [Commits -> Trees]: the tree of a commit
    history,  \* [Commits -> SUBSET Commits]: a commit and its ancestors
    head,     \* [Branches -> Commits]
    landed,   \* history variable: commits that were put on Branch by a request
    pc,       \* [Sessions -> control point]
    todo,     \* [Sessions -> contents still to be exported]
    files,    \* [Sessions -> the exported directory, in the tmp directory]
    base,     \* [Sessions -> the branch_sha the session read]
    listed,   \* [Sessions -> the paths found in the directory's current tree]
    commit    \* [Sessions -> the commit the session created]

repoVars    == <<created, tree, history, head, landed>>
sessionVars == <<pc, todo, files, base, listed, commit>>
vars == <<local, repoVars, sessionVars>>

PC == {"idle", "export", "branch", "list", "commit", "update", "report"}

TypeOK ==
    /\ local \in [Contents -> Directories]
    /\ Root \in created /\ created \subseteq Commits
    /\ tree \in [Commits -> Trees]
    /\ history \in [Commits -> SUBSET Commits]
    /\ head \in [Branches -> created]
    /\ landed \subseteq created
    /\ pc \in [Sessions -> PC]
    /\ todo \in [Sessions -> Seq(Contents)]
    /\ files \in [Sessions -> Directories]
    /\ base \in [Sessions -> created]
    /\ listed \in [Sessions -> SUBSET Files]
    /\ commit \in [Sessions -> created]
    /\ \A s \in Sessions : pc[s] # "idle" => todo[s] # <<>>

NoFiles == [f \in Files |-> Absent]

\* The first commit may hold the directories of some contents, or none.
Init ==
    /\ local \in [Contents -> Directories \ {NoFiles}]
    /\ created = {Root}
    /\ \E t \in Trees : tree = [c \in Commits |-> t]
    /\ history = [c \in Commits |-> {c}]
    /\ head = [b \in Branches |-> Root]
    /\ landed = {}
    /\ pc = [s \in Sessions |-> "idle"]
    /\ todo = [s \in Sessions |-> <<>>]
    /\ files = [s \in Sessions |-> NoFiles]
    /\ base = [s \in Sessions |-> Root]
    /\ listed = [s \in Sessions |-> {}]
    /\ commit = [s \in Sessions |-> Root]

-----------------------------------------------------------------------------
(* The environment (not in the sources). *)

\* An administrator changes a content: a file is added, edited or removed.
EditContent(c) ==
    /\ \E f \in Files, v \in Versions \cup {Absent} :
          local' = [local EXCEPT ![c][f] = v]
    /\ local'[c] # NoFiles
    /\ UNCHANGED <<repoVars, sessionVars>>

\* Commit c, new, with parent p and tree t.
NewCommit(c, p, t) ==
    /\ c \in Commits \ created
    /\ created' = created \cup {c}
    /\ tree' = [tree EXCEPT ![c] = t]
    /\ history' = [history EXCEPT ![c] = {c} \cup history[p]]

\* Somebody else pushes a commit that changes one file of branch b.
Push(b) ==
    /\ "push" \in Env
    /\ \E c \in Commits, d \in Dirs, f \in Files, v \in Versions \cup {Absent} :
          /\ NewCommit(c, head[b], [tree[head[b]] EXCEPT ![d][f] = v])
          /\ head' = [head EXCEPT ![b] = c]
    /\ UNCHANGED <<local, landed, sessionVars>>

-----------------------------------------------------------------------------
(* The requests. *)

\* create_git_commit, export_multiple: the form is submitted with one content
\* or a list of them.
Submit(s) ==
    /\ pc[s] = "idle"
    /\ \E q \in Requests : todo' = [todo EXCEPT ![s] = q]
    /\ pc' = [pc EXCEPT ![s] = "export"]
    /\ UNCHANGED <<local, repoVars, files, base, listed, commit>>

Dir(s) == DirOf[Head(todo[s])]

\* export_content_to_tmp_dir
ExportContent(s) ==
    /\ pc[s] = "export"
    /\ files' = [files EXCEPT ![s] = local[Head(todo[s])]]
    /\ pc' = [pc EXCEPT ![s] = "branch"]
    /\ UNCHANGED <<local, repoVars, todo, base, listed, commit>>

\* get_branch_sha; the blobs created next are not part of any tree yet.
GetBranchSha(s) ==
    /\ pc[s] = "branch"
    /\ base' = [base EXCEPT ![s] = head[Branch]]
    /\ pc' = [pc EXCEPT ![s] = "list"]
    /\ UNCHANGED <<local, repoVars, todo, files, listed, commit>>

PathsIn(t, d) == {f \in Files : t[d][f] # Absent}

\* Bug: a request that has exported everything goes on.
ContinueForever(s, rest) ==
    /\ todo' = [todo EXCEPT ![s] = rest]
    /\ pc' = [pc EXCEPT ![s] = "export"]
    /\ files' = [files EXCEPT ![s] = NoFiles]
    /\ base' = [base EXCEPT ![s] = Root]
    /\ listed' = [listed EXCEPT ![s] = {}]
    /\ commit' = [commit EXCEPT ![s] = Root]

\* The request goes on with the contents in rest, or ends if there are none.
Continue(s, rest) ==
    /\ todo' = [todo EXCEPT ![s] = rest]
    /\ pc' = [pc EXCEPT ![s] = IF rest = <<>> THEN "idle" ELSE "export"]
    /\ files' = [files EXCEPT ![s] = NoFiles]
    /\ base' = [base EXCEPT ![s] = Root]
    /\ listed' = [listed EXCEPT ![s] = {}]
    /\ commit' = [commit EXCEPT ![s] = Root]

\* An exception ends the request; no later content of the list is tried.
Abort(s) == Continue(s, <<>>) /\ UNCHANGED <<local, repoVars>>

\* get_tree_sha_from_path asks for the parent directory's contents without a
\* ref, that is, on the default branch; Git has no empty directories, and a
\* parent that is missing is a 404, an HTTPError.
ParentMissing == \A d \in Dirs : PathsIn(tree[head[Default]], d) = {}

\* update_tree_to_remove_deleted_files: the paths of the current tree.
ListDirectory(s) ==
    /\ pc[s] = "list"
    /\ ~ParentMissing
    /\ listed' = [listed EXCEPT ![s] = PathsIn(tree[head[Default]], Dir(s))]
    /\ pc' = [pc EXCEPT ![s] = "commit"]
    /\ UNCHANGED <<local, repoVars, todo, files, base, commit>>

ListDirectoryFails(s) == pc[s] = "list" /\ ParentMissing /\ Abort(s)

Exported(s) == {f \in Files : files[s][f] # Absent}

\* Bug: deleted files are not removed.
NewTreeKeepsDeleted(s) ==
    [tree[base[s]] EXCEPT ![Dir(s)] =
        [f \in Files |-> IF f \in Exported(s) THEN files[s][f] ELSE @[f]]]

\* create_tree: the base tree with the exported files, without the listed ones
\* that were not exported.
NewTree(s) ==
    [tree[base[s]] EXCEPT ![Dir(s)] =
        [f \in Files |-> IF f \in Exported(s) THEN files[s][f]
                         ELSE IF f \in listed[s] THEN Absent ELSE @[f]]]

\* A path that is to be removed must exist in the base tree: 422 otherwise.
Removable(s) == listed[s] \ Exported(s) \subseteq PathsIn(tree[base[s]], Dir(s))

\* create_tree and create_commit: nothing refers to the commit yet.
CreateCommit(s) ==
    /\ pc[s] = "commit"
    /\ Removable(s)
    /\ \E c \in Commits : /\ NewCommit(c, base[s], NewTree(s))
                          /\ commit' = [commit EXCEPT ![s] = c]
    /\ pc' = [pc EXCEPT ![s] = "update"]
    /\ UNCHANGED <<local, head, landed, todo, files, base, listed>>

CreateTreeFails(s) == pc[s] = "commit" /\ ~Removable(s) /\ Abort(s)

FastForward(s) == head[Branch] \in history[commit[s]]

\* Bug: the branch is moved with "force".
UpdateBranchRefForced(s) ==
    /\ pc[s] = "update"
    /\ head' = [head EXCEPT ![Branch] = commit[s]]
    /\ landed' = landed \cup {commit[s]}
    /\ pc' = [pc EXCEPT ![s] = "report"]
    /\ UNCHANGED <<local, created, tree, history, todo, files, base, listed, commit>>

\* update_branch_ref without "force": GitHub moves a branch only forward.  The
\* answer may be lost.
UpdateBranchRef(s) ==
    /\ pc[s] = "update"
    /\ FastForward(s)
    /\ head' = [head EXCEPT ![Branch] = commit[s]]
    /\ landed' = landed \cup {commit[s]}
    /\ \/ /\ pc' = [pc EXCEPT ![s] = "report"]
          /\ UNCHANGED <<todo, files, base, listed, commit>>
       \/ /\ "down" \in Env
          /\ Continue(s, <<>>)
    /\ UNCHANGED <<local, created, tree, history>>

UpdateBranchRefFails(s) == pc[s] = "update" /\ ~FastForward(s) /\ Abort(s)

\* get_commit, delete_tmp_dir; the next content of the list, if any.
Report(s) ==
    /\ pc[s] = "report"
    /\ Continue(s, Tail(todo[s]))
    /\ UNCHANGED <<local, repoVars>>

\* An API call fails or times out (HTTPError, ConnectionError).
CallFails(s) == /\ "down" \in Env
                /\ pc[s] \in PC \ {"idle", "export"}
                /\ Abort(s)

Request(s) ==
    \/ Submit(s) \/ ExportContent(s) \/ GetBranchSha(s)
    \/ ListDirectory(s) \/ ListDirectoryFails(s)
    \/ CreateCommit(s) \/ CreateTreeFails(s)
    \/ UpdateBranchRef(s) \/ UpdateBranchRefFails(s)
    \/ Report(s) \/ CallFails(s)

Next == \/ \E c \in Contents : EditContent(c)
        \/ \E b \in Branches : Push(b)
        \/ \E s \in Sessions : Request(s)

Spec == Init /\ [][Next]_vars

-----------------------------------------------------------------------------
(* Properties. *)

\* A commit that a request put on the branch stays in the branch's history,
\* whoever moves the branch later (update_branch_ref, utilities.py:709-718).
NothingLost == landed \subseteq history[head[Branch]]

\* The step of session s that publishes its commit.
Lands(s) == pc[s] = "update" /\ head[Branch] # commit[s] /\ head'[Branch] = commit[s]

\* Whatever was pushed while the request was at work, the commit that becomes
\* the branch differs from the branch before only in the content's directory,
\* and has the exported files there (create_tree_from_directory, 769-788).
OwnDirectoryOnly ==
    [][\A s \in Sessions : Lands(s) =>
        LET old == tree[head[Branch]]
            new == tree[commit[s]]
        IN  /\ \A d \in Dirs \ {Dir(s)} : new[d] = old[d]
            /\ \A f \in Exported(s) : new[Dir(s)][f] = files[s][f]]_vars

\* utilities.py:790-792, update_tree_to_remove_deleted_files: "Remove files from
\* the tree that have been deleted from the CloudBolt content".
RemovesDeleted ==
    [][\A s \in Sessions : Lands(s) =>
        PathsIn(tree[commit[s]], Dir(s)) \subseteq Exported(s)]_vars

\* The content a session has exported and not yet published.
Pending(s) == IF pc[s] \in {"branch", "list", "commit", "update"}
              THEN {[content |-> Head(todo[s]), files |-> files[s]]}
              ELSE {}

Publication == INSTANCE ContentPublication
                   WITH published <- tree[head[Branch]],
                        export    <- [s \in Sessions |-> Pending(s)]

\* When the configured branch is the default branch, requests publish whole
\* directories in one step, or nothing, although they list the directory,
\* build the tree and move the branch at different times.
ImplementsPublication == Publication!Spec
=============================================================================
