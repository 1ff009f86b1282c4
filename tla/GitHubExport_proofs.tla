------------------------ MODULE GitHubExport_proofs ------------------------
(***************************************************************************)
(* Proofs about GitHubExport, for every set of contents, files, requests,  *)
(* branches and commits.                                                   *)
(***************************************************************************)
EXTENDS GitHubExport, TLAPS

-----------------------------------------------------------------------------
(* Type correctness. *)

LEMMA NoFilesType == NoFiles \in Directories
BY DEF NoFiles, Directories

LEMMA DirType ==
    ASSUME TypeOK, NEW s \in Sessions, pc[s] # "idle"
    PROVE  /\ Head(todo[s]) \in Contents
           /\ Tail(todo[s]) \in Seq(Contents)
           /\ Dir(s) \in Dirs
BY GitHubAssumption DEF TypeOK, Dir

LEMMA WithFileType ==
    ASSUME NEW D \in Directories, NEW f \in Files, NEW v \in Versions \cup {Absent}
    PROVE  [D EXCEPT ![f] = v] \in Directories
BY DEF Directories

LEMMA WithDirectoryType ==
    ASSUME NEW t \in Trees, NEW d \in Dirs, NEW D \in Directories
    PROVE  [t EXCEPT ![d] = D] \in Trees
BY DEF Trees

\* A push that changes one file replaces one directory.
LEMMA PushedTree ==
    ASSUME NEW t \in Trees, NEW d \in Dirs, NEW f \in Files,
           NEW v \in Versions \cup {Absent}
    PROVE  /\ [t[d] EXCEPT ![f] = v] \in Directories
           /\ [t EXCEPT ![d][f] = v] = [t EXCEPT ![d] = [t[d] EXCEPT ![f] = v]]
           /\ [t EXCEPT ![d][f] = v] \in Trees
<1>1. t[d] \in Directories
  BY DEF Trees
<1>2. [t[d] EXCEPT ![f] = v] \in Directories
  BY <1>1, WithFileType
<1>3. [t EXCEPT ![d][f] = v] = [t EXCEPT ![d] = [t[d] EXCEPT ![f] = v]]
  OBVIOUS
<1> QED
  BY <1>2, <1>3, WithDirectoryType

\* What NewTree does, written without EXCEPT's @.
Merged(s) ==
    [f \in Files |-> IF f \in Exported(s) THEN files[s][f]
                     ELSE IF f \in listed[s] THEN Absent
                     ELSE tree[base[s]][Dir(s)][f]]

LEMMA NewTreeMerges ==
    ASSUME TypeOK, NEW s \in Sessions, pc[s] # "idle"
    PROVE  /\ Merged(s) \in Directories
           /\ NewTree(s) = [tree[base[s]] EXCEPT ![Dir(s)] = Merged(s)]
           /\ NewTree(s) \in Trees
<1>1. Dir(s) \in Dirs /\ tree[base[s]] \in Trees
  BY DirType DEF TypeOK
<1>2. tree[base[s]][Dir(s)] \in Directories /\ files[s] \in Directories
  BY <1>1 DEF Trees, TypeOK
<1>3. Merged(s) \in Directories
  BY <1>2 DEF Merged, Directories
<1>4. NewTree(s) = [tree[base[s]] EXCEPT ![Dir(s)] = Merged(s)]
  BY <1>1 DEF NewTree, Merged, Trees
<1> QED
  BY <1>1, <1>3, <1>4, WithDirectoryType

LEMMA InitTypeOK == Init => TypeOK
<1> SUFFICES ASSUME Init PROVE TypeOK
  OBVIOUS
<1>1. local \in [Contents -> Directories]
  BY DEF Init
<1>2. /\ Root \in created /\ created \subseteq Commits
      /\ tree \in [Commits -> Trees]
      /\ history \in [Commits -> SUBSET Commits]
      /\ head \in [Branches -> created]
      /\ landed \subseteq created
  BY GitHubAssumption DEF Init
<1>3. /\ pc \in [Sessions -> PC]
      /\ todo \in [Sessions -> Seq(Contents)]
      /\ files \in [Sessions -> Directories]
      /\ base \in [Sessions -> created]
      /\ listed \in [Sessions -> SUBSET Files]
      /\ commit \in [Sessions -> created]
  BY <1>2, NoFilesType DEF Init, PC
<1>4. \A s \in Sessions : pc[s] = "idle"
  BY DEF Init
<1> QED
  BY <1>1, <1>2, <1>3, <1>4 DEF TypeOK

\* The session's own state after a request goes on or ends.
LEMMA ContinueType ==
    ASSUME TypeOK, NEW s \in Sessions, NEW rest \in Seq(Contents),
           Continue(s, rest), created' = created
    PROVE  /\ pc' \in [Sessions -> PC]
           /\ todo' \in [Sessions -> Seq(Contents)]
           /\ files' \in [Sessions -> Directories]
           /\ base' \in [Sessions -> created']
           /\ listed' \in [Sessions -> SUBSET Files]
           /\ commit' \in [Sessions -> created']
           /\ \A t \in Sessions : pc'[t] # "idle" => todo'[t] # <<>>
BY NoFilesType DEF TypeOK, Continue, PC

LEMMA AbortType ==
    ASSUME TypeOK, NEW s \in Sessions, Abort(s)
    PROVE  TypeOK'
<1>1. created' = created
  BY DEF Abort, repoVars
<1>2. <<>> \in Seq(Contents)
  OBVIOUS
<1> QED
  BY <1>1, <1>2, ContinueType DEF Abort, repoVars, TypeOK

\* A new commit leaves the repository well-typed.
LEMMA NewCommitType ==
    ASSUME TypeOK, NEW c \in Commits, NEW p \in created, NEW t \in Trees,
           NewCommit(c, p, t)
    PROVE  /\ Root \in created' /\ created' \subseteq Commits
           /\ c \in created' /\ created \subseteq created'
           /\ tree' \in [Commits -> Trees]
           /\ history' \in [Commits -> SUBSET Commits]
BY GitHubAssumption DEF TypeOK, NewCommit

LEMMA NextTypeOK == TypeOK /\ [Next]_vars => TypeOK'
<1> SUFFICES ASSUME TypeOK, [Next]_vars
             PROVE  TypeOK'
  OBVIOUS
<1>1. ASSUME NEW c \in Contents, EditContent(c)
      PROVE  TypeOK'
  <2>1. PICK f \in Files, v \in Versions \cup {Absent} :
            local' = [local EXCEPT ![c][f] = v]
    BY <1>1 DEF EditContent
  <2>2. local[c] \in Directories
    BY DEF TypeOK
  <2>3. [local[c] EXCEPT ![f] = v] \in Directories
    BY <2>2, WithFileType
  <2>4. local' = [local EXCEPT ![c] = [local[c] EXCEPT ![f] = v]]
    BY <2>1
  <2>5. local' \in [Contents -> Directories]
    BY <2>3, <2>4 DEF TypeOK
  <2> QED
    BY <1>1, <2>5 DEF EditContent, TypeOK, repoVars, sessionVars
<1>2. ASSUME NEW b \in Branches, Push(b)
      PROVE  TypeOK'
  <2>1. PICK c \in Commits, d \in Dirs, f \in Files, v \in Versions \cup {Absent} :
            /\ NewCommit(c, head[b], [tree[head[b]] EXCEPT ![d][f] = v])
            /\ head' = [head EXCEPT ![b] = c]
    BY <1>2 DEF Push
  <2>2. [tree[head[b]] EXCEPT ![d][f] = v] \in Trees
    BY PushedTree DEF TypeOK
  <2>3. head[b] \in created
    BY DEF TypeOK
  <2>4. /\ Root \in created' /\ created' \subseteq Commits
        /\ c \in created' /\ created \subseteq created'
        /\ tree' \in [Commits -> Trees]
        /\ history' \in [Commits -> SUBSET Commits]
    BY <2>1, <2>2, <2>3, NewCommitType
  <2> QED
    BY <1>2, <2>1, <2>4 DEF Push, TypeOK, sessionVars
<1>3. ASSUME NEW s \in Sessions, Submit(s)
      PROVE  TypeOK'
  BY <1>3, GitHubAssumption DEF Submit, TypeOK, repoVars, PC
<1>4. ASSUME NEW s \in Sessions, ExportContent(s)
      PROVE  TypeOK'
  <2>1. local[Head(todo[s])] \in Directories
    BY <1>4, DirType DEF ExportContent, TypeOK
  <2> QED
    BY <1>4, <2>1 DEF ExportContent, TypeOK, repoVars, PC
<1>5. ASSUME NEW s \in Sessions, GetBranchSha(s)
      PROVE  TypeOK'
  BY <1>5, GitHubAssumption DEF GetBranchSha, TypeOK, repoVars, PC
<1>6. ASSUME NEW s \in Sessions, ListDirectory(s)
      PROVE  TypeOK'
  BY <1>6 DEF ListDirectory, PathsIn, TypeOK, repoVars, PC
<1>7. ASSUME NEW s \in Sessions, Abort(s)
      PROVE  TypeOK'
  BY <1>7, AbortType
<1>8. ASSUME NEW s \in Sessions, CreateCommit(s)
      PROVE  TypeOK'
  <2>1. PICK c \in Commits : /\ NewCommit(c, base[s], NewTree(s))
                             /\ commit' = [commit EXCEPT ![s] = c]
    BY <1>8 DEF CreateCommit
  <2>2. NewTree(s) \in Trees /\ base[s] \in created
    BY <1>8, NewTreeMerges DEF CreateCommit, TypeOK
  <2>3. /\ Root \in created' /\ created' \subseteq Commits
        /\ c \in created' /\ created \subseteq created'
        /\ tree' \in [Commits -> Trees]
        /\ history' \in [Commits -> SUBSET Commits]
    BY <2>1, <2>2, NewCommitType
  <2> QED
    BY <1>8, <2>1, <2>3 DEF CreateCommit, TypeOK, PC
<1>9. ASSUME NEW s \in Sessions, UpdateBranchRef(s)
      PROVE  TypeOK'
  <2>1. /\ head' \in [Branches -> created]
        /\ landed' \subseteq created
    BY <1>9 DEF UpdateBranchRef, TypeOK
  <2>2. CASE pc' = [pc EXCEPT ![s] = "report"] /\ UNCHANGED <<todo, files, base, listed, commit>>
    BY <1>9, <2>1, <2>2 DEF UpdateBranchRef, TypeOK, PC
  <2>3. CASE Continue(s, <<>>)
    <3>1. <<>> \in Seq(Contents) /\ created' = created
      BY <1>9 DEF UpdateBranchRef
    <3> QED
      BY <1>9, <2>1, <2>3, <3>1, ContinueType DEF UpdateBranchRef, TypeOK
  <2> QED
    BY <1>9, <2>2, <2>3 DEF UpdateBranchRef
<1>10. ASSUME NEW s \in Sessions, Report(s)
       PROVE  TypeOK'
  <2>1. Tail(todo[s]) \in Seq(Contents) /\ created' = created
    BY <1>10, DirType DEF Report, repoVars
  <2> QED
    BY <1>10, <2>1, ContinueType DEF Report, TypeOK, repoVars
<1>11. CASE UNCHANGED vars
  BY <1>11 DEF vars, repoVars, sessionVars, TypeOK
<1> QED
  BY <1>1, <1>2, <1>3, <1>4, <1>5, <1>6, <1>7, <1>8, <1>9, <1>10, <1>11
     DEF Next, Request, ListDirectoryFails, CreateTreeFails,
         UpdateBranchRefFails, CallFails

\* TypeOK, for every value of the constants: every session at work on a content
\* holds one, and every commit a session or branch refers to exists.
THEOREM TypeCorrect == Spec => []TypeOK
<1>1. Init => TypeOK
  BY InitTypeOK
<1>2. TypeOK /\ [Next]_vars => TypeOK'
  BY NextTypeOK
<1> QED
  BY <1>1, <1>2, PTL DEF Spec

-----------------------------------------------------------------------------
(* The invariant: how commits are related, and what a session knows of them. *)

\* Ancestors exist, an ancestor's ancestors are ancestors, and no two commits
\* are ancestors of each other.
Ancestry ==
    /\ \A c \in created : c \in history[c] /\ history[c] \subseteq created
    /\ \A a, b \in created : a \in history[b] => history[a] \subseteq history[b]
    /\ \A a, b \in created : a \in history[b] /\ b \in history[a] => a = b

\* What a session has read of the branch is an ancestor of the branch.
BaseInv(s) ==
    pc[s] \in {"list", "commit", "update"} => base[s] \in history[head[Branch]]

\* The commit of a session is built on its base, and only the session knows it.
CommitInv(s) ==
    pc[s] = "update" =>
        /\ tree[commit[s]] = NewTree(s)
        /\ history[commit[s]] = {commit[s]} \cup history[base[s]]
        /\ commit[s] # Root
        /\ \A b \in Branches : head[b] # commit[s]
        /\ \A t \in Sessions : base[t] # commit[s]
        /\ \A t \in Sessions : pc[t] = "update" /\ commit[t] = commit[s] => t = s

ExportInv ==
    /\ TypeOK
    /\ Ancestry
    /\ NothingLost
    /\ \A s \in Sessions : BaseInv(s) /\ CommitInv(s)

LEMMA InitExportInv == Init => ExportInv
<1> SUFFICES ASSUME Init PROVE ExportInv
  OBVIOUS
<1>1. TypeOK
  BY InitTypeOK
<1>2. Ancestry
  BY <1>1 DEF Init, Ancestry, TypeOK
<1>3. NothingLost
  BY DEF Init, NothingLost
<1>4. \A s \in Sessions : BaseInv(s) /\ CommitInv(s)
  BY DEF Init, BaseInv, CommitInv
<1> QED
  BY <1>1, <1>2, <1>3, <1>4 DEF ExportInv

\* What a new commit does to the commits that exist.
LEMMA NewCommitAncestry ==
    ASSUME ExportInv, NEW c, NEW p \in created, NEW t, NewCommit(c, p, t)
    PROVE  /\ Ancestry'
           /\ c \in created' /\ c \notin created
           /\ \A x \in created : tree'[x] = tree[x] /\ history'[x] = history[x]
           /\ tree'[c] = t
           /\ history'[c] = {c} \cup history[p]
<1>1. /\ c \in Commits /\ c \notin created
      /\ created' = created \cup {c}
      /\ \A x \in created : tree'[x] = tree[x] /\ history'[x] = history[x]
      /\ tree'[c] = t
      /\ history'[c] = {c} \cup history[p]
  BY DEF NewCommit, ExportInv, TypeOK
<1>2. \A x \in created' : x \in history'[x] /\ history'[x] \subseteq created'
  BY <1>1 DEF ExportInv, Ancestry
<1>3. ASSUME NEW a \in created', NEW b \in created', a \in history'[b]
      PROVE  history'[a] \subseteq history'[b]
  <2>1. CASE b \in created
    BY <1>1, <1>3, <2>1 DEF ExportInv, Ancestry
  <2>2. CASE b = c
    BY <1>1, <1>3, <2>2 DEF ExportInv, Ancestry
  <2> QED
    BY <1>1, <2>1, <2>2
<1>4. ASSUME NEW a \in created', NEW b \in created', a \in history'[b], b \in history'[a]
      PROVE  a = b
  BY <1>1, <1>4 DEF ExportInv, Ancestry
<1> QED
  BY <1>1, <1>2, <1>3, <1>4 DEF Ancestry

\* A session keeps its part of the invariant when it does nothing, no commit
\* changes, and a branch moves only forward, to nothing the session created.
LEMMA SessionFrame ==
    ASSUME ExportInv, TypeOK', NEW t \in Sessions,
           pc'[t] = pc[t], todo'[t] = todo[t], files'[t] = files[t],
           base'[t] = base[t], listed'[t] = listed[t], commit'[t] = commit[t],
           \A x \in created : tree'[x] = tree[x] /\ history'[x] = history[x],
           history[head[Branch]] \subseteq history'[head'[Branch]],
           pc[t] = "update" => \A b \in Branches : head'[b] # commit[t],
           pc[t] = "update" => \A u \in Sessions :
               /\ base'[u] # commit[t]
               /\ pc'[u] = "update" /\ commit'[u] = commit[t] => u = t
    PROVE  BaseInv(t)' /\ CommitInv(t)'
<1>1. base[t] \in created /\ commit[t] \in created
  BY DEF ExportInv, TypeOK
<1>2. BaseInv(t)'
  BY DEF ExportInv, BaseInv
<1>3. ASSUME pc[t] = "update"
      PROVE  NewTree(t)' = NewTree(t)
  <2>1. tree'[base'[t]] = tree[base[t]] /\ Dir(t)' = Dir(t)
    BY <1>1 DEF Dir
  <2>2. Exported(t)' = Exported(t)
    BY DEF Exported
  <2> QED
    BY <2>1, <2>2 DEF NewTree
<1>4. ASSUME pc[t] = "update"
      PROVE  /\ tree'[commit'[t]] = NewTree(t)'
             /\ history'[commit'[t]] = {commit'[t]} \cup history'[base'[t]]
             /\ commit'[t] # Root
  BY <1>1, <1>3, <1>4 DEF ExportInv, CommitInv
<1>5. CommitInv(t)'
  BY <1>4 DEF CommitInv
<1> QED
  BY <1>2, <1>5

\* What the other sessions have, when only session s takes a step.
Others(s) == \A t \in Sessions \ {s} :
    /\ pc'[t] = pc[t] /\ todo'[t] = todo[t] /\ files'[t] = files[t]
    /\ base'[t] = base[t] /\ listed'[t] = listed[t] /\ commit'[t] = commit[t]

LEMMA ContinueOthers ==
    ASSUME TypeOK, NEW s \in Sessions, NEW rest, Continue(s, rest)
    PROVE  /\ Others(s)
           /\ pc'[s] \in {"idle", "export"}
           /\ base'[s] = Root
BY DEF Continue, Others, TypeOK

\* Steps of a session that leave the repository as it is.
LEMMA LocalStep ==
    ASSUME ExportInv, TypeOK', NEW s \in Sessions, UNCHANGED repoVars, Others(s),
           pc'[s] # "update", BaseInv(s)',
           base'[s] \in {base[s], head[Branch], Root}
    PROVE  ExportInv'
<1>1. Ancestry' /\ NothingLost'
  BY DEF ExportInv, Ancestry, NothingLost, repoVars
<1>2. CommitInv(s)'
  BY DEF CommitInv
<1>3. ASSUME NEW t \in Sessions \ {s}
      PROVE  BaseInv(t)' /\ CommitInv(t)'
  <2>1. \A x \in created : tree'[x] = tree[x] /\ history'[x] = history[x]
    BY DEF repoVars
  <2>2. history[head[Branch]] \subseteq history'[head'[Branch]]
    BY DEF repoVars
  <2>3. pc[t] = "update" => \A b \in Branches : head'[b] # commit[t]
    BY DEF repoVars, ExportInv, CommitInv
  <2>4. ASSUME pc[t] = "update", NEW u \in Sessions
        PROVE  /\ base'[u] # commit[t]
               /\ pc'[u] = "update" /\ commit'[u] = commit[t] => u = t
    <3>1. CASE u = s
      BY <2>4, <3>1, GitHubAssumption DEF ExportInv, CommitInv
    <3>2. CASE u # s
      BY <2>4, <3>2 DEF Others, ExportInv, CommitInv
    <3> QED
      BY <3>1, <3>2
  <2> QED
    BY <2>1, <2>2, <2>3, <2>4, SessionFrame DEF Others
<1> QED
  BY <1>1, <1>2, <1>3 DEF ExportInv

\* Steps that create a commit, by a session or by somebody else.
LEMMA CommitStep ==
    ASSUME ExportInv, TypeOK', NEW c, NEW p \in created, NEW n,
           NewCommit(c, p, n), landed' = landed,
           history[head[Branch]] \subseteq history'[head'[Branch]],
           \A b \in Branches : head'[b] \in {head[b], c},
           NEW T, T \subseteq Sessions,
           \A t \in T :
               /\ pc'[t] = pc[t] /\ todo'[t] = todo[t] /\ files'[t] = files[t]
               /\ base'[t] = base[t] /\ listed'[t] = listed[t] /\ commit'[t] = commit[t],
           \A u \in Sessions : /\ base'[u] = base[u]
                               /\ pc'[u] = "update" => u \in T \/ commit'[u] = c
    PROVE  /\ Ancestry' /\ NothingLost'
           /\ \A t \in T : BaseInv(t)' /\ CommitInv(t)'
<1>1. /\ Ancestry'
      /\ c \notin created
      /\ \A x \in created : tree'[x] = tree[x] /\ history'[x] = history[x]
  BY NewCommitAncestry
<1>2. NothingLost'
  BY DEF ExportInv, NothingLost
<1>3. ASSUME NEW t \in T
      PROVE  BaseInv(t)' /\ CommitInv(t)'
  <2>1. commit[t] \in created /\ \A u \in Sessions : commit[u] \in created
    BY DEF ExportInv, TypeOK
  <2>2. pc[t] = "update" => \A b \in Branches : head'[b] # commit[t]
    BY <1>1, <2>1 DEF ExportInv, CommitInv
  <2>3. ASSUME pc[t] = "update", NEW u \in Sessions
        PROVE  /\ base'[u] # commit[t]
               /\ pc'[u] = "update" /\ commit'[u] = commit[t] => u = t
    BY <1>1, <2>1, <2>3 DEF ExportInv, CommitInv
  <2> QED
    BY <1>1, <2>2, <2>3, SessionFrame
<1> QED
  BY <1>1, <1>2, <1>3

LEMMA AbortInv ==
    ASSUME ExportInv, TypeOK', NEW s \in Sessions, Abort(s)
    PROVE  ExportInv'
<1>1. Others(s) /\ pc'[s] \in {"idle", "export"} /\ base'[s] = Root
  BY ContinueOthers DEF Abort, ExportInv
<1>2. BaseInv(s)'
  BY <1>1 DEF BaseInv
<1> QED
  BY <1>1, <1>2, LocalStep DEF Abort

LEMMA PushInv ==
    ASSUME ExportInv, TypeOK', NEW b \in Branches, Push(b)
    PROVE  ExportInv'
<1>0. \E c \in Commits, n \in Trees : NewCommit(c, head[b], n) /\ head' = [head EXCEPT ![b] = c]
  BY PushedTree DEF Push, ExportInv, TypeOK
<1>1. PICK c \in Commits, n \in Trees :
          NewCommit(c, head[b], n) /\ head' = [head EXCEPT ![b] = c]
  BY <1>0
<1>2. head[b] \in created /\ head[Branch] \in created
  BY GitHubAssumption DEF ExportInv, TypeOK
<1>3. /\ \A x \in created : history'[x] = history[x]
      /\ history'[c] = {c} \cup history[head[b]]
  BY <1>1, <1>2 DEF NewCommit, ExportInv, TypeOK
<1>4. history[head[Branch]] \subseteq history'[head'[Branch]]
  BY <1>1, <1>2, <1>3, GitHubAssumption DEF ExportInv, TypeOK
<1>5. \A x \in Branches : head'[x] \in {head[x], c}
  BY <1>1 DEF ExportInv, TypeOK
<1>6. /\ Ancestry' /\ NothingLost'
      /\ \A t \in Sessions : BaseInv(t)' /\ CommitInv(t)'
  <2>1. landed' = landed /\ UNCHANGED sessionVars
    BY DEF Push
  <2> QED
    BY <1>1, <1>2, <1>4, <1>5, <2>1, CommitStep DEF sessionVars
<1> QED
  BY <1>6 DEF ExportInv

LEMMA CreateCommitInv ==
    ASSUME ExportInv, TypeOK', NEW s \in Sessions, CreateCommit(s)
    PROVE  ExportInv'
<1>1. PICK c \in Commits : /\ NewCommit(c, base[s], NewTree(s))
                           /\ commit' = [commit EXCEPT ![s] = c]
  BY DEF CreateCommit
<1>2. base[s] \in created /\ head[Branch] \in created
  BY GitHubAssumption DEF ExportInv, TypeOK
<1>3. /\ c \notin created
      /\ \A x \in created : tree'[x] = tree[x] /\ history'[x] = history[x]
      /\ tree'[c] = NewTree(s)
      /\ history'[c] = {c} \cup history[base[s]]
  BY <1>1, <1>2, NewCommitAncestry
<1>4. /\ pc' = [pc EXCEPT ![s] = "update"]
      /\ UNCHANGED <<head, landed, todo, files, base, listed>>
  BY DEF CreateCommit
<1>5. history[head[Branch]] \subseteq history'[head'[Branch]]
  BY <1>2, <1>3, <1>4
<1>6. /\ Ancestry' /\ NothingLost'
      /\ \A t \in Sessions \ {s} : BaseInv(t)' /\ CommitInv(t)'
  <2>1. \A t \in Sessions \ {s} : pc'[t] = pc[t] /\ commit'[t] = commit[t]
    BY <1>1, <1>4 DEF ExportInv, TypeOK
  <2>2. commit'[s] = c
    BY <1>1 DEF ExportInv, TypeOK
  <2>3. \A x \in Branches : head'[x] \in {head[x], c}
    BY <1>4
  <2> DEFINE T == Sessions \ {s}
             n == NewTree(s)
  <2>4. NewCommit(c, base[s], n) /\ T \subseteq Sessions
    BY <1>1
  <2>5. /\ \A t \in T :
              /\ pc'[t] = pc[t] /\ todo'[t] = todo[t] /\ files'[t] = files[t]
              /\ base'[t] = base[t] /\ listed'[t] = listed[t] /\ commit'[t] = commit[t]
        /\ \A u \in Sessions : /\ base'[u] = base[u]
                               /\ pc'[u] = "update" => u \in T \/ commit'[u] = c
    BY <1>4, <2>1, <2>2
  <2> HIDE DEF T, n
  <2>6. /\ Ancestry' /\ NothingLost'
        /\ \A t \in T : BaseInv(t)' /\ CommitInv(t)'
    BY <1>2, <1>4, <1>5, <2>3, <2>4, <2>5, CommitStep
  <2> QED
    BY <2>6 DEF T
<1>7. BaseInv(s)'
  BY <1>2, <1>3, <1>4 DEF CreateCommit, ExportInv, BaseInv
<1>8. CommitInv(s)'
  <2>1. commit'[s] = c /\ \A t \in Sessions \ {s} : commit'[t] = commit[t]
    BY <1>1 DEF ExportInv, TypeOK
  <2>2. NewTree(s)' = NewTree(s)
    <3>1. tree'[base'[s]] = tree[base[s]] /\ Dir(s)' = Dir(s) /\ Exported(s)' = Exported(s)
      BY <1>2, <1>3, <1>4 DEF Dir, Exported
    <3> QED
      BY <1>4, <3>1 DEF NewTree
  <2>3. /\ Root \in created /\ head \in [Branches -> created]
        /\ base \in [Sessions -> created] /\ commit \in [Sessions -> created]
    BY DEF ExportInv, TypeOK
  <2> QED
    BY <1>3, <1>4, <2>1, <2>2, <2>3 DEF CommitInv
<1> QED
  BY <1>6, <1>7, <1>8 DEF ExportInv

\* GitHub moves the branch to the session's commit only if it still is where
\* the session read it.
LEMMA FastForwardFromBase ==
    ASSUME ExportInv, NEW s \in Sessions, pc[s] = "update", FastForward(s)
    PROVE  /\ head[Branch] = base[s]
           /\ head[Branch] # commit[s]
           /\ history[head[Branch]] \subseteq history[commit[s]]
<1>1. head[Branch] \in created /\ base[s] \in created /\ commit[s] \in created
  BY GitHubAssumption DEF ExportInv, TypeOK
<1>2. head[Branch] \in history[base[s]] /\ head[Branch] # commit[s]
  BY GitHubAssumption DEF ExportInv, CommitInv, FastForward
<1>3. base[s] \in history[head[Branch]]
  BY DEF ExportInv, BaseInv
<1>4. history[head[Branch]] \subseteq history[commit[s]]
  BY <1>1 DEF ExportInv, Ancestry, FastForward
<1> QED
  BY <1>1, <1>2, <1>3, <1>4 DEF ExportInv, Ancestry

LEMMA UpdateBranchRefInv ==
    ASSUME ExportInv, TypeOK', NEW s \in Sessions, UpdateBranchRef(s)
    PROVE  ExportInv'
<1>1. /\ pc[s] = "update" /\ FastForward(s)
      /\ head' = [head EXCEPT ![Branch] = commit[s]]
      /\ landed' = landed \cup {commit[s]}
      /\ UNCHANGED <<created, tree, history>>
  BY DEF UpdateBranchRef
<1>t. head \in [Branches -> created] /\ Branch \in Branches
  BY GitHubAssumption DEF ExportInv, TypeOK
<1>2. /\ head'[Branch] = commit[s]
      /\ \A b \in Branches : head'[b] \in {head[b], commit[s]}
  BY <1>1, <1>t
<1>3. Others(s) /\ pc'[s] # "update" /\ base'[s] \in {base[s], Root}
  <2>1. CASE pc' = [pc EXCEPT ![s] = "report"] /\ UNCHANGED <<todo, files, base, listed, commit>>
    BY <2>1 DEF ExportInv, TypeOK, Others
  <2>2. CASE Continue(s, <<>>)
    BY <2>2, ContinueOthers DEF ExportInv
  <2> QED
    BY <2>1, <2>2 DEF UpdateBranchRef
<1>4. pc'[s] \notin {"list", "commit", "update"}
  <2>1. CASE pc' = [pc EXCEPT ![s] = "report"]
    BY <2>1 DEF ExportInv, TypeOK
  <2>2. CASE Continue(s, <<>>)
    BY <2>2, ContinueOthers DEF ExportInv
  <2> QED
    BY <2>1, <2>2 DEF UpdateBranchRef
<1>5. history[head[Branch]] \subseteq history'[head'[Branch]]
  BY <1>1, <1>2, FastForwardFromBase
<1>6. Ancestry'
  BY <1>1 DEF ExportInv, Ancestry
<1>7. NothingLost'
  <2>1. commit[s] \in history[commit[s]]
    BY DEF ExportInv, Ancestry, TypeOK
  <2> QED
    BY <1>1, <1>2, <1>5, <2>1 DEF ExportInv, NothingLost
<1>8. BaseInv(s)' /\ CommitInv(s)'
  BY <1>4 DEF BaseInv, CommitInv
<1>9. ASSUME NEW t \in Sessions \ {s}
      PROVE  BaseInv(t)' /\ CommitInv(t)'
  <2>1. \A x \in created : tree'[x] = tree[x] /\ history'[x] = history[x]
    BY <1>1
  <2>2. pc[t] = "update" => \A b \in Branches : head'[b] # commit[t]
    BY <1>1, <1>2 DEF ExportInv, CommitInv
  <2>3. ASSUME pc[t] = "update", NEW u \in Sessions
        PROVE  /\ base'[u] # commit[t]
               /\ pc'[u] = "update" /\ commit'[u] = commit[t] => u = t
    <3>1. CASE u = s
      BY <1>3, <2>3, <3>1 DEF ExportInv, CommitInv
    <3>2. CASE u # s
      BY <1>3, <2>3, <3>2 DEF Others, ExportInv, CommitInv
    <3> QED
      BY <3>1, <3>2
  <2> QED
    BY <1>3, <1>5, <2>1, <2>2, <2>3, SessionFrame DEF Others
<1> QED
  BY <1>6, <1>7, <1>8, <1>9 DEF ExportInv

LEMMA NextExportInv == ExportInv /\ [Next]_vars => ExportInv'
<1> SUFFICES ASSUME ExportInv, [Next]_vars
             PROVE  ExportInv'
  OBVIOUS
<1>0. TypeOK'
  BY NextTypeOK DEF ExportInv
<1>1. CASE UNCHANGED <<repoVars, sessionVars>>
  <2>1. Ancestry' /\ NothingLost'
    BY <1>1 DEF ExportInv, Ancestry, NothingLost, repoVars
  <2>2. \A s \in Sessions : NewTree(s)' = NewTree(s)
    BY <1>1 DEF NewTree, Dir, Exported, repoVars, sessionVars
  <2>3. \A s \in Sessions : BaseInv(s)' /\ CommitInv(s)'
    BY <1>1, <2>2 DEF ExportInv, BaseInv, CommitInv, repoVars, sessionVars
  <2> QED
    BY <1>0, <2>1, <2>3 DEF ExportInv
<1>2. ASSUME NEW b \in Branches, Push(b)
      PROVE  ExportInv'
  BY <1>0, <1>2, PushInv
<1>3. ASSUME NEW s \in Sessions, Submit(s) \/ ExportContent(s)
      PROVE  ExportInv'
  <2>1. /\ UNCHANGED repoVars /\ Others(s)
        /\ pc'[s] \in {"export", "branch"} /\ base'[s] = base[s]
    BY <1>3 DEF Submit, ExportContent, Others, ExportInv, TypeOK
  <2> QED
    BY <1>0, <2>1, LocalStep DEF BaseInv
<1>4. ASSUME NEW s \in Sessions, GetBranchSha(s)
      PROVE  ExportInv'
  <2>1. /\ UNCHANGED repoVars /\ Others(s)
        /\ pc'[s] = "list" /\ base'[s] = head[Branch]
    BY <1>4 DEF GetBranchSha, Others, ExportInv, TypeOK
  <2>2. head[Branch] \in history[head[Branch]]
    BY GitHubAssumption DEF ExportInv, TypeOK, Ancestry
  <2>3. BaseInv(s)'
    BY <2>1, <2>2 DEF BaseInv, repoVars
  <2> QED
    BY <1>0, <2>1, <2>3, LocalStep
<1>5. ASSUME NEW s \in Sessions, ListDirectory(s)
      PROVE  ExportInv'
  <2>1. /\ UNCHANGED repoVars /\ Others(s)
        /\ pc'[s] = "commit" /\ base'[s] = base[s]
    BY <1>5 DEF ListDirectory, Others, ExportInv, TypeOK
  <2>2. BaseInv(s)'
    BY <1>5, <2>1 DEF ListDirectory, ExportInv, BaseInv, repoVars
  <2> QED
    BY <1>0, <2>1, <2>2, LocalStep
<1>6. ASSUME NEW s \in Sessions, Abort(s)
      PROVE  ExportInv'
  BY <1>0, <1>6, AbortInv
<1>7. ASSUME NEW s \in Sessions, CreateCommit(s)
      PROVE  ExportInv'
  BY <1>0, <1>7, CreateCommitInv
<1>8. ASSUME NEW s \in Sessions, UpdateBranchRef(s)
      PROVE  ExportInv'
  BY <1>0, <1>8, UpdateBranchRefInv
<1>9. ASSUME NEW s \in Sessions, Report(s)
      PROVE  ExportInv'
  <2>1. Others(s) /\ pc'[s] \in {"idle", "export"} /\ base'[s] = Root
    BY <1>9, ContinueOthers DEF Report, ExportInv
  <2> QED
    BY <1>0, <1>9, <2>1, LocalStep DEF Report, BaseInv
<1> QED
  BY <1>1, <1>2, <1>3, <1>4, <1>5, <1>6, <1>7, <1>8, <1>9
     DEF Next, Request, EditContent, vars, ListDirectoryFails, CreateTreeFails,
         UpdateBranchRefFails, CallFails

LEMMA ExportInvHolds == Spec => []ExportInv
<1>1. Init => ExportInv
  BY InitExportInv
<1>2. ExportInv /\ [Next]_vars => ExportInv'
  BY NextExportInv
<1> QED
  BY <1>1, <1>2, PTL DEF Spec

\* NothingLost: whoever moves the branch, and however requests interleave, no
\* commit that a request has put on the branch is lost again.
THEOREM NothingIsLost == Spec => []NothingLost
<1>1. ExportInv => NothingLost
  BY DEF ExportInv
<1> QED
  BY <1>1, ExportInvHolds, PTL

-----------------------------------------------------------------------------
(* What the commit that becomes the branch holds. *)

\* Commits that exist do not change.
LEMMA CommitsStay ==
    ASSUME ExportInv, Next
    PROVE  \A x \in created : tree'[x] = tree[x]
<1>1. ASSUME NEW b \in Branches, Push(b)
      PROVE  \A x \in created : tree'[x] = tree[x]
  BY <1>1 DEF Push, NewCommit, ExportInv, TypeOK
<1>2. ASSUME NEW s \in Sessions, CreateCommit(s)
      PROVE  \A x \in created : tree'[x] = tree[x]
  BY <1>2 DEF CreateCommit, NewCommit, ExportInv, TypeOK
<1>3. ASSUME NEW s \in Sessions, Request(s), ~CreateCommit(s)
      PROVE  tree' = tree
  BY <1>3 DEF Request, Submit, ExportContent, GetBranchSha, ListDirectory,
              ListDirectoryFails, CreateTreeFails, UpdateBranchRef,
              UpdateBranchRefFails, Report, CallFails, Abort, repoVars
<1> QED
  BY <1>1, <1>2, <1>3 DEF Next, EditContent, repoVars

\* Only UpdateBranchRef publishes the commit of a session.
LEMMA LandsByUpdate ==
    ASSUME ExportInv, Next, NEW s \in Sessions, Lands(s)
    PROVE  UpdateBranchRef(s)
<1>1. /\ pc[s] = "update" /\ commit[s] \in created
      /\ head[Branch] # commit[s] /\ head'[Branch] = commit[s]
  BY DEF Lands, ExportInv, TypeOK
<1>2. ASSUME NEW b \in Branches, Push(b)
      PROVE  FALSE
  BY <1>1, <1>2, GitHubAssumption DEF Push, NewCommit, ExportInv, TypeOK
<1>3. ASSUME NEW t \in Sessions, UpdateBranchRef(t)
      PROVE  t = s
  <2>1. pc[t] = "update" /\ head'[Branch] = commit[t]
    BY <1>3, GitHubAssumption DEF UpdateBranchRef, ExportInv, TypeOK
  <2> QED
    BY <1>1, <2>1 DEF ExportInv, CommitInv
<1>4. ASSUME NEW t \in Sessions, Request(t), ~UpdateBranchRef(t)
      PROVE  FALSE
  BY <1>1, <1>4 DEF Request, Submit, ExportContent, GetBranchSha, ListDirectory,
              ListDirectoryFails, CreateTreeFails, CreateCommit,
              UpdateBranchRefFails, Report, CallFails, Abort, repoVars
<1>5. ASSUME NEW c \in Contents, EditContent(c)
      PROVE  FALSE
  BY <1>1, <1>5 DEF EditContent, repoVars
<1> QED
  BY <1>2, <1>3, <1>4, <1>5 DEF Next

\* The published tree is the one the branch had, with the merged directory.
LEMMA LandedTree ==
    ASSUME ExportInv, NEW s \in Sessions, UpdateBranchRef(s)
    PROVE  /\ tree[commit[s]] = [tree[head[Branch]] EXCEPT ![Dir(s)] = Merged(s)]
           /\ Merged(s) \in Directories
           /\ tree' = tree /\ head'[Branch] = commit[s]
           /\ head[Branch] = base[s]
<1>1. pc[s] = "update" /\ FastForward(s) /\ tree' = tree
  BY DEF UpdateBranchRef
<1>2. head'[Branch] = commit[s]
  BY GitHubAssumption DEF UpdateBranchRef, ExportInv, TypeOK
<1>3. head[Branch] = base[s]
  BY <1>1, FastForwardFromBase
<1>4. tree[commit[s]] = NewTree(s)
  BY <1>1 DEF ExportInv, CommitInv
<1> QED
  BY <1>1, <1>2, <1>3, <1>4, NewTreeMerges DEF ExportInv

\* OwnDirectoryOnly: requests, pushes and reads may interleave as they like, a
\* published commit changes the content's own directory and nothing else.
THEOREM OwnDirectory == Spec => OwnDirectoryOnly
<1> DEFINE A == \A s \in Sessions : Lands(s) =>
                  LET old == tree[head[Branch]]
                      new == tree[commit[s]]
                  IN  /\ \A d \in Dirs \ {Dir(s)} : new[d] = old[d]
                      /\ \A f \in Exported(s) : new[Dir(s)][f] = files[s][f]
<1>1. ExportInv /\ [Next]_vars => [A]_vars
  <2> SUFFICES ASSUME ExportInv, Next, NEW s \in Sessions, Lands(s)
               PROVE  /\ \A d \in Dirs \ {Dir(s)} :
                            tree[commit[s]][d] = tree[head[Branch]][d]
                      /\ \A f \in Exported(s) :
                            tree[commit[s]][Dir(s)][f] = files[s][f]
    OBVIOUS
  <2>1. UpdateBranchRef(s)
    BY LandsByUpdate
  <2>2. tree[commit[s]] = [tree[head[Branch]] EXCEPT ![Dir(s)] = Merged(s)]
    BY <2>1, LandedTree
  <2>3. Dir(s) \in Dirs /\ tree[head[Branch]] \in [Dirs -> Directories]
    BY GitHubAssumption, DirType DEF Lands, ExportInv, TypeOK, Trees
  <2> QED
    BY <2>2, <2>3 DEF Merged, Exported
<1>2. Spec => [][A]_vars
  BY <1>1, ExportInvHolds, PTL DEF Spec
<1> QED
  BY <1>2 DEF OwnDirectoryOnly

-----------------------------------------------------------------------------
(* The refinement, when the configured branch is the default branch. *)

\* The directory a session has listed is the one of its base, unless the branch
\* has moved away from the base for good.
Listing(s) ==
    pc[s] \in {"commit", "update"} /\ head[Branch] = base[s] =>
        listed[s] = PathsIn(tree[base[s]], Dir(s))

ListingInv == \A s \in Sessions : Listing(s)

LEMMA ListingFrame ==
    ASSUME ExportInv, ListingInv, Next, NEW t \in Sessions,
           pc'[t] = pc[t], todo'[t] = todo[t], base'[t] = base[t], listed'[t] = listed[t],
           head'[Branch] = base[t] => head[Branch] = base[t]
    PROVE  Listing(t)'
<1>1. base[t] \in created
  BY DEF ExportInv, TypeOK
<1>2. tree'[base'[t]] = tree[base[t]] /\ Dir(t)' = Dir(t)
  BY <1>1, CommitsStay DEF Dir
<1> QED
  BY <1>2 DEF ListingInv, Listing, PathsIn

LEMMA NextListing ==
    ASSUME Branch = Default
    PROVE  ExportInv /\ ListingInv /\ [Next]_vars => ListingInv'
<1> SUFFICES ASSUME ExportInv, ListingInv, [Next]_vars
             PROVE  ListingInv'
  OBVIOUS
<1>1. CASE UNCHANGED <<repoVars, sessionVars>>
  BY <1>1 DEF ListingInv, Listing, PathsIn, Dir, repoVars, sessionVars
<1>2. ASSUME NEW b \in Branches, Push(b), Next
      PROVE  ListingInv'
  <2>1. \A t \in Sessions : head'[Branch] = base[t] => head[Branch] = base[t]
    BY <1>2, GitHubAssumption DEF Push, NewCommit, ExportInv, TypeOK
  <2> QED
    BY <1>2, <2>1, ListingFrame DEF Push, sessionVars, ListingInv
<1>3. ASSUME NEW s \in Sessions, Request(s), Next
      PROVE  ListingInv'
  <2>1. Others(s)
    <3>1. CASE Abort(s) \/ Report(s)
      BY <3>1, ContinueOthers DEF Abort, Report, ExportInv
    <3>2. CASE UpdateBranchRef(s)
      BY <3>2, ContinueOthers DEF UpdateBranchRef, ExportInv, TypeOK, Others
    <3>3. CASE CreateCommit(s)
      BY <3>3 DEF CreateCommit, ExportInv, TypeOK, Others
    <3>4. CASE Submit(s) \/ ExportContent(s) \/ GetBranchSha(s) \/ ListDirectory(s)
      BY <3>4 DEF Submit, ExportContent, GetBranchSha, ListDirectory,
                  ExportInv, TypeOK, Others
    <3> QED
      BY <1>3, <3>1, <3>2, <3>3, <3>4 DEF Request, ListDirectoryFails,
         CreateTreeFails, UpdateBranchRefFails, CallFails
  <2>2. ASSUME NEW t \in Sessions
        PROVE  head'[Branch] = base[t] => head[Branch] = base[t]
    <3>1. CASE UpdateBranchRef(s)
      BY <3>1, LandedTree DEF UpdateBranchRef, ExportInv, CommitInv
    <3>2. CASE ~UpdateBranchRef(s)
      BY <1>3, <3>2 DEF Request, Submit, ExportContent, GetBranchSha, ListDirectory,
              ListDirectoryFails, CreateTreeFails, CreateCommit,
              UpdateBranchRefFails, Report, CallFails, Abort, repoVars
    <3> QED
      BY <3>1, <3>2
  <2>3. \A t \in Sessions \ {s} : Listing(t)'
    BY <1>3, <2>1, <2>2, ListingFrame DEF Others
  <2>4. Listing(s)'
    <3>1. CASE ListDirectory(s)
      <4>1. /\ listed'[s] = PathsIn(tree[head[Branch]], Dir(s))
            /\ UNCHANGED <<tree, head>> /\ Dir(s)' = Dir(s)
        BY <3>1 DEF ListDirectory, ExportInv, TypeOK, repoVars, Dir
      <4> QED
        BY <4>1 DEF Listing, PathsIn
    <3>2. CASE CreateCommit(s)
      <4>1. /\ pc[s] = "commit" /\ pc'[s] = "update"
            /\ UNCHANGED <<head, todo, base, listed>>
        BY <3>2 DEF CreateCommit, ExportInv, TypeOK
      <4>2. tree'[base[s]] = tree[base[s]] /\ Dir(s)' = Dir(s)
        BY <1>3, <4>1, CommitsStay DEF ExportInv, TypeOK, Dir
      <4> QED
        BY <4>1, <4>2 DEF Listing, ListingInv, PathsIn
    <3>3. CASE ~ListDirectory(s) /\ ~CreateCommit(s)
      <4>1. pc'[s] \notin {"commit", "update"}
        <5>1. CASE Abort(s) \/ Report(s)
          BY <5>1, ContinueOthers DEF Abort, Report, ExportInv
        <5>2. CASE UpdateBranchRef(s)
          BY <5>2, ContinueOthers DEF UpdateBranchRef, ExportInv, TypeOK
        <5>3. CASE Submit(s) \/ ExportContent(s) \/ GetBranchSha(s)
          BY <5>3 DEF Submit, ExportContent, GetBranchSha, ExportInv, TypeOK
        <5> QED
          BY <1>3, <3>3, <5>1, <5>2, <5>3 DEF Request, ListDirectoryFails,
             CreateTreeFails, UpdateBranchRefFails, CallFails
      <4> QED
        BY <4>1 DEF Listing
    <3> QED
      BY <3>1, <3>2, <3>3
  <2> QED
    BY <2>3, <2>4 DEF ListingInv
<1> QED
  BY <1>1, <1>2, <1>3 DEF Next, EditContent, vars

Published == tree[head[Branch]]
Exports   == [s \in Sessions |-> Pending(s)]

\* A session's pending export depends on nothing but the session.
LEMMA OthersPending ==
    ASSUME NEW s \in Sessions, Others(s)
    PROVE  Exports' = [Exports EXCEPT ![s] = Pending(s)']
BY DEF Others, Exports, Pending

LEMMA PublishesWhole ==
    ASSUME ExportInv, ListingInv, NEW s \in Sessions, UpdateBranchRef(s)
    PROVE  /\ Published' = [Published EXCEPT ![Dir(s)] = files[s]]
           /\ Pending(s)' = {}
           /\ Others(s)
<1>1. pc[s] = "update"
  BY DEF UpdateBranchRef
<1>2. Merged(s) = files[s]
  <2>1. listed[s] = PathsIn(tree[base[s]], Dir(s))
    BY <1>1, LandedTree DEF ListingInv, Listing
  <2>2. files[s] \in [Files -> Versions \cup {Absent}]
    BY DEF ExportInv, TypeOK, Directories
  <2> QED
    BY <2>1, <2>2 DEF Merged, Exported, PathsIn
<1>3. Published' = [Published EXCEPT ![Dir(s)] = files[s]]
  BY <1>2, LandedTree DEF Published
<1>4. CASE Continue(s, <<>>)
  BY <1>3, <1>4, ContinueOthers DEF ExportInv, Pending
<1>5. CASE pc' = [pc EXCEPT ![s] = "report"] /\ UNCHANGED <<todo, files, base, listed, commit>>
  BY <1>3, <1>5 DEF ExportInv, TypeOK, Others, Pending
<1> QED
  BY <1>4, <1>5 DEF UpdateBranchRef

LEMMA NextPublication ==
    ASSUME Branch = Default
    PROVE  ExportInv /\ ListingInv /\ [Next]_vars =>
             [Publication!Next]_<<local, Published, Exports>>
<1> SUFFICES ASSUME ExportInv, ListingInv, [Next]_vars
             PROVE  Publication!Next \/ UNCHANGED <<local, Published, Exports>>
  BY DEF Published, Exports
<1>t. head[Branch] \in created /\ Published \in Trees
  BY GitHubAssumption DEF ExportInv, TypeOK, Published
<1>1. ASSUME NEW c \in Contents, EditContent(c)
      PROVE  Publication!Next
  <2>1. local' \in [Contents -> Directories]
    BY <1>1, NextTypeOK DEF ExportInv, TypeOK
  <2>2. UNCHANGED <<Published, Exports>>
    BY <1>1 DEF EditContent, repoVars, sessionVars, Published, Exports, Pending
  <2>3. Publication!Edit
    BY <2>1, <2>2 DEF Publication!Edit, Published, Exports
  <2> QED
    BY <2>3 DEF Publication!Next
<1>2. ASSUME NEW b \in Branches, Push(b)
      PROVE  Publication!Next \/ UNCHANGED <<local, Published, Exports>>
  <2>1. PICK c \in Commits, d \in Dirs, f \in Files, v \in Versions \cup {Absent} :
            /\ NewCommit(c, head[b], [tree[head[b]] EXCEPT ![d][f] = v])
            /\ head' = [head EXCEPT ![b] = c]
    BY <1>2 DEF Push
  <2>2. UNCHANGED <<local, Exports>>
    BY <1>2 DEF Push, sessionVars, Exports, Pending
  <2>3. CASE b = Branch
    <3> DEFINE new == [Published[d] EXCEPT ![f] = v]
    <3>1. tree'[c] = [tree[head[b]] EXCEPT ![d][f] = v] /\ head'[Branch] = c
      BY <2>1, <2>3, GitHubAssumption DEF NewCommit, ExportInv, TypeOK
    <3>2. new \in Directories
      BY <1>t, PushedTree
    <3>3. Published' = [Published EXCEPT ![d] = new]
      BY <2>3, <3>1, <1>t, PushedTree DEF Published
    <3>4. d \in DOMAIN Published
      BY <1>t DEF Trees
    <3> HIDE DEF new
    <3>5. Publication!Push
      BY <2>2, <3>2, <3>3, <3>4 DEF Publication!Push, Published, Exports
    <3> QED
      BY <3>5 DEF Publication!Next
  <2>4. CASE b # Branch
    <3>1. head'[Branch] = head[Branch]
      BY <2>1, <2>4, GitHubAssumption DEF ExportInv, TypeOK
    <3>2. tree'[head[Branch]] = tree[head[Branch]]
      BY <1>t, <2>1 DEF NewCommit, ExportInv, TypeOK
    <3> QED
      BY <2>2, <3>1, <3>2 DEF Published
  <2> QED
    BY <2>3, <2>4
<1>3. ASSUME NEW s \in Sessions, ExportContent(s)
      PROVE  Publication!Next
  <2>1. /\ UNCHANGED <<local, Published>> /\ Others(s)
        /\ Pending(s)' = {[content |-> Head(todo[s]), files |-> local[Head(todo[s])]]}
    BY <1>3 DEF ExportContent, Others, ExportInv, TypeOK, repoVars, Published, Pending
  <2>2. Head(todo[s]) \in Contents
    BY <1>3, DirType DEF ExportContent, ExportInv
  <2>3. Publication!Export(s, Head(todo[s]))
    BY <2>1, OthersPending DEF Publication!Export, Published, Exports
  <2> QED
    BY <2>2, <2>3 DEF Publication!Next
<1>4. ASSUME NEW s \in Sessions, UpdateBranchRef(s)
      PROVE  Publication!Next
  <2> DEFINE e == [content |-> Head(todo[s]), files |-> files[s]]
  <2>1. e \in Exports[s]
    BY <1>4 DEF UpdateBranchRef, Exports, Pending
  <2>2. /\ Published' = [Published EXCEPT ![DirOf[e.content]] = e.files]
        /\ Exports' = [Exports EXCEPT ![s] = {}]
        /\ UNCHANGED local
    BY <1>4, PublishesWhole, OthersPending DEF Dir, UpdateBranchRef
  <2> HIDE DEF e
  <2>3. Publication!Publish(s)
    BY <2>1, <2>2 DEF Publication!Publish, Published, Exports
  <2> QED
    BY <2>3 DEF Publication!Next
<1>5. ASSUME NEW s \in Sessions, Abort(s) \/ Report(s)
      PROVE  Publication!Next
  <2>1. UNCHANGED <<local, Published>>
    BY <1>5 DEF Abort, Report, repoVars, Published
  <2>2. Exports' = [Exports EXCEPT ![s] = {}]
    <3>1. Others(s) /\ Pending(s)' = {}
      BY <1>5, ContinueOthers DEF Abort, Report, ExportInv, Pending
    <3> QED
      BY <3>1, OthersPending
  <2>3. Publication!GiveUp(s)
    BY <2>1, <2>2 DEF Publication!GiveUp, Published, Exports
  <2> QED
    BY <2>3 DEF Publication!Next
<1>6. ASSUME NEW s \in Sessions, CreateCommit(s)
      PROVE  UNCHANGED <<local, Published, Exports>>
  <2>1. UNCHANGED <<local, head, todo, files>> /\ pc' = [pc EXCEPT ![s] = "update"]
        /\ pc[s] = "commit"
    BY <1>6 DEF CreateCommit
  <2>2. Published' = Published
    BY <1>6, <1>t, <2>1, CommitsStay DEF Published, Next, Request
  <2>3. Exports' = Exports
    BY <2>1 DEF Exports, Pending, ExportInv, TypeOK
  <2> QED
    BY <2>1, <2>2, <2>3
<1>7. ASSUME NEW s \in Sessions, Submit(s) \/ GetBranchSha(s) \/ ListDirectory(s)
      PROVE  UNCHANGED <<local, Published, Exports>>
  <2>1. UNCHANGED <<local, Published>> /\ Others(s)
    BY <1>7 DEF Submit, GetBranchSha, ListDirectory, Others, ExportInv, TypeOK,
                repoVars, Published
  <2>2. Pending(s)' = Pending(s)
    BY <1>7 DEF Submit, GetBranchSha, ListDirectory, Pending, ExportInv, TypeOK
  <2> QED
    BY <2>1, <2>2, OthersPending DEF Exports
<1>8. CASE UNCHANGED vars
  BY <1>8 DEF vars, repoVars, sessionVars, Published, Exports, Pending
<1> QED
  BY <1>1, <1>2, <1>3, <1>4, <1>5, <1>6, <1>7, <1>8
     DEF Next, Request, ListDirectoryFails, CreateTreeFails,
         UpdateBranchRefFails, CallFails

\* ImplementsPublication: with the default branch configured, an export replaces
\* the content's whole directory in one step, or does nothing, for any number of
\* requests, pushes, branches and files.
THEOREM PublicationImplemented ==
    ASSUME Branch = Default PROVE Spec => ImplementsPublication
<1>1. Init => ExportInv /\ ListingInv
  BY InitExportInv DEF Init, ListingInv, Listing
<1>2. ExportInv /\ ListingInv /\ [Next]_vars => ExportInv' /\ ListingInv'
  BY NextExportInv, NextListing
<1>3. Init => Publication!Init
  BY InitTypeOK DEF Init, TypeOK, Publication!Init, Pending
<1>4. ExportInv /\ ListingInv /\ [Next]_vars => [Publication!Next]_(Publication!vars)
  BY NextPublication DEF Publication!vars, Published, Exports
<1> QED
  BY <1>1, <1>2, <1>3, <1>4, PTL DEF Spec, ImplementsPublication, Publication!Spec
=============================================================================
