------------------------- MODULE GitLabExport_proofs -------------------------
(***************************************************************************)
(* Proofs about GitLabExport, for every set of contents, files, requests   *)
(* and sessions.                                                           *)
(***************************************************************************)
EXTENDS GitLabExport, FiniteSetTheorems, TLAPS

-----------------------------------------------------------------------------
(* Type correctness. *)

LEMMA NoFilesType == NoFiles \in Directories /\ NoActions \in [Files -> Actions]
BY DEF NoFiles, Directories, NoActions, Actions

LEMMA DirType ==
    ASSUME TypeOK, NEW s \in Sessions, pc[s] # "idle"
    PROVE  /\ Head(todo[s]) \in Contents
           /\ Tail(todo[s]) \in Seq(Contents)
           /\ Dir(s) \in Dirs
BY GitLabAssumption DEF TypeOK, Dir

\* Changing one file of one directory.
LEMMA WithFileType ==
    ASSUME NEW S, NEW g \in [S -> Directories], NEW d \in S, NEW f \in Files,
           NEW v \in Versions \cup {Absent}
    PROVE  /\ [g[d] EXCEPT ![f] = v] \in Directories
           /\ [g EXCEPT ![d][f] = v] = [g EXCEPT ![d] = [g[d] EXCEPT ![f] = v]]
           /\ [g EXCEPT ![d][f] = v] \in [S -> Directories]
<1>1. g[d] \in Directories
  OBVIOUS
<1>2. [g[d] EXCEPT ![f] = v] \in Directories
  BY <1>1 DEF Directories
<1>3. [g EXCEPT ![d][f] = v] = [g EXCEPT ![d] = [g[d] EXCEPT ![f] = v]]
  OBVIOUS
<1> QED
  BY <1>2, <1>3

\* The directory an accepted commit leaves behind.
Committed(s) ==
    [f \in Files |-> CASE actions[s][f] = "none"   -> published[Dir(s)][f]
                       [] actions[s][f] = "delete" -> Absent
                       [] OTHER                    -> files[s][f]]

LEMMA CommittedType ==
    ASSUME TypeOK, NEW s \in Sessions, CreateCommit(s)
    PROVE  /\ Committed(s) \in Directories
           /\ Dir(s) \in Dirs
           /\ published' = [published EXCEPT ![Dir(s)] = Committed(s)]
<1>1. Dir(s) \in Dirs /\ pc[s] = "commit"
  BY DirType DEF CreateCommit
<1>2. /\ published[Dir(s)] \in [Files -> Versions \cup {Absent}]
      /\ files[s] \in [Files -> Versions \cup {Absent}]
      /\ actions[s] \in [Files -> Actions]
  BY <1>1 DEF TypeOK, Directories
<1>3. Committed(s) \in Directories
  BY <1>2 DEF Committed, Directories
<1>4. published' = [published EXCEPT ![Dir(s)] = Committed(s)]
  BY <1>1 DEF CreateCommit, Committed, TypeOK
<1> QED
  BY <1>1, <1>3, <1>4

LEMMA ContinueType ==
    ASSUME TypeOK, NEW s \in Sessions, NEW rest \in Seq(Contents), Continue(s, rest)
    PROVE  /\ pc' \in [Sessions -> PC]
           /\ todo' \in [Sessions -> Seq(Contents)]
           /\ files' \in [Sessions -> Directories]
           /\ actions' \in [Sessions -> [Files -> Actions]]
           /\ \A t \in Sessions : pc'[t] # "idle" => todo'[t] # <<>>
BY NoFilesType DEF TypeOK, Continue, PC

LEMMA InitTypeOK == Init => TypeOK
BY NoFilesType DEF Init, TypeOK, PC

LEMMA NextTypeOK == TypeOK /\ [Next]_vars => TypeOK'
<1> SUFFICES ASSUME TypeOK, [Next]_vars
             PROVE  TypeOK'
  OBVIOUS
<1>e. <<>> \in Seq(Contents)
  OBVIOUS
<1>1. ASSUME NEW c \in Contents, EditContent(c)
      PROVE  TypeOK'
  <2>1. PICK f \in Files, v \in Versions \cup {Absent} :
            local' = [local EXCEPT ![c][f] = v]
    BY <1>1 DEF EditContent
  <2>2. local' \in [Contents -> Directories]
    <3>1. local \in [Contents -> Directories]
      BY DEF TypeOK
    <3> QED
      BY <2>1, <3>1, WithFileType
  <2> QED
    BY <1>1, <2>2 DEF EditContent, TypeOK, sessionVars
<1>2. ASSUME Push
      PROVE  TypeOK'
  <2>1. PICK d \in Dirs, f \in Files, v \in Versions \cup {Absent} :
            published' = [published EXCEPT ![d][f] = v]
    BY <1>2 DEF Push
  <2>2. published' \in [Dirs -> Directories]
    <3>1. published \in [Dirs -> Directories]
      BY DEF TypeOK
    <3> QED
      BY <2>1, <3>1, WithFileType
  <2> QED
    BY <1>2, <2>2 DEF Push, TypeOK, sessionVars
<1>3. ASSUME NEW s \in Sessions, Submit(s)
      PROVE  TypeOK'
  BY <1>3, GitLabAssumption DEF Submit, TypeOK, PC
<1>4. ASSUME NEW s \in Sessions, ExportContent(s)
      PROVE  TypeOK'
  <2>1. local[Head(todo[s])] \in Directories
    BY <1>4, DirType DEF ExportContent, TypeOK
  <2> QED
    BY <1>4, <2>1 DEF ExportContent, TypeOK, PC
<1>5. ASSUME NEW s \in Sessions, NEW f \in Files, CheckFile(s, f)
      PROVE  TypeOK'
  <2>1. \E mode \in Actions : actions' = [actions EXCEPT ![s][f] = mode]
    BY <1>5 DEF CheckFile, Mark, Actions
  <2>2. actions' \in [Sessions -> [Files -> Actions]]
    BY <2>1 DEF TypeOK
  <2> QED
    BY <1>5, <2>2 DEF CheckFile, TypeOK
<1>6. ASSUME NEW s \in Sessions, SetDeletedFiles(s)
      PROVE  TypeOK'
  <2>1. actions' \in [Sessions -> [Files -> Actions]]
    BY <1>6 DEF SetDeletedFiles, TypeOK, Actions
  <2> QED
    BY <1>6, <2>1 DEF SetDeletedFiles, TypeOK, PC
<1>7. ASSUME NEW s \in Sessions, Abort(s)
      PROVE  TypeOK'
  BY <1>7, <1>e, ContinueType DEF Abort, TypeOK
<1>8. ASSUME NEW s \in Sessions, CreateCommit(s)
      PROVE  TypeOK'
  <2>1. published' \in [Dirs -> Directories] /\ local' = local
    BY <1>8, CommittedType DEF CreateCommit, TypeOK
  <2>2. CASE pc' = [pc EXCEPT ![s] = "report"] /\ UNCHANGED <<todo, files, actions>>
    BY <1>8, <2>1, <2>2 DEF CreateCommit, TypeOK, PC
  <2>3. CASE Continue(s, <<>>)
    BY <2>1, <2>3, <1>e, ContinueType DEF TypeOK
  <2> QED
    BY <1>8, <2>2, <2>3 DEF CreateCommit
<1>9. ASSUME NEW s \in Sessions, Report(s)
      PROVE  TypeOK'
  <2>1. Tail(todo[s]) \in Seq(Contents)
    BY <1>9, DirType DEF Report
  <2> QED
    BY <1>9, <2>1, ContinueType DEF Report, TypeOK
<1>10. CASE UNCHANGED vars
  BY <1>10 DEF vars, sessionVars, TypeOK
<1> QED
  BY <1>1, <1>2, <1>3, <1>4, <1>5, <1>6, <1>7, <1>8, <1>9, <1>10
     DEF Next, Request, SetDeletedFilesFails, CreateCommitFails, CallFails

\* TypeOK, for every value of the constants.
THEOREM TypeCorrect == Spec => []TypeOK
<1> QED
  BY InitTypeOK, NextTypeOK, PTL DEF Spec

-----------------------------------------------------------------------------
(* Accepted commits. *)

\* Only exported files are created or updated, only others are deleted, and
\* nothing exported is left out of the commit that is posted.
ActionsInv ==
    \A s \in Sessions, f \in Files :
        /\ actions[s][f] \in {"create", "update"} => f \in Exported(s)
        /\ actions[s][f] = "delete" => f \notin Exported(s)
        /\ pc[s] = "commit" /\ f \in Exported(s) => actions[s][f] # "none"
        /\ pc[s] \in {"idle", "export"} => actions[s][f] = "none"

\* What the other sessions have, when only session s takes a step.
Others(s) == \A t \in Sessions \ {s} :
    /\ pc'[t] = pc[t] /\ todo'[t] = todo[t]
    /\ files'[t] = files[t] /\ actions'[t] = actions[t]

LEMMA ContinueOthers ==
    ASSUME TypeOK, NEW s \in Sessions, NEW rest, Continue(s, rest)
    PROVE  /\ Others(s)
           /\ pc'[s] \in {"idle", "export"}
           /\ actions'[s] = NoActions
           /\ files'[s] = NoFiles
BY DEF Continue, Others, TypeOK

LEMMA RequestOthers ==
    ASSUME TypeOK, NEW s \in Sessions, Request(s)
    PROVE  Others(s)
<1>1. CASE Abort(s) \/ Report(s)
  BY <1>1, ContinueOthers DEF Abort, Report
<1>2. CASE CreateCommit(s)
  BY <1>2, ContinueOthers DEF CreateCommit, TypeOK, Others
<1>3. CASE Submit(s) \/ ExportContent(s) \/ SetDeletedFiles(s)
  BY <1>3 DEF Submit, ExportContent, SetDeletedFiles, TypeOK, Others
<1>4. ASSUME NEW f \in Files, CheckFile(s, f)
      PROVE  Others(s)
  BY <1>4 DEF CheckFile, Mark, TypeOK, Others
<1> QED
  BY <1>1, <1>2, <1>3, <1>4
     DEF Request, SetDeletedFilesFails, CreateCommitFails, CallFails

\* It is enough to look at the session that takes the step.
LEMMA ActionsFrame ==
    ASSUME TypeOK, ActionsInv, NEW s \in Sessions, Request(s),
           \A f \in Files :
              /\ actions'[s][f] \in {"create", "update"} => files'[s][f] # Absent
              /\ actions'[s][f] = "delete" => files'[s][f] = Absent
              /\ pc'[s] = "commit" /\ files'[s][f] # Absent => actions'[s][f] # "none"
              /\ pc'[s] \in {"idle", "export"} => actions'[s][f] = "none"
    PROVE  ActionsInv'
BY RequestOthers DEF Others, ActionsInv, Exported

LEMMA NextActions == TypeOK /\ ActionsInv /\ [Next]_vars => ActionsInv'
<1> SUFFICES ASSUME TypeOK, ActionsInv, [Next]_vars
             PROVE  ActionsInv'
  OBVIOUS
<1>1. CASE UNCHANGED sessionVars
  BY <1>1 DEF ActionsInv, Exported, sessionVars
<1>2. ASSUME NEW s \in Sessions, Request(s)
      PROVE  ActionsInv'
  <2>1. CASE Abort(s) \/ Report(s)
    BY <1>2, <2>1, ContinueOthers, ActionsFrame DEF Abort, Report, NoActions
  <2>2. CASE Submit(s)
    BY <1>2, <2>2, ActionsFrame DEF Submit, TypeOK, ActionsInv, Exported
  <2>3. CASE ExportContent(s)
    BY <1>2, <2>3, ActionsFrame DEF ExportContent, TypeOK, ActionsInv
  <2>4. ASSUME NEW f \in Files, CheckFile(s, f)
        PROVE  ActionsInv'
    <3>1. /\ pc'[s] = "check" /\ files'[s] = files[s] /\ f \in Exported(s)
          /\ \E mode \in {"create", "update"} : actions' = [actions EXCEPT ![s][f] = mode]
      BY <2>4 DEF CheckFile, Mark
    <3>2. actions'[s][f] \in {"create", "update"}
      BY <3>1 DEF TypeOK
    <3>3. \A g \in Files \ {f} : actions'[s][g] = actions[s][g]
      BY <3>1 DEF TypeOK
    <3> QED
      BY <1>2, <3>1, <3>2, <3>3, ActionsFrame DEF ActionsInv, Exported
  <2>5. CASE SetDeletedFiles(s)
    <3>1. PICK page : actions' = [actions EXCEPT ![s] =
              [f \in Files |-> IF f \in Deleted(s, page) THEN "delete" ELSE @[f]]]
      BY <2>5 DEF SetDeletedFiles
    <3>2. /\ files' = files /\ pc'[s] = "commit" /\ Checked(s)
          /\ \A f \in Files : actions'[s][f] = IF f \in Deleted(s, page) THEN "delete"
                                              ELSE actions[s][f]
      BY <2>5, <3>1 DEF SetDeletedFiles, TypeOK
    <3> QED
      BY <1>2, <3>2, ActionsFrame DEF ActionsInv, Exported, Checked, Deleted
  <2>6. CASE CreateCommit(s)
    <3>1. CASE pc' = [pc EXCEPT ![s] = "report"] /\ UNCHANGED <<todo, files, actions>>
      BY <1>2, <3>1, ActionsFrame DEF TypeOK, ActionsInv, Exported
    <3>2. CASE Continue(s, <<>>)
      BY <1>2, <3>2, ContinueOthers, ActionsFrame DEF NoActions
    <3> QED
      BY <2>6, <3>1, <3>2 DEF CreateCommit
  <2> QED
    BY <1>2, <2>1, <2>2, <2>3, <2>4, <2>5, <2>6
       DEF Request, SetDeletedFilesFails, CreateCommitFails, CallFails
<1> QED
  BY <1>1, <1>2 DEF Next, EditContent, Push, vars

LEMMA ActionsInvHolds == Spec => [](TypeOK /\ ActionsInv)
<1>1. Init => TypeOK /\ ActionsInv
  BY InitTypeOK DEF Init, ActionsInv, NoActions, Exported, NoFiles
<1>2. TypeOK /\ ActionsInv /\ [Next]_vars => TypeOK' /\ ActionsInv'
  BY NextTypeOK, NextActions
<1> QED
  BY <1>1, <1>2, PTL DEF Spec

\* Only CreateCommit makes an accepted commit.
LEMMA LandsByCommit ==
    ASSUME TypeOK, Next, NEW s \in Sessions, Lands(s)
    PROVE  CreateCommit(s)
<1>1. pc[s] = "commit" /\ pc'[s] # "commit" /\ published' # published
  BY DEF Lands
<1>2. PICK t \in Sessions : Request(t)
  BY <1>1 DEF Next, EditContent, Push, sessionVars
<1>3. t = s
  BY <1>1, <1>2, RequestOthers DEF Others
<1> QED
  BY <1>1, <1>2, <1>3 DEF Request, Submit, ExportContent, CheckFile,
     SetDeletedFiles, SetDeletedFilesFails, CreateCommitFails, Report, CallFails, Abort

\* CommitKeepsPromise: whatever the branch became since the request looked at
\* it, an accepted commit leaves the files as they were exported and touches no
\* other directory.
THEOREM PromiseKept == Spec => CommitKeepsPromise
<1> DEFINE A == \A s \in Sessions : Lands(s) =>
            /\ \A f \in Exported(s) : published'[Dir(s)][f] = files[s][f]
            /\ \A f \in Files : actions[s][f] = "delete" => published'[Dir(s)][f] = Absent
            /\ \A d \in Dirs \ {Dir(s)} : published'[d] = published[d]
<1>1. TypeOK /\ ActionsInv /\ [Next]_vars => [A]_vars
  <2> SUFFICES ASSUME TypeOK, ActionsInv, Next, NEW s \in Sessions, Lands(s)
               PROVE  /\ \A f \in Exported(s) : published'[Dir(s)][f] = files[s][f]
                      /\ \A f \in Files : actions[s][f] = "delete" => published'[Dir(s)][f] = Absent
                      /\ \A d \in Dirs \ {Dir(s)} : published'[d] = published[d]
    OBVIOUS
  <2>1. CreateCommit(s)
    BY LandsByCommit
  <2>2. Dir(s) \in Dirs /\ published' = [published EXCEPT ![Dir(s)] = Committed(s)]
    BY <2>1, CommittedType
  <2>3. /\ published'[Dir(s)] = Committed(s)
        /\ \A d \in Dirs \ {Dir(s)} : published'[d] = published[d]
    BY <2>2 DEF TypeOK
  <2>4. \A f \in Exported(s) : f \in Files /\ actions[s][f] \notin {"none", "delete"}
    BY <2>1 DEF CreateCommit, ActionsInv, Exported
  <2> QED
    BY <2>3, <2>4 DEF Committed
<1>2. Spec => [][A]_vars
  BY <1>1, ActionsInvHolds, PTL DEF Spec
<1> QED
  BY <1>2 DEF CommitKeepsPromise

-----------------------------------------------------------------------------
(* The refinement, for a request that has the branch for itself. *)

\* One request at a time, nobody else pushes, no call fails, and a directory
\* fits into the page that is read.
Alone == /\ \A s, t \in Sessions : s = t
         /\ Env = {}
         /\ Cardinality(Files) <= PageSize

\* What the request found out about the branch still holds.
FoundInv ==
    \A s \in Sessions, f \in Files :
        /\ actions[s][f] = "create" /\ pc[s] \in {"check", "commit"} => f \notin PathsIn(Dir(s))
        /\ actions[s][f] \in {"update", "delete"} /\ pc[s] \in {"check", "commit"} => f \in PathsIn(Dir(s))
        /\ pc[s] = "commit" /\ f \notin Exported(s) /\ f \in PathsIn(Dir(s)) => actions[s][f] = "delete"

LEMMA WholePage ==
    ASSUME Alone, NEW d, NEW page \in FirstPages(d)
    PROVE  page = PathsIn(d)
<1>1. page \subseteq PathsIn(d) /\ PathsIn(d) \subseteq Files
  BY DEF FirstPages, PathsIn
<1>2. CASE Cardinality(page) = PageSize
  <2>1. page = Files
    <3>1. IsFiniteSet(Files) /\ page \subseteq Files /\ PageSize \in Nat
      BY <1>1, GitLabAssumption
    <3>2. Cardinality(page) \in Nat /\ Cardinality(Files) \in Nat
          /\ (Cardinality(page) = Cardinality(Files) => page = Files)
          /\ Cardinality(page) <= Cardinality(Files)
      BY <3>1, FS_Subset, FS_CardinalityType
    <3> QED
      BY <1>2, <3>1, <3>2 DEF Alone
  <2> QED
    BY <1>1, <2>1
<1> QED
  BY <1>2 DEF FirstPages

LEMMA NextFound ==
    ASSUME Alone
    PROVE  TypeOK /\ ActionsInv /\ FoundInv /\ [Next]_vars => FoundInv'
<1> SUFFICES ASSUME TypeOK, ActionsInv, FoundInv, [Next]_vars
             PROVE  FoundInv'
  OBVIOUS
<1>1. CASE UNCHANGED <<published, sessionVars>>
  BY <1>1 DEF FoundInv, PathsIn, Dir, Exported, sessionVars
<1>2. ASSUME NEW s \in Sessions, Request(s)
      PROVE  FoundInv'
  <2> SUFFICES ASSUME NEW f \in Files
               PROVE  /\ actions'[s][f] = "create" /\ pc'[s] \in {"check", "commit"} =>
                            f \notin PathsIn(Dir(s))'
                      /\ actions'[s][f] \in {"update", "delete"} /\ pc'[s] \in {"check", "commit"} =>
                            f \in PathsIn(Dir(s))'
                      /\ pc'[s] = "commit" /\ f \notin Exported(s)' /\ f \in PathsIn(Dir(s))' =>
                            actions'[s][f] = "delete"
    BY DEF Alone, FoundInv
  <2>1. CASE Abort(s) \/ Report(s)
    BY <2>1, ContinueOthers DEF Abort, Report
  <2>2. CASE Submit(s) \/ CreateCommit(s)
    <3>1. pc'[s] \notin {"check", "commit"}
      BY <2>2, ContinueOthers DEF Submit, CreateCommit, TypeOK
    <3> QED
      BY <3>1
  <2>3. CASE ExportContent(s)
    BY <2>3 DEF ExportContent, ActionsInv, TypeOK
  <2>4. ASSUME NEW g \in Files, CheckFile(s, g)
        PROVE  /\ actions'[s][f] = "create" => f \notin PathsIn(Dir(s))'
               /\ actions'[s][f] \in {"update", "delete"} => f \in PathsIn(Dir(s))'
               /\ pc'[s] = "check"
    <3>1. /\ PathsIn(Dir(s))' = PathsIn(Dir(s))
          /\ pc' = pc /\ pc[s] = "check"
      BY <2>4 DEF CheckFile, PathsIn, Dir
    <3>2. actions' = [actions EXCEPT ![s][g] =
                        IF g \in PathsIn(Dir(s)) THEN "update" ELSE "create"]
      BY <2>4 DEF CheckFile, Mark, Alone
    <3> QED
      BY <3>1, <3>2 DEF FoundInv, TypeOK
  <2>5. CASE SetDeletedFiles(s)
    <3>1. PICK page \in FirstPages(Dir(s)) : actions' = [actions EXCEPT ![s] =
              [x \in Files |-> IF x \in Deleted(s, page) THEN "delete" ELSE @[x]]]
      BY <2>5 DEF SetDeletedFiles
    <3>2. actions'[s][f] = IF f \in PathsIn(Dir(s)) \ Exported(s) THEN "delete"
                           ELSE actions[s][f]
      BY <3>1, WholePage DEF Deleted, TypeOK
    <3>3. /\ PathsIn(Dir(s))' = PathsIn(Dir(s)) /\ Exported(s)' = Exported(s)
          /\ pc[s] = "check"
      BY <2>5 DEF SetDeletedFiles, PathsIn, Dir, Exported
    <3> QED
      BY <3>2, <3>3 DEF FoundInv
  <2> QED
    BY <1>2, <2>1, <2>2, <2>3, <2>4, <2>5
       DEF Request, SetDeletedFilesFails, CreateCommitFails, CallFails
<1> QED
  BY <1>1, <1>2 DEF Next, EditContent, Push, vars, Alone

Exports == [s \in Sessions |-> Pending(s)]

LEMMA OthersPending ==
    ASSUME NEW s \in Sessions, Others(s)
    PROVE  Exports' = [Exports EXCEPT ![s] = Pending(s)']
BY DEF Others, Exports, Pending

LEMMA CommitsWhole ==
    ASSUME TypeOK, ActionsInv, FoundInv, NEW s \in Sessions, CreateCommit(s)
    PROVE  /\ published' = [published EXCEPT ![Dir(s)] = files[s]]
           /\ Pending(s)' = {}
<1>1. pc[s] = "commit" /\ files[s] \in [Files -> Versions \cup {Absent}]
  BY DEF CreateCommit, TypeOK, Directories
<1>2. ASSUME NEW f \in Files
      PROVE  Committed(s)[f] = files[s][f]
  <2>1. CASE f \in Exported(s)
    BY <1>1, <2>1 DEF ActionsInv, Committed
  <2>2. CASE f \notin Exported(s) /\ f \in PathsIn(Dir(s))
    BY <1>1, <2>2 DEF FoundInv, Committed, Exported
  <2>3. CASE f \notin Exported(s) /\ f \notin PathsIn(Dir(s))
    <3>1. actions[s][f] = "none"
      BY <1>1, <2>3 DEF ActionsInv, FoundInv, TypeOK, Actions
    <3> QED
      BY <2>3, <3>1 DEF Committed, PathsIn, Exported
  <2> QED
    BY <2>1, <2>2, <2>3
<1>3. Committed(s) = files[s]
  BY <1>1, <1>2 DEF Committed
<1>4. Pending(s)' = {}
  <2>1. CASE Continue(s, <<>>)
    BY <2>1, ContinueOthers DEF Pending
  <2>2. CASE pc' = [pc EXCEPT ![s] = "report"]
    BY <2>2 DEF Pending, TypeOK
  <2> QED
    BY <2>1, <2>2 DEF CreateCommit
<1> QED
  BY <1>3, <1>4, CommittedType

LEMMA NextPublication ==
    ASSUME Alone
    PROVE  TypeOK /\ ActionsInv /\ FoundInv /\ [Next]_vars =>
             [Publication!Next]_<<local, published, Exports>>
<1> SUFFICES ASSUME TypeOK, ActionsInv, FoundInv, [Next]_vars
             PROVE  Publication!Next \/ UNCHANGED <<local, published, Exports>>
  OBVIOUS
<1>1. ASSUME NEW c \in Contents, EditContent(c)
      PROVE  Publication!Next
  <2>1. local' \in [Contents -> Directories]
    BY <1>1, NextTypeOK DEF TypeOK
  <2>2. UNCHANGED <<published, Exports>>
    BY <1>1 DEF EditContent, sessionVars, Exports, Pending
  <2>3. Publication!Edit
    BY <2>1, <2>2 DEF Publication!Edit, Exports
  <2> QED
    BY <2>3 DEF Publication!Next
<1>2. ASSUME NEW s \in Sessions, ExportContent(s)
      PROVE  Publication!Next
  <2>1. /\ UNCHANGED <<local, published>> /\ Others(s)
        /\ Pending(s)' = {[content |-> Head(todo[s]), files |-> local[Head(todo[s])]]}
    BY <1>2, RequestOthers DEF Request, ExportContent, TypeOK, Pending
  <2>2. Head(todo[s]) \in Contents
    BY <1>2, DirType DEF ExportContent
  <2>3. Publication!Export(s, Head(todo[s]))
    BY <2>1, OthersPending DEF Publication!Export, Exports
  <2> QED
    BY <2>2, <2>3 DEF Publication!Next
<1>3. ASSUME NEW s \in Sessions, CreateCommit(s)
      PROVE  Publication!Next
  <2> DEFINE e == [content |-> Head(todo[s]), files |-> files[s]]
  <2>1. e \in Exports[s]
    BY <1>3 DEF CreateCommit, Exports, Pending
  <2>2. /\ published' = [published EXCEPT ![DirOf[e.content]] = e.files]
        /\ Exports' = [Exports EXCEPT ![s] = {}]
        /\ UNCHANGED local
    BY <1>3, CommitsWhole, RequestOthers, OthersPending DEF Dir, CreateCommit, Request
  <2> HIDE DEF e
  <2>3. Publication!Publish(s)
    BY <2>1, <2>2 DEF Publication!Publish, Exports
  <2> QED
    BY <2>3 DEF Publication!Next
<1>4. ASSUME NEW s \in Sessions, Abort(s) \/ Report(s)
      PROVE  Publication!Next
  <2>1. UNCHANGED <<local, published>> /\ Others(s) /\ Pending(s)' = {}
    BY <1>4, ContinueOthers DEF Abort, Report, Pending
  <2>2. Publication!GiveUp(s)
    BY <2>1, OthersPending DEF Publication!GiveUp, Exports
  <2> QED
    BY <2>2 DEF Publication!Next
<1>5. ASSUME NEW s \in Sessions,
             \/ Submit(s) \/ SetDeletedFiles(s)
             \/ \E f \in Files : CheckFile(s, f)
      PROVE  UNCHANGED <<local, published, Exports>>
  <2>1. UNCHANGED <<local, published>> /\ Others(s)
    BY <1>5, RequestOthers DEF Request, Submit, SetDeletedFiles, CheckFile
  <2>2. Pending(s)' = Pending(s)
    BY <1>5 DEF Submit, SetDeletedFiles, CheckFile, Pending, TypeOK
  <2> QED
    BY <2>1, <2>2, OthersPending DEF Exports
<1>6. CASE UNCHANGED vars
  BY <1>6 DEF vars, sessionVars, Exports, Pending
<1> QED
  BY <1>1, <1>2, <1>3, <1>4, <1>5, <1>6
     DEF Next, Request, Push, Alone, SetDeletedFilesFails, CreateCommitFails, CallFails

\* ImplementsPublication: a request that is alone replaces the content's whole
\* directory in one step, or does nothing, whatever files there were.
THEOREM PublicationAlone == ASSUME Alone PROVE Spec => ImplementsPublication
<1>1. Init => TypeOK /\ ActionsInv /\ FoundInv /\ Publication!Init
  <2> SUFFICES ASSUME Init
               PROVE  TypeOK /\ ActionsInv /\ FoundInv /\ Publication!Init
    OBVIOUS
  <2>1. TypeOK
    BY InitTypeOK
  <2>2. ActionsInv /\ FoundInv
    BY DEF Init, ActionsInv, FoundInv, NoActions, Exported, NoFiles
  <2>3. Publication!Init
    BY <2>1 DEF Init, TypeOK, Publication!Init, Pending
  <2> QED
    BY <2>1, <2>2, <2>3
<1>2. TypeOK /\ ActionsInv /\ FoundInv /\ [Next]_vars => TypeOK' /\ ActionsInv' /\ FoundInv'
  BY NextTypeOK, NextActions, NextFound
<1>3. TypeOK /\ ActionsInv /\ FoundInv /\ [Next]_vars => [Publication!Next]_(Publication!vars)
  BY NextPublication DEF Publication!vars, Exports
<1> QED
  BY <1>1, <1>2, <1>3, PTL DEF Spec, ImplementsPublication, Publication!Spec
=============================================================================
