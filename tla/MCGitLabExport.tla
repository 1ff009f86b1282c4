--------------------------- MODULE MCGitLabExport ---------------------------
(* Instances of GitLabExport for TLC. *)
EXTENDS GitLabExport, TLC

CONSTANTS c1, c2, d1, d2

\* One content; the second directory is somebody else's.
OneDirOf   == c1 :> d1
OneRequest == {<<c1>>}

\* Two contents, exported by one request or one by one.
TwoContents == {c1, c2}
TwoDirOf    == c1 :> d1 @@ c2 :> d2
AllRequests == {<<c1>>, <<c2>>, <<c1, c2>>}

Symmetry == Permutations(Sessions) \cup Permutations(Files) \cup Permutations(Versions)
=============================================================================
