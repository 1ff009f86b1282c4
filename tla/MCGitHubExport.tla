--------------------------- MODULE MCGitHubExport ---------------------------
(***************************************************************************)
(* Instances of GitHubExport for TLC: one content whose directory has two  *)
(* paths, a directory that is somebody else's, and one version of a file.  *)
(***************************************************************************)
EXTENDS GitHubExport, TLC

CONSTANTS c1, d1

OneDirOf   == c1 :> d1
OneRequest == {<<c1>>}

\* Requests are interchangeable, and so are commits but for the first.
Symmetry == Permutations(Sessions) \cup Permutations(Commits \ {Root})
=============================================================================
