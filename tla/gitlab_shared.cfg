SPECIFICATION Spec
CONSTANTS
    c1 = c1
    c2 = c2
    d1 = d1
    d2 = d2
    Contents = {c1}
    DirOf <- OneDirOf
    Dirs = {d1, d2}
    Files = {f1, f2}
    Versions = {v1, v2}
    Absent = Absent
    Sessions = {s1, s2}
    Requests <- OneRequest
    PageSize = 2
    Env = {"down", "push", "tree404"}
SYMMETRY Symmetry
INVARIANT TypeOK
PROPERTY CommitKeepsPromise
