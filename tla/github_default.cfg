SPECIFICATION Spec
CONSTANTS
    c1 = c1
    d1 = d1
    Contents = {c1}
    DirOf <- OneDirOf
    Dirs = {d1, d2}
    Files = {f1, f2}
    Versions = {v1}
    Absent = Absent
    Sessions = {s1, s2}
    Requests <- OneRequest
    Branches = {"main"}
    Branch = "main"
    Default = "main"
    Commits = {k0, k1, k2}
    Root = k0
    Env = {"push", "down"}
SYMMETRY Symmetry
INVARIANTS TypeOK NothingLost
PROPERTIES ImplementsPublication OwnDirectoryOnly
