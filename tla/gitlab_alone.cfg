SPECIFICATION FairSpec
CONSTANTS
    c1 = c1
    c2 = c2
    d1 = d1
    d2 = d2
    Contents <- TwoContents
    DirOf <- TwoDirOf
    Dirs = {d1, d2}
    Files = {f1, f2}
    Versions = {v1}
    Absent = Absent
    Sessions = {s1}
    Requests <- AllRequests
    PageSize = 2
    Env = {}
PROPERTIES ImplementsPublication ExportLands
