SPECIFICATION Spec
CONSTANTS
    Plans = {p1, p2}
    VMs = {m1, m2}
    ServerVMs = {m1, m2}
    Importable = {m1}
    Ids = {i1, i2, i3}
    None = None
    Env = {"crash", "inputs", "lookup", "outputs", "lost", "sync"}
SYMMETRY Symmetry
INVARIANTS TypeOK CreatedOnce DoneRecordsAll HistoricalIsGone DeletedIsHistorical
\* All plans may be deleted for good.
CHECK_DEADLOCK FALSE
