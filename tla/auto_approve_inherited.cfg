SPECIFICATION Spec
CONSTANTS
    N = 2
    Resources <- CpuAndMemory
    Sizes <- OneAndTwo
    Limit <- LimitTwo
    Unset = Unset
INVARIANT ApprovedOnlyBelow
\* The hook runs to its end and stops.
CHECK_DEADLOCK FALSE
