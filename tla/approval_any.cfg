SPECIFICATION Spec
CONSTANTS
    Orders <- OtherOrders
    Items <- OtherItems
    OrderOf <- OtherOrderOf
    Kind <- OtherKind
    Quantity <- OtherQuantity
    NoQuantity = NoQuantity
    Approvers <- NoOrders
    Pollers = {p1, p2}
    NoOrder = NoOrder
    MaxRepends = 1
    Env = {"admin", "snowauto", "revise", "repend"}
SYMMETRY PollerSymmetry
INVARIANTS SnowAuthority JobsBoundedByApprovals NoConflictingDecisions
