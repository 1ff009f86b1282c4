SPECIFICATION Spec
CONSTANTS
    Orders <- TwoOrders
    Items <- TwoItems
    OrderOf <- TwoOrderOf
    Kind <- TwoKind
    Quantity <- TwoQuantity
    NoQuantity = NoQuantity
    Approvers <- TwoOrders
    Pollers = {p1}
    NoOrder = NoOrder
    MaxRepends = 1
    Env = {"crash", "delete", "revise", "down", "hookfail", "repend"}
INVARIANTS TypeOK NoDuplicateJobs ClosedMatchesOrder
PROPERTY ImplementsLifecycle
