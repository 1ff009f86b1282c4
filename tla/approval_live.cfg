SPECIFICATION FairSpec
CONSTANTS
    Orders <- TwoOrders
    Items <- TwoItems
    OrderOf <- TwoOrderOf
    Kind <- TwoKind
    Quantity <- TwoQuantity
    NoQuantity = NoQuantity
    Approvers <- TwoOrders
    Pollers = {p1}
    NoOrder = NoOrder
    MaxRepends = 1
    Env = {"down", "revise", "hookfail", "repend"}
INVARIANT LaunchedOrOwned
PROPERTIES VerdictApplied LaunchFinishes
