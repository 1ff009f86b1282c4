SPECIFICATION Spec
CONSTANTS
    Orders <- PairOrders
    Items <- PairItems
    OrderOf <- PairOrderOf
    Kind <- PairKind
    Quantity <- PairQuantity
    NoQuantity = NoQuantity
    Approvers <- PairOrders
    Pollers = {p1}
    NoOrder = NoOrder
    MaxRepends = 1
    Env = {"admin"}
PROPERTY DecidesPendingOnly
