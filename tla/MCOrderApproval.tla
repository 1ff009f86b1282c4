-------------------------- MODULE MCOrderApproval --------------------------
(***************************************************************************)
(* Instances of OrderApproval for TLC.  "bp" is a blueprint order, "sm" an *)
(* order of two server modifications, "ot" an order with neither.          *)
(***************************************************************************)
EXTENDS OrderApproval, TLC

\* Executions of the recurring job are interchangeable.
PollerSymmetry == Permutations(Pollers)

TwoOrders  == {"bp", "sm"}
TwoItems   == {"b1", "s1", "s2"}
TwoOrderOf == [b1 |-> "bp", s1 |-> "sm", s2 |-> "sm"]
TwoKind    == [b1 |-> "blueprint", s1 |-> "servermod", s2 |-> "servermod"]

\* A blueprint of quantity 0, a modification without a quantity and one of 2.
TwoQuantity == [b1 |-> 0, s1 |-> NoQuantity, s2 |-> 2]

\* Each order with one item.
PairOrders   == {"bp", "sm"}
PairItems    == {"b1", "s1"}
PairOrderOf  == [b1 |-> "bp", s1 |-> "sm"]
PairKind     == [b1 |-> "blueprint", s1 |-> "servermod"]
PairQuantity == [b1 |-> 1, s1 |-> NoQuantity]

NoOrders == {}

\* A blueprint and an order the submit hook does not handle, for executions
\* that overlap.
OtherOrders   == {"bp", "ot"}
OtherItems    == {"b1", "x1"}
OtherOrderOf  == [b1 |-> "bp", x1 |-> "ot"]
OtherKind     == [b1 |-> "blueprint", x1 |-> "other"]
OtherQuantity == [b1 |-> 1, x1 |-> 0]
=============================================================================
