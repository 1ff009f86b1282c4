--------------------------- MODULE MCAutoApprove ---------------------------
(* Instances of AutoApprove for TLC. *)
EXTENDS AutoApprove

CpuAndMemory == {"cpu", "mem"}
OneAndTwo    == {1, 2}
LimitTwo     == [r \in Resources |-> 2]
=============================================================================
