---------------------------- MODULE AutoApprove ----------------------------
(***************************************************************************)
(* The approval hook that approves a blueprint order by itself when the    *)
(* CPUs and the memory of its servers are below the configured maxima.     *)
(* The hook walks over the elements of the blueprint order item; a Python  *)
(* local once bound stays bound, which is what the state `bound' is about. *)
(***************************************************************************)
EXTENDS Naturals

CONSTANTS
    N,          \* number of elements of the order item
    Resources,  \* what is limited: "cpu" (cpu_cnt), "mem" (mem_size)
    Sizes,      \* the sizes that can be requested
    Limit,      \* [Resources -> Nat]: max_cpu and max_mem_gb
    Unset       \* no value given, or a local that is not bound

\* preset: the value a preconfiguration gives (the last one that has it);
\* param: the value among the element's own parameters.
Elements == [server : BOOLEAN,
             preset : [Resources -> Sizes \cup {Unset}],
             param  : [Resources -> Sizes \cup {Unset}]]

ASSUME AutoApproveAssumption == /\ N \in Nat
                                /\ Sizes \subseteq Nat
                                /\ Limit \in [Resources -> Nat]
                                /\ Unset \notin Nat

VARIABLES
    blueprintOrder,  \* whether the order's first item is a BlueprintOrderItem
    bpias,           \* [1 .. N -> Elements]: the elements in the loop's order
    next,            \* the element the loop is at
    bound,           \* [Resources -> size or Unset]: the locals cpu_cnt, mem_gb
    serversFound, exceeded,
    outcome          \* "running", "approved", "left" (not approved) or "error"

vars == <<blueprintOrder, bpias, next, bound, serversFound, exceeded, outcome>>

TypeOK == /\ blueprintOrder \in BOOLEAN
          /\ bpias \in [1 .. N -> Elements]
          /\ next \in 1 .. N + 1
          /\ bound \in [Resources -> Sizes \cup {Unset}]
          /\ serversFound \in BOOLEAN
          /\ exceeded \in [Resources -> BOOLEAN]
          /\ outcome \in {"running", "approved", "left", "error"}

Init == /\ blueprintOrder \in BOOLEAN
        /\ bpias \in [1 .. N -> Elements]
        /\ next = 1
        /\ bound = [r \in Resources |-> Unset]
        /\ serversFound = FALSE
        /\ exceeded = [r \in Resources |-> FALSE]
        /\ outcome = "running"

\* The plugin applies to blueprint order items only.
NotApplicable == /\ outcome = "running"
                 /\ ~blueprintOrder
                 /\ outcome' = "left"
                 /\ UNCHANGED <<blueprintOrder, bpias, next, bound, serversFound,
                                exceeded>>

\* Bug: the parameters are looked at first.
BindParamFirst(e, r) == IF e.param[r] # Unset THEN e.param[r]
                        ELSE IF e.preset[r] # Unset THEN e.preset[r] ELSE bound[r]

\* The value a local has once the preconfigurations and, if it is still not
\* bound, the parameters of element e have been looked at.
Bind(e, r) == IF e.preset[r] # Unset THEN e.preset[r]
              ELSE IF bound[r] # Unset THEN bound[r] ELSE e.param[r]

SkipElement == /\ outcome = "running" /\ blueprintOrder
               /\ next <= N
               /\ ~bpias[next].server
               /\ next' = next + 1
               /\ UNCHANGED <<blueprintOrder, bpias, bound, serversFound, exceeded,
                              outcome>>

\* Bug: only the last server counts.
ExceedsLast(r, size) == size >= Limit[r]

\* Whether a resource is exceeded after a server of this size.
Exceeds(r, size) == exceeded[r] \/ size >= Limit[r]

\* One server: a value that cannot be determined is an exception.
CheckServer ==
    /\ outcome = "running" /\ blueprintOrder
    /\ next <= N
    /\ bpias[next].server
    /\ serversFound' = TRUE
    /\ bound' = [r \in Resources |-> Bind(bpias[next], r)]
    /\ IF \E r \in Resources : bound'[r] = Unset
       THEN outcome' = "error" /\ UNCHANGED <<next, exceeded>>
       ELSE /\ exceeded' = [r \in Resources |-> Exceeds(r, bound'[r])]
            /\ next' = next + 1
            /\ UNCHANGED outcome
    /\ UNCHANGED <<blueprintOrder, bpias>>

\* Only an order with servers, none above a limit, is approved.
Conclude == /\ outcome = "running" /\ blueprintOrder
            /\ next = N + 1
            /\ outcome' = IF serversFound /\ \A r \in Resources : ~exceeded[r]
                          THEN "approved" ELSE "left"
            /\ UNCHANGED <<blueprintOrder, bpias, next, bound, serversFound, exceeded>>

Next == NotApplicable \/ SkipElement \/ CheckServer \/ Conclude

Spec == Init /\ [][Next]_vars

-----------------------------------------------------------------------------
(* Properties. *)

\* What element e asks for: its preconfiguration, otherwise its parameter.
Requested(e, r) == IF e.preset[r] # Unset THEN e.preset[r] ELSE e.param[r]

Servers == {k \in 1 .. N : bpias[k].server}

\* The servers before element k, in the loop's order.
Earlier(k) == {j \in Servers : j < k}

Below(k) == \A r \in Resources : /\ Requested(bpias[k], r) # Unset
                                 /\ Requested(bpias[k], r) < Limit[r]

\* Lines 10-12: "If the memory or CPU requested for all servers in the request
\* is less than the maximum ..., auto-approve the request."
ApprovedOnlyBelow ==
    outcome = "approved" =>
        \A k \in Servers, r \in Resources :
            Requested(bpias[k], r) # Unset => Requested(bpias[k], r) < Limit[r]

\* The claim does hold of orders in which no element inherits a value: every
\* server but the first has its sizes from a preconfiguration.  Then an order
\* is approved exactly if it has servers and all of them are below the maxima.
Preconfigured ==
    \A k \in Servers : Earlier(k) # {} =>
        \A r \in Resources : bpias[k].preset[r] # Unset
PreconfiguredDecision ==
    (blueprintOrder /\ Preconfigured /\ outcome \in {"approved", "left"}) =>
        (outcome = "approved" <=> (Servers # {} /\ \A k \in Servers : Below(k)))

\* In every order, a server with a preconfigured size at or above the maximum
\* stops the approval, wherever it stands among the elements.
PresetExcessStops ==
    outcome = "approved" =>
        \A k \in Servers, r \in Resources :
            bpias[k].preset[r] # Unset => bpias[k].preset[r] < Limit[r]

-----------------------------------------------------------------------------
(* Inductive invariant: what the locals say of the servers looked at so far. *)

LoopInv ==
    outcome # "error" =>
        /\ serversFound <=> Earlier(next) # {}
        /\ ~serversFound => \A r \in Resources : bound[r] = Unset
        /\ \A k \in Earlier(next), r \in Resources :
              bpias[k].preset[r] # Unset /\ bpias[k].preset[r] >= Limit[r] => exceeded[r]
        /\ Preconfigured => \A r \in Resources :
              /\ \A k \in Earlier(next) : Requested(bpias[k], r) # Unset
              /\ exceeded[r] <=>
                    \E k \in Earlier(next) : Requested(bpias[k], r) >= Limit[r]

OutcomeInv ==
    /\ outcome = "approved" => blueprintOrder
    /\ blueprintOrder /\ outcome \in {"approved", "left"} =>
          /\ next = N + 1
          /\ outcome = "approved" <=> (serversFound /\ \A r \in Resources : ~exceeded[r])
=============================================================================
