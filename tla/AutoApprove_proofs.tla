------------------------- MODULE AutoApprove_proofs -------------------------
(* Proofs about AutoApprove, for orders of any length and any limits. *)
EXTENDS AutoApprove, TLAPS

LEMMA InitInv == Init => TypeOK /\ LoopInv /\ OutcomeInv
<1> SUFFICES ASSUME Init PROVE TypeOK /\ LoopInv /\ OutcomeInv
  OBVIOUS
<1>1. TypeOK
  <2>1. next \in 1 .. N + 1
    BY AutoApproveAssumption DEF Init
  <2>2. /\ bound \in [Resources -> Sizes \cup {Unset}]
        /\ exceeded \in [Resources -> BOOLEAN]
        /\ bpias \in [1 .. N -> Elements]
        /\ blueprintOrder \in BOOLEAN
        /\ serversFound \in BOOLEAN
        /\ outcome = "running"
    BY DEF Init
  <2> QED
    BY <2>1, <2>2 DEF TypeOK
<1>2. Earlier(next) = {}
  BY AutoApproveAssumption DEF Init, Earlier, Servers
<1> QED
  BY <1>1, <1>2 DEF Init, LoopInv, OutcomeInv

LEMMA BindType ==
    ASSUME TypeOK, NEW k \in 1 .. N, NEW r \in Resources
    PROVE  /\ Bind(bpias[k], r) \in Sizes \cup {Unset}
           /\ Requested(bpias[k], r) \in Sizes \cup {Unset}
           /\ bpias[k].preset[r] \in Sizes \cup {Unset}
BY DEF TypeOK, Elements, Bind, Requested

LEMMA NextTypeOK == TypeOK /\ [Next]_vars => TypeOK'
<1> SUFFICES ASSUME TypeOK, [Next]_vars PROVE TypeOK'
  OBVIOUS
<1>1. CASE NotApplicable
  BY <1>1 DEF NotApplicable, TypeOK
<1>2. CASE SkipElement
  BY <1>2, AutoApproveAssumption DEF SkipElement, TypeOK
<1>3. CASE CheckServer
  <2>1. next \in 1 .. N
    BY <1>3, AutoApproveAssumption DEF CheckServer, TypeOK
  <2>2. bound' \in [Resources -> Sizes \cup {Unset}]
    BY <1>3, <2>1, BindType DEF CheckServer
  <2>3. exceeded' \in [Resources -> BOOLEAN]
    <3>1. \A r, size : Exceeds(r, size) \in BOOLEAN
      BY DEF Exceeds
    <3>2. \/ exceeded' = exceeded
          \/ exceeded' = [r \in Resources |-> Exceeds(r, bound'[r])]
      BY <1>3 DEF CheckServer
    <3> QED
      BY <3>1, <3>2 DEF TypeOK
  <2>4. next' \in 1 .. N + 1
    BY <1>3, <2>1, AutoApproveAssumption DEF CheckServer, TypeOK
  <2>5. outcome' \in {"running", "error"}
    BY <1>3 DEF CheckServer
  <2> QED
    BY <1>3, <2>2, <2>3, <2>4, <2>5 DEF CheckServer, TypeOK
<1>4. CASE Conclude
  BY <1>4 DEF Conclude, TypeOK
<1>5. CASE UNCHANGED vars
  BY <1>5 DEF vars, TypeOK
<1> QED
  BY <1>1, <1>2, <1>3, <1>4, <1>5 DEF Next

\* The servers before the next element, after a step of the loop.
LEMMA EarlierNext ==
    ASSUME TypeOK, next \in 1 .. N, next' = next + 1, UNCHANGED bpias
    PROVE  /\ bpias[next].server => Earlier(next)' = Earlier(next) \cup {next}
           /\ ~bpias[next].server => Earlier(next)' = Earlier(next)
BY AutoApproveAssumption DEF Earlier, Servers, TypeOK

LEMMA NextLoopInv == TypeOK /\ LoopInv /\ [Next]_vars => LoopInv'
<1> SUFFICES ASSUME TypeOK, LoopInv, [Next]_vars, outcome' # "error"
             PROVE  LoopInv'
  BY DEF LoopInv
<1>0. Preconfigured' <=> Preconfigured
  BY DEF Preconfigured, Servers, Earlier, Next, NotApplicable, SkipElement,
         CheckServer, Conclude, vars
<1>1. CASE NotApplicable \/ Conclude \/ UNCHANGED vars
  <2>1. /\ UNCHANGED <<bpias, next, bound, serversFound, exceeded>>
        /\ outcome # "error"
    BY <1>1 DEF NotApplicable, Conclude, vars
  <2>2. Earlier(next)' = Earlier(next)
    BY <2>1 DEF Earlier, Servers
  <2> QED
    BY <2>1, <2>2, <1>0 DEF LoopInv
<1>2. CASE SkipElement
  <2>1. /\ next \in 1 .. N /\ next' = next + 1 /\ ~bpias[next].server
        /\ UNCHANGED <<bpias, bound, serversFound, exceeded, outcome>>
    BY <1>2, AutoApproveAssumption DEF SkipElement, TypeOK
  <2> QED
    BY <2>1, <1>0, EarlierNext DEF LoopInv
<1>3. CASE CheckServer
  <2>1. /\ next \in 1 .. N /\ bpias[next].server /\ outcome = "running"
        /\ UNCHANGED bpias /\ serversFound' = TRUE
        /\ bound' = [r \in Resources |-> Bind(bpias[next], r)]
        /\ next' = next + 1
        /\ exceeded' = [r \in Resources |-> Exceeds(r, bound'[r])]
        /\ \A r \in Resources : bound'[r] # Unset
    BY <1>3, AutoApproveAssumption DEF CheckServer, TypeOK
  <2>2. Earlier(next)' = Earlier(next) \cup {next}
    BY <2>1, EarlierNext
  <2>3. \A r \in Resources : exceeded'[r] <=> exceeded[r] \/ bound'[r] >= Limit[r]
    BY <2>1 DEF Exceeds, TypeOK
  <2>4. \A r \in Resources : bpias[next].preset[r] # Unset
                                => bound'[r] = bpias[next].preset[r]
    BY <2>1 DEF Bind
  <2>5. Preconfigured => \A r \in Resources : bound'[r] = Requested(bpias[next], r)
    <3>1. CASE Earlier(next) = {}
      BY <2>1, <3>1 DEF LoopInv, Bind, Requested
    <3>2. CASE Earlier(next) # {}
      <4>1. next \in Servers
        BY <2>1 DEF Servers
      <4> QED
        BY <2>4, <3>2, <4>1 DEF Preconfigured, Requested
    <3> QED
      BY <3>1, <3>2
  <2>6. /\ serversFound' <=> Earlier(next)' # {}
        /\ \A k \in Earlier(next)', r \in Resources :
              bpias'[k].preset[r] # Unset /\ bpias'[k].preset[r] >= Limit[r]
                 => exceeded'[r]
    BY <2>1, <2>2, <2>3, <2>4 DEF LoopInv
  <2>7. ASSUME Preconfigured, NEW r \in Resources
        PROVE  /\ \A k \in Earlier(next)' : Requested(bpias'[k], r) # Unset
               /\ exceeded'[r] <=>
                     \E k \in Earlier(next)' : Requested(bpias'[k], r) >= Limit[r]
    BY <2>1, <2>2, <2>3, <2>5, <2>7 DEF LoopInv
  <2> QED
    BY <2>1, <2>6, <2>7, <1>0 DEF LoopInv
<1> QED
  BY <1>1, <1>2, <1>3 DEF Next

LEMMA NextOutcomeInv == TypeOK /\ OutcomeInv /\ [Next]_vars => OutcomeInv'
<1> SUFFICES ASSUME TypeOK, OutcomeInv, [Next]_vars PROVE OutcomeInv'
  OBVIOUS
<1>1. CASE NotApplicable
  BY <1>1 DEF NotApplicable, OutcomeInv
<1>2. CASE SkipElement
  BY <1>2 DEF SkipElement, OutcomeInv
<1>3. CASE CheckServer
  BY <1>3 DEF CheckServer, OutcomeInv
<1>4. CASE Conclude
  <2>1. /\ next' = N + 1 /\ blueprintOrder'
        /\ UNCHANGED <<serversFound, exceeded>>
        /\ outcome' = IF serversFound /\ \A r \in Resources : ~exceeded[r]
                      THEN "approved" ELSE "left"
    BY <1>4 DEF Conclude
  <2> QED
    BY <2>1 DEF OutcomeInv
<1>5. CASE UNCHANGED vars
  BY <1>5 DEF vars, OutcomeInv
<1> QED
  BY <1>1, <1>2, <1>3, <1>4, <1>5 DEF Next

LEMMA AllEarlier == ASSUME TypeOK, next = N + 1
                    PROVE  Earlier(next) = Servers
BY AutoApproveAssumption DEF Earlier, Servers

\* If every server but the first has preconfigured sizes, the hook approves an
\* order exactly if it has servers and each is below the maxima, for orders of
\* any number of elements.
THEOREM PreconfiguredApproval == Spec => []PreconfiguredDecision
<1>1. Init => TypeOK /\ LoopInv /\ OutcomeInv
  BY InitInv
<1>2. TypeOK /\ LoopInv /\ OutcomeInv /\ [Next]_vars
         => TypeOK' /\ LoopInv' /\ OutcomeInv'
  BY NextTypeOK, NextLoopInv, NextOutcomeInv
<1>3. TypeOK /\ LoopInv /\ OutcomeInv => PreconfiguredDecision
  <2> SUFFICES ASSUME TypeOK, LoopInv, OutcomeInv, blueprintOrder, Preconfigured,
                      outcome \in {"approved", "left"}
               PROVE  outcome = "approved" <=> (Servers # {} /\ \A k \in Servers : Below(k))
    BY DEF PreconfiguredDecision
  <2>1. Earlier(next) = Servers
    BY AllEarlier DEF OutcomeInv
  <2>2. outcome = "approved" <=> (Servers # {} /\ \A r \in Resources : ~exceeded[r])
    BY <2>1 DEF OutcomeInv, LoopInv
  <2>3. \A r \in Resources, k \in Servers :
           Requested(bpias[k], r) \in Nat /\ Limit[r] \in Nat
    BY <2>1, BindType, AutoApproveAssumption DEF LoopInv, Servers
  <2>4. (\A r \in Resources : ~exceeded[r]) <=>
           \A k \in Servers, r \in Resources : Requested(bpias[k], r) < Limit[r]
    BY <2>1, <2>3 DEF LoopInv
  <2>5. \A k \in Servers : Below(k) <=>
           \A r \in Resources : Requested(bpias[k], r) < Limit[r]
    BY <2>1, <2>3, AutoApproveAssumption DEF Below
  <2> QED
    BY <2>2, <2>4, <2>5
<1> QED
  BY <1>1, <1>2, <1>3, PTL DEF Spec

\* A preconfigured size at or above a maximum prevents the approval, whatever the
\* other elements are.
THEOREM PresetExcess == Spec => []PresetExcessStops
<1>1. Init => TypeOK /\ LoopInv /\ OutcomeInv
  BY InitInv
<1>2. TypeOK /\ LoopInv /\ OutcomeInv /\ [Next]_vars
         => TypeOK' /\ LoopInv' /\ OutcomeInv'
  BY NextTypeOK, NextLoopInv, NextOutcomeInv
<1>3. TypeOK /\ LoopInv /\ OutcomeInv => PresetExcessStops
  <2> SUFFICES ASSUME TypeOK, LoopInv, OutcomeInv, outcome = "approved",
                      NEW k \in Servers, NEW r \in Resources,
                      bpias[k].preset[r] # Unset
               PROVE  bpias[k].preset[r] < Limit[r]
    BY DEF PresetExcessStops
  <2>1. k \in Earlier(next) /\ ~exceeded[r]
    BY AllEarlier DEF OutcomeInv
  <2>2. bpias[k].preset[r] \in Nat /\ Limit[r] \in Nat
    BY BindType, AutoApproveAssumption DEF Servers
  <2> QED
    BY <2>1, <2>2 DEF LoopInv
<1> QED
  BY <1>1, <1>2, <1>3, PTL DEF Spec
=============================================================================
