---------------------------- MODULE OneFuseNaming ----------------------------
(***************************************************************************)
(* The resources that OneFuse names: `naming as a service', which asks for *)
(* a number of names, and `OneFuse as a service', which asks for a name,   *)
(* an IP address, DNS records and, for Windows, an AD computer.  A build   *)
(* asks for one object after the other and writes each answer to the       *)
(* resource; a teardown finds what to give back in what was written.  A    *)
(* build or teardown that failed is started again from its beginning.      *)
(***************************************************************************)
EXTENDS Naturals, Sequences, Selection

CONSTANTS Naming,    \* the resources of naming as a service
          Service,   \* the resources of OneFuse as a service
          Windows,   \* those of Service with a Windows machine
          NameCount, \* names per resource of Naming
          BuildMax   \* bound: builds per resource

Named == Naming \cup Service

VARIABLES
    oneFuse,     \* the objects OneFuse has: <<resource, kind, build>>
    fields,     \* [Named -> [kind -> build]]: what the resource's fields hold
    stage,       \* [Named -> [pc, at, build]]
    unanswered,  \* objects made by a request whose answer was not written
    replaced,    \* objects whose record a later build replaced
    refusedOnce  \* objects whose deletion failed and was taken for done

oneFuseVars == <<oneFuse, fields, stage, unanswered, replaced, refusedOnce>>

\* What a build asks for, in its order.
Kinds(r) == IF r \in Naming THEN [k \in 1 .. NameCount |-> k]
            ELSE <<"OneFuse_Naming", "OneFuse_Ipam_Nic0", "OneFuse_Dns_Nic0">>
                 \o IF r \in Windows THEN <<"OneFuse_AD">> ELSE <<>>

TypeOK ==
    /\ \A o \in oneFuse \cup unanswered \cup replaced \cup refusedOnce :
          o[1] \in Named /\ o[3] \in 1 .. BuildMax
    /\ \A r \in Named :
          /\ stage[r].pc \in {"none", "building", "built", "failed", "deleting", "undeleted",
                             "gone"}
          /\ stage[r].at \in 1 .. Len(Kinds(r)) + 3
          /\ \A k \in DOMAIN fields[r] : fields[r][k] \in 1 .. BuildMax

Init == /\ oneFuse = {}
        /\ fields = [r \in Named |-> <<>>]
        /\ stage = [r \in Named |-> [pc |-> "none", at |-> 1, build |-> 1]]
        /\ unanswered = {} /\ replaced = {} /\ refusedOnce = {}

\* Bound: one resource is followed from its order to its deletion; resources
\* share nothing.
Order(r) ==
    /\ \A o \in Named : stage[o].pc = "none"
    /\ stage' = [stage EXCEPT ![r].pc = "building"]
    /\ UNCHANGED <<oneFuse, fields, unanswered, replaced, refusedOnce>>

Asking(r) == stage[r].pc = "building" /\ stage[r].at <= Len(Kinds(r))

\* The object the build asks for next.
Asked(r) == <<r, Kinds(r)[stage[r].at], stage[r].build>>

\* The fields with the answer for one more kind, in place of an earlier build's.
Written(r, kind) == [k \in DOMAIN fields[r] \cup {kind} |->
                        IF k = kind THEN stage[r].build ELSE fields[r][k]]

\* OneFuse makes the object, and the answer is written.
Provision(r) ==
    LET kind == Kinds(r)[stage[r].at]
    IN /\ Asking(r)
       /\ oneFuse' = oneFuse \cup {Asked(r)}
       /\ fields' = [fields EXCEPT ![r] = Written(r, kind)]
       /\ replaced' = replaced \cup
                        {<<r, k, fields[r][k]>> : k \in {kind} \cap DOMAIN fields[r]}
       /\ stage' = [stage EXCEPT ![r].at = @ + 1]
       /\ UNCHANGED <<unanswered, refusedOnce>>

\* OneFuse refuses, or it makes the object and the job dies before the answer
\* is saved (for AD also if the move to the final OU fails).
ProvisionFails(r) ==
    /\ Asking(r)
    /\ \/ UNCHANGED <<oneFuse, unanswered>>
       \/ /\ oneFuse' = oneFuse \cup {Asked(r)}
          /\ unanswered' = unanswered \cup {Asked(r)}
    /\ stage' = [stage EXCEPT ![r].pc = "failed"]
    /\ UNCHANGED <<fields, replaced, refusedOnce>>

\* The property toolkit, or a property it should have set, fails before OneFuse
\* is asked: once in naming as a service, before each object in the other.
ToolkitFails(r) ==
    /\ Asking(r) /\ (r \in Naming => stage[r].at = 1)
    /\ stage' = [stage EXCEPT ![r].pc = "failed"]
    /\ UNCHANGED <<oneFuse, fields, unanswered, replaced, refusedOnce>>

BuildDone(r) ==
    /\ stage[r].pc = "building" /\ ~Asking(r)
    /\ stage' = [stage EXCEPT ![r].pc = "built"]
    /\ UNCHANGED <<oneFuse, fields, unanswered, replaced, refusedOnce>>

BuildAgain(r) ==
    /\ stage[r].pc = "failed" /\ stage[r].build < BuildMax
    /\ stage' = [stage EXCEPT ![r] = [pc |-> "building", at |-> 1, build |-> @.build + 1]]
    /\ UNCHANGED <<oneFuse, fields, unanswered, replaced, refusedOnce>>

StartTeardown(r) ==
    /\ stage[r].pc \in {"built", "failed", "undeleted"}
    /\ stage' = [stage EXCEPT ![r].pc = "deleting", ![r].at = 1]
    /\ UNCHANGED <<oneFuse, fields, unanswered, replaced, refusedOnce>>

\* Bug: only the first name of the resource.
InfosFirst(r) == IF r \in Naming THEN Selected(<<1>>, DOMAIN fields[r])
                 ELSE <<"OneFuse_Naming", "OneFuse_Ipam_Nic0", "OneFuse_AD",
                        "OneFuse_Dns_Nic0">>

\* What a teardown deletes: every name found among the fields, or all four
\* kinds of objects whether the resource has them or not.
Infos(r) == IF r \in Naming THEN Selected(Kinds(r), DOMAIN fields[r])
            ELSE <<"OneFuse_Naming", "OneFuse_Ipam_Nic0", "OneFuse_AD",
                   "OneFuse_Dns_Nic0">>

Deleting(r) == stage[r].pc = "deleting" /\ stage[r].at <= Len(Infos(r))

Recorded(r) == Infos(r)[stage[r].at] \in DOMAIN fields[r]

\* The recorded object that is deleted next.
Obj(r) == LET kind == Infos(r)[stage[r].at] IN <<r, kind, fields[r][kind]>>

Deprovision(r) ==
    /\ Deleting(r) /\ Recorded(r)
    /\ Obj(r) \in oneFuse
    /\ oneFuse' = oneFuse \ {Obj(r)}
    /\ stage' = [stage EXCEPT ![r].at = @ + 1]
    /\ UNCHANGED <<fields, unanswered, replaced, refusedOnce>>

\* OneFuse cannot delete the object, or it has none: naming as a service takes
\* any exception for `already deleted'.
DeprovisionAssumed(r) ==
    /\ r \in Naming
    /\ Deleting(r)
    /\ refusedOnce' = refusedOnce \cup {Obj(r)}
    /\ stage' = [stage EXCEPT ![r].at = @ + 1]
    /\ UNCHANGED <<oneFuse, fields, unanswered, replaced>>

\* OneFuse as a service fails, also on a kind the resource does not have.
DeprovisionFails(r) ==
    /\ r \in Service
    /\ Deleting(r)
    /\ stage' = [stage EXCEPT ![r].pc = "undeleted"]
    /\ UNCHANGED <<oneFuse, fields, unanswered, replaced, refusedOnce>>

TeardownDone(r) ==
    /\ stage[r].pc = "deleting" /\ ~Deleting(r)
    /\ stage' = [stage EXCEPT ![r].pc = "gone"]
    /\ UNCHANGED <<oneFuse, fields, unanswered, replaced, refusedOnce>>

Next == \E r \in Named :
           \/ Order(r) \/ ToolkitFails(r) \/ Provision(r) \/ ProvisionFails(r)
           \/ BuildDone(r) \/ BuildAgain(r)
           \/ StartTeardown(r) \/ Deprovision(r) \/ DeprovisionAssumed(r)
           \/ DeprovisionFails(r) \/ TeardownDone(r)

-----------------------------------------------------------------------------
(* Properties. *)

\* The only ways in which a name, an address, a DNS record or a computer stays
\* in OneFuse after its resource is gone: its answer was never written, a
\* second build replaced the record, or its deletion failed and was taken for
\* done.  What the last build wrote is otherwise given back, also if the build
\* or an earlier teardown stopped half way.
LeftInOneFuse ==
    \A r \in Named :
        stage[r].pc = "gone" =>
            {o \in oneFuse : o[1] = r} \subseteq unanswered \cup replaced \cup refusedOnce
=============================================================================
