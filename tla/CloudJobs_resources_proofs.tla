--------------------- MODULE CloudJobs_resources_proofs ---------------------
(***************************************************************************)
(* Proofs about the components of CloudJobs in which one resource, or one  *)
(* user's own rows, is at stake: objects in a cloud, databases, the Azure  *)
(* subscription, job templates, OneFuse, configurations, Git               *)
(* configurations, ARM templates and the vRA migration.  Each part has the *)
(* component's inductive invariant, the lemmas that its actions preserve   *)
(* it, and the theorem about JobsSpec.  A step of another component        *)
(* changes nothing of this one, so it is a stutter for its invariant.      *)
(***************************************************************************)
EXTENDS CloudJobs, Selection, FiniteSetTheorems, SequenceTheorems, WellFoundedInduction,
        TLAPS

-----------------------------------------------------------------------------
(* Induction, by the least number for which a claim fails; and lists. *)

LEMMA Least ==
    ASSUME NEW T \in SUBSET Nat, T # {}
    PROVE  \E x \in T : \A y \in T : x <= y
<1>1. PICK x \in T : \A y \in T : <<y, x>> \notin OpToRel(<, Nat)
  BY NatLessThanWellFounded, WFMin
<1>2. \A y \in T : ~(y < x)
  BY <1>1 DEF OpToRel
<1>3. x \in Nat /\ \A y \in T : y \in Nat
  BY <1>1
<1> QED
  BY <1>2, <1>3

\* f is the selection of the first n items, for each n up to m.
SelectsUpTo(f, s, S, m) ==
    f = [n \in 0 .. m |-> IF n = 0 THEN <<>>
                          ELSE IF s[n] \in S THEN Append(f[n - 1], s[n]) ELSE f[n - 1]]

LEMMA SelectsExists ==
    ASSUME NEW m \in Nat, NEW s, NEW S
    PROVE  \E f : SelectsUpTo(f, s, S, m)
<1> DEFINE T == {n \in Nat : ~\E f : SelectsUpTo(f, s, S, n)}
<1> SUFFICES ASSUME T # {} PROVE FALSE
  OBVIOUS
<1>1. PICK n \in T : \A j \in T : n <= j
  <2>1. T \in SUBSET Nat
    OBVIOUS
  <2> HIDE DEF T
  <2> QED
    BY <2>1, Least
<1>2. CASE n = 0
  <2> DEFINE f == [k \in 0 .. 0 |-> <<>>]
  <2>1. \A k \in 0 .. 0 : k = 0
    OBVIOUS
  <2>2. SelectsUpTo(f, s, S, 0)
    BY <2>1 DEF SelectsUpTo
  <2> QED
    BY <1>2, <2>2
<1>3. CASE n # 0
  <2>1. n - 1 \in Nat /\ n - 1 \notin T
    BY <1>1, <1>3
  <2>2. PICK f : SelectsUpTo(f, s, S, n - 1)
    BY <2>1
  <2> DEFINE Upto(g, k) == IF k = 0 THEN <<>>
                          ELSE IF s[k] \in S THEN Append(g[k - 1], s[k]) ELSE g[k - 1]
             g == [k \in 0 .. n |-> IF k = n THEN Upto(f, n) ELSE f[k]]
  <2>3. \A k \in 0 .. n : k # n =>
           k \in 0 .. n - 1 /\ (k # 0 => k - 1 \in 0 .. n - 1 /\ k - 1 # n /\ k - 1 \in 0 .. n)
    BY <2>1
  <2>4. \A k \in 0 .. n - 1 : f[k] = Upto(f, k)
    BY <2>2 DEF SelectsUpTo
  <2>5. n - 1 \in 0 .. n /\ n - 1 # n
    BY <2>1
  <2>6. \A k \in 0 .. n : k # 0 => g[k - 1] = f[k - 1]
    BY <2>3, <2>5
  <2>7. \A k \in 0 .. n : g[k] = Upto(g, k)
    BY <2>3, <2>4, <2>6
  <2>8. g = [k \in 0 .. n |-> g[k]]
    OBVIOUS
  <2> HIDE DEF g
  <2>9. SelectsUpTo(g, s, S, n)
    BY <2>7, <2>8 DEF SelectsUpTo
  <2> QED
    BY <1>1, <2>9
<1> QED
  BY <1>2, <1>3

\* A selection is a list of selected items, no longer than the list, and has all.
LEMMA SelectedItems ==
    ASSUME NEW T, NEW s \in Seq(T), NEW S
    PROVE  /\ Selected(s, S) \in Seq(T \cap S)
           /\ Len(Selected(s, S)) <= Len(s)
           /\ \A k \in DOMAIN s : s[k] \in S =>
                 \E j \in DOMAIN Selected(s, S) : Selected(s, S)[j] = s[k]
<1> DEFINE f == CHOOSE f : SelectsUpTo(f, s, S, Len(s))
           Right(n) == /\ f[n] \in Seq(T \cap S) /\ Len(f[n]) <= n
                       /\ \A k \in 1 .. n : s[k] \in S => \E j \in DOMAIN f[n] : f[n][j] = s[k]
<1>1. Len(s) \in Nat /\ DOMAIN s = 1 .. Len(s)
  OBVIOUS
<1>2. SelectsUpTo(f, s, S, Len(s))
  BY <1>1, SelectsExists
<1>3. Selected(s, S) = f[Len(s)]
  BY DEF Selected, SelectsUpTo
<1> HIDE DEF f
<1>4. f[0] = <<>>
  BY <1>1, <1>2 DEF SelectsUpTo
<1>5. \A n \in 1 .. Len(s) :
         f[n] = IF s[n] \in S THEN Append(f[n - 1], s[n]) ELSE f[n - 1]
  <2>1. \A n \in 0 .. Len(s) :
           f[n] = IF n = 0 THEN <<>>
                  ELSE IF s[n] \in S THEN Append(f[n - 1], s[n]) ELSE f[n - 1]
    <3> HIDE DEF Right
    <3> QED
      BY <1>2 DEF SelectsUpTo
  <2>2. \A n \in 1 .. Len(s) : n \in 0 .. Len(s) /\ n # 0
    BY <1>1
  <2> QED
    BY <2>1, <2>2
<1>6. \A n \in 0 .. Len(s) : Right(n)
  <2> DEFINE W == {n \in 0 .. Len(s) : ~Right(n)}
  <2> SUFFICES ASSUME W # {} PROVE FALSE
    OBVIOUS
  <2>1. PICK n \in W : \A j \in W : n <= j
    <3>1. W \in SUBSET Nat
      BY <1>1
    <3> HIDE DEF W
    <3> QED
      BY <3>1, Least
  <2>2. Right(0)
    BY <1>4
  <2>3. n # 0 /\ n \in 1 .. Len(s) /\ n - 1 \in 0 .. Len(s) /\ n - 1 \notin W
    BY <1>1, <2>1, <2>2
  <2>4. Right(n - 1)
    BY <2>3
  <2>5. s[n] \in T
    BY <2>3
  <2>6. \A k \in 1 .. n : k = n \/ k \in 1 .. n - 1
    BY <2>3
  <2>7. CASE s[n] \in S
    <3> DEFINE a == f[n - 1]
    <3>1. f[n] = Append(a, s[n])
      BY <1>5, <2>3, <2>7
    <3>2. a \in Seq(T \cap S) /\ Len(a) <= n - 1
      BY <2>4
    <3>3. \A k \in 1 .. n - 1 : s[k] \in S => \E j \in DOMAIN a : a[j] = s[k]
      BY <2>4
    <3> HIDE DEF a
    <3>4. /\ Append(a, s[n]) \in Seq(T \cap S) /\ Len(Append(a, s[n])) <= n
          /\ Len(a) + 1 \in DOMAIN Append(a, s[n]) /\ Append(a, s[n])[Len(a) + 1] = s[n]
          /\ \A j \in DOMAIN a : j \in DOMAIN Append(a, s[n]) /\ Append(a, s[n])[j] = a[j]
      BY <2>3, <2>5, <2>7, <3>2
    <3>5. Right(n)
      BY <2>6, <3>1, <3>3, <3>4
    <3> QED
      BY <2>1, <3>5
  <2>8. CASE s[n] \notin S
    <3>1. f[n] = f[n - 1]
      BY <1>5, <2>3, <2>8
    <3>2. Right(n)
      BY <2>3, <2>4, <2>6, <2>8, <3>1
    <3> QED
      BY <2>1, <3>2
  <2> QED
    BY <2>7, <2>8
<1> HIDE DEF Right
<1>7. Right(Len(s))
  BY <1>1, <1>6
<1> QED
  BY <1>1, <1>3, <1>7 DEF Right

-----------------------------------------------------------------------------
(* Objects in a cloud. *)

\* What the control point of a job tells of the object and of the fields.
ObjectsInv ==
    /\ Objects!TypeOK
    /\ \A r \in ObjectBuilds :
          /\ Objects!At(r, "new") \/ Objects!At(r, "create") => Objects!Object(r) # r
          /\ Objects!SavesFirst(r) /\ ~Objects!At(r, "new") =>
                (Objects!Object(r) = r \/ ~Objects!At(r, "idle") => r \in namedOn)
          /\ Objects!At(r, "save") => ~Objects!SavesFirst(r)
          /\ Objects!At(r, "database") \/ Objects!At(r, "drop") => Objects!SavesFirst(r)
          /\ Objects!At(r, "wait") => r \in namedOn
          /\ Objects!At(r, "idle") /\ Objects!Object(r) = r => r \in namedOn \cup lost
          /\ Objects!At(r, "gone") /\ Objects!Object(r) = r => ObjectKind[r] \in {"stack", "s3"}

LEMMA ObjectsInit == Objects!Init => ObjectsInv
BY ObjectsAssumption
   DEF Objects!Init, ObjectsInv, Objects!TypeOK, Objects!At, Objects!Object, Objects!SavesFirst

LEMMA ObjectsStep == ObjectsInv /\ Objects!Next => ObjectsInv'
<1> SUFFICES ASSUME ObjectsInv, NEW r \in ObjectBuilds,
                    \/ Objects!SaveFirst(r) \/ Objects!PrepareStack(r)
                    \/ Objects!PrepareFunction(r) \/ Objects!Create(r)
                    \/ Objects!CreateRefused(r) \/ Objects!CreateLost(r)
                    \/ Objects!CreateDatabase(r) \/ Objects!Save(r)
                    \/ Objects!SaveFails(r) \/ Objects!WaitForStack(r) \/ Objects!TeardownStack(r)
                    \/ Objects!TeardownBucket(r) \/ Objects!TeardownFunction(r)
                    \/ Objects!TeardownDatabase(r) \/ Objects!TeardownServer(r)
             PROVE  ObjectsInv'
  BY DEF Objects!Next
<1> USE ObjectsAssumption
    DEF ObjectsInv, Objects!TypeOK, Objects!At, Objects!Object, Objects!SavesFirst,
        Objects!Goto, Objects!Make, Objects!Remove, Objects!Torn
<1>1. CASE Objects!SaveFirst(r)
  BY <1>1 DEF Objects!SaveFirst
<1>2. CASE Objects!PrepareStack(r)
  BY <1>2 DEF Objects!PrepareStack
<1>3. CASE Objects!PrepareFunction(r)
  BY <1>3 DEF Objects!PrepareFunction
<1>4. CASE Objects!Create(r)
  BY <1>4 DEF Objects!Create
<1>5. CASE Objects!CreateRefused(r)
  BY <1>5 DEF Objects!CreateRefused
<1>6. CASE Objects!CreateLost(r)
  BY <1>6 DEF Objects!CreateLost
<1>7. CASE Objects!CreateDatabase(r)
  BY <1>7 DEF Objects!CreateDatabase
<1>8. CASE Objects!Save(r)
  BY <1>8 DEF Objects!Save
<1>9. CASE Objects!WaitForStack(r)
  BY <1>9 DEF Objects!WaitForStack
<1>10. CASE Objects!TeardownStack(r)
  BY <1>10 DEF Objects!TeardownStack
<1>11. CASE Objects!TeardownBucket(r)
  BY <1>11 DEF Objects!TeardownBucket
<1>12. CASE Objects!TeardownFunction(r)
  BY <1>12 DEF Objects!TeardownFunction
<1>13. CASE Objects!TeardownDatabase(r)
  BY <1>13 DEF Objects!TeardownDatabase
<1>14. CASE Objects!TeardownServer(r)
  BY <1>14 DEF Objects!TeardownServer
<1>15. CASE Objects!SaveFails(r)
  BY <1>15 DEF Objects!SaveFails
<1> QED
  BY <1>1, <1>2, <1>3, <1>4, <1>5, <1>6, <1>7, <1>8, <1>9, <1>10, <1>11, <1>12, <1>13, <1>14,
     <1>15

LEMMA ObjectsStutter == ObjectsInv /\ UNCHANGED objectsVars => ObjectsInv'
BY DEF ObjectsInv, objectsVars, Objects!TypeOK, Objects!At, Objects!Object, Objects!SavesFirst

\* The step of the whole is one of the clouds' or changes nothing of theirs.
LEMMA ObjectsPart == [JobsNext]_jobsVars => Objects!Next \/ UNCHANGED objectsVars
BY DEF JobsNext, Only, jobsVars

\* What a build made can be found by its teardown, for any orders of any kinds.
THEOREM ObjectsFound == JobsSpec => []NothingForgotten
<1>1. JobsInit => ObjectsInv
  BY ObjectsInit DEF JobsInit
<1>2. ObjectsInv /\ [JobsNext]_jobsVars => ObjectsInv'
  BY ObjectsPart, ObjectsStep, ObjectsStutter
<1>3. ObjectsInv => NothingForgotten
  BY ObjectsAssumption
     DEF ObjectsInv, NothingForgotten, Objects!NothingForgotten, Objects!At, Objects!TypeOK,
         Objects!SavesFirst, Objects!Object
<1> QED
  BY <1>1, <1>2, <1>3, PTL DEF JobsSpec

-----------------------------------------------------------------------------
(* The MySQL database on AWS. *)

\* A resource that waits for an instance has made one, and what is recorded on
\* a resource comes from the discovery or from such a wait.
DatabaseInv ==
    /\ Database!TypeOK
    /\ deleters \subseteq DbImports \cup builders
    /\ \A r \in Database!DbResources :
          /\ dbRecord[r] # None => r \in DbImports \cup builders
          /\ dbPc[r] = "wait" => r \in builders
          /\ dbPc[r] \in {"stopping", "starting"} => dbRecord[r] # None

LEMMA DatabaseInit == Database!Init => DatabaseInv
BY DEF Database!Init, DatabaseInv, Database!TypeOK, Database!DbResources

LEMMA DatabaseStep == DatabaseInv /\ Database!Next => DatabaseInv'
<1> SUFFICES ASSUME DatabaseInv, Database!Next PROVE DatabaseInv'
  OBVIOUS
<1> USE DatabaseAssumption
    DEF DatabaseInv, Database!TypeOK, Database!DbResources, Database!Statuses,
        Database!Goto, Database!Record, Database!SetStatus, Database!Managed,
        Database!Instance, Database!Makes, Database!Deletes
<1>1. ASSUME NEW i \in DbIdentifiers, Database!Settle(i) PROVE DatabaseInv'
  BY <1>1 DEF Database!Settle
<1>2. ASSUME NEW r \in DbOrders, Database!CreateInstance(r) PROVE DatabaseInv'
  BY <1>2 DEF Database!CreateInstance
<1>3. ASSUME NEW r \in DbOrders, Database!IdentifierTaken(r) PROVE DatabaseInv'
  BY <1>3 DEF Database!IdentifierTaken
<1>4. ASSUME NEW r \in DbOrders, Database!CreateFails(r) PROVE DatabaseInv'
  BY <1>4 DEF Database!CreateFails
<1>5. ASSUME NEW r \in DbOrders, Database!BuildDone(r) PROVE DatabaseInv'
  BY <1>5 DEF Database!BuildDone
<1>6. ASSUME NEW r \in DbOrders, Database!WaitFails(r) PROVE DatabaseInv'
  BY <1>6 DEF Database!WaitFails
<1>7. ASSUME NEW r \in DbImports, NEW i \in DbIdentifiers, Database!Discover(r, i)
      PROVE  DatabaseInv'
  BY <1>7 DEF Database!Discover
<1>8. ASSUME NEW r \in Database!DbResources, Database!Refresh(r) PROVE DatabaseInv'
  BY <1>8 DEF Database!Refresh
<1>9. ASSUME NEW r \in Database!DbResources, Database!Stop(r) PROVE DatabaseInv'
  BY <1>9 DEF Database!Stop
<1>10. ASSUME NEW r \in Database!DbResources, NEW error \in BOOLEAN,
              Database!StopDone(r, error)
       PROVE  DatabaseInv'
  BY <1>10 DEF Database!StopDone
<1>11. ASSUME NEW r \in Database!DbResources, Database!Start(r) PROVE DatabaseInv'
  BY <1>11 DEF Database!Start
<1>12. ASSUME NEW r \in Database!DbResources, Database!StartDone(r) PROVE DatabaseInv'
  BY <1>12 DEF Database!StartDone
<1>13. ASSUME NEW r \in Database!DbResources, Database!StartFails(r) PROVE DatabaseInv'
  BY <1>13 DEF Database!StartFails
<1>14. ASSUME NEW r \in Database!DbResources, Database!Teardown(r) PROVE DatabaseInv'
  BY <1>14 DEF Database!Teardown
<1>15. ASSUME NEW r \in Database!DbResources, Database!TeardownLost(r) PROVE DatabaseInv'
  BY <1>15 DEF Database!TeardownLost
<1> QED
  BY <1>1, <1>2, <1>3, <1>4, <1>5, <1>6, <1>7, <1>8, <1>9, <1>10, <1>11, <1>12, <1>13,
     <1>14, <1>15
     DEF Database!Next

LEMMA DatabaseStutter == DatabaseInv /\ UNCHANGED databaseVars => DatabaseInv'
BY DEF DatabaseInv, databaseVars, Database!TypeOK, Database!DbResources

LEMMA DatabasePart == [JobsNext]_jobsVars => Database!Next \/ UNCHANGED databaseVars
BY DEF JobsNext, Only, jobsVars

\* A teardown deletes instances that the discovery found, or that a build made,
\* whatever identifiers are typed and however the jobs interleave.
THEOREM RefusedDeletesNothing == JobsSpec => []RefusedOrderDeletesNothing
<1>1. JobsInit => DatabaseInv
  BY DatabaseInit DEF JobsInit
<1>2. DatabaseInv /\ [JobsNext]_jobsVars => DatabaseInv'
  BY DatabasePart, DatabaseStep, DatabaseStutter
<1>3. DatabaseInv => RefusedOrderDeletesNothing
  BY DEF DatabaseInv, RefusedOrderDeletesNothing, Database!RefusedOrderDeletesNothing
<1> QED
  BY <1>1, <1>2, <1>3, PTL DEF JobsSpec

-----------------------------------------------------------------------------
(* The subscription in Azure. *)

\* What the build has seen and saved at each point, and that Azure provisions
\* an alias once.
SubscriptionInv ==
    /\ Subscription!TypeOK
    /\ eaPc \in {"form", "run", "alias"} => alias = "none"
    /\ alias # "Succeeded" => subscription = "none"
    /\ eaPc \in {"check", "owner"} => metadata = Subscription!Fields
    /\ seen = "active" => subscription = "active"
    /\ roleAnswer # "none" =>
          \E u \in EaUsers \ EaGuests :
             matches = {u} /\ (roleAnswer = "assigned" => ownerRole = u)
    /\ roleAnswer = "failed" => warned
    /\ eaResult # "none" => eaPc = "done"
    /\ Subscription!SuccessIsTrue

LEMMA SubscriptionInit == Subscription!Init => SubscriptionInv
<1> SUFFICES ASSUME Subscription!Init PROVE SubscriptionInv
  OBVIOUS
<1>0. tries \in 0 .. EaPollMax + EaCheckMax
  BY SubscriptionAssumption DEF Subscription!Init
<1>1. Subscription!TypeOK
  BY <1>0 DEF Subscription!Init, Subscription!TypeOK
<1> QED
  BY <1>1 DEF Subscription!Init, SubscriptionInv, Subscription!SuccessIsTrue

\* Whom the directory's answer makes Owner is the only user of it, and no guest.
LEMMA OnlyOwner ==
    ASSUME NEW found \in SUBSET EaUsers, Subscription!FindUser(found) # None
    PROVE  /\ found = {Subscription!FindUser(found)}
           /\ Subscription!FindUser(found) \notin EaGuests
<1>1. Cardinality(found) = 1 /\ found \cap EaGuests = {}
  BY DEF Subscription!FindUser, Subscription!Cardinality, Cardinality,
         Subscription!IsFiniteSet, IsFiniteSet
<1>2. IsFiniteSet(found)
  BY FS_Subset, SubscriptionAssumption
<1>3. PICK u : found = {u}
  BY <1>1, <1>2, FS_Singleton
<1>4. Subscription!FindUser(found) = CHOOSE x \in {u} : TRUE
  BY <1>1, <1>3 DEF Subscription!FindUser
<1> QED
  BY <1>1, <1>3, <1>4

LEMMA SubscriptionStep == SubscriptionInv /\ Subscription!Next => SubscriptionInv'
<1> SUFFICES ASSUME SubscriptionInv, Subscription!Next PROVE SubscriptionInv'
  OBVIOUS
<1> USE SubscriptionAssumption
    DEF SubscriptionInv, Subscription!TypeOK, Subscription!SuccessIsTrue, Subscription!NoForm,
        Subscription!azureVars, Subscription!ownerVars, Subscription!End, Subscription!Goto
<1>1. CASE Subscription!Provision
  BY <1>1 DEF Subscription!Provision
<1>2. CASE Subscription!Activate
  BY <1>2 DEF Subscription!Activate
<1>3. CASE Subscription!Validate
  BY <1>3 DEF Subscription!Validate
<1>4. CASE Subscription!CreateAlias
  BY <1>4 DEF Subscription!CreateAlias
<1>5. CASE Subscription!AliasFails
  BY <1>5 DEF Subscription!AliasFails
<1>6. CASE Subscription!PollAlias
  BY <1>6 DEF Subscription!PollAlias
<1>7. CASE Subscription!BuildFails
  BY <1>7 DEF Subscription!BuildFails
<1>8. CASE Subscription!PollTimeout
  BY <1>8 DEF Subscription!PollTimeout
<1>9. CASE Subscription!SaveMetadata
  BY <1>9 DEF Subscription!SaveMetadata
<1>10. CASE Subscription!CheckActive
  BY <1>10 DEF Subscription!CheckActive
<1>11. CASE Subscription!CheckTimeout
  BY <1>11 DEF Subscription!CheckTimeout
<1>12. CASE Subscription!Finish
  BY <1>12 DEF Subscription!Finish
<1>13. ASSUME NEW h \in EaHandlers, Subscription!LoseAccess(h) PROVE SubscriptionInv'
  BY <1>13 DEF Subscription!LoseAccess
<1>14. ASSUME NEW owner \in BOOLEAN, Subscription!FillForm(owner) PROVE SubscriptionInv'
  BY <1>14 DEF Subscription!FillForm, Subscription!HandlerOptions
<1>15. ASSUME NEW found \in SUBSET EaUsers, Subscription!AssignOwner(found)
       PROVE  SubscriptionInv'
  BY <1>15, OnlyOwner DEF Subscription!AssignOwner
<1> QED
  BY <1>1, <1>2, <1>3, <1>4, <1>5, <1>6, <1>7, <1>8, <1>9, <1>10, <1>11, <1>12, <1>13,
     <1>14, <1>15 DEF Subscription!Next

LEMMA SubscriptionStutter == SubscriptionInv /\ UNCHANGED subscriptionVars => SubscriptionInv'
BY DEF SubscriptionInv, subscriptionVars, Subscription!TypeOK, Subscription!SuccessIsTrue

LEMMA SubscriptionPart == [JobsNext]_jobsVars => Subscription!Next \/ UNCHANGED subscriptionVars
BY DEF JobsNext, Only, jobsVars

\* A build that reports success has the subscription that was asked for, for any
\* handlers, users and numbers of polls.
THEOREM SubscriptionAsOrdered == JobsSpec => []SuccessIsTrue
<1>1. JobsInit => SubscriptionInv
  BY SubscriptionInit DEF JobsInit
<1>2. SubscriptionInv /\ [JobsNext]_jobsVars => SubscriptionInv'
  BY SubscriptionPart, SubscriptionStep, SubscriptionStutter
<1>3. SubscriptionInv => SuccessIsTrue
  BY DEF SubscriptionInv, SuccessIsTrue, Subscription!SuccessIsTrue
<1> QED
  BY <1>1, <1>2, <1>3, PTL DEF JobsSpec

-----------------------------------------------------------------------------
(* The job templates of Ansible. *)

\* What was gathered are the facts of the pages looked at, from the events of a
\* job that is over.
TemplateInv ==
    /\ Template!TypeOK
    /\ ansPc \in {"idle", "launch"} => towerJob = "none" /\ gathered = {}
    /\ ansPc \in {"idle", "launch", "wait"} \/ towerJob = "running" => page = 1
    /\ ansPc \in {"events", "write"} => towerJob \in {"successful", "failed"}
    /\ ansPc = "events" => page <= Len(events)
    /\ ansPc = "write" => page = Len(events) + 1
    /\ \A i \in 1 .. page - 1 : events[i] \subseteq gathered
    /\ ansResult # "none" => ansPc = "done"
    /\ ansResult = "SUCCESS" =>
          \/ towerJob = "successful" /\ gathered = written /\ page = Len(events) + 1
          \/ ansScript = "naming" /\ towerJob = "none" /\ written = {}

LEMMA TemplateInit == Template!Init => TemplateInv
<1> SUFFICES ASSUME Template!Init PROVE TemplateInv
  OBVIOUS
<1>1. Len(events) = 1
  BY DEF Template!Init
<1>2. page \in 1 .. Len(events) + 1 /\ events \in TowerPages
  BY <1>1, TemplateAssumption DEF Template!Init
<1>3. Template!TypeOK
  BY <1>2 DEF Template!Init, Template!TypeOK
<1> QED
  BY <1>1, <1>3 DEF Template!Init, TemplateInv

LEMMA TemplateStep == TemplateInv /\ Template!Next => TemplateInv'
<1> SUFFICES ASSUME TemplateInv, Template!Next PROVE TemplateInv'
  OBVIOUS
<1> USE TemplateAssumption DEF TemplateInv, Template!TypeOK, Template!Goto, Template!End
<1>0. \A e \in TowerPages :
         Len(e) \in Nat \ {0} /\ \A i \in 1 .. Len(e) : e[i] \subseteq TowerFacts
  OBVIOUS
<1>1. CASE Template!JobEnds
  BY <1>0, <1>1 DEF Template!JobEnds
<1>2. CASE Template!RunTemplate
  BY <1>0, <1>2 DEF Template!RunTemplate
<1>3. CASE Template!RunTemplateFails
  BY <1>0, <1>3 DEF Template!RunTemplateFails
<1>4. CASE Template!WaitForComplete
  BY <1>0, <1>4 DEF Template!WaitForComplete
<1>5. CASE Template!GetFacts
  BY <1>0, <1>5 DEF Template!GetFacts
<1>6. CASE Template!GetFactsFails
  BY <1>0, <1>6 DEF Template!GetFactsFails
<1>7. CASE Template!WriteFails
  BY <1>0, <1>7 DEF Template!WriteFails
<1>8. CASE Template!Verdict
  BY <1>0, <1>8 DEF Template!Verdict
<1>9. ASSUME NEW s \in {"automation", "tower", "naming"}, NEW w \in BOOLEAN,
              Template!Begin(s, w)
      PROVE  TemplateInv'
  BY <1>0, <1>9 DEF Template!Begin
<1>10. ASSUME NEW f \in TowerFacts, Template!WriteFact(f) PROVE TemplateInv'
  BY <1>0, <1>10 DEF Template!WriteFact
<1>11. CASE Template!NamingSkipped
  BY <1>0, <1>11 DEF Template!NamingSkipped
<1> QED
  BY <1>1, <1>2, <1>3, <1>4, <1>5, <1>6, <1>7, <1>8, <1>9, <1>10, <1>11 DEF Template!Next

LEMMA TemplateStutter == TemplateInv /\ UNCHANGED templateVars => TemplateInv'
BY DEF TemplateInv, templateVars, Template!TypeOK

LEMMA TemplatePart == [JobsNext]_jobsVars => Template!Next \/ UNCHANGED templateVars
BY DEF JobsNext, Only, jobsVars

\* A script that reports success has written every fact of every page, for any
\* pages a job may have.
THEOREM FactsWritten == JobsSpec => []FactsComplete
<1>1. JobsInit => TemplateInv
  BY TemplateInit DEF JobsInit
<1>2. TemplateInv /\ [JobsNext]_jobsVars => TemplateInv'
  BY TemplatePart, TemplateStep, TemplateStutter
<1>3. TemplateInv => FactsComplete
  BY DEF TemplateInv, FactsComplete, Template!FactsComplete, Template!TypeOK
<1> QED
  BY <1>1, <1>2, <1>3, PTL DEF JobsSpec

-----------------------------------------------------------------------------
(* OneFuse. *)

ServiceKinds == {"OneFuse_Naming", "OneFuse_Ipam_Nic0", "OneFuse_AD", "OneFuse_Dns_Nic0"}
KindSet == (1 .. OfNameCount) \cup ServiceKinds

\* An object a build wrote to the resource, and still there.
RecordedObject(r, k) == <<r, k, fields[r][k]>>
KeptKinds(r) == {k \in DOMAIN fields[r] : /\ RecordedObject(r, k) \in oneFuse
                                          /\ RecordedObject(r, k) \notin refusedOnce}

StageSet == [pc : {"none", "building", "built", "failed", "deleting", "undeleted", "gone"},
             at : Nat \ {0}, build : 1 .. OfBuildMax]

OneFuseTyped ==
    /\ \A o \in oneFuse \cup unanswered \cup replaced \cup refusedOnce :
          o[1] \in OneFuse!Named /\ o[3] \in 1 .. OfBuildMax /\ o = <<o[1], o[2], o[3]>>
    /\ stage \in [OneFuse!Named -> StageSet]
    /\ DOMAIN fields = OneFuse!Named
    /\ \A r \in OneFuse!Named :
          /\ stage[r].at <= Len(OneFuse!Kinds(r)) + 3
          /\ DOMAIN fields[r] \subseteq {OneFuse!Kinds(r)[k] : k \in DOMAIN OneFuse!Kinds(r)}
          /\ fields[r] \in [DOMAIN fields[r] -> 1 .. OfBuildMax]

\* What a resource has in OneFuse is recorded or one of the known leftovers; a
\* teardown has given back the recorded objects it has passed.
OneFuseInv ==
    /\ OneFuseTyped
    /\ fields = [r \in OneFuse!Named |-> fields[r]]
    /\ \A r \in OneFuse!Named :
          /\ \A o \in oneFuse : o[1] = r =>
                \/ o \in unanswered \cup replaced \cup refusedOnce
                \/ o[2] \in DOMAIN fields[r] /\ fields[r][o[2]] = o[3]
          /\ stage[r].pc = "deleting" =>
                \A j \in DOMAIN OneFuse!Infos(r) :
                   j < stage[r].at => OneFuse!Infos(r)[j] \notin KeptKinds(r)
          /\ stage[r].pc = "gone" => KeptKinds(r) = {}

LEMMA KindsOf ==
    ASSUME NEW r \in OneFuse!Named
    PROVE  /\ OneFuse!Kinds(r) \in Seq(KindSet)
           /\ r \notin OfNaming => /\ OneFuse!Kinds(r) \in Seq(ServiceKinds)
                                   /\ Len(OneFuse!Kinds(r)) >= 3
<1>1. CASE r \in OfNaming
  <2>1. OneFuse!Kinds(r) = [k \in 1 .. OfNameCount |-> k]
    BY <1>1 DEF OneFuse!Kinds
  <2>2. OneFuse!Kinds(r) \in [1 .. OfNameCount -> KindSet]
    BY <2>1 DEF KindSet
  <2> QED
    BY <1>1, <2>2, SeqDef, OneFuseAssumption
<1>2. CASE r \notin OfNaming
  <2> DEFINE three == <<"OneFuse_Naming", "OneFuse_Ipam_Nic0", "OneFuse_Dns_Nic0">>
             more == IF r \in OfWindows THEN <<"OneFuse_AD">> ELSE <<>>
  <2>1. OneFuse!Kinds(r) = three \o more
    BY <1>2 DEF OneFuse!Kinds
  <2>2. three \in Seq(ServiceKinds) /\ Len(three) = 3
    BY DEF ServiceKinds
  <2>3. more \in Seq(ServiceKinds) /\ Len(more) \in Nat
    <3>1. <<"OneFuse_AD">> \in Seq(ServiceKinds) /\ <<>> \in Seq(ServiceKinds)
      BY DEF ServiceKinds
    <3>2. more \in Seq(ServiceKinds)
      BY <3>1
    <3> HIDE DEF more
    <3> QED
      BY <3>2
  <2> HIDE DEF three, more
  <2>4. OneFuse!Kinds(r) \in Seq(ServiceKinds) /\ Len(OneFuse!Kinds(r)) >= 3
    <3>1. three \o more \in Seq(ServiceKinds) /\ Len(three \o more) = Len(three) + Len(more)
      BY <2>2, <2>3, ConcatProperties
    <3> QED
      BY <2>1, <2>2, <2>3, <3>1
  <2>5. OneFuse!Kinds(r) \in Seq(KindSet)
    BY <2>4, SeqMonotonic DEF KindSet
  <2> QED
    BY <1>2, <2>4, <2>5
<1> QED
  BY <1>1, <1>2

\* A teardown finds everything that is recorded.
LEMMA InfosOf ==
    ASSUME OneFuseTyped, NEW r \in OneFuse!Named
    PROVE  /\ OneFuse!Infos(r) \in Seq(KindSet)
           /\ Len(OneFuse!Infos(r)) <= Len(OneFuse!Kinds(r)) + 1
           /\ \A k \in DOMAIN fields[r] :
                 \E j \in DOMAIN OneFuse!Infos(r) : OneFuse!Infos(r)[j] = k
           /\ r \in OfNaming => OneFuse!Infos(r) \in Seq(DOMAIN fields[r])
<1> DEFINE kinds == OneFuse!Kinds(r)
<1>1. /\ DOMAIN fields[r] \subseteq {kinds[k] : k \in DOMAIN kinds}
      /\ kinds \in Seq(KindSet) /\ Len(kinds) \in Nat
  BY KindsOf DEF OneFuseTyped
<1>2. CASE r \in OfNaming
  <2>1. OneFuse!Infos(r) = Selected(kinds, DOMAIN fields[r])
    BY <1>2 DEF OneFuse!Infos, OneFuse!Selected, Selected
  <2> HIDE DEF kinds
  <2>2. /\ OneFuse!Infos(r) \in Seq(KindSet \cap DOMAIN fields[r])
        /\ Len(OneFuse!Infos(r)) <= Len(kinds)
        /\ \A k \in DOMAIN kinds : kinds[k] \in DOMAIN fields[r] =>
              \E j \in DOMAIN OneFuse!Infos(r) : OneFuse!Infos(r)[j] = kinds[k]
    <3> DEFINE D == DOMAIN fields[r]
    <3> HIDE DEF D
    <3>1. /\ Selected(kinds, D) \in Seq(KindSet \cap D)
          /\ Len(Selected(kinds, D)) <= Len(kinds)
          /\ \A k \in DOMAIN kinds : kinds[k] \in D =>
                \E j \in DOMAIN Selected(kinds, D) : Selected(kinds, D)[j] = kinds[k]
      <4>1. kinds \in Seq(KindSet)
        BY <1>1
      <4> QED
        BY <4>1, SelectedItems
    <3> QED
      BY <2>1, <3>1 DEF D
  <2>3. OneFuse!Infos(r) \in Seq(KindSet) /\ OneFuse!Infos(r) \in Seq(DOMAIN fields[r])
        /\ Len(OneFuse!Infos(r)) \in Nat
    BY <2>2, SeqMonotonic
  <2> QED
    BY <1>1, <1>2, <2>2, <2>3 DEF kinds
<1>3. CASE r \notin OfNaming
  <2> DEFINE four == <<"OneFuse_Naming", "OneFuse_Ipam_Nic0", "OneFuse_AD",
                       "OneFuse_Dns_Nic0">>
  <2>1. OneFuse!Infos(r) = four
    BY <1>3 DEF OneFuse!Infos
  <2>2. /\ four \in Seq(KindSet) /\ Len(four) = 4 /\ DOMAIN four = 1 .. 4
        /\ \A k \in ServiceKinds : \E j \in 1 .. 4 : four[j] = k
    BY DEF KindSet, ServiceKinds
  <2>3. kinds \in Seq(ServiceKinds) /\ Len(kinds) >= 3
    BY <1>3, KindsOf
  <2> HIDE DEF four, kinds
  <2>4. DOMAIN fields[r] \subseteq ServiceKinds
    BY <1>1, <2>3
  <2> QED
    BY <1>1, <1>3, <2>1, <2>2, <2>3, <2>4 DEF kinds
<1> QED
  BY <1>2, <1>3

LEMMA OneFuseInit == OneFuse!Init => OneFuseInv
<1> SUFFICES ASSUME OneFuse!Init PROVE OneFuseInv
  OBVIOUS
<1>1. \A r \in OneFuse!Named : Len(OneFuse!Kinds(r)) \in Nat
  BY KindsOf
<1> QED
  BY <1>1, OneFuseAssumption DEF OneFuse!Init, OneFuseInv, OneFuseTyped, StageSet, KeptKinds

\* Steps that change nothing but where the resource r is.
LEMMA OneFuseGoto ==
    ASSUME OneFuseInv, NEW r \in OneFuse!Named, NEW to,
           to \in StageSet,
           stage' = [stage EXCEPT ![r] = to], to.at <= Len(OneFuse!Kinds(r)) + 3,
           UNCHANGED <<oneFuse, fields, unanswered, replaced, refusedOnce>>,
           to.pc = "deleting" => to.at = 1,
           to.pc = "gone" => KeptKinds(r) = {}
    PROVE  OneFuseInv'
<1>1. /\ stage'[r] = to /\ \A q \in OneFuse!Named \ {r} : stage'[q] = stage[q]
      /\ stage' \in [OneFuse!Named -> StageSet]
  BY DEF OneFuseInv, OneFuseTyped
<1>2. OneFuseTyped'
  BY <1>1 DEF OneFuseInv, OneFuseTyped
<1>3. \A q \in OneFuse!Named : /\ OneFuse!Infos(q)' = OneFuse!Infos(q)
                               /\ KeptKinds(q)' = KeptKinds(q)
  BY DEF OneFuse!Infos, KeptKinds, RecordedObject
<1>4. \A j \in DOMAIN OneFuse!Infos(r) : j >= 1
  <2>1. OneFuse!Infos(r) \in Seq(KindSet)
    BY InfosOf DEF OneFuseInv
  <2> QED
    BY <2>1
<1>5. ASSUME NEW q \in OneFuse!Named
      PROVE  /\ stage'[q].pc = "deleting" =>
                   \A j \in DOMAIN OneFuse!Infos(q) :
                      j < stage'[q].at => OneFuse!Infos(q)[j] \notin KeptKinds(q)
             /\ stage'[q].pc = "gone" => KeptKinds(q) = {}
  <2>1. CASE q = r
    <3>1. OneFuse!Infos(r) \in Seq(KindSet)
      BY InfosOf DEF OneFuseInv
    <3>2. \A j \in DOMAIN OneFuse!Infos(r) : ~(j < 1)
      BY <3>1
    <3> QED
      BY <2>1, <1>1, <3>2
  <2>2. CASE q # r
    BY <2>2, <1>1 DEF OneFuseInv
  <2> QED
    BY <2>1, <2>2
<1> QED
  BY <1>2, <1>3, <1>5 DEF OneFuseInv

LEMMA OneFuseProvision ==
    ASSUME OneFuseInv, NEW r \in OneFuse!Named, OneFuse!Provision(r)
    PROVE  OneFuseInv'
<1> DEFINE kind == OneFuse!Kinds(r)[stage[r].at]
           b == stage[r].build
<1>1. /\ stage[r].pc = "building" /\ stage[r].at <= Len(OneFuse!Kinds(r))
      /\ oneFuse' = oneFuse \cup {<<r, kind, b>>}
      /\ fields' = [fields EXCEPT ![r] = [k \in DOMAIN fields[r] \cup {kind} |->
                                             IF k = kind THEN b ELSE fields[r][k]]]
      /\ replaced' = replaced \cup {<<r, k, fields[r][k]>> : k \in {kind} \cap DOMAIN fields[r]}
      /\ stage' = [stage EXCEPT ![r].at = @ + 1]
      /\ UNCHANGED <<unanswered, refusedOnce>>
  BY DEF OneFuse!Provision, OneFuse!Asking, OneFuse!Asked, OneFuse!Written
<1>2. /\ stage[r] \in StageSet /\ stage[r].at \in Nat \ {0}
      /\ stage[r].build \in 1 .. OfBuildMax
  BY DEF OneFuseInv, OneFuseTyped, StageSet
<1>3. Len(OneFuse!Kinds(r)) \in Nat /\ stage[r].at \in DOMAIN OneFuse!Kinds(r)
  BY <1>1, <1>2, KindsOf
<1>4. /\ stage'[r].pc = "building" /\ stage'[r].at = stage[r].at + 1
      /\ \A q \in OneFuse!Named \ {r} : stage'[q] = stage[q]
      /\ stage' \in [OneFuse!Named -> StageSet]
  <2> DEFINE p == [stage[r] EXCEPT !.at = stage[r].at + 1]
  <2>1. p \in StageSet /\ p.pc = stage[r].pc /\ p.at = stage[r].at + 1
    BY <1>2 DEF StageSet
  <2>2. stage' = [stage EXCEPT ![r] = p] /\ stage \in [OneFuse!Named -> StageSet]
    BY <1>1 DEF OneFuseInv, OneFuseTyped
  <2> HIDE DEF p
  <2> QED
    BY <1>1, <2>1, <2>2
<1>5. /\ fields'[r] = [k \in DOMAIN fields[r] \cup {kind} |->
                          IF k = kind THEN b ELSE fields[r][k]]
      /\ \A q \in OneFuse!Named \ {r} : fields'[q] = fields[q]
      /\ DOMAIN fields' = OneFuse!Named
      /\ fields' = [q \in OneFuse!Named |-> fields'[q]]
  <2>1. fields = [q \in OneFuse!Named |-> fields[q]]
    BY DEF OneFuseInv
  <2>2. fields' = [q \in OneFuse!Named |-> IF q = r THEN
                      [k \in DOMAIN fields[r] \cup {kind} |->
                          IF k = kind THEN b ELSE fields[r][k]] ELSE fields[q]]
    BY <1>1, <2>1
  <2> QED
    BY <2>2
<1> HIDE DEF kind, b
<1>6. OneFuseTyped'
  <2>1. stage'[r].at <= Len(OneFuse!Kinds(r)) + 3
    BY <1>1, <1>2, <1>3, <1>4
  <2>2. /\ DOMAIN fields'[r] \subseteq {OneFuse!Kinds(r)[k] : k \in DOMAIN OneFuse!Kinds(r)}
        /\ fields'[r] \in [DOMAIN fields'[r] -> 1 .. OfBuildMax]
    BY <1>2, <1>3, <1>5 DEF OneFuseInv, OneFuseTyped, kind, b
  <2>3. \A o \in oneFuse' \cup unanswered' \cup replaced' \cup refusedOnce' :
           o[1] \in OneFuse!Named /\ o[3] \in 1 .. OfBuildMax /\ o = <<o[1], o[2], o[3]>>
    BY <1>1, <1>2 DEF OneFuseInv, OneFuseTyped, b
  <2>4. ASSUME NEW q \in OneFuse!Named
        PROVE  /\ stage'[q].at <= Len(OneFuse!Kinds(q)) + 3
               /\ DOMAIN fields'[q] \subseteq
                     {OneFuse!Kinds(q)[k] : k \in DOMAIN OneFuse!Kinds(q)}
               /\ fields'[q] \in [DOMAIN fields'[q] -> 1 .. OfBuildMax]
    <3>1. CASE q = r
      BY <2>1, <2>2, <3>1
    <3>2. CASE q # r
      <4>1. stage'[q] = stage[q] /\ fields'[q] = fields[q]
        BY <1>4, <1>5, <3>2
      <4> QED
        BY <4>1 DEF OneFuseInv, OneFuseTyped
    <3> QED
      BY <3>1, <3>2
  <2> QED
    BY <1>4, <1>5, <2>3, <2>4 DEF OneFuseTyped
<1>7. ASSUME NEW q \in OneFuse!Named, NEW o \in oneFuse', o[1] = q
      PROVE  \/ o \in unanswered' \cup replaced' \cup refusedOnce'
             \/ o[2] \in DOMAIN fields'[q] /\ fields'[q][o[2]] = o[3]
  <2>1. CASE o = <<r, kind, b>>
    BY <1>5, <1>7, <2>1
  <2>2. CASE o \in oneFuse
    <3>1. o = <<o[1], o[2], o[3]>>
      BY <2>2 DEF OneFuseInv, OneFuseTyped
    <3> QED
      BY <1>1, <1>5, <1>7, <2>2, <3>1 DEF OneFuseInv
  <2> QED
    BY <1>1, <2>1, <2>2
<1>8. ASSUME NEW q \in OneFuse!Named, stage'[q].pc \in {"deleting", "gone"}
      PROVE  /\ q # r /\ OneFuse!Infos(q)' = OneFuse!Infos(q)
             /\ KeptKinds(q)' \subseteq KeptKinds(q)
  <2>1. q # r
    BY <1>4, <1>8
  <2>2. OneFuse!Infos(q)' = OneFuse!Infos(q)
    BY <1>5, <2>1 DEF OneFuse!Infos
  <2> QED
    BY <1>1, <1>5, <2>1, <2>2 DEF KeptKinds, RecordedObject
<1> QED
  BY <1>4, <1>5, <1>6, <1>7, <1>8 DEF OneFuseInv

LEMMA OneFuseProvisionFails ==
    ASSUME OneFuseInv, NEW r \in OneFuse!Named, OneFuse!ProvisionFails(r)
    PROVE  OneFuseInv'
<1> DEFINE obj == OneFuse!Asked(r)
<1>1. /\ stage[r].pc = "building"
      /\ \/ UNCHANGED <<oneFuse, unanswered>>
         \/ oneFuse' = oneFuse \cup {obj} /\ unanswered' = unanswered \cup {obj}
      /\ stage' = [stage EXCEPT ![r].pc = "failed"]
      /\ UNCHANGED <<fields, replaced, refusedOnce>>
  BY DEF OneFuse!ProvisionFails, OneFuse!Asking
<1>2. /\ stage[r] \in StageSet /\ stage[r].at \in Nat \ {0}
      /\ stage[r].build \in 1 .. OfBuildMax
  BY DEF OneFuseInv, OneFuseTyped, StageSet
<1>3. obj[1] = r /\ obj[3] \in 1 .. OfBuildMax /\ obj = <<obj[1], obj[2], obj[3]>>
  BY <1>2 DEF OneFuse!Asked
<1> HIDE DEF obj
<1>4. /\ stage'[r].pc = "failed" /\ stage'[r].at = stage[r].at
      /\ \A q \in OneFuse!Named \ {r} : stage'[q] = stage[q]
      /\ stage' \in [OneFuse!Named -> StageSet]
  BY <1>1, <1>2 DEF OneFuseInv, OneFuseTyped, StageSet
<1>5. OneFuseTyped'
  BY <1>1, <1>3, <1>4 DEF OneFuseInv, OneFuseTyped
<1>6. \A q \in OneFuse!Named : OneFuse!Infos(q)' = OneFuse!Infos(q)
  BY <1>1 DEF OneFuse!Infos
<1>7. \A q \in OneFuse!Named \ {r} : KeptKinds(q)' = KeptKinds(q)
  BY <1>1, <1>3 DEF KeptKinds, RecordedObject
<1> QED
  BY <1>1, <1>4, <1>5, <1>6, <1>7 DEF OneFuseInv

LEMMA OneFuseDeprovision ==
    ASSUME OneFuseInv, NEW r \in OneFuse!Named,
           OneFuse!Deprovision(r) \/ OneFuse!DeprovisionAssumed(r)
    PROVE  OneFuseInv'
<1> DEFINE infos == OneFuse!Infos(r)
           k == infos[stage[r].at]
           obj == RecordedObject(r, k)
<1>1. /\ stage[r].pc = "deleting" /\ stage[r].at <= Len(infos)
      /\ \/ oneFuse' = oneFuse \ {obj} /\ UNCHANGED refusedOnce
         \/ refusedOnce' = refusedOnce \cup {obj} /\ UNCHANGED oneFuse
      /\ stage' = [stage EXCEPT ![r].at = @ + 1]
      /\ UNCHANGED <<fields, unanswered, replaced>>
      /\ r \in OfNaming \/ k \in DOMAIN fields[r]
  BY DEF OneFuse!Deprovision, OneFuse!DeprovisionAssumed, OneFuse!Deleting, OneFuse!Obj,
         OneFuse!Recorded, RecordedObject
<1>2. /\ stage[r] \in StageSet /\ stage[r].at \in Nat \ {0}
      /\ stage[r].build \in 1 .. OfBuildMax
      /\ OneFuseTyped
  BY DEF OneFuseInv, OneFuseTyped, StageSet
<1>3. /\ infos \in Seq(KindSet) /\ Len(infos) <= Len(OneFuse!Kinds(r)) + 1
      /\ r \in OfNaming => infos \in Seq(DOMAIN fields[r])
      /\ Len(OneFuse!Kinds(r)) \in Nat /\ Len(infos) \in Nat
  BY <1>2, InfosOf, KindsOf
<1>4. /\ stage'[r].pc = "deleting" /\ stage'[r].at = stage[r].at + 1
      /\ \A q \in OneFuse!Named \ {r} : stage'[q] = stage[q]
      /\ stage' \in [OneFuse!Named -> StageSet]
  <2> DEFINE p == [stage[r] EXCEPT !.at = stage[r].at + 1]
  <2>1. p \in StageSet /\ p.pc = stage[r].pc /\ p.at = stage[r].at + 1
    BY <1>2 DEF StageSet
  <2>2. stage' = [stage EXCEPT ![r] = p] /\ stage \in [OneFuse!Named -> StageSet]
    BY <1>1 DEF OneFuseInv, OneFuseTyped
  <2> HIDE DEF p
  <2> QED
    BY <1>1, <2>1, <2>2
<1> HIDE DEF infos
<1>5. k \in DOMAIN fields[r] /\ stage[r].at \in DOMAIN infos
  BY <1>1, <1>2, <1>3
<1>6. obj[1] = r /\ obj[3] \in 1 .. OfBuildMax /\ obj = <<obj[1], obj[2], obj[3]>>
  BY <1>2, <1>5 DEF RecordedObject, OneFuseTyped
<1>7. OneFuseTyped'
  <2>1. stage'[r].at <= Len(OneFuse!Kinds(r)) + 3
    BY <1>1, <1>2, <1>3, <1>4
  <2> HIDE DEF obj
  <2> QED
    BY <1>1, <1>2, <1>4, <1>6, <2>1 DEF OneFuseTyped
<1>8. \A q \in OneFuse!Named : OneFuse!Infos(q)' = OneFuse!Infos(q)
  BY <1>1 DEF OneFuse!Infos
<1>9. \A q \in OneFuse!Named : KeptKinds(q)' \subseteq KeptKinds(q)
  BY <1>1 DEF KeptKinds, RecordedObject
<1>10. k \notin KeptKinds(r)'
  BY <1>1 DEF KeptKinds, RecordedObject
<1>11. ASSUME NEW j \in DOMAIN infos, j < stage'[r].at
       PROVE  infos[j] \notin KeptKinds(r)'
  <2>1. CASE j = stage[r].at
    BY <1>10, <2>1
  <2>2. CASE j # stage[r].at
    <3>1. j < stage[r].at
      BY <1>2, <1>3, <1>4, <1>11, <2>2
    <3> QED
      BY <1>1, <1>9, <1>11, <3>1 DEF OneFuseInv, infos
  <2> QED
    BY <2>1, <2>2
<1>12. \A q \in OneFuse!Named : \A o \in oneFuse' : o[1] = q =>
          \/ o \in unanswered' \cup replaced' \cup refusedOnce'
          \/ o[2] \in DOMAIN fields'[q] /\ fields'[q][o[2]] = o[3]
  BY <1>1 DEF OneFuseInv
<1>13. ASSUME NEW q \in OneFuse!Named
       PROVE  /\ stage'[q].pc = "deleting" =>
                    \A j \in DOMAIN OneFuse!Infos(q) :
                       j < stage'[q].at => OneFuse!Infos(q)[j] \notin KeptKinds(q)'
              /\ stage'[q].pc = "gone" => KeptKinds(q)' = {}
  <2>1. CASE q = r
    BY <1>4, <1>11, <2>1 DEF infos
  <2>2. CASE q # r
    BY <1>4, <1>9, <2>2 DEF OneFuseInv
  <2> QED
    BY <2>1, <2>2
<1>14. fields' = [q \in OneFuse!Named |-> fields'[q]]
  BY <1>1 DEF OneFuseInv
<1> QED
  BY <1>7, <1>8, <1>12, <1>13, <1>14 DEF OneFuseInv

LEMMA OneFuseStep == OneFuseInv /\ OneFuse!Next => OneFuseInv'
<1> SUFFICES ASSUME OneFuseInv, NEW r \in OneFuse!Named,
                    \/ OneFuse!Order(r) \/ OneFuse!ToolkitFails(r) \/ OneFuse!Provision(r)
                    \/ OneFuse!ProvisionFails(r) \/ OneFuse!BuildDone(r)
                    \/ OneFuse!BuildAgain(r) \/ OneFuse!StartTeardown(r)
                    \/ OneFuse!Deprovision(r) \/ OneFuse!DeprovisionAssumed(r)
                    \/ OneFuse!DeprovisionFails(r) \/ OneFuse!TeardownDone(r)
             PROVE  OneFuseInv'
  BY DEF OneFuse!Next
<1>1. /\ stage[r] \in StageSet /\ stage[r].at <= Len(OneFuse!Kinds(r)) + 3
      /\ Len(OneFuse!Kinds(r)) \in Nat
  BY KindsOf DEF OneFuseInv, OneFuseTyped
<1>2. ASSUME NEW pc \in {"building", "built", "failed", "undeleted", "gone"},
             stage' = [stage EXCEPT ![r].pc = pc], pc = "gone" => KeptKinds(r) = {},
             UNCHANGED <<oneFuse, fields, unanswered, replaced, refusedOnce>>
      PROVE  OneFuseInv'
  <2> DEFINE to == [stage[r] EXCEPT !.pc = pc]
  <2>1. to \in StageSet /\ to.pc = pc /\ to.at = stage[r].at
    BY <1>1 DEF StageSet
  <2>2. stage' = [stage EXCEPT ![r] = to]
    BY <1>2
  <2> HIDE DEF to
  <2> QED
    BY <1>1, <1>2, <2>1, <2>2, OneFuseGoto
<1>3. CASE OneFuse!Order(r)
  BY <1>2, <1>3 DEF OneFuse!Order
<1>4. CASE OneFuse!ToolkitFails(r)
  BY <1>2, <1>4 DEF OneFuse!ToolkitFails
<1>5. CASE OneFuse!BuildDone(r)
  BY <1>2, <1>5 DEF OneFuse!BuildDone
<1>6. CASE OneFuse!DeprovisionFails(r)
  BY <1>2, <1>6 DEF OneFuse!DeprovisionFails
<1>7. CASE OneFuse!BuildAgain(r)
  <2> DEFINE to == [pc |-> "building", at |-> 1, build |-> stage[r].build + 1]
  <2>1. stage[r].build \in 1 .. OfBuildMax /\ stage[r].build < OfBuildMax
    BY <1>1, <1>7 DEF OneFuse!BuildAgain, StageSet
  <2>2. to \in StageSet
    BY <2>1, OneFuseAssumption DEF StageSet
  <2>3. /\ stage' = [stage EXCEPT ![r] = to]
        /\ UNCHANGED <<oneFuse, fields, unanswered, replaced, refusedOnce>>
    BY <1>7 DEF OneFuse!BuildAgain
  <2>4. to.pc = "building" /\ to.at = 1
    OBVIOUS
  <2> HIDE DEF to
  <2> QED
    <3>1. to.at <= Len(OneFuse!Kinds(r)) + 3
      BY <1>1, <2>4
    <3> QED
      BY <2>2, <2>3, <2>4, <3>1, OneFuseGoto
<1>8. CASE OneFuse!StartTeardown(r)
  <2> DEFINE to == [stage[r] EXCEPT !.pc = "deleting", !.at = 1]
  <2>1. to \in StageSet /\ to.pc = "deleting" /\ to.at = 1
    <3>1. PICK n \in Nat \ {0} : n = 1
      OBVIOUS
    <3>2. [stage[r] EXCEPT !.pc = "deleting", !.at = n] \in StageSet
      BY <1>1 DEF StageSet
    <3>3. to.pc = "deleting" /\ to.at = 1
      BY <1>1 DEF StageSet
    <3> QED
      BY <3>1, <3>2, <3>3
  <2>2. /\ stage' = [stage EXCEPT ![r] = to]
        /\ UNCHANGED <<oneFuse, fields, unanswered, replaced, refusedOnce>>
    <3>1. stage \in [OneFuse!Named -> StageSet]
      BY DEF OneFuseInv, OneFuseTyped
    <3> QED
      BY <1>8, <3>1 DEF OneFuse!StartTeardown
  <2> HIDE DEF to
  <2> QED
    <3>1. to.at <= Len(OneFuse!Kinds(r)) + 3
      BY <1>1, <2>1
    <3> QED
      BY <2>1, <2>2, <3>1, OneFuseGoto
<1>9. CASE OneFuse!TeardownDone(r)
  <2>1. stage[r].pc = "deleting" /\ ~(stage[r].at <= Len(OneFuse!Infos(r)))
    BY <1>9 DEF OneFuse!TeardownDone, OneFuse!Deleting
  <2>2. /\ OneFuse!Infos(r) \in Seq(KindSet)
        /\ \A k \in DOMAIN fields[r] :
              \E j \in DOMAIN OneFuse!Infos(r) : OneFuse!Infos(r)[j] = k
    BY InfosOf DEF OneFuseInv
  <2>3. stage[r].at \in Nat
    BY <1>1 DEF StageSet
  <2>4. \A j \in DOMAIN OneFuse!Infos(r) : j < stage[r].at
    BY <2>1, <2>2, <2>3
  <2>5. KeptKinds(r) = {}
    BY <2>1, <2>2, <2>4 DEF OneFuseInv, KeptKinds
  <2> QED
    BY <1>2, <1>9, <2>5 DEF OneFuse!TeardownDone
<1>10. CASE OneFuse!Provision(r)
  BY <1>10, OneFuseProvision
<1>11. CASE OneFuse!ProvisionFails(r)
  BY <1>11, OneFuseProvisionFails
<1>12. CASE OneFuse!Deprovision(r) \/ OneFuse!DeprovisionAssumed(r)
  BY <1>12, OneFuseDeprovision
<1> QED
  BY <1>3, <1>4, <1>5, <1>6, <1>7, <1>8, <1>9, <1>10, <1>11, <1>12

LEMMA OneFuseStutter == OneFuseInv /\ UNCHANGED onefuseVars => OneFuseInv'
BY DEF OneFuseInv, OneFuseTyped, onefuseVars, KeptKinds, RecordedObject, OneFuse!Infos

LEMMA OneFusePart == [JobsNext]_jobsVars => OneFuse!Next \/ UNCHANGED onefuseVars
BY DEF JobsNext, Only, jobsVars

\* What is left in OneFuse of a resource that is gone was never recorded, recorded
\* over, or refused once: for any resources, number of names and of builds.
THEOREM OnlyKnownLeftovers == JobsSpec => []LeftInOneFuse
<1>1. JobsInit => OneFuseInv
  BY OneFuseInit DEF JobsInit
<1>2. OneFuseInv /\ [JobsNext]_jobsVars => OneFuseInv'
  BY OneFusePart, OneFuseStep, OneFuseStutter
<1>3. OneFuseInv => LeftInOneFuse
  <2> SUFFICES ASSUME OneFuseInv, NEW r \in OneFuse!Named, stage[r].pc = "gone",
                      NEW o \in oneFuse, o[1] = r
               PROVE  o \in unanswered \cup replaced \cup refusedOnce
    BY DEF LeftInOneFuse, OneFuse!LeftInOneFuse
  <2>1. o = <<o[1], o[2], o[3]>> /\ KeptKinds(r) = {}
    BY DEF OneFuseInv, OneFuseTyped
  <2> QED
    BY <2>1 DEF OneFuseInv, KeptKinds, RecordedObject
<1> QED
  BY <1>1, <1>2, <1>3, PTL DEF JobsSpec

-----------------------------------------------------------------------------
(* The configurations of Ansible Automation. *)

ConcatsUpTo(f, m) ==
    f = [i \in 0 .. m |-> IF i = 0 THEN <<>> ELSE f[i - 1] \o AapTiers[i]]

LEMMA ConcatsExists ==
    ASSUME NEW m \in Nat
    PROVE  \E f : ConcatsUpTo(f, m)
<1> DEFINE T == {n \in Nat : ~\E f : ConcatsUpTo(f, n)}
<1> SUFFICES ASSUME T # {} PROVE FALSE
  OBVIOUS
<1>1. PICK n \in T : \A j \in T : n <= j
  <2>1. T \in SUBSET Nat
    OBVIOUS
  <2> HIDE DEF T
  <2> QED
    BY <2>1, Least
<1>2. CASE n = 0
  <2> DEFINE f == [k \in 0 .. 0 |-> <<>>]
  <2>1. \A k \in 0 .. 0 : k = 0
    OBVIOUS
  <2>2. ConcatsUpTo(f, 0)
    BY <2>1 DEF ConcatsUpTo
  <2> QED
    BY <1>2, <2>2
<1>3. CASE n # 0
  <2>1. n - 1 \in Nat /\ n - 1 \notin T
    BY <1>1, <1>3
  <2>2. PICK f : ConcatsUpTo(f, n - 1)
    BY <2>1
  <2> DEFINE Upto(g, k) == IF k = 0 THEN <<>> ELSE g[k - 1] \o AapTiers[k]
             g == [k \in 0 .. n |-> IF k = n THEN Upto(f, n) ELSE f[k]]
  <2>3. \A k \in 0 .. n : k # n =>
           k \in 0 .. n - 1 /\ (k # 0 => k - 1 \in 0 .. n - 1 /\ k - 1 # n /\ k - 1 \in 0 .. n)
    BY <2>1
  <2>4. \A k \in 0 .. n - 1 : f[k] = Upto(f, k)
    BY <2>2 DEF ConcatsUpTo
  <2>5. n - 1 \in 0 .. n /\ n - 1 # n
    BY <2>1
  <2>6. \A k \in 0 .. n : k # 0 => g[k - 1] = f[k - 1]
    BY <2>3, <2>5
  <2>7. \A k \in 0 .. n : g[k] = Upto(g, k)
    BY <2>3, <2>4, <2>6
  <2>8. g = [k \in 0 .. n |-> g[k]]
    OBVIOUS
  <2> HIDE DEF g
  <2>9. ConcatsUpTo(g, n)
    BY <2>7, <2>8 DEF ConcatsUpTo
  <2> QED
    BY <1>1, <2>9
<1> QED
  BY <1>2, <1>3

LEMMA AllServersTyped == Configurations!AllServers \in Seq(Configurations!Servers)
<1> DEFINE f == CHOOSE f : ConcatsUpTo(f, Len(AapTiers))
<1>1. AapTiers \in Seq(Seq(Configurations!Servers)) /\ Len(AapTiers) \in Nat
  BY ConfigurationsAssumption DEF Configurations!Servers
<1>2. ConcatsUpTo(f, Len(AapTiers))
  BY <1>1, ConcatsExists
<1>3. Configurations!AllServers = f[Len(AapTiers)]
  BY DEF Configurations!AllServers, ConcatsUpTo
<1> HIDE DEF f
<1>4. \A i \in 0 .. Len(AapTiers) : f[i] = IF i = 0 THEN <<>> ELSE f[i - 1] \o AapTiers[i]
  BY <1>2 DEF ConcatsUpTo
<1>5. \A i \in 0 .. Len(AapTiers) : f[i] \in Seq(Configurations!Servers)
  <2> DEFINE W == {i \in 0 .. Len(AapTiers) : f[i] \notin Seq(Configurations!Servers)}
  <2> SUFFICES ASSUME W # {} PROVE FALSE
    OBVIOUS
  <2>1. PICK i \in W : \A j \in W : i <= j
    <3>1. W \in SUBSET Nat
      BY <1>1
    <3> HIDE DEF W
    <3> QED
      BY <3>1, Least
  <2>2. i # 0
    <3>1. f[0] = <<>> /\ <<>> \in Seq(Configurations!Servers)
      BY <1>1, <1>4
    <3> QED
      BY <2>1, <3>1
  <2>3. i - 1 \in 0 .. Len(AapTiers) /\ i - 1 \notin W /\ i \in 1 .. Len(AapTiers)
    BY <1>1, <2>1, <2>2
  <2>4. f[i - 1] \in Seq(Configurations!Servers) /\ AapTiers[i] \in Seq(Configurations!Servers)
    BY <1>1, <2>3
  <2>5. f[i] = f[i - 1] \o AapTiers[i]
    BY <1>4, <2>1, <2>2
  <2> QED
    BY <2>1, <2>4, <2>5, ConcatProperties
<1> QED
  BY <1>1, <1>3, <1>5

Rounds == Seq(Seq(Configurations!Work))

OneApp(round) == \A j, k \in DOMAIN round : round[j][1] = round[k][1]

LEMMA OnServersTyped ==
    ASSUME NEW a \in DOMAIN AapAppOf
    PROVE  /\ Configurations!OnServers(a) \in Seq(Configurations!Work)
           /\ OneApp(Configurations!OnServers(a))
<1> DEFINE S == {s \in Configurations!Servers : AapAppOf[a] = AapManager[s]}
           fitting == Selected(Configurations!AllServers, S)
           round == Configurations!OnServers(a)
<1>1. fitting \in Seq(Configurations!Servers)
  <2> HIDE DEF S
  <2>1. fitting \in Seq(Configurations!Servers \cap S)
    BY AllServersTyped, SelectedItems
  <2> HIDE DEF fitting
  <2> QED
    BY <2>1, SeqMonotonic
<1>2. round = [i \in DOMAIN fitting |-> <<a, fitting[i]>>]
  BY DEF Configurations!OnServers, Configurations!Selected, Selected
<1> HIDE DEF fitting, round
<1>3. DOMAIN fitting = 1 .. Len(fitting) /\ Len(fitting) \in Nat
  BY <1>1
<1>4. round \in [1 .. Len(fitting) -> Configurations!Work]
  BY <1>1, <1>2, <1>3 DEF Configurations!Work
<1>5. round \in Seq(Configurations!Work)
  BY <1>3, <1>4, SeqDef
<1>6. OneApp(round)
  BY <1>2 DEF OneApp
<1> QED
  BY <1>5, <1>6 DEF round

LEMMA ApplicableTyped ==
    ASSUME NEW s \in Configurations!Servers
    PROVE  Configurations!Applicable(s) \in Seq(DOMAIN AapAppOf)
<1> DEFINE S == {a \in DOMAIN AapAppOf : AapAppOf[a] = AapManager[s]}
           D == DOMAIN AapAppOf
<1>1. Configurations!Applicable(s) = Selected(AapApps, S)
  BY DEF Configurations!Applicable, Configurations!Selected, Selected
<1>2. AapApps \in Seq(D)
  BY ConfigurationsAssumption
<1> HIDE DEF S, D
<1>3. Selected(AapApps, S) \in Seq(D \cap S)
  BY <1>2, SelectedItems
<1>4. Selected(AapApps, S) \in Seq(D)
  BY <1>3, SeqMonotonic
<1> QED
  BY <1>1, <1>4 DEF D

LEMMA OnServerTyped ==
    ASSUME NEW s \in Configurations!Servers
    PROVE  Configurations!OnServer(s) \in Seq(Configurations!Work)
<1> DEFINE apps == Configurations!Applicable(s)
           round == Configurations!OnServer(s)
<1>1. apps \in Seq(DOMAIN AapAppOf)
  BY ApplicableTyped
<1>2. round = [i \in DOMAIN apps |-> <<apps[i], s>>]
  BY DEF Configurations!OnServer
<1> HIDE DEF apps, round
<1>3. DOMAIN apps = 1 .. Len(apps) /\ Len(apps) \in Nat
  BY <1>1
<1>4. round \in [1 .. Len(apps) -> Configurations!Work]
  BY <1>1, <1>2, <1>3 DEF Configurations!Work
<1> QED
  BY <1>3, <1>4, SeqDef DEF round

LEMMA BuildRoundsTyped ==
    /\ Configurations!BuildRounds \in Rounds
    /\ \A i \in DOMAIN Configurations!BuildRounds : OneApp(Configurations!BuildRounds[i])
<1>1. /\ AapApps \in Seq(DOMAIN AapAppOf) /\ Len(AapApps) \in Nat
      /\ DOMAIN AapApps = 1 .. Len(AapApps)
  BY ConfigurationsAssumption
<1>2. \A i \in DOMAIN AapApps : AapApps[i] \in DOMAIN AapAppOf
  BY <1>1
<1>3. /\ Configurations!BuildRounds \in [1 .. Len(AapApps) -> Seq(Configurations!Work)]
      /\ \A i \in DOMAIN Configurations!BuildRounds : OneApp(Configurations!BuildRounds[i])
  BY <1>1, <1>2, OnServersTyped DEF Configurations!BuildRounds
<1> QED
  BY <1>1, <1>3, SeqDef DEF Rounds

LEMMA TeardownRoundsTyped ==
    ASSUME NEW s \in Configurations!Servers
    PROVE  /\ Configurations!TeardownRounds(s) \in Rounds
           /\ \A i \in DOMAIN Configurations!TeardownRounds(s) :
                 OneApp(Configurations!TeardownRounds(s)[i])
<1> DEFINE apps == Configurations!Applicable(s)
           r == Configurations!TeardownRounds(s)
<1>1. apps \in Seq(DOMAIN AapAppOf)
  BY ApplicableTyped
<1>2. r = [i \in DOMAIN apps |-> <<<<apps[i], s>>>>]
  BY DEF Configurations!TeardownRounds
<1> HIDE DEF apps, r
<1>3. DOMAIN apps = 1 .. Len(apps) /\ Len(apps) \in Nat
  BY <1>1
<1>4. \A i \in DOMAIN apps : <<apps[i], s>> \in Configurations!Work
  BY <1>1, <1>3 DEF Configurations!Work
<1>5. \A w \in Configurations!Work : <<w>> \in Seq(Configurations!Work) /\ OneApp(<<w>>)
  BY DEF OneApp
<1>6. /\ r \in [1 .. Len(apps) -> Seq(Configurations!Work)]
      /\ \A i \in DOMAIN r : OneApp(r[i])
  BY <1>2, <1>3, <1>4, <1>5
<1> QED
  BY <1>3, <1>6, SeqDef DEF Rounds, r

LEMMA Day2RoundsTyped == Configurations!Day2Rounds \in Rounds
<1> DEFINE all == Configurations!AllServers
           r == Configurations!Day2Rounds
<1>1. all \in Seq(Configurations!Servers)
  BY AllServersTyped
<1>2. r = [i \in DOMAIN all |-> Configurations!OnServer(all[i])]
  BY DEF Configurations!Day2Rounds
<1> HIDE DEF all, r
<1>3. DOMAIN all = 1 .. Len(all) /\ Len(all) \in Nat
  BY <1>1
<1>4. \A i \in DOMAIN all : all[i] \in Configurations!Servers
  BY <1>1, <1>3
<1>5. r \in [1 .. Len(all) -> Seq(Configurations!Work)]
  BY <1>2, <1>3, <1>4, OnServerTyped
<1> QED
  BY <1>3, <1>5, SeqDef DEF Rounds, r

OneByOne == aapPc # "idle" /\ aapAction \in {"build", "teardown"}

\* What the build and the teardown launched and did not wait for is of the
\* configuration of the round, which goes on or is waited for.
RoundInv ==
    /\ \A i \in DOMAIN rounds : OneApp(rounds[i])
    /\ \A v \in Configurations!Work :
          jobState[v] = "running" /\ Configurations!Asked(v[1]) => v \in aapJobs
    /\ aapJobs # {} /\ aapPc # "done" =>
          /\ rounds # <<>>
          /\ rounds[1] = <<>> => aapPc = "wait"
          /\ \A v \in aapJobs : \A k \in DOMAIN rounds[1] : rounds[1][k][1] = v[1]

ConfigurationsInv ==
    /\ rounds \in Rounds
    /\ aapJobs \subseteq Configurations!Work
    /\ jobState \in [Configurations!Work -> {"none", "running", "successful", "failed"}]
    /\ aapPc = "idle" => aapJobs = {} /\ \A v \in Configurations!Work : jobState[v] = "none"
    /\ aapPc = "wait" => rounds # <<>>
    /\ OneByOne => RoundInv

LEMMA ConfigurationsInit == Configurations!Init => ConfigurationsInv
<1>1. <<>> \in Rounds
  BY DEF Rounds
<1> QED
  BY <1>1 DEF Configurations!Init, ConfigurationsInv, OneByOne

\* Rounds of one configuration each, if the action is the build or the teardown.
LEMMA ConfigurationsBegin ==
    ASSUME ConfigurationsInv, NEW action, NEW work \in Rounds,
           action \in {"build", "teardown"} => \A i \in DOMAIN work : OneApp(work[i]),
           Configurations!Begin(action, work)
    PROVE  ConfigurationsInv'
BY DEF Configurations!Begin, ConfigurationsInv, OneByOne, RoundInv, Configurations!Asked

LEMMA RoundsTail ==
    ASSUME NEW r \in Rounds, r # <<>>
    PROVE  /\ Tail(r) \in Rounds
           /\ (\A i \in DOMAIN r : OneApp(r[i])) => \A i \in DOMAIN Tail(r) : OneApp(Tail(r)[i])
<1>1. Tail(r) \in Rounds
  BY DEF Rounds
<1>2. \A i \in DOMAIN Tail(r) : i + 1 \in DOMAIN r /\ Tail(r)[i] = r[i + 1]
  BY DEF Rounds
<1> QED
  BY <1>1, <1>2

\* The next round begins when nothing is left to wait for.
LEMMA ConfigurationsNextRound ==
    ASSUME ConfigurationsInv, rounds # <<>>, rounds' = Tail(rounds), aapPc' \in {"host"},
           aapPc # "idle", aapJobs' = {}, UNCHANGED <<aapAction, jobState>>,
           OneByOne => \A v \in aapJobs : Configurations!Asked(v[1]) => jobState[v] # "running"
    PROVE  ConfigurationsInv'
<1>1. rounds' \in Rounds
  BY RoundsTail DEF ConfigurationsInv
<1>2. OneByOne => \A i \in DOMAIN rounds' : OneApp(rounds'[i])
  BY RoundsTail DEF ConfigurationsInv, RoundInv
<1> QED
  BY <1>1, <1>2 DEF ConfigurationsInv, OneByOne, RoundInv, Configurations!Asked

LEMMA ConfigurationsFails ==
    ASSUME ConfigurationsInv, aapPc \in {"host", "launch"}, rounds # <<>>,
           Configurations!Fails, UNCHANGED <<aapAction, jobState>>
    PROVE  ConfigurationsInv'
<1>1. CASE aapAction \in {"day2", "terraform"}
  BY <1>1, ConfigurationsNextRound DEF Configurations!Fails, OneByOne
<1>2. CASE aapAction \notin {"day2", "terraform"}
  BY <1>2 DEF Configurations!Fails, ConfigurationsInv, OneByOne, RoundInv, Configurations!Asked
<1> QED
  BY <1>1, <1>2

LEMMA ConfigurationsLaunch ==
    ASSUME ConfigurationsInv, Configurations!LaunchJob
    PROVE  ConfigurationsInv'
<1> DEFINE round == rounds[1]
           w == round[1]
<1>1. /\ aapPc = "launch" /\ rounds # <<>> /\ round # <<>>
      /\ jobState' = [jobState EXCEPT ![w] = "running"]
      /\ aapJobs' = aapJobs \cup {w}
      /\ rounds' = [rounds EXCEPT ![1] = Tail(round)]
      /\ aapPc' = IF Len(round) = 1 THEN "wait" ELSE "host"
      /\ UNCHANGED aapAction
  BY DEF Configurations!LaunchJob, Configurations!InRound, Configurations!Round
<1>2. rounds \in Rounds
  BY DEF ConfigurationsInv
<1>3. round \in Seq(Configurations!Work) /\ 1 \in DOMAIN rounds
  BY <1>1, <1>2 DEF Rounds
<1>4. /\ w \in Configurations!Work /\ Tail(round) \in Seq(Configurations!Work)
      /\ Len(round) \in Nat \ {0} /\ 1 \in DOMAIN round
      /\ \A k \in DOMAIN Tail(round) : k + 1 \in DOMAIN round /\ Tail(round)[k] = round[k + 1]
      /\ Tail(round) = <<>> => Len(round) = 1
  <2>1. w = Head(round) /\ w \in Configurations!Work /\ Tail(round) \in Seq(Configurations!Work)
    BY <1>1, <1>3
  <2>2. /\ DOMAIN round = 1 .. Len(round) /\ Len(round) \in Nat /\ Len(round) # 0
        /\ Len(Tail(round)) = Len(round) - 1 /\ DOMAIN Tail(round) = 1 .. Len(round) - 1
        /\ \A k \in 1 .. Len(round) - 1 : Tail(round)[k] = round[k + 1]
    BY <1>1, <1>3
  <2> DEFINE rest == Tail(round)
  <2>3. Len(<<>>) = 0
    OBVIOUS
  <2>4. rest = <<>> => Len(round) = 1
    <3> SUFFICES ASSUME rest = <<>> PROVE Len(round) = 1
      OBVIOUS
    <3>1. Len(rest) = 0 /\ Len(rest) = Len(round) - 1 /\ Len(round) \in Nat
      BY <2>2, <2>3
    <3> HIDE DEF rest, round
    <3> QED
      BY <3>1
  <2>5. \A k \in DOMAIN rest : k + 1 \in DOMAIN round /\ rest[k] = round[k + 1]
    BY <2>2
  <2>6. Len(round) \in Nat \ {0} /\ 1 \in DOMAIN round
    BY <2>2
  <2> QED
    BY <2>1, <2>4, <2>5, <2>6
<1> HIDE DEF round
<1>5. /\ rounds' \in Rounds /\ rounds' # <<>> /\ DOMAIN rounds' = DOMAIN rounds
      /\ rounds'[1] = Tail(round)
      /\ \A i \in DOMAIN rounds : i # 1 => rounds'[i] = rounds[i]
  <2>1. Len(rounds) \in Nat /\ DOMAIN rounds = 1 .. Len(rounds) /\ 1 \in 1 .. Len(rounds)
    BY <1>2, <1>3 DEF Rounds
  <2>2. /\ rounds' \in Seq(Seq(Configurations!Work)) /\ Len(rounds') = Len(rounds)
        /\ \A j \in 1 .. Len(rounds) : rounds'[j] = IF j = 1 THEN Tail(round) ELSE rounds[j]
    BY <1>1, <1>2, <1>4, <2>1, ExceptSeq DEF Rounds
  <2>3. DOMAIN rounds' = DOMAIN rounds
    BY <2>1, <2>2
  <2>4. rounds' # <<>>
    BY <2>1, <2>3
  <2>5. rounds' \in Rounds
    BY <2>2 DEF Rounds
  <2>6. /\ rounds'[1] = Tail(round)
        /\ \A i \in DOMAIN rounds : i # 1 => rounds'[i] = rounds[i]
    BY <2>1, <2>2
  <2> QED
    BY <2>3, <2>4, <2>5, <2>6
<1>6. jobState' \in [Configurations!Work -> {"none", "running", "successful", "failed"}]
  BY <1>1 DEF ConfigurationsInv
<1>7. OneByOne => RoundInv'
  <2> SUFFICES ASSUME OneByOne PROVE RoundInv'
    OBVIOUS
  <2>1. RoundInv
    BY DEF ConfigurationsInv
  <2>2. \A k \in DOMAIN round : round[k][1] = w[1]
    BY <1>3, <1>4, <2>1 DEF RoundInv, OneApp, round
  <2>3. OneApp(Tail(round))
    BY <1>4, <2>2 DEF OneApp
  <2>4. \A i \in DOMAIN rounds' : OneApp(rounds'[i])
    BY <1>5, <2>1, <2>3 DEF RoundInv
  <2>5. \A v \in aapJobs' : v[1] = w[1]
    <3>1. \A v \in aapJobs : v[1] = w[1]
      BY <1>1, <1>4, <2>1, <2>2 DEF RoundInv, round
    <3> QED
      BY <1>1, <3>1
  <2>6. \A v \in aapJobs' : \A k \in DOMAIN rounds'[1] : rounds'[1][k][1] = v[1]
    BY <1>4, <1>5, <2>2, <2>5
  <2>7. \A v \in Configurations!Work :
           jobState'[v] = "running" /\ Configurations!Asked(v[1])' => v \in aapJobs'
    BY <1>1, <1>4, <2>1 DEF RoundInv, Configurations!Asked, ConfigurationsInv
  <2>8. rounds'[1] = <<>> => aapPc' = "wait"
    BY <1>1, <1>4, <1>5
  <2> QED
    BY <1>5, <2>4, <2>6, <2>7, <2>8 DEF RoundInv
<1>8. aapPc' # "idle" /\ (OneByOne' => OneByOne)
  BY <1>1 DEF OneByOne
<1> QED
  BY <1>1, <1>4, <1>5, <1>6, <1>7, <1>8 DEF ConfigurationsInv

LEMMA ConfigurationsStep == ConfigurationsInv /\ Configurations!Next => ConfigurationsInv'
<1> SUFFICES ASSUME ConfigurationsInv, Configurations!Next PROVE ConfigurationsInv'
  OBVIOUS
<1>1. CASE Configurations!BeginBuild
  BY <1>1, BuildRoundsTyped, ConfigurationsBegin DEF Configurations!BeginBuild
<1>2. CASE Configurations!BeginDay2 \/ Configurations!BeginTerraform
  BY <1>2, Day2RoundsTyped, ConfigurationsBegin
     DEF Configurations!BeginDay2, Configurations!BeginTerraform
<1>3. ASSUME NEW s \in Configurations!Servers, Configurations!BeginTeardown(s)
      PROVE  ConfigurationsInv'
  <2>1. <<>> \in Rounds /\ \A i \in DOMAIN <<>> : OneApp(<<>>[i])
    BY DEF Rounds
  <2> QED
    BY <1>3, <2>1, TeardownRoundsTyped, ConfigurationsBegin DEF Configurations!BeginTeardown
<1>4. ASSUME NEW s \in Configurations!Servers, Configurations!BeginProvision(s)
      PROVE  ConfigurationsInv'
  <2>1. <<Configurations!OnServer(s)>> \in Rounds
    BY OnServerTyped DEF Rounds
  <2> QED
    BY <1>4, <2>1, ConfigurationsBegin DEF Configurations!BeginProvision
<1>5. CASE Configurations!AddHost
  BY <1>5 DEF Configurations!AddHost, Configurations!InRound, ConfigurationsInv, OneByOne,
              RoundInv, Configurations!Asked
<1>6. CASE Configurations!AddHostFails \/ Configurations!LaunchFails
  BY <1>6, ConfigurationsFails
     DEF Configurations!AddHostFails, Configurations!LaunchFails, Configurations!InRound
<1>7. CASE Configurations!LaunchJob
  BY <1>7, ConfigurationsLaunch
<1>8. CASE Configurations!EmptyRound
  <2>1. /\ aapPc = "host" /\ aapPc' = "host" /\ rounds # <<>> /\ rounds[1] = <<>>
        /\ rounds' = Tail(rounds) /\ UNCHANGED <<aapAction, aapJobs, jobState>>
    BY <1>8 DEF Configurations!EmptyRound, Configurations!Round
  <2>2. rounds' \in Rounds
    BY <2>1, RoundsTail DEF ConfigurationsInv
  <2>3. OneByOne => aapJobs = {} /\ \A i \in DOMAIN rounds' : OneApp(rounds'[i])
    BY <2>1, RoundsTail DEF ConfigurationsInv, RoundInv
  <2> QED
    BY <2>1, <2>2, <2>3 DEF ConfigurationsInv, OneByOne, RoundInv, Configurations!Asked
<1>9. CASE Configurations!WaitRound
  <2>1. /\ aapPc = "wait" /\ aapPc' = "host" /\ rounds' = Tail(rounds) /\ aapJobs' = {}
        /\ \A v \in aapJobs : Configurations!Asked(v[1]) => jobState[v] # "running"
        /\ UNCHANGED <<aapAction, jobState>>
    BY <1>9 DEF Configurations!WaitRound
  <2>2. rounds # <<>>
    BY <2>1 DEF ConfigurationsInv
  <2> QED
    BY <2>1, <2>2, ConfigurationsNextRound
<1>10. CASE Configurations!Done
  BY <1>10 DEF Configurations!Done, ConfigurationsInv, OneByOne, RoundInv,
               Configurations!Asked
<1>11. ASSUME NEW w \in Configurations!Work, Configurations!JobEnds(w)
       PROVE  ConfigurationsInv'
  BY <1>11 DEF Configurations!JobEnds, ConfigurationsInv, OneByOne, RoundInv,
               Configurations!Asked
<1> QED
  BY <1>1, <1>2, <1>3, <1>4, <1>5, <1>6, <1>7, <1>8, <1>9, <1>10, <1>11
     DEF Configurations!Next

LEMMA ConfigurationsStutter ==
    ConfigurationsInv /\ UNCHANGED configurationsVars => ConfigurationsInv'
BY DEF ConfigurationsInv, configurationsVars, OneByOne, RoundInv, Configurations!Asked

LEMMA ConfigurationsPart ==
    [JobsNext]_jobsVars => Configurations!Next \/ UNCHANGED configurationsVars
BY DEF JobsNext, Only, jobsVars

\* What a step of the build and of the teardown may launch.
LaunchesApart ==
    \A w \in Configurations!Work :
       jobState[w] = "none" /\ jobState'[w] = "running" /\ aapAction \in {"build", "teardown"} =>
          \A v \in Configurations!Work :
             jobState[v] = "running" => v[1] = w[1] \/ ~Configurations!Asked(v[1])

LEMMA ConfigurationsLaunches ==
    ASSUME ConfigurationsInv, Configurations!Next
    PROVE  LaunchesApart
<1>1. CASE Configurations!LaunchJob
  <2> SUFFICES ASSUME NEW w \in Configurations!Work, jobState[w] = "none",
                      jobState'[w] = "running", aapAction \in {"build", "teardown"},
                      NEW v \in Configurations!Work, jobState[v] = "running",
                      Configurations!Asked(v[1])
               PROVE  v[1] = w[1]
    BY DEF LaunchesApart
  <2>1. /\ aapPc = "launch" /\ rounds # <<>> /\ rounds[1] # <<>>
        /\ jobState' = [jobState EXCEPT ![rounds[1][1]] = "running"]
    BY <1>1 DEF Configurations!LaunchJob, Configurations!InRound, Configurations!Round
  <2>2. w = rounds[1][1]
    BY <2>1 DEF ConfigurationsInv
  <2>3. 1 \in DOMAIN rounds[1]
    <3>1. rounds[1] \in Seq(Configurations!Work)
      BY <2>1 DEF ConfigurationsInv, Rounds
    <3> QED
      BY <2>1, <3>1
  <2> QED
    BY <2>1, <2>2, <2>3 DEF ConfigurationsInv, OneByOne, RoundInv
<1>2. CASE UNCHANGED jobState
  BY <1>2 DEF LaunchesApart
<1>3. ASSUME NEW w \in Configurations!Work, Configurations!JobEnds(w)
      PROVE  LaunchesApart
  BY <1>3 DEF Configurations!JobEnds, LaunchesApart, ConfigurationsInv
<1>4. Configurations!LaunchJob \/ UNCHANGED jobState
         \/ \E w \in Configurations!Work : Configurations!JobEnds(w)
  BY DEF Configurations!Next, Configurations!BeginBuild, Configurations!BeginDay2,
         Configurations!BeginTerraform, Configurations!BeginTeardown,
         Configurations!BeginProvision, Configurations!Begin, Configurations!AddHost,
         Configurations!AddHostFails, Configurations!LaunchFails, Configurations!EmptyRound,
         Configurations!WaitRound, Configurations!Done
<1> QED
  BY <1>1, <1>2, <1>3, <1>4

\* The build and the teardown launch a configuration only when no job of another
\* one runs: for any configurations, tiers and config managers.
THEOREM ConfigurationsApart == JobsSpec => OneConfigurationAtATime
<1>1. JobsInit => ConfigurationsInv
  BY ConfigurationsInit DEF JobsInit
<1>2. ConfigurationsInv /\ [JobsNext]_jobsVars => ConfigurationsInv'
  BY ConfigurationsPart, ConfigurationsStep, ConfigurationsStutter
<1>3. ConfigurationsInv /\ [JobsNext]_jobsVars => [LaunchesApart]_(Configurations!vars)
  <2>1. UNCHANGED configurationsVars <=> UNCHANGED Configurations!vars
    BY DEF configurationsVars, Configurations!vars
  <2> QED
    BY <2>1, ConfigurationsPart, ConfigurationsLaunches
<1>4. (JobsSpec => OneConfigurationAtATime)
        <=> (JobsSpec => [][LaunchesApart]_(Configurations!vars))
  BY DEF OneConfigurationAtATime, Configurations!OneConfigurationAtATime, LaunchesApart
<1> QED
  BY <1>1, <1>2, <1>3, <1>4, PTL DEF JobsSpec

-----------------------------------------------------------------------------
(* The Git configurations and tokens of the users. *)

GitKeys == GitNames \cup GitTokens \cup {"user"}
GitValues == Git!Users \cup GitTokens \cup {"token"}

LEMMA GitObjects ==
    ASSUME NEW d
    PROVE  d \in Git!Objects <=> d \in [DOMAIN d -> GitValues] /\ DOMAIN d \subseteq GitKeys
BY DEF Git!Objects, GitKeys, GitValues

\* The user an object names, if it names one, is u.
NamesOnly(d, u) == "user" \in DOMAIN d /\ d["user"] \in Git!Users => d["user"] = u

LEMMA GitEmpty == <<>> \in Git!Objects /\ DOMAIN <<>> = {}
<1>1. PICK e : e = <<>>
  OBVIOUS
<1>2. e \in Seq(GitValues) /\ Len(e) = 0
  BY <1>1
<1>3. DOMAIN e = {} /\ e \in [DOMAIN e -> GitValues]
  BY <1>2
<1> QED
  BY <1>1, <1>3, GitObjects

LEMMA GitNew ==
    ASSUME NEW u \in Git!Users
    PROVE  /\ Git!NewObject(u) \in Git!Objects /\ NamesOnly(Git!NewObject(u), u)
           /\ Git!Shown(Git!NewObject(u)) = Git!Shown(<<>>)
           /\ \A v : NamesOnly(Git!NewObject(u), v) => v = u
<1>1. Git!NewObject(u) \in [{"user"} -> GitValues] /\ DOMAIN Git!NewObject(u) = {"user"}
  BY DEF Git!NewObject, GitValues
<1>2. Git!NewObject(u) \in Git!Objects
  BY <1>1, GitObjects DEF GitKeys
<1>3. Git!Shown(Git!NewObject(u)) = Git!Shown(<<>>)
  BY <1>1, GitEmpty DEF Git!Shown, Git!Less
<1> QED
  BY <1>2, <1>3 DEF NamesOnly, Git!NewObject

\* The keys and the values of an object with one entry changed.
LEMMA GitChanged ==
    ASSUME NEW q, q.name \in GitNames \cup GitTokens, q.token \in GitTokens,
           NEW d \in Git!Objects, NEW u, NamesOnly(d, u)
    PROVE  Git!Changed(q, d) \in Git!Objects /\ NamesOnly(Git!Changed(q, d), u)
<1> DEFINE v == IF q.type = "git_config" THEN q.token ELSE "token"
           e == Git!Changed(q, d)
<1>1. v \in GitTokens \cup {"token"} /\ v \notin Git!Users
  BY GitAssumption DEF Git!Users, Git!Requests
<1>2. d \in [DOMAIN d -> GitValues] /\ DOMAIN d \subseteq GitKeys
  BY GitObjects
<1>3. CASE q.op = "delete"
  <2>1. e = [k \in DOMAIN d \ {q.name} |-> d[k]]
    BY <1>3 DEF Git!Changed, Git!Less
  <2>2. e \in [DOMAIN e -> GitValues] /\ DOMAIN e \subseteq GitKeys
    BY <1>2, <2>1
  <2> QED
    BY <2>1, <2>2, GitObjects DEF NamesOnly
<1>4. CASE q.op # "delete"
  <2>1. e = [k \in DOMAIN d \cup {q.name} |-> IF k = q.name THEN v ELSE d[k]]
    BY <1>4 DEF Git!Changed, Git!With
  <2>2. e \in [DOMAIN e -> GitValues] /\ DOMAIN e \subseteq GitKeys
    BY <1>1, <1>2, <2>1 DEF GitKeys, GitValues
  <2>3. NamesOnly(e, u)
    BY <1>1, <2>1 DEF NamesOnly
  <2> QED
    BY <2>2, <2>3, GitObjects
<1> QED
  BY <1>3, <1>4

\* What is shown of a changed object depends on what was shown of it.
LEMMA GitShown ==
    ASSUME NEW q, NEW d \in Git!Objects, NEW e \in Git!Objects, Git!Shown(d) = Git!Shown(e)
    PROVE  Git!Shown(Git!Changed(q, d)) = Git!Shown(Git!Changed(q, e))
<1> DEFINE v == IF q.type = "git_config" THEN q.token ELSE "token"
<1>1. /\ DOMAIN d \ {"user"} = DOMAIN e \ {"user"}
      /\ \A k \in DOMAIN d \ {"user"} : d[k] = e[k]
  <2>1. DOMAIN Git!Shown(d) = DOMAIN d \ {"user"} /\ DOMAIN Git!Shown(e) = DOMAIN e \ {"user"}
    BY DEF Git!Shown, Git!Less
  <2>2. /\ \A k \in DOMAIN d \ {"user"} : Git!Shown(d)[k] = d[k]
        /\ \A k \in DOMAIN e \ {"user"} : Git!Shown(e)[k] = e[k]
    BY DEF Git!Shown, Git!Less
  <2> QED
    BY <2>1, <2>2
<1>2. ASSUME NEW x \in {d, e}, q.op = "delete"
      PROVE  Git!Shown(Git!Changed(q, x)) = [k \in (DOMAIN x \ {"user"}) \ {q.name} |-> x[k]]
  <2>1. Git!Changed(q, x) = [k \in DOMAIN x \ {q.name} |-> x[k]]
    BY <1>2 DEF Git!Changed, Git!Less
  <2> QED
    BY <2>1 DEF Git!Shown, Git!Less
<1>3. ASSUME NEW x \in {d, e}, q.op # "delete"
      PROVE  Git!Shown(Git!Changed(q, x)) =
                [k \in ((DOMAIN x \ {"user"}) \cup {q.name}) \ {"user"} |->
                    IF k = q.name THEN v ELSE x[k]]
  <2>1. Git!Changed(q, x) = [k \in DOMAIN x \cup {q.name} |-> IF k = q.name THEN v ELSE x[k]]
    BY <1>3 DEF Git!Changed, Git!With
  <2> QED
    BY <2>1 DEF Git!Shown, Git!Less
<1>4. CASE q.op = "delete"
  <2>1. [k \in (DOMAIN d \ {"user"}) \ {q.name} |-> d[k]]
           = [k \in (DOMAIN e \ {"user"}) \ {q.name} |-> e[k]]
    BY <1>1
  <2> QED
    BY <1>2, <1>4, <2>1
<1>5. CASE q.op # "delete"
  <2> DEFINE D == ((DOMAIN d \ {"user"}) \cup {q.name}) \ {"user"}
  <2>1. \A k \in D : (IF k = q.name THEN v ELSE d[k]) = (IF k = q.name THEN v ELSE e[k])
    BY <1>1
  <2>2. D = ((DOMAIN e \ {"user"}) \cup {q.name}) \ {"user"}
    BY <1>1
  <2> QED
    BY <1>3, <1>5, <2>1, <2>2
<1> QED
  BY <1>4, <1>5

\* The requests being handled, and the field values.
GitReadLists == Seq(Git!Types) \ {<<>>}
GitRequest == [pc : {"look", "create", "again", "save"}, user : Git!Users, type : Git!Types,
               op : {"view", "save", "edit", "delete"},
               name : GitNames \cup GitTokens, old : GitNames \cup GitTokens,
               token : GitTokens, left : GitReadLists, data : Git!Objects]
GitCfv == [type : Git!Types, users : {{u} : u \in Git!Users}, data : Git!Objects]
GitTyped ==
    /\ cfvs \in Seq(GitCfv)
    /\ req \in [Git!Requests -> {Git!Waiting, Git!Answered} \cup GitRequest]
    /\ wanted \in [Git!Users -> [Git!Types -> Git!Objects]]
    /\ overlapped \subseteq Git!Users \X Git!Types
    /\ \A u \in Git!Users : \A s, t \in Git!Types :
          <<u, s>> \in overlapped => <<u, t>> \in overlapped

\* No object names a user other than its own.
GitNamed == \A i \in DOMAIN cfvs : \A u \in cfvs[i].users : NamesOnly(cfvs[i].data, u)


\* A request works for its user, and has read an object of its own type last.
GitRead(r) ==
    req[r] \in GitRequest =>
        /\ req[r].user = GitUserOf[r] /\ NamesOnly(req[r].data, req[r].user)
        /\ req[r].op # "view" => req[r].left[Len(req[r].left)] = req[r].type
        /\ req[r].pc \in {"again", "save"} =>
              req[r].op # "view" /\ Git!Of(req[r].user, req[r].type) # {}

\* Two requests of one user are known to overlap.
GitOverlaps ==
    \A q, r \in Git!Requests :
        q # r /\ req[q] \in GitRequest /\ req[r] \in GitRequest /\ GitUserOf[q] = GitUserOf[r] =>
            \A t \in Git!Types : <<GitUserOf[q], t>> \in overlapped

\* What a request has read is what there is, unless another one of its user
\* may have written.
GitHeld(r) ==
    req[r] \in GitRequest /\ <<req[r].user, req[r].type>> \notin overlapped =>
        /\ req[r].pc = "create" => Git!Of(req[r].user, Head(req[r].left)) = {}
        /\ req[r].pc \in {"again", "save"} =>
              \A i \in Git!Of(req[r].user, req[r].type) : cfvs[i].data = req[r].data

GitKept(u, t) ==
    <<u, t>> \notin overlapped =>
        /\ \A i, j \in Git!Of(u, t) : i = j
        /\ \A i \in Git!Of(u, t) : Git!Shown(cfvs[i].data) = Git!Shown(wanted[u][t])
        /\ Git!Of(u, t) = {} => wanted[u][t] = <<>>

GitInv ==
    /\ GitTyped /\ GitNamed /\ GitOverlaps
    /\ \A r \in Git!Requests : GitRead(r) /\ GitHeld(r)
    /\ \A u \in Git!Users, t \in Git!Types : GitKept(u, t)

LEMMA GitInit == Git!Init => GitInv
<1> SUFFICES ASSUME Git!Init PROVE GitInv
  OBVIOUS
<1>1. cfvs = <<>> /\ cfvs \in Seq(GitCfv) /\ DOMAIN cfvs = {}
  <2>1. PICK c : c = <<>>
    OBVIOUS
  <2>2. c \in Seq(GitCfv) /\ Len(c) = 0 /\ DOMAIN c = 1 .. 0
    BY <2>1
  <2> QED
    BY <2>1, <2>2 DEF Git!Init
<1>2. \A r \in Git!Requests : req[r] = Git!Waiting /\ req[r] \notin GitRequest
  BY DEF Git!Init, Git!Waiting, GitRequest
<1>3. GitTyped
  BY <1>1, GitEmpty DEF Git!Init, GitTyped
<1>4. GitNamed
  BY <1>1 DEF GitNamed
<1>5. \A u \in Git!Users, t \in Git!Types : GitKept(u, t)
  <2>1. \A u, t : Git!Of(u, t) = {}
    BY <1>1 DEF Git!Of
  <2>2. \A u \in Git!Users, t \in Git!Types : wanted[u][t] = <<>>
    BY DEF Git!Init
  <2> QED
    BY <2>1, <2>2 DEF GitKept
<1>6. GitOverlaps /\ \A r \in Git!Requests : GitRead(r) /\ GitHeld(r)
  BY <1>2 DEF GitOverlaps, GitRead, GitHeld
<1> QED
  BY <1>3, <1>4, <1>5, <1>6 DEF GitInv

LEMMA GitStutter == GitInv /\ UNCHANGED gitVars => GitInv'
BY DEF GitInv, gitVars, GitTyped, GitNamed, GitRead, GitOverlaps, GitHeld, GitKept, Git!Of

LEMMA GitPart == [JobsNext]_jobsVars => Git!Next \/ UNCHANGED gitVars
BY DEF JobsNext, Only, jobsVars

\* What is read, and in which order: at least one object, the last one of the type.
LEMMA GitReads ==
    ASSUME NEW op \in {"view", "save", "edit", "delete"}, NEW type \in Git!Types
    PROVE  /\ Git!Reads(op, type) \in GitReadLists
           /\ op # "view" => Git!Reads(op, type)[Len(Git!Reads(op, type))] = type
<1> DEFINE Ends(s, t) == s \in GitReadLists /\ s[Len(s)] = t
<1>1. "git_tokens" \in Git!Types /\ "git_config" \in Git!Types
  BY DEF Git!Types
<1>2. \A b \in Git!Types : Ends(<<b>>, b)
  BY DEF GitReadLists
<1>3. \A a, b \in Git!Types : Ends(<<a, b>>, b)
  BY DEF GitReadLists
<1>4. ASSUME NEW s, Ends(s, type)
      PROVE  Ends(<<type>> \o s, type)
  <2>1. PICK b : b = <<type>>
    OBVIOUS
  <2>2. b \in Seq(Git!Types) /\ Len(b) = 1
    BY <2>1
  <2>3. s \in Seq(Git!Types) /\ s # <<>> /\ s[Len(s)] = type /\ Len(s) \in Nat \ {0}
    <3>1. s \in Seq(Git!Types) /\ s # <<>> /\ s[Len(s)] = type
      BY <1>4 DEF GitReadLists
    <3> QED
      BY <3>1
  <2>4. b \o s \in Seq(Git!Types) /\ Len(b \o s) = 1 + Len(s)
    BY <2>2, <2>3, ConcatProperties
  <2>5. (b \o s)[1 + Len(s)] = s[Len(s)]
    <3>1. 1 + Len(s) \in 1 .. Len(b) + Len(s) /\ ~(1 + Len(s) <= Len(b))
            /\ 1 + Len(s) - Len(b) = Len(s)
      BY <2>2, <2>3
    <3> QED
      BY <2>2, <2>3, <3>1, ConcatProperties
  <2>6. b \o s # <<>>
    BY <2>3, <2>4
  <2> QED
    BY <2>1, <2>3, <2>4, <2>5, <2>6 DEF GitReadLists
<1> DEFINE F == IF type = "git_config" THEN <<"git_tokens", type>> ELSE <<type>>
<1>5. Ends(F, type)
  BY <1>1, <1>2, <1>3
<1>6. Ends(<<type>> \o F, type)
  <2> HIDE DEF F, Ends
  <2> QED
    BY <1>4, <1>5
<1>7. Ends(<<"git_tokens", "git_config">>, "git_config")
  BY <1>1, <1>3
<1>8. /\ op = "view" => Git!Reads(op, type) = <<"git_tokens", "git_config">>
      /\ op = "save" => Git!Reads(op, type) = F
      /\ op = "edit" => Git!Reads(op, type) = <<type>> \o F
      /\ op = "delete" => Git!Reads(op, type) = <<type>>
  BY DEF Git!Reads
<1>9. Ends(<<type>>, type)
  BY <1>2
<1> HIDE DEF F
<1> QED
  BY <1>5, <1>6, <1>7, <1>8, <1>9

\* What may follow a read.
LEMMA GitAfter ==
    ASSUME NEW q \in GitRequest, NEW d \in Git!Objects,
           q.op # "view" => q.left[Len(q.left)] = q.type
    PROVE  LET a == Git!After(q, d)
           IN  \/ a = Git!Answered
               \/ /\ a \in GitRequest /\ a.pc = "look"
                  /\ a.user = q.user /\ a.type = q.type /\ a.op = q.op /\ a.data = q.data
                  /\ a.op # "view" => a.left[Len(a.left)] = a.type
               \/ /\ a \in GitRequest /\ a.pc = "again" /\ a.op # "view"
                  /\ a.user = q.user /\ a.type = q.type /\ a.op = q.op /\ a.data = d
                  /\ a.left[Len(a.left)] = a.type /\ Head(q.left) = q.type
<1>1. q.left \in Seq(Git!Types) /\ q.left # <<>> /\ Len(q.left) \in Nat \ {0}
  <2>1. q.left \in GitReadLists
    BY DEF GitRequest
  <2> QED
    BY <2>1 DEF GitReadLists
<1> DEFINE rest == Tail(q.left)
<1>2. /\ rest \in Seq(Git!Types) /\ Len(rest) = Len(q.left) - 1
      /\ rest # <<>> => rest[Len(rest)] = q.left[Len(q.left)]
      /\ rest = <<>> => Len(q.left) = 1 /\ Head(q.left) = q.left[Len(q.left)]
  <2> DEFINE s == q.left
  <2>1. s \in Seq(Git!Types) /\ s # <<>> /\ Len(s) \in Nat \ {0}
    BY <1>1
  <2> HIDE DEF s
  <2>2. PICK t : t = Tail(s)
    OBVIOUS
  <2>3. t \in Seq(Git!Types) /\ Len(t) = Len(s) - 1 /\ \A k \in 1 .. Len(t) : t[k] = s[k + 1]
    BY <2>1, <2>2
  <2>4. ASSUME t # <<>> PROVE t[Len(t)] = s[Len(s)]
    <3>1. Len(t) \in 1 .. Len(t) /\ Len(t) + 1 = Len(s)
      BY <2>1, <2>3, <2>4
    <3> QED
      BY <2>3, <3>1
  <2>5. ASSUME t = <<>> PROVE Len(s) = 1 /\ Head(s) = s[Len(s)]
    <3>1. Len(t) = 0
      BY <2>5
    <3>2. Len(s) = 1
      BY <2>1, <2>3, <3>1
    <3> QED
      BY <2>1, <3>2
  <2> QED
    BY <2>2, <2>3, <2>4, <2>5 DEF s
<1>3. rest # <<>> => rest \in GitReadLists
  BY <1>2 DEF GitReadLists
<1> DEFINE a1 == [q EXCEPT !.left = rest, !.pc = "look"]
           a2 == [q EXCEPT !.pc = "again", !.data = d]
<1>4. \/ Git!After(q, d) = Git!Answered
      \/ rest # <<>> /\ Git!After(q, d) = a1
      \/ rest = <<>> /\ q.op # "view" /\ Git!After(q, d) = a2
  BY DEF Git!After
<1>5. ASSUME rest # <<>>
      PROVE  /\ a1 \in GitRequest /\ a1.pc = "look"
             /\ a1.user = q.user /\ a1.type = q.type /\ a1.op = q.op /\ a1.data = q.data
             /\ a1.left = rest
  <2> HIDE DEF rest
  <2> QED
    BY <1>3, <1>5 DEF GitRequest
<1>6. /\ a2 \in GitRequest /\ a2.pc = "again"
      /\ a2.user = q.user /\ a2.type = q.type /\ a2.op = q.op /\ a2.data = d
      /\ a2.left = q.left
  BY DEF GitRequest
<1> HIDE DEF a1, a2, rest
<1> QED
  BY <1>2, <1>4, <1>5, <1>6

\* A request goes on or is answered: what is left to show is about its user.
LEMMA GitGoesOn ==
    ASSUME GitInv, NEW r \in Git!Requests, req[r] \in GitRequest, NEW v, v = req[r].user,
           NEW a \in {Git!Answered} \cup GitRequest, req' = [req EXCEPT ![r] = a],
           UNCHANGED overlapped, wanted' \in [Git!Users -> [Git!Types -> Git!Objects]],
           cfvs' \in Seq(GitCfv), GitNamed', GitRead(r)', GitHeld(r)',
           \A t \in Git!Types :
              GitKept(v, t)' /\ (Git!Of(v, t) # {} => Git!Of(v, t)' # {}),
           \A u \in Git!Users \ {v}, t \in Git!Types :
              /\ Git!Of(u, t)' = Git!Of(u, t) /\ wanted'[u] = wanted[u]
              /\ \A i \in Git!Of(u, t) : cfvs'[i].data = cfvs[i].data
    PROVE  GitInv'
<1>2. v \in Git!Users /\ v = GitUserOf[r]
  BY DEF GitInv, GitRead, GitRequest
<1>3. req \in [Git!Requests -> {Git!Waiting, Git!Answered} \cup GitRequest]
  BY DEF GitInv, GitTyped
<1>4. GitTyped'
  BY <1>3 DEF GitInv, GitTyped
<1>5. \A p \in Git!Requests : p # r => req'[p] = req[p]
  BY <1>3
<1>6. Git!Waiting \notin GitRequest /\ Git!Answered \notin GitRequest
  BY DEF Git!Waiting, Git!Answered, GitRequest
<1>7. GitOverlaps'
  <2>1. \A p \in Git!Requests : req'[p] \in GitRequest => req[p] \in GitRequest
    BY <1>5
  <2> QED
    BY <2>1 DEF GitInv, GitOverlaps
<1>8. ASSUME NEW p \in Git!Requests, p # r, req[p] \in GitRequest
      PROVE  GitRead(p)' /\ GitHeld(p)'
  <2>1. /\ req'[p] = req[p] /\ req[p].user \in Git!Users /\ req[p].type \in Git!Types
        /\ Head(req[p].left) \in Git!Types /\ req[p].user = GitUserOf[p]
    <3>1. req[p].left \in GitReadLists
      BY <1>8 DEF GitRequest
    <3>2. Head(req[p].left) \in Git!Types
      <4> DEFINE s == req[p].left
      <4> HIDE DEF s
      <4>1. s \in Seq(Git!Types) /\ s # <<>> => Head(s) \in Git!Types
        OBVIOUS
      <4> QED
        BY <3>1, <4>1 DEF s, GitReadLists
    <3> QED
      BY <1>5, <1>8, <3>2 DEF GitInv, GitRead, GitRequest
  <2>2. GitRead(p) /\ GitHeld(p)
    BY DEF GitInv
  <2>3. CASE req[p].user = v
    <3>1. \A t \in Git!Types : <<v, t>> \in overlapped
      BY <1>2, <1>8, <2>1, <2>3 DEF GitInv, GitOverlaps
    <3>2. GitHeld(p)'
      BY <2>1, <2>3, <3>1 DEF GitHeld
    <3>3. PICK t \in Git!Types : t = req[p].type
      BY <2>1
    <3>4. GitRead(p)'
      BY <2>1, <2>2, <2>3, <3>3 DEF GitRead
    <3> QED
      BY <3>2, <3>4
  <2>4. CASE req[p].user # v
    <3>1. PICK u \in Git!Users \ {v}, t \in Git!Types, h \in Git!Types :
             u = req[p].user /\ t = req[p].type /\ h = Head(req[p].left)
      BY <2>1, <2>4
    <3>2. /\ Git!Of(u, t)' = Git!Of(u, t) /\ Git!Of(u, h)' = Git!Of(u, h)
          /\ \A i \in Git!Of(u, t) : cfvs'[i].data = cfvs[i].data
      BY <2>4, <3>1
    <3>3. GitRead(p)'
      BY <2>1, <2>2, <3>1, <3>2 DEF GitRead
    <3>4. GitHeld(p)'
      BY <2>1, <2>2, <3>1, <3>2 DEF GitHeld
    <3> QED
      BY <3>3, <3>4
  <2> QED
    BY <2>3, <2>4
<1>9. \A p \in Git!Requests : GitRead(p)' /\ GitHeld(p)'
  BY <1>5, <1>8 DEF GitRead, GitHeld
<1>10. ASSUME NEW u \in Git!Users, NEW t \in Git!Types
       PROVE  GitKept(u, t)'
  <2>1. CASE u = v
    BY <2>1
  <2>2. CASE u # v
    <3>1. /\ Git!Of(u, t)' = Git!Of(u, t) /\ wanted'[u] = wanted[u]
          /\ \A i \in Git!Of(u, t) : cfvs'[i].data = cfvs[i].data
      BY <2>2
    <3> QED
      BY <3>1 DEF GitInv, GitKept
  <2> QED
    BY <2>1, <2>2
<1> QED
  BY <1>4, <1>7, <1>9, <1>10 DEF GitInv

\* A request that only reads.
LEMMA GitReadsOn ==
    ASSUME GitInv, NEW r \in Git!Requests, req[r] \in GitRequest,
           NEW a \in {Git!Answered} \cup GitRequest, req' = [req EXCEPT ![r] = a],
           UNCHANGED <<overlapped, wanted, cfvs>>, GitRead(r)', GitHeld(r)'
    PROVE  GitInv'
<1>1. PICK v : v = req[r].user
  OBVIOUS
<1>2. v \in Git!Users
  BY <1>1 DEF GitRequest
<1>3. \A u, t : Git!Of(u, t)' = Git!Of(u, t)
  BY DEF Git!Of
<1>4. \A t \in Git!Types : GitKept(v, t)'
  BY <1>2, <1>3 DEF GitInv, GitKept
<1>5. /\ wanted' \in [Git!Users -> [Git!Types -> Git!Objects]]
      /\ cfvs' \in Seq(GitCfv) /\ GitNamed'
  BY DEF GitInv, GitTyped, GitNamed
<1> QED
  BY <1>1, <1>3, <1>4, <1>5, GitGoesOn

\* What is found of a user was made for it, and names nobody else.
LEMMA GitFound ==
    ASSUME GitInv, NEW u \in Git!Users, NEW t \in Git!Types, NEW i \in Git!Of(u, t)
    PROVE  /\ i \in DOMAIN cfvs /\ i \in Nat \ {0} /\ cfvs[i] \in GitCfv
           /\ cfvs[i].type = t /\ cfvs[i].users = {u}
           /\ cfvs[i].data \in Git!Objects /\ NamesOnly(cfvs[i].data, u)
<1>1. i \in DOMAIN cfvs /\ cfvs[i].type = t /\ u \in cfvs[i].users /\ i \in Nat \ {0}
  BY DEF Git!Of, GitInv, GitTyped
<1>2. cfvs[i] \in GitCfv
  BY <1>1 DEF GitInv, GitTyped
<1> QED
  BY <1>1, <1>2 DEF GitCfv, GitInv, GitNamed

LEMMA GitHandled ==
    ASSUME GitInv, NEW r \in Git!Requests, req[r].pc \in {"look", "create", "again", "save"}
    PROVE  /\ req[r] \in GitRequest /\ req[r].user \in Git!Users /\ req[r].type \in Git!Types
           /\ Head(req[r].left) \in Git!Types /\ req[r].data \in Git!Objects
           /\ req \in [Git!Requests -> {Git!Waiting, Git!Answered} \cup GitRequest]
           /\ GitRead(r) /\ GitHeld(r)
<1>1. req[r] \in GitRequest
  BY DEF GitInv, GitTyped, Git!Waiting, Git!Answered
<1>2. req[r].left \in GitReadLists
  BY <1>1 DEF GitRequest
<1>3. Head(req[r].left) \in Git!Types
  <2> DEFINE s == req[r].left
  <2> HIDE DEF s
  <2>1. s \in Seq(Git!Types) /\ s # <<>> => Head(s) \in Git!Types
    OBVIOUS
  <2> QED
    BY <1>2, <2>1 DEF s, GitReadLists
<1> QED
  BY <1>1, <1>3 DEF GitRequest, GitInv, GitTyped

LEMMA GitLook ==
    ASSUME GitInv, NEW r \in Git!Requests, Git!Look(r)
    PROVE  GitInv'
<1>1. /\ req[r] \in GitRequest /\ req[r].user \in Git!Users /\ req[r].type \in Git!Types
      /\ Head(req[r].left) \in Git!Types /\ GitRead(r) /\ GitHeld(r)
      /\ req \in [Git!Requests -> {Git!Waiting, Git!Answered} \cup GitRequest]
      /\ req[r].pc = "look"
  BY GitHandled DEF Git!Look
<1>2. PICK q, v, h, w : q = req[r] /\ v = q.user /\ h = Head(q.left) /\ w = q.type
  OBVIOUS
<1>3. /\ q \in GitRequest /\ v \in Git!Users /\ h \in Git!Types /\ w \in Git!Types
      /\ q.pc = "look" /\ v = GitUserOf[r] /\ NamesOnly(q.data, v)
      /\ q.op # "view" => q.left[Len(q.left)] = q.type
  BY <1>1, <1>2 DEF GitRead
<1> DEFINE found == Git!Of(v, h)
<1>4. UNCHANGED <<overlapped, wanted, cfvs>>
  BY DEF Git!Look
<1>5. CASE found = {}
  <2> DEFINE a == [q EXCEPT !.pc = "create"]
  <2>1. req' = [req EXCEPT ![r] = a]
    BY <1>2, <1>5 DEF Git!Look
  <2>2. /\ a \in GitRequest /\ a.user = q.user /\ a.type = q.type /\ a.op = q.op
        /\ a.left = q.left /\ a.data = q.data /\ a.pc = "create"
    BY <1>3 DEF GitRequest
  <2> HIDE DEF a
  <2>3. req'[r] = a
    BY <1>1, <2>1
  <2>4. GitRead(r)'
    BY <1>2, <1>3, <2>2, <2>3 DEF GitRead
  <2>5. found' = {}
    BY <1>4, <1>5 DEF Git!Of
  <2>6. GitHeld(r)'
    BY <1>2, <1>3, <2>2, <2>3, <2>5 DEF GitHeld
  <2> QED
    BY <1>1, <1>4, <2>1, <2>2, <2>4, <2>6, GitReadsOn
<1>6. CASE found # {} /\ \E i, j \in found : i # j
  <2>1. req' = [req EXCEPT ![r] = Git!Answered]
    BY <1>2, <1>6 DEF Git!Look
  <2>2. req'[r] = Git!Answered /\ Git!Answered \notin GitRequest
    BY <1>1, <2>1 DEF Git!Answered, GitRequest
  <2> QED
    BY <1>1, <1>4, <2>1, <2>2, GitReadsOn DEF GitRead, GitHeld
<1>7. CASE found # {} /\ ~\E i, j \in found : i # j
  <2>1. PICK i \in found : found = {i} /\ Git!The(found) = i
    BY <1>7 DEF Git!The
  <2>2. PICK d : d = cfvs[i].data
    OBVIOUS
  <2>3. d \in Git!Objects /\ NamesOnly(d, v)
    BY <1>3, <2>2, GitFound
  <2>4. PICK a : a = Git!After(q, d)
    OBVIOUS
  <2>5. req' = [req EXCEPT ![r] = a]
    BY <1>2, <1>7, <2>1, <2>2, <2>4 DEF Git!Look
  <2>6. \/ a = Git!Answered
        \/ /\ a \in GitRequest /\ a.pc = "look"
           /\ a.user = q.user /\ a.type = q.type /\ a.op = q.op /\ a.data = q.data
           /\ a.op # "view" => a.left[Len(a.left)] = a.type
        \/ /\ a \in GitRequest /\ a.pc = "again" /\ a.op # "view"
           /\ a.user = q.user /\ a.type = q.type /\ a.op = q.op /\ a.data = d
           /\ a.left[Len(a.left)] = a.type /\ Head(q.left) = q.type
    BY <1>3, <2>3, <2>4, GitAfter
  <2>7. req'[r] = a /\ Git!Answered \notin GitRequest
    BY <1>1, <2>5 DEF Git!Answered, GitRequest
  <2>8. found' = found /\ i \in found' /\ cfvs'[i].data = d /\ Git!Of(v, w)' = Git!Of(v, w)
    BY <1>4, <2>1, <2>2 DEF Git!Of
  <2>9. GitRead(r)'
    BY <1>2, <1>3, <2>3, <2>6, <2>7, <2>8 DEF GitRead
  <2>10. GitHeld(r)'
    BY <1>2, <1>3, <2>1, <2>6, <2>7, <2>8 DEF GitHeld
  <2> QED
    BY <1>1, <1>4, <2>5, <2>6, <2>9, <2>10, GitReadsOn
<1> QED
  BY <1>5, <1>6, <1>7

LEMMA GitLookAgain ==
    ASSUME GitInv, NEW r \in Git!Requests, Git!LookAgain(r)
    PROVE  GitInv'
<1>1. /\ req[r] \in GitRequest /\ req[r].user \in Git!Users /\ req[r].type \in Git!Types
      /\ GitRead(r) /\ GitHeld(r) /\ req[r].pc = "again"
      /\ req \in [Git!Requests -> {Git!Waiting, Git!Answered} \cup GitRequest]
  BY GitHandled DEF Git!LookAgain
<1>2. PICK q, v, w : q = req[r] /\ v = q.user /\ w = q.type
  OBVIOUS
<1>3. UNCHANGED <<overlapped, wanted, cfvs>> /\ Git!Of(v, w)' = Git!Of(v, w)
  BY DEF Git!LookAgain, Git!Of
<1> DEFINE a == [q EXCEPT !.pc = "save"]
<1>4. /\ a \in GitRequest /\ a.user = q.user /\ a.type = q.type /\ a.op = q.op
      /\ a.left = q.left /\ a.data = q.data /\ a.pc = "save"
  BY <1>1, <1>2 DEF GitRequest
<1>5. req' = [req EXCEPT ![r] = Git!Answered] \/ req' = [req EXCEPT ![r] = a]
  BY <1>2 DEF Git!LookAgain
<1> HIDE DEF a
<1>6. req'[r] = Git!Answered \/ req'[r] = a
  BY <1>1, <1>5
<1>7. Git!Answered \notin GitRequest
  BY DEF Git!Answered, GitRequest
<1>8. GitRead(r)'
  BY <1>1, <1>2, <1>3, <1>4, <1>6, <1>7 DEF GitRead
<1>9. GitHeld(r)'
  BY <1>1, <1>2, <1>3, <1>4, <1>6, <1>7 DEF GitHeld
<1> QED
  BY <1>1, <1>3, <1>4, <1>5, <1>8, <1>9, GitReadsOn

LEMMA GitArrives ==
    ASSUME GitInv, NEW r \in Git!Requests, NEW type \in Git!Types,
           NEW op \in {"view", "save", "edit", "delete"}, NEW name \in GitNames \cup GitTokens,
           NEW old \in GitNames \cup GitTokens, NEW token \in GitTokens,
           Git!Arrives(r, type, op, name, old, token)
    PROVE  GitInv'
<1> DEFINE a == [pc |-> "look", user |-> GitUserOf[r], type |-> type, op |-> op,
                 name |-> name, old |-> old, token |-> token,
                 left |-> Git!Reads(op, type), data |-> <<>>]
           busy == \E o \in Git!Requests \ {r} :
                      req[o] \notin {Git!Waiting, Git!Answered} /\ GitUserOf[o] = GitUserOf[r]
           new == {<<GitUserOf[r], t>> : t \in {s \in Git!Types : busy}}
<1>1. /\ req[r] = Git!Waiting /\ req' = [req EXCEPT ![r] = a]
      /\ overlapped' = overlapped \cup new /\ UNCHANGED <<cfvs, wanted>>
  BY DEF Git!Arrives
<1>2. PICK v : v = GitUserOf[r]
  OBVIOUS
<1>3. v \in Git!Users
  BY <1>2 DEF Git!Users
<1>4. /\ a \in GitRequest /\ a.pc = "look" /\ a.user = v /\ a.data = <<>> /\ a.op = op
      /\ a.type = type /\ a.left = Git!Reads(op, type)
  BY <1>2, <1>3, GitReads, GitEmpty DEF GitRequest
<1>5. new = IF busy THEN {<<v, t>> : t \in Git!Types} ELSE {}
  BY <1>2
<1>6. /\ req \in [Git!Requests -> {Git!Waiting, Git!Answered} \cup GitRequest]
      /\ Git!Waiting \notin GitRequest /\ Git!Answered \notin GitRequest
  BY DEF GitInv, GitTyped, Git!Waiting, Git!Answered, GitRequest
<1>7. busy <=> \E o \in Git!Requests \ {r} : req[o] \in GitRequest /\ GitUserOf[o] = v
  BY <1>2, <1>6
<1> HIDE DEF a, busy, new
<1>8. req'[r] = a /\ \A p \in Git!Requests : p # r => req'[p] = req[p]
  BY <1>1, <1>6
<1>9. \A u, t : Git!Of(u, t)' = Git!Of(u, t)
  BY <1>1 DEF Git!Of
<1>10. GitTyped'
  <2>1. overlapped' \subseteq Git!Users \X Git!Types
    BY <1>1, <1>3, <1>5 DEF GitInv, GitTyped
  <2>2. \A u \in Git!Users : \A s, t \in Git!Types :
           <<u, s>> \in overlapped' => <<u, t>> \in overlapped'
    BY <1>1, <1>5 DEF GitInv, GitTyped
  <2>3. req' \in [Git!Requests -> {Git!Waiting, Git!Answered} \cup GitRequest]
    BY <1>1, <1>4, <1>6
  <2> QED
    BY <1>1, <2>1, <2>2, <2>3 DEF GitInv, GitTyped
<1>11. GitNamed'
  BY <1>1 DEF GitInv, GitNamed
<1>12. GitOverlaps'
  <2> SUFFICES ASSUME NEW p \in Git!Requests, NEW o \in Git!Requests, p # o,
                      req'[p] \in GitRequest, req'[o] \in GitRequest,
                      GitUserOf[p] = GitUserOf[o], NEW t \in Git!Types
               PROVE  <<GitUserOf[p], t>> \in overlapped'
    BY DEF GitOverlaps
  <2>1. CASE p # r /\ o # r
    BY <1>1, <1>8, <2>1 DEF GitInv, GitOverlaps
  <2>2. CASE p = r \/ o = r
    <3>1. busy /\ GitUserOf[p] = v
      BY <1>2, <1>7, <1>8, <2>2
    <3> QED
      BY <1>1, <1>5, <3>1
  <2> QED
    BY <2>1, <2>2
<1>13. GitRead(r)' /\ GitHeld(r)'
  <2>1. NamesOnly(<<>>, v)
    BY GitEmpty DEF NamesOnly
  <2> QED
    BY <1>2, <1>4, <1>8, <2>1, GitReads DEF GitRead, GitHeld
<1>14. ASSUME NEW p \in Git!Requests, p # r
       PROVE  GitRead(p)' /\ GitHeld(p)'
  <2>1. GitRead(p) /\ GitHeld(p) /\ req'[p] = req[p]
    BY <1>8, <1>14 DEF GitInv
  <2>2. PICK u, t, h : u = req[p].user /\ t = req[p].type /\ h = Head(req[p].left)
    OBVIOUS
  <2>3. GitRead(p)'
    BY <1>9, <2>1, <2>2 DEF GitRead
  <2>4. GitHeld(p)'
    BY <1>1, <1>9, <2>1, <2>2 DEF GitHeld
  <2> QED
    BY <2>3, <2>4
<1>15. \A u \in Git!Users, t \in Git!Types : GitKept(u, t)'
  BY <1>1, <1>9 DEF GitInv, GitKept
<1> QED
  BY <1>10, <1>11, <1>12, <1>13, <1>14, <1>15 DEF GitInv

LEMMA GitGetOrCreate ==
    ASSUME GitInv, NEW r \in Git!Requests, Git!GetOrCreate(r)
    PROVE  GitInv'
<1>1. /\ req[r] \in GitRequest /\ req[r].user \in Git!Users /\ req[r].type \in Git!Types
      /\ Head(req[r].left) \in Git!Types /\ GitRead(r) /\ GitHeld(r)
      /\ req \in [Git!Requests -> {Git!Waiting, Git!Answered} \cup GitRequest]
      /\ req[r].pc = "create"
  BY GitHandled DEF Git!GetOrCreate
<1>2. PICK q, v, h, w : q = req[r] /\ v = q.user /\ h = Head(q.left) /\ w = q.type
  OBVIOUS
<1>3. /\ q \in GitRequest /\ v \in Git!Users /\ h \in Git!Types /\ w \in Git!Types
      /\ q.pc = "create" /\ v = GitUserOf[r] /\ NamesOnly(q.data, v)
      /\ q.op # "view" => q.left[Len(q.left)] = q.type
      /\ <<v, w>> \notin overlapped => Git!Of(v, h) = {}
  BY <1>1, <1>2 DEF GitRead, GitHeld
<1>4. PICK d : d = Git!NewObject(v)
  OBVIOUS
<1>5. /\ d \in Git!Objects /\ NamesOnly(d, v) /\ Git!Shown(d) = Git!Shown(<<>>)
      /\ \A u : NamesOnly(d, u) => u = v
  BY <1>3, <1>4, GitNew
<1>6. PICK a : a = Git!After(q, d)
  OBVIOUS
<1>7. \/ a = Git!Answered
      \/ /\ a \in GitRequest /\ a.pc = "look"
         /\ a.user = q.user /\ a.type = q.type /\ a.op = q.op /\ a.data = q.data
         /\ a.op # "view" => a.left[Len(a.left)] = a.type
      \/ /\ a \in GitRequest /\ a.pc = "again" /\ a.op # "view"
         /\ a.user = q.user /\ a.type = q.type /\ a.op = q.op /\ a.data = d
         /\ a.left[Len(a.left)] = a.type /\ Head(q.left) = q.type
  BY <1>3, <1>5, <1>6, GitAfter
<1> DEFINE same == {i \in DOMAIN cfvs : cfvs[i].type = h /\ cfvs[i].data = d}
           one == [type |-> h, users |-> {v}, data |-> d]
<1>8. /\ req' = [req EXCEPT ![r] = a] /\ UNCHANGED <<wanted, overlapped>>
      /\ cfvs' = IF same # {} THEN [cfvs EXCEPT ![Git!The(same)].users = @ \cup {v}]
                 ELSE Append(cfvs, one)
  BY <1>2, <1>4, <1>6 DEF Git!GetOrCreate
<1>9. cfvs \in Seq(GitCfv) /\ one \in GitCfv /\ DOMAIN cfvs = 1 .. Len(cfvs) /\ Len(cfvs) \in Nat
  <2>1. cfvs \in Seq(GitCfv)
    BY DEF GitInv, GitTyped
  <2>2. one \in GitCfv
    <3>1. PICK users : users = {v}
      OBVIOUS
    <3>2. users \in {{u} : u \in Git!Users}
      BY <1>3, <3>1
    <3> QED
      BY <1>3, <1>5, <3>1, <3>2 DEF GitCfv
  <2> HIDE DEF one
  <2> QED
    BY <2>1, <2>2
<1>10. \A i \in same : cfvs[i].users = {v} /\ i \in Git!Of(v, h)
  <2> SUFFICES ASSUME NEW i \in same PROVE cfvs[i].users = {v} /\ i \in Git!Of(v, h)
    OBVIOUS
  <2>1. cfvs[i] \in GitCfv
    BY <1>9
  <2>2. PICK u : cfvs[i].users = {u}
    BY <2>1 DEF GitCfv
  <2>3. NamesOnly(d, u)
    BY <2>2 DEF GitInv, GitNamed
  <2>4. u = v
    BY <1>5, <2>3
  <2> QED
    BY <2>2, <2>4 DEF Git!Of
<1>11. CASE same # {}
  <2>1. PICK i \in same : i = Git!The(same)
    BY <1>11 DEF Git!The
  <2>2. cfvs[i].users \cup {v} = cfvs[i].users /\ i \in 1 .. Len(cfvs) /\ cfvs[i] \in GitCfv
    <3>1. i \in 1 .. Len(cfvs)
      BY <1>9
    <3>2. cfvs[i] \in GitCfv
      BY <1>9, <3>1
    <3> QED
      BY <1>10, <3>1, <3>2
  <2>3. [cfvs[i] EXCEPT !.users = @ \cup {v}] = cfvs[i]
    BY <2>2 DEF GitCfv
  <2>4. cfvs' = cfvs
    <3>1. cfvs' = [cfvs EXCEPT ![i] = [cfvs[i] EXCEPT !.users = @ \cup {v}]]
      BY <1>8, <1>11, <2>1
    <3> QED
      BY <1>9, <2>2, <2>3, <3>1
  <2>5. req'[r] = a /\ Git!Answered \notin GitRequest
    BY <1>1, <1>8 DEF Git!Answered, GitRequest
  <2>6. /\ <<v, w>> \in overlapped' /\ Git!Of(v, h)' = Git!Of(v, h)
        /\ Git!Of(v, w)' = Git!Of(v, w) /\ Git!Of(v, h) # {}
    BY <1>3, <1>8, <1>10, <2>1, <2>4 DEF Git!Of
  <2>7. GitRead(r)' /\ GitHeld(r)'
    BY <1>2, <1>3, <1>5, <1>7, <2>5, <2>6 DEF GitRead, GitHeld
  <2> QED
    BY <1>1, <1>7, <1>8, <2>4, <2>7, GitReadsOn
<1>12. CASE same = {}
  <2> DEFINE n == Len(cfvs) + 1
  <2>1. /\ cfvs' = Append(cfvs, one) /\ cfvs' \in Seq(GitCfv) /\ cfvs'[n] = one
        /\ n \notin DOMAIN cfvs /\ DOMAIN cfvs' = DOMAIN cfvs \cup {n}
        /\ \A i \in DOMAIN cfvs : cfvs'[i] = cfvs[i]
    <3>1. PICK c, o : c = cfvs /\ o = one
      OBVIOUS
    <3>2. /\ Append(c, o) \in Seq(GitCfv) /\ Len(Append(c, o)) = Len(c) + 1
          /\ Append(c, o)[Len(c) + 1] = o /\ \A i \in 1 .. Len(c) : Append(c, o)[i] = c[i]
      BY <1>9, <3>1
    <3>3. DOMAIN Append(c, o) = 1 .. Len(c) + 1 /\ DOMAIN c = 1 .. Len(c) /\ Len(c) \in Nat
      BY <1>9, <3>1, <3>2
    <3> QED
      BY <1>8, <1>12, <3>1, <3>2, <3>3
  <2> HIDE DEF n
  <2>2. \A u, t : Git!Of(u, t)' = Git!Of(u, t) \cup (IF u = v /\ t = h THEN {n} ELSE {})
    BY <2>1 DEF Git!Of
  <2>3. GitNamed'
    BY <1>5, <2>1 DEF GitInv, GitNamed
  <2>4. req'[r] = a /\ Git!Answered \notin GitRequest
    BY <1>1, <1>8 DEF Git!Answered, GitRequest
  <2>5. GitRead(r)'
    BY <1>2, <1>3, <1>5, <1>7, <2>2, <2>4 DEF GitRead
  <2>6. GitHeld(r)'
    <3>1. \A t : cfvs'[n].data = d /\ Git!Of(v, h)' = Git!Of(v, h) \cup {n}
      BY <2>1, <2>2
    <3> HIDE DEF same, one
    <3>2. ASSUME a.pc = "again", a \in GitRequest, <<v, w>> \notin overlapped'
          PROVE  Git!Of(v, w)' = {n} /\ a.data = d
      <4>1. a.data = d /\ h = w
        BY <1>2, <1>7, <2>4, <3>2
      <4>2. Git!Of(v, h) = {}
        BY <1>3, <1>8, <3>2
      <4> QED
        BY <3>1, <4>1, <4>2
    <3>3. a \in GitRequest => a.pc \in {"look", "again"} /\ a.user = v /\ a.type = w
      BY <1>2, <1>7, <2>4
    <3> QED
      BY <2>4, <3>1, <3>2, <3>3 DEF GitHeld
  <2>7. ASSUME NEW t \in Git!Types
        PROVE  GitKept(v, t)'
    <3>1. GitKept(v, t) /\ wanted' = wanted /\ overlapped' = overlapped
      BY <1>3, <1>8 DEF GitInv
    <3>2. CASE t # h
      <4>1. Git!Of(v, t)' = Git!Of(v, t) /\ \A i \in Git!Of(v, t) : cfvs'[i] = cfvs[i]
        BY <2>1, <2>2, <3>2 DEF Git!Of
      <4> QED
        BY <3>1, <4>1 DEF GitKept
    <3>3. CASE t = h /\ <<v, t>> \notin overlapped
      <4>1. <<v, w>> \notin overlapped
        BY <1>3, <3>3 DEF GitInv, GitTyped
      <4>2. Git!Of(v, t) = {} /\ Git!Of(v, t)' = {n} /\ cfvs'[n].data = d
        BY <1>3, <2>1, <2>2, <3>3, <4>1
      <4>3. wanted'[v][t] = <<>>
        BY <3>1, <3>3, <4>2 DEF GitKept
      <4> QED
        BY <1>5, <4>2, <4>3 DEF GitKept
    <3>4. CASE <<v, t>> \in overlapped
      BY <3>1, <3>4 DEF GitKept
    <3> QED
      BY <3>2, <3>3, <3>4
  <2>8. \A u \in Git!Users \ {v}, t \in Git!Types :
           /\ Git!Of(u, t)' = Git!Of(u, t) /\ wanted'[u] = wanted[u]
           /\ \A i \in Git!Of(u, t) : cfvs'[i].data = cfvs[i].data
    BY <1>8, <2>1, <2>2 DEF Git!Of
  <2>9. \A t \in Git!Types : Git!Of(v, t) # {} => Git!Of(v, t)' # {}
    BY <2>2
  <2>10. wanted' \in [Git!Users -> [Git!Types -> Git!Objects]] /\ v = req[r].user
    BY <1>2, <1>8 DEF GitInv, GitTyped
  <2> QED
    BY <1>1, <1>7, <1>8, <2>1, <2>3, <2>5, <2>6, <2>7, <2>8, <2>9, <2>10, GitGoesOn
<1> QED
  BY <1>11, <1>12

LEMMA GitSave ==
    ASSUME GitInv, NEW r \in Git!Requests, Git!Save(r)
    PROVE  GitInv'
<1>1. /\ req[r] \in GitRequest /\ req[r].user \in Git!Users /\ req[r].type \in Git!Types
      /\ GitRead(r) /\ GitHeld(r) /\ req[r].pc = "save" /\ req[r].data \in Git!Objects
      /\ req \in [Git!Requests -> {Git!Waiting, Git!Answered} \cup GitRequest]
  BY GitHandled DEF Git!Save
<1>2. PICK q, v, w : q = req[r] /\ v = q.user /\ w = q.type
  OBVIOUS
<1>3. /\ q \in GitRequest /\ v \in Git!Users /\ w \in Git!Types /\ q.data \in Git!Objects
      /\ NamesOnly(q.data, v) /\ q.name \in GitNames \cup GitTokens /\ q.token \in GitTokens
      /\ Git!Of(v, w) # {}
      /\ <<v, w>> \notin overlapped => \A i \in Git!Of(v, w) : cfvs[i].data = q.data
  BY <1>1, <1>2 DEF GitRead, GitHeld, GitRequest
<1>4. PICK S : S = Git!Of(v, w)
  OBVIOUS
<1>5. PICK i \in S : i = CHOOSE k \in S : \A j \in S : k <= j
  <2>1. S \in SUBSET Nat /\ S # {}
    BY <1>3, <1>4 DEF Git!Of, GitInv, GitTyped
  <2> QED
    BY <2>1, Least
<1>6. /\ i \in DOMAIN cfvs /\ cfvs[i] \in GitCfv
      /\ cfvs[i].type = w /\ cfvs[i].users = {v} /\ cfvs[i].data \in Git!Objects
  <2>1. i \in Git!Of(v, w)
    BY <1>4, <1>5
  <2> QED
    BY <1>3, <2>1, GitFound
<1>7. PICK e, x, y : /\ e = Git!Changed(q, q.data) /\ x = wanted[v][w]
                     /\ y = Git!Changed(q, x)
  OBVIOUS
<1>8. e \in Git!Objects /\ NamesOnly(e, v)
  BY <1>3, <1>7, GitChanged
<1>9. x \in Git!Objects /\ y \in Git!Objects
  <2>1. x \in Git!Objects
    BY <1>3, <1>7 DEF GitInv, GitTyped
  <2>2. PICK u : u = x["user"]
    OBVIOUS
  <2>3. NamesOnly(x, u)
    BY <2>2 DEF NamesOnly
  <2> QED
    BY <1>3, <1>7, <2>1, <2>3, GitChanged
<1>10. /\ cfvs' = [cfvs EXCEPT ![i].data = e] /\ wanted' = [wanted EXCEPT ![v][w] = y]
       /\ req' = [req EXCEPT ![r] = Git!Answered] /\ UNCHANGED overlapped
  <2>1. i = CHOOSE k \in Git!Of(req[r].user, req[r].type) :
               \A j \in Git!Of(req[r].user, req[r].type) : k <= j
    BY <1>2, <1>4, <1>5
  <2> QED
    BY <1>2, <1>7, <2>1 DEF Git!Save
<1> DEFINE one == [cfvs[i] EXCEPT !.data = e]
<1>11. /\ one \in GitCfv /\ one.type = cfvs[i].type /\ one.users = cfvs[i].users
       /\ one.data = e
  BY <1>6, <1>8 DEF GitCfv
<1>12. /\ cfvs' \in Seq(GitCfv) /\ DOMAIN cfvs' = DOMAIN cfvs /\ cfvs'[i] = one
       /\ \A j \in DOMAIN cfvs : j # i => cfvs'[j] = cfvs[j]
  <2>1. cfvs' = [cfvs EXCEPT ![i] = one] /\ cfvs \in Seq(GitCfv)
    BY <1>10 DEF GitInv, GitTyped
  <2> HIDE DEF one
  <2> QED
    BY <1>6, <1>11, <2>1
<1> HIDE DEF one
<1>13. \A u, t : Git!Of(u, t)' = Git!Of(u, t)
  BY <1>11, <1>12 DEF Git!Of
<1>14. GitNamed'
  BY <1>6, <1>8, <1>11, <1>12 DEF GitInv, GitNamed
<1>15. /\ wanted' \in [Git!Users -> [Git!Types -> Git!Objects]] /\ wanted'[v][w] = y
       /\ \A t \in Git!Types : t # w => wanted'[v][t] = wanted[v][t]
       /\ \A u \in Git!Users : u # v => wanted'[u] = wanted[u]
  <2>1. wanted \in [Git!Users -> [Git!Types -> Git!Objects]]
    BY DEF GitInv, GitTyped
  <2>2. PICK f : f = [wanted[v] EXCEPT ![w] = y]
    OBVIOUS
  <2>3. f \in [Git!Types -> Git!Objects] /\ f[w] = y
           /\ \A t \in Git!Types : t # w => f[t] = wanted[v][t]
    BY <1>3, <1>9, <2>1, <2>2
  <2>4. wanted' = [wanted EXCEPT ![v] = f]
    BY <1>10, <2>2
  <2> QED
    BY <1>3, <2>1, <2>3, <2>4
<1>16. req'[r] = Git!Answered /\ Git!Answered \notin GitRequest
  BY <1>1, <1>10 DEF Git!Answered, GitRequest
<1>17. GitRead(r)' /\ GitHeld(r)'
  BY <1>16 DEF GitRead, GitHeld
<1>18. ASSUME NEW t \in Git!Types
       PROVE  GitKept(v, t)'
  <2>1. GitKept(v, t)
    BY <1>3 DEF GitInv
  <2>2. CASE t # w
    <3>1. \A j \in Git!Of(v, t) : cfvs'[j] = cfvs[j]
      BY <1>6, <1>12, <2>2 DEF Git!Of
    <3> QED
      BY <1>10, <1>13, <1>15, <2>1, <2>2, <3>1 DEF GitKept
  <2>3. CASE t = w /\ <<v, w>> \notin overlapped
    <3>1. \A j \in S : j = i
      BY <1>4, <1>5, <2>1, <2>3 DEF GitKept
    <3>2. Git!Shown(q.data) = Git!Shown(x)
      BY <1>3, <1>4, <1>5, <1>7, <2>1, <2>3 DEF GitKept
    <3>3. Git!Shown(e) = Git!Shown(y)
      BY <1>3, <1>7, <1>9, <3>2, GitShown
    <3>4. Git!Of(v, t)' = S
      BY <1>4, <1>13, <2>3
    <3> QED
      BY <1>5, <1>11, <1>12, <1>15, <2>3, <3>1, <3>3, <3>4 DEF GitKept
  <2>4. CASE <<v, t>> \in overlapped
    BY <1>10, <2>4 DEF GitKept
  <2>5. <<v, w>> \in overlapped /\ t = w => <<v, t>> \in overlapped
    OBVIOUS
  <2> QED
    BY <2>2, <2>3, <2>4, <2>5
<1>19. \A u \in Git!Users \ {v}, t \in Git!Types :
          /\ Git!Of(u, t)' = Git!Of(u, t) /\ wanted'[u] = wanted[u]
          /\ \A j \in Git!Of(u, t) : cfvs'[j].data = cfvs[j].data
  <2>1. ASSUME NEW u \in Git!Users \ {v}, NEW t \in Git!Types, NEW j \in Git!Of(u, t)
        PROVE  cfvs'[j] = cfvs[j]
    <3>1. j \in DOMAIN cfvs /\ u \in cfvs[j].users
      BY DEF Git!Of
    <3> QED
      BY <1>6, <1>12, <3>1
  <2> QED
    BY <1>13, <1>15, <2>1
<1>20. \A t \in Git!Types : Git!Of(v, t) # {} => Git!Of(v, t)' # {}
  BY <1>13
<1> QED
  BY <1>1, <1>2, <1>10, <1>12, <1>14, <1>15, <1>17, <1>18, <1>19, <1>20, GitGoesOn

LEMMA GitStep == GitInv /\ Git!Next => GitInv'
<1> SUFFICES ASSUME GitInv, NEW r \in Git!Requests,
                    \/ Git!ShowPage(r) \/ Git!SubmitConfig(r) \/ Git!SubmitToken(r)
                    \/ Git!Delete(r) \/ Git!Look(r) \/ Git!GetOrCreate(r)
                    \/ Git!LookAgain(r) \/ Git!Save(r)
             PROVE  GitInv'
  BY DEF Git!Next
<1>1. Git!The(GitNames) \in GitNames /\ Git!The(GitTokens) \in GitTokens
  BY GitAssumption DEF Git!The
<1>2. CASE Git!ShowPage(r)
  BY <1>1, <1>2, GitArrives DEF Git!ShowPage, Git!Types
<1>3. CASE Git!SubmitConfig(r)
  BY <1>3, GitArrives DEF Git!SubmitConfig, Git!Types
<1>4. CASE Git!SubmitToken(r)
  BY <1>4, GitArrives DEF Git!SubmitToken, Git!Types
<1>5. CASE Git!Delete(r)
  BY <1>1, <1>5, GitArrives DEF Git!Delete, Git!Entry
<1> QED
  BY <1>2, <1>3, <1>4, <1>5, GitLook, GitGetOrCreate, GitLookAgain, GitSave

\* A user whose requests did not overlap finds what it saved last, whatever the
\* requests of other users do meanwhile: for any users, requests and names.
THEOREM OwnEntriesFound == JobsSpec => []OwnEntriesKept
<1>1. JobsInit => GitInv
  BY GitInit DEF JobsInit
<1>2. GitInv /\ [JobsNext]_jobsVars => GitInv'
  BY GitPart, GitStep, GitStutter
<1>3. GitInv => OwnEntriesKept
  BY DEF GitInv, GitKept, OwnEntriesKept, Git!OwnEntriesKept
<1> QED
  BY <1>1, <1>2, <1>3, PTL DEF JobsSpec

-----------------------------------------------------------------------------
(* ARM templates. *)

\* What a function computes in n steps, each F of its number and what is there.
Steps(f, n, X, e, F) == /\ f \in [0 .. n -> X] /\ f[0] = e
                        /\ \A k \in 1 .. n : f[k] = F[<<k, f[k - 1]>>]

LEMMA StepsExist ==
    ASSUME NEW m \in Nat, NEW X, NEW e \in X, NEW F \in [(1 .. m) \X X -> X]
    PROVE  \E f : Steps(f, m, X, e, F)
<1> USE DEF Steps
<1> DEFINE Right(f, n) == Steps(f, n, X, e, F)
           W == {n \in 0 .. m : ~\E f : Right(f, n)}
<1> SUFFICES ASSUME W # {} PROVE FALSE
  BY SMT
<1>1. PICK n \in W : \A j \in W : n <= j
  <2>1. W \in SUBSET Nat
    OBVIOUS
  <2> HIDE DEF W
  <2> QED
    BY <2>1, Least
<1>2. n # 0
  <2>1. Right([k \in 0 .. 0 |-> e], 0)
    OBVIOUS
  <2> HIDE DEF Right
  <2> QED
    BY <1>1, <2>1
<1>3. n \in 1 .. m /\ n - 1 \in 0 .. m /\ n - 1 \notin W
  <2>1. n \in 0 .. m
    OBVIOUS
  <2> HIDE DEF W
  <2> QED
    BY <1>1, <1>2, <2>1
<1>4. PICK f : Right(f, n - 1)
  BY <1>3
<1> DEFINE g == [k \in 0 .. n |-> IF k = n THEN F[<<n, f[n - 1]>>] ELSE f[k]]
<1>5. f[n - 1] \in X /\ F[<<n, f[n - 1]>>] \in X
  BY <1>3, <1>4
<1>6. g \in [0 .. n -> X] /\ g[0] = e
  BY <1>3, <1>4, <1>5
<1>7. ASSUME NEW k \in 1 .. n PROVE g[k] = F[<<k, g[k - 1]>>]
  <2>1. k - 1 \in 0 .. n /\ k - 1 # n /\ k \in 0 .. n
    BY <1>3
  <2>2. g[k - 1] = f[k - 1]
    BY <2>1
  <2>3. CASE k = n
    BY <2>1, <2>2, <2>3
  <2>4. CASE k # n
    <3>1. k \in 1 .. n - 1
      BY <1>3, <2>4
    <3>2. f[k] = F[<<k, f[k - 1]>>]
      BY <1>4, <3>1
    <3> QED
      BY <2>1, <2>2, <2>4, <3>2
  <2> QED
    BY <2>3, <2>4
<1>8. Right(g, n)
  BY <1>6, <1>7
<1> HIDE DEF Right, g
<1> QED
  BY <1>1, <1>8

\* All VMs come before all else.
VMsFirst(s) == \A i, j \in DOMAIN s : i < j /\ s[j] \in ArmVMs => s[i] \in ArmVMs

\* One more id gathered.
WithId(id, before) ==
    CASE id \in ArmChildren \cup (Arm!Range(before) \ ArmVMs) -> before
      [] id \in ArmVMs \ ArmChildren                       -> <<id>> \o before
      [] OTHER                                             -> Append(before, id)

LEMMA ArmWithId ==
    ASSUME NEW id \in ArmIds, NEW s \in Seq(ArmIds), VMsFirst(s)
    PROVE  /\ WithId(id, s) \in Seq(ArmIds) /\ VMsFirst(WithId(id, s))
           /\ Arm!Range(WithId(id, s)) = Arm!Range(s) \cup ({id} \ ArmChildren)
<1>1. CASE id \in ArmChildren \cup (Arm!Range(s) \ ArmVMs)
  BY <1>1 DEF WithId
<1>2. CASE id \in ArmVMs \ ArmChildren
  <2>1. PICK b : b = <<id>>
    OBVIOUS
  <2>2. b \in Seq(ArmIds) /\ Len(b) = 1 /\ b[1] = id
    BY <2>1
  <2>3. PICK c : c = b \o s
    OBVIOUS
  <2>4. /\ c \in Seq(ArmIds) /\ Len(c) = Len(s) + 1 /\ c[1] = id /\ Len(s) \in Nat
        /\ \A k \in 1 .. Len(s) : c[k + 1] = s[k]
        /\ DOMAIN c = 1 .. Len(s) + 1 /\ DOMAIN s = 1 .. Len(s)
    <3>1. Len(s) \in Nat /\ DOMAIN s = 1 .. Len(s)
      OBVIOUS
    <3>2. c \in Seq(ArmIds) /\ Len(c) = Len(b) + Len(s)
      BY <2>2, <2>3, ConcatProperties
    <3>3. \A k \in 1 .. Len(b) + Len(s) :
             c[k] = IF k <= Len(b) THEN b[k] ELSE s[k - Len(b)]
      BY <2>2, <2>3, ConcatProperties
    <3>4. c[1] = id
      BY <2>2, <3>1, <3>3
    <3>5. ASSUME NEW k \in 1 .. Len(s) PROVE c[k + 1] = s[k]
      <4>1. k + 1 \in 1 .. Len(b) + Len(s) /\ ~(k + 1 <= Len(b)) /\ k + 1 - Len(b) = k
        BY <2>2, <3>1
      <4> QED
        BY <3>3, <4>1
    <3> QED
      BY <2>2, <3>1, <3>2, <3>4, <3>5
  <2>5. \A k \in DOMAIN c : k = 1 \/ (k - 1 \in DOMAIN s /\ c[k] = s[k - 1])
    BY <2>4
  <2>6. Arm!Range(c) = Arm!Range(s) \cup {id}
    <3>1. \A k \in DOMAIN s : k + 1 \in DOMAIN c /\ c[k + 1] = s[k]
      BY <2>4
    <3>2. 1 \in DOMAIN c
      BY <2>4
    <3>3. Arm!Range(c) \subseteq Arm!Range(s) \cup {id}
      BY <2>4, <2>5 DEF Arm!Range
    <3>4. Arm!Range(s) \cup {id} \subseteq Arm!Range(c)
      BY <2>4, <3>1, <3>2 DEF Arm!Range
    <3> QED
      BY <3>3, <3>4
  <2>7. VMsFirst(c)
    <3> SUFFICES ASSUME NEW i \in DOMAIN c, NEW j \in DOMAIN c, i < j, c[j] \in ArmVMs
                 PROVE  c[i] \in ArmVMs
      BY DEF VMsFirst
    <3>1. CASE i = 1
      BY <1>2, <2>4, <3>1
    <3>2. CASE i # 1
      <4>1. /\ i - 1 \in DOMAIN s /\ c[i] = s[i - 1] /\ j - 1 \in DOMAIN s /\ c[j] = s[j - 1]
            /\ i - 1 < j - 1
        BY <2>4, <2>5, <3>2
      <4> QED
        BY <4>1 DEF VMsFirst
    <3> QED
      BY <3>1, <3>2
  <2>8. WithId(id, s) = c
    BY <1>2, <2>1, <2>3 DEF WithId
  <2> QED
    BY <1>2, <2>4, <2>6, <2>7, <2>8
<1>3. CASE id \notin ArmChildren \cup ArmVMs \cup (Arm!Range(s) \ ArmVMs)
  <2>1. WithId(id, s) = Append(s, id)
    BY <1>3 DEF WithId
  <2>2. PICK c : c = Append(s, id)
    OBVIOUS
  <2>3. /\ c \in Seq(ArmIds) /\ DOMAIN c = 1 .. Len(s) + 1 /\ DOMAIN s = 1 .. Len(s)
        /\ Len(s) \in Nat /\ c[Len(s) + 1] = id /\ \A k \in DOMAIN s : c[k] = s[k]
    BY <2>2
  <2>4. Arm!Range(c) = Arm!Range(s) \cup {id}
    <3>1. Len(s) + 1 \in DOMAIN c /\ \A k \in DOMAIN c : k \in DOMAIN s \/ k = Len(s) + 1
      BY <2>3
    <3>2. DOMAIN s \subseteq DOMAIN c
      BY <2>3
    <3> QED
      BY <2>3, <3>1, <3>2 DEF Arm!Range
  <2>5. VMsFirst(c)
    <3> SUFFICES ASSUME NEW i \in DOMAIN c, NEW j \in DOMAIN c, i < j, c[j] \in ArmVMs
                 PROVE  c[i] \in ArmVMs
      BY DEF VMsFirst
    <3>1. j \in DOMAIN s
      BY <1>3, <2>3
    <3>2. i \in DOMAIN s
      BY <2>3, <3>1
    <3> QED
      BY <2>3, <3>1, <3>2 DEF VMsFirst
  <2> QED
    BY <1>3, <2>1, <2>2, <2>3, <2>4, <2>5
<1> QED
  BY <1>1, <1>2, <1>3

\* The ids gathered are the parents among those recorded, VMs first.
LEMMA ArmGathered ==
    ASSUME recordedIds \in Seq(ArmIds)
    PROVE  /\ Arm!Gathered \in Seq(ArmIds) /\ VMsFirst(Arm!Gathered)
           /\ Arm!Range(Arm!Gathered) = Arm!Range(recordedIds) \ ArmChildren
<1>1. PICK s : s = recordedIds
  OBVIOUS
<1>2. s \in Seq(ArmIds) /\ Len(s) \in Nat /\ DOMAIN s = 1 .. Len(s)
  BY <1>1
<1> DEFINE Upto(g) == g = [i \in 0 .. Len(s) |->
                             IF i = 0 THEN <<>> ELSE WithId(s[i], g[i - 1])]
           f == CHOOSE g : Upto(g)
           X == {x \in Seq(ArmIds) : VMsFirst(x)}
           F == [p \in (1 .. Len(s)) \X X |-> WithId(s[p[1]], p[2])]
<1>3. Arm!Gathered = f[Len(s)]
  BY <1>1 DEF Arm!Gathered, WithId
<1>4. <<>> \in X
  <2>1. PICK x : x = <<>>
    OBVIOUS
  <2>2. x \in Seq(ArmIds) /\ Len(x) = 0 /\ DOMAIN x = 1 .. 0
    BY <2>1
  <2> QED
    BY <2>1, <2>2 DEF VMsFirst
<1>5. F \in [(1 .. Len(s)) \X X -> X]
  <2>1. \A p \in (1 .. Len(s)) \X X : WithId(s[p[1]], p[2]) \in X
    BY <1>2, ArmWithId
  <2> HIDE DEF X
  <2> QED
    BY <2>1
<1>6. PICK g \in [0 .. Len(s) -> X] :
         g[0] = <<>> /\ \A k \in 1 .. Len(s) : g[k] = F[<<k, g[k - 1]>>]
  <2>1. PICK m, Y, e, G : m = Len(s) /\ Y = X /\ e = <<>> /\ G = F
    OBVIOUS
  <2> HIDE DEF F, X
  <2>2. m \in Nat /\ e \in Y /\ G \in [(1 .. m) \X Y -> Y]
    BY <1>2, <1>4, <1>5, <2>1
  <2>3. \E g : Steps(g, m, Y, e, G)
    BY <2>2, StepsExist
  <2> QED
    BY <2>1, <2>3 DEF Steps
<1>7. \A k \in 1 .. Len(s) : k - 1 \in 0 .. Len(s) /\ g[k - 1] \in X
  <2> HIDE DEF X
  <2> QED
    BY <1>2
<1>8. Upto(g)
  <2>1. \A k \in 1 .. Len(s) : g[k] = WithId(s[k], g[k - 1])
    <3> HIDE DEF X
    <3> QED
      BY <1>6, <1>7
  <2>2. \A k \in 0 .. Len(s) : k # 0 => k \in 1 .. Len(s)
    BY <1>2
  <2>3. \A k \in 0 .. Len(s) : g[k] = IF k = 0 THEN <<>> ELSE WithId(s[k], g[k - 1])
    BY <1>6, <2>1, <2>2
  <2> HIDE DEF X, F
  <2> QED
    BY <2>3
<1>9. Upto(f)
  <2> HIDE DEF Upto
  <2> QED
    BY <1>8
<1> HIDE DEF f, X, F
<1>10. f[0] = <<>> /\ \A k \in 1 .. Len(s) : f[k] = WithId(s[k], f[k - 1])
  <2>1. 0 \in 0 .. Len(s) /\ \A k \in 1 .. Len(s) : k \in 0 .. Len(s) /\ k # 0
    BY <1>2
  <2>2. \A k \in 0 .. Len(s) : f[k] = IF k = 0 THEN <<>> ELSE WithId(s[k], f[k - 1])
    BY <1>9
  <2> QED
    BY <2>1, <2>2
<1> DEFINE Right(n) == /\ f[n] \in X
                       /\ Arm!Range(f[n]) = {s[k] : k \in 1 .. n} \ ArmChildren
           W == {n \in 0 .. Len(s) : ~Right(n)}
<1>11. ASSUME W # {} PROVE FALSE
  <2>1. PICK n \in W : \A j \in W : n <= j
    <3>1. W \in SUBSET Nat
      BY <1>2
    <3> HIDE DEF W
    <3> QED
      BY <1>11, <3>1, Least
  <2>2. Right(0)
    <3>1. Arm!Range(<<>>) = {}
      BY DEF Arm!Range
    <3> QED
      BY <1>4, <1>10, <3>1
  <2>3. n \in 1 .. Len(s) /\ n - 1 \in 0 .. Len(s) /\ n - 1 \notin W
    <3>1. n \in 0 .. Len(s)
      OBVIOUS
    <3>2. n # 0
      <4> HIDE DEF Right
      <4> QED
        BY <2>1, <2>2
    <3> HIDE DEF W
    <3> QED
      BY <1>2, <2>1, <3>1, <3>2
  <2>4. Right(n - 1)
    BY <2>3
  <2>5. s[n] \in ArmIds
    BY <1>2, <2>3
  <2>6. PICK x : x = f[n - 1]
    OBVIOUS
  <2>7. x \in Seq(ArmIds) /\ VMsFirst(x)
    BY <2>4, <2>6 DEF X
  <2>8. f[n] = WithId(s[n], x)
    BY <1>10, <2>3, <2>6
  <2>9. {s[k] : k \in 1 .. n} = {s[k] : k \in 1 .. n - 1} \cup {s[n]}
    <3>1. \A k \in 1 .. n : k = n \/ k \in 1 .. n - 1
      BY <2>3
    <3>2. n \in 1 .. n /\ \A k \in 1 .. n - 1 : k \in 1 .. n
      BY <2>3
    <3> QED
      BY <3>1, <3>2
  <2>10. f[n] \in X
    BY <2>5, <2>7, <2>8, ArmWithId DEF X
  <2>11. Arm!Range(f[n]) = Arm!Range(x) \cup ({s[n]} \ ArmChildren)
    BY <2>5, <2>7, <2>8, ArmWithId
  <2>12. Arm!Range(x) = {s[k] : k \in 1 .. n - 1} \ ArmChildren
    BY <2>4, <2>6
  <2>13. Right(n)
    BY <2>9, <2>10, <2>11, <2>12
  <2> QED
    BY <2>1, <2>13
<1>12. Right(Len(s))
  <2>1. Len(s) \in 0 .. Len(s)
    BY <1>2
  <2> QED
    BY <1>11, <2>1
<1>13. {s[k] : k \in 1 .. Len(s)} = Arm!Range(s)
  BY <1>2 DEF Arm!Range
<1> QED
  BY <1>1, <1>3, <1>12, <1>13 DEF X

\* The outputs of the first n steps of the recording, with the disks of VMs.
ArmRecorded(n) ==
    armBlueprint # "arm_gitlab" =>
        \A j \in 1 .. n :
           /\ outputs[j] \in Arm!Range(recordedIds)
           /\ outputs[j] \in ArmVMs =>
                 Arm!Range(ArmDisks[outputs[j]]) \subseteq Arm!Range(recordedIds)

ArmTyped == /\ armBlueprint \in Arm!Blueprints
            /\ recordedIds \in Seq(ArmIds) /\ at \in Nat \ {0} /\ attempts \in {0, 1}
            /\ outputs \in Seq(ArmIds) /\ handled \in BOOLEAN /\ refused \in BOOLEAN
            /\ armBlueprint = "arm_gitlab" => failedIds = {}

\* Where the build is, what it has recorded, and what there is after it.
ArmBuild ==
    /\ armPc \in {"new", "deploy", "record"} => built = "none" /\ torn = "none"
    /\ armPc = "new" => failedIds = {}
    /\ armPc \in {"idle", "delete"} => torn \in {"none", "FAILURE"}
    /\ armPc \in {"new", "deploy", "idle"} => at = 1
    /\ armPc = "record" =>
          /\ azure = ArmIds \cup {"deployment"} /\ handled
          /\ Arm!Range(outputs) = Arm!OutputIds
          /\ at <= Len(outputs) + 1 /\ ArmRecorded(at - 1)
    /\ built = "SUCCESS" =>
          /\ handled /\ azure \subseteq ArmIds \cup {"deployment"}
          /\ armBlueprint # "arm_gitlab" => Arm!Range(recordedIds) = ArmIds
          /\ \A c \in ArmChildren \cap azure : ArmParent[c] \in azure

\* A teardown has all parents on its list; what it has passed is gone or failed.
ArmTeardown ==
    built = "SUCCESS" /\ armBlueprint # "arm_gitlab" =>
        /\ armPc = "delete" =>
              /\ ids \in Seq(ArmIds \cup {"deployment"}) /\ at <= Len(ids) + 1 /\ VMsFirst(ids)
              /\ Arm!Range(ids) = (ArmIds \ ArmChildren)
                                    \cup (IF armBlueprint = "aks" THEN {} ELSE {"deployment"})
              /\ \A j \in 1 .. at - 1 : ids[j] \in azure => ids[j] \in failedIds
        /\ torn = "SUCCESS" =>
              azure \subseteq (IF armBlueprint = "aks" THEN {"deployment"} ELSE {})

ArmInv == ArmTyped /\ ArmBuild /\ ArmTeardown

LEMMA ArmInit == Arm!Init => ArmInv
<1> SUFFICES ASSUME Arm!Init PROVE ArmInv
  OBVIOUS
<1>1. ArmTyped
  <2>1. <<>> \in Seq(ArmIds)
    OBVIOUS
  <2>2. recordedIds \in Seq(ArmIds) /\ outputs \in Seq(ArmIds)
    BY <2>1 DEF Arm!Init
  <2>3. handled \in BOOLEAN /\ refused \in BOOLEAN
    BY DEF Arm!Init
  <2>4. /\ at \in Nat \ {0} /\ attempts \in {0, 1} /\ failedIds = {}
        /\ armBlueprint \in Arm!Blueprints
    BY DEF Arm!Init, Arm!Blueprints
  <2> QED
    BY <2>2, <2>3, <2>4 DEF ArmTyped
<1>2. ArmBuild /\ ArmTeardown
  BY DEF Arm!Init, ArmBuild, ArmTeardown
<1> QED
  BY <1>1, <1>2 DEF ArmInv

LEMMA ArmStutter == ArmInv /\ UNCHANGED armVars => ArmInv'
<1> SUFFICES ASSUME ArmInv, UNCHANGED armVars PROVE ArmInv'
  OBVIOUS
<1>1. ArmTyped'
  BY DEF ArmInv, ArmTyped, armVars
<1>2. ArmBuild'
  <2>1. PICK n : n = at - 1
    OBVIOUS
  <2>2. ArmRecorded(n)' <=> ArmRecorded(n)
    BY DEF ArmRecorded, armVars, Arm!Range
  <2>3. \A s : Arm!Range(s)' = Arm!Range(s)
    OBVIOUS
  <2> QED
    BY <2>1, <2>2 DEF ArmInv, ArmBuild, armVars, Arm!Range
<1>3. ArmTeardown'
  BY DEF ArmInv, ArmTeardown, armVars, Arm!Range, VMsFirst
<1> QED
  BY <1>1, <1>2, <1>3 DEF ArmInv

LEMMA ArmPart == [JobsNext]_jobsVars => Arm!Next \/ UNCHANGED armVars
BY DEF JobsNext, Only, jobsVars

\* Everything the template creates is an output or a disk of one.
LEMMA ArmAllRecorded ==
    ASSUME ArmTyped, Arm!Range(outputs) = Arm!OutputIds, armBlueprint # "arm_gitlab",
           ArmRecorded(Len(outputs))
    PROVE  Arm!Range(recordedIds) = ArmIds
<1>1. recordedIds \in Seq(ArmIds) /\ outputs \in Seq(ArmIds)
  BY DEF ArmTyped
<1>2. Arm!Range(recordedIds) \subseteq ArmIds
  BY <1>1 DEF Arm!Range
<1>3. DOMAIN outputs = 1 .. Len(outputs)
  BY <1>1
<1>4. \A id \in Arm!OutputIds :
         /\ id \in Arm!Range(recordedIds)
         /\ id \in ArmVMs => Arm!Range(ArmDisks[id]) \subseteq Arm!Range(recordedIds)
  <2> TAKE id \in Arm!OutputIds
  <2>1. PICK j \in DOMAIN outputs : outputs[j] = id
    BY DEF Arm!Range
  <2> QED
    BY <1>3, <2>1 DEF ArmRecorded
<1>5. ASSUME NEW id \in ArmIds, id \notin Arm!OutputIds
      PROVE  id \in Arm!Range(recordedIds)
  <2>1. PICK v \in ArmVMs : id \in Arm!Range(ArmDisks[v])
    BY <1>5 DEF Arm!OutputIds
  <2>2. v \in Arm!OutputIds
    <3>1. \A w \in ArmVMs : ArmDisks[w] \in Seq(ArmIds \ ArmVMs)
      BY ArmAssumption
    <3>2. \A w \in ArmVMs : v \notin Arm!Range(ArmDisks[w])
      BY <3>1 DEF Arm!Range
    <3>3. v \in ArmIds
      BY ArmAssumption
    <3> QED
      BY <3>2, <3>3 DEF Arm!OutputIds
  <2> QED
    BY <1>4, <2>1, <2>2
<1> QED
  BY <1>2, <1>4, <1>5

\* The steps up to the deployment record nothing.
LEMMA ArmStarts ==
    ASSUME ArmInv, NEW b \in Arm!Blueprints, NEW n, Arm!Starts(b, n)
    PROVE  ArmInv'
<1>1. ArmTyped'
  <2>1. failedIds' = {}
    BY DEF ArmInv, ArmBuild, Arm!Starts, Arm!teardownVars
  <2> QED
    BY <2>1 DEF ArmInv, ArmTyped, Arm!Starts, Arm!teardownVars
<1>2. ArmBuild'
  BY DEF ArmInv, ArmBuild, Arm!Starts, Arm!teardownVars
<1>3. ArmTeardown'
  BY DEF ArmInv, ArmBuild, ArmTeardown, Arm!Starts, Arm!teardownVars
<1> QED
  BY <1>1, <1>2, <1>3 DEF ArmInv

LEMMA ArmDeploy == ArmInv /\ Arm!Deploy => ArmInv'
<1> SUFFICES ASSUME ArmInv, Arm!Deploy PROVE ArmInv'
  OBVIOUS
<1>1. /\ Arm!Range(outputs') = Arm!OutputIds /\ outputs' \in Seq(ArmIds)
      /\ Len(outputs') \in Nat
  <2>1. IsFiniteSet(Arm!OutputIds) /\ Arm!OutputIds \subseteq ArmIds
    BY ArmAssumption, FS_Subset DEF Arm!OutputIds
  <2>2. Cardinality(Arm!OutputIds) \in Nat
    BY <2>1, FS_CardinalityType
  <2>3. PICK c, o : c = Cardinality(Arm!OutputIds) /\ o = outputs'
    OBVIOUS
  <2>4. o \in [1 .. c -> Arm!OutputIds] /\ Arm!Range(o) = Arm!OutputIds
    BY <2>3 DEF Arm!Deploy, Arm!OutputOrders, Arm!Cardinality, Cardinality
  <2>5. o \in Seq(ArmIds)
    BY <2>1, <2>2, <2>3, <2>4
  <2> QED
    BY <2>3, <2>4, <2>5
<1>2. ArmTyped'
  BY <1>1 DEF ArmInv, ArmTyped, Arm!Deploy, Arm!teardownVars
<1>3. ArmBuild'
  <2>1. at' = 1 /\ at' - 1 = 0
    BY DEF ArmInv, ArmBuild, Arm!Deploy
  <2>2. ArmRecorded(0)'
    BY DEF ArmRecorded
  <2>3. PICK n : n = 0
    OBVIOUS
  <2>4. ArmRecorded(at - 1)'
    BY <2>1 DEF ArmRecorded
  <2> QED
    BY <1>1, <2>1, <2>4 DEF ArmInv, ArmBuild, Arm!Deploy, Arm!Deployment, Arm!teardownVars
<1>4. ArmTeardown'
  BY DEF ArmInv, ArmBuild, ArmTeardown, Arm!Deploy, Arm!teardownVars
<1> QED
  BY <1>2, <1>3, <1>4 DEF ArmInv

LEMMA ArmDeployFails == ArmInv /\ Arm!DeployFails => ArmInv'
<1> SUFFICES ASSUME ArmInv, Arm!DeployFails PROVE ArmInv'
  OBVIOUS
<1>1. ArmTyped'
  BY DEF ArmInv, ArmTyped, Arm!DeployFails, Arm!teardownVars
<1>2. ArmBuild' /\ ArmTeardown'
  BY DEF ArmInv, ArmBuild, ArmTeardown, Arm!DeployFails, Arm!teardownVars
<1> QED
  BY <1>1, <1>2 DEF ArmInv

\* One output more is recorded.
LEMMA ArmRecords ==
    ASSUME ArmInv, armPc = "record", at <= Len(outputs), NEW more \in Seq(ArmIds),
           recordedIds' = recordedIds \o more, at' = at + 1,
           armBlueprint # "arm_gitlab" =>
              /\ outputs[at] \in Arm!Range(more)
              /\ outputs[at] \in ArmVMs =>
                    Arm!Range(ArmDisks[outputs[at]]) \subseteq Arm!Range(more),
           UNCHANGED <<armBlueprint, outputs, handled, built, azure, armPc, torn, ids, attempts,
                       failedIds, refused>>
    PROVE  ArmInv'
<1>1. PICK s, t : s = recordedIds /\ t = recordedIds'
  OBVIOUS
<1>2. s \in Seq(ArmIds) /\ t = s \o more
  BY <1>1 DEF ArmInv, ArmTyped
<1>3. /\ t \in Seq(ArmIds) /\ Len(s) \in Nat /\ Len(more) \in Nat
      /\ DOMAIN t = 1 .. Len(s) + Len(more)
      /\ \A k \in 1 .. Len(s) + Len(more) : t[k] = IF k <= Len(s) THEN s[k] ELSE more[k - Len(s)]
  <2>1. t \in Seq(ArmIds) /\ Len(t) = Len(s) + Len(more)
    BY <1>2, ConcatProperties
  <2>2. \A k \in 1 .. Len(s) + Len(more) : t[k] = IF k <= Len(s) THEN s[k] ELSE more[k - Len(s)]
    BY <1>2, ConcatProperties
  <2> QED
    BY <1>2, <2>1, <2>2
<1>4. Arm!Range(s) \subseteq Arm!Range(t) /\ Arm!Range(more) \subseteq Arm!Range(t)
  <2>1. ASSUME NEW k \in DOMAIN s PROVE s[k] \in Arm!Range(t)
    <3>1. k \in DOMAIN t /\ t[k] = s[k]
      BY <1>2, <1>3
    <3> QED
      BY <3>1 DEF Arm!Range
  <2>2. ASSUME NEW k \in DOMAIN more PROVE more[k] \in Arm!Range(t)
    <3>1. Len(s) + k \in DOMAIN t /\ t[Len(s) + k] = more[k]
      <4>1. k \in 1 .. Len(more)
        OBVIOUS
      <4>2. Len(s) + k \in 1 .. Len(s) + Len(more) /\ ~(Len(s) + k <= Len(s))
               /\ Len(s) + k - Len(s) = k
        BY <1>3, <4>1
      <4> QED
        BY <1>3, <4>2
    <3> QED
      BY <3>1 DEF Arm!Range
  <2> QED
    BY <2>1, <2>2 DEF Arm!Range
<1>5. at \in Nat \ {0} /\ at' = at + 1
  BY DEF ArmInv, ArmTyped
<1>6. ArmTyped'
  BY <1>1, <1>3, <1>5 DEF ArmInv, ArmTyped
<1>7. ASSUME armBlueprint # "arm_gitlab", NEW j \in 1 .. at' - 1
      PROVE  /\ outputs[j] \in Arm!Range(t)
             /\ outputs[j] \in ArmVMs => Arm!Range(ArmDisks[outputs[j]]) \subseteq Arm!Range(t)
  <2>1. CASE j = at
    BY <1>4, <1>7, <2>1
  <2>2. CASE j # at
    <3>1. j \in 1 .. at - 1
      BY <1>5, <2>2
    <3>2. ArmRecorded(at - 1)
      BY DEF ArmInv, ArmBuild
    <3> QED
      BY <1>1, <1>4, <1>7, <3>1, <3>2 DEF ArmRecorded
  <2> QED
    BY <2>1, <2>2
<1>8. ArmRecorded(at - 1)'
  <2>1. PICK o : o = outputs
    OBVIOUS
  <2>2. armBlueprint # "arm_gitlab" =>
           \A j \in 1 .. at' - 1 :
              /\ o[j] \in Arm!Range(t)
              /\ o[j] \in ArmVMs => Arm!Range(ArmDisks[o[j]]) \subseteq Arm!Range(t)
    BY <1>7, <2>1
  <2>3. outputs' = o /\ recordedIds' = t /\ armBlueprint' = armBlueprint
    BY <1>1, <2>1
  <2> HIDE DEF Arm!Range
  <2> QED
    BY <2>2, <2>3 DEF ArmRecorded
<1>9. ArmBuild'
  <2>1. at' <= Len(outputs') + 1
    <3>1. Len(outputs) \in Nat
      BY DEF ArmInv, ArmTyped
    <3> QED
      BY <1>5, <3>1
  <2> QED
    BY <1>8, <2>1 DEF ArmInv, ArmBuild, Arm!Range
<1>10. ArmTeardown'
  BY DEF ArmInv, ArmBuild, ArmTeardown
<1> QED
  BY <1>6, <1>9, <1>10 DEF ArmInv

LEMMA ArmRecordOutput ==
    ArmInv /\ (Arm!RecordOutput \/ Arm!RecordGitLabOutput) => ArmInv'
<1> SUFFICES ASSUME ArmInv, Arm!RecordOutput \/ Arm!RecordGitLabOutput PROVE ArmInv'
  OBVIOUS
<1>1. /\ armPc = "record" /\ at <= Len(outputs) /\ at' = at + 1
      /\ UNCHANGED <<armBlueprint, outputs, handled, built, azure, armPc, torn, ids, attempts,
                     failedIds, refused>>
  BY DEF Arm!RecordOutput, Arm!RecordGitLabOutput, Arm!teardownVars
<1>2. PICK id, s : id = outputs[at] /\ s = recordedIds
  OBVIOUS
<1>3. id \in ArmIds /\ s \in Seq(ArmIds)
  <2>1. at \in DOMAIN outputs /\ outputs \in Seq(ArmIds)
    BY <1>1 DEF ArmInv, ArmTyped
  <2> QED
    BY <1>2, <2>1 DEF ArmInv, ArmTyped
<1>4. CASE Arm!RecordGitLabOutput \/ id \notin ArmVMs
  <2>1. PICK more : more = <<id>>
    OBVIOUS
  <2>2. more \in Seq(ArmIds) /\ id \in Arm!Range(more)
    BY <1>3, <2>1 DEF Arm!Range
  <2>3. recordedIds' = Append(s, id)
    BY <1>2, <1>4 DEF Arm!RecordOutput, Arm!RecordGitLabOutput
  <2>4. Append(s, id) = s \o more
    BY <1>3, <2>1
  <2>5. armBlueprint # "arm_gitlab" => id \notin ArmVMs
    BY <1>4 DEF Arm!RecordGitLabOutput
  <2> QED
    BY <1>1, <1>2, <2>2, <2>3, <2>4, <2>5, ArmRecords
<1>5. CASE Arm!RecordOutput /\ id \in ArmVMs
  <2>1. PICK d, more : d = ArmDisks[id] /\ more = Append(d, id)
    OBVIOUS
  <2>2. d \in Seq(ArmIds)
    <3>1. d \in Seq(ArmIds \ ArmVMs)
      BY <1>5, <2>1, ArmAssumption
    <3> QED
      BY <3>1
  <2>3. /\ more \in Seq(ArmIds) /\ DOMAIN more = 1 .. Len(d) + 1 /\ DOMAIN d = 1 .. Len(d)
        /\ Len(d) \in Nat /\ more[Len(d) + 1] = id /\ \A k \in DOMAIN d : more[k] = d[k]
    BY <1>3, <2>1, <2>2
  <2>4. id \in Arm!Range(more) /\ Arm!Range(d) \subseteq Arm!Range(more)
    <3>1. Len(d) + 1 \in DOMAIN more /\ DOMAIN d \subseteq DOMAIN more
      BY <2>3
    <3> QED
      BY <2>3, <3>1 DEF Arm!Range
  <2>5. recordedIds' = s \o more
    BY <1>2, <1>5, <2>1 DEF Arm!RecordOutput
  <2> QED
    BY <1>1, <1>2, <2>1, <2>3, <2>4, <2>5, ArmRecords
<1> QED
  BY <1>4, <1>5

LEMMA ArmBuildEnds ==
    ArmInv /\ (Arm!RecordFails \/ Arm!BuildDone) => ArmInv'
<1> SUFFICES ASSUME ArmInv, Arm!RecordFails \/ Arm!BuildDone PROVE ArmInv'
  OBVIOUS
<1>1. /\ armPc = "record" /\ armPc' = "idle" /\ at' = 1 /\ built = "none" /\ torn = "none"
      /\ built' = "FAILURE" \/ (built' = "SUCCESS" /\ at = Len(outputs) + 1)
      /\ UNCHANGED <<armBlueprint, outputs, handled, recordedIds, azure, torn, ids, attempts,
                     failedIds, refused>>
  BY DEF Arm!RecordFails, Arm!BuildDone, Arm!teardownVars, ArmInv, ArmBuild
<1>2. ArmTyped'
  BY <1>1 DEF ArmInv, ArmTyped
<1>3. ASSUME built' = "SUCCESS", armBlueprint # "arm_gitlab"
      PROVE  Arm!Range(recordedIds) = ArmIds
  <2>1. PICK n : n = at - 1
    OBVIOUS
  <2>2. n = Len(outputs)
    BY <1>1, <1>3, <2>1 DEF ArmInv, ArmTyped
  <2>3. ArmRecorded(n)
    BY <1>1, <2>1 DEF ArmInv, ArmBuild
  <2> QED
    BY <1>1, <1>3, <2>2, <2>3, ArmAllRecorded DEF ArmInv, ArmBuild
<1>4. ArmBuild'
  <2>1. /\ handled /\ azure = ArmIds \cup {"deployment"}
    BY <1>1 DEF ArmInv, ArmBuild
  <2>2. \A c \in ArmChildren \cap azure : ArmParent[c] \in azure
    BY <2>1, ArmAssumption
  <2> QED
    BY <1>1, <1>3, <2>1, <2>2 DEF ArmBuild, Arm!Range
<1>5. ArmTeardown'
  BY <1>1 DEF ArmTeardown
<1> QED
  BY <1>2, <1>4, <1>5 DEF ArmInv

\* The rest of the build never changes once there is a teardown.
LEMMA ArmBuildStays ==
    ASSUME ArmInv, armPc \in {"idle", "delete"}, armPc' \in {"idle", "delete", "gone"},
           UNCHANGED Arm!buildVars, at' \in Nat \ {0}, armPc' = "idle" => at' = 1,
           armPc' # "gone" => torn' \in {"none", "FAILURE"},
           NEW removed, azure' = azure \ removed,
           \A c \in ArmChildren : ArmParent[c] \in removed => c \in removed,
           attempts' \in {0, 1}, refused' \in BOOLEAN,
           armBlueprint = "arm_gitlab" => failedIds' = {}
    PROVE  ArmTyped' /\ ArmBuild'
<1>1. /\ armPc' \notin {"new", "deploy", "record"}
      /\ UNCHANGED <<armBlueprint, outputs, handled, recordedIds, built>>
  BY DEF Arm!buildVars
<1>2. ArmTyped'
  BY <1>1 DEF ArmInv, ArmTyped
<1>3. ArmBuild'
  <2>1. \A c \in ArmChildren \cap azure' :
           ArmParent[c] \in azure => ArmParent[c] \in azure'
    OBVIOUS
  <2> QED
    BY <1>1, <2>1 DEF ArmInv, ArmBuild, Arm!Range
<1> QED
  BY <1>2, <1>3

\* What a call that failed has deleted, it has deleted with its children.
LEMMA ArmMaybeDeleted ==
    ASSUME NEW id, Arm!MaybeDeleted(id) \/ UNCHANGED azure
    PROVE  \E removed : /\ azure' = azure \ removed
                        /\ \A c \in ArmChildren : ArmParent[c] \in removed => c \in removed
<1>1. CASE UNCHANGED azure
  <2>1. PICK none : none = {}
    OBVIOUS
  <2>2. /\ azure' = azure \ none
        /\ \A c \in ArmChildren : ArmParent[c] \in none => c \in none
    BY <1>1, <2>1
  <2> QED
    BY <2>2
<1>2. CASE ~UNCHANGED azure
  <2>1. PICK removed : removed = Arm!Removed(id)
    OBVIOUS
  <2>2. azure' = azure \ removed
    BY <1>2, <2>1 DEF Arm!MaybeDeleted
  <2>3. \A c \in ArmChildren : ArmParent[c] \in removed => c \in removed
    BY <2>1, ArmAssumption DEF Arm!Removed
  <2> QED
    BY <2>2, <2>3
<1> QED
  BY <1>1, <1>2

\* An exception, and a teardown with nothing to do.
LEMMA ArmTeardownFails ==
    ASSUME ArmInv, NEW fault \in BOOLEAN, armPc = "delete", Arm!TeardownFails(fault),
           NEW id, Arm!MaybeDeleted(id) \/ UNCHANGED azure
    PROVE  ArmInv'
<1>1. ArmTyped' /\ ArmBuild'
  <2>1. PICK removed :
           /\ azure' = azure \ removed
           /\ \A c \in ArmChildren : ArmParent[c] \in removed => c \in removed
    BY ArmMaybeDeleted
  <2>2. (refused \/ fault) \in BOOLEAN
    BY DEF ArmInv, ArmTyped
  <2>3. /\ armPc \in {"idle", "delete"} /\ armPc' \in {"idle", "delete", "gone"}
        /\ UNCHANGED Arm!buildVars /\ at' \in Nat \ {0} /\ (armPc' = "idle" => at' = 1)
        /\ (armPc' # "gone" => torn' \in {"none", "FAILURE"})
    BY DEF Arm!TeardownFails
  <2>4. /\ attempts' \in {0, 1} /\ refused' \in BOOLEAN
        /\ armBlueprint = "arm_gitlab" => failedIds' = {}
    BY <2>2 DEF Arm!TeardownFails, ArmInv, ArmTyped
  <2> QED
    BY <2>1, <2>3, <2>4, ArmBuildStays
<1>2. ArmTeardown'
  BY DEF ArmTeardown, Arm!TeardownFails
<1> QED
  BY <1>1, <1>2 DEF ArmInv

LEMMA ArmNothing == ArmInv /\ Arm!NothingToTearDown => ArmInv'
<1> SUFFICES ASSUME ArmInv, Arm!NothingToTearDown PROVE ArmInv'
  OBVIOUS
<1>1. /\ armPc = "idle" /\ armPc' = "gone" /\ built # "SUCCESS" /\ built' # "SUCCESS"
      /\ UNCHANGED <<Arm!buildVars, azure, at, attempts, failedIds, refused>>
  BY DEF Arm!NothingToTearDown, ArmInv, ArmBuild, Arm!buildVars
<1>2. ArmTyped'
  BY <1>1 DEF ArmInv, ArmTyped, Arm!buildVars
<1>3. ArmBuild' /\ ArmTeardown'
  BY <1>1 DEF ArmBuild, ArmTeardown
<1> QED
  BY <1>2, <1>3 DEF ArmInv

LEMMA ArmStartTeardown == ArmInv /\ Arm!StartTeardown => ArmInv'
<1> SUFFICES ASSUME ArmInv, Arm!StartTeardown PROVE ArmInv'
  OBVIOUS
<1>1. /\ armPc = "idle" /\ armPc' = "delete"
      /\ UNCHANGED <<Arm!buildVars, azure, at, torn, refused>>
      /\ attempts' = 0 /\ failedIds' = {} /\ at = 1 /\ at' = 1 /\ torn \in {"none", "FAILURE"}
  BY DEF Arm!StartTeardown, ArmInv, ArmBuild
<1>2. ArmTyped' /\ ArmBuild'
  <2>1. azure' = azure \ {} /\ \A c \in ArmChildren : ArmParent[c] \in {} => c \in {}
    BY <1>1
  <2>2. refused' \in BOOLEAN /\ attempts' \in {0, 1} /\ torn' \in {"none", "FAILURE"}
    BY <1>1 DEF ArmInv, ArmTyped
  <2> QED
    BY <1>1, <2>1, <2>2, ArmBuildStays
<1>3. ArmTeardown'
  <2> SUFFICES ASSUME built' = "SUCCESS", armBlueprint' # "arm_gitlab"
               PROVE  /\ ids' \in Seq(ArmIds \cup {"deployment"}) /\ at' <= Len(ids') + 1
                      /\ VMsFirst(ids') /\ Arm!Range(ids') = (ArmIds \ ArmChildren)
                            \cup (IF armBlueprint' = "aks" THEN {} ELSE {"deployment"})
    BY <1>1 DEF ArmTeardown
  <2>1. /\ armBlueprint' = armBlueprint /\ armBlueprint # "arm_gitlab"
        /\ recordedIds \in Seq(ArmIds) /\ Arm!Range(recordedIds) = ArmIds
    BY <1>1 DEF ArmInv, ArmTyped, ArmBuild, Arm!buildVars
  <2>2. PICK g : g = Arm!Gathered
    OBVIOUS
  <2>3. g \in Seq(ArmIds) /\ VMsFirst(g) /\ Arm!Range(g) = ArmIds \ ArmChildren
    BY <2>1, <2>2, ArmGathered
  <2>4. ids' = IF armBlueprint = "aks" THEN g ELSE Append(g, "deployment")
    <3>1. armBlueprint \in Arm!Blueprints
      BY DEF ArmInv, ArmTyped
    <3> QED
      BY <2>1, <2>2, <3>1 DEF Arm!StartTeardown, Arm!Deployment, Arm!Blueprints
  <2>5. CASE armBlueprint = "aks"
    BY <1>1, <2>1, <2>3, <2>4, <2>5 DEF VMsFirst, Arm!Range
  <2>6. CASE armBlueprint # "aks"
    <3>1. PICK c : c = Append(g, "deployment")
      OBVIOUS
    <3>2. /\ c \in Seq(ArmIds \cup {"deployment"}) /\ DOMAIN c = 1 .. Len(g) + 1
          /\ DOMAIN g = 1 .. Len(g) /\ Len(g) \in Nat /\ Len(c) = Len(g) + 1
          /\ c[Len(g) + 1] = "deployment" /\ \A k \in DOMAIN g : c[k] = g[k]
      BY <2>3, <3>1
    <3>3. \A k \in DOMAIN c : k \in DOMAIN g \/ k = Len(g) + 1
      BY <3>2
    <3>4. VMsFirst(c)
      <4> SUFFICES ASSUME NEW i \in DOMAIN c, NEW j \in DOMAIN c, i < j, c[j] \in ArmVMs
                   PROVE  c[i] \in ArmVMs
        BY DEF VMsFirst
      <4>1. j \in DOMAIN g /\ i \in DOMAIN g
        BY <3>2, <3>3, ArmAssumption
      <4> QED
        BY <2>3, <3>2, <4>1 DEF VMsFirst
    <3>5. Arm!Range(c) = Arm!Range(g) \cup {"deployment"}
      <4>1. Len(g) + 1 \in DOMAIN c /\ DOMAIN g \subseteq DOMAIN c
        BY <3>2
      <4>2. Arm!Range(c) \subseteq Arm!Range(g) \cup {"deployment"}
        BY <3>2, <3>3 DEF Arm!Range
      <4>3. Arm!Range(g) \cup {"deployment"} \subseteq Arm!Range(c)
        BY <3>2, <4>1 DEF Arm!Range
      <4> QED
        BY <4>2, <4>3
    <3> QED
      BY <1>1, <2>1, <2>3, <2>4, <2>6, <3>1, <3>2, <3>4, <3>5 DEF VMsFirst, Arm!Range
  <2> QED
    BY <2>5, <2>6
<1> QED
  BY <1>2, <1>3 DEF ArmInv

\* The next id: it is gone then, or it has failed.
LEMMA ArmPasses ==
    ASSUME ArmInv, Arm!InLoop, at' = at + 1, NEW removed, azure' = azure \ removed,
           \A c \in ArmChildren : ArmParent[c] \in removed => c \in removed,
           failedIds \subseteq failedIds', ids[at] \in azure' => ids[at] \in failedIds',
           armBlueprint = "arm_gitlab" => failedIds' = {}, refused' \in BOOLEAN,
           UNCHANGED <<Arm!buildVars, armPc, torn, ids, attempts>>
    PROVE  ArmInv'
<1>1. armPc = "delete" /\ at <= Len(ids) /\ at \in Nat \ {0} /\ torn \in {"none", "FAILURE"}
  BY DEF Arm!InLoop, ArmInv, ArmTyped, ArmBuild
<1>2. ArmTyped' /\ ArmBuild'
  <2>1. /\ armPc \in {"idle", "delete"} /\ armPc' \in {"idle", "delete", "gone"}
        /\ at' \in Nat \ {0} /\ armPc' # "idle" /\ torn' \in {"none", "FAILURE"}
    BY <1>1
  <2>2. attempts' \in {0, 1}
    BY DEF ArmInv, ArmTyped
  <2> QED
    BY <2>1, <2>2, ArmBuildStays
<1>3. ArmTeardown'
  <2> SUFFICES ASSUME built' = "SUCCESS", armBlueprint' # "arm_gitlab"
               PROVE  /\ ids' \in Seq(ArmIds \cup {"deployment"}) /\ at' <= Len(ids') + 1
                      /\ VMsFirst(ids') /\ Arm!Range(ids') = (ArmIds \ ArmChildren)
                            \cup (IF armBlueprint' = "aks" THEN {} ELSE {"deployment"})
                      /\ \A j \in 1 .. at' - 1 : ids'[j] \in azure' => ids'[j] \in failedIds'
    BY <1>1 DEF ArmTeardown
  <2>1. /\ built = "SUCCESS" /\ armBlueprint' = armBlueprint /\ armBlueprint # "arm_gitlab"
        /\ ids \in Seq(ArmIds \cup {"deployment"}) /\ VMsFirst(ids)
        /\ Arm!Range(ids) = (ArmIds \ ArmChildren)
              \cup (IF armBlueprint = "aks" THEN {} ELSE {"deployment"})
        /\ \A j \in 1 .. at - 1 : ids[j] \in azure => ids[j] \in failedIds
    BY <1>1 DEF ArmInv, ArmTeardown, Arm!buildVars
  <2>2. Len(ids) \in Nat /\ at' <= Len(ids) + 1
    BY <1>1, <2>1
  <2>3. ASSUME NEW j \in 1 .. at' - 1, ids[j] \in azure'
        PROVE  ids[j] \in failedIds'
    <3>1. j = at \/ j \in 1 .. at - 1
      BY <1>1
    <3> QED
      BY <2>1, <2>3, <3>1
  <2> QED
    BY <2>1, <2>2, <2>3 DEF VMsFirst, Arm!Range
<1> QED
  BY <1>2, <1>3 DEF ArmInv

LEMMA ArmLoop ==
    ASSUME ArmInv, NEW fault \in BOOLEAN,
           Arm!AlreadyGone \/ Arm!DeleteId \/ Arm!DeleteFails(fault)
    PROVE  ArmInv'
<1>1. CASE Arm!AlreadyGone
  <2>1. PICK none : none = {}
    OBVIOUS
  <2>2. /\ azure' = azure \ none /\ \A c \in ArmChildren : ArmParent[c] \in none => c \in none
        /\ failedIds' = failedIds /\ ids[at] \notin azure' /\ refused' = refused
        /\ Arm!InLoop /\ at' = at + 1 /\ UNCHANGED <<Arm!buildVars, armPc, torn, ids, attempts>>
    BY <1>1, <2>1 DEF Arm!AlreadyGone, Arm!teardownVars
  <2>3. refused' \in BOOLEAN /\ (armBlueprint = "arm_gitlab" => failedIds' = {})
    BY <2>2 DEF ArmInv, ArmTyped
  <2>4. failedIds \subseteq failedIds' /\ (ids[at] \in azure' => ids[at] \in failedIds')
    BY <2>2
  <2> QED
    BY <2>2, <2>3, <2>4, ArmPasses
<1>2. CASE Arm!DeleteId
  <2>1. PICK removed : removed = Arm!Removed(ids[at])
    OBVIOUS
  <2>2. /\ azure' = azure \ removed /\ ids[at] \notin azure'
        /\ failedIds' = failedIds /\ refused' = refused
        /\ Arm!InLoop /\ at' = at + 1 /\ UNCHANGED <<Arm!buildVars, armPc, torn, ids, attempts>>
    BY <1>2, <2>1 DEF Arm!DeleteId, Arm!teardownVars, Arm!Removed
  <2>3. \A c \in ArmChildren : ArmParent[c] \in removed => c \in removed
    BY <2>1, ArmAssumption DEF Arm!Removed
  <2>4. refused' \in BOOLEAN /\ (armBlueprint = "arm_gitlab" => failedIds' = {})
    BY <2>2 DEF ArmInv, ArmTyped
  <2> QED
    BY <2>2, <2>3, <2>4, ArmPasses
<1>3. CASE Arm!DeleteFails(fault)
  <2>1. PICK removed :
           /\ azure' = azure \ removed
           /\ \A c \in ArmChildren : ArmParent[c] \in removed => c \in removed
    <3>1. PICK id : id = ids[at]
      OBVIOUS
    <3>2. Arm!MaybeDeleted(id) \/ UNCHANGED azure
      BY <1>3, <3>1 DEF Arm!DeleteFails
    <3> QED
      BY <3>2, ArmMaybeDeleted
  <2>2. /\ failedIds' = failedIds \cup {ids[at]} /\ refused' = (refused \/ fault)
        /\ armBlueprint # "arm_gitlab"
        /\ Arm!InLoop /\ at' = at + 1 /\ UNCHANGED <<Arm!buildVars, armPc, torn, ids, attempts>>
    BY <1>3 DEF Arm!DeleteFails
  <2>3. refused' \in BOOLEAN /\ (armBlueprint = "arm_gitlab" => failedIds' = {})
    BY <2>2 DEF ArmInv, ArmTyped
  <2>4. failedIds \subseteq failedIds' /\ (ids[at] \in azure' => ids[at] \in failedIds')
    BY <2>2
  <2> QED
    BY <2>1, <2>2, <2>3, <2>4, ArmPasses
<1> QED
  BY <1>1, <1>2, <1>3

LEMMA ArmNextPass == ArmInv /\ Arm!NextPass => ArmInv'
<1> SUFFICES ASSUME ArmInv, Arm!NextPass PROVE ArmInv'
  OBVIOUS
<1>1. /\ armPc = "delete" /\ attempts' = 1 /\ failedIds' = {} /\ at' = 1
      /\ UNCHANGED <<Arm!buildVars, azure, armPc, torn, ids, refused>>
  BY DEF Arm!NextPass
<1>2. ArmTyped' /\ ArmBuild'
  <2>1. /\ azure' = azure \ {} /\ \A c \in ArmChildren : ArmParent[c] \in {} => c \in {}
        /\ armPc \in {"idle", "delete"} /\ armPc' \in {"idle", "delete", "gone"}
        /\ at' \in Nat \ {0} /\ armPc' # "idle"
    BY <1>1
  <2>2. attempts' \in {0, 1} /\ refused' \in BOOLEAN /\ torn' \in {"none", "FAILURE"}
    BY <1>1 DEF ArmInv, ArmTyped, ArmBuild
  <2> QED
    BY <1>1, <2>1, <2>2, ArmBuildStays
<1>3. ArmTeardown'
  <2>1. \A s : s \in Seq(ArmIds \cup {"deployment"}) => 1 <= Len(s) + 1
    OBVIOUS
  <2> QED
    BY <1>1, <2>1 DEF ArmInv, ArmBuild, ArmTeardown, Arm!buildVars, VMsFirst, Arm!Range
<1> QED
  BY <1>2, <1>3 DEF ArmInv

\* When all ids are gone the template's children are gone, too.
LEMMA ArmAllGone ==
    ASSUME ArmInv, armPc = "delete", built = "SUCCESS", armBlueprint # "arm_gitlab",
           at > Len(ids), NEW S, \A j \in 1 .. at - 1 : ids[j] \in S => ids[j] \notin azure
    PROVE  \A id \in azure :
              /\ id \notin S \/ id \in ArmChildren \/ (armBlueprint = "aks" /\ id = "deployment")
              /\ id \in ArmChildren => ArmParent[id] \notin S
<1>1. /\ ids \in Seq(ArmIds \cup {"deployment"}) /\ at \in Nat \ {0}
      /\ Arm!Range(ids) = (ArmIds \ ArmChildren)
            \cup (IF armBlueprint = "aks" THEN {} ELSE {"deployment"})
      /\ azure \subseteq ArmIds \cup {"deployment"}
      /\ \A c \in ArmChildren \cap azure : ArmParent[c] \in azure
  BY DEF ArmInv, ArmTyped, ArmBuild, ArmTeardown
<1>2. ASSUME NEW id \in Arm!Range(ids) \cap S PROVE id \notin azure
  <2>1. PICK j \in DOMAIN ids : ids[j] = id
    BY DEF Arm!Range
  <2>2. j \in 1 .. at - 1
    BY <1>1
  <2> QED
    BY <2>1, <2>2
<1>3. \A c \in ArmChildren : ArmParent[c] \in Arm!Range(ids)
  BY <1>1, ArmAssumption
<1> QED
  BY <1>1, <1>2, <1>3

LEMMA ArmTeardownDone == ArmInv /\ Arm!TeardownDone => ArmInv'
<1> SUFFICES ASSUME ArmInv, Arm!TeardownDone PROVE ArmInv'
  OBVIOUS
<1>1. /\ armPc = "delete" /\ at > Len(ids) /\ armPc' = "gone" /\ at' = 1
      /\ torn' = (IF failedIds = {} THEN "SUCCESS" ELSE "WARNING")
      /\ UNCHANGED <<Arm!buildVars, azure, ids, attempts, failedIds, refused>>
  BY DEF Arm!TeardownDone
<1>2. ArmTyped' /\ ArmBuild'
  <2>1. /\ azure' = azure \ {} /\ \A c \in ArmChildren : ArmParent[c] \in {} => c \in {}
        /\ armPc \in {"idle", "delete"} /\ armPc' \in {"idle", "delete", "gone"}
        /\ at' \in Nat \ {0} /\ armPc' = "gone"
    BY <1>1
  <2>2. /\ attempts' \in {0, 1} /\ refused' \in BOOLEAN
        /\ armBlueprint = "arm_gitlab" => failedIds' = {}
    BY <1>1 DEF ArmInv, ArmTyped
  <2> QED
    BY <1>1, <2>1, <2>2, ArmBuildStays
<1>3. ASSUME built = "SUCCESS", armBlueprint # "arm_gitlab", failedIds = {}
      PROVE  azure \subseteq (IF armBlueprint = "aks" THEN {"deployment"} ELSE {})
  <2>1. \A j \in 1 .. at - 1 : ids[j] \in azure => ids[j] \notin azure
    BY <1>1, <1>3 DEF ArmInv, ArmTeardown
  <2> QED
    BY <1>1, <1>3, <2>1, ArmAllGone DEF ArmInv, ArmBuild
<1>4. ArmTeardown'
  <2>1. UNCHANGED <<armBlueprint, built>>
    BY <1>1 DEF Arm!buildVars
  <2> QED
    BY <1>1, <1>3, <2>1 DEF ArmTeardown
<1> QED
  BY <1>2, <1>4 DEF ArmInv

LEMMA ArmStep == ArmInv /\ Arm!Next => ArmInv'
<1> SUFFICES ASSUME ArmInv, Arm!Next PROVE ArmInv'
  OBVIOUS
<1>1. CASE Arm!OrderCluster \/ Arm!OrderGitLab
  BY <1>1, ArmStarts DEF Arm!OrderCluster, Arm!OrderGitLab, Arm!Blueprints
<1>2. ASSUME NEW n, Arm!OrderBuilder(n) PROVE ArmInv'
  BY <1>2, ArmStarts DEF Arm!OrderBuilder, Arm!Blueprints
<1>3. CASE Arm!UnknownApiVersion
  <2>1. armPc = "delete" /\ Arm!TeardownFails(FALSE) /\ UNCHANGED azure
    BY <1>3 DEF Arm!UnknownApiVersion, Arm!InLoop
  <2> QED
    BY <2>1, ArmTeardownFails
<1>4. ASSUME NEW fault \in BOOLEAN, Arm!GitLabDeleteFails(fault) PROVE ArmInv'
  <2>1. PICK id : id = ids[at]
    OBVIOUS
  <2>2. /\ armPc = "delete" /\ Arm!TeardownFails(fault)
        /\ Arm!MaybeDeleted(id) \/ UNCHANGED azure
    BY <1>4, <2>1 DEF Arm!GitLabDeleteFails, Arm!InLoop
  <2> QED
    BY <2>2, ArmTeardownFails
<1>7. CASE Arm!TeardownRaises
  <2>1. PICK id : id = ids[at]
    OBVIOUS
  <2>2. /\ armPc = "delete" /\ Arm!TeardownFails(FALSE)
        /\ Arm!MaybeDeleted(id) \/ UNCHANGED azure
    BY <1>7, <2>1 DEF Arm!TeardownRaises
  <2> QED
    BY <2>2, ArmTeardownFails
<1>5. CASE Arm!AlreadyGone \/ Arm!DeleteId
  BY <1>5, ArmLoop
<1>6. ASSUME NEW fault \in BOOLEAN, Arm!DeleteFails(fault) PROVE ArmInv'
  BY <1>6, ArmLoop
<1> QED
  BY <1>1, <1>2, <1>3, <1>4, <1>5, <1>6, <1>7, ArmDeploy, ArmDeployFails, ArmRecordOutput,
     ArmBuildEnds, ArmNothing, ArmStartTeardown, ArmNextPass, ArmTeardownDone DEF Arm!Next

\* A teardown of an AKS cluster or of an ARM Builder resource that reports success
\* has left nothing of what was created: for any template.
THEOREM TornDownCompletely == JobsSpec => []TeardownLeavesNothing
<1>1. JobsInit => ArmInv
  BY ArmInit DEF JobsInit
<1>2. ArmInv /\ [JobsNext]_jobsVars => ArmInv'
  BY ArmPart, ArmStep, ArmStutter
<1>3. ArmInv => TeardownLeavesNothing
  BY DEF ArmInv, ArmTeardown, TeardownLeavesNothing, Arm!TeardownLeavesNothing,
         Arm!Deployment
<1> QED
  BY <1>1, <1>2, <1>3, PTL DEF JobsSpec

\* As long as Azure refuses nothing for no reason, the first pass deletes what
\* only VMs use, and the second the rest.
ArmSecond == ArmFree(ArmVMs)
ArmTwoPasses ==
    built = "SUCCESS" /\ ~refused =>
        /\ torn # "WARNING"
        /\ armPc = "delete" /\ armBlueprint # "arm_gitlab" =>
              /\ attempts = 0 =>
                    \A j \in 1 .. at - 1 : ids[j] \in ArmSecond => ids[j] \notin azure
              /\ attempts = 1 => failedIds = {} /\ ArmSecond \cap azure = {}

\* What nothing uses that is left can be deleted.
LEMMA ArmDeletable ==
    ASSUME NEW S, NEW id \in ArmFree(S), S \cap azure = {},
           \A c \in ArmChildren \cap azure : ArmParent[c] \in azure
    PROVE  ~Arm!InUse(id)
<1> SUFFICES ASSUME NEW r \in azure \ Arm!Removed(id), r \in ArmIds, id \in ArmUses[r]
             PROVE  FALSE
  BY DEF Arm!InUse
<1>1. r # id /\ ~(r \in ArmChildren /\ ArmParent[r] = id)
  BY DEF Arm!Removed
<1>2. r \in S \cup {id} \/ (r \in ArmChildren /\ ArmParent[r] \in S \cup {id})
  BY DEF ArmFree
<1> QED
  BY <1>1, <1>2

LEMMA ArmVMsSecond == ArmVMs \subseteq ArmSecond /\ ArmSecond \subseteq ArmIds \ ArmChildren
BY ArmDepthAssumption DEF ArmFree, ArmSecond

\* Azure refuses no id for being in use, but in the first pass the networks.
LEMMA ArmFailsAlone ==
    ASSUME ArmInv, ArmTwoPasses, built = "SUCCESS", ~refused, Arm!DeleteFails(FALSE)
    PROVE  attempts = 0 /\ ids[at] \notin ArmSecond
<1>1. PICK id : id = ids[at]
  OBVIOUS
<1>2. /\ armPc = "delete" /\ armBlueprint # "arm_gitlab" /\ at <= Len(ids)
      /\ id \in azure /\ Arm!InUse(id)
  BY <1>1 DEF Arm!DeleteFails, Arm!InLoop
<1>3. /\ ids \in Seq(ArmIds \cup {"deployment"}) /\ VMsFirst(ids) /\ at \in Nat \ {0}
      /\ Arm!Range(ids) \subseteq (ArmIds \ ArmChildren) \cup {"deployment"}
      /\ ArmIds \ ArmChildren \subseteq Arm!Range(ids) /\ attempts \in {0, 1}
      /\ \A c \in ArmChildren \cap azure : ArmParent[c] \in azure
  BY <1>2 DEF ArmInv, ArmTyped, ArmBuild, ArmTeardown
<1>4. id \in ArmIds \ ArmChildren
  <2>1. id \in Arm!Range(ids)
    <3>1. at \in DOMAIN ids
      BY <1>2, <1>3
    <3> QED
      BY <1>1, <3>1 DEF Arm!Range
  <2>2. id # "deployment"
    <3> SUFFICES ASSUME id = "deployment" PROVE FALSE
      OBVIOUS
    <3>1. PICK r \in ArmIds : id \in ArmUses[r]
      BY <1>2 DEF Arm!InUse
    <3>2. ArmUses[r] \subseteq ArmIds
      BY <3>1, ArmAssumption
    <3> QED
      BY <3>1, <3>2, ArmAssumption
  <2> QED
    BY <1>3, <2>1, <2>2
<1>5. attempts = 0
  <2> SUFFICES ASSUME attempts = 1 PROVE FALSE
    BY <1>3
  <2>1. ArmSecond \cap azure = {}
    BY <1>2 DEF ArmTwoPasses
  <2>2. id \in ArmFree(ArmSecond)
    BY <1>4, ArmDepthAssumption DEF ArmSecond
  <2> QED
    BY <1>2, <1>3, <2>1, <2>2, ArmDeletable
<1>6. ASSUME id \in ArmSecond PROVE FALSE
  <2>1. CASE id \in ArmVMs
    <3>1. PICK none : none = {}
      OBVIOUS
    <3>2. id \in ArmFree(none) /\ none \cap azure = {}
      BY <2>1, <3>1, ArmDepthAssumption
    <3> QED
      BY <1>2, <1>3, <3>2, ArmDeletable
  <2>2. CASE id \notin ArmVMs
    <3>1. ASSUME NEW v \in ArmVMs PROVE v \notin azure
      <4>1. PICK k \in DOMAIN ids : ids[k] = v
        <5>1. v \in Arm!Range(ids)
          BY <1>3, ArmVMsSecond
        <5> QED
          BY <5>1 DEF Arm!Range
      <4>2. k < at
        <5>1. at \in DOMAIN ids /\ k \in Nat
          BY <1>2, <1>3
        <5>2. ~(at < k)
          BY <1>1, <1>3, <2>2, <4>1, <5>1 DEF VMsFirst
        <5>3. at # k
          BY <1>1, <2>2, <4>1
        <5> QED
          BY <1>3, <5>1, <5>2, <5>3
      <4>3. k \in 1 .. at - 1
        BY <1>3, <4>1, <4>2
      <4> QED
        BY <1>2, <1>5, <4>1, <4>3, ArmVMsSecond DEF ArmTwoPasses
    <3>2. id \in ArmFree(ArmVMs) /\ ArmVMs \cap azure = {}
      BY <1>6, <3>1 DEF ArmSecond
    <3> QED
      BY <1>2, <1>3, <3>2, ArmDeletable
  <2> QED
    BY <2>1, <2>2
<1> QED
  BY <1>1, <1>5, <1>6

LEMMA ArmTwoPassesStep == ArmInv /\ ArmTwoPasses /\ Arm!Next => ArmTwoPasses'
<1> SUFFICES ASSUME ArmInv, ArmTwoPasses, Arm!Next, built' = "SUCCESS", ~refused'
             PROVE  /\ torn' # "WARNING"
                    /\ armPc' = "delete" /\ armBlueprint' # "arm_gitlab" =>
                          /\ attempts' = 0 => \A j \in 1 .. at' - 1 :
                                ids'[j] \in ArmSecond => ids'[j] \notin azure'
                          /\ attempts' = 1 => failedIds' = {} /\ ArmSecond \cap azure' = {}
  BY DEF ArmTwoPasses
<1>1. /\ at \in Nat \ {0} /\ attempts \in {0, 1} /\ refused \in BOOLEAN
      /\ armBlueprint = "arm_gitlab" => failedIds = {}
  BY DEF ArmInv, ArmTyped
<1>2. CASE \/ Arm!OrderCluster \/ Arm!OrderGitLab \/ Arm!Deploy \/ Arm!DeployFails
           \/ Arm!RecordOutput \/ Arm!RecordFails \/ Arm!RecordGitLabOutput \/ Arm!BuildDone
           \/ \E n : Arm!OrderBuilder(n)
  <2>1. armPc' # "delete" /\ armPc \in {"new", "deploy", "record"} /\ torn' = torn
    BY <1>2 DEF Arm!OrderCluster, Arm!OrderGitLab, Arm!OrderBuilder, Arm!Starts, Arm!Deploy,
                Arm!DeployFails, Arm!RecordOutput, Arm!RecordFails, Arm!RecordGitLabOutput,
                Arm!BuildDone, Arm!teardownVars
  <2> QED
    BY <2>1 DEF ArmInv, ArmBuild
<1>3. CASE Arm!NothingToTearDown
  BY <1>3 DEF Arm!NothingToTearDown
<1>4. CASE Arm!StartTeardown
  <2>1. attempts' = 0 /\ at' = 1 /\ torn' # "WARNING"
    BY <1>4 DEF Arm!StartTeardown, ArmInv, ArmBuild
  <2> QED
    BY <2>1
<1>5. CASE \/ Arm!UnknownApiVersion \/ Arm!TeardownRaises
           \/ \E fault \in BOOLEAN : Arm!GitLabDeleteFails(fault)
  BY <1>5 DEF Arm!UnknownApiVersion, Arm!TeardownRaises, Arm!GitLabDeleteFails,
              Arm!TeardownFails
<1>6. CASE Arm!AlreadyGone \/ Arm!DeleteId
  <2>1. /\ armPc = "delete" /\ at' = at + 1 /\ ids[at] \notin azure' /\ azure' \subseteq azure
        /\ UNCHANGED <<built, armBlueprint, refused, torn, ids, attempts, failedIds>>
    BY <1>6 DEF Arm!AlreadyGone, Arm!DeleteId, Arm!InLoop, Arm!Removed, Arm!teardownVars,
                Arm!buildVars
  <2>2. \A j \in 1 .. at' - 1 : j = at \/ j \in 1 .. at - 1
    BY <1>1, <2>1
  <2> QED
    BY <2>1, <2>2 DEF ArmTwoPasses
<1>7. ASSUME NEW fault \in BOOLEAN, Arm!DeleteFails(fault)
      PROVE  /\ torn' # "WARNING" /\ attempts' = 0
             /\ \A j \in 1 .. at' - 1 : ids'[j] \in ArmSecond => ids'[j] \notin azure'
  <2>1. /\ armPc = "delete" /\ at' = at + 1 /\ armBlueprint # "arm_gitlab"
        /\ refused' = (refused \/ fault)
        /\ UNCHANGED <<built, torn, ids, attempts>>
    BY <1>7 DEF Arm!DeleteFails, Arm!InLoop, Arm!buildVars
  <2>2. fault = FALSE /\ ~refused /\ UNCHANGED azure
    BY <1>1, <1>7, <2>1 DEF Arm!DeleteFails
  <2>3. attempts = 0 /\ ids[at] \notin ArmSecond
    BY <1>7, <2>1, <2>2, ArmFailsAlone
  <2>4. \A j \in 1 .. at' - 1 : j = at \/ j \in 1 .. at - 1
    BY <1>1, <2>1
  <2> QED
    BY <2>1, <2>2, <2>3, <2>4 DEF ArmTwoPasses
<1>8. CASE Arm!NextPass
  <2>1. /\ armPc = "delete" /\ at > Len(ids) /\ failedIds # {} /\ attempts = 0
        /\ failedIds' = {} /\ attempts' = 1
        /\ UNCHANGED <<built, armBlueprint, azure, torn, ids, refused>>
    BY <1>8 DEF Arm!NextPass, Arm!buildVars
  <2>2. armBlueprint # "arm_gitlab" /\ torn # "WARNING"
    BY <1>1, <2>1 DEF ArmTwoPasses
  <2>3. \A j \in 1 .. at - 1 : ids[j] \in ArmSecond => ids[j] \notin azure
    BY <2>1, <2>2 DEF ArmTwoPasses
  <2>4. ArmSecond \cap azure = {}
    <3>1. \A id \in azure : \/ id \notin ArmSecond \/ id \in ArmChildren \/ id = "deployment"
      BY <2>1, <2>2, <2>3, ArmAllGone
    <3> QED
      BY <3>1, ArmVMsSecond, ArmAssumption
  <2> QED
    BY <2>1, <2>2, <2>4
<1>9. CASE Arm!TeardownDone
  <2>1. /\ armPc = "delete" /\ armPc' = "gone" /\ (failedIds = {} \/ attempts = 1)
        /\ torn' = (IF failedIds = {} THEN "SUCCESS" ELSE "WARNING")
        /\ UNCHANGED <<built, armBlueprint, refused>>
    BY <1>9 DEF Arm!TeardownDone, Arm!buildVars
  <2>2. failedIds = {}
    BY <1>1, <2>1 DEF ArmTwoPasses
  <2> QED
    BY <2>1, <2>2
<1> QED
  BY <1>2, <1>3, <1>4, <1>5, <1>6, <1>7, <1>8, <1>9 DEF Arm!Next

\* A teardown only ends with a warning if Azure failed a call: for any template
\* in which things use each other no deeper than that, in any order.
THEOREM TwoPassesAreEnough == JobsSpec => []TwoPassesSuffice
<1>1. JobsInit => ArmInv /\ ArmTwoPasses
  BY ArmInit DEF JobsInit, Arm!Init, ArmTwoPasses
<1>2. UNCHANGED armVars /\ ArmTwoPasses => ArmTwoPasses'
  BY DEF ArmTwoPasses, armVars
<1>3. ArmInv /\ ArmTwoPasses /\ [JobsNext]_jobsVars => (ArmInv /\ ArmTwoPasses)'
  BY <1>2, ArmPart, ArmStep, ArmTwoPassesStep, ArmStutter
<1>4. ArmTwoPasses => TwoPassesSuffice
  BY DEF ArmTwoPasses, TwoPassesSuffice, Arm!TwoPassesSuffice
<1> QED
  BY <1>1, <1>3, <1>4, PTL DEF JobsSpec

\* A selection of all items but one.
LEMMA SelectedButOne ==
    ASSUME NEW T, NEW s \in Seq(T), NEW S, NEW p \in DOMAIN s,
           \A k \in DOMAIN s : s[k] \in S <=> k # p
    PROVE  /\ Selected(s, S) \in Seq(T) /\ Len(Selected(s, S)) = Len(s) - 1
           /\ \A k \in 1 .. Len(s) - 1 : Selected(s, S)[k] = s[IF k < p THEN k ELSE k + 1]
<1> DEFINE f == CHOOSE f : SelectsUpTo(f, s, S, Len(s))
           m(n) == IF n < p THEN n ELSE n - 1
           Right(n) == /\ f[n] \in Seq(T) /\ Len(f[n]) = m(n)
                       /\ \A k \in 1 .. m(n) : f[n][k] = s[IF k < p THEN k ELSE k + 1]
<1>1. Len(s) \in Nat /\ DOMAIN s = 1 .. Len(s) /\ p \in 1 .. Len(s)
  OBVIOUS
<1>2. SelectsUpTo(f, s, S, Len(s))
  BY <1>1, SelectsExists
<1>3. Selected(s, S) = f[Len(s)]
  BY DEF Selected, SelectsUpTo
<1> HIDE DEF f
<1>4. f[0] = <<>>
  BY <1>1, <1>2 DEF SelectsUpTo
<1>5. \A n \in 1 .. Len(s) :
         f[n] = IF s[n] \in S THEN Append(f[n - 1], s[n]) ELSE f[n - 1]
  <2>1. \A n \in 0 .. Len(s) :
           f[n] = IF n = 0 THEN <<>>
                  ELSE IF s[n] \in S THEN Append(f[n - 1], s[n]) ELSE f[n - 1]
    <3> HIDE DEF Right
    <3> QED
      BY <1>2 DEF SelectsUpTo
  <2>2. \A n \in 1 .. Len(s) : n \in 0 .. Len(s) /\ n # 0
    BY <1>1
  <2> QED
    BY <2>1, <2>2
<1>6. \A n \in 0 .. Len(s) : Right(n)
  <2> DEFINE W == {n \in 0 .. Len(s) : ~Right(n)}
  <2> SUFFICES ASSUME W # {} PROVE FALSE
    OBVIOUS
  <2>1. PICK n \in W : \A j \in W : n <= j
    <3>1. W \in SUBSET Nat
      BY <1>1
    <3> HIDE DEF W
    <3> QED
      BY <3>1, Least
  <2>2. Right(0)
    <3>1. <<>> \in Seq(T) /\ Len(<<>>) = 0
      OBVIOUS
    <3>2. m(0) = 0
      BY <1>1
    <3> QED
      BY <1>4, <3>1, <3>2
  <2>3. n # 0 /\ n \in 1 .. Len(s) /\ n - 1 \in 0 .. Len(s) /\ n - 1 \notin W
    <3>1. n \in 0 .. Len(s)
      OBVIOUS
    <3>2. n # 0
      <4> HIDE DEF Right
      <4> QED
        BY <2>1, <2>2
    <3> HIDE DEF W
    <3> QED
      BY <1>1, <2>1, <3>1, <3>2
  <2>4. Right(n - 1)
    BY <2>3
  <2>5. s[n] \in T
    BY <2>3
  <2>6. PICK x : x = f[n - 1]
    OBVIOUS
  <2>7. /\ x \in Seq(T) /\ Len(x) = m(n - 1)
        /\ \A k \in 1 .. m(n - 1) : x[k] = s[IF k < p THEN k ELSE k + 1]
    BY <2>4, <2>6
  <2>8. CASE n = p
    <3>1. f[n] = x /\ m(n) = m(n - 1)
      BY <1>1, <1>5, <2>3, <2>6, <2>8
    <3>2. Right(n)
      BY <2>7, <3>1
    <3> QED
      BY <2>1, <3>2
  <2>9. CASE n # p
    <3>1. f[n] = Append(x, s[n])
      <4>1. s[n] \in S
        BY <1>1, <2>3, <2>9
      <4> HIDE DEF Right
      <4> QED
        BY <1>5, <2>3, <2>6, <4>1
    <3>2. m(n) = m(n - 1) + 1 /\ m(n) \in Nat /\ m(n - 1) \in Nat
             /\ (IF m(n) < p THEN m(n) ELSE m(n) + 1) = n
      BY <1>1, <2>3, <2>9
    <3> HIDE DEF m
    <3>3. /\ Append(x, s[n]) \in Seq(T) /\ Len(Append(x, s[n])) = m(n)
          /\ Append(x, s[n])[m(n)] = s[n]
          /\ \A k \in 1 .. m(n - 1) : Append(x, s[n])[k] = x[k]
      BY <2>5, <2>7, <3>2
    <3>4. \A k \in 1 .. m(n) : k = m(n) \/ k \in 1 .. m(n - 1)
      BY <3>2
    <3>5. \A k \in 1 .. m(n) : Append(x, s[n])[k] = s[IF k < p THEN k ELSE k + 1]
      BY <2>7, <3>2, <3>3, <3>4
    <3>6. Right(n)
      BY <3>1, <3>3, <3>5
    <3> QED
      BY <2>1, <3>6
  <2> QED
    BY <2>8, <2>9
<1>7. m(Len(s)) = Len(s) - 1
  <2>1. PICK n, q : n = Len(s) /\ q = p
    OBVIOUS
  <2>2. n \in Nat /\ q \in 1 .. n
    BY <1>1, <2>1
  <2>3. (IF n < q THEN n ELSE n - 1) = n - 1
    BY <2>2
  <2> QED
    BY <2>1, <2>3
<1>8. Right(Len(s))
  <2> HIDE DEF Right
  <2> QED
    BY <1>1, <1>6
<1> HIDE DEF m
<1> QED
  BY <1>3, <1>7, <1>8

-----------------------------------------------------------------------------
(* vRA migration. *)

VraItems(s) == {s[k] : k \in DOMAIN s}
VraGroup(d) == Vra!GroupOf(vraAttr[d].project)
VraPoints == {"idle", "list", "deployment", "record", "parts", "done", "failed"}

VraListTyped == /\ vraList \in Seq(VraDeployments)
                /\ \A i, j \in DOMAIN vraList : vraList[i] = vraList[j] => i = j

VraTyped ==
    /\ VraListTyped
    /\ vraAttr \in [VraDeployments -> Vra!Attributes]
    /\ groups \subseteq Vra!GroupNames
    /\ records \in [VraDeployments \X VraNames -> Vra!Record \cup {None}]
    /\ partOf \in [DOMAIN VraKind -> Vra!PartRecord \cup {None}]
    /\ migMode \in {"resources", "servers"} /\ groupsMap \in VraMaps
    /\ migPc \in VraPoints
    /\ skip \in Nat /\ listed \in Seq(VraDeployments) /\ todo \in Seq(DOMAIN VraKind)
    /\ changed \subseteq VraDeployments /\ changes \in 0 .. VraChangesMax
    /\ loaded \in Vra!Attributes \cup {None}

\* Between runs nothing is listed.  While a deployment is migrated it is the
\* first of those listed, and its resource is there before its parts are.
VraPlaced ==
    /\ migPc \in {"idle", "done", "failed"} => skip = 0 /\ listed = <<>>
    /\ migPc \in {"record", "parts"} => listed # <<>> /\ loaded \in Vra!Attributes
    /\ migPc = "record" => migMode = "resources" /\ todo = VraParts[Head(listed)]
    /\ migPc = "parts" => VraItems(todo) \subseteq VraItems(VraParts[Head(listed)])
    /\ migPc = "parts" /\ migMode = "resources" =>
          records[<<Head(listed), loaded.name>>] # None

\* The record of a resource, a server or a part says what vRA says.
VraAgrees(r, d) == r # None /\ r.owner = vraAttr[d].owner /\ r.group = VraGroup(d)

VraPartDone(d, p) ==
    /\ migMode = "resources" /\ VraKind[p] # "skipped" =>
          VraAgrees(partOf[p], d) /\ partOf[p].parent = <<d, vraAttr[d].name>>
    /\ migMode = "servers" /\ VraKind[p] = "server" => VraAgrees(partOf[p], d)

VraHasGroup(d) == migMode = "resources" => VraGroup(d) # None
VraRecorded(d) == migMode = "resources" => VraAgrees(records[<<d, vraAttr[d].name>>], d)

VraMigrated(d) ==
    VraHasGroup(d) =>
        VraRecorded(d) /\ \A k \in DOMAIN VraParts[d] : VraPartDone(d, VraParts[d][k])

\* A deployment that has not changed is still to be listed, is listed, or done.
VraToCome ==
    \A j \in DOMAIN vraList : vraList[j] \notin changed =>
        /\ migPc = "list" => j > skip \/ vraList[j] \in VraItems(listed)
        /\ migPc \in {"deployment", "record", "parts"} =>
              vraList[j] \in VraItems(listed) \/ VraMigrated(vraList[j])
        /\ migPc = "done" => VraMigrated(vraList[j])

\* If the deployment being migrated has not changed, what is loaded of it is
\* what vRA says, and its parts are still to be migrated or done.
VraHalfDone(d) ==
    /\ loaded = vraAttr[d]
    /\ migPc = "parts" =>
          /\ VraHasGroup(d) /\ VraRecorded(d)
          /\ \A k \in DOMAIN VraParts[d] :
                VraParts[d][k] \in VraItems(todo) \/ VraPartDone(d, VraParts[d][k])

VraInHand == migPc \in {"record", "parts"} /\ Head(listed) \notin changed =>
                 VraHalfDone(Head(listed))

VraInv == VraTyped /\ VraPlaced /\ VraToCome /\ VraInHand

LEMMA VraGroupNamed ==
    ASSUME NEW p, groups \subseteq Vra!GroupNames
    PROVE  Vra!GroupOf(p) \in Vra!GroupNames \cup {None}
BY DEF Vra!GroupOf

LEMMA VraRecordsAreNotNone ==
    /\ \A r \in Vra!Record : r # None
    /\ \A r \in Vra!PartRecord : r # None
<1>1. Vra!GroupNames \cup {None} =
         {None} \cup VraProjects \cup UNION {{m[p] : p \in DOMAIN m} : m \in VraMaps}
  BY DEF Vra!GroupNames
<1> QED
  BY <1>1, VraAssumption DEF Vra!Record, Vra!PartRecord

LEMMA VraInit == Vra!Init => VraInv
<1> SUFFICES ASSUME Vra!Init PROVE VraInv
  OBVIOUS
<1> USE DEF Vra!Init
<1>1. VraTyped
  <2>1. (CHOOSE a \in Vra!Attributes : TRUE) \in Vra!Attributes
    <3>1. PICK n \in VraNames, o \in VraOwners, p \in VraProjects : TRUE
      BY VraAssumption
    <3>2. [name |-> n, owner |-> o, project |-> p] \in Vra!Attributes
      BY DEF Vra!Attributes
    <3> HIDE DEF Vra!Init
    <3> QED
      BY <3>2
  <2>2. (CHOOSE m \in VraMaps : TRUE) \in VraMaps
    BY VraAssumption
  <2>3. vraAttr \in [VraDeployments -> Vra!Attributes]
    BY <2>1
  <2>4. VraListTyped
    BY VraAssumption DEF VraListTyped
  <2>5. partOf \in [DOMAIN VraKind -> Vra!PartRecord \cup {None}]
    BY DEF Vra!AllParts
  <2> QED
    BY <2>2, <2>3, <2>4, <2>5, VraAssumption DEF VraTyped, VraPoints
<1>2. VraPlaced /\ VraToCome /\ VraInHand
  BY DEF VraPlaced, VraToCome, VraInHand
<1> QED
  BY <1>1, <1>2 DEF VraInv

\* What is migrated stays so while vRA and CloudBolt say the same of it.
LEMMA VraKept ==
    ASSUME NEW d \in VraDeployments, VraMigrated(d), migMode' = migMode,
           vraAttr'[d] = vraAttr[d], VraGroup(d)' = VraGroup(d),
           records'[<<d, vraAttr[d].name>>] = records[<<d, vraAttr[d].name>>],
           \A k \in DOMAIN VraParts[d] : partOf'[VraParts[d][k]] = partOf[VraParts[d][k]]
    PROVE  VraMigrated(d)'
BY DEF VraMigrated, VraHasGroup, VraRecorded, VraPartDone, VraAgrees

LEMMA VraHalfKept ==
    ASSUME NEW d \in VraDeployments, VraHalfDone(d), UNCHANGED <<migMode, records, partOf>>,
           UNCHANGED <<migPc, loaded, todo>>,
           vraAttr'[d] = vraAttr[d], VraGroup(d)' = VraGroup(d)
    PROVE  VraHalfDone(d)'
BY DEF VraHalfDone, VraItems, VraHasGroup, VraRecorded, VraPartDone, VraAgrees

\* vRA and its users leave the script's own state alone, and what they change
\* is noted.
LEMMA VraOutside ==
    ASSUME VraInv, VraTyped', changed \subseteq changed',
           UNCHANGED <<records, partOf, migMode, groupsMap, migPc, skip, listed, loaded, todo>>,
           \A d \in VraDeployments \ changed' :
              vraAttr'[d] = vraAttr[d] /\ VraGroup(d)' = VraGroup(d),
           \A j \in DOMAIN vraList' : vraList'[j] \notin changed' =>
              \E i \in DOMAIN vraList : /\ vraList[i] = vraList'[j]
                                        /\ migPc = "list" /\ i > skip => j > skip
    PROVE  VraInv'
<1> USE DEF VraInv
<1>1. VraPlaced'
  BY DEF VraPlaced, VraItems
<1>2. VraToCome'
  <2> SUFFICES ASSUME NEW j \in DOMAIN vraList', vraList'[j] \notin changed'
               PROVE  /\ migPc' = "list" => j > skip' \/ vraList'[j] \in VraItems(listed)'
                      /\ migPc' \in {"deployment", "record", "parts"} =>
                            vraList'[j] \in VraItems(listed)' \/ VraMigrated(vraList[j])'
                      /\ migPc' = "done" => VraMigrated(vraList[j])'
    BY DEF VraToCome
  <2>1. PICK i \in DOMAIN vraList : /\ vraList[i] = vraList'[j]
                                    /\ migPc = "list" /\ i > skip => j > skip
    OBVIOUS
  <2>2. PICK d : d = vraList'[j]
    OBVIOUS
  <2>3. d \in VraDeployments \ changed' /\ d \notin changed
    BY <2>1, <2>2 DEF VraTyped, VraListTyped
  <2>4. /\ migPc = "list" => i > skip \/ d \in VraItems(listed)
        /\ migPc \in {"deployment", "record", "parts"} =>
              d \in VraItems(listed) \/ VraMigrated(d)
        /\ migPc = "done" => VraMigrated(d)
    BY <2>1, <2>2, <2>3 DEF VraToCome
  <2>5. VraMigrated(d) => VraMigrated(d)'
    BY <2>3, VraKept
  <2>6. VraItems(listed)' = VraItems(listed)
    BY DEF VraItems
  <2>7. VraMigrated(vraList[j])' <=> VraMigrated(d)'
    BY <2>2
  <2> QED
    BY <2>1, <2>2, <2>4, <2>5, <2>6, <2>7
<1>3. VraInHand'
  <2> SUFFICES ASSUME migPc' \in {"record", "parts"}, Head(listed') \notin changed'
               PROVE  VraHalfDone(Head(listed))'
    BY DEF VraInHand
  <2>1. PICK d : d = Head(listed)
    OBVIOUS
  <2>2. d \in VraDeployments
    BY <2>1 DEF VraTyped, VraPlaced
  <2>3. d \notin changed /\ d \notin changed'
    BY <2>1
  <2>4. VraHalfDone(d)
    BY <2>1, <2>3 DEF VraInHand
  <2>5. VraHalfDone(d)'
    BY <2>2, <2>3, <2>4, VraHalfKept
  <2>6. d = Head(listed')
    BY <2>1
  <2> QED
    BY <2>5, <2>6
<1> QED
  BY <1>1, <1>2, <1>3

LEMMA VraCreates ==
    ASSUME VraInv, NEW d \in VraDeployments, Vra!CreateDeployment(d)
    PROVE  VraInv'
<1> USE DEF VraInv, Vra!CreateDeployment, Vra!Change
<1>1. VraListTyped'
  <2>1. \A i \in DOMAIN vraList : vraList[i] # d
    BY DEF Vra!Alive
  <2>2. /\ vraList' \in Seq(VraDeployments) /\ Len(vraList') = Len(vraList) + 1
        /\ \A k \in 1 .. Len(vraList) : vraList'[k] = vraList[k]
        /\ vraList'[Len(vraList) + 1] = d
    BY DEF VraTyped, VraListTyped
  <2> QED
    BY <2>1, <2>2 DEF VraTyped, VraListTyped
<1>2. VraTyped'
  <2>1. vraAttr' \in [VraDeployments -> Vra!Attributes]
    BY DEF VraTyped
  <2>2. changes' \in 0 .. VraChangesMax
    BY VraAssumption DEF VraTyped
  <2> QED
    BY <1>1, <2>1, <2>2 DEF VraTyped
<1>3. \A e \in VraDeployments \ changed' :
         vraAttr'[e] = vraAttr[e] /\ VraGroup(e)' = VraGroup(e)
  BY DEF VraTyped, VraGroup, Vra!GroupOf, Vra!Wanted
<1>4. \A j \in DOMAIN vraList' : vraList'[j] \notin changed' =>
         \E i \in DOMAIN vraList : /\ vraList[i] = vraList'[j]
                                   /\ migPc = "list" /\ i > skip => j > skip
  BY DEF VraTyped, VraListTyped
<1> QED
  BY <1>2, <1>3, <1>4, VraOutside

LEMMA VraUpdates ==
    ASSUME VraInv, NEW d \in VraDeployments, Vra!UpdateDeployment(d)
    PROVE  VraInv'
<1> USE DEF VraInv, Vra!UpdateDeployment, Vra!Change
<1>1. VraTyped'
  <2>1. vraAttr' \in [VraDeployments -> Vra!Attributes]
    BY DEF VraTyped
  <2>2. changes' \in 0 .. VraChangesMax
    BY VraAssumption DEF VraTyped
  <2> QED
    BY <2>1, <2>2 DEF VraTyped, VraListTyped
<1>2. \A e \in VraDeployments \ changed' :
         vraAttr'[e] = vraAttr[e] /\ VraGroup(e)' = VraGroup(e)
  BY DEF VraTyped, VraGroup, Vra!GroupOf, Vra!Wanted
<1>3. \A j \in DOMAIN vraList' : vraList'[j] \notin changed' =>
         \E i \in DOMAIN vraList : /\ vraList[i] = vraList'[j]
                                   /\ migPc = "list" /\ i > skip => j > skip
  OBVIOUS
<1> QED
  BY <1>1, <1>2, <1>3, VraOutside

LEMMA VraDeletes ==
    ASSUME VraInv, NEW d \in VraDeployments, Vra!DeleteDeployment(d)
    PROVE  VraInv'
<1> USE DEF VraInv, Vra!DeleteDeployment, Vra!Change
<1> DEFINE gone == CHOOSE i \in DOMAIN vraList : vraList[i] = d
<1>1. PICK p \in DOMAIN vraList : p = gone /\ vraList[p] = d
  BY DEF Vra!Alive
<1>2. vraList \in Seq(VraDeployments) /\ p \in 1 .. Len(vraList) /\ Len(vraList) \in Nat
  BY DEF VraTyped, VraListTyped
<1>3. \A k \in DOMAIN vraList : vraList[k] \in VraDeployments \ {d} <=> k # p
  BY <1>1, <1>2 DEF VraTyped, VraListTyped
<1>4. /\ vraList' \in Seq(VraDeployments) /\ Len(vraList') = Len(vraList) - 1
      /\ \A k \in 1 .. Len(vraList) - 1 : vraList'[k] = vraList[IF k < p THEN k ELSE k + 1]
  <2>1. PICK s, S : s = vraList /\ S = VraDeployments \ {d}
    OBVIOUS
  <2>2. vraList' = Selected(s, S)
    BY <2>1 DEF Vra!Selected, Selected
  <2>3. s \in Seq(VraDeployments) /\ p \in DOMAIN s
    BY <1>2, <2>1
  <2>4. \A k \in DOMAIN s : s[k] \in S <=> k # p
    BY <1>3, <2>1
  <2>5. /\ Selected(s, S) \in Seq(VraDeployments) /\ Len(Selected(s, S)) = Len(s) - 1
        /\ \A k \in 1 .. Len(s) - 1 : Selected(s, S)[k] = s[IF k < p THEN k ELSE k + 1]
    BY ONLY <2>3, <2>4, SelectedButOne
  <2> HIDE DEF Vra!DeleteDeployment
  <2> QED
    BY <2>1, <2>2, <2>5
<1>5. changed' = changed \cup {d} \cup
         {vraList[i] : i \in {k \in DOMAIN vraList : migPc = "list" /\ p <= skip /\ k = skip + 1}}
  BY <1>1
<1>6. UNCHANGED <<vraAttr, groups, records, partOf, migMode, groupsMap, migPc, skip, listed,
                  loaded, todo>>
  OBVIOUS
<1>7. changes' \in 0 .. VraChangesMax
  BY VraAssumption DEF VraTyped
<1> HIDE DEF Vra!DeleteDeployment
<1>8. ASSUME NEW j \in DOMAIN vraList'
      PROVE  LET i == IF j < p THEN j ELSE j + 1
             IN  i \in DOMAIN vraList /\ vraList'[j] = vraList[i]
  BY <1>2, <1>4
<1>9. VraListTyped'
  <2> SUFFICES ASSUME NEW i \in DOMAIN vraList', NEW j \in DOMAIN vraList',
                      vraList'[i] = vraList'[j]
               PROVE  i = j
    BY <1>4 DEF VraListTyped
  <2>1. (IF i < p THEN i ELSE i + 1) = (IF j < p THEN j ELSE j + 1)
    BY <1>8 DEF VraTyped, VraListTyped
  <2>2. i \in Nat /\ j \in Nat /\ p \in Nat
    BY <1>2, <1>4
  <2> QED
    BY <2>1, <2>2
<1>10. VraTyped'
  <2>1. changed' \subseteq VraDeployments
    BY <1>2, <1>5 DEF VraTyped
  <2> QED
    BY <1>6, <1>7, <1>9, <2>1 DEF VraTyped
<1>11. \A e \in VraDeployments \ changed' :
         vraAttr'[e] = vraAttr[e] /\ VraGroup(e)' = VraGroup(e)
  BY <1>6 DEF VraGroup, Vra!GroupOf, Vra!Wanted
<1>12. ASSUME NEW j \in DOMAIN vraList', vraList'[j] \notin changed'
       PROVE  \E i \in DOMAIN vraList : /\ vraList[i] = vraList'[j]
                                        /\ migPc = "list" /\ i > skip => j > skip
  <2>1. PICK i : i = IF j < p THEN j ELSE j + 1
    OBVIOUS
  <2>2. i \in DOMAIN vraList /\ vraList'[j] = vraList[i]
    BY <1>8, <2>1
  <2>3. i \in Nat /\ j \in Nat /\ p \in Nat /\ skip \in Nat
    BY <1>2, <1>4, <2>2 DEF VraTyped
  <2>4. ~(migPc = "list" /\ p <= skip /\ i = skip + 1)
    BY <1>5, <1>12, <2>2
  <2>5. migPc = "list" /\ i > skip => j > skip
    BY <2>1, <2>3, <2>4
  <2> QED
    BY <2>2, <2>5
<1>13. changed \subseteq changed'
  BY <1>5
<1> QED
  BY <1>6, <1>10, <1>11, <1>12, <1>13, VraOutside

LEMMA VraMigratesProject ==
    ASSUME VraInv, NEW p \in VraProjects, Vra!MigrateProject(p)
    PROVE  VraInv'
<1> USE DEF VraInv, Vra!MigrateProject
<1>1. VraTyped'
  <2>1. groups' \subseteq Vra!GroupNames
    BY DEF VraTyped, Vra!GroupNames
  <2> QED
    BY <2>1 DEF VraTyped, VraListTyped
<1>2. \A e \in VraDeployments \ changed' :
         vraAttr'[e] = vraAttr[e] /\ VraGroup(e)' = VraGroup(e)
  BY DEF VraGroup, Vra!GroupOf, Vra!Wanted
<1>3. \A j \in DOMAIN vraList' : vraList'[j] \notin changed' =>
         \E i \in DOMAIN vraList : /\ vraList[i] = vraList'[j]
                                   /\ migPc = "list" /\ i > skip => j > skip
  OBVIOUS
<1> QED
  BY <1>1, <1>2, <1>3, VraOutside

LEMMA VraBegins ==
    ASSUME VraInv, Vra!Begin
    PROVE  VraInv'
<1> USE DEF VraInv, Vra!Begin
<1>1. VraTyped'
  BY DEF VraTyped, VraListTyped, VraPoints
<1>2. skip = 0 /\ \A j \in DOMAIN vraList : j > 0
  BY DEF VraPlaced, VraTyped, VraListTyped
<1>3. VraPlaced' /\ VraInHand'
  BY DEF VraPlaced, VraInHand
<1>4. VraToCome'
  <2>1. \A j \in DOMAIN vraList' : j > skip'
    BY <1>2
  <2> QED
    BY <2>1 DEF VraToCome
<1> QED
  BY <1>1, <1>3, <1>4

LEMMA VraPageRead ==
    ASSUME VraTyped
    PROVE  /\ Vra!Page \in Seq(VraDeployments)
           /\ \A j \in DOMAIN vraList : j > skip /\ j <= skip + VraPageSize =>
                 vraList[j] \in VraItems(Vra!Page)
<1> DEFINE n == Vra!Least(VraPageSize, Len(vraList) - skip)
<1>1. vraList \in Seq(VraDeployments) /\ Len(vraList) \in Nat /\ skip \in Nat
         /\ VraPageSize \in Nat
  BY VraAssumption DEF VraTyped, VraListTyped
<1>2. n \in Int /\ n <= Len(vraList) - skip
         /\ (n = VraPageSize \/ n = Len(vraList) - skip)
  BY <1>1 DEF Vra!Least
<1> HIDE DEF n
<1>3. Vra!Page = [i \in 1 .. n |-> vraList[skip + i]]
  BY DEF Vra!Page, n
<1>4. \A i \in 1 .. n : skip + i \in DOMAIN vraList /\ vraList[skip + i] \in VraDeployments
  BY <1>1, <1>2
<1>5. Vra!Page \in Seq(VraDeployments)
  <2>1. PICK m \in Nat : 1 .. n = 1 .. m
    <3>1. CASE n >= 0
      BY <1>2, <3>1
    <3>2. CASE n < 0
      <4>1. 1 .. n = 1 .. 0
        BY <1>2, <3>2
      <4> QED
        BY <4>1
    <3> QED
      BY <1>2, <3>1, <3>2
  <2>2. Vra!Page \in [1 .. m -> VraDeployments]
    BY <1>3, <1>4, <2>1
  <2> QED
    BY <2>2, SeqDef
<1>6. ASSUME NEW j \in DOMAIN vraList, j > skip, j <= skip + VraPageSize
      PROVE  vraList[j] \in VraItems(Vra!Page)
  <2>1. j - skip \in 1 .. n /\ skip + (j - skip) = j
    BY <1>1, <1>2, <1>6
  <2>2. Vra!Page[j - skip] = vraList[j] /\ j - skip \in DOMAIN Vra!Page
    BY <1>3, <2>1
  <2> QED
    BY <2>2 DEF VraItems
<1> QED
  BY <1>5, <1>6

LEMMA VraListsPage ==
    ASSUME VraInv, Vra!ListPage
    PROVE  VraInv'
<1> USE DEF VraInv, Vra!ListPage, Vra!vra
<1>1. PICK read : read = Vra!Page
  OBVIOUS
<1>2. /\ read \in Seq(VraDeployments) /\ listed \in Seq(VraDeployments)
      /\ \A j \in DOMAIN vraList : j > skip /\ j <= skip + VraPageSize =>
            vraList[j] \in VraItems(read)
  BY <1>1, VraPageRead DEF VraTyped
<1>3. listed' = listed \o read
  BY <1>1
<1>4. listed' \in Seq(VraDeployments)
  BY <1>2, <1>3, ConcatProperties
<1>5. VraItems(listed) \subseteq VraItems(listed') /\ VraItems(read) \subseteq VraItems(listed')
  <2>1. /\ Len(listed') = Len(listed) + Len(read) /\ Len(listed) \in Nat /\ Len(read) \in Nat
        /\ \A k \in 1 .. Len(listed) + Len(read) :
              listed'[k] = IF k <= Len(listed) THEN listed[k] ELSE read[k - Len(listed)]
    BY <1>2, <1>3, ConcatProperties
  <2>2. \A k \in DOMAIN listed : k \in DOMAIN listed' /\ listed'[k] = listed[k]
    BY <1>2, <1>4, <2>1
  <2>3. ASSUME NEW k \in DOMAIN read
        PROVE  k + Len(listed) \in DOMAIN listed' /\ listed'[k + Len(listed)] = read[k]
    <3>1. k + Len(listed) \in 1 .. Len(listed) + Len(read)
             /\ ~(k + Len(listed) <= Len(listed)) /\ k + Len(listed) - Len(listed) = k
      BY <1>2, <2>1
    <3> QED
      BY <1>4, <2>1, <3>1
  <2>4. VraItems(listed) \subseteq VraItems(listed')
    BY <2>2 DEF VraItems
  <2>5. VraItems(read) \subseteq VraItems(listed')
    BY <2>3 DEF VraItems
  <2> QED
    BY <2>4, <2>5
<1>6. VraTyped'
  BY <1>4, VraAssumption DEF VraTyped, VraListTyped, VraPoints
<1>7. VraPlaced' /\ VraInHand'
  BY DEF VraPlaced, VraInHand
<1>8. ASSUME NEW j \in DOMAIN vraList, vraList[j] \notin changed
      PROVE  IF migPc' = "list" THEN j > skip' \/ vraList[j] \in VraItems(listed')
             ELSE vraList[j] \in VraItems(listed')
  <2>1. j > skip \/ vraList[j] \in VraItems(listed)
    BY <1>8 DEF VraToCome
  <2>2. j \in 1 .. Len(vraList) /\ Len(vraList) \in Nat /\ skip \in Nat /\ VraPageSize \in Nat
    BY VraAssumption DEF VraTyped, VraListTyped
  <2>3. j > skip + VraPageSize \/ vraList[j] \in VraItems(listed')
    BY <1>2, <1>5, <2>1, <2>2
  <2>4. migPc' # "list" => vraList[j] \in VraItems(listed')
    BY <1>5, <2>1, <2>2
  <2> QED
    BY <2>3, <2>4
<1>9. VraToCome'
  <2>1. migPc' \in {"list", "deployment"}
    OBVIOUS
  <2>2. VraItems(listed)' = VraItems(listed')
    BY DEF VraItems
  <2>3. vraList' = vraList /\ changed' = changed
    OBVIOUS
  <2> HIDE DEF Vra!ListPage, VraInv
  <2> QED
    BY <1>8, <2>1, <2>2, <2>3 DEF VraToCome
<1> QED
  BY <1>6, <1>7, <1>9

LEMMA VraTailItems ==
    ASSUME NEW T, NEW s \in Seq(T), s # <<>>
    PROVE  /\ Head(s) \in T /\ Tail(s) \in Seq(T) /\ Head(s) \in VraItems(s)
           /\ VraItems(s) = {Head(s)} \cup VraItems(Tail(s))
<1>1. Head(s) \in T /\ Tail(s) \in Seq(T) /\ Head(s) = s[1] /\ 1 \in DOMAIN s
  OBVIOUS
<1>2. /\ Len(s) \in Nat /\ Len(Tail(s)) = Len(s) - 1
      /\ \A k \in 1 .. Len(s) - 1 : Tail(s)[k] = s[k + 1]
  OBVIOUS
<1>3. \A k \in DOMAIN s : k = 1 \/ (k - 1 \in DOMAIN Tail(s) /\ Tail(s)[k - 1] = s[k])
  <2> SUFFICES ASSUME NEW k \in DOMAIN s, k # 1
               PROVE  k - 1 \in DOMAIN Tail(s) /\ Tail(s)[k - 1] = s[k]
    OBVIOUS
  <2>1. k - 1 \in 1 .. Len(s) - 1 /\ k - 1 + 1 = k
    BY <1>2
  <2> QED
    BY <1>1, <1>2, <2>1
<1>4. \A k \in DOMAIN Tail(s) : k + 1 \in DOMAIN s /\ Tail(s)[k] = s[k + 1]
  BY <1>1, <1>2
<1>5. VraItems(s) \subseteq {Head(s)} \cup VraItems(Tail(s))
  BY <1>1, <1>3 DEF VraItems
<1>6. {Head(s)} \cup VraItems(Tail(s)) \subseteq VraItems(s)
  BY <1>1, <1>4 DEF VraItems
<1> QED
  BY <1>1, <1>5, <1>6

LEMMA VraNoItems == ASSUME NEW s, s = <<>> PROVE VraItems(s) = {}
BY DEF VraItems

\* A step of the ingest that leaves what is done, and what it takes off the
\* list is done.
LEMMA VraStillToCome ==
    ASSUME VraInv, UNCHANGED <<vraList, vraAttr, changed, groups, migMode, groupsMap>>,
           migPc \in {"deployment", "record", "parts"},
           migPc' \in {"deployment", "record", "parts", "done"},
           migPc' = "done" => listed' = <<>>,
           \A d \in VraDeployments \ changed :
              d \in VraItems(listed) => d \in VraItems(listed') \/ VraMigrated(d)',
           \A d \in VraDeployments : d \notin VraItems(listed) =>
              /\ records'[<<d, vraAttr[d].name>>] = records[<<d, vraAttr[d].name>>]
              /\ \A k \in DOMAIN VraParts[d] : partOf'[VraParts[d][k]] = partOf[VraParts[d][k]]
    PROVE  VraToCome'
<1> SUFFICES ASSUME NEW j \in DOMAIN vraList', vraList'[j] \notin changed'
             PROVE  /\ migPc' \in {"deployment", "record", "parts"} =>
                          vraList'[j] \in VraItems(listed)' \/ VraMigrated(vraList[j])'
                    /\ migPc' = "done" => VraMigrated(vraList[j])'
  BY DEF VraToCome
<1>1. PICK d : d = vraList[j]
  OBVIOUS
<1>2. d \in VraDeployments \ changed
  BY <1>1 DEF VraInv, VraTyped, VraListTyped
<1>3. d \in VraItems(listed) \/ VraMigrated(d)
  BY <1>1, <1>2 DEF VraInv, VraToCome
<1>4. VraGroup(d)' = VraGroup(d)
  BY DEF VraGroup, Vra!GroupOf, Vra!Wanted
<1>5. d \notin VraItems(listed) => VraMigrated(d)'
  BY <1>2, <1>3, <1>4, VraKept
<1>6. d \in VraItems(listed') \/ VraMigrated(d)'
  BY <1>2, <1>5
<1>7. VraItems(listed)' = VraItems(listed') /\ (VraMigrated(vraList[j])' <=> VraMigrated(d)')
  BY <1>1 DEF VraItems
<1>8. migPc' = "done" => d \notin VraItems(listed')
  BY VraNoItems
<1> QED
  BY <1>1, <1>6, <1>7, <1>8

LEMMA VraLoads ==
    ASSUME VraInv, Vra!LoadDeployment
    PROVE  VraInv'
<1> USE DEF VraInv, Vra!LoadDeployment, Vra!vra
<1>1. PICK d : d = Head(listed)
  OBVIOUS
<1>2. d \in VraDeployments /\ loaded' = vraAttr[d] /\ todo' = VraParts[d]
  BY <1>1 DEF VraTyped
<1>3. VraTyped'
  <2>1. loaded' \in Vra!Attributes /\ todo' \in Seq(DOMAIN VraKind)
    BY <1>2, VraAssumption DEF VraTyped
  <2> QED
    BY <2>1 DEF VraTyped, VraListTyped, VraPoints
<1>4. VraPlaced'
  <2>1. VraItems(todo)' = VraItems(VraParts[d])
    BY <1>2 DEF VraItems
  <2> QED
    BY <1>1, <1>2, <2>1 DEF VraPlaced, VraTyped
<1>5. VraToCome'
  BY VraStillToCome
<1>6. VraInHand'
  <2>1. VraItems(todo)' = VraItems(VraParts[d])
    BY <1>2 DEF VraItems
  <2>2. \A k \in DOMAIN VraParts[d] : VraParts[d][k] \in VraItems(todo)'
    BY <2>1 DEF VraItems
  <2>3. VraHalfDone(d)'
    BY <1>2, <2>2 DEF VraHalfDone, VraHasGroup, VraRecorded
  <2> QED
    BY <1>1, <2>3 DEF VraInHand
<1> QED
  BY <1>3, <1>4, <1>5, <1>6

\* The deployment at the head of the list is migrated, or has no group.
LEMMA VraLeavesHead ==
    ASSUME VraInv, UNCHANGED Vra!vra,
           UNCHANGED <<groups, records, partOf, migMode, groupsMap, skip>>,
           migPc \in {"record", "parts"}, migPc' = "deployment", listed' = Tail(listed),
           loaded' = None, todo' = <<>>,
           NEW d, d = Head(listed), d \notin changed => VraMigrated(d)
    PROVE  VraInv'
<1> USE DEF VraInv, Vra!vra
<1>1. listed \in Seq(VraDeployments) /\ listed # <<>>
  BY DEF VraTyped, VraPlaced
<1>2. d \in VraDeployments /\ listed' \in Seq(VraDeployments)
         /\ VraItems(listed) = {d} \cup VraItems(listed')
  BY <1>1, VraTailItems
<1>3. VraTyped'
  BY <1>2 DEF VraTyped, VraListTyped, VraPoints
<1>4. VraPlaced' /\ VraInHand'
  BY DEF VraPlaced, VraInHand
<1>5. d \notin changed => VraMigrated(d)'
  <2>1. VraGroup(d)' = VraGroup(d)
    BY DEF VraGroup, Vra!GroupOf, Vra!Wanted
  <2> QED
    BY <1>2, <2>1, VraKept
<1>6. \A e \in VraDeployments \ changed :
         e \in VraItems(listed) => e \in VraItems(listed') \/ VraMigrated(e)'
  BY <1>2, <1>5
<1>7. VraToCome'
  BY <1>6, VraStillToCome
<1> QED
  BY <1>3, <1>4, <1>7

LEMMA VraSkipsDeployment ==
    ASSUME VraInv, Vra!SkipDeployment
    PROVE  VraInv'
<1> USE DEF Vra!SkipDeployment
<1>1. PICK d : d = Head(listed)
  OBVIOUS
<1>2. d \notin changed => VraMigrated(d)
  BY <1>1 DEF VraInv, VraPlaced, VraInHand, VraHalfDone, VraMigrated, VraHasGroup, VraGroup
<1> QED
  BY <1>1, <1>2, VraLeavesHead

LEMMA VraNextDeployment ==
    ASSUME VraInv, Vra!NextDeployment
    PROVE  VraInv'
<1> USE DEF Vra!NextDeployment
<1>1. PICK d : d = Head(listed)
  OBVIOUS
<1>2. VraItems(todo) = {}
  BY VraNoItems
<1>3. d \notin changed => VraMigrated(d)
  BY <1>1, <1>2 DEF VraInv, VraInHand, VraHalfDone, VraMigrated
<1> QED
  BY <1>1, <1>3, VraLeavesHead

LEMMA VraReturns ==
    ASSUME VraInv, Vra!Fails \/ Vra!Done
    PROVE  VraInv'
<1> USE DEF VraInv, Vra!Fails, Vra!Done, Vra!Returns, Vra!vra
<1>1. VraTyped' /\ VraPlaced' /\ VraInHand'
  <2>1. VraTyped'
    <3>1. /\ migPc' \in VraPoints /\ skip' \in Nat /\ loaded' = None
          /\ listed' \in Seq(VraDeployments) /\ todo' \in Seq(DOMAIN VraKind)
      <4>1. migPc' \in VraPoints /\ skip' = 0 /\ loaded' = None
        BY DEF VraPoints
      <4>2. listed' = <<>> /\ todo' = <<>>
        OBVIOUS
      <4> HIDE DEF Vra!Fails, Vra!Done
      <4> QED
        BY <4>1, <4>2
    <3>2. VraListTyped'
      BY DEF VraTyped, VraListTyped
    <3>3. UNCHANGED <<vraAttr, changed, changes, groups, records, partOf, migMode, groupsMap>>
      OBVIOUS
    <3> HIDE DEF Vra!Fails, Vra!Done
    <3> QED
      BY <3>1, <3>2, <3>3 DEF VraTyped
  <2>2. VraPlaced' /\ VraInHand'
    BY DEF VraPlaced, VraInHand
  <2> QED
    BY <2>1, <2>2
<1>2. CASE Vra!Fails
  BY <1>1, <1>2 DEF VraToCome
<1>3. CASE Vra!Done
  <2>1. VraItems(listed) = {}
    BY <1>3, VraNoItems
  <2>2. VraToCome'
    BY <1>3, <2>1, VraStillToCome
  <2> QED
    BY <1>1, <2>2
<1> QED
  BY <1>2, <1>3

LEMMA VraCreatesResource ==
    ASSUME VraInv, Vra!CreateResource
    PROVE  VraInv'
<1> USE DEF VraInv, Vra!CreateResource, Vra!vra
<1>1. PICK d, name : d = Head(listed) /\ name = loaded.name
  OBVIOUS
<1>2. listed \in Seq(VraDeployments) /\ listed # <<>> /\ loaded \in Vra!Attributes
         /\ migMode = "resources" /\ todo = VraParts[d]
  BY <1>1 DEF VraTyped, VraPlaced
<1>3. d \in VraDeployments /\ d \in VraItems(listed) /\ name \in VraNames
         /\ loaded.owner \in VraOwners
  BY <1>1, <1>2, VraTailItems DEF Vra!Attributes
<1>4. PICK r : r = [owner |-> loaded.owner, group |-> Vra!GroupOf(loaded.project)]
  OBVIOUS
<1>5. r \in Vra!Record /\ r # None /\ r.owner = loaded.owner
         /\ r.group = Vra!GroupOf(loaded.project)
  BY <1>3, <1>4, VraGroupNamed, VraRecordsAreNotNone DEF Vra!Record, VraTyped
<1>6. records' = [records EXCEPT ![<<d, name>>] = r]
  BY <1>1, <1>4 DEF Vra!Key
<1>7. /\ records' \in [VraDeployments \X VraNames -> Vra!Record \cup {None}]
      /\ records'[<<d, name>>] = r
      /\ \A e \in VraDeployments, n \in VraNames :
            e # d => records'[<<e, n>>] = records[<<e, n>>]
  <2> HIDE DEF Vra!CreateResource
  <2> QED
    BY <1>3, <1>5, <1>6 DEF VraTyped
<1>8. VraTyped'
  BY <1>7 DEF VraTyped, VraListTyped, VraPoints
<1>9. VraPlaced'
  <2>1. VraItems(todo)' = VraItems(VraParts[d])
    BY <1>2 DEF VraItems
  <2> QED
    BY <1>1, <1>2, <1>5, <1>7, <2>1 DEF VraPlaced
<1>10. VraToCome'
  <2>1. \A e \in VraDeployments : vraAttr[e].name \in VraNames
    BY DEF VraTyped, Vra!Attributes
  <2> QED
    BY <1>3, <1>7, <2>1, VraStillToCome
<1>11. VraInHand'
  <2> SUFFICES ASSUME d \notin changed PROVE VraHalfDone(d)'
    BY <1>1 DEF VraInHand
  <2>1. loaded = vraAttr[d]
    BY <1>1 DEF VraInHand, VraHalfDone
  <2>2. VraGroup(d)' = Vra!GroupOf(loaded.project) /\ VraGroup(d)' # None
    BY <2>1 DEF VraGroup, Vra!GroupOf, Vra!Wanted
  <2>3. VraRecorded(d)' /\ VraHasGroup(d)'
    BY <1>1, <1>5, <1>7, <2>1, <2>2 DEF VraRecorded, VraHasGroup, VraAgrees
  <2>4. \A k \in DOMAIN VraParts[d] : VraParts[d][k] \in VraItems(todo)'
    BY <1>2 DEF VraItems
  <2> QED
    BY <2>1, <2>3, <2>4 DEF VraHalfDone
<1> QED
  BY <1>8, <1>9, <1>10, <1>11

\* One part of the deployment at the head of the list is done.
LEMMA VraPartStep ==
    ASSUME VraInv, migPc = "parts", todo # <<>>, todo' = Tail(todo), UNCHANGED Vra!vra,
           UNCHANGED <<groups, records, migMode, groupsMap, migPc, skip, listed, loaded>>,
           NEW d, d = Head(listed), NEW p, p = Head(todo),
           partOf' \in [DOMAIN VraKind -> Vra!PartRecord \cup {None}],
           \A q \in DOMAIN VraKind \ {p} : partOf'[q] = partOf[q],
           d \notin changed => VraPartDone(d, p)'
    PROVE  VraInv'
<1> USE DEF VraInv, Vra!vra
<1>1. listed \in Seq(VraDeployments) /\ listed # <<>>
         /\ todo \in Seq(DOMAIN VraKind) /\ VraItems(todo) \subseteq VraItems(VraParts[d])
  BY DEF VraTyped, VraPlaced
<1>2. d \in VraDeployments /\ d \in VraItems(listed)
  BY <1>1, VraTailItems
<1>3. p \in VraItems(VraParts[d]) /\ VraItems(todo) = {p} \cup VraItems(todo')
         /\ todo' \in Seq(DOMAIN VraKind)
  BY <1>1, VraTailItems
<1>4. VraItems(todo)' = VraItems(todo')
  BY DEF VraItems
<1>5. VraTyped'
  BY <1>3 DEF VraTyped, VraListTyped
<1>6. VraPlaced'
  BY <1>1, <1>3, <1>4 DEF VraPlaced
<1>7. VraToCome'
  <2>1. ASSUME NEW e \in VraDeployments, e # d, NEW k \in DOMAIN VraParts[e]
        PROVE  partOf'[VraParts[e][k]] = partOf[VraParts[e][k]]
    <3>1. VraParts[e][k] \in DOMAIN VraKind
      BY VraAssumption
    <3>2. VraParts[e][k] # p
      BY <1>2, <1>3, <2>1, VraAssumption DEF VraItems
    <3> QED
      BY <3>1, <3>2
  <2> QED
    BY <1>2, <2>1, VraStillToCome
<1>8. VraInHand'
  <2> SUFFICES ASSUME d \notin changed PROVE VraHalfDone(d)'
    BY DEF VraInHand
  <2>1. VraHalfDone(d)
    BY DEF VraInHand
  <2>2. VraGroup(d)' = VraGroup(d)
    BY DEF VraGroup, Vra!GroupOf, Vra!Wanted
  <2>3. VraHasGroup(d)' /\ VraRecorded(d)' /\ loaded' = vraAttr'[d]
    BY <2>1, <2>2 DEF VraHalfDone, VraHasGroup, VraRecorded, VraAgrees
  <2>4. ASSUME NEW k \in DOMAIN VraParts[d], VraParts[d][k] \notin VraItems(todo')
        PROVE  VraPartDone(d, VraParts[d][k])'
    <3>1. PICK q : q = VraParts[d][k]
      OBVIOUS
    <3>2. q \in DOMAIN VraKind
      BY <1>2, <3>1, VraAssumption
    <3>3. CASE q = p
      BY <3>1, <3>3
    <3>4. CASE q # p
      <4>1. VraPartDone(d, q)
        BY <1>3, <2>1, <2>4, <3>1, <3>4 DEF VraHalfDone
      <4>2. partOf'[q] = partOf[q]
        BY <3>2, <3>4
      <4>3. VraPartDone(d, q)'
        BY <2>2, <4>1, <4>2 DEF VraPartDone, VraAgrees
      <4> QED
        BY <3>1, <4>3
    <3> QED
      BY <3>3, <3>4
  <2> QED
    BY <1>4, <2>3, <2>4 DEF VraHalfDone
<1> QED
  BY <1>5, <1>6, <1>7, <1>8

LEMMA VraSkipsPart ==
    ASSUME VraInv, Vra!SkipPart
    PROVE  VraInv'
<1> USE DEF Vra!SkipPart
<1>1. PICK d, p : d = Head(listed) /\ p = Head(todo)
  OBVIOUS
<1>2. partOf' \in [DOMAIN VraKind -> Vra!PartRecord \cup {None}]
  BY DEF VraInv, VraTyped
<1>3. VraPartDone(d, p)'
  BY <1>1 DEF VraPartDone
<1> QED
  BY <1>1, <1>2, <1>3, VraPartStep

LEMMA VraMigratesPart ==
    ASSUME VraInv, Vra!MigratePart
    PROVE  VraInv'
<1> USE DEF Vra!MigratePart, Vra!vra
<1>1. PICK d, p, name : d = Head(listed) /\ p = Head(todo) /\ name = loaded.name
  OBVIOUS
<1>2. listed \in Seq(VraDeployments) /\ listed # <<>> /\ loaded \in Vra!Attributes
         /\ todo \in Seq(DOMAIN VraKind) /\ records[<<d, name>>] # None
  BY <1>1 DEF VraInv, VraTyped, VraPlaced
<1>3. d \in VraDeployments /\ p \in DOMAIN VraKind /\ name \in VraNames
         /\ loaded.owner \in VraOwners
  BY <1>1, <1>2, VraTailItems DEF Vra!Attributes
<1>4. records[<<d, name>>] \in Vra!Record
  BY <1>2, <1>3 DEF VraInv, VraTyped
<1>5. PICK r : r = [owner |-> loaded.owner, group |-> records[<<d, name>>].group,
                    parent |-> <<d, name>>]
  OBVIOUS
<1>6. r \in Vra!PartRecord /\ r # None /\ r.owner = loaded.owner
         /\ r.group = records[<<d, name>>].group /\ r.parent = <<d, name>>
  BY <1>3, <1>4, <1>5, VraRecordsAreNotNone DEF Vra!PartRecord, Vra!Record
<1>7. partOf' = [partOf EXCEPT ![p] = r]
  BY <1>1, <1>5 DEF Vra!Key
<1>8. /\ partOf' \in [DOMAIN VraKind -> Vra!PartRecord \cup {None}] /\ partOf'[p] = r
      /\ \A q \in DOMAIN VraKind \ {p} : partOf'[q] = partOf[q]
  BY <1>3, <1>6, <1>7 DEF VraInv, VraTyped
<1>9. ASSUME d \notin changed PROVE VraPartDone(d, p)'
  <2>1. loaded = vraAttr[d] /\ VraRecorded(d)
    BY <1>1, <1>9 DEF VraInv, VraInHand, VraHalfDone
  <2>2. VraGroup(d)' = VraGroup(d)
    BY DEF VraGroup, Vra!GroupOf, Vra!Wanted
  <2>3. r.owner = vraAttr'[d].owner /\ r.group = VraGroup(d)'
           /\ r.parent = <<d, vraAttr'[d].name>>
    BY <1>1, <1>6, <2>1, <2>2 DEF VraRecorded, VraAgrees
  <2> QED
    BY <1>1, <1>6, <1>8, <2>3 DEF VraPartDone, VraAgrees
<1> QED
  BY <1>1, <1>8, <1>9, VraPartStep

\* What a server is given is a record, whatever its parent is.
LEMMA VraServerSaved ==
    ASSUME VraInv, migPc = "parts", todo # <<>>, NEW parent, NEW r, r = Vra!Server(parent),
           parent \in (VraDeployments \X VraNames) \cup {None},
           NEW p, p = Head(todo), partOf' = [partOf EXCEPT ![p] = r]
    PROVE  /\ partOf' \in [DOMAIN VraKind -> Vra!PartRecord \cup {None}] /\ partOf'[p] = r
           /\ \A q \in DOMAIN VraKind \ {p} : partOf'[q] = partOf[q]
           /\ r # None /\ r.owner = loaded.owner /\ r.parent = parent
           /\ r.group = VraGroup(Head(listed))
<1>1. loaded.owner \in VraOwners /\ p \in DOMAIN VraKind
         /\ VraGroup(Head(listed)) \in Vra!GroupNames \cup {None}
  BY VraGroupNamed DEF VraInv, VraTyped, VraPlaced, Vra!Attributes, VraGroup
<1>2. r = [owner |-> loaded.owner, group |-> VraGroup(Head(listed)), parent |-> parent]
  BY DEF Vra!Server, VraGroup
<1>3. r \in Vra!PartRecord /\ r # None
  BY <1>1, <1>2, VraRecordsAreNotNone DEF Vra!PartRecord
<1>4. r.owner = loaded.owner /\ r.parent = parent /\ r.group = VraGroup(Head(listed))
  BY <1>2
<1> QED
  BY <1>1, <1>3, <1>4 DEF VraInv, VraTyped

LEMMA VraOldParent ==
    ASSUME VraInv, migPc = "parts", todo # <<>>
    PROVE  /\ Vra!OldParent \in (VraDeployments \X VraNames) \cup {None}
           /\ Vra!Key \in VraDeployments \X VraNames
<1>1. Head(todo) \in DOMAIN VraKind /\ Head(listed) \in VraDeployments
         /\ loaded.name \in VraNames
  BY DEF VraInv, VraTyped, VraPlaced, Vra!Attributes
<1>2. partOf[Head(todo)] \in Vra!PartRecord \cup {None}
  BY <1>1 DEF VraInv, VraTyped
<1>3. partOf[Head(todo)] # None =>
         partOf[Head(todo)].parent \in (VraDeployments \X VraNames) \cup {None}
  BY <1>2 DEF Vra!PartRecord
<1> QED
  BY <1>1, <1>3 DEF Vra!OldParent, Vra!Key

LEMMA VraMigratesServer ==
    ASSUME VraInv, Vra!MigrateServer
    PROVE  VraInv'
<1> USE DEF Vra!MigrateServer, Vra!vra
<1>1. PICK d, p, parent : /\ d = Head(listed) /\ p = Head(todo)
                          /\ parent = IF migMode = "resources" THEN Vra!Key
                                      ELSE Vra!OldParent
  OBVIOUS
<1>2. PICK r : r = Vra!Server(parent)
  OBVIOUS
<1>3. partOf' = [partOf EXCEPT ![p] = r]
  BY <1>1, <1>2
<1>4. parent \in (VraDeployments \X VraNames) \cup {None}
  BY <1>1, VraOldParent
<1>5. /\ partOf' \in [DOMAIN VraKind -> Vra!PartRecord \cup {None}] /\ partOf'[p] = r
      /\ \A q \in DOMAIN VraKind \ {p} : partOf'[q] = partOf[q]
      /\ r # None /\ r.owner = loaded.owner /\ r.parent = parent
      /\ r.group = VraGroup(Head(listed))
  <2>1. VraInv /\ migPc = "parts" /\ todo # <<>> /\ p = Head(todo)
    BY <1>1
  <2>2. partOf' \in [DOMAIN VraKind -> Vra!PartRecord \cup {None}]
    BY ONLY <1>2, <1>3, <1>4, <2>1, VraServerSaved
  <2>3. r # None
    BY ONLY <1>2, <1>3, <1>4, <2>1, VraServerSaved
  <2>4. \A q \in DOMAIN VraKind \ {p} : partOf'[q] = partOf[q]
    BY ONLY <1>2, <1>3, <1>4, <2>1, VraServerSaved
  <2>5. r.owner = loaded.owner /\ r.parent = parent
    BY ONLY <1>2, <1>3, <1>4, <2>1, VraServerSaved
  <2>6. r.group = VraGroup(Head(listed))
    BY ONLY <1>2, <1>3, <1>4, <2>1, VraServerSaved
  <2>7. partOf'[p] = r
    BY <1>1, <1>3 DEF VraInv, VraTyped
  <2> QED
    BY <2>2, <2>3, <2>4, <2>5, <2>6, <2>7
<1>6. ASSUME d \notin changed PROVE VraPartDone(d, p)'
  <2>1. loaded = vraAttr[d]
    BY <1>1, <1>6 DEF VraInv, VraInHand, VraHalfDone
  <2>2. VraGroup(d)' = VraGroup(d)
    BY DEF VraGroup, Vra!GroupOf, Vra!Wanted
  <2>3. migMode = "resources" => parent = <<d, loaded.name>>
    BY <1>1 DEF Vra!Key
  <2> QED
    BY <1>1, <1>5, <2>1, <2>2, <2>3 DEF VraPartDone, VraAgrees
<1> QED
  BY <1>1, <1>5, <1>6, VraPartStep

LEMMA VraServerRaises ==
    ASSUME VraInv, Vra!MigrateServerFails
    PROVE  VraInv'
<1> USE DEF Vra!MigrateServerFails, Vra!vra, Vra!Returns
<1>1. PICK p, parent : p = Head(todo) /\ parent = Vra!OldParent
  OBVIOUS
<1>2. PICK r : r = Vra!Server(parent)
  OBVIOUS
<1>3. partOf' = [partOf EXCEPT ![p] = r]
  BY <1>1, <1>2
<1>4. parent \in (VraDeployments \X VraNames) \cup {None}
  BY <1>1, VraOldParent
<1>5. partOf' \in [DOMAIN VraKind -> Vra!PartRecord \cup {None}]
  <2>1. migPc = "parts" /\ todo # <<>> /\ p = Head(todo)
    BY <1>1
  <2> HIDE DEF Vra!MigrateServerFails
  <2> QED
    BY <1>2, <1>3, <1>4, <2>1, VraServerSaved
<1>6. VraTyped'
  BY <1>5 DEF VraInv, VraTyped, VraListTyped, VraPoints
<1> QED
  BY <1>6 DEF VraInv, VraPlaced, VraToCome, VraInHand

LEMMA VraStep ==
    ASSUME VraInv, Vra!Next
    PROVE  VraInv'
<1>1. CASE \E d \in VraDeployments :
              Vra!CreateDeployment(d) \/ Vra!UpdateDeployment(d) \/ Vra!DeleteDeployment(d)
  BY <1>1, VraCreates, VraUpdates, VraDeletes
<1>2. CASE \E p \in VraProjects : Vra!MigrateProject(p)
  BY <1>2, VraMigratesProject
<1>3. CASE Vra!Begin \/ Vra!ListPage \/ Vra!LoadDeployment \/ Vra!SkipDeployment
  BY <1>3, VraBegins, VraListsPage, VraLoads, VraSkipsDeployment
<1>4. CASE Vra!CreateResource \/ Vra!MigratePart \/ Vra!MigrateServer \/ Vra!MigrateServerFails
  BY <1>4, VraCreatesResource, VraMigratesPart, VraMigratesServer, VraServerRaises
<1>5. CASE Vra!SkipPart \/ Vra!NextDeployment \/ Vra!Fails \/ Vra!Done
  BY <1>5, VraSkipsPart, VraNextDeployment, VraReturns
<1> QED
  BY <1>1, <1>2, <1>3, <1>4, <1>5 DEF Vra!Next

LEMMA VraStutter ==
    ASSUME VraInv, UNCHANGED vraVars
    PROVE  VraInv'
<1> USE DEF VraInv
<1>1. /\ UNCHANGED <<vraList, vraAttr, groups, records, partOf, migMode, groupsMap, migPc>>
      /\ UNCHANGED <<skip, listed, loaded, todo, changed, changes>>
  BY DEF vraVars
<1>2. VraListTyped'
  BY <1>1 DEF VraTyped, VraListTyped
<1>3. VraTyped'
  BY <1>1, <1>2 DEF VraTyped
<1>4. \A d \in VraDeployments \ changed' :
         vraAttr'[d] = vraAttr[d] /\ VraGroup(d)' = VraGroup(d)
  BY <1>1 DEF VraGroup, Vra!GroupOf, Vra!Wanted
<1>5. \A j \in DOMAIN vraList' : vraList'[j] \notin changed' =>
         \E i \in DOMAIN vraList : /\ vraList[i] = vraList'[j]
                                   /\ migPc = "list" /\ i > skip => j > skip
  BY <1>1
<1> QED
  BY <1>1, <1>3, <1>4, <1>5, VraOutside

LEMMA VraAgreement == VraInv => MigratedAgrees
<1> SUFFICES ASSUME VraInv, migPc = "done", NEW i \in DOMAIN vraList,
                    vraList[i] \notin changed
             PROVE  LET d == vraList[i]
                        a == vraAttr[d]
                        group == Vra!GroupOf(a.project)
                        Agrees(r) == r # None /\ r.owner = a.owner /\ r.group = group
                    IN  /\ migMode = "resources" /\ group # None =>
                              /\ Agrees(records[<<d, a.name>>])
                              /\ \A k \in DOMAIN VraParts[d] :
                                    VraKind[VraParts[d][k]] # "skipped" =>
                                       /\ Agrees(partOf[VraParts[d][k]])
                                       /\ partOf[VraParts[d][k]].parent = <<d, a.name>>
                        /\ migMode = "servers" =>
                              \A k \in DOMAIN VraParts[d] :
                                 VraKind[VraParts[d][k]] = "server" =>
                                    Agrees(partOf[VraParts[d][k]])
  BY DEF MigratedAgrees, Vra!MigratedAgrees
<1>1. VraMigrated(vraList[i])
  BY DEF VraInv, VraToCome
<1> QED
  BY <1>1 DEF VraMigrated, VraHasGroup, VraRecorded, VraPartDone, VraAgrees, VraGroup

LEMMA VraAlone == [JobsNext]_jobsVars => Vra!Next \/ UNCHANGED vraVars
BY DEF JobsNext, Only, jobsVars

\* A run of the ingest that ends with SUCCESS leaves each deployment that did not
\* change, move or slip between pages meanwhile as vRA has it, whatever earlier
\* runs, reruns after failures and the users of vRA did before.
THEOREM MigratedAsInVra == JobsSpec => []MigratedAgrees
<1>1. JobsInit => VraInv
  BY VraInit DEF JobsInit
<1>2. VraInv /\ [JobsNext]_jobsVars => VraInv'
  BY VraAlone, VraStep, VraStutter
<1> QED
  BY <1>1, <1>2, VraAgreement, PTL DEF JobsSpec
=============================================================================
