---------------------------- MODULE CloudObjects ----------------------------
(***************************************************************************)
(* The blueprints that make one object in a cloud: a MySQL server with its *)
(* database in Azure, an S3 bucket, a CloudFormation stack, a Lambda       *)
(* function.  A teardown finds the object by the fields the build saved on *)
(* the resource, and the four builds differ in when they save them, and in *)
(* what their teardowns do about errors.                                   *)
(*                                                                         *)
(* The clouds are not in the sources: a name is taken once, a call that    *)
(* raises may have had its effect, and a job may raise or die at any call.  *)
(***************************************************************************)
CONSTANTS
    Builds,     \* resources that are ordered
    Kind,       \* [Builds -> {"azure", "s3", "stack", "lambda"}]
    CloudName,  \* [Builds -> Names]: typed by the requester; for Azure it ends
                \* in random characters, so that no two are the same
    Names,
    None

VARIABLES
    cloud,      \* [Names -> the resource whose build made the object, or None]
    databases,  \* Azure servers, by resource, that hold their database
    namedOn,    \* resources with the identifying fields saved
    lost,       \* resources whose build ended after the object was made and
                \* before the save of the fields that name it had returned
    objPc       \* [Builds -> control point of the resource's job]

vars == <<cloud, databases, namedOn, lost, objPc>>

Object(r) == cloud[CloudName[r]]
SavesFirst(r) == Kind[r] \in {"azure", "s3"}

TypeOK == /\ cloud \in [Names -> Builds \cup {None}]
          /\ databases \subseteq Builds /\ namedOn \subseteq Builds /\ lost \subseteq Builds
          /\ objPc \in [Builds -> {"new", "create", "database", "save", "wait", "idle",
                                   "drop", "gone"}]

Init == /\ cloud = [n \in Names |-> None]
        /\ databases = {} /\ namedOn = {} /\ lost = {}
        /\ objPc = [r \in Builds |-> "new"]

Goto(r, point) == objPc' = [objPc EXCEPT ![r] = point]
At(r, point) == objPc[r] = point
Make(r) == cloud' = [cloud EXCEPT ![CloudName[r]] = r]
Remove(r) == cloud' = [cloud EXCEPT ![CloudName[r]] = None]

-----------------------------------------------------------------------------
(* The builds. *)

\* Bug: the fields are saved once the object exists.
SaveFirstForgets(r) ==
    /\ At(r, "new") /\ SavesFirst(r)
    /\ Goto(r, "create")
    /\ UNCHANGED <<cloud, databases, namedOn, lost>>

\* Azure and S3: the fields are saved before anything is made, or the job ends
\* there.
SaveFirst(r) ==
    /\ At(r, "new") /\ SavesFirst(r)
    /\ \/ namedOn' = namedOn \cup {r} /\ Goto(r, "create")
       \/ namedOn' \in {namedOn, namedOn \cup {r}} /\ Goto(r, "idle")
    /\ UNCHANGED <<cloud, databases, lost>>

\* A stack: without its template or with parameters that are no JSON the build
\* ends.
PrepareStack(r) ==
    /\ At(r, "new") /\ Kind[r] = "stack"
    /\ Goto(r, "create") \/ Goto(r, "idle")
    /\ UNCHANGED <<cloud, databases, namedOn, lost>>

\* A function: a package that is no zip file, or a role that can be neither
\* made nor read, end the build.
PrepareFunction(r) ==
    /\ At(r, "new") /\ Kind[r] = "lambda"
    /\ Goto(r, "create") \/ Goto(r, "idle")
    /\ UNCHANGED <<cloud, databases, namedOn, lost>>

Create(r) ==
    /\ At(r, "create") /\ Object(r) = None
    /\ Make(r)
    /\ Goto(r, CASE Kind[r] = "azure" -> "database"
                 [] Kind[r] = "s3"    -> "idle"
                 [] OTHER             -> "save")
    /\ UNCHANGED <<databases, namedOn, lost>>

\* The name is taken, or the call fails without effect.  (S3 takes a bucket
\* the account owns for the one ordered in us-east-1: nothing is made either.)
CreateRefused(r) ==
    /\ At(r, "create")
    /\ Goto(r, "idle")
    /\ UNCHANGED <<cloud, databases, namedOn, lost>>

\* The call raises, or the job dies, and the object is there.
CreateLost(r) ==
    /\ At(r, "create") /\ Object(r) = None
    /\ Make(r) /\ lost' = lost \cup {r}
    /\ Goto(r, "idle")
    /\ UNCHANGED <<databases, namedOn>>

CreateDatabase(r) ==
    /\ At(r, "database")
    /\ databases' \in {databases, databases \cup {r}}
    /\ Goto(r, "idle")
    /\ UNCHANGED <<cloud, namedOn, lost>>

Save(r) ==
    /\ At(r, "save")
    /\ namedOn' = namedOn \cup {r}
    /\ Goto(r, IF Kind[r] = "stack" THEN "wait" ELSE "idle")
    /\ UNCHANGED <<cloud, databases, lost>>

\* Between the call that made the stack or the function and the end of the save:
\* the answer has no StackId, the function has another name than asked for, the
\* save raises, the job dies.
SaveFails(r) ==
    /\ At(r, "save")
    /\ namedOn' \in {namedOn, namedOn \cup {r}}
    /\ lost' = lost \cup {r}
    /\ Goto(r, "idle")
    /\ UNCHANGED <<cloud, databases>>

\* wait_for_stack_resource: CREATE_COMPLETE ends it, CREATE_FAILED and 600
\* seconds (a rollback, too) raise.  The stack stays in any case.
WaitForStack(r) ==
    /\ At(r, "wait") /\ Goto(r, "idle")
    /\ UNCHANGED <<cloud, databases, namedOn, lost>>

-----------------------------------------------------------------------------
(* The teardowns; without the fields they raise and change nothing. *)

Torn(r) == At(r, "idle") /\ r \in namedOn

\* The stack is deleted in its own time, or not: nobody waits for it.  A call
\* that fails ends the job.
TeardownStack(r) ==
    /\ Torn(r) /\ Kind[r] = "stack"
    /\ Remove(r) \/ UNCHANGED cloud
    /\ Goto(r, "gone") \/ UNCHANGED objPc
    /\ UNCHANGED <<databases, namedOn, lost>>

\* Whatever raises is passed over, and the result is SUCCESS.
TeardownBucket(r) ==
    /\ Torn(r) /\ Kind[r] = "s3"
    /\ Remove(r) \/ UNCHANGED cloud
    /\ Goto(r, "gone")
    /\ UNCHANGED <<databases, namedOn, lost>>

\* A function that is not there is an error; one is lost with the answer.
TeardownFunction(r) ==
    /\ Torn(r) /\ Kind[r] = "lambda" /\ Object(r) # None
    /\ Remove(r)
    /\ Goto(r, "gone") \/ UNCHANGED objPc
    /\ UNCHANGED <<databases, namedOn, lost>>

\* The database, then the server, each awaited.
TeardownDatabase(r) ==
    /\ Torn(r) /\ Kind[r] = "azure" /\ Object(r) # None
    /\ databases' = databases \ {r}
    /\ Goto(r, "drop") \/ UNCHANGED objPc
    /\ UNCHANGED <<cloud, namedOn, lost>>

TeardownServer(r) ==
    /\ At(r, "drop")
    /\ \/ Remove(r) /\ Goto(r, "gone")
       \/ (Remove(r) \/ UNCHANGED cloud) /\ Goto(r, "idle")
    /\ UNCHANGED <<databases, namedOn, lost>>

-----------------------------------------------------------------------------
Next == \E r \in Builds :
    \/ SaveFirst(r) \/ PrepareStack(r) \/ PrepareFunction(r)
    \/ Create(r) \/ CreateRefused(r) \/ CreateLost(r)
    \/ CreateDatabase(r) \/ Save(r) \/ SaveFails(r) \/ WaitForStack(r)
    \/ TeardownStack(r) \/ TeardownBucket(r) \/ TeardownFunction(r)
    \/ TeardownDatabase(r) \/ TeardownServer(r)

Spec == Init /\ [][Next]_vars

-----------------------------------------------------------------------------
(* Properties. *)

\* What a build made and a teardown has not removed can be found again: its
\* resource names it, whichever step failed - a server and a bucket always, a
\* stack and a function unless the job ended between their making and the save
\* of their fields.  A teardown that ends leaves nothing of the database server
\* and of the function behind.
NothingForgotten ==
    \A r \in Builds : Object(r) = r =>
        CASE At(r, "gone") -> Kind[r] \in {"stack", "s3"}
          [] At(r, "save") -> ~SavesFirst(r)
          [] OTHER         -> r \in namedOn \/ (~SavesFirst(r) /\ r \in lost)
=============================================================================
