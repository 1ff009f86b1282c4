----------------------------- MODULE GitConfigs -----------------------------
(***************************************************************************)
(* The Git configurations and tokens of the users of the Git Management    *)
(* extension.  All configurations of a user are one JSON object, all its   *)
(* tokens another; each object is the value of one custom field of the     *)
(* user.  Every request reads an object, changes it in memory, looks the   *)
(* field value up again and overwrites it; requests of any users overlap.  *)
(* CloudBolt has one custom field value per field and value, so users with *)
(* equal objects would share it: the object has the user's name in it.     *)
(***************************************************************************)
EXTENDS Naturals, Sequences

CONSTANTS UserOf,   \* the user of each request, in the order in which they arrive
          Names,    \* names of configurations; "user" may be one of them
          Tokens    \* names of tokens

Requests == DOMAIN UserOf
Users == {UserOf[r] : r \in Requests}

Types == {"git_config", "git_tokens"}

VARIABLES
    cfvs,        \* the field values: <<[type, users, data]>>, data a JSON object
    req,         \* [Requests -> what the request does and has read]
    wanted,      \* [Users -> [Types -> object]]: what the user has saved, not deleted
    overlapped   \* the <<user, type>> that two requests handled at one time

vars == <<cfvs, req, wanted, overlapped>>

Entry(type) == IF type = "git_config" THEN Names ELSE Tokens

Objects == UNION {[D -> Users \cup Tokens \cup {"token"}] :
                     D \in SUBSET (Names \cup Tokens \cup {"user"})}

Waiting == [pc |-> "waiting"]
Answered == [pc |-> "answered"]

TypeOK == /\ \A i \in DOMAIN cfvs : /\ cfvs[i].type \in Types
                                    /\ cfvs[i].users \in SUBSET Users
                                    /\ cfvs[i].data \in Objects
          /\ \A r \in Requests :
                req[r].pc \in {"waiting", "look", "create", "again", "save", "answered"}
          /\ \A u \in Users, t \in Types : wanted[u][t] \in Objects
          /\ overlapped \subseteq Users \X Types

Init == /\ cfvs = <<>>
        /\ req = [r \in Requests |-> Waiting]
        /\ wanted = [u \in Users |-> [t \in Types |-> <<>>]]
        /\ overlapped = {}

\* The positions of the field values of one user and type.
Of(u, type) == {i \in DOMAIN cfvs : cfvs[i].type = type /\ u \in cfvs[i].users}

The(S) == CHOOSE i \in S : TRUE

\* The object without one key; with a value for one key.
Less(data, key) == [k \in DOMAIN data \ {key} |-> data[k]]
With(data, key, value) ==
    [k \in DOMAIN data \cup {key} |-> IF k = key THEN value ELSE data[k]]

\* Each operation reads objects in this order, and changes the last one: the
\* form of a configuration offers the tokens, the page shows both types, an
\* edited entry is looked up before its form is made.
Reads(op, type) ==
    LET form == IF type = "git_config" THEN <<"git_tokens", type>> ELSE <<type>>
    IN CASE op = "view"   -> <<"git_tokens", "git_config">>
         [] op = "save"   -> form
         [] op = "edit"   -> <<type>> \o form
         [] op = "delete" -> <<type>>

\* A request arrives: name is the entry deleted or saved, old the one an edit
\* started from.
Arrives(r, type, op, name, old, token) ==
    /\ req[r] = Waiting
    /\ \A earlier \in 1 .. r - 1 : req[earlier] # Waiting
    /\ req' = [req EXCEPT ![r] =
                 [pc |-> "look", user |-> UserOf[r], type |-> type, op |-> op,
                  name |-> name, old |-> old, token |-> token,
                  left |-> Reads(op, type), data |-> <<>>]]
    /\ overlapped' = overlapped \cup
          {<<UserOf[r], t>> : t \in {s \in Types : \E o \in Requests \ {r} :
              req[o] \notin {Waiting, Answered} /\ UserOf[o] = UserOf[r]}}
    /\ UNCHANGED <<cfvs, wanted>>

ShowPage(r) ==
    Arrives(r, "git_config", "view", The(Names), The(Names), The(Tokens))

SubmitConfig(r) ==
    \E op \in {"save", "edit"}, name, old \in Names, token \in Tokens :
        /\ op = "save" => old = name
        /\ Arrives(r, "git_config", op, name, old, token)

SubmitToken(r) ==
    \E op \in {"save", "edit"}, name, old \in Tokens :
        /\ op = "save" => old = name
        /\ Arrives(r, "git_tokens", op, name, old, name)

Delete(r) ==
    \E type \in Types : \E name \in Entry(type) :
        Arrives(r, type, "delete", name, name, The(Tokens))

\* Bug: the new object does not name its user.
NewObjectShared(u) == <<>>

\* A new value for the user, unless there is such a value already.
NewObject(u) == [k \in {"user"} |-> u]

\* What follows a read: an edit of an entry that is not there raises, a token
\* that is not among the choices makes the form invalid, the page ends.
After(q, data) ==
    LET rest == Tail(q.left)
        \* the first read of an edit is the look-up of the entry
        lookup == q.op = "edit" /\ Len(q.left) = Len(Reads(q.op, q.type))
        choices == rest # <<>> /\ q.op # "view" /\ ~lookup
    IN IF \/ lookup /\ q.old \notin DOMAIN data
          \/ choices /\ q.token \notin DOMAIN data
          \/ q.op = "view" /\ rest = <<>>
       THEN Answered
       ELSE IF rest # <<>> THEN [q EXCEPT !.left = rest, !.pc = "look"]
       ELSE [q EXCEPT !.pc = "again", !.data = data]

\* Two values of one user are an exception.
Look(r) ==
    LET q == req[r]
        found == Of(q.user, Head(q.left))
    IN /\ q.pc = "look"
       /\ req' = [req EXCEPT ![r] =
                    IF found = {} THEN [q EXCEPT !.pc = "create"]
                    ELSE IF \E i, j \in found : i # j THEN Answered
                    ELSE After(q, cfvs[The(found)].data)]
       /\ UNCHANGED <<cfvs, wanted, overlapped>>

GetOrCreate(r) ==
    LET q == req[r]
        type == Head(q.left)
        data == NewObject(q.user)
        same == {i \in DOMAIN cfvs : cfvs[i].type = type /\ cfvs[i].data = data}
    IN /\ q.pc = "create"
       /\ cfvs' = IF same # {}
                  THEN [cfvs EXCEPT ![The(same)].users = @ \cup {q.user}]
                  ELSE Append(cfvs, [type |-> type, users |-> {q.user}, data |-> data])
       /\ req' = [req EXCEPT ![r] = After(q, data)]
       /\ UNCHANGED <<wanted, overlapped>>

\* The field value is looked up once more before it is overwritten.
LookAgain(r) ==
    LET q == req[r]
        found == Of(q.user, q.type)
    IN /\ q.pc = "again"
       /\ req' = [req EXCEPT ![r] = IF \E i, j \in found : i # j THEN Answered
                                    ELSE [q EXCEPT !.pc = "save"]]
       /\ UNCHANGED <<cfvs, wanted, overlapped>>

\* The object with the request's entry set or deleted.
Changed(q, data) ==
    IF q.op = "delete" THEN Less(data, q.name)
    ELSE With(data, q.name, IF q.type = "git_config" THEN q.token ELSE "token")

\* The value found is the first: a second one came after the look.
Save(r) ==
    LET q == req[r]
        first == CHOOSE i \in Of(q.user, q.type) :
                    \A j \in Of(q.user, q.type) : i <= j
    IN /\ q.pc = "save"
       /\ cfvs' = [cfvs EXCEPT ![first].data = Changed(q, q.data)]
       /\ wanted' = [wanted EXCEPT ![q.user][q.type] = Changed(q, @)]
       /\ req' = [req EXCEPT ![r] = Answered]
       /\ UNCHANGED overlapped

Next == \E r \in Requests : \/ ShowPage(r) \/ SubmitConfig(r) \/ SubmitToken(r) \/ Delete(r)
                            \/ Look(r) \/ GetOrCreate(r)
                            \/ LookAgain(r) \/ Save(r)

-----------------------------------------------------------------------------
(* Properties. *)

\* What the page shows of an object: its entries but for the user's name.
Shown(data) == Less(data, "user")

\* A user whose own requests never overlapped finds every entry it saved, as
\* it saved it last, and none it deleted, whatever other users do meanwhile;
\* and no such user is locked out by a second field value.
OwnEntriesKept ==
    \A u \in Users, t \in Types :
        <<u, t>> \notin overlapped =>
            /\ \A i, j \in Of(u, t) : i = j
            /\ \A i \in Of(u, t) : Shown(cfvs[i].data) = Shown(wanted[u][t])
            /\ Of(u, t) = {} => wanted[u][t] = <<>>
=============================================================================
