---------------------------- MODULE UserRegistry ----------------------------
(***************************************************************************)
(* server.users[] under users_mutex: add_user, find_user and the two       *)
(* passes of handle_list_users, run by any number of handler threads.      *)
(* find_user gives out a pointer into the table that is used after the     *)
(* mutex is given back; the table only ever grows.                         *)
(***************************************************************************)
EXTENDS Integers

CONSTANTS
  Threads,       \* handler threads
  Names,         \* valid user names
  Keys,          \* public keys
  MAX_CLIENTS,   \* capacity of the table
  None           \* no name, no key, no thread

ASSUME RegistryAssumption ==
  /\ MAX_CLIENTS \in Nat \ {0}
  /\ None \notin Threads \cup Names \cup Keys

VARIABLES
  users,        \* server.users: index -> [username, public_key]
  user_count,   \* server.user_count
  users_mutex,  \* holder of server.users_mutex
  pc,           \* thread -> where it stands
  arg,          \* thread -> the name and the key it was called with
  i,            \* thread -> loop variable
  size,         \* thread -> entries handle_list_users has made room for
  result        \* thread -> what its last call returned

locals == <<pc, arg, i, size, result>>
vars == <<users, user_count, users_mutex, locals>>

Index == 0 .. MAX_CLIENTS - 1
Record == [username : Names \cup {None}, public_key : Keys \cup {None}]
Blank == [username |-> None, public_key |-> None]

\* Return values: add_user's 0, -1 and -2, find_user's index or null.
Ok == -10
Error == -1
Exists == -2
Null == -3

Init ==
  /\ users = [k \in Index |-> Blank]
  /\ user_count = 0
  /\ users_mutex = None
  /\ pc = [t \in Threads |-> "idle"]
  /\ arg = [t \in Threads |-> Blank]
  /\ i = [t \in Threads |-> 0]
  /\ size = [t \in Threads |-> 0]
  /\ result = [t \in Threads |-> Null]

Goto(t, label) == pc' = [pc EXCEPT ![t] = label]
Return(t, value) == Goto(t, "idle") /\ result' = [result EXCEPT ![t] = value]

-----------------------------------------------------------------------------

\* A REGISTER_USER, a message that names a user, or a LIST_USERS comes in.
Call(t, label, name, key) ==
  /\ pc[t] = "idle"
  /\ Goto(t, label)
  /\ arg' = [arg EXCEPT ![t] = [username |-> name, public_key |-> key]]
  /\ result' = [result EXCEPT ![t] = Null]
  /\ UNCHANGED <<users, user_count, users_mutex, i, size>>

\* Mutated form of AddLock, in no specification: the capacity is not checked.
AddLockUnchecked(t) ==
  /\ pc[t] = "add"
  /\ users_mutex = None
  /\ users_mutex' = t
  /\ i' = [i EXCEPT ![t] = 0]
  /\ Goto(t, "add_scan")
  /\ UNCHANGED <<users, user_count, arg, size, result>>

\* add_user takes the mutex and gives it back at once when the table is full.
AddLock(t) ==
  /\ pc[t] = "add"
  /\ users_mutex = None
  /\ IF user_count >= MAX_CLIENTS
     THEN Return(t, Error) /\ UNCHANGED <<users_mutex, i>>
     ELSE /\ Goto(t, "add_scan")
          /\ users_mutex' = t
          /\ i' = [i EXCEPT ![t] = 0]
          /\ UNCHANGED result
  /\ UNCHANGED <<users, user_count, arg, size>>

\* Mutated forms of AddScan: only the same name with the same key counts as
\* registered; a second registration replaces the key.
AddScanByRecord(t) ==
  /\ pc[t] = "add_scan"
  /\ i[t] < user_count
  /\ IF users[i[t]] = arg[t]
     THEN Return(t, Exists) /\ users_mutex' = None /\ UNCHANGED i
     ELSE i' = [i EXCEPT ![t] = @ + 1] /\ UNCHANGED <<pc, result, users_mutex>>
  /\ UNCHANGED <<users, user_count, arg, size>>

AddScanReplaces(t) ==
  /\ pc[t] = "add_scan"
  /\ i[t] < user_count
  /\ IF users[i[t]].username = arg[t].username
     THEN /\ users' = [users EXCEPT ![i[t]] = arg[t]]
          /\ Return(t, Ok) /\ users_mutex' = None /\ UNCHANGED i
     ELSE /\ i' = [i EXCEPT ![t] = @ + 1]
          /\ UNCHANGED <<users, pc, result, users_mutex>>
  /\ UNCHANGED <<user_count, arg, size>>

\* One turn of the search for the name.
AddScan(t) ==
  /\ pc[t] = "add_scan"
  /\ i[t] < user_count
  /\ IF users[i[t]].username = arg[t].username
     THEN Return(t, Exists) /\ users_mutex' = None /\ UNCHANGED i
     ELSE i' = [i EXCEPT ![t] = @ + 1] /\ UNCHANGED <<pc, result, users_mutex>>
  /\ UNCHANGED <<users, user_count, arg, size>>

AddFill(t) ==
  /\ pc[t] = "add_scan"
  /\ i[t] >= user_count
  /\ users' = [users EXCEPT ![user_count] = arg[t]]
  /\ Goto(t, "add_commit")
  /\ UNCHANGED <<user_count, users_mutex, arg, i, size, result>>

AddCommit(t) ==
  /\ pc[t] = "add_commit"
  /\ user_count' = user_count + 1
  /\ users_mutex' = None
  /\ Return(t, Ok)
  /\ UNCHANGED <<users, arg, i, size>>

FindLock(t) ==
  /\ pc[t] = "find"
  /\ users_mutex = None
  /\ users_mutex' = t
  /\ i' = [i EXCEPT ![t] = 0]
  /\ Goto(t, "find_scan")
  /\ UNCHANGED <<users, user_count, arg, size, result>>

\* Mutated form of FindScan: the end of the table counts as a match.
FindScanPast(t) ==
  /\ pc[t] = "find_scan"
  /\ IF i[t] < user_count /\ users[i[t]].username # arg[t].username
     THEN i' = [i EXCEPT ![t] = @ + 1] /\ UNCHANGED <<pc, result, users_mutex>>
     ELSE Return(t, i[t]) /\ users_mutex' = None /\ UNCHANGED i
  /\ UNCHANGED <<users, user_count, arg, size>>

\* One turn of find_user's loop, or its end without a match.
FindScan(t) ==
  /\ pc[t] = "find_scan"
  /\ IF i[t] < user_count /\ users[i[t]].username # arg[t].username
     THEN i' = [i EXCEPT ![t] = @ + 1] /\ UNCHANGED <<pc, result, users_mutex>>
     ELSE /\ Return(t, IF i[t] < user_count THEN i[t] ELSE Null)
          /\ users_mutex' = None
          /\ UNCHANGED i
  /\ UNCHANGED <<users, user_count, arg, size>>

\* Mutated form of ListSize: the mutex is given back between the passes.
ListSizeReleased(t) ==
  /\ pc[t] = "list"
  /\ users_mutex = None
  /\ size' = [size EXCEPT ![t] = user_count]
  /\ i' = [i EXCEPT ![t] = 0]
  /\ Goto(t, "list_fill")
  /\ UNCHANGED <<users, user_count, users_mutex, arg, result>>

\* The first pass of handle_list_users makes room, the second fills it.
ListSize(t) ==
  /\ pc[t] = "list"
  /\ users_mutex = None
  /\ users_mutex' = t
  /\ size' = [size EXCEPT ![t] = user_count]
  /\ i' = [i EXCEPT ![t] = 0]
  /\ Goto(t, "list_fill")
  /\ UNCHANGED <<users, user_count, arg, result>>

\* No room can be had: the mutex is given back, an error is sent.
ListFails(t) ==
  /\ pc[t] = "list_fill"
  /\ i[t] = 0
  /\ users_mutex' = None
  /\ Return(t, Error)
  /\ UNCHANGED <<users, user_count, arg, i, size>>

ListFill(t) ==
  /\ pc[t] = "list_fill"
  /\ IF i[t] < user_count
     THEN i' = [i EXCEPT ![t] = @ + 1] /\ UNCHANGED <<pc, result, users_mutex>>
     ELSE Return(t, Ok) /\ users_mutex' = None /\ UNCHANGED i
  /\ UNCHANGED <<users, user_count, arg, size>>

Step(t) ==
  \/ AddLock(t) \/ AddScan(t) \/ AddFill(t) \/ AddCommit(t)
  \/ FindLock(t) \/ FindScan(t)
  \/ ListSize(t) \/ ListFails(t) \/ ListFill(t)

\* GET_PUBLIC_KEY is one of the messages that look a user up.
Request(t) ==
  \/ \E n \in Names, k \in Keys : Call(t, "add", n, k)
  \/ \E n \in Names : Call(t, "find", n, None)
  \/ Call(t, "list", None, None)

Next == \E t \in Threads : Request(t) \/ Step(t)

Spec == Init /\ [][Next]_vars

-----------------------------------------------------------------------------

Scanning == {"add_scan", "add_commit", "find_scan", "list_fill"}

TypeOK ==
  /\ users \in [Index -> Record]
  /\ user_count \in 0 .. MAX_CLIENTS
  /\ users_mutex \in Threads \cup {None}
  /\ pc \in [Threads -> {"idle", "add", "find", "list"} \cup Scanning]
  /\ arg \in [Threads -> Record]
  /\ i \in [Threads -> 0 .. MAX_CLIENTS]
  /\ size \in [Threads -> 0 .. MAX_CLIENTS]
  /\ result \in [Threads -> {Ok, Error, Exists, Null} \cup Index]

Registered == 0 .. user_count - 1

\* No name is registered twice, however many registrations of it race.
NamesUnique ==
  \A j, k \in Registered : users[j].username = users[k].username => j = k

\* A registered user keeps its place, its name and its key: a pointer that
\* find_user gave out stays the user's, and authenticate_user, which reads
\* the key without the mutex, reads the key of the registration.
RecordsImmutable ==
  [][\A k \in Registered : k \in Registered' /\ users'[k] = users[k]]_vars

\* What the last call of t returned is true of the table.
AnswerTrue(t) ==
  /\ result[t] = Ok /\ arg[t].username # None =>
       \E k \in Registered : users[k] = arg[t]
  /\ result[t] = Exists =>
       \E k \in Registered : users[k].username = arg[t].username
  /\ result[t] \in Index =>
       result[t] < user_count /\ users[result[t]].username = arg[t].username

\* What a thread was told stays true while it acts on it: after "registered"
\* its name and key are in the table, after "exists" or a pointer the name is.
AnswersHold == \A t \in Threads : pc[t] = "idle" => AnswerTrue(t)

\* The second pass of handle_list_users stays in the room the first made.
ListFits == \A t \in Threads : pc[t] = "list_fill" => i[t] <= size[t]
=============================================================================
