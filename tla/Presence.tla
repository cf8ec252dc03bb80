------------------------------ MODULE Presence ------------------------------
(***************************************************************************)
(* Who is online, and who is told: the status in a user's record, the      *)
(* broadcasts of its changes.  LIST_USERS is here for its mutexes only.    *)
(*                                                                         *)
(* A change is written under user->mutex and broadcast under clients_mutex,*)
(* in two critical sections of one handler; a list is put together under   *)
(* users_mutex and, within it, each user->mutex.                           *)
(* A slot is one connection here.  Nobody but its own handler takes a      *)
(* client's mutex, so client_mutex is left out.                            *)
(***************************************************************************)
EXTENDS Integers, Sequences, FiniteSets

CONSTANTS
  MAX_CLIENTS,   \* slots, each with a connection of its own
  Users,         \* registered users, in the order of server.users[]
  None,          \* no user, no status, no thread
  MaxRequests    \* bound: logins, status changes and lists asked for

ASSUME PresenceAssumption ==
  /\ MAX_CLIENTS \in Nat \ {0}
  /\ MaxRequests \in Nat
  /\ None \notin Nat
  /\ Users \in Seq({Users[i] : i \in DOMAIN Users})
  /\ \A i, j \in DOMAIN Users : Users[i] = Users[j] => i = j
  /\ \A i \in DOMAIN Users : Users[i] # None

VARIABLES
  user,           \* slot -> user logged in on it, or None
  connected,      \* slots whose connection has not logged out
  status,         \* user -> status in its record
  users_mutex,    \* holder of server.users_mutex
  user_mutex,     \* user -> holder of its record's mutex
  clients_mutex,  \* holder of server.clients_mutex
  pc,             \* slot -> where its handler stands
  job,            \* slot -> the change it makes: [who, new, leaving]
  i,              \* slot -> loop variable
  told,           \* slot -> what it was last told of each user, while a
                  \* broadcast is under way
  audience,       \* slot -> whom its broadcast must reach: the clients of other
                  \* users as it began, less those that log in anew or leave
  deserted,       \* users a connection of theirs logged in as another
  requests        \* requests taken so far

locks == <<users_mutex, user_mutex, clients_mutex>>
locals == <<pc, job, i, audience>>
vars == <<user, connected, status, locks, locals, told, deserted, requests>>

Slots == 0 .. MAX_CLIENTS - 1
Names == {Users[n] : n \in DOMAIN Users}
Offline == "offline"
Online == "online"
Status == {Offline, Online, "away"}
Sent == Status \cup {"other"}
NoJob == [who |-> None, new |-> Offline, leaving |-> FALSE]
Untold == [u \in Names |-> None]
Without(c) == [d \in Slots |-> audience[d] \ {c}]

Init ==
  /\ user = [c \in Slots |-> None]
  /\ connected = Slots
  /\ status = [u \in Names |-> Offline]
  /\ users_mutex = None
  /\ user_mutex = [u \in Names |-> None]
  /\ clients_mutex = None
  /\ pc = [c \in Slots |-> "loop"]
  /\ job = [c \in Slots |-> NoJob]
  /\ i = [c \in Slots |-> 0]
  /\ told = [c \in Slots |-> Untold]
  /\ audience = [c \in Slots |-> {}]
  /\ deserted = {}
  /\ requests = 0

Goto(c, label) == pc' = [pc EXCEPT ![c] = label]
Take(c) == requests < MaxRequests /\ pc[c] = "loop" /\ requests' = requests + 1

-----------------------------------------------------------------------------
(* What begins a change of status.                                         *)

\* A good signature.  The connection may have been another user's.
Login(c, u) ==
  /\ Take(c)
  /\ users_mutex = None
  /\ user' = [user EXCEPT ![c] = u]
  /\ deserted' = deserted \cup ({user[c]} \ {u, None})
  /\ job' = [job EXCEPT ![c] = [who |-> u, new |-> Online, leaving |-> FALSE]]
  /\ Goto(c, "record")
  /\ audience' = Without(c)
  /\ UNCHANGED <<connected, status, locks, i, told>>

\* Mutated form of SetStatus: any byte is taken for a status.
SetAnyStatus(c, new) ==
  /\ Take(c)
  /\ user[c] # None
  /\ job' = [job EXCEPT ![c] = [who |-> user[c], new |-> new, leaving |-> FALSE]]
  /\ Goto(c, "find")
  /\ UNCHANGED <<user, connected, status, locks, i, audience, told, deserted>>

\* SET_STATUS with a byte beyond STATUS_AWAY is refused.
SetStatus(c, new) ==
  /\ Take(c)
  /\ user[c] # None
  /\ new \in Status
  /\ job' = [job EXCEPT ![c] = [who |-> user[c], new |-> new, leaving |-> FALSE]]
  /\ Goto(c, "find")
  /\ UNCHANGED <<user, connected, status, locks, i, audience, told, deserted>>

\* Mutated form of Leave: the teardown asks client->connected as well, and
\* after LOGOUT reports nobody.
LeaveUnlessOut(c) ==
  /\ pc[c] = "loop"
  /\ \/ user[c] # None /\ UNCHANGED <<user, connected>>
     \/ connected' = connected \ {c} /\ user' = [user EXCEPT ![c] = None]
  /\ job' = [job EXCEPT ![c] = [who |-> user[c], new |-> Offline, leaving |-> TRUE]]
  /\ Goto(c, IF c \in connected' THEN "find" ELSE "gone")
  /\ audience' = IF c \in connected' THEN audience ELSE Without(c)
  /\ UNCHANGED <<status, locks, i, told, deserted, requests>>

\* The connection ends, by itself or by LOGOUT, which takes it out of every
\* broadcast at once.  Without a login there is nobody to report.
Leave(c) ==
  /\ pc[c] = "loop"
  /\ \/ user[c] # None /\ UNCHANGED connected
     \/ connected' = connected \ {c}
  /\ job' = [job EXCEPT ![c] = [who |-> user[c], new |-> Offline, leaving |-> TRUE]]
  /\ Goto(c, IF user[c] = None THEN "gone" ELSE "find")
  /\ audience' = IF c \in connected' THEN audience ELSE Without(c)
  /\ UNCHANGED <<user, status, locks, i, told, deserted, requests>>

-----------------------------------------------------------------------------
(* The change: find_user, the write, the broadcast.                        *)

FindUser(c) ==
  /\ pc[c] = "find"
  /\ users_mutex = None
  /\ Goto(c, "record")
  /\ UNCHANGED <<user, connected, status, locks, job, i, audience, told,
                 deserted, requests>>

RecordLock(c) ==
  /\ pc[c] = "record"
  /\ user_mutex[job[c].who] = None
  /\ user_mutex' = [user_mutex EXCEPT ![job[c].who] = c]
  /\ Goto(c, "recording")
  /\ UNCHANGED <<user, connected, status, users_mutex, clients_mutex, job, i,
                 audience,
                 told, deserted, requests>>

Record(c) ==
  /\ pc[c] = "recording"
  /\ status' = [status EXCEPT ![job[c].who] = job[c].new]
  /\ user_mutex' = [user_mutex EXCEPT ![job[c].who] = None]
  /\ Goto(c, "broadcast")
  /\ UNCHANGED <<user, connected, users_mutex, clients_mutex, job, i, audience,
                 told,
                 deserted, requests>>

\* What follows a broadcast: the teardown gives the slot up.
Afterwards(c) ==
  /\ user' = IF job[c].leaving THEN [user EXCEPT ![c] = None] ELSE user
  /\ connected' = IF job[c].leaving THEN connected \ {c} ELSE connected
  /\ Goto(c, IF job[c].leaving THEN "gone" ELSE "loop")
  /\ job' = [job EXCEPT ![c] = NoJob]
  /\ audience' = [IF job[c].leaving THEN Without(c) ELSE audience
                    EXCEPT ![c] = {}]

\* No memory for the message: nobody is told.
BroadcastFails(c) ==
  /\ pc[c] = "broadcast"
  /\ Afterwards(c)
  /\ UNCHANGED <<status, locks, i, told, deserted, requests>>

\* Mutated form of BroadcastLock: the clients are told without clients_mutex.
BroadcastAtOnce(c) ==
  /\ pc[c] = "broadcast"
  /\ i' = [i EXCEPT ![c] = 0]
  /\ audience' = [audience EXCEPT ![c] =
       {d \in connected : user[d] \notin {None, job[c].who}}]
  /\ Goto(c, "telling")
  /\ UNCHANGED <<user, connected, status, locks, job, told,
                 deserted, requests>>

BroadcastLock(c) ==
  /\ pc[c] = "broadcast"
  /\ clients_mutex = None
  /\ clients_mutex' = c
  /\ i' = [i EXCEPT ![c] = 0]
  /\ audience' = [audience EXCEPT ![c] =
       {d \in connected : user[d] \notin {None, job[c].who}}]
  /\ Goto(c, "telling")
  /\ UNCHANGED <<user, connected, status, users_mutex, user_mutex, job, told,
                 deserted, requests>>

\* One turn of the loop: a logged in client of another user is told.
Tell(c) ==
  LET d == i[c] IN
  /\ pc[c] = "telling"
  /\ d < MAX_CLIENTS
  /\ told' = IF d \in connected /\ user[d] \notin {None, job[c].who}
             THEN [told EXCEPT ![d][job[c].who] = job[c].new] ELSE told
  /\ i' = [i EXCEPT ![c] = d + 1]
  /\ UNCHANGED <<user, connected, status, locks, pc, job, audience, deserted,
                 requests>>

BroadcastEnd(c) ==
  /\ pc[c] = "telling"
  /\ i[c] = MAX_CLIENTS
  /\ clients_mutex' = None
  /\ i' = [i EXCEPT ![c] = 0]
  /\ told' = [d \in Slots |-> Untold]
  /\ Afterwards(c)
  /\ UNCHANGED <<status, users_mutex, user_mutex, deserted, requests>>

-----------------------------------------------------------------------------
(* LIST_USERS.                                                             *)

ListLock(c) ==
  /\ Take(c)
  /\ user[c] # None
  /\ users_mutex = None
  /\ users_mutex' = c
  /\ i' = [i EXCEPT ![c] = 1]
  /\ Goto(c, "listing")
  /\ UNCHANGED <<user, connected, status, user_mutex, clients_mutex, job,
                 audience, told, deserted>>

\* Mutated form of ListFails: users_mutex is kept.
ListFailsLocked(c) ==
  /\ pc[c] = "listing"
  /\ i[c] = 1
  /\ i' = [i EXCEPT ![c] = 0]
  /\ Goto(c, "loop")
  /\ UNCHANGED <<user, connected, status, locks, job, audience,
                 told, deserted, requests>>

ListFails(c) ==
  /\ pc[c] = "listing"
  /\ i[c] = 1
  /\ users_mutex' = None
  /\ i' = [i EXCEPT ![c] = 0]
  /\ Goto(c, "loop")
  /\ UNCHANGED <<user, connected, status, user_mutex, clients_mutex, job,
                 audience,
                 told, deserted, requests>>

\* One turn of the second pass, under both mutexes.
ListRead(c) ==
  /\ pc[c] = "listing"
  /\ i[c] <= Len(Users)
  /\ user_mutex[Users[i[c]]] = None
  /\ i' = [i EXCEPT ![c] = @ + 1]
  /\ UNCHANGED <<user, connected, status, locks, pc, job, audience, told,
                 deserted, requests>>

ListUnlock(c) ==
  /\ pc[c] = "listing"
  /\ i[c] > Len(Users)
  /\ users_mutex' = None
  /\ i' = [i EXCEPT ![c] = 0]
  /\ Goto(c, "loop")
  /\ UNCHANGED <<user, connected, status, user_mutex, clients_mutex, job,
                 audience,
                 told, deserted, requests>>

-----------------------------------------------------------------------------

Change(c) ==
  \/ FindUser(c) \/ RecordLock(c) \/ Record(c)
  \/ BroadcastFails(c) \/ BroadcastLock(c) \/ Tell(c) \/ BroadcastEnd(c)

List(c) == ListFails(c) \/ ListRead(c) \/ ListUnlock(c)

Request(c) ==
  \/ \E u \in Names : Login(c, u)
  \/ \E new \in Sent : SetStatus(c, new)
  \/ ListLock(c) \/ Leave(c)

Next == \E c \in Slots : Request(c) \/ Change(c) \/ List(c)

Spec == Init /\ [][Next]_vars

\* A handler under way goes on.  Requests are bounded, so a mutex waited for
\* is free for good in the end and weak fairness is enough.
FairSpec == Spec /\ \A c \in Slots : WF_vars(Change(c) \/ List(c))

-----------------------------------------------------------------------------

TypeOK ==
  /\ user \in [Slots -> Names \cup {None}]
  /\ connected \subseteq Slots
  /\ status \in [Names -> Status]
  /\ users_mutex \in Slots \cup {None}
  /\ user_mutex \in [Names -> Slots \cup {None}]
  /\ clients_mutex \in Slots \cup {None}
  /\ pc \in [Slots -> {"loop", "find", "record", "recording", "broadcast",
                       "telling", "listing", "gone"}]
  /\ job \in [Slots -> [who : Names \cup {None}, new : Status, leaving : BOOLEAN]]
  /\ i \in [Slots -> 0 .. MAX_CLIENTS + Len(Users)]
  /\ told \in [Slots -> [Names -> Status \cup {None}]]
  /\ audience \in [Slots -> SUBSET Slots]
  /\ deserted \subseteq Names
  /\ requests \in 0 .. MaxRequests

\* Broadcasts are whole: when one ends, every client of another user that was
\* logged in as it began, and has stayed so, was told this status last,
\* though other connections of the same user report meanwhile and clients
\* log in, log out and leave.
BroadcastWhole ==
  \A c \in Slots : pc[c] = "telling" /\ i[c] = MAX_CLIENTS =>
    \A d \in audience[c] : told[d][job[c].who] = job[c].new

\* No ghosts: when nobody is logged in as a user and nobody is about to
\* report it, its record says offline, whatever its connections set it to
\* and in whichever order they ended.  Only a user whose connection logged in
\* as somebody else is left behind: no code reports that (user_management.c:102).
NoGhosts ==
  \A u \in Names \ deserted :
    (\A c \in Slots : user[c] # u) => status[u] = Offline

\* No request hangs: the teardown's and the list's mutexes are never waited
\* for in a circle, whichever handlers meet.
RequestsEnd ==
  \A c \in Slots : (pc[c] \notin {"loop", "gone"}) ~> (pc[c] \in {"loop", "gone"})
=============================================================================
