---------------------------- MODULE PresenceProofs ----------------------------
(***************************************************************************)
(* What clients are told and what the records say, for any number of       *)
(* slots, users and requests.  Neither property is inductive: that a       *)
(* record says offline depends on which of the user's handlers have        *)
(* written it, and that a broadcast is whole depends on nobody leaving its *)
(* audience unnoticed and on nobody else telling anything meanwhile.       *)
(***************************************************************************)
EXTENDS Presence, TLAPS

\* A handler that changes a status changes that of the user of its slot.
Changing == {"find", "record", "recording", "broadcast", "telling"}
JobInv ==
  \A c \in Slots :
    /\ pc[c] \in Changing => job[c].who \in Names /\ user[c] = job[c].who
    /\ job[c].leaving => job[c].new = Offline

\* The loop variables stay in their loops.
LoopInv ==
  \A c \in Slots :
    /\ pc[c] = "telling" => i[c] <= MAX_CLIENTS
    /\ pc[c] = "listing" => i[c] <= Len(Users) + 1

\* A leaving handler that has written OFFLINE: its slot still has the user.
Reported(c) == job[c].leaving /\ pc[c] \in {"broadcast", "telling"}

\* NoGhosts, from the write on: the last handler of a user to write leaves.
StatusInv ==
  \A u \in Names \ deserted :
    (\A c \in Slots : user[c] = u => Reported(c)) => status[u] = Offline

\* Who tells holds clients_mutex; its audience is still there, and those it
\* has come to were told.
Telling(c) ==
  /\ clients_mutex = c
  /\ \A d \in audience[c] :
       /\ d \in connected
       /\ user[d] \notin {None, job[c].who}
       /\ d < i[c] => told[d][job[c].who] = job[c].new

TellingInv == \A c \in Slots : pc[c] = "telling" => Telling(c)

IInv == TypeOK /\ JobInv /\ LoopInv /\ StatusInv /\ TellingInv

-----------------------------------------------------------------------------

LEMMA NoneIsNobody == None \notin Slots /\ None \notin Names
BY PresenceAssumption DEF Slots, Names

LEMMA InitIInv == Init => IInv
<1> SUFFICES ASSUME Init PROVE IInv
  OBVIOUS
<1>1. TypeOK
  BY PresenceAssumption DEF Init, TypeOK, NoJob, Untold, Status, Offline, Slots
<1>2. JobInv /\ LoopInv
  BY DEF Init, JobInv, LoopInv, NoJob, Changing
<1>3. StatusInv /\ TellingInv
  BY NoneIsNobody DEF Init, StatusInv, TellingInv
<1>4. QED
  BY <1>1, <1>2, <1>3 DEF IInv

\* The steps of a handler, in the groups in which they disturb the invariant.
LEMMA RequestType ==
  ASSUME IInv, NEW c \in Slots, Request(c)
  PROVE  TypeOK' /\ LoopInv'
<1> USE PresenceAssumption DEF IInv, locks, locals, Goto, Take
<1>1. ASSUME NEW u \in Names, Login(c, u) PROVE TypeOK' /\ LoopInv'
  BY <1>1 DEF TypeOK, LoopInv, Login, Without, Status, Online, Offline
<1>2. ASSUME NEW new \in Sent, SetStatus(c, new) PROVE TypeOK' /\ LoopInv'
  BY <1>2 DEF TypeOK, LoopInv, SetStatus, Status
<1>3. CASE ListLock(c)
  BY <1>3 DEF TypeOK, LoopInv, ListLock
<1>4. CASE Leave(c)
  BY <1>4 DEF TypeOK, LoopInv, Leave, Without, Status, Offline
<1>5. QED
  BY <1>1, <1>2, <1>3, <1>4 DEF Request

LEMMA LenIsNat == Len(Users) \in Nat
BY PresenceAssumption

\* What follows a broadcast, by itself.
LEMMA AfterwardsType ==
  ASSUME IInv, NEW c \in Slots, Afterwards(c)
  PROVE  /\ user' \in [Slots -> Names \cup {None}]
         /\ connected' \subseteq Slots
         /\ pc' \in [Slots -> {"loop", "find", "record", "recording", "broadcast",
                              "telling", "listing", "gone"}]
         /\ pc' = [pc EXCEPT ![c] = IF job[c].leaving THEN "gone" ELSE "loop"]
         /\ job' \in [Slots -> [who : Names \cup {None}, new : Status,
                                leaving : BOOLEAN]]
         /\ audience' \in [Slots -> SUBSET Slots]
<1> USE DEF IInv, TypeOK, Afterwards, Goto
<1>1. NoJob \in [who : Names \cup {None}, new : Status, leaving : BOOLEAN]
  BY DEF NoJob, Status, Offline
<1>2. Without(c) \in [Slots -> SUBSET Slots]
  BY DEF Without
<1>3. user' \in [Slots -> Names \cup {None}] /\ connected' \subseteq Slots
  OBVIOUS
<1>4. job' \in [Slots -> [who : Names \cup {None}, new : Status, leaving : BOOLEAN]]
  BY <1>1
<1>5. /\ pc' \in [Slots -> {"loop", "find", "record", "recording", "broadcast",
                           "telling", "listing", "gone"}]
      /\ pc' = [pc EXCEPT ![c] = IF job[c].leaving THEN "gone" ELSE "loop"]
  OBVIOUS
<1>6. audience' \in [Slots -> SUBSET Slots]
  BY <1>2
<1>7. QED
  BY <1>3, <1>4, <1>5, <1>6

LEMMA StepType ==
  ASSUME IInv, NEW c \in Slots, Change(c) \/ List(c)
  PROVE  TypeOK' /\ LoopInv'
<1> USE PresenceAssumption, LenIsNat DEF IInv, locks, locals
<1>1. CASE FindUser(c)
  BY <1>1 DEF TypeOK, LoopInv, FindUser, Goto
<1>2. CASE RecordLock(c)
  BY <1>2 DEF TypeOK, LoopInv, RecordLock, Goto
<1>3. CASE Record(c)
  BY <1>3 DEF TypeOK, LoopInv, Record, Goto
<1>4. CASE BroadcastFails(c)
  BY <1>4, AfterwardsType DEF TypeOK, LoopInv, BroadcastFails
<1>5. CASE BroadcastEnd(c)
  <2>1. told' \in [Slots -> [Names -> Status \cup {None}]]
    BY <1>5 DEF BroadcastEnd, Untold
  <2>2. QED
    BY <1>5, <2>1, AfterwardsType DEF TypeOK, LoopInv, BroadcastEnd
<1>6. CASE BroadcastLock(c)
  BY <1>6 DEF TypeOK, LoopInv, BroadcastLock, Goto
<1>7. CASE Tell(c)
  <2>1. told' \in [Slots -> [Names -> Status \cup {None}]]
    <3>1. job[c].who \in Names /\ job[c].new \in Status
      BY <1>7 DEF TypeOK, JobInv, Changing, Tell
    <3>2. CASE told' = told
      BY <3>2 DEF TypeOK
    <3>3. CASE told' = [told EXCEPT ![i[c]][job[c].who] = job[c].new]
      BY <3>1, <3>3 DEF TypeOK
    <3>4. QED
      BY <1>7, <3>2, <3>3 DEF Tell
  <2>2. i' = [i EXCEPT ![c] = i[c] + 1] /\ i[c] + 1 \in 0 .. MAX_CLIENTS
    BY <1>7 DEF Tell, TypeOK
  <2>3. i' \in [Slots -> 0 .. MAX_CLIENTS + Len(Users)]
    BY <2>2 DEF TypeOK
  <2>4. LoopInv'
    BY <1>7, <2>2 DEF Tell, LoopInv, TypeOK
  <2>5. QED
    BY <1>7, <2>1, <2>3, <2>4 DEF Tell, TypeOK
<1>8. CASE List(c)
  <2>1. CASE ListFails(c) \/ ListUnlock(c)
    <3>1. /\ i' = [i EXCEPT ![c] = 0]
          /\ pc' = [pc EXCEPT ![c] = "loop"]
          /\ users_mutex' = None
          /\ UNCHANGED <<user, connected, status, user_mutex, clients_mutex, job,
                         audience, told, deserted, requests>>
      BY <2>1 DEF ListFails, ListUnlock, Goto
    <3>2. i' \in [Slots -> 0 .. MAX_CLIENTS + Len(Users)]
      BY <3>1 DEF TypeOK
    <3>3. LoopInv'
      BY <3>1 DEF LoopInv, TypeOK
    <3>4. QED
      BY <3>1, <3>2, <3>3 DEF TypeOK
  <2>2. CASE ListRead(c)
    <3>1. i' = [i EXCEPT ![c] = i[c] + 1] /\ i[c] \in Nat /\ i[c] <= Len(Users)
      BY <2>2 DEF TypeOK, ListRead
    <3>2. i' \in [Slots -> 0 .. MAX_CLIENTS + Len(Users)]
      BY <3>1 DEF TypeOK
    <3>3. LoopInv'
      BY <2>2, <3>1 DEF LoopInv, ListRead, TypeOK
    <3>4. QED
      BY <2>2, <3>2, <3>3 DEF TypeOK, ListRead
  <2>3. QED
    BY <1>8, <2>1, <2>2 DEF List
<1>9. QED
  BY <1>1, <1>2, <1>3, <1>4, <1>5, <1>6, <1>7, <1>8 DEF Change

-----------------------------------------------------------------------------

LEMMA JobInvStep ==
  ASSUME IInv, NEW c \in Slots, Request(c) \/ Change(c) \/ List(c)
  PROVE  JobInv'
<1> USE DEF IInv, TypeOK, JobInv, Changing, Goto, Take
<1>1. ASSUME NEW u \in Names, Login(c, u) PROVE JobInv'
  BY <1>1 DEF Login, Online, Offline
<1>2. ASSUME NEW new \in Sent, SetStatus(c, new) PROVE JobInv'
  BY <1>2 DEF SetStatus
<1>3. CASE Leave(c)
  BY <1>3 DEF Leave
<1>4. CASE FindUser(c) \/ RecordLock(c) \/ Record(c) \/ BroadcastLock(c) \/ Tell(c)
  BY <1>4 DEF FindUser, RecordLock, Record, BroadcastLock, Tell
<1>5. CASE BroadcastFails(c) \/ BroadcastEnd(c)
  <2>1. Afterwards(c)
    BY <1>5 DEF BroadcastFails, BroadcastEnd
  <2>2. QED
    BY <2>1 DEF Afterwards, NoJob
<1>6. CASE ListLock(c) \/ List(c)
  BY <1>6 DEF ListLock, List, ListFails, ListRead, ListUnlock, locals
<1>7. QED
  BY <1>1, <1>2, <1>3, <1>4, <1>5, <1>6 DEF Request, Change

\* No record is written, and no handler's report counts that did not before.
LEMMA StatusKept ==
  ASSUME StatusInv, status' = status, deserted \subseteq deserted',
         \A d \in Slots : \A u \in Names \ deserted' :
           (user'[d] = u => Reported(d)') => (user[d] = u => Reported(d))
  PROVE  StatusInv'
BY DEF StatusInv

LEMMA StatusInvStep ==
  ASSUME IInv, NEW c \in Slots, Request(c) \/ Change(c) \/ List(c)
  PROVE  StatusInv'
<1> USE DEF IInv, Goto, Take, Reported
<1>0. /\ user \in [Slots -> Names \cup {None}]
      /\ pc \in [Slots -> {"loop", "find", "record", "recording", "broadcast",
                           "telling", "listing", "gone"}]
      /\ job \in [Slots -> [who : Names \cup {None}, new : Status, leaving : BOOLEAN]]
      /\ status \in [Names -> Status]
      /\ deserted \subseteq Names
  BY DEF TypeOK
<1>1. ASSUME NEW v \in Names, Login(c, v) PROVE StatusInv'
  <2>1. ASSUME NEW d \in Slots, NEW u \in Names \ deserted',
               user'[d] = u => Reported(d)'
        PROVE  user[d] = u => Reported(d)
    <3>1. CASE d = c
      <4>1. u # v
        BY <1>0, <1>1, <2>1, <3>1 DEF Login
      <4>2. user[c] # u
        BY <1>0, <1>1, <4>1, NoneIsNobody DEF Login
      <4>3. QED
        BY <3>1, <4>2
    <3>2. CASE d # c
      BY <1>0, <1>1, <2>1, <3>2 DEF Login
    <3>3. QED
      BY <3>1, <3>2
  <2>2. status' = status /\ deserted \subseteq deserted'
    BY <1>1 DEF Login
  <2>3. QED
    BY <2>1, <2>2, StatusKept
<1>2. CASE \/ \E new \in Sent : SetStatus(c, new)
           \/ Leave(c) \/ FindUser(c) \/ RecordLock(c) \/ ListLock(c)
  <2>1. /\ user' = user /\ status' = status /\ deserted' = deserted
        /\ ~Reported(c)
        /\ ~Reported(c)'
        /\ \A d \in Slots \ {c} : pc'[d] = pc[d] /\ job'[d] = job[d]
    BY <1>0, <1>2
       DEF SetStatus, Leave, FindUser, RecordLock, ListLock, locals
  <2>2. QED
    BY <2>1, StatusKept
<1>3. CASE Record(c)
  <2>1. job[c].who \in Names /\ user[c] = job[c].who
    BY <1>3 DEF Record, JobInv, Changing
  <2>2. ASSUME NEW u \in Names \ deserted',
               \A d \in Slots : user'[d] = u => Reported(d)'
        PROVE  status'[u] = Offline
    <3>1. CASE u = job[c].who
      <4>1. job[c].leaving
        BY <1>3, <2>1, <2>2, <3>1 DEF Record
      <4>2. QED
        BY <1>0, <1>3, <2>1, <3>1, <4>1 DEF Record, JobInv
    <3>2. CASE u # job[c].who
      <4>1. \A d \in Slots : user[d] = u => Reported(d)
        BY <1>0, <1>3, <2>1, <2>2, <3>2 DEF Record
      <4>2. QED
        BY <1>0, <1>3, <2>1, <3>2, <4>1 DEF Record, StatusInv
    <3>3. QED
      BY <3>1, <3>2
  <2>3. QED
    BY <2>2 DEF StatusInv
<1>4. CASE BroadcastFails(c) \/ BroadcastEnd(c)
  <2>1. Afterwards(c) /\ status' = status /\ deserted' = deserted
        /\ pc[c] \in {"broadcast", "telling"}
    BY <1>4 DEF BroadcastFails, BroadcastEnd
  <2>2. ASSUME NEW d \in Slots, NEW u \in Names \ deserted',
               user'[d] = u => Reported(d)'
        PROVE  user[d] = u => Reported(d)
    <3>1. CASE d = c /\ job[c].leaving
      BY <2>1, <3>1
    <3>2. CASE d = c /\ ~job[c].leaving
      BY <1>0, <2>1, <2>2, <3>2 DEF Afterwards
    <3>3. CASE d # c
      BY <1>0, <2>1, <2>2, <3>3 DEF Afterwards
    <3>4. QED
      BY <1>0, <3>1, <3>2, <3>3
  <2>3. QED
    BY <2>1, <2>2, StatusKept
<1>5. CASE BroadcastLock(c) \/ Tell(c)
  <2>1. /\ user' = user /\ status' = status /\ deserted' = deserted /\ job' = job
        /\ \A d \in Slots : pc'[d] = pc[d] \/ pc[d] = "broadcast"
    BY <1>0, <1>5 DEF BroadcastLock, Tell
  <2>2. QED
    BY <1>0, <1>5, <2>1, StatusKept DEF BroadcastLock, Tell
<1>6. CASE List(c)
  <2>1. /\ user' = user /\ status' = status /\ deserted' = deserted
        /\ ~Reported(c)
        /\ ~Reported(c)'
        /\ \A d \in Slots \ {c} : pc'[d] = pc[d] /\ job'[d] = job[d]
    BY <1>0, <1>6 DEF List, ListFails, ListRead, ListUnlock, locals
  <2>2. QED
    BY <2>1, StatusKept
<1>7. QED
  BY <1>1, <1>2, <1>3, <1>4, <1>5, <1>6 DEF Request, Change

-----------------------------------------------------------------------------

\* A step that leaves a broadcast alone: it may only take clients out of its
\* audience.
LEMMA TellingKept ==
  ASSUME NEW t \in Slots, Telling(t), clients_mutex' = clients_mutex,
         job'[t] = job[t], i'[t] = i[t], told' = told,
         \A d \in audience'[t] :
           d \in audience[t] /\ user'[d] = user[d] /\ d \in connected'
  PROVE  Telling(t)'
BY DEF Telling

LEMMA TellingInvStep ==
  ASSUME IInv, NEW c \in Slots, Request(c) \/ Change(c) \/ List(c)
  PROVE  TellingInv'
<1> USE DEF IInv, Goto, Take
<1> SUFFICES ASSUME NEW t \in Slots, pc'[t] = "telling"
             PROVE  Telling(t)'
  BY DEF TellingInv
<1>0. /\ user \in [Slots -> Names \cup {None}]
      /\ connected \subseteq Slots
      /\ pc \in [Slots -> {"loop", "find", "record", "recording", "broadcast",
                           "telling", "listing", "gone"}]
      /\ job \in [Slots -> [who : Names \cup {None}, new : Status, leaving : BOOLEAN]]
      /\ i \in [Slots -> 0 .. MAX_CLIENTS + Len(Users)]
      /\ told \in [Slots -> [Names -> Status \cup {None}]]
      /\ audience \in [Slots -> SUBSET Slots]
  BY DEF TypeOK
<1>a. ASSUME t # c, pc[t] = "telling" PROVE Telling(t) /\ clients_mutex = t
  BY <1>a DEF TellingInv, Telling
<1>1. CASE \/ \E u \in Names : Login(c, u)
           \/ \E new \in Sent : SetStatus(c, new)
           \/ Leave(c) \/ ListLock(c)
           \/ FindUser(c) \/ RecordLock(c) \/ Record(c) \/ List(c)
  <2>1. /\ t # c /\ pc[t] = "telling"
        /\ clients_mutex' = clients_mutex /\ told' = told
        /\ job'[t] = job[t] /\ i'[t] = i[t]
    BY <1>0, <1>1 DEF Login, SetStatus, Leave, ListLock, FindUser, RecordLock,
                      Record, List, ListFails, ListRead, ListUnlock, locks, locals
  <2>2. ASSUME NEW d \in audience'[t]
        PROVE  d \in audience[t] /\ (d \in connected => d \in connected')
               /\ user'[d] = user[d]
    <3>1. CASE UNCHANGED <<user, connected, audience>>
      BY <3>1
    <3>2. CASE \E u \in Names : Login(c, u)
      BY <1>0, <3>2 DEF Login, Without
    <3>3. CASE Leave(c)
      BY <1>0, <3>3 DEF Leave, Without
    <3>4. QED
      BY <1>1, <3>1, <3>2, <3>3
         DEF SetStatus, ListLock, FindUser, RecordLock, Record, List, ListFails,
             ListRead, ListUnlock, locals
  <2>3. QED
    BY <1>a, <2>1, <2>2, TellingKept DEF Telling
<1>2. CASE BroadcastFails(c)
  <2>1. /\ t # c /\ pc[t] = "telling"
        /\ clients_mutex' = clients_mutex /\ told' = told
        /\ job'[t] = job[t] /\ i'[t] = i[t]
    BY <1>0, <1>2 DEF BroadcastFails, Afterwards, locks
  <2>2. ASSUME NEW d \in audience'[t]
        PROVE  d \in audience[t] /\ (d \in connected => d \in connected')
               /\ user'[d] = user[d]
    BY <1>0, <1>2, <2>1 DEF BroadcastFails, Afterwards, Without
  <2>3. QED
    BY <1>a, <2>1, <2>2, TellingKept DEF Telling
<1>3. CASE BroadcastLock(c)
  <2>1. t = c
    BY <1>0, <1>3, <1>a, NoneIsNobody DEF BroadcastLock
  <2>2. /\ clients_mutex' = c /\ user' = user /\ connected' = connected /\ job' = job
        /\ i'[c] = 0
        /\ audience'[c] = {d \in connected : user[d] \notin {None, job[c].who}}
    BY <1>0, <1>3 DEF BroadcastLock
  <2>3. \A d \in Slots : ~(d < 0)
    BY PresenceAssumption DEF Slots
  <2>4. QED
    BY <1>0, <2>1, <2>2, <2>3 DEF Telling
<1>4. CASE Tell(c)
  <2>1. /\ pc[c] = "telling" /\ pc' = pc
        /\ user' = user /\ connected' = connected /\ job' = job
        /\ clients_mutex' = clients_mutex /\ audience' = audience
        /\ i' = [i EXCEPT ![c] = i[c] + 1]
    BY <1>4 DEF Tell, locks
  <2>2. Telling(c) /\ t = c
    BY <1>a, <2>1 DEF TellingInv, Telling
  <2>3. job[c].who \in Names
    BY <2>1 DEF JobInv, Changing
  <2>4. ASSUME NEW d \in audience[c], d < i[c] + 1
        PROVE  told'[d][job[c].who] = job[c].new
    <3>1. d \in Slots /\ d \in Int /\ i[c] \in Int
      BY <1>0, PresenceAssumption DEF Slots
    <3>2. d \in connected /\ user[d] \notin {None, job[c].who}
      BY <2>2 DEF Telling
    <3>3. CASE d = i[c]
      <4>1. told' = [told EXCEPT ![d][job[c].who] = job[c].new]
        BY <1>4, <3>2, <3>3 DEF Tell
      <4>2. QED
        BY <1>0, <2>3, <3>1, <4>1
    <3>4. CASE d < i[c]
      <4>1. told[d][job[c].who] = job[c].new
        BY <2>2, <3>4 DEF Telling
      <4>2. told'[d] = told[d]
        <5>1. CASE told' = told
          BY <5>1
        <5>2. CASE told' = [told EXCEPT ![i[c]][job[c].who] = job[c].new]
          BY <1>0, <3>1, <3>4, <5>2
        <5>3. QED
          BY <1>4, <5>1, <5>2 DEF Tell
      <4>3. QED
        BY <4>1, <4>2
    <3>5. QED
      BY <2>4, <3>1, <3>3, <3>4
  <2>5. QED
    BY <1>0, <2>1, <2>2, <2>4 DEF Telling
<1>5. CASE BroadcastEnd(c)
  <2>1. pc[c] = "telling" /\ t # c /\ pc[t] = "telling"
    BY <1>0, <1>5 DEF BroadcastEnd, Afterwards
  <2>2. clients_mutex = c
    BY <2>1 DEF TellingInv, Telling
  <2>3. QED
    BY <1>a, <2>1, <2>2
<1>6. QED
  BY <1>1, <1>2, <1>3, <1>4, <1>5 DEF Request, Change

-----------------------------------------------------------------------------

LEMMA NextIInv == IInv /\ [Next]_vars => IInv'
<1> SUFFICES ASSUME IInv, [Next]_vars PROVE IInv'
  OBVIOUS
<1>1. ASSUME NEW c \in Slots, Request(c) \/ Change(c) \/ List(c) PROVE IInv'
  <2>1. TypeOK' /\ LoopInv'
    BY <1>1, RequestType, StepType
  <2>2. JobInv' /\ StatusInv' /\ TellingInv'
    BY <1>1, JobInvStep, StatusInvStep, TellingInvStep
  <2>3. QED
    BY <2>1, <2>2 DEF IInv
<1>2. CASE UNCHANGED vars
  BY <1>2 DEF vars, locks, locals, IInv, TypeOK, JobInv, LoopInv, StatusInv, Reported,
              TellingInv, Telling
<1>3. QED
  BY <1>1, <1>2 DEF Next

\* The inductive invariant, and with it the types of every variable: no
\* handler indexes past the slots or the users, or broadcasts for nobody.
THEOREM Invariance == Spec => []IInv
BY InitIInv, NextIInv, PTL DEF Spec

\* Every variable keeps to the values the code can give it
\* (user_management.c:92-160).
THEOREM TypeCorrect == Spec => []TypeOK
<1>1. IInv => TypeOK
  BY DEF IInv
<1>2. QED
  BY <1>1, Invariance, PTL

\* When a broadcast ends, every client of another user that was logged in as
\* it began and stayed so was told this status last, however many handlers
\* report and however clients come and go (user_management.c:114-141).
THEOREM BroadcastsAreWhole == Spec => []BroadcastWhole
<1>1. IInv => BroadcastWhole
  <2> SUFFICES ASSUME IInv, NEW c \in Slots, pc[c] = "telling", i[c] = MAX_CLIENTS,
                      NEW d \in audience[c]
               PROVE  told[d][job[c].who] = job[c].new
    BY DEF BroadcastWhole
  <2>1. d \in Slots /\ d < MAX_CLIENTS
    BY PresenceAssumption DEF IInv, TypeOK, Slots
  <2>2. QED
    BY <2>1 DEF IInv, TellingInv, Telling
<1>2. QED
  BY <1>1, Invariance, PTL

\* A user nobody is logged in as, and nobody is about to report, is offline in
\* the records, unless a connection of it logged in as somebody else
\* (user_management.c:92-106, client_handler.c:117-121).
THEOREM NoGhostsRemain == Spec => []NoGhosts
<1>1. IInv => NoGhosts
  BY DEF IInv, StatusInv, NoGhosts
<1>2. QED
  BY <1>1, Invariance, PTL
=============================================================================
