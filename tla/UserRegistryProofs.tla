------------------------- MODULE UserRegistryProofs -------------------------
(***************************************************************************)
(* The user table for any number of threads, names and places.  Unique     *)
(* names follow from what a thread inside add_user has established while   *)
(* it holds users_mutex: none of the places it went past has its name.     *)
(***************************************************************************)
EXTENDS UserRegistry, TLAPS

MutexInv == \A t \in Threads : users_mutex = t <=> pc[t] \in Scanning

SearchInv ==
  \A t \in Threads :
    /\ pc[t] \in Scanning => i[t] <= user_count
    /\ pc[t] \in {"add_scan", "add_commit"} =>
         /\ user_count < MAX_CLIENTS
         /\ \A k \in Registered :
              k < i[t] => users[k].username # arg[t].username
    /\ pc[t] = "add_commit" =>
         i[t] = user_count /\ users[user_count] = arg[t]
    /\ pc[t] \in {"list", "list_fill"} => arg[t].username = None
    /\ pc[t] = "list_fill" => size[t] = user_count

IInv == TypeOK /\ MutexInv /\ SearchInv /\ NamesUnique /\ AnswersHold

-----------------------------------------------------------------------------

LEMMA InitIInv == Init => IInv
BY RegistryAssumption
   DEF Init, IInv, TypeOK, MutexInv, SearchInv, NamesUnique, AnswersHold,
       AnswerTrue, Index, Registered, Record, Blank, Scanning, Ok, Error, Exists, Null

LEMMA CallIInv ==
  ASSUME IInv, NEW t \in Threads, Request(t)
  PROVE  IInv'
<1> USE RegistryAssumption DEF IInv
<1>0. PICK label \in {"add", "find", "list"}, n \in Names \cup {None},
           k \in Keys \cup {None} :
        Call(t, label, n, k) /\ (label = "list" => n = None)
  BY DEF Request
<1> USE DEF Call, Goto
<1>1. TypeOK'
  BY <1>0 DEF TypeOK, Record
<1>2. MutexInv'
  BY <1>0 DEF MutexInv, TypeOK, Scanning
<1>3. SearchInv'
  BY <1>0 DEF SearchInv, TypeOK, Scanning, Registered
<1>4. NamesUnique'
  BY <1>0 DEF NamesUnique, Registered
<1>5. AnswersHold'
  BY <1>0 DEF AnswersHold, AnswerTrue, TypeOK, Registered
<1>6. QED
  BY <1>1, <1>2, <1>3, <1>4, <1>5

\* The steps that leave the table alone: the mutex and a loop variable move.
LEMMA AddLockIInv ==
  ASSUME IInv, NEW t \in Threads, AddLock(t)
  PROVE  IInv'
<1> USE RegistryAssumption DEF IInv, Goto, Return, AddLock
<1>1. TypeOK'
  <2>1. users_mutex' \in Threads \cup {None} /\ arg' = arg
    BY DEF TypeOK
  <2>2. pc' \in [Threads -> {"idle", "add", "find", "list"} \cup Scanning]
    BY DEF TypeOK, Scanning
  <2>3. i' \in [Threads -> 0 .. MAX_CLIENTS]
    BY DEF TypeOK
  <2>4. size' \in [Threads -> 0 .. MAX_CLIENTS]
    BY DEF TypeOK
  <2>5. result' \in [Threads -> {Ok, Error, Exists, Null} \cup Index]
    BY DEF TypeOK, Index
  <2>6. QED
    BY <2>1, <2>2, <2>3, <2>4, <2>5 DEF TypeOK
<1>2. MutexInv'
  BY DEF MutexInv, TypeOK, Scanning
<1>3. SearchInv'
  BY DEF SearchInv, TypeOK, Scanning, Registered, MutexInv
<1>4. NamesUnique'
  BY DEF NamesUnique, Registered
<1>5. AnswersHold'
  <2>1. ASSUME NEW u \in Threads, u # t, pc'[u] = "idle" PROVE AnswerTrue(u)'
    BY <2>1 DEF AnswersHold, AnswerTrue, Registered, TypeOK
  <2>2. ASSUME pc'[t] = "idle" PROVE AnswerTrue(t)'
    BY <2>2 DEF AnswerTrue, Registered, TypeOK, SearchInv, Scanning, Ok, Error,
       Exists, Null, Index
  <2>3. QED
    BY <2>1, <2>2 DEF AnswersHold
<1>6. QED
  BY <1>1, <1>2, <1>3, <1>4, <1>5

\* A place that add_user went past does not have the name it looks for.
LEMMA AddScanIInv ==
  ASSUME IInv, NEW t \in Threads, AddScan(t)
  PROVE  IInv'
<1> USE RegistryAssumption DEF IInv, Goto, Return, AddScan
<1>1. TypeOK'
  <2>1. users_mutex' \in Threads \cup {None} /\ arg' = arg
    BY DEF TypeOK
  <2>2. pc' \in [Threads -> {"idle", "add", "find", "list"} \cup Scanning]
    BY DEF TypeOK, Scanning
  <2>3. i' \in [Threads -> 0 .. MAX_CLIENTS]
    BY DEF TypeOK
  <2>4. size' \in [Threads -> 0 .. MAX_CLIENTS]
    BY DEF TypeOK
  <2>5. result' \in [Threads -> {Ok, Error, Exists, Null} \cup Index]
    BY DEF TypeOK, Index
  <2>6. QED
    BY <2>1, <2>2, <2>3, <2>4, <2>5 DEF TypeOK
<1>2. MutexInv'
  BY DEF MutexInv, TypeOK, Scanning
<1>3. SearchInv'
  <2>1. CASE users[i[t]].username = arg[t].username
    BY <2>1 DEF SearchInv, TypeOK, Scanning, Registered
  <2>2. CASE users[i[t]].username # arg[t].username
    <3>1. /\ i' = [i EXCEPT ![t] = @ + 1] /\ i[t] \in Nat
          /\ UNCHANGED <<pc, arg, size, users, user_count>>
      BY <2>2 DEF TypeOK
    <3>2. \A k \in Registered :
            k < i'[t] => users[k].username # arg[t].username
      BY <2>2, <3>1 DEF SearchInv, TypeOK, Registered
    <3>3. i'[t] <= user_count
      BY <3>1 DEF TypeOK
    <3>4. QED
      BY <3>1, <3>2, <3>3 DEF SearchInv, TypeOK, Registered
  <2>3. QED
    BY <2>1, <2>2
<1>4. NamesUnique'
  BY DEF NamesUnique, Registered
<1>5. AnswersHold'
  <2>1. ASSUME NEW u \in Threads, u # t, pc'[u] = "idle" PROVE AnswerTrue(u)'
    BY <2>1 DEF AnswersHold, AnswerTrue, Registered, TypeOK
  <2>2. ASSUME pc'[t] = "idle" PROVE AnswerTrue(t)'
    BY <2>2 DEF AnswerTrue, Registered, TypeOK, SearchInv, Scanning, Ok, Error,
       Exists, Null, Index
  <2>3. QED
    BY <2>1, <2>2 DEF AnswersHold
<1>6. QED
  BY <1>1, <1>2, <1>3, <1>4, <1>5

\* find_user and handle_list_users only read.
LEMMA FindLockIInv ==
  ASSUME IInv, NEW t \in Threads, FindLock(t)
  PROVE  IInv'
<1> USE RegistryAssumption DEF IInv, Goto, Return, FindLock
<1>1. TypeOK'
  <2>1. users_mutex' \in Threads \cup {None} /\ arg' = arg
    BY DEF TypeOK
  <2>2. pc' \in [Threads -> {"idle", "add", "find", "list"} \cup Scanning]
    BY DEF TypeOK, Scanning
  <2>3. i' \in [Threads -> 0 .. MAX_CLIENTS]
    BY DEF TypeOK
  <2>4. size' \in [Threads -> 0 .. MAX_CLIENTS]
    BY DEF TypeOK
  <2>5. result' \in [Threads -> {Ok, Error, Exists, Null} \cup Index]
    BY DEF TypeOK, Index
  <2>6. QED
    BY <2>1, <2>2, <2>3, <2>4, <2>5 DEF TypeOK
<1>2. MutexInv'
  BY DEF MutexInv, TypeOK, Scanning
<1>3. SearchInv'
  BY DEF SearchInv, TypeOK, Scanning, Registered, MutexInv
<1>4. NamesUnique'
  BY DEF NamesUnique, Registered
<1>5. AnswersHold'
  <2>1. ASSUME NEW u \in Threads, u # t, pc'[u] = "idle" PROVE AnswerTrue(u)'
    BY <2>1 DEF AnswersHold, AnswerTrue, Registered, TypeOK
  <2>2. ASSUME pc'[t] = "idle" PROVE AnswerTrue(t)'
    BY <2>2 DEF AnswerTrue, Registered, TypeOK, SearchInv, Scanning, Ok, Error,
       Exists, Null, Index
  <2>3. QED
    BY <2>1, <2>2 DEF AnswersHold
<1>6. QED
  BY <1>1, <1>2, <1>3, <1>4, <1>5

\* The place find_user returns is registered under the name it was asked for.
LEMMA FindScanIInv ==
  ASSUME IInv, NEW t \in Threads, FindScan(t)
  PROVE  IInv'
<1> USE RegistryAssumption DEF IInv, Goto, Return, FindScan
<1>1. TypeOK'
  <2>1. users_mutex' \in Threads \cup {None} /\ arg' = arg
    BY DEF TypeOK
  <2>2. pc' \in [Threads -> {"idle", "add", "find", "list"} \cup Scanning]
    BY DEF TypeOK, Scanning
  <2>3. i' \in [Threads -> 0 .. MAX_CLIENTS]
    BY DEF TypeOK
  <2>4. size' \in [Threads -> 0 .. MAX_CLIENTS]
    BY DEF TypeOK
  <2>5. result' \in [Threads -> {Ok, Error, Exists, Null} \cup Index]
    <3>1. i[t] < user_count => i[t] \in Index
      BY DEF TypeOK, Index
    <3>2. QED
      BY <3>1 DEF TypeOK
  <2>6. QED
    BY <2>1, <2>2, <2>3, <2>4, <2>5 DEF TypeOK
<1>2. MutexInv'
  BY DEF MutexInv, TypeOK, Scanning
<1>3. SearchInv'
  BY DEF SearchInv, TypeOK, Scanning, Registered, MutexInv
<1>4. NamesUnique'
  BY DEF NamesUnique, Registered
<1>5. AnswersHold'
  <2>1. ASSUME NEW u \in Threads, u # t, pc'[u] = "idle" PROVE AnswerTrue(u)'
    BY <2>1 DEF AnswersHold, AnswerTrue, Registered, TypeOK
  <2>2. ASSUME pc'[t] = "idle" PROVE AnswerTrue(t)'
    BY <2>2 DEF AnswerTrue, Registered, TypeOK, SearchInv, Scanning, Ok, Error,
       Exists, Null, Index
  <2>3. QED
    BY <2>1, <2>2 DEF AnswersHold
<1>6. QED
  BY <1>1, <1>2, <1>3, <1>4, <1>5

\* handle_list_users holds the mutex over both of its passes.
LEMMA ListIInv ==
  ASSUME IInv, NEW t \in Threads, ListSize(t) \/ ListFails(t) \/ ListFill(t)
  PROVE  IInv'
<1> USE RegistryAssumption DEF IInv, Goto, Return, ListSize, ListFails, ListFill
<1>1. TypeOK'
  <2>1. users_mutex' \in Threads \cup {None} /\ arg' = arg
    BY DEF TypeOK
  <2>2. pc' \in [Threads -> {"idle", "add", "find", "list"} \cup Scanning]
    BY DEF TypeOK, Scanning
  <2>3. i' \in [Threads -> 0 .. MAX_CLIENTS]
    BY DEF TypeOK
  <2>4. size' \in [Threads -> 0 .. MAX_CLIENTS]
    BY DEF TypeOK
  <2>5. result' \in [Threads -> {Ok, Error, Exists, Null} \cup Index]
    BY DEF TypeOK, Index
  <2>6. QED
    BY <2>1, <2>2, <2>3, <2>4, <2>5 DEF TypeOK
<1>2. MutexInv'
  BY DEF MutexInv, TypeOK, Scanning
<1>3. SearchInv'
  BY DEF SearchInv, TypeOK, Scanning, Registered, MutexInv
<1>4. NamesUnique'
  BY DEF NamesUnique, Registered
<1>5. AnswersHold'
  <2>1. ASSUME NEW u \in Threads, u # t, pc'[u] = "idle" PROVE AnswerTrue(u)'
    BY <2>1 DEF AnswersHold, AnswerTrue, Registered, TypeOK
  <2>2. ASSUME pc'[t] = "idle" PROVE AnswerTrue(t)'
    BY <2>2 DEF AnswerTrue, Registered, TypeOK, SearchInv, Scanning, Ok, Error,
       Exists, Null, Index
  <2>3. QED
    BY <2>1, <2>2 DEF AnswersHold
<1>6. QED
  BY <1>1, <1>2, <1>3, <1>4, <1>5

LEMMA FillIInv ==
  ASSUME IInv, NEW t \in Threads, AddFill(t)
  PROVE  IInv'
<1> USE RegistryAssumption DEF IInv, AddFill, Goto
<1>0. /\ users_mutex = t /\ user_count < MAX_CLIENTS /\ i[t] = user_count
      /\ \A k \in Registered : users'[k] = users[k]
      /\ users'[user_count] = arg[t]
  BY DEF MutexInv, SearchInv, Scanning, TypeOK, Registered, Index
<1>1. TypeOK'
  BY <1>0 DEF TypeOK, Index, Scanning
<1>2. MutexInv'
  BY DEF MutexInv, TypeOK, Scanning
<1>3. SearchInv'
  BY <1>0 DEF SearchInv, TypeOK, Scanning, Registered, MutexInv
<1>4. NamesUnique'
  BY <1>0 DEF NamesUnique, Registered
<1>5. AnswersHold'
  BY <1>0 DEF AnswersHold, AnswerTrue, TypeOK, Registered
<1>6. QED
  BY <1>1, <1>2, <1>3, <1>4, <1>5

LEMMA CommitIInv ==
  ASSUME IInv, NEW t \in Threads, AddCommit(t)
  PROVE  IInv'
<1> USE RegistryAssumption DEF IInv, AddCommit, Goto, Return
<1>0. /\ users_mutex = t /\ user_count \in Nat /\ user_count < MAX_CLIENTS
      /\ i[t] = user_count
      /\ users[user_count] = arg[t]
      /\ \A k \in Registered : users[k].username # arg[t].username
      /\ Registered' = Registered \cup {user_count}
  BY DEF MutexInv, SearchInv, Scanning, TypeOK, Registered
<1>1. TypeOK'
  BY <1>0 DEF TypeOK
<1>2. MutexInv'
  BY <1>0 DEF MutexInv, TypeOK, Scanning
<1>3. SearchInv'
  BY <1>0 DEF SearchInv, TypeOK, Scanning, MutexInv
<1>4. NamesUnique'
  BY <1>0 DEF NamesUnique
<1>5. AnswersHold'
  BY <1>0 DEF AnswersHold, AnswerTrue, TypeOK, Index, Ok, Exists
<1>6. QED
  BY <1>1, <1>2, <1>3, <1>4, <1>5

LEMMA NextIInv == IInv /\ [Next]_vars => IInv'
<1> SUFFICES ASSUME IInv, [Next]_vars PROVE IInv'
  OBVIOUS
<1>1. ASSUME NEW t \in Threads, Request(t) \/ Step(t) PROVE IInv'
  BY <1>1, CallIInv, AddLockIInv, AddScanIInv, FindLockIInv,
     FindScanIInv, ListIInv, FillIInv, CommitIInv DEF Step
<1>2. CASE UNCHANGED vars
  BY <1>2 DEF vars, locals, IInv, TypeOK, MutexInv, SearchInv, NamesUnique,
     AnswersHold, AnswerTrue, Registered
<1>3. QED
  BY <1>1, <1>2 DEF Next

THEOREM Invariance == Spec => []IInv
BY InitIInv, NextIInv, PTL DEF Spec

\* The table never holds more users than it has places.
THEOREM TypeCorrect == Spec => []TypeOK
<1>1. IInv => TypeOK
  BY DEF IInv
<1>2. QED
  BY <1>1, Invariance, PTL

\* However many registrations of a name race, one of them wins.
THEOREM NamesStayUnique == Spec => []NamesUnique
<1>1. IInv => NamesUnique
  BY DEF IInv
<1>2. QED
  BY <1>1, Invariance, PTL

\* What add_user and find_user told a thread stays true while it uses it.
THEOREM AnswersStayTrue == Spec => []AnswersHold
<1>1. IInv => AnswersHold
  BY DEF IInv
<1>2. QED
  BY <1>1, Invariance, PTL

\* The two passes of LIST_USERS agree on the number of users.
THEOREM ListAlwaysFits == Spec => []ListFits
<1>1. IInv => ListFits
  BY DEF IInv, ListFits, SearchInv, Scanning, TypeOK
<1>2. QED
  BY <1>1, Invariance, PTL

\* A registered user's place, name and key never change, so the pointer
\* that find_user gives out may be used without users_mutex.
THEOREM RecordsNeverChange == Spec => RecordsImmutable
<1>1. IInv /\ [Next]_vars =>
        [\A k \in Registered : k \in Registered' /\ users'[k] = users[k]]_vars
  <2> SUFFICES ASSUME IInv, Next, NEW k \in Registered
               PROVE  k \in Registered' /\ users'[k] = users[k]
    OBVIOUS
  <2>1. CASE UNCHANGED <<users, user_count>>
    BY <2>1 DEF Registered
  <2>2. ASSUME NEW t \in Threads, AddFill(t)
        PROVE  k \in Registered' /\ users'[k] = users[k]
    BY <2>2 DEF AddFill, IInv, TypeOK, Registered, Index
  <2>3. ASSUME NEW t \in Threads, AddCommit(t)
        PROVE  k \in Registered' /\ users'[k] = users[k]
    BY <2>3 DEF AddCommit, IInv, TypeOK, Registered
  <2>4. QED
    BY <2>1, <2>2, <2>3
       DEF Next, Request, Step, Call, AddLock, AddScan, FindLock, FindScan,
           ListSize, ListFails, ListFill
<1>2. QED
  BY <1>1, Invariance, PTL DEF Spec, RecordsImmutable
=============================================================================
