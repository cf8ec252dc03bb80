------------------------- MODULE ConnectionTableProofs -------------------------
(***************************************************************************)
(* Slots, descriptors and handlers for any number of each.  Until the      *)
(* first LOGOUT, or the sweep that ends the process, a handler and the     *)
(* accept loop never come upon each other's slot or descriptor.  That is   *)
(* not inductive by itself: it hangs on what the accept loop has in hand   *)
(* between two of its steps and on a slot staying connected until its      *)
(* handler has closed the socket.                                          *)
(***************************************************************************)
EXTENDS ConnectionTable, TLAPS

\* No LOGOUT was served and the sweep of cleanup_server has not begun.
Calm == logouts = 0 /\ main.pc \notin {"sweep", "exited"}

ScanInv == main.pc \in {"wipe", "fill", "spawn"} => main.slot \in Slots

\* The handler has not given its slot up.
Holding(c) == Serving(c) \/ pc[c] = "unsetting"

\* What the accept loop has in hand between accept and pthread_create.
Admitting == {"scan", "wipe", "fill", "spawn"}
MainInv ==
  /\ main.pc \in Admitting =>
       /\ main.conn \in Conns /\ main.fd \in Fds
       /\ open[main.fd] = main.conn
       /\ pc[main.conn] = "accepted"
  /\ main.pc \notin Admitting => main.conn = None
  /\ main.pc \in {"wipe", "fill"} => ~clients[main.slot].connected
  /\ main.pc = "spawn" =>
       /\ clients[main.slot].connected
       /\ clients[main.slot].socket_fd = main.fd
       /\ \A c \in Conns : Holding(c) => slot[c] # main.slot
  /\ main.pc \in {"fill", "spawn"} => clients[main.slot].username = None

\* A slot is connected while its handler holds it, and no other does.
HolderInv ==
  \A c \in Conns :
    /\ Holding(c) =>
         /\ clients[slot[c]].connected
         /\ \A d \in Conns : Holding(d) /\ slot[c] = slot[d] => c = d
    /\ pc[c] = "recv" => src[c] = c

\* A connection has one descriptor, and the listener keeps its own.
FdInv ==
  /\ \A f, g \in Fds : open[f] \in Conns /\ open[f] = open[g] => f = g
  /\ running => open[server_socket] = Listener

TableInv == MainInv /\ HolderInv /\ FdInv /\ OwnSocket /\ NoFdLeak /\ NoForeignUser
IInv == TypeOK /\ ScanInv /\ (Calm => TableInv)

-----------------------------------------------------------------------------
(* Types.                                                                  *)

LEMMA NoneIsNobody ==
  /\ None \notin Conns /\ Console \notin Conns /\ Listener \notin Conns
  /\ None # Listener
BY TableAssumption

MainLabel == {"accept", "scan", "wipe", "fill", "spawn", "cleanup", "sweep", "exited"}
MainState == [pc : MainLabel, conn : Conns \cup {None}, fd : -1 .. MaxFd,
              slot : 0 .. MAX_CLIENTS]

LEMMA FewSlots ==
  /\ MAX_CLIENTS \in Nat /\ MaxFd \in Nat /\ server_socket \in Fds
  /\ \A k \in 0 .. MAX_CLIENTS : k < MAX_CLIENTS <=> k \in Slots
BY TableAssumption DEF Slots, Fds, server_socket

\* The ways in which a slot is written: which fields change, and that those
\* of the other slots do not.
Table == [Slots -> Client]

Unmarked(new, tbl, i) ==
  /\ new \in Table
  /\ \A j \in Slots : /\ new[j].socket_fd = tbl[j].socket_fd
                      /\ new[j].connected = IF j = i THEN FALSE ELSE tbl[j].connected
                      /\ new[j].username = tbl[j].username

Unset(new, tbl, i) ==
  /\ new \in Table
  /\ \A j \in Slots : /\ new[j].socket_fd = IF j = i THEN -1 ELSE tbl[j].socket_fd
                      /\ new[j].connected = IF j = i THEN FALSE ELSE tbl[j].connected
                      /\ new[j].username = tbl[j].username

Named(new, tbl, i, u) ==
  /\ new \in Table
  /\ \A j \in Slots : /\ new[j].socket_fd = tbl[j].socket_fd
                      /\ new[j].connected = tbl[j].connected
                      /\ new[j].username = IF j = i THEN u ELSE tbl[j].username

Tenanted(new, tbl, i, fd) ==
  /\ new \in Table
  /\ \A j \in Slots : /\ new[j].socket_fd = IF j = i THEN fd ELSE tbl[j].socket_fd
                      /\ new[j].connected = IF j = i THEN TRUE ELSE tbl[j].connected
                      /\ new[j].username = tbl[j].username

Wiped(new, tbl, i) ==
  /\ new \in Table
  /\ \A j \in Slots : /\ new[j].socket_fd = IF j = i THEN 0 ELSE tbl[j].socket_fd
                      /\ new[j].connected = IF j = i THEN FALSE ELSE tbl[j].connected
                      /\ new[j].username = IF j = i THEN None ELSE tbl[j].username

LEMMA SetConnected ==
  ASSUME NEW tbl \in Table, NEW i \in Slots,
         NEW new, new = [tbl EXCEPT ![i].connected = FALSE]
  PROVE  Unmarked(new, tbl, i)
BY DEF Table, Client, Unmarked

LEMMA SetSocket ==
  ASSUME NEW tbl \in Table, NEW i \in Slots, -1 \in -1 .. MaxFd,
         NEW new, new = [tbl EXCEPT ![i].socket_fd = -1, ![i].connected = FALSE]
  PROVE  Unset(new, tbl, i)
BY DEF Table, Client, Unset

LEMMA SetUser ==
  ASSUME NEW tbl \in Table, NEW i \in Slots, NEW a \in BOOLEAN, NEW u \in Conns \cup {None},
         NEW new, new = [tbl EXCEPT ![i].authenticated = a, ![i].username = u]
  PROVE  Named(new, tbl, i, u)
BY DEF Table, Client, Named

LEMMA SetTenant ==
  ASSUME NEW tbl \in Table, NEW i \in Slots, NEW fd \in -1 .. MaxFd,
         NEW new, new = [tbl EXCEPT ![i].socket_fd = fd, ![i].connected = TRUE,
                               ![i].authenticated = FALSE]
  PROVE  Tenanted(new, tbl, i, fd)
BY DEF Table, Client, Tenanted

LEMMA SetBlank ==
  ASSUME NEW tbl \in Table, NEW i \in Slots, 0 \in -1 .. MaxFd,
         NEW new, new = [tbl EXCEPT ![i] = [socket_fd |-> 0, connected |-> FALSE,
                                 authenticated |-> FALSE, username |-> None]]
  PROVE  Wiped(new, tbl, i)
BY DEF Table, Client, Wiped

LEMMA TurnType ==
  /\ Waiting \in MainState /\ Leaving \in MainState /\ NextTurn \in MainState
  /\ NextTurn.pc \in {"accept", "cleanup"} /\ NextTurn.conn = None
  /\ [Waiting EXCEPT !.pc = "exited"] \in MainState
BY FewSlots DEF Waiting, Leaving, NextTurn, MainState, MainLabel

\* What the actions that write a slot make of the table.
LEMMA Writes ==
  ASSUME TypeOK, ScanInv
  PROVE  /\ Wipe => Wiped(clients', clients, main.slot)
         /\ Fill => Tenanted(clients', clients, main.slot, main.fd)
         /\ SpawnFails => Unmarked(clients', clients, main.slot)
         /\ \A c \in Conns :
              /\ RecvLogin(c) => Named(clients', clients, slot[c], src[c])
              /\ RecvLogout(c) => Unmarked(clients', clients, slot[c])
              /\ LeaveSlot(c) => Unset(clients', clients, slot[c])
              /\ ClearUser(c) => Named(clients', clients, slot[c], None)
<1>0. /\ clients \in Table
      /\ \A c \in Conns : slot[c] \in Slots /\ src[c] \in Conns \cup {None}
      /\ main.fd \in -1 .. MaxFd
  BY DEF TypeOK, Table
<1>1. TRUE \in BOOLEAN /\ FALSE \in BOOLEAN /\ 0 \in -1 .. MaxFd /\ -1 \in -1 .. MaxFd
      /\ None \in Conns \cup {None}
  BY FewSlots
<1>2. ASSUME Wipe PROVE Wiped(clients', clients, main.slot)
  <2>1. main.slot \in Slots
    BY <1>2 DEF Wipe, ScanInv
  <2>2. QED
    BY <1>0, <1>1, <1>2, <2>1, SetBlank DEF Wipe
<1>3. ASSUME Fill PROVE Tenanted(clients', clients, main.slot, main.fd)
  <2>1. main.slot \in Slots
    BY <1>3 DEF Fill, ScanInv
  <2>2. clients' = [clients EXCEPT ![main.slot].socket_fd = main.fd,
                                   ![main.slot].connected = TRUE,
                                   ![main.slot].authenticated = FALSE]
    BY <1>3 DEF Fill
  <2>3. QED
    BY <1>0, <2>1, <2>2, SetTenant, Zenon
<1>4. ASSUME SpawnFails PROVE Unmarked(clients', clients, main.slot)
  <2>1. main.slot \in Slots
    BY <1>4 DEF SpawnFails, ScanInv
  <2>2. clients' = [clients EXCEPT ![main.slot].connected = FALSE]
    BY <1>4 DEF SpawnFails
  <2>3. QED
    BY <1>0, <2>1, <2>2, SetConnected, Zenon
<1>5. ASSUME NEW c \in Conns, RecvLogin(c)
      PROVE  Named(clients', clients, slot[c], src[c])
  <2>1. clients' = [clients EXCEPT ![slot[c]].authenticated = TRUE,
                                   ![slot[c]].username = src[c]]
    BY <1>5 DEF RecvLogin
  <2>2. QED
    BY <1>0, <1>1, <2>1, SetUser, Zenon
<1>6. ASSUME NEW c \in Conns, RecvLogout(c) PROVE Unmarked(clients', clients, slot[c])
  <2>1. clients' = [clients EXCEPT ![slot[c]].connected = FALSE]
    BY <1>6 DEF RecvLogout
  <2>2. QED
    BY <1>0, <2>1, SetConnected, Zenon
<1>7. ASSUME NEW c \in Conns, LeaveSlot(c) PROVE Unset(clients', clients, slot[c])
  <2>1. clients' = [clients EXCEPT ![slot[c]].socket_fd = -1, ![slot[c]].connected = FALSE]
    BY <1>7 DEF LeaveSlot
  <2>2. QED
    BY <1>0, <1>1, <2>1, SetSocket, Zenon
<1>8. ASSUME NEW c \in Conns, ClearUser(c) PROVE Named(clients', clients, slot[c], None)
  <2>1. clients' = [clients EXCEPT ![slot[c]].authenticated = FALSE, ![slot[c]].username = None]
    BY <1>8 DEF ClearUser
  <2>2. QED
    BY <1>0, <1>1, <2>1, SetUser, Zenon
<1>9. QED
  BY <1>2, <1>3, <1>4, <1>5, <1>6, <1>7, <1>8, Zenon

LEMMA InitTypes == Init => TypeOK /\ ScanInv
<1> SUFFICES ASSUME Init PROVE TypeOK /\ ScanInv
  OBVIOUS
<1>1. clients \in [Slots -> Client]
  BY FewSlots DEF Init, Client
<1>2. open \in [Fds -> Conns \cup {None, Console, Listener}]
  BY DEF Init
<1>3. main \in MainState /\ ScanInv
  BY TurnType DEF Init, ScanInv, Waiting
<1>4. slot \in [Conns -> Slots] /\ mail \in [Conns -> [to : Conns \cup {None}, slot : Slots]]
  BY TableAssumption DEF Init, NoMail, Slots
<1>5. logouts \in 0 .. MaxLogouts
  BY TableAssumption DEF Init
<1>6. QED
  BY <1>1, <1>2, <1>3, <1>4, <1>5 DEF Init, TypeOK, HandlerPc, MainState, MainLabel

LEMMA MainType ==
  ASSUME TypeOK, ScanInv, Main
  PROVE  TypeOK' /\ ScanInv'
<1>0. main \in MainState
  BY DEF TypeOK, MainState, MainLabel
<1>a. ASSUME main' \in MainState PROVE main' \in
        [pc : {"accept", "scan", "wipe", "fill", "spawn", "cleanup", "sweep", "exited"},
         conn : Conns \cup {None}, fd : -1 .. MaxFd, slot : 0 .. MAX_CLIENTS]
  BY <1>a DEF MainState, MainLabel
<1>1. ASSUME NEW c \in Conns, Accept(c) PROVE TypeOK' /\ ScanInv'
  <2>1. PICK f \in Fds :
          /\ open' = [open EXCEPT ![f] = c]
          /\ main' = [pc |-> "scan", conn |-> c, fd |-> f, slot |-> 0]
    BY <1>1 DEF Accept
  <2>2. main' \in MainState
    BY <2>1, FewSlots DEF MainState, MainLabel, Fds
  <2>3. QED
    BY <1>1, <1>a, <2>1, <2>2 DEF Accept, TypeOK, ScanInv, threads, HandlerPc
<1>2. CASE Scan
  <2>1. main.slot \in Slots /\ main.slot + 1 \in 0 .. MAX_CLIENTS
    BY <1>0, <1>2, FewSlots DEF Scan, MainState
  <2>2. main' \in MainState /\ ScanInv'
    BY <1>0, <1>2, <2>1 DEF Scan, ScanInv, MainState, MainLabel
  <2>3. QED
    BY <1>2, <1>a, <2>2 DEF Scan, TypeOK, threads
<1>3. CASE Reject
  BY <1>3, <1>a, TurnType DEF Reject, TypeOK, ScanInv, HandlerPc
<1>4. CASE Wipe
  <2>1. main' \in MainState /\ main'.pc = "fill" /\ main'.slot = main.slot
        /\ main.pc = "wipe"
    BY <1>0, <1>4 DEF Wipe, MainState, MainLabel
  <2>2. clients' \in Table
    BY <1>4, Writes DEF Wiped
  <2>3. QED
    BY <1>4, <1>a, <2>1, <2>2 DEF Wipe, TypeOK, Table, threads, ScanInv
<1>5. CASE Fill
  <2>1. main' \in MainState /\ main'.pc = "spawn" /\ main'.slot = main.slot
        /\ main.pc = "fill"
    BY <1>0, <1>5 DEF Fill, MainState, MainLabel
  <2>2. clients' \in Table
    BY <1>5, Writes DEF Tenanted
  <2>3. QED
    BY <1>5, <1>a, <2>1, <2>2 DEF Fill, TypeOK, Table, threads, ScanInv
<1>6. CASE Spawn
  <2>1. main.slot \in Slots
    BY <1>6 DEF Spawn, ScanInv
  <2>2. QED
    BY <1>6, <1>a, <2>1, TurnType DEF Spawn, TypeOK, ScanInv, HandlerPc
<1>7. CASE SpawnFails
  <2>1. clients' \in Table
    BY <1>7, Writes DEF Unmarked
  <2>2. QED
    BY <1>7, <1>a, <2>1, TurnType DEF SpawnFails, TypeOK, Table, ScanInv, HandlerPc
<1>8. CASE AcceptFails
  BY <1>8, <1>a, TurnType DEF AcceptFails, TypeOK, ScanInv, threads, Leaving
<1>9. CASE CloseListener
  <2>1. main' \in MainState /\ main'.pc = "sweep"
    BY <1>0, <1>9 DEF CloseListener, MainState, MainLabel
  <2>2. QED
    BY <1>9, <1>a, <2>1 DEF CloseListener, TypeOK, ScanInv, threads
<1>10. CASE Sweep
  <2>1. main.slot + 1 \in 0 .. MAX_CLIENTS /\ main.slot \in Slots
    BY <1>0, <1>10, FewSlots DEF Sweep, MainState
  <2>2. main' \in MainState /\ main'.pc = "sweep"
    BY <1>0, <1>10, <2>1 DEF Sweep, MainState
  <2>3. clients' \in Table
    <3> DEFINE b == clients[main.slot].connected
                    /\ ~(clients[main.slot].connected /\ clients[main.slot].socket_fd >= 0)
               row == [clients[main.slot] EXCEPT !.connected = b]
    <3>1. clients' = [clients EXCEPT ![main.slot] = row]
      BY <1>10 DEF Sweep
    <3>2. row \in Client
      <4>1. clients[main.slot] \in Client /\ b \in BOOLEAN
        BY <2>1 DEF TypeOK
      <4> HIDE DEF b
      <4>2. QED
        BY <4>1 DEF Client
    <3> HIDE DEF row
    <3>3. QED
      BY <2>1, <3>1, <3>2 DEF TypeOK, Table
  <2>4. open' \in [Fds -> Conns \cup {None, Console, Listener}]
    BY <1>10 DEF Sweep, TypeOK
  <2>5. QED
    BY <1>10, <1>a, <2>2, <2>3, <2>4 DEF Sweep, TypeOK, Table, ScanInv, threads
<1>11. CASE Exit
  <2>1. main' \in MainState /\ main'.pc = "exited"
    BY <1>11, TurnType DEF Exit, Waiting
  <2>2. pc' \in [Conns -> HandlerPc] /\ open' \in [Fds -> Conns \cup {None, Console, Listener}]
    BY <1>11 DEF Exit, TypeOK, HandlerPc
  <2>3. QED
    BY <1>11, <1>a, <2>1, <2>2 DEF Exit, TypeOK, ScanInv
<1>12. QED
  BY <1>1, <1>2, <1>3, <1>4, <1>5, <1>6, <1>7, <1>8, <1>9, <1>10, <1>11 DEF Main

LEMMA HandlerType ==
  ASSUME TypeOK, ScanInv, NEW c \in Conns, Handler(c)
  PROVE  TypeOK' /\ ScanInv'
<1> USE DEF Goto
<1>0. clients \in Table /\ slot[c] \in Slots /\ src[c] \in Conns \cup {None}
  BY DEF TypeOK, Table
<1>1. main' = main /\ ScanInv'
  BY DEF Handler, Teardown, LoopTest, RecvEnds, RecvOther, RecvLogin, Announce, RecvLogout,
         Relayed, RecvSend, TakeMutex, Farewell, CloseSocket, LeaveSlot, ClearUser,
         HandlerEnds, ScanInv
<1>2. CASE LoopTest(c)
  BY <1>1, <1>2 DEF LoopTest, TypeOK, HandlerPc
<1>3. CASE RecvEnds(c) \/ RecvOther(c) \/ Announce(c) \/ Farewell(c)
  BY <1>1, <1>3 DEF RecvEnds, RecvOther, Announce, Farewell, TypeOK, HandlerPc
<1>4. CASE RecvLogin(c)
  <2>1. clients' \in Table
    BY <1>4, Writes DEF Named
  <2>2. QED
    BY <1>1, <1>4, <2>1 DEF RecvLogin, TypeOK, Table, HandlerPc
<1>5. CASE RecvLogout(c)
  <2>1. clients' \in Table
    BY <1>5, Writes DEF Unmarked
  <2>2. logouts' \in 0 .. MaxLogouts
    BY <1>5, TableAssumption DEF RecvLogout, TypeOK
  <2>3. QED
    BY <1>1, <1>5, <2>1, <2>2 DEF RecvLogout, TypeOK, Table, HandlerPc
<1>6. CASE Relayed(c)
  BY <1>1, <1>6, TableAssumption DEF Relayed, TypeOK, HandlerPc, NoMail, Slots
<1>7. ASSUME NEW u \in Conns, RecvSend(c, u) PROVE TypeOK' /\ ScanInv'
  <2>1. mail' \in [Conns -> [to : Conns \cup {None}, slot : Slots]]
    BY <1>7 DEF RecvSend, TypeOK
  <2>2. QED
    BY <1>1, <1>7, <2>1 DEF RecvSend, TypeOK, HandlerPc
<1>8. CASE TakeMutex(c) \/ HandlerEnds(c)
  <2>1. pc' \in [Conns -> HandlerPc]
    BY <1>8 DEF TakeMutex, HandlerEnds, TypeOK, HandlerPc
  <2>2. client_mutex' \in [Slots -> Conns \cup {None}]
    BY <1>8 DEF TakeMutex, HandlerEnds, TypeOK
  <2>3. slot' \in [Conns -> Slots]
    <3>1. 0 \in Slots
      BY TableAssumption DEF Slots
    <3>2. QED
      BY <1>8, <3>1 DEF TakeMutex, HandlerEnds, TypeOK
  <2>4. QED
    BY <1>1, <1>8, <2>1, <2>2, <2>3 DEF TakeMutex, HandlerEnds, TypeOK
<1>9. CASE CloseSocket(c)
  BY <1>1, <1>9 DEF CloseSocket, TypeOK, HandlerPc
<1>10. CASE LeaveSlot(c)
  <2>2. clients' \in Table
    BY <1>10, Writes DEF Unset
  <2>3. QED
    BY <1>1, <1>10, <2>2 DEF LeaveSlot, TypeOK, Table, HandlerPc
<1>11. CASE ClearUser(c)
  <2>2. clients' \in Table
    BY <1>11, Writes DEF Named
  <2>3. QED
    BY <1>1, <1>11, <2>2 DEF ClearUser, TypeOK, Table, HandlerPc
<1>12. QED
  BY <1>2, <1>3, <1>4, <1>5, <1>6, <1>7, <1>8, <1>9, <1>10, <1>11 DEF Handler, Teardown

LEMMA StepType ==
  ASSUME TypeOK, ScanInv, [Next]_vars
  PROVE  TypeOK' /\ ScanInv'
<1>1. CASE Main
  BY <1>1, MainType
<1>2. CASE Signal
  BY <1>2 DEF Signal, TypeOK, ScanInv, threads
<1>3. ASSUME NEW c \in Conns, Drop(c) PROVE TypeOK' /\ ScanInv'
  BY <1>3 DEF Drop, TypeOK, ScanInv, threads
<1>4. ASSUME NEW c \in Conns, Handler(c) PROVE TypeOK' /\ ScanInv'
  BY <1>4, HandlerType
<1>5. CASE UNCHANGED vars
  BY <1>5 DEF vars, TypeOK, ScanInv, threads
<1>6. QED
  BY <1>1, <1>2, <1>3, <1>4, <1>5 DEF Next


-----------------------------------------------------------------------------
(* The table.                                                              *)

\* Calm does not come back: no LOGOUT is taken back, no sweep is left.
LEMMA CalmBefore ==
  ASSUME TypeOK, [Next]_vars, Calm'
  PROVE  Calm
<1>1. logouts \in Nat
  BY TableAssumption DEF TypeOK
<1>2. ASSUME NEW c \in Conns, Handler(c) PROVE Calm
  BY <1>1, <1>2 DEF Calm, Handler, Teardown, LoopTest, RecvEnds, RecvOther, RecvLogin,
         Announce, RecvLogout, Relayed, RecvSend, TakeMutex, Farewell, CloseSocket,
         LeaveSlot, ClearUser, HandlerEnds
<1>3. CASE Main
  <2>1. CASE main.pc \in {"sweep", "exited"}
    <3>1. Sweep \/ Exit
      BY <1>3, <2>1 DEF Main, Scan, Reject, Wipe, Fill, Spawn, SpawnFails, Accept,
             AcceptFails, CloseListener
    <3>2. main'.pc \in {"sweep", "exited"}
      BY <3>1, <2>1 DEF TypeOK, Sweep, Exit, Waiting
    <3>3. QED
      BY <3>2 DEF Calm
  <2>2. logouts' = logouts
    BY <1>3 DEF Main, Scan, Reject, Wipe, Fill, Spawn, SpawnFails, Accept, AcceptFails,
           CloseListener, Sweep, Exit
  <2>3. QED
    BY <2>1, <2>2 DEF Calm
<1>4. CASE Signal \/ (\E c \in Conns : Drop(c)) \/ UNCHANGED vars
  BY <1>4 DEF Calm, Signal, Drop, vars
<1>5. QED
  BY <1>2, <1>3, <1>4 DEF Next

\* The descriptor of a serving handler's slot has its connection behind it.
LEMMA OwnFd ==
  ASSUME TypeOK, OwnSocket, NEW c \in Conns, Serving(c)
  PROVE  /\ slot[c] \in Slots
         /\ clients[slot[c]].socket_fd \in Fds
         /\ clients[slot[c]].socket_fd # -1
         /\ open[clients[slot[c]].socket_fd] = c
<1>1. Behind(slot[c]) = c /\ c # None
  BY NoneIsNobody DEF OwnSocket
<1>2. slot[c] \in Slots /\ clients[slot[c]].socket_fd \in -1 .. MaxFd
  BY DEF TypeOK, Client
<1>3. clients[slot[c]].socket_fd # -1
  BY <1>1 DEF Behind
<1>4. QED
  BY <1>1, <1>2, <1>3, FewSlots DEF Behind, Fds

LEMMA ServingHolds == \A c \in Conns : Serving(c) => Holding(c)
BY DEF Holding

\* Where the other handlers stand when c goes on, and where c does.
LEMMA Goes ==
  ASSUME TypeOK, NEW c \in Conns, NEW label \in HandlerPc,
         pc' = [pc EXCEPT ![c] = label]
  PROVE  /\ \A d \in Conns : d # c =>
              /\ pc'[d] = pc[d]
              /\ Serving(d)' <=> Serving(d)
              /\ Holding(d)' <=> Holding(d)
         /\ pc'[c] = label
         /\ Serving(c)' <=> label \in {"loop", "recv", "announce", "relay", "leaving",
                                       "farewell", "closing"}
         /\ Holding(c)' <=> Serving(c)' \/ label = "unsetting"
BY DEF TypeOK, Serving, Holding

\* A step that leaves the descriptors, what a slot has in them and the accept
\* loop alone, and takes no handler in or out of its slot.
LEMMA Keeps ==
  ASSUME TypeOK, ScanInv, TableInv,
         open' = open, main' = main, signal' = signal,
         \A i \in Slots : /\ clients'[i].socket_fd = clients[i].socket_fd
                          /\ clients'[i].connected = clients[i].connected,
         \A d \in Conns : /\ Serving(d)' <=> Serving(d)
                          /\ Holding(d)' <=> Holding(d)
                          /\ Holding(d) => slot'[d] = slot[d]
                          /\ pc[d] = "accepted" => pc'[d] = "accepted"
                          /\ pc'[d] = "recv" => src'[d] = d,
         main.pc \in {"fill", "spawn"} => clients'[main.slot].username = None,
         NoForeignUser'
  PROVE  TableInv'
<1>0. \A d \in Conns : slot[d] \in Slots
  BY DEF TypeOK
<1>1. MainInv'
  BY DEF TableInv, MainInv, ScanInv
<1>2. HolderInv'
  BY <1>0 DEF TableInv, HolderInv
<1>3. FdInv'
  BY DEF TableInv, FdInv, running, server_socket
<1>4. OwnSocket'
  BY <1>0, ServingHolds DEF TableInv, OwnSocket, Behind
<1>5. NoFdLeak'
  BY DEF TableInv, NoFdLeak
<1>6. QED
  BY <1>1, <1>2, <1>3, <1>4, <1>5 DEF TableInv

\* The steps of a handler that stays in its slot.
LEMMA ServingKeeps ==
  ASSUME TypeOK, ScanInv, TableInv, NEW c \in Conns, Serving(c),
         NEW label \in {"loop", "recv", "announce", "relay", "leaving", "farewell", "closing"},
         pc' = [pc EXCEPT ![c] = label],
         label = "recv" => src'[c] = c,
         \A d \in Conns : d # c => src'[d] = src[d],
         open' = open, main' = main, signal' = signal, slot' = slot,
         \A i \in Slots :
           /\ clients'[i].socket_fd = clients[i].socket_fd
           /\ clients'[i].connected = clients[i].connected
           /\ \/ clients'[i].username = clients[i].username
              \/ i = slot[c] /\ clients'[i].username = c
  PROVE  TableInv'
<1>0. Holding(c) /\ slot[c] \in Slots /\ \A d \in Conns : slot[d] \in Slots
  BY DEF Holding, TypeOK
<1>1. \A d \in Conns : /\ Serving(d)' <=> Serving(d)
                       /\ Holding(d)' <=> Holding(d)
                       /\ d # c => pc'[d] = pc[d]
  BY <1>0, Goes DEF HandlerPc
<1>2. \A d \in Conns : pc'[d] = "recv" => src'[d] = d
  <2>1. pc'[c] = label
    BY DEF TypeOK
  <2>2. QED
    BY <1>1, <2>1 DEF TableInv, HolderInv
<1>3. \A d \in Conns : pc[d] = "accepted" => pc'[d] = "accepted"
  BY <1>1 DEF Serving
<1>4. \A d \in Conns : Holding(d) /\ slot[d] = slot[c] => d = c
  BY <1>0 DEF TableInv, HolderInv
<1>5. main.pc \in {"fill", "spawn"} => main.slot # slot[c] /\ main.slot \in Slots
  BY <1>0, FALSE \notin {TRUE} DEF TableInv, MainInv, HolderInv, ScanInv
<1>6. main.pc \in {"fill", "spawn"} => clients'[main.slot].username = None
  BY <1>5 DEF TableInv, MainInv
<1>7. NoForeignUser'
  BY <1>0, <1>1, <1>4, ServingHolds DEF TableInv, NoForeignUser, My
<1>8. \A d \in Conns : Holding(d) => slot'[d] = slot[d]
  OBVIOUS
<1>9. QED
  BY <1>1, <1>2, <1>3, <1>6, <1>7, <1>8, Keeps
\* The close frees the handler's own descriptor and no other.
LEMMA CloseSocketStep ==
  ASSUME TypeOK, TableInv, NEW c \in Conns, CloseSocket(c)
  PROVE  TableInv'
<1> DEFINE own == clients[slot[c]].socket_fd
<1>1. Serving(c) /\ c # None
  BY NoneIsNobody DEF CloseSocket, Serving
<1>2. own \in Fds /\ open[own] = c
  BY <1>1, OwnFd DEF TableInv
<1>3. open' = [open EXCEPT ![own] = None]
  BY <1>2 DEF CloseSocket, My, Fds
<1>4. \A f \in Fds : open'[f] = IF f = own THEN None ELSE open[f]
  BY <1>3 DEF TypeOK
<1>5. \A d \in Conns : /\ Serving(d)' <=> Serving(d) /\ d # c
                       /\ Holding(d)' <=> Holding(d)
                       /\ d # c => pc'[d] = pc[d]
  BY <1>1, Goes DEF CloseSocket, Goto, HandlerPc, Holding
<1>6. pc'[c] = "unsetting" /\ pc[c] = "closing"
  BY DEF CloseSocket, Goto, TypeOK
<1>7. UNCHANGED <<clients, main, slot, src, signal>>
  BY DEF CloseSocket
<1> HIDE DEF own
<1>8. MainInv'
  BY <1>2, <1>4, <1>5, <1>6, <1>7 DEF TableInv, MainInv
<1>9. HolderInv'
  BY <1>5, <1>6, <1>7 DEF TableInv, HolderInv
<1>10. FdInv'
  BY <1>2, <1>4, <1>7, NoneIsNobody, FewSlots DEF TableInv, FdInv, running
<1>11. OwnSocket'
  <2>1. ASSUME NEW d \in Conns, Serving(d)' PROVE Behind(slot[d])' = d
    <3>1. d # c /\ Serving(d)
      BY <1>5, <2>1
    <3>2. /\ clients[slot[d]].socket_fd \in Fds /\ clients[slot[d]].socket_fd # -1
          /\ open[clients[slot[d]].socket_fd] = d
      BY <3>1, OwnFd DEF TableInv
    <3>3. open'[clients[slot[d]].socket_fd] = d
      BY <1>2, <1>4, <3>1, <3>2
    <3>4. QED
      BY <1>7, <3>2, <3>3 DEF Behind
  <2>2. QED
    BY <1>7, <2>1 DEF OwnSocket, Behind
<1>12. NoFdLeak'
  BY <1>2, <1>4, <1>5, <1>7, NoneIsNobody DEF TableInv, NoFdLeak, FdInv
<1>13. NoForeignUser'
  BY <1>5, <1>7 DEF TableInv, NoForeignUser, My
<1>14. QED
  BY <1>8, <1>9, <1>10, <1>11, <1>12, <1>13 DEF TableInv

\* No other handler holds the slot that is given up.
LEMMA LeaveSlotStep ==
  ASSUME TypeOK, ScanInv, TableInv, NEW c \in Conns, LeaveSlot(c)
  PROVE  TableInv'
<1>1. slot[c] \in Slots /\ clients \in Table /\ \A d \in Conns : slot[d] \in Slots
  BY DEF TypeOK, Table
<1>2. \A i \in Slots :
        /\ i # slot[c] => clients'[i].socket_fd = clients[i].socket_fd
        /\ clients'[i].connected = IF i = slot[c] THEN FALSE ELSE clients[i].connected
        /\ clients'[i].username = clients[i].username
  BY <1>1, Writes DEF Unset
<1>3. \A d \in Conns : /\ Serving(d)' <=> Serving(d)
                       /\ Holding(d)' <=> Holding(d) /\ d # c
                       /\ d # c => pc'[d] = pc[d]
  BY Goes DEF LeaveSlot, Goto, HandlerPc, Holding, Serving
<1>4. pc'[c] = "clearing" /\ Holding(c) /\ ~Serving(c) /\ pc[c] = "unsetting"
  BY DEF LeaveSlot, Goto, TypeOK, Holding, Serving
<1>5. UNCHANGED <<open, main, slot, src, signal>>
  BY DEF LeaveSlot
<1>6. \A d \in Conns : Holding(d) /\ d # c => slot[d] # slot[c]
  BY <1>4 DEF TableInv, HolderInv
<1>7. MainInv'
  <2>1. main.pc = "spawn" => main.slot # slot[c]
    BY <1>4 DEF TableInv, MainInv
  <2>2. main.pc \in Admitting => main.conn # c
    BY <1>4 DEF TableInv, MainInv
  <2>3. main.pc \in {"wipe", "fill", "spawn"} => main.slot \in Slots
    BY DEF ScanInv
  <2>4. main.pc \in {"wipe", "fill"} => ~clients'[main.slot].connected
    BY <1>2, <2>3 DEF TableInv, MainInv
  <2>5. main.pc = "spawn" =>
          /\ clients'[main.slot].connected
          /\ clients'[main.slot].socket_fd = main.fd
          /\ \A d \in Conns : Holding(d)' => slot'[d] # main.slot
    BY <1>2, <1>3, <1>5, <2>1, <2>3 DEF TableInv, MainInv
  <2>6. main.pc \in {"fill", "spawn"} => clients'[main.slot].username = None
    BY <1>2, <2>3 DEF TableInv, MainInv
  <2>7. QED
    <3>1. main.pc \in Admitting =>
            main.conn \in Conns /\ pc'[main.conn] = "accepted"
      BY <1>3, <2>2 DEF TableInv, MainInv
    <3>2. QED
      BY <1>5, <2>4, <2>5, <2>6, <3>1 DEF TableInv, MainInv
<1>8. HolderInv'
  <2>1. ASSUME NEW d \in Conns, Holding(d)'
        PROVE  /\ clients'[slot[d]].connected
               /\ \A e \in Conns : Holding(e)' /\ slot[d] = slot[e] => d = e
    <3>1. Holding(d) /\ slot[d] # slot[c]
      BY <1>3, <1>6, <2>1
    <3>2. QED
      BY <1>1, <1>2, <1>3, <3>1 DEF TableInv, HolderInv
  <2>2. \A d \in Conns : pc'[d] = "recv" => src[d] = d
    BY <1>3, <1>4 DEF TableInv, HolderInv
  <2>3. QED
    BY <1>5, <2>1, <2>2 DEF HolderInv
<1>9. FdInv'
  BY <1>5 DEF TableInv, FdInv, running, server_socket
<1>10. OwnSocket'
  <2>1. ASSUME NEW d \in Conns, Serving(d) PROVE Behind(slot[d])' = d
    <3>1. slot[d] \in Slots /\ slot[d] # slot[c]
      BY <1>1, <1>4, <1>6, <2>1, ServingHolds
    <3>2. clients'[slot[d]].socket_fd = clients[slot[d]].socket_fd
      BY <1>2, <3>1
    <3>3. Behind(slot[d]) = d
      BY <2>1 DEF TableInv, OwnSocket
    <3>4. QED
      BY <1>5, <3>2, <3>3 DEF Behind
  <2>2. QED
    BY <1>3, <1>5, <2>1 DEF OwnSocket, Behind
<1>11. NoFdLeak'
  BY <1>3, <1>5 DEF TableInv, NoFdLeak
<1>12. NoForeignUser'
  BY <1>1, <1>2, <1>3, <1>5 DEF TableInv, NoForeignUser, My
<1>13. QED
  BY <1>7, <1>8, <1>9, <1>10, <1>11, <1>12 DEF TableInv

LEMMA ClearUserStep ==
  ASSUME TypeOK, ScanInv, TableInv, NEW c \in Conns, ClearUser(c)
  PROVE  TableInv'
<1>1. slot[c] \in Slots /\ clients \in Table /\ \A d \in Conns : slot[d] \in Slots
  BY DEF TypeOK, Table
<1>2. \A i \in Slots :
        /\ clients'[i].socket_fd = clients[i].socket_fd
        /\ clients'[i].connected = clients[i].connected
        /\ clients'[i].username \in {clients[i].username, None}
  BY <1>1, Writes DEF Named
<1>3. \A d \in Conns : /\ Serving(d)' <=> Serving(d)
                       /\ Holding(d)' <=> Holding(d)
                       /\ d # c => pc'[d] = pc[d]
  BY Goes DEF ClearUser, Goto, HandlerPc, Holding, Serving
<1>4. pc'[c] = "unlocking" /\ pc[c] = "clearing"
  BY DEF ClearUser, Goto, TypeOK
<1>5. UNCHANGED <<open, main, slot, src, signal>>
  BY DEF ClearUser
<1>6. \A d \in Conns : /\ pc[d] = "accepted" => pc'[d] = "accepted"
                       /\ pc'[d] = "recv" => src'[d] = d
  BY <1>3, <1>4, <1>5 DEF TableInv, HolderInv
<1>7. main.pc \in {"fill", "spawn"} => clients'[main.slot].username = None
  BY <1>2 DEF TableInv, MainInv, ScanInv
<1>8. NoForeignUser'
  BY <1>1, <1>2, <1>3, <1>5 DEF TableInv, NoForeignUser, My
<1>9. QED
  BY <1>2, <1>3, <1>5, <1>6, <1>7, <1>8, Keeps

LEMMA HandlerEndsStep ==
  ASSUME TypeOK, ScanInv, TableInv, NEW c \in Conns, HandlerEnds(c)
  PROVE  TableInv'
<1>1. \A d \in Conns : /\ Serving(d)' <=> Serving(d)
                       /\ Holding(d)' <=> Holding(d)
                       /\ d # c => pc'[d] = pc[d]
  BY Goes DEF HandlerEnds, Goto, HandlerPc, Holding, Serving
<1>2. pc'[c] = "done" /\ pc[c] = "unlocking" /\ ~Holding(c)
  BY DEF HandlerEnds, Goto, TypeOK, Holding, Serving
<1>3. UNCHANGED <<clients, open, main, src, signal>>
  BY DEF HandlerEnds
<1>4. \A d \in Conns : d # c => slot'[d] = slot[d]
  BY DEF HandlerEnds, TypeOK
<1>5. \A d \in Conns : /\ pc[d] = "accepted" => pc'[d] = "accepted"
                       /\ pc'[d] = "recv" => src'[d] = d
                       /\ Holding(d) => slot'[d] = slot[d]
  BY <1>1, <1>2, <1>3, <1>4 DEF TableInv, HolderInv
<1>6. main.pc \in {"fill", "spawn"} => clients'[main.slot].username = None
  BY <1>3 DEF TableInv, MainInv
<1>7. NoForeignUser'
  BY <1>1, <1>3, <1>5, ServingHolds DEF TableInv, NoForeignUser, My
<1>8. QED
  BY <1>1, <1>3, <1>5, <1>6, <1>7, Keeps

LEMMA HandlerStep ==
  ASSUME TypeOK, ScanInv, TableInv, Calm, Calm', NEW c \in Conns, Handler(c)
  PROVE  TableInv'
<1> USE DEF Goto
<1>0. Serving(c) => src[c] = c \/ pc[c] # "recv"
  BY DEF TableInv, HolderInv
<1>1. CASE LoopTest(c)
  <2>1. Serving(c) /\ Behind(slot[c]) = c
    BY <1>1 DEF LoopTest, Serving, TableInv, OwnSocket
  <2>2. CASE pc' = [pc EXCEPT ![c] = "recv"] /\ src' = [src EXCEPT ![c] = Behind(slot[c])]
    <3>1. src'[c] = c /\ \A d \in Conns : d # c => src'[d] = src[d]
      BY <2>1, <2>2 DEF TypeOK
    <3>2. QED
      BY <1>1, <2>1, <2>2, <3>1, ServingKeeps DEF LoopTest
  <2>3. CASE pc' = [pc EXCEPT ![c] = "leaving"] /\ src' = [src EXCEPT ![c] = None]
    <3>1. \A d \in Conns : d # c => src'[d] = src[d]
      BY <2>3 DEF TypeOK
    <3>2. QED
      BY <1>1, <2>1, <2>3, <3>1, ServingKeeps DEF LoopTest
  <2>4. QED
    BY <1>1, <2>2, <2>3 DEF LoopTest
<1>2. CASE RecvEnds(c)
  <2>1. Serving(c) /\ \A d \in Conns : d # c => src'[d] = src[d]
    BY <1>2 DEF RecvEnds, Serving, TypeOK
  <2>2. QED
    BY <1>2, <2>1, ServingKeeps DEF RecvEnds
<1>3. CASE RecvOther(c)
  BY <1>3, ServingKeeps DEF RecvOther, Serving
<1>4. CASE RecvLogin(c)
  <2>1. Serving(c) /\ src[c] = c
    BY <1>0, <1>4 DEF RecvLogin, Serving
  <2>4. \A i \in Slots :
          /\ clients'[i].socket_fd = clients[i].socket_fd
          /\ clients'[i].connected = clients[i].connected
          /\ clients'[i].username = IF i = slot[c] THEN c ELSE clients[i].username
    BY <1>4, <2>1, Writes DEF Named
  <2>a. pc' = [pc EXCEPT ![c] = "announce"] /\ UNCHANGED <<open, main, slot, src, signal>>
    BY <1>4 DEF RecvLogin
  <2>b. \A i \in Slots : \/ clients'[i].username = clients[i].username
                         \/ i = slot[c] /\ clients'[i].username = c
    BY <2>4
  <2>5. QED
    BY <2>1, <2>4, <2>a, <2>b, ServingKeeps
<1>5. CASE Announce(c)
  BY <1>5, ServingKeeps DEF Announce, Serving
<1>6. CASE RecvLogout(c)
  BY <1>6 DEF RecvLogout, Calm
<1>7. CASE Relayed(c)
  BY <1>7, ServingKeeps DEF Relayed, Serving
<1>8. ASSUME NEW u \in Conns, RecvSend(c, u) PROVE TableInv'
  BY <1>8, ServingKeeps DEF RecvSend, Serving
<1>9. CASE TakeMutex(c)
  <2>1. PICK label \in {"farewell", "closing"} : pc' = [pc EXCEPT ![c] = label]
    BY <1>9 DEF TakeMutex
  <2>2. QED
    BY <1>9, <2>1, ServingKeeps DEF TakeMutex, Serving
<1>10. CASE Farewell(c)
  BY <1>10, ServingKeeps DEF Farewell, Serving
<1>11. CASE Teardown(c) /\ ~TakeMutex(c) /\ ~Farewell(c)
  BY <1>11, CloseSocketStep, LeaveSlotStep, ClearUserStep, HandlerEndsStep DEF Teardown
<1>12. QED
  BY <1>1, <1>2, <1>3, <1>4, <1>5, <1>6, <1>7, <1>8, <1>9, <1>10, <1>11 DEF Handler, Teardown
\* No descriptor has a connection that is not yet accepted.
LEMMA AcceptStep ==
  ASSUME TypeOK, TableInv, NEW c \in Conns, Accept(c)
  PROVE  TableInv'
<1>1. PICK f \in Fds :
        /\ open[f] = None
        /\ open' = [open EXCEPT ![f] = c]
        /\ main' = [pc |-> "scan", conn |-> c, fd |-> f, slot |-> 0]
  BY DEF Accept
<1>2. \A g \in Fds : open'[g] = IF g = f THEN c ELSE open[g]
  BY <1>1 DEF TypeOK
<1>3. \A d \in Conns : /\ Serving(d)' <=> Serving(d)
                       /\ Holding(d)' <=> Holding(d)
                       /\ d # c => pc'[d] = pc[d]
  BY Goes DEF Accept, HandlerPc, Holding, Serving
<1>4. pc'[c] = "accepted" /\ ~Serving(c) /\ main.conn = None
  BY DEF Accept, TypeOK, Serving, TableInv, MainInv, Admitting
<1>5. UNCHANGED <<clients, slot, src, signal>>
  BY DEF Accept
<1>6. \A g \in Fds : open[g] # c
  BY <1>4, NoneIsNobody DEF TableInv, NoFdLeak
<1>7. MainInv'
  BY <1>1, <1>2, <1>4 DEF MainInv, Admitting
<1>8. HolderInv'
  BY <1>3, <1>4, <1>5 DEF TableInv, HolderInv
<1>9. FdInv'
  <2>1. running => f # server_socket
    BY <1>1, NoneIsNobody DEF TableInv, FdInv
  <2>2. QED
    BY <1>2, <1>5, <1>6, <2>1, FewSlots DEF TableInv, FdInv, running
<1>10. OwnSocket'
  <2>1. ASSUME NEW d \in Conns, Serving(d) PROVE Behind(slot[d])' = d
    <3>1. /\ clients[slot[d]].socket_fd \in Fds /\ clients[slot[d]].socket_fd # -1
          /\ open[clients[slot[d]].socket_fd] = d
      BY <2>1, OwnFd DEF TableInv
    <3>2. open'[clients[slot[d]].socket_fd] = d
      BY <1>1, <1>2, <3>1, NoneIsNobody
    <3>3. QED
      BY <1>5, <3>1, <3>2 DEF Behind
  <2>2. QED
    BY <1>3, <1>5, <2>1 DEF OwnSocket, Behind
<1>11. NoFdLeak'
  BY <1>1, <1>2, <1>3, <1>4, NoneIsNobody DEF TableInv, NoFdLeak
<1>12. NoForeignUser'
  BY <1>3, <1>5 DEF TableInv, NoForeignUser, My
<1>13. QED
  BY <1>7, <1>8, <1>9, <1>10, <1>11, <1>12 DEF TableInv

\* What the accept loop has in hand is no handler's.
LEMMA InHand ==
  ASSUME TypeOK, ScanInv, TableInv, main.pc \in Admitting
  PROVE  /\ main.conn \in Conns /\ main.fd \in Fds /\ open[main.fd] = main.conn
         /\ pc[main.conn] = "accepted"
         /\ ~Serving(main.conn) /\ ~Holding(main.conn)
         /\ running => main.fd # server_socket
         /\ \A d \in Conns : Serving(d) => clients[slot[d]].socket_fd # main.fd
         /\ main.pc # "scan" => \A d \in Conns : Holding(d) => slot[d] # main.slot
<1>1. /\ main.conn \in Conns /\ main.fd \in Fds /\ open[main.fd] = main.conn
      /\ pc[main.conn] = "accepted"
  BY DEF TableInv, MainInv
<1>2. ~Serving(main.conn) /\ ~Holding(main.conn)
  BY <1>1 DEF Holding, Serving
<1>3. running => main.fd # server_socket
  BY <1>1, NoneIsNobody DEF TableInv, FdInv
<1>4. ASSUME NEW d \in Conns, Serving(d) PROVE clients[slot[d]].socket_fd # main.fd
  BY <1>1, <1>2, <1>4, OwnFd DEF TableInv
<1>5. ASSUME NEW d \in Conns, Holding(d), main.pc # "scan" PROVE slot[d] # main.slot
  BY <1>5 DEF TableInv, MainInv, HolderInv, Admitting
<1>6. QED
  BY <1>1, <1>2, <1>3, <1>4, <1>5

LEMMA ScanStep ==
  ASSUME TypeOK, ScanInv, TableInv, Scan
  PROVE  TableInv'
<1>1. UNCHANGED <<clients, open, pc, slot, src, signal>>
  BY DEF Scan, threads
<1>2. /\ main'.conn = main.conn /\ main'.fd = main.fd /\ main.pc = "scan"
      /\ \/ main'.pc = "scan"
         \/ main'.pc = "wipe" /\ ~clients[main'.slot].connected
  BY DEF Scan, TypeOK
<1>3. MainInv'
  BY <1>1, <1>2 DEF TableInv, MainInv, Admitting
<1>4. HolderInv' /\ FdInv' /\ OwnSocket' /\ NoForeignUser'
  BY <1>1 DEF TableInv, HolderInv, FdInv, OwnSocket, NoForeignUser, Holding, Serving,
              Behind, My, running
<1>5. NoFdLeak'
  BY <1>1, <1>2 DEF TableInv, NoFdLeak, Serving
<1>6. QED
  BY <1>3, <1>4, <1>5 DEF TableInv

\* The slot that is wiped or filled is no handler's.
LEMMA WipeFillStep ==
  ASSUME TypeOK, ScanInv, TableInv, Wipe \/ Fill
  PROVE  TableInv'
<1>1. UNCHANGED <<open, pc, slot, src, signal>>
  BY DEF Wipe, Fill, threads
<1>2. /\ main'.conn = main.conn /\ main'.fd = main.fd /\ main'.slot = main.slot
      /\ main.pc \in {"wipe", "fill"} /\ main'.pc \in {"fill", "spawn"}
      /\ main'.pc = "spawn" <=> main.pc = "fill"
      /\ main.slot \in Slots
  BY DEF Wipe, Fill, TypeOK, ScanInv
<1>3. \A i \in Slots : i # main.slot =>
        /\ clients'[i].socket_fd = clients[i].socket_fd
        /\ clients'[i].connected = clients[i].connected
        /\ clients'[i].username = clients[i].username
  BY Writes DEF Wiped, Tenanted
<1>4. /\ main.pc = "wipe" => ~clients'[main.slot].connected
      /\ main.pc = "fill" => /\ clients'[main.slot].connected
                             /\ clients'[main.slot].socket_fd = main.fd
      /\ clients'[main.slot].username = None
  <2>1. CASE Wipe
    BY <1>2, <2>1, Writes DEF Wiped, Wipe
  <2>2. CASE Fill
    BY <1>2, <2>2, Writes DEF Tenanted, Fill, TableInv, MainInv
  <2>3. QED
    BY <2>1, <2>2
<1>5. \A d \in Conns : slot[d] \in Slots /\ (Holding(d) => slot[d] # main.slot)
  BY <1>2, InHand DEF Admitting, TypeOK
<1>6. \A d \in Conns : (Serving(d)' <=> Serving(d)) /\ (Holding(d)' <=> Holding(d))
  BY <1>1 DEF Serving, Holding
<1>7. MainInv'
  BY <1>1, <1>2, <1>4, <1>5, <1>6 DEF TableInv, MainInv, Admitting
<1>8. HolderInv'
  BY <1>1, <1>3, <1>5, <1>6 DEF TableInv, HolderInv
<1>9. FdInv'
  BY <1>1 DEF TableInv, FdInv, running
<1>10. OwnSocket'
  BY <1>1, <1>3, <1>5, <1>6, ServingHolds DEF TableInv, OwnSocket, Behind
<1>11. NoFdLeak'
  BY <1>1, <1>2, <1>6 DEF TableInv, NoFdLeak
<1>12. NoForeignUser'
  BY <1>1, <1>3, <1>5, <1>6, ServingHolds DEF TableInv, NoForeignUser, My
<1>13. QED
  BY <1>7, <1>8, <1>9, <1>10, <1>11, <1>12 DEF TableInv

\* A connection that is turned away loses its descriptor.
LEMMA TurnAwayStep ==
  ASSUME TypeOK, ScanInv, TableInv, Reject \/ SpawnFails
  PROVE  TableInv'
<1>1. UNCHANGED <<slot, src, signal>>
  BY DEF Reject, SpawnFails
<1>2. main.pc \in {"scan", "spawn"} /\ main'.pc \notin Admitting /\ main'.conn = None
  BY TurnType DEF Reject, SpawnFails, Admitting
<1>3. /\ main.conn \in Conns /\ main.fd \in Fds /\ open[main.fd] = main.conn
      /\ ~Serving(main.conn)
      /\ running => main.fd # server_socket
      /\ \A d \in Conns : Serving(d) => clients[slot[d]].socket_fd # main.fd
  BY <1>2, InHand DEF Admitting
<1>4. \A g \in Fds : open'[g] = IF g = main.fd THEN None ELSE open[g]
  BY DEF Reject, SpawnFails, TypeOK
<1>5. /\ pc'[main.conn] = "done"
      /\ \A d \in Conns : /\ Serving(d)' <=> Serving(d)
                          /\ Holding(d)' <=> Holding(d)
                          /\ d # main.conn => pc'[d] = pc[d]
  <2>1. pc' = [pc EXCEPT ![main.conn] = "done"]
    BY DEF Reject, SpawnFails
  <2>2. ~Holding(main.conn)
    BY <1>2, InHand DEF Admitting
  <2>3. "done" \in HandlerPc
    BY DEF HandlerPc
  <2>4. QED
    BY <1>3, <2>1, <2>2, <2>3, Goes
<1>6. \A d \in Conns : /\ slot[d] \in Slots
                       /\ Holding(d) =>
                            /\ clients'[slot[d]].socket_fd = clients[slot[d]].socket_fd
                            /\ clients'[slot[d]].connected = clients[slot[d]].connected
                            /\ clients'[slot[d]].username = clients[slot[d]].username
  <2>1. CASE Reject
    BY <2>1 DEF Reject, TypeOK
  <2>2. CASE SpawnFails
    BY <2>2, Writes, InHand DEF SpawnFails, Unmarked, TypeOK, Admitting
  <2>3. QED
    BY <2>1, <2>2
<1>7. MainInv'
  BY <1>2 DEF MainInv, Admitting
<1>8. HolderInv'
  BY <1>1, <1>5, <1>6 DEF TableInv, HolderInv
<1>9. FdInv'
  BY <1>1, <1>3, <1>4, NoneIsNobody, FewSlots DEF TableInv, FdInv, running
<1>10. OwnSocket'
  <2>1. ASSUME NEW d \in Conns, Serving(d) PROVE Behind(slot[d])' = d
    <3>1. /\ clients[slot[d]].socket_fd \in Fds /\ clients[slot[d]].socket_fd # -1
          /\ open[clients[slot[d]].socket_fd] = d
      BY <2>1, OwnFd DEF TableInv
    <3>2. clients'[slot[d]].socket_fd = clients[slot[d]].socket_fd
      BY <1>6, <2>1, ServingHolds
    <3>3. open'[clients[slot[d]].socket_fd] = d
      BY <1>3, <1>4, <2>1, <3>1
    <3>4. QED
      BY <1>1, <3>1, <3>2, <3>3 DEF Behind
  <2>2. QED
    BY <1>1, <1>5, <2>1 DEF OwnSocket, Behind
<1>11. NoFdLeak'
  BY <1>3, <1>4, <1>5, NoneIsNobody DEF TableInv, NoFdLeak, FdInv
<1>12. NoForeignUser'
  BY <1>1, <1>5, <1>6, ServingHolds DEF TableInv, NoForeignUser, My
<1>13. QED
  BY <1>7, <1>8, <1>9, <1>10, <1>11, <1>12 DEF TableInv

\* The new handler is given the slot and the descriptor that are its own.
LEMMA SpawnStep ==
  ASSUME TypeOK, ScanInv, TableInv, Spawn
  PROVE  TableInv'
<1>1. UNCHANGED <<clients, open, src, signal>>
  BY DEF Spawn
<1>2. main.pc = "spawn" /\ main'.pc \notin Admitting /\ main'.conn = None
  BY TurnType DEF Spawn, Admitting
<1>3. /\ main.conn \in Conns /\ main.fd \in Fds /\ open[main.fd] = main.conn
      /\ \A d \in Conns : Holding(d) => slot[d] # main.slot
  BY <1>2, InHand DEF Admitting
<1>4. /\ clients[main.slot].connected /\ clients[main.slot].socket_fd = main.fd
      /\ clients[main.slot].username = None
  BY <1>2 DEF TableInv, MainInv
<1>5. /\ pc'[main.conn] = "loop"
      /\ \A d \in Conns : /\ Serving(d)' <=> Serving(d) \/ d = main.conn
                          /\ Holding(d)' <=> Holding(d) \/ d = main.conn
                          /\ d # main.conn => pc'[d] = pc[d]
  BY <1>3, Goes DEF Spawn, HandlerPc
<1>6. \A d \in Conns : slot'[d] = IF d = main.conn THEN main.slot ELSE slot[d]
  BY DEF Spawn, TypeOK
<1>7. MainInv'
  BY <1>2 DEF MainInv, Admitting
<1>8. HolderInv'
  BY <1>1, <1>3, <1>4, <1>5, <1>6 DEF TableInv, HolderInv
<1>9. FdInv'
  BY <1>1 DEF TableInv, FdInv, running
<1>10. OwnSocket'
  <2>1. main.fd # -1
    BY <1>3, FewSlots DEF Fds
  <2>2. QED
    BY <1>1, <1>3, <1>4, <1>5, <1>6, <2>1 DEF TableInv, OwnSocket, Behind
<1>11. NoFdLeak'
  BY <1>1, <1>5 DEF TableInv, NoFdLeak
<1>12. NoForeignUser'
  BY <1>1, <1>4, <1>5, <1>6 DEF TableInv, NoForeignUser, My
<1>13. QED
  BY <1>7, <1>8, <1>9, <1>10, <1>11, <1>12 DEF TableInv

\* A signal closes the listener, which is behind no slot.
LEMMA SignalStep ==
  ASSUME TypeOK, TableInv, Signal
  PROVE  TableInv'
<1>1. UNCHANGED <<clients, main, pc, slot, src>> /\ running /\ ~running'
  BY DEF Signal, threads, running
<1>2. open[server_socket] = Listener
  BY <1>1 DEF TableInv, FdInv
<1>3. \A g \in Fds : open'[g] = IF g = server_socket THEN None ELSE open[g]
  BY DEF Signal, TypeOK
<1>4. \A d \in Conns : (Serving(d)' <=> Serving(d)) /\ (Holding(d)' <=> Holding(d))
  BY <1>1 DEF Serving, Holding
<1>5. MainInv' /\ HolderInv'
  BY <1>1, <1>2, <1>3, <1>4, NoneIsNobody DEF TableInv, MainInv, HolderInv
<1>6. FdInv'
  BY <1>1, <1>3, NoneIsNobody DEF TableInv, FdInv
<1>7. OwnSocket'
  <2>1. ASSUME NEW d \in Conns, Serving(d) PROVE Behind(slot[d])' = d
    <3>1. /\ clients[slot[d]].socket_fd \in Fds /\ clients[slot[d]].socket_fd # -1
          /\ open[clients[slot[d]].socket_fd] = d
      BY <2>1, OwnFd DEF TableInv
    <3>2. open'[clients[slot[d]].socket_fd] = d
      BY <1>2, <1>3, <3>1, NoneIsNobody
    <3>3. QED
      BY <1>1, <3>1, <3>2 DEF Behind
  <2>2. QED
    BY <1>1, <1>4, <2>1 DEF OwnSocket, Behind
<1>8. NoFdLeak'
  BY <1>1, <1>3, <1>4, NoneIsNobody DEF TableInv, NoFdLeak
<1>9. NoForeignUser'
  BY <1>1, <1>4 DEF TableInv, NoForeignUser, My
<1>10. QED
  BY <1>5, <1>6, <1>7, <1>8, <1>9 DEF TableInv

\* A step that changes nothing the invariant speaks of.
LEMMA IdleStep ==
  ASSUME TableInv, UNCHANGED <<clients, open, pc, slot, src, signal>>,
         main' = main \/ AcceptFails
  PROVE  TableInv'
<1>1. HolderInv' /\ FdInv' /\ OwnSocket' /\ NoForeignUser'
  BY DEF TableInv, HolderInv, FdInv, OwnSocket, NoForeignUser, Holding, Serving,
         Behind, My, running
<1>2. MainInv' /\ NoFdLeak'
  <2>1. CASE main' = main
    BY <2>1 DEF TableInv, MainInv, NoFdLeak, Holding, Serving
  <2>2. CASE AcceptFails
    BY <2>2 DEF AcceptFails, Leaving, Waiting, TableInv, MainInv, NoFdLeak, Admitting, Serving
  <2>3. QED
    BY <2>1, <2>2
<1>3. QED
  BY <1>1, <1>2 DEF TableInv

LEMMA TableStep ==
  ASSUME TypeOK, ScanInv, Calm => TableInv, [Next]_vars, Calm'
  PROVE  TableInv'
<1>0. Calm /\ TableInv
  BY CalmBefore
<1>1. CASE Main
  <2>1. ~CloseListener /\ ~Sweep /\ ~Exit
    BY <1>0 DEF Calm, CloseListener, Sweep, Exit, Waiting, TypeOK
  <2>2. CASE AcceptFails
    BY <1>0, <2>2, IdleStep DEF AcceptFails, threads
  <2>3. QED
    BY <1>0, <1>1, <2>1, <2>2, AcceptStep, ScanStep, WipeFillStep, TurnAwayStep, SpawnStep
       DEF Main
<1>2. CASE Signal
  BY <1>0, <1>2, SignalStep
<1>3. ASSUME NEW c \in Conns, Handler(c) PROVE TableInv'
  BY <1>0, <1>3, HandlerStep
<1>4. CASE (\E c \in Conns : Drop(c)) \/ UNCHANGED vars
  BY <1>0, <1>4, IdleStep DEF Drop, vars, threads
<1>5. QED
  BY <1>1, <1>2, <1>3, <1>4 DEF Next

LEMMA InitTable == Init => TableInv
<1> SUFFICES ASSUME Init PROVE TableInv
  OBVIOUS
<1>1. \A c \in Conns : ~Serving(c) /\ ~Holding(c) /\ pc[c] = "none"
  BY DEF Init, Serving, Holding
<1>2. \A f \in Fds : open[f] \in {Console, Listener, None}
  BY DEF Init
<1>3. open[server_socket] = Listener
  BY FewSlots DEF Init, server_socket
<1>4. MainInv
  BY DEF Init, MainInv, Admitting, Waiting
<1>5. HolderInv /\ OwnSocket /\ NoForeignUser
  BY <1>1 DEF HolderInv, OwnSocket, NoForeignUser
<1>6. FdInv /\ NoFdLeak
  BY <1>2, <1>3, NoneIsNobody DEF FdInv, NoFdLeak
<1>7. QED
  BY <1>4, <1>5, <1>6 DEF TableInv

-----------------------------------------------------------------------------
(* What holds of every behaviour.                                          *)

\* The inductive invariant: types always, and until the first LOGOUT or the
\* sweep of cleanup_server what the accept loop and the handlers rely on.
THEOREM Invariance == Spec => []IInv
<1>1. Init => IInv
  BY InitTypes, InitTable DEF IInv
<1>2. IInv /\ [Next]_vars => IInv'
  BY StepType, TableStep DEF IInv
<1>3. QED
  BY <1>1, <1>2, PTL DEF Spec

\* Every variable keeps to the values the code can give it, after a LOGOUT and
\* during a shutdown too: no thread indexes past the slots, and none closes a
\* descriptor the process cannot have (server.c:205-268, client_handler.c:113-150).
THEOREM TypeCorrect == Spec => []TypeOK
<1>1. IInv => TypeOK
  BY DEF IInv
<1>2. QED
  BY <1>1, Invariance, PTL

\* With any number of slots, connections and descriptors, a handler reads from
\* and closes its own connection: the accept loop may reuse a descriptor after
\* its close and a slot after it is unset, never before (client_handler.c:128-133,
\* server.c:223-241).
THEOREM SocketsAreOwn == Spec => [](Calm => OwnSocket)
<1>1. IInv => (Calm => OwnSocket)
  BY DEF IInv, TableInv
<1>2. QED
  BY <1>1, Invariance, PTL

\* No two handlers that have not closed their sockets share a slot: the scan
\* takes no slot whose handler has not reset connected (server.c:224-229,
\* client_handler.c:133).
THEOREM SlotsAreExclusive == Spec => [](Calm => SlotExclusive)
<1>1. IInv => (Calm => SlotExclusive)
  BY ServingHolds DEF IInv, TableInv, HolderInv, SlotExclusive
<1>2. QED
  BY <1>1, Invariance, PTL

\* A connection's descriptor is open only while the accept loop or its handler
\* has it in hand: a rejection, a failed pthread_create and the teardown each
\* close it (server.c:231-236, server.c:262-267, client_handler.c:128-131).
THEOREM DescriptorsAreKept == Spec => [](Calm => NoFdLeak)
<1>1. IInv => (Calm => NoFdLeak)
  BY DEF IInv, TableInv
<1>2. QED
  BY <1>1, Invariance, PTL

\* A handler never serves under the name of a user of another connection: the
\* wipe takes away what the last tenant's teardown, which clears the name after
\* connected, has not yet (server.c:238, client_handler.c:133-135).
THEOREM UsersAreOwn == Spec => [](Calm => NoForeignUser)
<1>1. IInv => (Calm => NoForeignUser)
  BY DEF IInv, TableInv
<1>2. QED
  BY <1>1, Invariance, PTL
=============================================================================
