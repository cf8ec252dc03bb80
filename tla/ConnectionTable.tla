--------------------------- MODULE ConnectionTable ---------------------------
(***************************************************************************)
(* The slots of server.clients[], the file descriptors behind them, the    *)
(* accept loop that fills slots and the handler threads that empty them.   *)
(*                                                                         *)
(* A connection c is one TCP connection; its handler thread and the user   *)
(* who logs in over it carry the same name.  open maps a descriptor to the *)
(* connection the kernel has behind it.  A thread's step is what it does   *)
(* between two accesses that another thread can come between.  The queue   *)
(* of a slot is left to MessageQueue, the messages' fate to Relay.         *)
(***************************************************************************)
EXTENDS Integers, FiniteSets

CONSTANTS
  Conns,         \* the connections clients make
  MAX_CLIENTS,   \* slots
  MaxFd,         \* the largest descriptor of the process
  None,          \* no connection, no user, no thread
  Console,       \* what descriptor 0 refers to
  Listener,      \* the socket the server listens on
  MaxLogouts,    \* bound: LOGOUTs clients send in a behaviour
  MaySignal      \* whether a SIGINT or SIGTERM may come

ASSUME TableAssumption ==
  /\ MAX_CLIENTS \in Nat \ {0}
  /\ MaxFd \in Nat \ {0}
  /\ {None, Console, Listener} \cap Conns = {}
  /\ None # Console /\ None # Listener
  /\ MaxLogouts \in Nat
  /\ MaySignal \in BOOLEAN

VARIABLES
  clients,       \* server.clients: slot -> the fields threads share
  client_mutex,  \* slot -> holder of client->mutex
  open,          \* descriptor -> connection behind it
  peer,          \* connection -> its client's end: "up" or "dropped"
  main,          \* the accept loop: [pc, conn, fd, slot]
  pc,            \* connection -> where its handler thread stands
  slot,          \* connection -> the slot its handler was started on
  src,           \* connection -> connection its handler's recv reads from
  mail,          \* connection -> [to, slot] of the message being relayed
  logouts,       \* LOGOUTs served so far
  signal         \* "none", or a signal came: "seen", or "missed" by accept

threads == <<pc, slot, src, mail>>
vars == <<clients, client_mutex, open, peer, main, threads, logouts, signal>>

Slots == 0 .. MAX_CLIENTS - 1
Fds == 0 .. MaxFd
server_socket == 1
Client == [socket_fd : -1 .. MaxFd, connected : BOOLEAN,
           authenticated : BOOLEAN, username : Conns \cup {None}]

\* The connection behind the descriptor that slot i holds.
Behind(i) == IF clients[i].socket_fd = -1 THEN None
                                         ELSE open[clients[i].socket_fd]

\* server.running, which the signal handler resets.
running == signal = "none"

\* The accept loop or cleanup_server holds clients_mutex; every other holder
\* gives it back within the step that takes it.
TableFree == main.pc \notin {"scan", "wipe", "fill", "sweep"}

Waiting == [pc |-> "accept", conn |-> None, fd |-> -1, slot |-> 0]
Leaving == [Waiting EXCEPT !.pc = "cleanup"]
NoMail == [to |-> None, slot |-> 0]

Init ==
  /\ clients = [i \in Slots |-> [socket_fd |-> -1, connected |-> FALSE,
                                 authenticated |-> FALSE, username |-> None]]
  /\ client_mutex = [i \in Slots |-> None]
  /\ open = [f \in Fds |-> CASE f = 0 -> Console [] f = server_socket -> Listener
                              [] OTHER -> None]
  /\ peer = [c \in Conns |-> "up"]
  /\ main = Waiting
  /\ pc = [c \in Conns |-> "none"]
  /\ slot = [c \in Conns |-> 0]
  /\ src = [c \in Conns |-> None]
  /\ mail = [c \in Conns |-> NoMail]
  /\ logouts = 0
  /\ signal = "none"

-----------------------------------------------------------------------------
(* The clients.  A connection waits to be accepted from the start; when it *)
(* is accepted, and whether it is dropped before, is open.                 *)

\* The end of its stream reaches the server, or its connection breaks.
Drop(c) ==
  /\ peer[c] = "up"
  /\ peer' = [peer EXCEPT ![c] = "dropped"]
  /\ UNCHANGED <<clients, client_mutex, open, main, threads, logouts, signal>>

-----------------------------------------------------------------------------
(* The accept loop of main.                                                *)

\* The loop's condition, when its body has come to the end.
NextTurn == IF running THEN Waiting ELSE Leaving

\* accept gives the lowest free descriptor; the table's mutex is then taken.
\* An accept that missed the signal still takes a connection.
Accept(c) ==
  /\ main.pc = "accept"
  /\ signal # "seen"
  /\ pc[c] = "none"
  /\ \E f \in Fds :
       /\ open[f] = None
       /\ \A g \in Fds : g < f => open[g] # None
       /\ open' = [open EXCEPT ![f] = c]
       /\ main' = [pc |-> "scan", conn |-> c, fd |-> f, slot |-> 0]
  /\ pc' = [pc EXCEPT ![c] = "accepted"]
  /\ UNCHANGED <<clients, client_mutex, peer, slot, src, mail, logouts, signal>>

\* Mutated form of Scan, in no specification: it looks past the last slot.
ScanPastEnd ==
  /\ main.pc = "scan"
  /\ main.slot <= MAX_CLIENTS
  /\ main' = IF main.slot = MAX_CLIENTS \/ clients[main.slot].connected
             THEN [main EXCEPT !.slot = @ + 1]
             ELSE [main EXCEPT !.pc = "wipe"]
  /\ UNCHANGED <<clients, client_mutex, open, peer, threads, logouts, signal>>

\* One turn of the scan for a slot that is not connected.
Scan ==
  /\ main.pc = "scan"
  /\ main.slot < MAX_CLIENTS
  /\ main' = IF clients[main.slot].connected
             THEN [main EXCEPT !.slot = @ + 1]
             ELSE [main EXCEPT !.pc = "wipe"]
  /\ UNCHANGED <<clients, client_mutex, open, peer, threads, logouts, signal>>

\* Every slot was connected: the connection is closed again.
Reject ==
  /\ main.pc = "scan"
  /\ main.slot = MAX_CLIENTS
  /\ open' = [open EXCEPT ![main.fd] = None]
  /\ pc' = [pc EXCEPT ![main.conn] = "done"]
  /\ main' = NextTurn
  /\ UNCHANGED <<clients, client_mutex, peer, slot, src, mail, logouts, signal>>

\* Mutated form of Wipe: the user of the slot's last tenant stays.
WipeKeepsUser ==
  /\ main.pc = "wipe"
  /\ clients' = [clients EXCEPT ![main.slot].socket_fd = 0,
                                ![main.slot].connected = FALSE]
  /\ client_mutex' = [client_mutex EXCEPT ![main.slot] = None]
  /\ main' = [main EXCEPT !.pc = "fill"]
  /\ UNCHANGED <<open, peer, threads, logouts, signal>>

\* memset clears the whole slot, its mutexes with it.
Wipe ==
  /\ main.pc = "wipe"
  /\ clients' = [clients EXCEPT ![main.slot] =
       [socket_fd |-> 0, connected |-> FALSE, authenticated |-> FALSE,
        username |-> None]]
  /\ client_mutex' = [client_mutex EXCEPT ![main.slot] = None]
  /\ main' = [main EXCEPT !.pc = "fill"]
  /\ UNCHANGED <<open, peer, threads, logouts, signal>>

\* Mutated form of Fill: connected is left for the handler to set.
FillUnmarked ==
  /\ main.pc = "fill"
  /\ clients' = [clients EXCEPT ![main.slot].socket_fd = main.fd,
                                ![main.slot].authenticated = FALSE]
  /\ main' = [main EXCEPT !.pc = "spawn"]
  /\ UNCHANGED <<client_mutex, open, peer, threads, logouts, signal>>

Fill ==
  /\ main.pc = "fill"
  /\ clients' = [clients EXCEPT
       ![main.slot].socket_fd = main.fd,
       ![main.slot].connected = TRUE,
       ![main.slot].authenticated = FALSE]
  /\ main' = [main EXCEPT !.pc = "spawn"]
  /\ UNCHANGED <<client_mutex, open, peer, threads, logouts, signal>>

Spawn ==
  /\ main.pc = "spawn"
  /\ pc' = [pc EXCEPT ![main.conn] = "loop"]
  /\ slot' = [slot EXCEPT ![main.conn] = main.slot]
  /\ main' = NextTurn
  /\ UNCHANGED <<clients, client_mutex, open, peer, src, mail, logouts, signal>>

\* Mutated form of SpawnFails: the socket is not closed.
SpawnFailsOpen ==
  /\ main.pc = "spawn"
  /\ clients' = [clients EXCEPT ![main.slot].connected = FALSE]
  /\ pc' = [pc EXCEPT ![main.conn] = "done"]
  /\ main' = NextTurn
  /\ UNCHANGED <<client_mutex, open, peer, slot, src, mail, logouts, signal>>

\* pthread_create fails: the socket is closed, socket_fd keeps its number.
SpawnFails ==
  /\ main.pc = "spawn"
  /\ open' = [open EXCEPT ![main.fd] = None]
  /\ clients' = [clients EXCEPT ![main.slot].connected = FALSE]
  /\ pc' = [pc EXCEPT ![main.conn] = "done"]
  /\ main' = NextTurn
  /\ UNCHANGED <<client_mutex, peer, slot, src, mail, logouts, signal>>

-----------------------------------------------------------------------------
(* Shutdown.                                                               *)

Running(c) == pc[c] \notin {"none", "accepted", "done"}

\* signal_handler runs on some thread.  On main's, or while main is not in
\* accept, main comes to see it; on a handler's thread, closing the listening
\* socket does not wake an accept that is under way.
Signal ==
  /\ MaySignal
  /\ running
  /\ signal' \in IF main.pc = "accept" /\ \E c \in Conns : Running(c)
                 THEN {"seen", "missed"} ELSE {"seen"}
  /\ open' = [open EXCEPT ![server_socket] = None]
  /\ UNCHANGED <<clients, client_mutex, peer, main, threads, logouts>>

\* Mutated form of AcceptFails: the failure is logged, accept called again.
AcceptFailsAgain ==
  /\ main.pc = "accept"
  /\ signal = "seen"
  /\ main' = Waiting
  /\ UNCHANGED <<clients, client_mutex, open, peer, threads, logouts, signal>>

\* accept, begun or restarted after the signal, finds the socket closed.
AcceptFails ==
  /\ main.pc = "accept"
  /\ signal = "seen"
  /\ main' = Leaving
  /\ UNCHANGED <<clients, client_mutex, open, peer, threads, logouts, signal>>

\* server_socket is closed once more, whatever the descriptor is by now, and
\* clients_mutex taken.
CloseListener ==
  /\ main.pc = "cleanup"
  /\ open' = [open EXCEPT ![server_socket] = None]
  /\ main' = [main EXCEPT !.pc = "sweep"]
  /\ UNCHANGED <<clients, client_mutex, peer, threads, logouts, signal>>

\* A connected slot's socket is closed, without client->mutex; socket_fd
\* keeps its number.  Slots from client_count on were never connected.
Sweep ==
  LET i == main.slot
      close == clients[i].connected /\ clients[i].socket_fd >= 0 IN
  /\ main.pc = "sweep"
  /\ i < MAX_CLIENTS
  /\ open' = IF close THEN [open EXCEPT ![clients[i].socket_fd] = None] ELSE open
  /\ clients' = [clients EXCEPT ![i].connected = @ /\ ~close]
  /\ main' = [main EXCEPT !.slot = i + 1]
  /\ UNCHANGED <<client_mutex, peer, threads, logouts, signal>>

\* main returns: the process ends, its threads and descriptors with it.
Exit ==
  /\ main.pc = "sweep"
  /\ main.slot = MAX_CLIENTS
  /\ main' = [Waiting EXCEPT !.pc = "exited"]
  /\ open' = [f \in Fds |-> None]
  /\ pc' = [c \in Conns |-> IF Running(c) THEN "done" ELSE pc[c]]
  /\ UNCHANGED <<clients, client_mutex, peer, slot, src, mail, logouts, signal>>

-----------------------------------------------------------------------------
(* A handler thread.                                                       *)

My(c) == clients[slot[c]]
Goto(c, label) == pc' = [pc EXCEPT ![c] = label]

\* The loop's condition, and the descriptor recv is called on.
LoopTest(c) ==
  /\ pc[c] = "loop"
  /\ IF My(c).connected /\ running /\ Behind(slot[c]) \in Conns
     THEN /\ Goto(c, "recv")
          /\ src' = [src EXCEPT ![c] = Behind(slot[c])]
     ELSE /\ Goto(c, "leaving")
          /\ src' = [src EXCEPT ![c] = None]
  /\ UNCHANGED <<clients, client_mutex, open, peer, main, slot, mail, logouts, signal>>

\* Mutated forms of RecvEnds: the loop closes the socket that the teardown
\* closes again; a failed recv is tried again for ever.
RecvEndsClosing(c) ==
  /\ pc[c] = "recv"
  /\ open' = [open EXCEPT ![My(c).socket_fd] = None]
  /\ Goto(c, "leaving")
  /\ src' = [src EXCEPT ![c] = None]
  /\ UNCHANGED <<clients, client_mutex, peer, main, slot, mail, logouts, signal>>

RecvEndsRetry(c) ==
  /\ pc[c] = "recv"
  /\ Goto(c, "loop")
  /\ src' = [src EXCEPT ![c] = None]
  /\ UNCHANGED <<clients, client_mutex, open, peer, main, slot, mail, logouts, signal>>

\* The peer is gone, or its frame is malformed or over the rate limit.
RecvEnds(c) ==
  /\ pc[c] = "recv"
  /\ Goto(c, "leaving")
  /\ src' = [src EXCEPT ![c] = None]
  /\ UNCHANGED <<clients, client_mutex, open, peer, main, slot, mail, logouts, signal>>

\* A message that changes nothing here.
RecvOther(c) ==
  /\ pc[c] = "recv"
  /\ peer[src[c]] = "up"
  /\ Goto(c, "loop")
  /\ UNCHANGED <<clients, client_mutex, open, peer, main, slot, src, mail, logouts, signal>>

\* A login whose signature is good: the user is written under client->mutex.
RecvLogin(c) ==
  /\ pc[c] = "recv"
  /\ peer[src[c]] = "up"
  /\ client_mutex[slot[c]] = None
  /\ clients' = [clients EXCEPT ![slot[c]].authenticated = TRUE,
                                ![slot[c]].username = src[c]]
  /\ Goto(c, "announce")
  /\ UNCHANGED <<client_mutex, open, peer, main, slot, src, mail, logouts, signal>>

\* broadcast_status_update, then the response.
Announce(c) ==
  /\ pc[c] = "announce"
  /\ TableFree
  /\ Goto(c, "loop")
  /\ UNCHANGED <<clients, client_mutex, open, peer, main, slot, src, mail, logouts, signal>>

RecvLogout(c) ==
  /\ logouts < MaxLogouts
  /\ logouts' = logouts + 1
  /\ pc[c] = "recv"
  /\ peer[src[c]] = "up"
  /\ client_mutex[slot[c]] = None
  /\ clients' = [clients EXCEPT ![slot[c]].connected = FALSE]
  /\ Goto(c, "loop")
  /\ UNCHANGED <<client_mutex, open, peer, main, slot, src, mail, signal>>

\* SEND_MESSAGE to user u: find_client_by_username finds u's first slot.
RecvSend(c, u) ==
  /\ pc[c] = "recv"
  /\ peer[src[c]] = "up"
  /\ My(c).authenticated
  /\ TableFree
  /\ \E i \in Slots :
       LET Live(j) == /\ clients[j].connected
                      /\ clients[j].authenticated
                      /\ clients[j].username = u
       IN /\ Live(i)
          /\ \A j \in Slots : j < i => ~ Live(j)
          /\ mail' = [mail EXCEPT ![c] = [to |-> u, slot |-> i]]
  /\ Goto(c, "relay")
  /\ UNCHANGED <<clients, client_mutex, open, peer, main, slot, src, logouts, signal>>

\* recipient_client->socket_fd is read now and the message sent to it.
Relayed(c) ==
  /\ pc[c] = "relay"
  /\ Goto(c, "loop")
  /\ mail' = [mail EXCEPT ![c] = NoMail]
  /\ UNCHANGED <<clients, client_mutex, open, peer, main, slot, src, logouts, signal>>

-----------------------------------------------------------------------------
(* The teardown at the end of client_handler.                              *)

TakeMutex(c) ==
  /\ pc[c] = "leaving"
  /\ client_mutex[slot[c]] = None
  /\ client_mutex' = [client_mutex EXCEPT ![slot[c]] = c]
  /\ Goto(c, IF My(c).authenticated /\ My(c).username # None
             THEN "farewell" ELSE "closing")
  /\ UNCHANGED <<clients, open, peer, main, slot, src, mail, logouts, signal>>

\* OFFLINE is broadcast.
Farewell(c) ==
  /\ pc[c] = "farewell"
  /\ TableFree
  /\ Goto(c, "closing")
  /\ UNCHANGED <<clients, client_mutex, open, peer, main, slot, src, mail, logouts, signal>>

\* close: from here on the descriptor may be another connection's.
CloseSocket(c) ==
  /\ pc[c] = "closing"
  /\ open' = IF My(c).socket_fd >= 0
             THEN [open EXCEPT ![My(c).socket_fd] = None] ELSE open
  /\ Goto(c, "unsetting")
  /\ UNCHANGED <<clients, client_mutex, peer, main, slot, src, mail, logouts, signal>>

\* socket_fd and connected are reset: from here on the slot may be claimed.
LeaveSlot(c) ==
  /\ pc[c] = "unsetting"
  /\ clients' = [clients EXCEPT ![slot[c]].socket_fd = -1,
                                ![slot[c]].connected = FALSE]
  /\ Goto(c, "clearing")
  /\ UNCHANGED <<client_mutex, open, peer, main, slot, src, mail, logouts, signal>>

ClearUser(c) ==
  /\ pc[c] = "clearing"
  /\ clients' = [clients EXCEPT ![slot[c]].authenticated = FALSE,
                                ![slot[c]].username = None]
  /\ Goto(c, "unlocking")
  /\ UNCHANGED <<client_mutex, open, peer, main, slot, src, mail, logouts, signal>>

\* Mutated form of HandlerEnds: the mutex is not given back.
HandlerEndsHolding(c) ==
  /\ pc[c] = "unlocking"
  /\ Goto(c, "done")
  /\ slot' = [slot EXCEPT ![c] = 0]
  /\ UNCHANGED <<clients, client_mutex, open, peer, main, src, mail, logouts, signal>>

\* The unlock frees the mutex whoever holds it by now.
HandlerEnds(c) ==
  /\ pc[c] = "unlocking"
  /\ client_mutex' = [client_mutex EXCEPT ![slot[c]] = None]
  /\ Goto(c, "done")
  /\ slot' = [slot EXCEPT ![c] = 0]
  /\ UNCHANGED <<clients, open, peer, main, src, mail, logouts, signal>>

-----------------------------------------------------------------------------

Main ==
  \/ Scan \/ Reject \/ Wipe \/ Fill \/ Spawn \/ SpawnFails
  \/ \E c \in Conns : Accept(c)
  \/ AcceptFails \/ CloseListener \/ Sweep \/ Exit

Teardown(c) ==
  \/ TakeMutex(c) \/ Farewell(c) \/ CloseSocket(c)
  \/ LeaveSlot(c) \/ ClearUser(c) \/ HandlerEnds(c)

Handler(c) ==
  \/ LoopTest(c) \/ RecvEnds(c) \/ RecvOther(c) \/ RecvLogin(c)
  \/ Announce(c) \/ RecvLogout(c) \/ Relayed(c)
  \/ \E u \in Conns : RecvSend(c, u)
  \/ Teardown(c)

Next == Main \/ Signal \/ \E c \in Conns : Drop(c) \/ Handler(c)

Spec == Init /\ [][Next]_vars

\* Threads that can run do run.  The table's mutex and a client's mutex are
\* free again and again, and a thread waiting for one gets it in the end.
Fairness ==
  /\ WF_vars(Main /\ main.pc # "accept")
  /\ WF_vars(AcceptFails)
  /\ \A c \in Conns :
       /\ WF_vars(Handler(c))
       /\ SF_vars(Announce(c) \/ Farewell(c))
       /\ SF_vars(TakeMutex(c))

FairSpec == Spec /\ Fairness

-----------------------------------------------------------------------------

HandlerPc == {"none", "accepted", "loop", "recv", "announce", "relay",
              "leaving", "farewell", "closing", "unsetting", "clearing",
              "unlocking", "done"}

TypeOK ==
  /\ clients \in [Slots -> Client]
  /\ client_mutex \in [Slots -> Conns \cup {None}]
  /\ open \in [Fds -> Conns \cup {None, Console, Listener}]
  /\ peer \in [Conns -> {"up", "dropped"}]
  /\ main \in [pc : {"accept", "scan", "wipe", "fill", "spawn", "cleanup", "sweep", "exited"},
               conn : Conns \cup {None}, fd : -1 .. MaxFd,
               slot : 0 .. MAX_CLIENTS]
  /\ pc \in [Conns -> HandlerPc]
  /\ slot \in [Conns -> Slots]
  /\ src \in [Conns -> Conns \cup {None}]
  /\ mail \in [Conns -> [to : Conns \cup {None}, slot : Slots]]
  /\ logouts \in 0 .. MaxLogouts
  /\ signal \in {"none", "seen", "missed"}

\* The handler is in its loop or has not yet closed its socket.
Serving(c) == pc[c] \in {"loop", "recv", "announce", "relay", "leaving",
                         "farewell", "closing"}

\* A handler that reads or closes the descriptor of its slot reads or closes
\* its own connection: descriptors are reused at once, slots after a scan,
\* and no order of the two may hand a thread someone else's socket.
OwnSocket == \A c \in Conns : Serving(c) => Behind(slot[c]) = c

\* At most one running handler considers a slot its own.
SlotExclusive ==
  \A c, d \in Conns : Serving(c) /\ Serving(d) /\ slot[c] = slot[d] => c = d

\* A descriptor stays open only for a connection that the accept loop or a
\* handler still has in hand: rejections, failed threads and teardowns in
\* any order leak none.
NoFdLeak ==
  \A f \in Fds :
    open[f] \in Conns => main.conn = open[f] \/ Serving(open[f])

\* A slot never speaks for a user who did not log in over its connection,
\* whoever used the slot before and however far that handler's teardown is.
NoForeignUser ==
  \A c \in Conns : Serving(c) => My(c).username \in {None, c}

\* A connection whose client is gone gives its descriptor back, also when
\* the table's mutex and its own are contended; a LOGOUT by anyone voids it,
\* for a slot claimed under a running handler loses a descriptor.
DroppedIsReclaimed ==
  \A c \in Conns :
    (peer[c] = "dropped" /\ pc[c] # "none")
      ~> (logouts > 0 \/ \A f \in Fds : open[f] # c)

\* When every client is gone every handler thread ends, though slots were
\* claimed, their mutexes wiped and their descriptors closed under threads
\* that still ran on them: none waits for a mutex nobody will give back.
ThreadsEnd ==
  (\A c \in Conns : peer[c] = "dropped")
    ~> (\A c \in Conns : pc[c] \in {"none", "done"})

\* A signal ends the process, wherever main and the handlers are when it
\* comes: main leaves its loop, gets the table's mutex and exits.  Only an
\* accept that missed the signal waits for one more connection first.
ShutdownEnds ==
  (signal # "none")
    ~> (main.pc = "exited" \/ (signal = "missed" /\ main.pc = "accept"))

\* protocol.md:86: "Disconnect from server gracefully."  What a handler
\* closes after a LOGOUT is the connection that logged out.
LogoutDisconnects ==
  \A c \in Conns : pc[c] = "closing" => Behind(slot[c]) = c

\* protocol.md:136: "Deliver message to client."  The message is sent to the
\* connection of the user it is for, or to a socket that is gone.
RightRecipient ==
  \A c \in Conns :
    pc[c] = "relay" => Behind(mail[c].slot) \in {mail[c].to, None}
=============================================================================
