-------------------------------- MODULE Wire --------------------------------
(***************************************************************************)
(* Connections between the client program and the server: frames of two   *)
(* parts, sent one after the other and received one after the other, and   *)
(* the server's end, which answers the two requests the program makes.     *)
(*                                                                         *)
(* A connection carries two streams.  A frame is a header (length, type)   *)
(* and, unless the length is 0, a payload.  send_network_message sends     *)
(* them in two calls and receive_network_message reads them in two: each   *)
(* can fail between the two.  Covered: either end closing at any point,    *)
(* the server stopping and starting again, answers lost on the way.        *)
(***************************************************************************)
EXTENDS Integers, Sequences, FiniteSets

CONSTANTS
  Users,         \* user names
  None,          \* no user, no part
  MAX_CLIENTS,   \* slots and places in server.users[]
  MaxConns       \* bound: connections in a behaviour

ASSUME WireAssumption ==
  /\ MAX_CLIENTS \in Nat \ {0}
  /\ MaxConns \in Nat
  /\ None \notin Users

VARIABLES
  chan,        \* connection -> its two streams and the state of its ends
  registered,  \* server.users[]: user -> public key, NoKey if not registered
  running,     \* there is a server
  taken        \* <<user, key>> of all registrations of all servers

server == <<registered, running, taken>>

Conns == 1 .. MaxConns
NoKey == 0
OldKey == MaxConns + 1   \* of an account made before the behaviour begins
Key == 0 .. OldKey
Requests == {"register", "get_key"}
Answers == {"register_response", "key_response", "error"}
Code == {"success", "exists", "server_error", "refused", "none"}

Part == [part : {"header", "payload"}, type : Requests \cup Answers \cup {"logout"},
         user : Users \cup {None}, key : Key, code : Code]

Header(type) ==
  [part |-> "header", type |-> type, user |-> None, key |-> NoKey, code |-> "none"]
Asked(type, u, k) ==
  [part |-> "payload", type |-> type, user |-> u, key |-> k, code |-> "none"]
Answered(type, code) ==
  [part |-> "payload", type |-> type, user |-> None, key |-> NoKey, code |-> code]

\* send_error.
Refusal == Answered("error", "refused")

\* up and down are the streams to the server and to the client; owed is the
\* payload of an answer whose header is sent.
Unused == [up |-> <<>>, down |-> <<>>, owed |-> None,
           client |-> "unused", server |-> "unused"]

WireInit ==
  /\ chan = [c \in Conns |-> Unused]
  /\ registered = [u \in Users |-> NoKey]
  /\ running = TRUE

Serving == {c \in Conns : chan[c].server \in {"serving", "answering"}}

\* Nobody can read what is sent to a closed end.
Settle(ch) ==
  [ch EXCEPT !.up = IF ch.server = "closed" THEN <<>> ELSE @,
             !.owed = IF ch.server = "closed" THEN None ELSE @,
             !.down = IF ch.client = "closed" THEN <<>> ELSE @]

-----------------------------------------------------------------------------
(* The client's end: what network.c does to a connection.                  *)

\* A connection to a running server waits in its backlog.
Connected(c) == [chan EXCEPT ![c] = [Unused EXCEPT !.client = "open",
                                                   !.server = "backlog"]]

\* What is sent to a closed end is lost.
Put(ch, part) == Settle([ch EXCEPT !.up = Append(ch.up, part)])
Sent(c, part) == [chan EXCEPT ![c] = Put(chan[c], part)]

Close(ch) == Settle([ch EXCEPT !.client = "closed"])
HangUp(c) == [chan EXCEPT ![c] = Close(chan[c])]

-----------------------------------------------------------------------------
(* The server's end: the accept loop and the connection's handler.         *)

Shut(ch) == Settle([ch EXCEPT !.server = "closed"])

\* Without a free slot the connection is closed again.
Accept(c) ==
  /\ running
  /\ chan[c].server = "backlog"
  /\ chan' = [chan EXCEPT ![c] = IF Cardinality(Serving) < MAX_CLIENTS
                                 THEN [chan[c] EXCEPT !.server = "serving"]
                                 ELSE Shut(chan[c])]
  /\ UNCHANGED server

\* add_user, and the code of its answer.
Registration(u) ==
  IF Cardinality({v \in Users : registered[v] # NoKey}) >= MAX_CLIENTS
  THEN "server_error"
  ELSE IF registered[u] # NoKey THEN "exists" ELSE "success"

\* What is in front of the stream is a frame, header and payload.
FrameThere(c) == Len(chan[c].up) >= 2 /\ chan[c].up[2].part = "payload"

\* A whole frame is there: it is handled, and the answer's header sent.  No
\* connection of this program is authenticated, so a GET_PUBLIC_KEY gets an
\* error.
Handle(c) ==
  /\ chan[c].server = "serving"
  /\ FrameThere(c)
  /\ LET asked == chan[c].up[2]
         code == Registration(asked.user)
         answer == IF asked.type = "register"
                   THEN Answered("register_response", code)
                   ELSE Refusal
         new == asked.type = "register" /\ code = "success"
     IN /\ registered' = IF new THEN [registered EXCEPT ![asked.user] = asked.key]
                                ELSE registered
        /\ taken' = IF new THEN taken \cup {<<asked.user, asked.key>>} ELSE taken
        /\ chan' = [chan EXCEPT ![c] = Settle(
                      [chan[c] EXCEPT
                         !.up = SubSeq(chan[c].up, 3, Len(chan[c].up)),
                         !.down = Append(chan[c].down, Header(answer.type)),
                         !.owed = answer,
                         !.server = "answering"])]
  /\ UNCHANGED running

\* Mutated form of Answer, in no specification: the payload is not sent.
AnswerCut(c) ==
  /\ chan[c].server = "answering"
  /\ chan' = [chan EXCEPT ![c] = Settle([chan[c] EXCEPT !.owed = None, !.server = "serving"])]
  /\ UNCHANGED server

Answer(c) ==
  /\ chan[c].server = "answering"
  /\ chan' = [chan EXCEPT ![c] = Settle(
                [chan[c] EXCEPT !.down = Append(chan[c].down, chan[c].owed),
                                !.owed = None,
                                !.server = "serving"])]
  /\ UNCHANGED server

\* The handler leaves its loop: LOGOUT, or the end of the stream, perhaps in
\* the middle of a frame.
Leave(c) ==
  /\ chan[c].server = "serving"
  /\ \/ chan[c].up # <<>> /\ Head(chan[c].up).type = "logout"
     \/ /\ chan[c].client = "closed"
        /\ ~FrameThere(c)
  /\ chan' = [chan EXCEPT ![c] = Shut(chan[c])]
  /\ UNCHANGED server

\* recv or malloc fails, or the connection breaks, or sends too much.
Break(c) ==
  /\ chan[c].server \in {"serving", "answering"}
  /\ chan' = [chan EXCEPT ![c] = Shut(chan[c])]
  /\ UNCHANGED server

\* The server process ends: its connections are closed, its users forgotten.
\* Answers on their way arrive or are lost with it.
Stop ==
  /\ running
  /\ running' = FALSE
  /\ registered' = [u \in Users |-> NoKey]
  /\ \E lost \in BOOLEAN :
       chan' = [c \in Conns |->
         IF chan[c].client = "unused" THEN chan[c]
         ELSE Settle([chan[c] EXCEPT !.server = "closed",
                                     !.down = IF lost THEN <<>> ELSE chan[c].down])]
  /\ UNCHANGED taken

Start ==
  /\ ~running
  /\ running' = TRUE
  /\ UNCHANGED <<chan, registered, taken>>

Handler(c) == Accept(c) \/ Handle(c) \/ Answer(c) \/ Leave(c)

Server == Stop \/ Start \/ \E c \in Conns : Handler(c) \/ Break(c)
=============================================================================
