-------------------------------- MODULE Relay --------------------------------
(***************************************************************************)
(* What becomes of a message: handle_send_message, queue_message,          *)
(* deliver_queued_messages and the acknowledgement, over several handlers. *)
(* A step ends where a mutex is given back or a socket is written, so      *)
(* between the two look-ups of a recipient it may log in, leave, or be     *)
(* found on another connection.  A slot is one connection here: the reuse  *)
(* of slots is ConnectionTable's subject, the memory of a queue            *)
(* MessageQueue's.                                                         *)
(***************************************************************************)
EXTENDS Integers, Sequences, Functions

CONSTANTS
  MAX_CLIENTS,          \* slots, each with a connection of its own
  Users,                \* registered users
  Msgs,                 \* messages clients want sent
  To,                   \* message -> user it is for
  MESSAGE_QUEUE_SIZE,
  None                  \* no user, no message, no slot

ASSUME RelayAssumption ==
  /\ MAX_CLIENTS \in Nat \ {0}
  /\ MESSAGE_QUEUE_SIZE \in Nat \ {0}
  /\ To \in [Msgs -> Users]
  /\ None \notin Users \cup Msgs \cup Nat

VARIABLES
  user,             \* slot -> user logged in on a connected slot, or None
  queue,            \* slot -> its message_queue
  took,             \* slot -> what its socket has taken, in order
  pc,               \* slot -> where its handler stands
  job,              \* slot -> the message it relays: [msg, id, to, status]
  next_message_id,  \* server.next_message_id
  ack,              \* message -> the MESSAGE_ACK its sender was sent
  was               \* slot -> users that ever logged in on it

vars == <<user, queue, took, pc, job, next_message_id, ack, was>>

Slots == 0 .. MAX_CLIENTS - 1
NoJob == [msg |-> None, id |-> 0, to |-> None, status |-> 0]
NoAck == [id |-> 0, status |-> -1]
Failed == 0
Delivered == 1
Queued == 2

\* Mutated form of Init, in no specification: ids start at 0, which means none.
InitAtZero ==
  /\ user = [c \in Slots |-> None]
  /\ queue = [c \in Slots |-> <<>>]
  /\ took = [c \in Slots |-> <<>>]
  /\ pc = [c \in Slots |-> "loop"]
  /\ job = [c \in Slots |-> NoJob]
  /\ next_message_id = 0
  /\ ack = [m \in Msgs |-> NoAck]
  /\ was = [c \in Slots |-> {}]

Init ==
  /\ user = [c \in Slots |-> None]
  /\ queue = [c \in Slots |-> <<>>]
  /\ took = [c \in Slots |-> <<>>]
  /\ pc = [c \in Slots |-> "loop"]
  /\ job = [c \in Slots |-> NoJob]
  /\ next_message_id = 1
  /\ ack = [m \in Msgs |-> NoAck]
  /\ was = [c \in Slots |-> {}]

\* Mutated form of Find: the names are not compared.
FindAnyone(u) ==
  IF \E c \in Slots : user[c] # None
  THEN CHOOSE c \in Slots :
         user[c] # None /\ \A d \in Slots : d < c => user[d] = None
  ELSE None

\* find_client_by_username: the first slot the user is logged in on.
Find(u) ==
  IF \E c \in Slots : user[c] = u
  THEN CHOOSE c \in Slots : user[c] = u /\ \A d \in Slots : d < c => user[d] # u
  ELSE None

Goto(c, label) == pc' = [pc EXCEPT ![c] = label]

-----------------------------------------------------------------------------
(* Logging in, fetching, leaving.                                          *)

\* A good signature: the slot is the user's, whoever's it was before.
Login(c, u) ==
  /\ pc[c] = "loop"
  /\ user' = [user EXCEPT ![c] = u]
  /\ was' = [was EXCEPT ![c] = @ \cup {u}]
  /\ Goto(c, "delivering")
  /\ UNCHANGED <<queue, took, job, next_message_id, ack>>

GetMessages(c) ==
  /\ pc[c] = "loop"
  /\ user[c] # None
  /\ Goto(c, "delivering")
  /\ UNCHANGED <<user, queue, took, job, next_message_id, ack, was>>

\* deliver_queued_messages, under queue_mutex: the socket takes the first n
\* messages, all of them unless a send or an allocation fails.
Deliver(c) ==
  /\ pc[c] = "delivering"
  /\ \E n \in 0 .. Len(queue[c]) :
       /\ took' = [took EXCEPT ![c] = @ \o SubSeq(queue[c], 1, n)]
       /\ queue' = [queue EXCEPT ![c] = SubSeq(@, n + 1, Len(@))]
  /\ Goto(c, "loop")
  /\ UNCHANGED <<user, job, next_message_id, ack, was>>

\* The teardown: the slot is nobody's and its queue is emptied.
Leave(c) ==
  /\ pc[c] = "loop"
  /\ user' = [user EXCEPT ![c] = None]
  /\ queue' = [queue EXCEPT ![c] = <<>>]
  /\ Goto(c, "gone")
  /\ UNCHANGED <<took, job, next_message_id, ack, was>>

-----------------------------------------------------------------------------
(* handle_send_message, in the order of its critical sections.             *)

\* The recipient is registered and the message gets its id.
Number(c, m) ==
  /\ pc[c] = "loop"
  /\ user[c] # None
  /\ ack[m] = NoAck
  /\ \A d \in Slots : job[d].msg # m
  /\ job' = [job EXCEPT ![c] = [NoJob EXCEPT !.msg = m, !.id = next_message_id]]
  /\ next_message_id' = next_message_id + 1
  /\ Goto(c, "numbered")
  /\ UNCHANGED <<user, queue, took, ack, was>>

\* The recipient's connection is looked up for a direct delivery.
Locate(c) ==
  LET found == Find(To[job[c].msg]) IN
  /\ pc[c] = "numbered"
  /\ job' = [job EXCEPT ![c].to = found]
  /\ Goto(c, IF found = None THEN "queueing" ELSE "sending")
  /\ UNCHANGED <<user, queue, took, next_message_id, ack, was>>

\* Mutated form of SendDirect: success is taken for failure.
SendDirectRequeued(c) ==
  LET d == job[c].to IN
  /\ pc[c] = "sending"
  /\ pc[d] # "gone"
  /\ took' = [took EXCEPT ![d] = Append(@, [msg |-> job[c].msg, id |-> job[c].id])]
  /\ Goto(c, "queueing")
  /\ UNCHANGED <<user, queue, job, next_message_id, ack, was>>

\* The connection found takes the message; its handler may be leaving, but
\* its socket is open.
SendDirect(c) ==
  LET d == job[c].to IN
  /\ pc[c] = "sending"
  /\ pc[d] # "gone"
  /\ took' = [took EXCEPT ![d] = Append(@, [msg |-> job[c].msg, id |-> job[c].id])]
  /\ job' = [job EXCEPT ![c].status = Delivered]
  /\ Goto(c, "acking")
  /\ UNCHANGED <<user, queue, next_message_id, ack, was>>

\* Mutated form of SendFails: the result of the send is not looked at.
SendFailsUnseen(c) ==
  /\ pc[c] = "sending"
  /\ job' = [job EXCEPT ![c].status = Delivered]
  /\ Goto(c, "acking")
  /\ UNCHANGED <<user, queue, took, next_message_id, ack, was>>

\* The send fails: the message is to be queued.
SendFails(c) ==
  /\ pc[c] = "sending"
  /\ Goto(c, "queueing")
  /\ UNCHANGED <<user, queue, took, job, next_message_id, ack, was>>

\* No memory for the frame: nothing is sent, nothing queued.
NoMemory(c) ==
  /\ pc[c] = "sending"
  /\ job' = [job EXCEPT ![c].status = Failed]
  /\ Goto(c, "acking")
  /\ UNCHANGED <<user, queue, took, next_message_id, ack, was>>

\* queue_message looks the recipient up again.  Its result is ignored: the
\* acknowledgement says queued whatever it was.
FindQueue(c) ==
  LET found == Find(To[job[c].msg]) IN
  /\ pc[c] = "queueing"
  /\ job' = [job EXCEPT ![c].to = found, ![c].status = Queued]
  /\ Goto(c, IF found = None THEN "acking" ELSE "found")
  /\ UNCHANGED <<user, queue, took, next_message_id, ack, was>>

\* Mutated form of Enqueue: the id is used and not counted.
EnqueueUncounted(c) ==
  LET d == job[c].to IN
  /\ pc[c] = "found"
  /\ Len(queue[d]) < MESSAGE_QUEUE_SIZE
  /\ queue' = [queue EXCEPT ![d] =
                 Append(@, [msg |-> job[c].msg, id |-> next_message_id])]
  /\ Goto(c, "acking")
  /\ UNCHANGED <<user, took, job, next_message_id, ack, was>>

\* The message joins the queue of the slot found, under an id of its own.
Enqueue(c) ==
  LET d == job[c].to IN
  /\ pc[c] = "found"
  /\ Len(queue[d]) < MESSAGE_QUEUE_SIZE
  /\ queue' = [queue EXCEPT ![d] =
                 Append(@, [msg |-> job[c].msg, id |-> next_message_id])]
  /\ next_message_id' = next_message_id + 1
  /\ Goto(c, "acking")
  /\ UNCHANGED <<user, took, job, ack, was>>

\* Mutated form of EnqueueFails: the handler returns without an answer.
EnqueueFailsSilent(c) ==
  /\ pc[c] = "found"
  /\ job' = [job EXCEPT ![c] = NoJob]
  /\ Goto(c, "loop")
  /\ UNCHANGED <<user, queue, took, next_message_id, ack, was>>

\* The queue is full, or the payload cannot be copied and an id is spent.
EnqueueFails(c) ==
  /\ pc[c] = "found"
  /\ \/ /\ Len(queue[job[c].to]) >= MESSAGE_QUEUE_SIZE
        /\ UNCHANGED next_message_id
     \/ /\ Len(queue[job[c].to]) < MESSAGE_QUEUE_SIZE
        /\ next_message_id' = next_message_id + 1
  /\ Goto(c, "acking")
  /\ UNCHANGED <<user, queue, took, job, ack, was>>

Acknowledge(c) ==
  /\ pc[c] = "acking"
  /\ ack' = [ack EXCEPT ![job[c].msg] = [id |-> job[c].id,
                                         status |-> job[c].status]]
  /\ job' = [job EXCEPT ![c] = NoJob]
  /\ Goto(c, "loop")
  /\ UNCHANGED <<user, queue, took, next_message_id, was>>

-----------------------------------------------------------------------------

\* The steps a handler takes on its own once a request is accepted.
Proceed(c) ==
  \/ Deliver(c) \/ Locate(c) \/ SendDirect(c) \/ SendFails(c) \/ NoMemory(c)
  \/ FindQueue(c) \/ Enqueue(c) \/ EnqueueFails(c) \/ Acknowledge(c)

Request(c) ==
  \/ GetMessages(c) \/ Leave(c)
  \/ \E u \in Users : Login(c, u)
  \/ \E m \in Msgs : Number(c, m)

Next == \E c \in Slots : Request(c) \/ Proceed(c)

Spec == Init /\ [][Next]_vars

\* A handler that has taken a request finishes it: a send to a socket
\* returns, and every mutex on its way is held for a bounded time.
FairSpec == Spec /\ \A c \in Slots : WF_vars(Proceed(c))

-----------------------------------------------------------------------------

Stored == [msg : Msgs, id : Nat \ {0}]

TypeOK ==
  /\ user \in [Slots -> Users \cup {None}]
  /\ queue \in [Slots -> Seq(Stored)]
  /\ took \in [Slots -> Seq(Stored)]
  /\ pc \in [Slots -> {"loop", "delivering", "numbered", "sending", "queueing",
                       "found", "acking", "gone"}]
  /\ job \in [Slots -> [msg : Msgs \cup {None}, id : Nat,
                        to : Slots \cup {None}, status : {0, 1, 2}]]
  /\ next_message_id \in Nat \ {0}
  /\ ack \in [Msgs -> [id : Nat, status : {-1, 0, 1, 2}]]
  /\ was \in [Slots -> SUBSET Users]

\* Everything the server holds or has handed out under an identifier.
Copies(c) == Range(queue[c]) \cup Range(took[c])
Holding == UNION {Copies(c) : c \in Slots}
Answered == {[msg |-> m, id |-> ack[m].id] : m \in {n \in Msgs : ack[n] # NoAck}}
UnderWay == {[msg |-> job[c].msg, id |-> job[c].id] :
               c \in {d \in Slots : job[d] # NoJob}}

\* One id never stands for two messages: not in a queue, not on a socket,
\* not in an acknowledgement, though two counters' worth of callers take ids
\* (message_handlers.c:170-172, message_queue.c:26-28).
IdsDistinct ==
  \A x, y \in Holding \cup Answered \cup UnderWay : x.id = y.id => x.msg = y.msg

\* A message reaches sockets at most once in all, counting what still waits
\* in a queue to be sent: the retreat from a failed send to the queue, two
\* connections of one user and repeated deliveries never double it.
AtMostOnce ==
  LET copies == [c \in Slots |-> took[c] \o queue[c]]
  IN \A c, d \in Slots : \A i \in DOMAIN copies[c], j \in DOMAIN copies[d] :
       copies[c][i].msg = copies[d][j].msg => c = d /\ i = j

\* No connection gets, or holds in its queue, a message for a user who never
\* logged in on it.
AddresseesOnly ==
  \A c \in Slots : \A x \in Copies(c) : To[x.msg] \in was[c]

\* "Delivered" is said only of a message that a socket took under the very
\* id of the acknowledgement, "failed" only of one that no client will see.
AckTruthful ==
  \A m \in Msgs :
    /\ ack[m].status = Delivered =>
         \E c \in Slots : [msg |-> m, id |-> ack[m].id] \in Range(took[c])
    /\ ack[m].status = Failed => \A x \in Holding : x.msg # m

\* A message that was numbered is acknowledged, whatever its recipient does
\* meanwhile.
EverySendAnswered ==
  \A m \in Msgs : (\E c \in Slots : job[c].msg = m) ~> (ack[m] # NoAck)

\* protocol.md:131: "Status] (0=failed, 1=delivered, 2=queued)", and
\* NETWORK_IMPLEMENTATION.md:36: "Message queuing for offline users".  A
\* message acknowledged as queued is in a queue, or came out of one, under
\* the id of its acknowledgement.
AckQueuedKept ==
  \A m \in Msgs :
    ack[m].status = Queued => [msg |-> m, id |-> ack[m].id] \in Holding
=============================================================================
