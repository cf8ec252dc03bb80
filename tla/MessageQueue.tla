---------------------------- MODULE MessageQueue ----------------------------
(***************************************************************************)
(* The message queue of one slot of server.clients[], over one tenancy of  *)
(* the slot: from the login of its connection to the end of its handler.   *)
(*                                                                         *)
(* Any number of other handlers run queue_message on it while its own      *)
(* handler runs deliver_queued_messages and, at the end, the teardown of   *)
(* client_handler.  An action is what one thread does between two places   *)
(* where another thread can come in: taking queue_mutex, the critical      *)
(* section on message_id_mutex, a send.  The memory of the payloads is     *)
(* modelled by the set of live blocks, a block being named by the id of    *)
(* the message it was allocated for; 0 is the null pointer.                *)
(***************************************************************************)
EXTENDS Integers, Sequences, FiniteSets

CONSTANTS
  Senders,              \* threads that may be inside queue_message
  Owner,                \* the thread that runs the slot's client_handler
  Nobody,               \* holder of a free mutex
  MESSAGE_QUEUE_SIZE,   \* entries of the ring
  MaxId                 \* bound: identifiers given out in a behaviour

ASSUME SizeAssumption == MESSAGE_QUEUE_SIZE \in Nat \ {0}
ASSUME ThreadAssumption ==
  /\ Owner \notin Senders
  /\ Nobody \notin Senders \cup {Owner}

VARIABLES
  message_queue,    \* the ring: index -> stored_message_t
  queue_head,
  queue_tail,
  queue_count,
  queue_mutex,      \* who holds the slot's queue_mutex
  next_message_id,  \* server.next_message_id
  heap,             \* the live payload blocks
  call,             \* sender -> where it stands in queue_message
  handler,          \* where the slot's own handler stands
  sweep,            \* the teardown's loop variable i
  received          \* ids the recipient's socket has taken, in order

ring == <<queue_head, queue_tail, queue_count>>
vars == <<message_queue, ring, queue_mutex, next_message_id, heap, call,
          handler, sweep, received>>

Index == 0 .. MESSAGE_QUEUE_SIZE - 1
Null == 0
Entry == [id : Nat, data : Nat, delivered : BOOLEAN]
CallState == {"idle", "found", "entered", "filled"}
HandlerState ==
  {"serving", "delivering", "sent", "closing", "freeing", "gone"}

\* Mutated form of After, in no specification: the index does not wrap.
AfterUnwrapped(i) == i + 1

After(i) == (i + 1) % MESSAGE_QUEUE_SIZE

Init ==
  /\ message_queue =
       [i \in Index |-> [id |-> 0, data |-> Null, delivered |-> FALSE]]
  /\ queue_head = 0 /\ queue_tail = 0 /\ queue_count = 0
  /\ queue_mutex = Nobody
  /\ next_message_id = 1
  /\ heap = {}
  /\ call = [s \in Senders |-> "idle"]
  /\ handler = "serving"
  /\ sweep = 0
  /\ received = <<>>

-----------------------------------------------------------------------------
(* queue_message, run by the handlers of other connections.                *)

\* find_client_by_username finds a slot that is connected and authenticated.
Online == handler \in {"serving", "delivering", "sent"}

\* Keeps the model finite: an identifier is left for every call under way.
IdsLeft == next_message_id + Cardinality({s \in Senders : call[s] # "idle"}) <= MaxId

FindRecipient(s) ==
  /\ call[s] = "idle"
  /\ Online
  /\ IdsLeft
  /\ call' = [call EXCEPT ![s] = "found"]
  /\ UNCHANGED <<message_queue, ring, queue_mutex, next_message_id, heap,
                 handler, sweep, received>>

\* Mutated form of EnterQueue: a full ring is not noticed.
EnterQueueUnchecked(s) ==
  /\ call[s] = "found"
  /\ queue_mutex = Nobody
  /\ queue_mutex' = s
  /\ call' = [call EXCEPT ![s] = "entered"]
  /\ UNCHANGED <<message_queue, ring, next_message_id, heap, handler, sweep,
                 received>>

\* The mutex is taken and there is room.  The slot is not looked at again:
\* its connection may have ended since it was found.
EnterQueue(s) ==
  /\ call[s] = "found"
  /\ queue_mutex = Nobody
  /\ queue_count < MESSAGE_QUEUE_SIZE
  /\ queue_mutex' = s
  /\ call' = [call EXCEPT ![s] = "entered"]
  /\ UNCHANGED <<message_queue, ring, next_message_id, heap, handler, sweep,
                 received>>

\* The mutex is taken, the ring is full, the mutex is given back.
QueueFull(s) ==
  /\ call[s] = "found"
  /\ queue_mutex = Nobody
  /\ queue_count >= MESSAGE_QUEUE_SIZE
  /\ call' = [call EXCEPT ![s] = "idle"]
  /\ UNCHANGED <<message_queue, ring, queue_mutex, next_message_id, heap,
                 handler, sweep, received>>

\* The entry at the tail gets the next id and a block for its payload.
FillEntry(s) ==
  /\ call[s] = "entered"
  /\ message_queue' = [message_queue EXCEPT ![queue_tail] =
       [id |-> next_message_id, data |-> next_message_id, delivered |-> FALSE]]
  /\ next_message_id' = next_message_id + 1
  /\ heap' = heap \cup {next_message_id}
  /\ call' = [call EXCEPT ![s] = "filled"]
  /\ UNCHANGED <<ring, queue_mutex, handler, sweep, received>>

\* Mutated form of FillFails: the error path returns with the mutex held.
FillFailsHolding(s) ==
  /\ call[s] = "entered"
  /\ call' = [call EXCEPT ![s] = "idle"]
  /\ UNCHANGED <<message_queue, ring, queue_mutex, next_message_id, heap,
                 handler, sweep, received>>

\* malloc fails: the id is spent, the entry is left outside the window.
FillFails(s) ==
  /\ call[s] = "entered"
  /\ message_queue' = [message_queue EXCEPT ![queue_tail] =
       [id |-> next_message_id, data |-> Null, delivered |-> FALSE]]
  /\ next_message_id' = next_message_id + 1
  /\ queue_mutex' = Nobody
  /\ call' = [call EXCEPT ![s] = "idle"]
  /\ UNCHANGED <<ring, heap, handler, sweep, received>>

\* The window grows over the entry and the mutex is given back.
Commit(s) ==
  /\ call[s] = "filled"
  /\ queue_tail' = After(queue_tail)
  /\ queue_count' = queue_count + 1
  /\ queue_mutex' = Nobody
  /\ call' = [call EXCEPT ![s] = "idle"]
  /\ UNCHANGED <<message_queue, queue_head, next_message_id, heap, handler,
                 sweep, received>>

\* An id is taken by handle_send_message, or by queue_message for another
\* slot: the counter is the server's, not the slot's.
AllocElsewhere ==
  /\ IdsLeft
  /\ next_message_id' = next_message_id + 1
  /\ UNCHANGED <<message_queue, ring, queue_mutex, heap, call, handler, sweep,
                 received>>

-----------------------------------------------------------------------------
(* deliver_queued_messages, run by the slot's own handler, after a login   *)
(* and for GET_MESSAGES.                                                   *)

DeliverLock ==
  /\ handler = "serving"
  /\ queue_mutex = Nobody
  /\ queue_mutex' = Owner
  /\ handler' = "delivering"
  /\ UNCHANGED <<message_queue, ring, next_message_id, heap, call, sweep,
                 received>>

\* The head is skipped when it is marked delivered, sent otherwise.
DeliverNext ==
  LET msg == message_queue[queue_head] IN
  /\ handler = "delivering"
  /\ queue_count > 0
  /\ IF msg.delivered
     THEN /\ queue_head' = After(queue_head)
          /\ queue_count' = queue_count - 1
          /\ UNCHANGED <<message_queue, handler, received>>
     ELSE /\ message_queue' =
               [message_queue EXCEPT ![queue_head].delivered = TRUE]
          /\ received' = Append(received, msg.id)
          /\ handler' = "sent"
          /\ UNCHANGED <<queue_head, queue_count>>
  /\ UNCHANGED <<queue_tail, queue_mutex, next_message_id, heap, call, sweep>>

\* Mutated forms of DeliverRelease: the pointer is left in the entry; the
\* payload is forgotten without being freed.
DeliverReleaseDangling ==
  /\ handler = "sent"
  /\ heap' = heap \ {message_queue[queue_head].data}
  /\ queue_head' = After(queue_head)
  /\ queue_count' = queue_count - 1
  /\ handler' = "delivering"
  /\ UNCHANGED <<message_queue, queue_tail, queue_mutex, next_message_id, call,
                 sweep, received>>

DeliverReleaseUnfreed ==
  /\ handler = "sent"
  /\ message_queue' = [message_queue EXCEPT ![queue_head].data = Null]
  /\ queue_head' = After(queue_head)
  /\ queue_count' = queue_count - 1
  /\ handler' = "delivering"
  /\ UNCHANGED <<heap, queue_tail, queue_mutex, next_message_id, call, sweep,
                 received>>

\* The payload of the message just sent is freed and the head moves on.
DeliverRelease ==
  LET block == message_queue[queue_head].data IN
  /\ handler = "sent"
  /\ heap' = heap \ {block}
  /\ message_queue' = [message_queue EXCEPT ![queue_head].data = Null]
  /\ queue_head' = After(queue_head)
  /\ queue_count' = queue_count - 1
  /\ handler' = "delivering"
  /\ UNCHANGED <<queue_tail, queue_mutex, next_message_id, call, sweep,
                 received>>

\* Mutated forms of DeliverFails: the message was marked before the send; the
\* mutex is kept.
DeliverFailsMarked ==
  /\ handler = "delivering"
  /\ queue_count > 0
  /\ message_queue' = [message_queue EXCEPT ![queue_head].delivered = TRUE]
  /\ queue_mutex' = Nobody
  /\ handler' = "serving"
  /\ UNCHANGED <<ring, next_message_id, heap, call, sweep, received>>

DeliverFailsHolding ==
  /\ handler = "delivering"
  /\ queue_count > 0
  /\ handler' = "serving"
  /\ UNCHANGED <<message_queue, ring, queue_mutex, next_message_id, heap, call,
                 sweep, received>>

\* malloc or the send fails: the message stays at the head.
DeliverFails ==
  /\ handler = "delivering"
  /\ queue_count > 0
  /\ ~ message_queue[queue_head].delivered
  /\ queue_mutex' = Nobody
  /\ handler' = "serving"
  /\ UNCHANGED <<message_queue, ring, next_message_id, heap, call, sweep,
                 received>>

DeliverDone ==
  /\ handler = "delivering"
  /\ queue_count = 0
  /\ queue_mutex' = Nobody
  /\ handler' = "serving"
  /\ UNCHANGED <<message_queue, ring, next_message_id, heap, call, sweep,
                 received>>

-----------------------------------------------------------------------------
(* The teardown at the end of client_handler.                              *)

\* The socket is closed, connected and authenticated are cleared.
Close ==
  /\ handler = "serving"
  /\ handler' = "closing"
  /\ UNCHANGED <<message_queue, ring, queue_mutex, next_message_id, heap,
                 call, sweep, received>>

TeardownLock ==
  /\ handler = "closing"
  /\ queue_mutex = Nobody
  /\ queue_mutex' = Owner
  /\ handler' = "freeing"
  /\ sweep' = 0
  /\ UNCHANGED <<message_queue, ring, next_message_id, heap, call, received>>

\* One turn of the loop.  It counts from index 0, not from queue_head, and
\* leaves the pointer it freed in the entry.
TeardownFree ==
  /\ handler = "freeing"
  /\ sweep < queue_count
  /\ heap' = heap \ {message_queue[sweep].data}
  /\ sweep' = sweep + 1
  /\ UNCHANGED <<message_queue, ring, queue_mutex, next_message_id, call,
                 handler, received>>

\* Mutated form of TeardownReset: the tail is not reset.
TeardownKeepsTail ==
  /\ handler = "freeing"
  /\ sweep >= queue_count
  /\ queue_head' = 0 /\ queue_count' = 0
  /\ queue_mutex' = Nobody
  /\ handler' = "gone"
  /\ UNCHANGED <<message_queue, queue_tail, next_message_id, heap, call, sweep,
                 received>>

TeardownReset ==
  /\ handler = "freeing"
  /\ sweep >= queue_count
  /\ queue_head' = 0 /\ queue_tail' = 0 /\ queue_count' = 0
  /\ queue_mutex' = Nobody
  /\ handler' = "gone"
  /\ UNCHANGED <<message_queue, next_message_id, heap, call, sweep, received>>

-----------------------------------------------------------------------------

Send(s) ==
  \/ FindRecipient(s) \/ EnterQueue(s) \/ QueueFull(s)
  \/ FillEntry(s) \/ FillFails(s) \/ Commit(s)

Handle ==
  \/ DeliverLock \/ DeliverNext \/ DeliverRelease \/ DeliverFails
  \/ DeliverDone \/ Close \/ TeardownLock \/ TeardownFree \/ TeardownReset

Next == AllocElsewhere \/ Handle \/ \E s \in Senders : Send(s)

Spec == Init /\ [][Next]_vars

\* A thread that can run does run; a mutex that is free again and again is
\* granted in the end.  Nothing obliges a client to send or to leave.
Fairness ==
  /\ \A s \in Senders :
       /\ WF_vars(FillEntry(s) \/ FillFails(s) \/ Commit(s))
       /\ SF_vars(EnterQueue(s) \/ QueueFull(s))
  /\ WF_vars(DeliverNext \/ DeliverRelease \/ DeliverFails \/ DeliverDone)
  /\ WF_vars(TeardownFree \/ TeardownReset)
  /\ SF_vars(TeardownLock)

FairSpec == Spec /\ Fairness

-----------------------------------------------------------------------------

TypeOK ==
  /\ message_queue \in [Index -> Entry]
  /\ queue_head \in Index
  /\ queue_tail \in Index
  /\ queue_count \in 0 .. MESSAGE_QUEUE_SIZE
  /\ queue_mutex \in Senders \cup {Owner, Nobody}
  /\ next_message_id \in Nat \ {0}
  /\ heap \subseteq 1 .. next_message_id - 1
  /\ call \in [Senders -> CallState]
  /\ handler \in HandlerState
  /\ sweep \in 0 .. MESSAGE_QUEUE_SIZE
  /\ received \in Seq(Nat)

\* The k-th entry of the window counts from the head; an index is in the
\* window when its distance from the head is below queue_count.
Distance(i) == IF i >= queue_head THEN i - queue_head
                                  ELSE i - queue_head + MESSAGE_QUEUE_SIZE
InWindow(i) == Distance(i) < queue_count
Window == [k \in 1 .. queue_count |->
             message_queue[(queue_head + k - 1) % MESSAGE_QUEUE_SIZE].id]

\* The free at message_queue.c:128 and the one at client_handler.c:142 each
\* get a block that is live: no payload is freed twice, whatever deliveries,
\* failed allocations and late senders came before.
NoDoubleFree ==
  /\ handler = "sent" => message_queue[queue_head].data \in heap
  /\ handler = "freeing" /\ sweep < queue_count =>
       message_queue[sweep].data \in heap \cup {Null}

\* While the slot is served, every message of the window waits to be sent
\* and still has its payload: deliver_queued_messages copies from a live
\* block, its branch on msg->delivered is never taken, and the queue never
\* holds a message that was already handed to the recipient.
NoUseAfterFree ==
  Online => \A i \in Index :
    InWindow(i) /\ ~ (handler = "sent" /\ i = queue_head) =>
      ~ message_queue[i].delivered /\ message_queue[i].data \in heap

\* While the slot is served, every live payload is one that a window entry,
\* or the entry being filled, points to: full queues, failed allocations and
\* failed sends leave nothing behind.  (The teardown does: it frees from
\* index 0 whatever the head, client_handler.c:138.)
NoLeakWhileServed ==
  Online => \A block \in heap : \E i \in Index :
    /\ message_queue[i].data = block
    /\ \/ InWindow(i)
       \/ /\ i = queue_tail
          /\ \E s \in Senders : call[s] = "filled"

\* The tail is where the window ends, so a new entry never overwrites one
\* that waits: queue_tail, queue_head and queue_count agree.
RingConsistent == queue_tail = (queue_head + queue_count) % MESSAGE_QUEUE_SIZE

\* Everything the queue does is what a bounded first-in-first-out box may
\* do: ids leave in the order they were given out, none twice, none lost
\* but by the teardown.  The message being sent is already taken.
Box == INSTANCE MessageBox WITH
         Capacity <- MESSAGE_QUEUE_SIZE,
         box <- IF handler = "sent" THEN Tail(Window) ELSE Window,
         taken <- received,
         issued <- next_message_id - 1

BoxRefined == Box!BoxSpec

\* A handler inside queue_message gets out of it: with an entry, a full
\* queue or a failed allocation, also when the recipient leaves meanwhile.
CallsReturn == \A s \in Senders : (call[s] # "idle") ~> (call[s] = "idle")

\* The teardown comes to its end although senders may still hold the mutex.
TeardownFinishes == (handler = "closing") ~> (handler = "gone")
=============================================================================
