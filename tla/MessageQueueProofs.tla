------------------------- MODULE MessageQueueProofs -------------------------
(***************************************************************************)
(* Safety of the message queue for every number of senders and every ring  *)
(* size.  NoDoubleFree and NoUseAfterFree are not inductive: that a block  *)
(* is live when it is freed depends on who holds the mutex, on where the   *)
(* window lies, and on no two entries sharing a block.  IInv says all that.*)
(***************************************************************************)
EXTENDS MessageQueue, TLAPS

\* The mutex is held exactly by the thread inside a critical section.
LockInv ==
  /\ queue_mutex = Owner <=> handler \in {"delivering", "sent", "freeing"}
  /\ \A s \in Senders :
       queue_mutex = s <=> call[s] \in {"entered", "filled"}

\* RingConsistent without the remainder, and the room a sender has seen.
RingInv ==
  /\ queue_tail = IF queue_head + queue_count < MESSAGE_QUEUE_SIZE
                  THEN queue_head + queue_count
                  ELSE queue_head + queue_count - MESSAGE_QUEUE_SIZE
  /\ handler = "sent" => queue_count > 0
  /\ \A s \in Senders :
       call[s] \in {"entered", "filled"} => queue_count < MESSAGE_QUEUE_SIZE

\* No two entries share a block, and no entry names a block of the future.
BlockInv ==
  /\ \A i \in Index : message_queue[i].data < next_message_id
  /\ \A i, j \in Index :
       i # j /\ message_queue[i].data # Null =>
         message_queue[i].data # message_queue[j].data

\* An entry that is filled but not yet in the window.
Filling(i) == i = queue_tail /\ \E s \in Senders : call[s] = "filled"

\* Before the teardown frees anything: the entries of the window and the one
\* being filled have their payload, the others have none.
HeldInv ==
  handler \notin {"freeing", "gone"} => \A i \in Index :
    /\ InWindow(i) \/ Filling(i) =>
         /\ message_queue[i].data \in heap
         /\ (handler = "sent" /\ i = queue_head) \/ ~ message_queue[i].delivered
    /\ ~ InWindow(i) /\ ~ Filling(i) => message_queue[i].data = Null

\* What the teardown has not come to yet is live or absent.
FreeingInv ==
  handler = "freeing" => \A i \in Index :
    i >= sweep => message_queue[i].data \in heap \cup {Null}

IInv == TypeOK /\ LockInv /\ RingInv /\ BlockInv /\ HeldInv /\ FreeingInv
-----------------------------------------------------------------------------

\* The step of an index, without the remainder of line 50 and line 132.
LEMMA AfterCases ==
  ASSUME NEW i \in Index
  PROVE  After(i) = IF i + 1 = MESSAGE_QUEUE_SIZE THEN 0 ELSE i + 1
BY SizeAssumption DEF Index, After

\* The tail of RingInv is the remainder that RingConsistent states.
LEMMA WrapSum ==
  ASSUME NEW h \in Index, NEW c \in 0 .. MESSAGE_QUEUE_SIZE
  PROVE  (h + c) % MESSAGE_QUEUE_SIZE =
           IF h + c < MESSAGE_QUEUE_SIZE THEN h + c
                                         ELSE h + c - MESSAGE_QUEUE_SIZE
BY SizeAssumption DEF Index

\* Distances are positions of the window: moving the head drops the head, and
\* only it; growing the window adds the tail, and only it.
LEMMA WindowDropsHead ==
  ASSUME TypeOK, queue_count > 0, NEW i \in Index,
         queue_head' = After(queue_head), queue_count' = queue_count - 1
  PROVE  InWindow(i)' <=> InWindow(i) /\ i # queue_head
<1>1. /\ MESSAGE_QUEUE_SIZE \in Nat \ {0} /\ queue_count \in 0 .. MESSAGE_QUEUE_SIZE
      /\ queue_head \in Index /\ queue_head' \in Index
      /\ i \in 0 .. MESSAGE_QUEUE_SIZE - 1 /\ queue_head \in 0 .. MESSAGE_QUEUE_SIZE - 1
  BY SizeAssumption, AfterCases DEF TypeOK, Index
<1>2. queue_head' = IF queue_head + 1 = MESSAGE_QUEUE_SIZE THEN 0 ELSE queue_head + 1
  BY <1>1, AfterCases
<1>3. QED
  BY <1>1, <1>2 DEF InWindow, Distance

LEMMA WindowTakesTail ==
  ASSUME TypeOK, RingInv, queue_count < MESSAGE_QUEUE_SIZE, NEW i \in Index,
         queue_head' = queue_head, queue_count' = queue_count + 1
  PROVE  InWindow(i)' <=> InWindow(i) \/ i = queue_tail
<1>1. /\ MESSAGE_QUEUE_SIZE \in Nat \ {0} /\ queue_count \in 0 .. MESSAGE_QUEUE_SIZE
      /\ i \in 0 .. MESSAGE_QUEUE_SIZE - 1 /\ queue_head \in 0 .. MESSAGE_QUEUE_SIZE - 1
  BY SizeAssumption DEF TypeOK, Index
<1>2. QED
  BY <1>1 DEF RingInv, InWindow, Distance

LEMMA TailOutsideWindow ==
  ASSUME TypeOK, RingInv, queue_count < MESSAGE_QUEUE_SIZE
  PROVE  ~ InWindow(queue_tail)
BY SizeAssumption DEF TypeOK, RingInv, Index, InWindow, Distance

LEMMA HeadInWindow ==
  ASSUME TypeOK, queue_count > 0
  PROVE  InWindow(queue_head)
BY SizeAssumption DEF TypeOK, Index, InWindow, Distance

-----------------------------------------------------------------------------

LEMMA InitIInv == Init => IInv
<1> SUFFICES ASSUME Init PROVE IInv
  OBVIOUS
<1> USE SizeAssumption, ThreadAssumption
<1>1. TypeOK
  BY DEF Init, TypeOK, Index, Entry, CallState, HandlerState, Null
<1>2. LockInv /\ RingInv /\ BlockInv
  BY DEF Init, LockInv, RingInv, BlockInv, Index, Null
<1>3. HeldInv /\ FreeingInv
  BY DEF Init, HeldInv, FreeingInv, InWindow, Distance, Filling, Index, Null
<1>4. QED
  BY <1>1, <1>2, <1>3 DEF IInv

\* A sender that only moves its own place in the code.
LEMMA SenderMoves ==
  ASSUME IInv, NEW s \in Senders,
         FindRecipient(s) \/ EnterQueue(s) \/ QueueFull(s)
  PROVE  IInv'
<1> USE SizeAssumption, ThreadAssumption
    DEF IInv, FindRecipient, EnterQueue, QueueFull, ring
<1>1. TypeOK'
  BY DEF TypeOK, CallState
<1>2. LockInv'
  BY DEF LockInv, TypeOK
<1>3. RingInv'
  BY DEF RingInv, TypeOK, LockInv
<1>4. BlockInv'
  BY DEF BlockInv
<1>5. \A i : Filling(i)' <=> Filling(i)
  BY DEF Filling, TypeOK
<1>6. HeldInv' /\ FreeingInv'
  BY <1>5 DEF HeldInv, FreeingInv, InWindow, Distance
<1>7. QED
  BY <1>1, <1>2, <1>3, <1>4, <1>6

LEMMA SenderFills ==
  ASSUME IInv, NEW s \in Senders, FillEntry(s) \/ FillFails(s)
  PROVE  IInv'
<1> USE SizeAssumption, ThreadAssumption
    DEF IInv, FillEntry, FillFails, ring
<1>0. PICK new \in Entry :
        /\ message_queue' = [message_queue EXCEPT ![queue_tail] = new]
        /\ new.data = Null \/ (new.data = next_message_id /\ new.data \in heap')
        /\ ~ new.delivered
  <2>1. CASE FillEntry(s)
    <3> DEFINE new == [id |-> next_message_id, data |-> next_message_id,
                       delivered |-> FALSE]
    <3>1. new \in Entry
      BY DEF TypeOK, Entry
    <3>2. new.data = next_message_id /\ ~ new.delivered
      OBVIOUS
    <3>3. QED
      BY <2>1, <3>1, <3>2
  <2>2. CASE FillFails(s)
    <3> DEFINE new == [id |-> next_message_id, data |-> Null,
                       delivered |-> FALSE]
    <3>1. new \in Entry
      BY DEF TypeOK, Entry, Null
    <3>2. new.data = Null /\ ~ new.delivered
      OBVIOUS
    <3>3. QED
      BY <2>2, <3>1, <3>2
  <2>3. QED
    BY <2>1, <2>2
<1>1. TypeOK'
  <2>1. message_queue' \in [Index -> Entry]
    BY <1>0 DEF TypeOK
  <2>2. next_message_id' \in Nat \ {0} /\ heap' \subseteq 1 .. next_message_id' - 1
    <3>1. next_message_id' = next_message_id + 1
      OBVIOUS
    <3>2. heap' \subseteq heap \cup {next_message_id}
      OBVIOUS
    <3> HIDE DEF FillEntry, FillFails
    <3>3. QED
      BY <3>1, <3>2 DEF TypeOK
  <2>3. call' \in [Senders -> CallState]
    BY DEF TypeOK, CallState
  <2>4. /\ UNCHANGED <<queue_head, queue_tail, queue_count, handler, sweep,
                      received>>
         /\ queue_mutex' \in {queue_mutex, Nobody}
    OBVIOUS
  <2>5. QED
    BY <2>1, <2>2, <2>3, <2>4 DEF TypeOK
<1>2. LockInv'
  BY DEF LockInv, TypeOK
<1>3. RingInv'
  BY DEF RingInv, TypeOK
<1>4. BlockInv'
  <2>1. \A i \in Index :
          message_queue'[i] = IF i = queue_tail THEN new ELSE message_queue[i]
    BY <1>0 DEF TypeOK
  <2>2. \A i \in Index : message_queue[i].data \in Nat
    BY DEF TypeOK, Entry
  <2>3. QED
    BY <1>0, <2>1, <2>2 DEF BlockInv, TypeOK, Null
<1>5. handler \notin {"delivering", "sent", "freeing"} /\ handler' = handler
  BY DEF LockInv, TypeOK
<1>6. FreeingInv'
  BY <1>5 DEF FreeingInv
<1>7. HeldInv'
  <2>1. ~ InWindow(queue_tail)
    BY TailOutsideWindow DEF RingInv
  <2>2. \A i \in Index : InWindow(i)' <=> InWindow(i)
    BY DEF InWindow, Distance
  <2>3. \A i \in Index : ~ Filling(i)
    BY DEF Filling, LockInv, TypeOK
  <2>4. \A i \in Index : Filling(i)' <=> i = queue_tail /\ FillEntry(s)
    BY DEF Filling, LockInv, TypeOK
  <2> SUFFICES ASSUME handler \notin {"freeing", "gone"}, NEW i \in Index
               PROVE  /\ InWindow(i) \/ Filling(i)' =>
                           /\ message_queue'[i].data \in heap'
                           /\ ~ message_queue'[i].delivered
                      /\ ~ InWindow(i) /\ ~ Filling(i)' =>
                           message_queue'[i].data = Null
    BY <1>5, <2>2 DEF HeldInv
  <2>5. CASE i = queue_tail
    <3>1. message_queue'[i] = new
      BY <1>0, <2>5 DEF TypeOK
    <3>2. FillEntry(s) => message_queue'[i].data = next_message_id
      BY <2>5 DEF TypeOK
    <3>3. FillFails(s) => message_queue'[i].data = Null
      BY <2>5 DEF TypeOK
    <3>4. QED
      BY <1>0, <2>1, <2>4, <2>5, <3>1, <3>2, <3>3
  <2>6. CASE i # queue_tail
    <3>1. message_queue'[i] = message_queue[i]
      BY <2>6 DEF TypeOK
    <3>2. heap \subseteq heap'
      OBVIOUS
    <3>3. QED
      BY <1>5, <2>3, <2>4, <2>6, <3>1, <3>2 DEF HeldInv
  <2>7. QED
    BY <2>5, <2>6
<1>8. QED
  BY <1>1, <1>2, <1>3, <1>4, <1>6, <1>7

LEMMA SenderCommits ==
  ASSUME IInv, NEW s \in Senders, Commit(s)
  PROVE  IInv'
<1> USE SizeAssumption, ThreadAssumption DEF IInv, Commit
<1>0. queue_count < MESSAGE_QUEUE_SIZE
  BY DEF RingInv
<1>1. TypeOK'
  BY <1>0, AfterCases DEF TypeOK, CallState, Index
<1>2. LockInv'
  BY DEF LockInv, TypeOK
<1>3. RingInv'
  BY <1>0, AfterCases DEF RingInv, TypeOK, LockInv, Index
<1>4. BlockInv'
  BY DEF BlockInv
<1>5. handler \notin {"delivering", "sent", "freeing"} /\ handler' = handler
  BY DEF LockInv, TypeOK
<1>6. HeldInv'
  <2>1. \A i \in Index : InWindow(i)' <=> InWindow(i) \/ i = queue_tail
    BY <1>0, WindowTakesTail
  <2>2. \A i \in Index : (Filling(i) <=> i = queue_tail) /\ ~ Filling(i)'
    BY DEF Filling, LockInv, TypeOK
  <2>3. QED
    BY <1>5, <2>1, <2>2 DEF HeldInv
<1>7. QED
  BY <1>1, <1>2, <1>3, <1>4, <1>5, <1>6 DEF FreeingInv

\* An id taken elsewhere only raises the counter.
LEMMA IdsGrow == ASSUME IInv, AllocElsewhere PROVE IInv'
<1> USE DEF IInv, AllocElsewhere, ring
<1>1. TypeOK'
  BY DEF TypeOK
<1>2. LockInv' /\ RingInv'
  BY DEF LockInv, RingInv
<1>3. BlockInv'
  BY DEF BlockInv, TypeOK, Entry
<1>4. HeldInv' /\ FreeingInv'
  BY DEF HeldInv, FreeingInv, InWindow, Distance, Filling
<1>5. QED
  BY <1>1, <1>2, <1>3, <1>4

\* The handler takes or leaves the mutex and touches nothing else.
LEMMA HandlerMoves ==
  ASSUME IInv,
         DeliverLock \/ DeliverFails \/ DeliverDone \/ Close \/ TeardownLock
  PROVE  IInv'
<1> USE SizeAssumption, ThreadAssumption
    DEF IInv, DeliverLock, DeliverFails, DeliverDone, Close, TeardownLock, ring
<1>1. TypeOK'
  <2>1. handler' \in HandlerState /\ queue_mutex' \in Senders \cup {Owner, Nobody}
    BY DEF TypeOK, HandlerState
  <2>2. sweep' = sweep \/ sweep' = 0
    OBVIOUS
  <2>3. UNCHANGED <<message_queue, ring, next_message_id, heap, call, received>>
    OBVIOUS
  <2> HIDE DEF DeliverLock, DeliverFails, DeliverDone, Close, TeardownLock
  <2>4. QED
    BY <2>1, <2>2, <2>3 DEF TypeOK
<1>2. LockInv'
  BY DEF LockInv, TypeOK
<1>3. RingInv'
  BY DEF RingInv
<1>4. BlockInv'
  BY DEF BlockInv
<1>5. \A i \in Index : (Filling(i)' <=> Filling(i)) /\ (InWindow(i)' <=> InWindow(i))
  BY DEF Filling, InWindow, Distance
<1>6. HeldInv'
  BY <1>5 DEF HeldInv
<1>7. FreeingInv'
  <2>1. CASE TeardownLock
    <3>1. \A i \in Index : message_queue[i].data \in heap \cup {Null}
      BY <2>1 DEF HeldInv
    <3>2. QED
      BY <2>1, <3>1 DEF FreeingInv
  <2>2. CASE ~ TeardownLock
    BY <2>2 DEF FreeingInv
  <2>3. QED
    BY <2>1, <2>2
<1>8. QED
  BY <1>1, <1>2, <1>3, <1>4, <1>6, <1>7

\* The head of the window is sent: it is never an entry already delivered.
LEMMA HandlerSends == ASSUME IInv, DeliverNext PROVE IInv'
<1> USE SizeAssumption, ThreadAssumption DEF IInv
<1>0. /\ handler = "delivering" /\ queue_count > 0
      /\ UNCHANGED <<queue_tail, queue_mutex, next_message_id, heap, call, sweep>>
  BY DEF DeliverNext
<1>1. InWindow(queue_head) /\ queue_head \in Index
  BY <1>0, HeadInWindow DEF TypeOK
<1>2. ~ message_queue[queue_head].delivered
  BY <1>0, <1>1 DEF HeldInv
<1>3. /\ message_queue' = [message_queue EXCEPT ![queue_head].delivered = TRUE]
      /\ received' = Append(received, message_queue[queue_head].id)
      /\ handler' = "sent"
      /\ UNCHANGED <<queue_head, queue_count>>
  BY <1>2 DEF DeliverNext
<1>4. \A i \in Index :
        /\ message_queue'[i] \in Entry
        /\ message_queue'[i].data = message_queue[i].data
        /\ i # queue_head => message_queue'[i] = message_queue[i]
  BY <1>1, <1>3 DEF TypeOK, Entry
<1>5. TypeOK'
  <2>1. message_queue' \in [Index -> Entry]
    BY <1>3, <1>4 DEF TypeOK
  <2>2. received' \in Seq(Nat)
    BY <1>1, <1>3 DEF TypeOK, Entry
  <2>3. QED
    BY <1>0, <1>3, <2>1, <2>2 DEF TypeOK, HandlerState
<1>6. LockInv' /\ RingInv' /\ FreeingInv'
  BY <1>0, <1>3 DEF LockInv, RingInv, FreeingInv, TypeOK
<1>7. BlockInv'
  BY <1>0, <1>4 DEF BlockInv
<1>8. HeldInv'
  <2>1. \A i \in Index :
          (Filling(i)' <=> Filling(i)) /\ (InWindow(i)' <=> InWindow(i))
    BY <1>0, <1>3 DEF Filling, InWindow, Distance
  <2>2. QED
    BY <1>0, <1>3, <1>4, <2>1 DEF HeldInv
<1>9. QED
  BY <1>5, <1>6, <1>7, <1>8

\* The block freed is the head's, which no other entry shares.
LEMMA HandlerReleases == ASSUME IInv, DeliverRelease PROVE IInv'
<1> USE SizeAssumption, ThreadAssumption DEF IInv
<1>0. /\ handler = "sent" /\ handler' = "delivering" /\ queue_count > 0
      /\ heap' = heap \ {message_queue[queue_head].data}
      /\ message_queue' = [message_queue EXCEPT ![queue_head].data = Null]
      /\ queue_head' = After(queue_head) /\ queue_count' = queue_count - 1
      /\ UNCHANGED <<queue_tail, queue_mutex, next_message_id, call, sweep,
                     received>>
  BY DEF DeliverRelease, RingInv
<1>1. InWindow(queue_head) /\ queue_head \in Index
  BY <1>0, HeadInWindow DEF TypeOK
<1>2. \A i \in Index :
        /\ message_queue'[i] \in Entry
        /\ i # queue_head => message_queue'[i] = message_queue[i]
        /\ i = queue_head => message_queue'[i].data = Null
  BY <1>0, <1>1 DEF TypeOK, Entry, Null
<1>3. TypeOK'
  <2>1. message_queue' \in [Index -> Entry]
    BY <1>0, <1>2 DEF TypeOK
  <2>2. queue_head' \in Index /\ queue_count' \in 0 .. MESSAGE_QUEUE_SIZE
    BY <1>0, <1>1, AfterCases DEF TypeOK, Index
  <2>3. QED
    BY <1>0, <2>1, <2>2 DEF TypeOK, HandlerState
<1>4. LockInv' /\ FreeingInv'
  BY <1>0 DEF LockInv, FreeingInv
<1>5. RingInv'
  <2>1. queue_tail' = IF queue_head' + queue_count' < MESSAGE_QUEUE_SIZE
                      THEN queue_head' + queue_count'
                      ELSE queue_head' + queue_count' - MESSAGE_QUEUE_SIZE
    <3>1. /\ queue_head \in 0 .. MESSAGE_QUEUE_SIZE - 1
          /\ queue_count \in 1 .. MESSAGE_QUEUE_SIZE
      BY <1>0 DEF TypeOK, Index
    <3>2. /\ queue_head' = IF queue_head + 1 = MESSAGE_QUEUE_SIZE
                           THEN 0 ELSE queue_head + 1
          /\ queue_count' = queue_count - 1 /\ queue_tail' = queue_tail
      BY <1>0, <1>1, AfterCases
    <3>3. queue_tail = IF queue_head + queue_count < MESSAGE_QUEUE_SIZE
                       THEN queue_head + queue_count
                       ELSE queue_head + queue_count - MESSAGE_QUEUE_SIZE
      BY DEF RingInv
    <3> HIDE DEF IInv
    <3>4. QED
      BY <3>1, <3>2, <3>3
  <2>2. queue_count' < MESSAGE_QUEUE_SIZE
    BY <1>0 DEF TypeOK
  <2>3. QED
    BY <1>0, <2>1, <2>2 DEF RingInv
<1>6. BlockInv'
  <2>1. \A i \in Index : message_queue'[i].data < next_message_id
    BY <1>0, <1>2 DEF BlockInv, TypeOK, Null
  <2>2. QED
    BY <1>0, <1>2, <2>1 DEF BlockInv
<1>7. HeldInv'
  <2>1. \A i \in Index : InWindow(i)' <=> InWindow(i) /\ i # queue_head
    BY <1>0, WindowDropsHead
  <2>2. \A i \in Index : ~ Filling(i) /\ ~ Filling(i)'
    BY <1>0 DEF Filling, LockInv, TypeOK
  <2>3. \A i \in Index : InWindow(i) /\ i # queue_head =>
          message_queue[i].data \in heap'
    <3>1. Null \notin heap
      BY DEF TypeOK, Null
    <3>2. \A i \in Index : InWindow(i) => message_queue[i].data \in heap
      BY <1>0 DEF HeldInv
    <3>3. QED
      BY <1>0, <1>1, <3>1, <3>2 DEF BlockInv
  <2>4. QED
    BY <1>0, <1>2, <2>1, <2>2, <2>3 DEF HeldInv
<1>8. QED
  BY <1>3, <1>4, <1>5, <1>6, <1>7

\* What the sweep frees is behind it afterwards.
LEMMA TeardownSweeps == ASSUME IInv, TeardownFree PROVE IInv'
<1> USE SizeAssumption, ThreadAssumption DEF IInv
<1>0. /\ handler = "freeing" /\ sweep < queue_count
      /\ heap' = heap \ {message_queue[sweep].data}
      /\ sweep' = sweep + 1
      /\ UNCHANGED <<message_queue, ring, queue_mutex, next_message_id, call,
                     handler, received>>
  BY DEF TeardownFree
<1>1. TypeOK'
  <2>1. heap' \subseteq heap /\ sweep' \in 0 .. MESSAGE_QUEUE_SIZE
    BY <1>0 DEF TypeOK
  <2>2. heap' \subseteq 1 .. next_message_id' - 1
    BY <1>0, <2>1 DEF TypeOK
  <2>3. QED
    BY <1>0, <2>1, <2>2 DEF TypeOK, ring
<1>2. LockInv' /\ RingInv' /\ BlockInv' /\ HeldInv'
  BY <1>0 DEF LockInv, RingInv, BlockInv, HeldInv, ring
<1>3. FreeingInv'
  <2>1. sweep \in Index
    BY <1>0 DEF TypeOK, Index
  <2>2. \A i \in Index : i >= sweep + 1 => i >= sweep /\ i # sweep
    BY <2>1 DEF Index
  <2>3. QED
    BY <1>0, <2>1, <2>2 DEF FreeingInv, BlockInv
<1>4. QED
  BY <1>1, <1>2, <1>3

LEMMA TeardownEnds == ASSUME IInv, TeardownReset PROVE IInv'
<1> USE SizeAssumption, ThreadAssumption DEF IInv, TeardownReset
<1>1. TypeOK'
  BY DEF TypeOK, Index, HandlerState
<1>2. LockInv'
  BY DEF LockInv, TypeOK
<1>3. RingInv' /\ BlockInv' /\ HeldInv' /\ FreeingInv'
  BY DEF RingInv, BlockInv, HeldInv, FreeingInv
<1>4. QED
  BY <1>1, <1>2, <1>3

-----------------------------------------------------------------------------

LEMMA NextIInv == IInv /\ [Next]_vars => IInv'
<1> SUFFICES ASSUME IInv, [Next]_vars PROVE IInv'
  OBVIOUS
<1>1. ASSUME NEW s \in Senders, Send(s) PROVE IInv'
  BY <1>1, SenderMoves, SenderFills, SenderCommits DEF Send
<1>2. CASE AllocElsewhere
  BY <1>2, IdsGrow
<1>3. CASE Handle
  BY <1>3, HandlerMoves, HandlerSends, HandlerReleases, TeardownSweeps,
     TeardownEnds DEF Handle
<1>4. CASE UNCHANGED vars
  BY <1>4 DEF vars, ring, IInv, TypeOK, LockInv, RingInv, BlockInv, HeldInv,
     FreeingInv, InWindow, Distance, Filling
<1>5. QED
  BY <1>1, <1>2, <1>3, <1>4 DEF Next

THEOREM Invariance == Spec => []IInv
BY InitIInv, NextIInv, PTL DEF Spec

\* The state of the queue keeps its types: in particular the head and the tail
\* never leave the ring and queue_count never passes MESSAGE_QUEUE_SIZE.
THEOREM TypeCorrect == Spec => []TypeOK
<1>1. IInv => TypeOK
  BY DEF IInv
<1>2. QED
  BY <1>1, Invariance, PTL

\* No payload of a queued message is freed twice (message_queue.c:128 and
\* client_handler.c:142), for any number of senders and any ring.
THEOREM NeverFreedTwice == Spec => []NoDoubleFree
<1>1. IInv => NoDoubleFree
  <2> SUFFICES ASSUME IInv PROVE NoDoubleFree
    OBVIOUS
  <2> USE DEF IInv
  <2>1. handler = "sent" => message_queue[queue_head].data \in heap
    BY HeadInWindow DEF HeldInv, RingInv, TypeOK
  <2>2. handler = "freeing" /\ sweep < queue_count => sweep \in Index /\ sweep >= sweep
    BY SizeAssumption DEF TypeOK, Index
  <2>3. QED
    BY <2>1, <2>2 DEF NoDoubleFree, FreeingInv
<1>2. QED
  BY <1>1, Invariance, PTL

\* While a slot is served, what waits in its window is live and undelivered
\* (message_queue.c:105 copies from it), for any number of senders.
THEOREM NeverUsedAfterFree == Spec => []NoUseAfterFree
<1>1. IInv => NoUseAfterFree
  BY DEF IInv, NoUseAfterFree, HeldInv, Online
<1>2. QED
  BY <1>1, Invariance, PTL

\* queue_tail stays where the window ends (message_queue.c:49-51, 132-133).
THEOREM RingStaysConsistent == Spec => []RingConsistent
<1>1. IInv => RingConsistent
  BY WrapSum DEF IInv, TypeOK, RingInv, RingConsistent
<1>2. QED
  BY <1>1, Invariance, PTL
-----------------------------------------------------------------------------

\* Until the teardown, every live block is some entry's.
LiveInv ==
  handler \notin {"freeing", "gone"} =>
    \A block \in heap : \E i \in Index : message_queue[i].data = block

\* A step that leaves the ring's pointers alone and allocates nothing.
LEMMA LiveKept ==
  ASSUME LiveInv, heap' = heap,
         \A i \in Index : message_queue'[i].data = message_queue[i].data,
         handler \in {"freeing", "gone"} => handler' \in {"freeing", "gone"}
  PROVE  LiveInv'
BY DEF LiveInv, Index

\* The entry that FillEntry and FillFails overwrite has no payload to lose.
LEMMA LiveFills ==
  ASSUME IInv, LiveInv, NEW s \in Senders, FillEntry(s) \/ FillFails(s)
  PROVE  LiveInv'
<1> USE SizeAssumption, ThreadAssumption
<1>1. /\ queue_tail \in Index /\ message_queue \in [Index -> Entry]
      /\ Null \notin heap /\ handler' = handler
  BY DEF IInv, TypeOK, Null, FillEntry, FillFails
<1>2. handler \notin {"freeing", "gone"} => message_queue[queue_tail].data = Null
  <2>1. ~ InWindow(queue_tail)
    BY TailOutsideWindow DEF IInv, RingInv, FillEntry, FillFails
  <2>2. ~ Filling(queue_tail)
    BY DEF Filling, IInv, LockInv, TypeOK, FillEntry, FillFails
  <2>3. QED
    BY <1>1, <2>1, <2>2 DEF IInv, HeldInv
<1>3. \A i \in Index : i # queue_tail => message_queue'[i] = message_queue[i]
  BY <1>1 DEF FillEntry, FillFails
<1>4. \A block \in heap' :
        block \in heap \/ block = message_queue'[queue_tail].data
  BY <1>1 DEF FillEntry, FillFails
<1>5. QED
  BY <1>1, <1>2, <1>3, <1>4 DEF LiveInv, Index

\* The block DeliverRelease frees is the only one its entry gives up.
LEMMA LiveReleases == ASSUME IInv, LiveInv, DeliverRelease PROVE LiveInv'
<1>1. \A i \in Index : i # queue_head => message_queue'[i] = message_queue[i]
  BY DEF IInv, TypeOK, DeliverRelease
<1>2. /\ heap' = heap \ {message_queue[queue_head].data}
      /\ handler = "sent"
  BY DEF DeliverRelease
<1>3. QED
  BY <1>1, <1>2 DEF LiveInv, Index

LEMMA NextLiveInv == IInv /\ LiveInv /\ [Next]_vars => LiveInv'
<1> SUFFICES ASSUME IInv, LiveInv, [Next]_vars PROVE LiveInv'
  OBVIOUS
<1>1. ASSUME NEW s \in Senders, Send(s) PROVE LiveInv'
  <2>1. CASE FillEntry(s) \/ FillFails(s)
    BY <2>1, LiveFills
  <2>2. CASE FindRecipient(s) \/ EnterQueue(s) \/ QueueFull(s) \/ Commit(s)
    BY <2>2, LiveKept DEF FindRecipient, EnterQueue, QueueFull, Commit
  <2>3. QED
    BY <1>1, <2>1, <2>2 DEF Send
<1>2. CASE AllocElsewhere
  BY <1>2, LiveKept DEF AllocElsewhere
<1>3. CASE Handle
  <2>1. CASE DeliverNext
    <3>1. \A i \in Index : message_queue'[i].data = message_queue[i].data
      <4>1. /\ message_queue \in [Index -> Entry] /\ queue_head \in Index
            /\ \A i \in Index : message_queue[i] \in Entry
        BY DEF IInv, TypeOK
      <4>2. CASE message_queue' = message_queue
        BY <4>2
      <4>3. CASE message_queue' =
                   [message_queue EXCEPT ![queue_head].delivered = TRUE]
        BY <4>1, <4>3 DEF Entry
      <4>4. QED
        BY <2>1, <4>2, <4>3 DEF DeliverNext
    <3>2. QED
      BY <2>1, <3>1, LiveKept DEF DeliverNext
  <2>2. CASE DeliverRelease
    BY <2>2, LiveReleases
  <2>3. CASE DeliverLock \/ DeliverFails \/ DeliverDone \/ Close
    BY <2>3, LiveKept DEF DeliverLock, DeliverFails, DeliverDone, Close
  <2>4. CASE TeardownLock \/ TeardownFree \/ TeardownReset
    BY <2>4 DEF LiveInv, TeardownLock, TeardownFree, TeardownReset
  <2>5. QED
    BY <1>3, <2>1, <2>2, <2>3, <2>4 DEF Handle
<1>4. CASE UNCHANGED vars
  BY <1>4, LiveKept DEF vars
<1>5. QED
  BY <1>1, <1>2, <1>3, <1>4 DEF Next

\* While a slot is served no payload is lost: what is allocated in
\* message_queue.c:40 is in the window, or about to be, until line 128 frees it.
THEOREM NothingLeaksWhileServed == Spec => []NoLeakWhileServed
<1>1. Init => LiveInv
  BY DEF Init, LiveInv
<1>2. IInv /\ LiveInv => NoLeakWhileServed
  <2> SUFFICES ASSUME IInv, LiveInv, Online, NEW block \in heap
               PROVE  \E i \in Index : /\ message_queue[i].data = block
                                       /\ InWindow(i) \/ Filling(i)
    BY DEF NoLeakWhileServed, Filling
  <2>1. PICK i \in Index : message_queue[i].data = block
    BY DEF LiveInv, Online
  <2>2. block # Null
    BY DEF IInv, TypeOK, Null
  <2>3. QED
    BY <2>1, <2>2 DEF IInv, HeldInv, Online
<1>3. QED
  BY <1>1, <1>2, Invariance, NextLiveInv, PTL DEF Spec
=============================================================================
