------------------------ MODULE MessageQueueRefinement ------------------------
(***************************************************************************)
(* A ring of any size, with any number of senders, is the box of           *)
(* MessageBox.  The ring's window is read as a sequence of identifiers;    *)
(* each step of MessageQueue is then one of the box, or leaves it alone.   *)
(***************************************************************************)
EXTENDS MessageQueueProofs, SequenceTheorems

\* The k-th entry of the window, oldest first, and the message in it.
At(k) == (queue_head + k - 1) % MESSAGE_QUEUE_SIZE
Id(k) == message_queue[At(k)].id

\* The window has the identifiers from k = First on still to hand out.
First == IF handler = "sent" THEN 2 ELSE 1

\* Identifiers wait in the order they were given out,
WaitInv ==
  /\ \A k \in 1 .. queue_count : Id(k) \in 1 .. next_message_id - 1
  /\ \A j, k \in 1 .. queue_count : j < k => Id(j) < Id(k)

\* after all that were received,
ReceivedInv ==
  \A i \in 1 .. Len(received) :
    /\ received[i] < next_message_id
    /\ \A k \in First .. queue_count : received[i] < Id(k)

\* and the one that is being filled in comes last.
FilledInv ==
  \A s \in Senders : call[s] = "filled" =>
    /\ message_queue[queue_tail].id \in 1 .. next_message_id - 1
    /\ \A k \in 1 .. queue_count : Id(k) < message_queue[queue_tail].id
    /\ \A i \in 1 .. Len(received) : received[i] < message_queue[queue_tail].id

OrderInv == WaitInv /\ ReceivedInv /\ FilledInv

-----------------------------------------------------------------------------
(* Places of the ring, and sequences read off it.                          *)

LEMMA WrapIndex ==
  ASSUME NEW h \in Index, NEW c \in 0 .. MESSAGE_QUEUE_SIZE - 1
  PROVE  (h + c) % MESSAGE_QUEUE_SIZE \in Index
BY SizeAssumption DEF Index

LEMMA Places ==
  ASSUME TypeOK, RingInv
  PROVE  /\ \A k \in 1 .. MESSAGE_QUEUE_SIZE :
              /\ At(k) \in Index
              /\ At(k) = IF queue_head + k - 1 < MESSAGE_QUEUE_SIZE
                         THEN queue_head + k - 1
                         ELSE queue_head + k - 1 - MESSAGE_QUEUE_SIZE
         /\ queue_count < MESSAGE_QUEUE_SIZE =>
              /\ queue_tail = At(queue_count + 1)
              /\ \A k \in 1 .. queue_count : At(k) # queue_tail
         /\ queue_count > 0 => At(1) = queue_head
<1> USE SizeAssumption DEF Index
<1>1. ASSUME NEW k \in 1 .. MESSAGE_QUEUE_SIZE
      PROVE  /\ At(k) \in Index
             /\ At(k) = IF queue_head + k - 1 < MESSAGE_QUEUE_SIZE
                        THEN queue_head + k - 1
                        ELSE queue_head + k - 1 - MESSAGE_QUEUE_SIZE
  <2>1. queue_head \in Index /\ k - 1 \in 0 .. MESSAGE_QUEUE_SIZE
    BY DEF TypeOK
  <2>2. At(k) = (queue_head + (k - 1)) % MESSAGE_QUEUE_SIZE
    BY <2>1 DEF At
  <2>3. (queue_head + (k - 1)) % MESSAGE_QUEUE_SIZE =
          IF queue_head + (k - 1) < MESSAGE_QUEUE_SIZE
          THEN queue_head + (k - 1) ELSE queue_head + (k - 1) - MESSAGE_QUEUE_SIZE
    BY <2>1, WrapSum, Zenon
  <2>4. QED
    BY <2>1, <2>2, <2>3
<1>2. queue_count \in 0 .. MESSAGE_QUEUE_SIZE /\ queue_head \in Index
  BY DEF TypeOK
<1>3. QED
  BY <1>1, <1>2 DEF RingInv

\* The head moves on and the window's entries move up.
LEMMA PlacesMoveUp ==
  ASSUME TypeOK, queue_count > 0, queue_head' = After(queue_head),
         NEW k \in 1 .. queue_count - 1
  PROVE  At(k)' = At(k + 1)
<1> USE SizeAssumption DEF Index
<1>1. queue_head \in Index /\ queue_count \in 0 .. MESSAGE_QUEUE_SIZE
  BY DEF TypeOK
<1>2. At(k + 1) = (queue_head + k) % MESSAGE_QUEUE_SIZE
  BY <1>1 DEF At
<1>3. queue_head' \in Index /\ queue_head' = IF queue_head + 1 = MESSAGE_QUEUE_SIZE
                                             THEN 0 ELSE queue_head + 1
  BY <1>1, AfterCases
<1>4. At(k)' = (queue_head' + (k - 1)) % MESSAGE_QUEUE_SIZE
  BY <1>1, <1>3 DEF At
<1>5. k \in 0 .. MESSAGE_QUEUE_SIZE /\ k - 1 \in 0 .. MESSAGE_QUEUE_SIZE
  BY <1>1
<1>6. (queue_head + k) % MESSAGE_QUEUE_SIZE =
        IF queue_head + k < MESSAGE_QUEUE_SIZE
        THEN queue_head + k ELSE queue_head + k - MESSAGE_QUEUE_SIZE
  BY <1>1, <1>5, WrapSum, Zenon
<1>7. (queue_head' + (k - 1)) % MESSAGE_QUEUE_SIZE =
        IF queue_head' + (k - 1) < MESSAGE_QUEUE_SIZE
        THEN queue_head' + (k - 1) ELSE queue_head' + (k - 1) - MESSAGE_QUEUE_SIZE
  BY <1>3, <1>5, WrapSum, Zenon
<1>8. QED
  BY <1>1, <1>2, <1>3, <1>4, <1>5, <1>6, <1>7

\* A function on 1 .. n is a sequence; what the operations make of it.
LEMMA AsSequence ==
  ASSUME NEW n \in Nat, NEW w \in [1 .. n -> Nat]
  PROVE  /\ w \in Seq(Nat) /\ Len(w) = n
         /\ n > 0 => /\ w # <<>> /\ Head(w) = w[1]
                     /\ Tail(w) \in Seq(Nat) /\ Len(Tail(w)) = n - 1
                     /\ \A k \in 1 .. n - 1 : Tail(w)[k] = w[k + 1]
         /\ n = 0 => w = <<>>
<1>1. w \in Seq(Nat) /\ Len(w) = n
  BY IsASeq
<1>2. n > 0 => /\ w # <<>> /\ Head(w) = w[1]
               /\ Tail(w) \in Seq(Nat) /\ Len(Tail(w)) = n - 1
               /\ \A k \in 1 .. n - 1 : Tail(w)[k] = w[k + 1]
  BY <1>1, HeadTailProperties
<1>3. n = 0 => w = <<>>
  BY <1>1, EmptySeq
<1>4. QED
  BY <1>1, <1>2, <1>3

LEMMA AppendSequence ==
  ASSUME NEW n \in Nat, NEW w \in [1 .. n -> Nat], NEW m \in Nat
  PROVE  /\ Append(w, m) \in Seq(Nat) /\ Len(Append(w, m)) = n + 1
         /\ Append(w, m)[n + 1] = m
         /\ \A k \in 1 .. n : Append(w, m)[k] = w[k]
         /\ Len(w) = n
<1>1. w \in Seq(Nat) /\ Len(w) = n
  BY AsSequence
<1>2. QED
  BY <1>1, AppendProperties

Appended(v, w, m) ==
  /\ v \in Seq(Nat) /\ Len(w) \in Nat /\ Len(v) = Len(w) + 1
  /\ v[Len(w) + 1] = m
  /\ \A i \in 1 .. Len(w) : v[i] = w[i] /\ w[i] \in Nat

LEMMA AppendIs ==
  ASSUME NEW w \in Seq(Nat), NEW m \in Nat, NEW v, v = Append(w, m)
  PROVE  Appended(v, w, m)
BY AppendProperties, ElementOfSeq, LenProperties DEF Appended

-----------------------------------------------------------------------------
(* The order of identifiers.                                               *)

\* A step that leaves the window, the entry being filled and what was received.
LEMMA OrderKept ==
  ASSUME IInv, OrderInv,
         ring' = ring, received' = received, next_message_id' >= next_message_id,
         next_message_id' \in Nat,
         handler' = "sent" <=> handler = "sent",
         \A k \in 1 .. queue_count : message_queue'[At(k)].id = Id(k),
         \A s \in Senders : call'[s] = "filled" =>
            /\ call[s] = "filled"
            /\ message_queue'[queue_tail].id = message_queue[queue_tail].id
  PROVE  OrderInv'
<1>1. \A k : At(k)' = At(k)
  BY DEF At, ring
<1>2. \A k \in 1 .. queue_count : Id(k)' = Id(k)
  BY <1>1 DEF Id
<1>3. queue_count' = queue_count /\ queue_tail' = queue_tail /\ First' = First
  BY DEF ring, First
<1>4. First \in 1 .. 2 /\ next_message_id \in Nat /\ queue_count \in Nat
  BY DEF First, IInv, TypeOK
<1>5. \A i \in 1 .. Len(received) : received[i] \in Nat
  BY ElementOfSeq DEF IInv, TypeOK
<1>6. WaitInv'
  BY <1>2, <1>3, <1>4 DEF OrderInv, WaitInv
<1>7. ReceivedInv'
  BY <1>2, <1>3, <1>4, <1>5 DEF OrderInv, ReceivedInv
<1>8. FilledInv'
  BY <1>2, <1>3, <1>4, <1>5 DEF OrderInv, FilledInv
<1>9. QED
  BY <1>6, <1>7, <1>8 DEF OrderInv

\* The steps that leave the window alone.
Quiet ==
  \/ AllocElsewhere
  \/ \E s \in Senders : FindRecipient(s) \/ EnterQueue(s) \/ QueueFull(s) \/ FillFails(s)
  \/ DeliverLock \/ DeliverFails \/ DeliverDone
  \/ Close \/ TeardownLock \/ TeardownFree
  \/ UNCHANGED vars

\* The step of FillEntry and FillFails writes outside the window.
LEMMA FillsOutside ==
  ASSUME IInv, NEW s \in Senders, FillEntry(s) \/ FillFails(s)
  PROVE  /\ \A k \in 1 .. queue_count : message_queue'[At(k)].id = Id(k)
         /\ message_queue'[queue_tail].id = next_message_id
         /\ call[s] = "entered"
         /\ \A t \in Senders : t # s => call'[t] = call[t] /\ call[t] # "filled"
         /\ ring' = ring /\ received' = received /\ handler' = handler
         /\ next_message_id' = next_message_id + 1
<1>1. call[s] = "entered" /\ queue_count < MESSAGE_QUEUE_SIZE
  BY DEF FillEntry, FillFails, IInv, RingInv
<1>2. PICK new \in {next_message_id, Null} :
        message_queue' = [message_queue EXCEPT ![queue_tail] =
          [id |-> next_message_id, data |-> new, delivered |-> FALSE]]
  BY DEF FillEntry, FillFails
<1>3. \A k \in 1 .. queue_count : At(k) \in Index /\ At(k) # queue_tail
  BY <1>1, Places, SizeAssumption DEF IInv, TypeOK
<1>4. queue_tail \in Index /\ message_queue \in [Index -> Entry]
  BY DEF IInv, TypeOK
<1>5. \A t \in Senders : t # s => call'[t] = call[t] /\ call[t] # "filled"
  BY <1>1 DEF FillEntry, FillFails, IInv, TypeOK, LockInv
<1>6. QED
  BY <1>1, <1>2, <1>3, <1>4, <1>5 DEF Id, FillEntry, FillFails, ring

LEMMA QuietKeeps ==
  ASSUME IInv, Quiet
  PROVE  /\ ring' = ring /\ received' = received
         /\ next_message_id' \in {next_message_id, next_message_id + 1}
         /\ handler' = "sent" <=> handler = "sent"
         /\ \A k \in 1 .. queue_count : message_queue'[At(k)].id = Id(k)
         /\ \A s \in Senders : call'[s] = "filled" =>
              /\ call[s] = "filled"
              /\ message_queue'[queue_tail].id = message_queue[queue_tail].id
<1>1. ASSUME NEW s \in Senders, FillFails(s)
      PROVE  \A t \in Senders : call'[t] # "filled"
  <2>1. call'[s] = "idle"
    BY <1>1 DEF FillFails, IInv, TypeOK
  <2>2. QED
    BY <1>1, <2>1, FillsOutside
<1>2. CASE \E s \in Senders : FillFails(s)
  BY <1>1, <1>2, FillsOutside
<1>3. CASE AllocElsewhere \/ DeliverLock \/ DeliverFails \/ DeliverDone
           \/ Close \/ TeardownLock \/ TeardownFree \/ UNCHANGED vars
  BY <1>3 DEF AllocElsewhere, DeliverLock, DeliverFails, DeliverDone, Close, TeardownLock,
              TeardownFree, vars, ring, Id
<1>4. ASSUME NEW s \in Senders, FindRecipient(s) \/ EnterQueue(s) \/ QueueFull(s)
      PROVE  /\ message_queue' = message_queue /\ ring' = ring /\ received' = received
             /\ next_message_id' = next_message_id /\ handler' = handler
             /\ \A t \in Senders : call'[t] = "filled" => call[t] = "filled"
  BY <1>4 DEF FindRecipient, EnterQueue, QueueFull, ring, IInv, TypeOK
<1>5. QED
  BY <1>2, <1>3, <1>4 DEF Quiet, Id

LEMMA OrderQuiet == ASSUME IInv, OrderInv, Quiet PROVE OrderInv'
<1>1. next_message_id \in Nat
  BY DEF IInv, TypeOK
<1>2. QED
  BY <1>1, QuietKeeps, OrderKept

\* The new identifier is the largest so far.
LEMMA OrderFills ==
  ASSUME IInv, OrderInv, NEW s \in Senders, FillEntry(s)
  PROVE  OrderInv'
<1>1. /\ ring' = ring /\ received' = received /\ handler' = handler
      /\ next_message_id' = next_message_id + 1
      /\ message_queue'[queue_tail].id = next_message_id
      /\ \A k \in 1 .. queue_count : message_queue'[At(k)].id = Id(k)
  BY FillsOutside
<1>2. \A k : At(k)' = At(k)
  BY <1>1 DEF At, ring
<1>3. \A k \in 1 .. queue_count : Id(k)' = Id(k)
  BY <1>1, <1>2 DEF Id
<1>4. queue_count' = queue_count /\ queue_tail' = queue_tail /\ First' = First
  BY <1>1 DEF ring, First
<1>5. /\ First \in 1 .. 2 /\ next_message_id \in Nat \ {0} /\ queue_count \in Nat
      /\ \A i \in 1 .. Len(received) : received[i] \in Nat
  BY ElementOfSeq DEF First, IInv, TypeOK
<1>6. WaitInv'
  BY <1>1, <1>3, <1>4, <1>5 DEF OrderInv, WaitInv
<1>7. ReceivedInv'
  BY <1>1, <1>3, <1>4, <1>5 DEF OrderInv, ReceivedInv
<1>8. FilledInv'
  BY <1>1, <1>3, <1>4, <1>5 DEF OrderInv, WaitInv, ReceivedInv, FilledInv
<1>9. QED
  BY <1>6, <1>7, <1>8 DEF OrderInv

\* The entry that was filled is the last of the window.
LEMMA CommitGrows ==
  ASSUME IInv, NEW s \in Senders, Commit(s)
  PROVE  /\ queue_count < MESSAGE_QUEUE_SIZE /\ queue_count' = queue_count + 1
         /\ \A k \in 1 .. queue_count : Id(k)' = Id(k)
         /\ Id(queue_count)' = message_queue[queue_tail].id
         /\ handler \notin {"sent"} /\ handler' = handler
         /\ \A t \in Senders : call'[t] # "filled"
         /\ UNCHANGED <<message_queue, next_message_id, received>>
<1>1. queue_count < MESSAGE_QUEUE_SIZE /\ call[s] = "filled" /\ handler # "sent"
  BY ThreadAssumption DEF Commit, IInv, RingInv, LockInv
<1>2. UNCHANGED <<message_queue, next_message_id, received, queue_head, handler>>
      /\ queue_count' = queue_count + 1
  BY DEF Commit
<1>3. \A k : At(k)' = At(k)
  BY <1>2 DEF At
<1>4. queue_tail = At(queue_count + 1)
  BY <1>1, Places DEF IInv
<1>5. \A t \in Senders : call'[t] # "filled"
  BY <1>1 DEF Commit, IInv, TypeOK, LockInv
<1>6. At(queue_count)' = At(queue_count + 1)
  BY <1>2 DEF At
<1>7. \A k \in 1 .. queue_count : Id(k)' = Id(k)
  BY <1>2, <1>3 DEF Id
<1>8. Id(queue_count)' = message_queue[queue_tail].id
  BY <1>2, <1>4, <1>6 DEF Id
<1>9. QED
  BY <1>1, <1>2, <1>5, <1>7, <1>8

LEMMA OrderCommits ==
  ASSUME IInv, OrderInv, NEW s \in Senders, Commit(s)
  PROVE  OrderInv'
<1>1. /\ queue_count \in Nat /\ next_message_id \in Nat \ {0}
      /\ \A i \in 1 .. Len(received) : received[i] \in Nat
  BY ElementOfSeq DEF IInv, TypeOK
<1>2. call[s] = "filled"
  BY DEF Commit
<1>3. First' = 1 /\ First = 1
  BY CommitGrows DEF First
<1>4. WaitInv'
  <2>1. \A k \in 1 .. queue_count' :
          /\ k \in 1 .. queue_count => Id(k)' = Id(k)
          /\ k \notin 1 .. queue_count => Id(k)' = message_queue[queue_tail].id
    BY <1>1, CommitGrows
  <2>2. QED
    BY <1>1, <1>2, <2>1, CommitGrows DEF OrderInv, WaitInv, FilledInv
<1>5. ReceivedInv'
  <2>1. \A k \in 1 .. queue_count' :
          /\ k \in 1 .. queue_count => Id(k)' = Id(k)
          /\ k \notin 1 .. queue_count => Id(k)' = message_queue[queue_tail].id
    BY <1>1, CommitGrows
  <2>2. QED
    BY <1>1, <1>2, <1>3, <2>1, CommitGrows DEF OrderInv, ReceivedInv, FilledInv
<1>6. FilledInv'
  BY CommitGrows DEF FilledInv
<1>7. QED
  BY <1>4, <1>5, <1>6 DEF OrderInv

\* The head is sent: no waiting entry is marked as delivered.
LEMMA SendsHead ==
  ASSUME IInv, DeliverNext
  PROVE  /\ handler = "delivering" /\ handler' = "sent" /\ queue_count > 0
         /\ ring' = ring /\ next_message_id' = next_message_id
         /\ \A k \in 1 .. queue_count : Id(k)' = Id(k)
         /\ received' = Append(received, Id(1))
         /\ call' = call /\ \A t \in Senders : call[t] # "filled"
<1>1. handler = "delivering" /\ queue_count > 0
  BY DEF DeliverNext
<1>2. queue_head \in Index /\ At(1) = queue_head /\ InWindow(queue_head)
  BY <1>1, Places, HeadInWindow DEF IInv, TypeOK
<1>3. ~ message_queue[queue_head].delivered
  BY <1>1, <1>2 DEF IInv, HeldInv
<1>4. /\ message_queue' = [message_queue EXCEPT ![queue_head].delivered = TRUE]
      /\ received' = Append(received, message_queue[queue_head].id)
      /\ handler' = "sent" /\ ring' = ring
      /\ UNCHANGED <<next_message_id, call>>
  BY <1>3 DEF DeliverNext, ring
<1>5. \A i \in Index : message_queue'[i].id = message_queue[i].id
  BY <1>4 DEF IInv, TypeOK, Entry
<1>6. \A k : At(k)' = At(k)
  BY <1>4 DEF At, ring
<1>7. \A k \in 1 .. queue_count : At(k) \in Index
  BY Places, SizeAssumption DEF IInv, TypeOK
<1>8. \A t \in Senders : call[t] # "filled"
  BY <1>1, ThreadAssumption DEF IInv, LockInv
<1>9. QED
  BY <1>1, <1>2, <1>4, <1>5, <1>6, <1>7, <1>8 DEF Id

LEMMA OrderSends ==
  ASSUME IInv, OrderInv, DeliverNext
  PROVE  OrderInv'
<1>1. /\ queue_count \in Nat /\ next_message_id \in Nat \ {0} /\ received \in Seq(Nat)
      /\ queue_count' = queue_count /\ First = 1 /\ First' = 2
  BY SendsHead DEF IInv, TypeOK, First, ring
<1>2. Id(1) \in 1 .. next_message_id - 1
  BY <1>1, SendsHead DEF OrderInv, WaitInv
<1>3. /\ Len(received') = Len(received) + 1 /\ Len(received) \in Nat
      /\ received'[Len(received) + 1] = Id(1)
      /\ \A i \in 1 .. Len(received) : received'[i] = received[i] /\ received[i] \in Nat
  <2>1. received' = Append(received, Id(1)) /\ Id(1) \in Nat
    BY <1>1, <1>2, SendsHead
  <2>2. Appended(received', received, Id(1))
    BY <1>1, <2>1, AppendIs, Zenon
  <2>3. QED
    BY <2>2 DEF Appended
<1>4. WaitInv'
  BY <1>1, SendsHead DEF OrderInv, WaitInv
<1>5. ReceivedInv'
  BY <1>1, <1>2, <1>3, SendsHead DEF OrderInv, WaitInv, ReceivedInv
<1>6. FilledInv'
  BY SendsHead DEF FilledInv
<1>7. QED
  BY <1>4, <1>5, <1>6 DEF OrderInv

\* What was sent leaves the window.
LEMMA ReleasesHead ==
  ASSUME IInv, DeliverRelease
  PROVE  /\ handler = "sent" /\ handler' = "delivering" /\ queue_count > 0
         /\ queue_count' = queue_count - 1
         /\ \A k \in 1 .. queue_count - 1 : Id(k)' = Id(k + 1)
         /\ UNCHANGED <<next_message_id, received, call>>
         /\ \A t \in Senders : call[t] # "filled"
<1>1. handler = "sent" /\ queue_count > 0 /\ queue_count \in Nat
  BY DEF DeliverRelease, IInv, RingInv, TypeOK
<1>2. /\ message_queue' = [message_queue EXCEPT ![queue_head].data = Null]
      /\ queue_head' = After(queue_head) /\ queue_count' = queue_count - 1
      /\ handler' = "delivering"
      /\ UNCHANGED <<next_message_id, received, call>>
  BY DEF DeliverRelease
<1>3. \A i \in Index : message_queue'[i].id = message_queue[i].id
  BY <1>2 DEF IInv, TypeOK, Entry
<1>4. ASSUME NEW k \in 1 .. queue_count - 1
      PROVE  At(k)' = At(k + 1) /\ At(k + 1) \in Index
  <2>1. k + 1 \in 1 .. MESSAGE_QUEUE_SIZE
    BY <1>1, SizeAssumption DEF IInv, TypeOK
  <2>2. QED
    BY <1>1, <1>2, <2>1, PlacesMoveUp, Places DEF IInv
<1>5. \A t \in Senders : call[t] # "filled"
  BY <1>1, ThreadAssumption DEF IInv, LockInv
<1>6. QED
  BY <1>1, <1>2, <1>3, <1>4, <1>5 DEF Id

LEMMA OrderReleases ==
  ASSUME IInv, OrderInv, DeliverRelease
  PROVE  OrderInv'
<1>1. /\ queue_count \in Nat /\ next_message_id \in Nat \ {0} /\ First = 2 /\ First' = 1
  BY ReleasesHead DEF IInv, TypeOK, First
<1>2. WaitInv'
  BY <1>1, ReleasesHead DEF OrderInv, WaitInv
<1>3. ReceivedInv'
  BY <1>1, ReleasesHead DEF OrderInv, ReceivedInv
<1>4. FilledInv'
  BY ReleasesHead DEF FilledInv
<1>5. QED
  BY <1>2, <1>3, <1>4 DEF OrderInv

LEMMA OrderResets ==
  ASSUME IInv, OrderInv, TeardownReset
  PROVE  OrderInv'
<1>1. /\ queue_count' = 0 /\ First' = 1 /\ handler = "freeing"
      /\ UNCHANGED <<next_message_id, received, call>>
  BY DEF TeardownReset, First
<1>2. \A t \in Senders : call[t] # "filled"
  BY <1>1, ThreadAssumption DEF IInv, LockInv
<1>3. WaitInv' /\ FilledInv'
  BY <1>1, <1>2 DEF WaitInv, FilledInv
<1>4. ReceivedInv'
  BY <1>1 DEF OrderInv, ReceivedInv
<1>5. QED
  BY <1>3, <1>4 DEF OrderInv

\* Every step is one of those above.
LEMMA Steps ==
  ASSUME [Next]_vars
  PROVE  \/ Quiet \/ DeliverNext \/ DeliverRelease \/ TeardownReset
         \/ \E s \in Senders : FillEntry(s) \/ Commit(s)
BY DEF Next, Handle, Send, Quiet

LEMMA OrderStep == IInv /\ OrderInv /\ [Next]_vars => OrderInv'
BY Steps, OrderQuiet, OrderFills, OrderCommits, OrderSends, OrderReleases, OrderResets

LEMMA InitOrder == Init => OrderInv
BY DEF Init, OrderInv, WaitInv, ReceivedInv, FilledInv

-----------------------------------------------------------------------------
(* The refinement.                                                         *)

\* What the box is mapped to.
Waiting == IF handler = "sent" THEN Tail(Window) ELSE Window

\* The window and its changes, as sequences.
LEMMA WindowIs ==
  ASSUME TypeOK, RingInv
  PROVE  /\ queue_count \in Nat /\ Window \in [1 .. queue_count -> Nat]
         /\ \A k \in 1 .. queue_count : Window[k] = Id(k)
<1>1. \A k \in 1 .. queue_count : At(k) \in Index
  BY Places, SizeAssumption DEF TypeOK
<1>2. \A k \in 1 .. queue_count : Id(k) \in Nat
  BY <1>1 DEF Id, TypeOK, Entry
<1>3. Window = [k \in 1 .. queue_count |-> Id(k)]
  BY DEF Window, Id, At
<1>4. QED
  BY <1>2, <1>3 DEF TypeOK

LEMMA NextWindowIs ==
  ASSUME TypeOK', RingInv'
  PROVE  /\ queue_count' \in Nat /\ Window' \in [1 .. queue_count' -> Nat]
         /\ \A k \in 1 .. queue_count' : Window'[k] = Id(k)'
<1>1. ASSUME NEW k \in 1 .. queue_count' PROVE At(k)' \in Index
  <2>1. /\ queue_head' \in Index /\ k \in 1 .. MESSAGE_QUEUE_SIZE
        /\ k - 1 \in 0 .. MESSAGE_QUEUE_SIZE - 1
    BY SizeAssumption DEF TypeOK
  <2>2. At(k)' = (queue_head' + (k - 1)) % MESSAGE_QUEUE_SIZE
    BY <2>1 DEF At, Index
  <2>3. QED
    BY <2>1, <2>2, WrapIndex, Zenon
<1>2. \A k \in 1 .. queue_count' : Id(k)' \in Nat
  BY <1>1 DEF Id, TypeOK, Entry
<1>3. Window' = [k \in 1 .. queue_count' |-> Id(k)']
  BY DEF Window, Id, At
<1>4. QED
  BY <1>2, <1>3 DEF TypeOK

LEMMA SameFunction ==
  ASSUME NEW n \in Nat, NEW f \in [1 .. n -> Nat], NEW g \in [1 .. n -> Nat],
         \A k \in 1 .. n : f[k] = g[k]
  PROVE  f = g
OBVIOUS

LEMMA SameSequence ==
  ASSUME NEW s \in Seq(Nat), NEW t \in Seq(Nat), Len(s) = Len(t),
         \A k \in 1 .. Len(s) : s[k] = t[k]
  PROVE  s = t
BY SeqEqual

\* Handing out an identifier, and the steps the box does not see.
LEMMA WindowKept ==
  ASSUME IInv, IInv', queue_count' = queue_count,
         \A k \in 1 .. queue_count : Id(k)' = Id(k)
  PROVE  Window' = Window
<1>1. /\ queue_count \in Nat
      /\ Window \in [1 .. queue_count -> Nat] /\ Window' \in [1 .. queue_count -> Nat]
      /\ \A k \in 1 .. queue_count : Window'[k] = Window[k]
  BY WindowIs, NextWindowIs DEF IInv
<1>2. QED
  BY <1>1, SameFunction, Zenon

LEMMA QuietOrIssue ==
  ASSUME IInv, IInv', Quiet \/ \E s \in Senders : FillEntry(s)
  PROVE  Box!Issue \/ UNCHANGED Box!boxVars
<1>1. /\ ring' = ring /\ received' = received
      /\ next_message_id' \in {next_message_id, next_message_id + 1}
      /\ handler' = "sent" <=> handler = "sent"
      /\ \A k \in 1 .. queue_count : message_queue'[At(k)].id = Id(k)
  BY QuietKeeps, FillsOutside
<1>2. \A k : At(k)' = At(k)
  BY <1>1 DEF At, ring
<1>3. \A k \in 1 .. queue_count : Id(k)' = Id(k)
  BY <1>1, <1>2 DEF Id
<1>4. Window' = Window
  BY <1>1, <1>3, WindowKept DEF ring
<1>5. Waiting' = Waiting
  <2>1. CASE handler = "sent"
    BY <1>1, <1>4, <2>1 DEF Waiting
  <2>2. CASE handler # "sent"
    BY <1>1, <1>4, <2>2 DEF Waiting
  <2>3. QED
    BY <2>1, <2>2
<1>6. \/ next_message_id' - 1 = next_message_id - 1
      \/ next_message_id' - 1 = (next_message_id - 1) + 1
  <2>1. next_message_id' = next_message_id \/ next_message_id' = next_message_id + 1
    BY <1>1
  <2>2. next_message_id \in Nat
    BY DEF IInv, TypeOK
  <2>3. QED
    BY <2>1, <2>2
<1>7. QED
  BY <1>1, <1>5, <1>6 DEF Waiting, Box!Issue, Box!boxVars

LEMMA CommitPosts ==
  ASSUME IInv, IInv', OrderInv, NEW s \in Senders, Commit(s)
  PROVE  Box!Post
<1> DEFINE m == message_queue[queue_tail].id
<1>1. /\ m \in 1 .. next_message_id - 1 /\ m \in Nat
      /\ \A k \in 1 .. queue_count : Id(k) < m
      /\ \A i \in 1 .. Len(received) : received[i] < m
  BY DEF Commit, OrderInv, FilledInv, IInv, TypeOK
<1>2. /\ queue_count' = queue_count + 1 /\ queue_count < MESSAGE_QUEUE_SIZE
      /\ \A k \in 1 .. queue_count : Id(k)' = Id(k)
      /\ Id(queue_count)' = m
      /\ handler # "sent" /\ handler' # "sent"
      /\ UNCHANGED <<next_message_id, received>>
  BY CommitGrows
<1> HIDE DEF m
<1>3. /\ queue_count \in Nat /\ Window \in [1 .. queue_count -> Nat]
      /\ \A k \in 1 .. queue_count : Window[k] = Id(k)
  BY WindowIs DEF IInv
<1>4. /\ queue_count + 1 \in Nat /\ Window' \in [1 .. queue_count + 1 -> Nat]
      /\ \A k \in 1 .. queue_count : Window'[k] = Window[k]
      /\ Window'[queue_count + 1] = m
  BY <1>2, <1>3, NextWindowIs DEF IInv
<1>5. /\ Append(Window, m) \in Seq(Nat) /\ Len(Append(Window, m)) = queue_count + 1
      /\ Append(Window, m)[queue_count + 1] = m
      /\ \A k \in 1 .. queue_count : Append(Window, m)[k] = Window[k]
      /\ Len(Window) = queue_count
  <2>1. m \in Nat /\ queue_count \in Nat /\ Window \in [1 .. queue_count -> Nat]
    BY <1>1, <1>3
  <2>2. QED
    BY <2>1, AppendSequence, Zenon
<1>6. Window' \in Seq(Nat) /\ Len(Window') = queue_count + 1
  BY <1>4, AsSequence, Zenon
<1>7. Window' = Append(Window, m)
  <2>1. \A k \in 1 .. queue_count + 1 : Window'[k] = Append(Window, m)[k]
    <3>1. \A k \in 1 .. queue_count + 1 : k \in 1 .. queue_count \/ k = queue_count + 1
      BY <1>3
    <3>2. QED
      BY <1>4, <1>5, <3>1, Zenon
  <2>2. Len(Window') = Len(Append(Window, m))
    BY <1>5, <1>6, Zenon
  <2>3. \A k \in 1 .. Len(Window') : Window'[k] = Append(Window, m)[k]
    BY <1>6, <2>1, Zenon
  <2>4. QED
    BY <1>5, <1>6, <2>2, <2>3, SameSequence, Zenon
<1>8. Waiting = Window /\ Waiting' = Window'
  BY <1>2 DEF Waiting
<1>9. /\ Len(Waiting) < MESSAGE_QUEUE_SIZE
      /\ \A i \in 1 .. Len(Waiting) : Waiting[i] < m
      /\ Waiting' = Append(Waiting, m)
  BY <1>1, <1>2, <1>3, <1>5, <1>7, <1>8
<1>10. QED
  BY <1>1, <1>2, <1>9 DEF Waiting, Box!Post

LEMMA SendTakes ==
  ASSUME IInv, IInv', DeliverNext
  PROVE  Box!Take
<1>1. Window' = Window
  BY SendsHead, WindowKept DEF ring
<1>2. Waiting = Window /\ Waiting' = Tail(Window)
  BY <1>1, SendsHead DEF Waiting
<1>3. /\ queue_count \in Nat /\ queue_count > 0 /\ 1 \in 1 .. queue_count
      /\ Window \in [1 .. queue_count -> Nat] /\ Window[1] = Id(1)
  BY WindowIs, SendsHead DEF IInv
<1>4. Window # <<>> /\ Head(Window) = Id(1)
  BY <1>3, AsSequence, Zenon
<1>5. /\ Waiting # <<>> /\ Waiting' = Tail(Waiting)
      /\ received' = Append(received, Head(Waiting))
      /\ next_message_id' = next_message_id
  BY <1>2, <1>4, SendsHead
<1>6. QED
  BY <1>5 DEF Waiting, Box!Take

LEMMA ReleaseIsUnseen ==
  ASSUME IInv, IInv', DeliverRelease
  PROVE  UNCHANGED Box!boxVars
<1>1. Waiting = Tail(Window) /\ Waiting' = Window'
  BY ReleasesHead DEF Waiting
<1>2. /\ queue_count \in Nat /\ queue_count > 0 /\ queue_count - 1 \in Nat
      /\ Window \in [1 .. queue_count -> Nat]
      /\ \A k \in 1 .. queue_count : Window[k] = Id(k)
  BY WindowIs, ReleasesHead DEF IInv
<1>3. /\ Window' \in [1 .. queue_count - 1 -> Nat]
      /\ \A k \in 1 .. queue_count - 1 : Window'[k] = Window[k + 1]
  BY <1>2, NextWindowIs, ReleasesHead DEF IInv
<1>4. /\ Tail(Window) \in Seq(Nat) /\ Len(Tail(Window)) = queue_count - 1
      /\ \A k \in 1 .. queue_count - 1 : Tail(Window)[k] = Window[k + 1]
  BY <1>2, AsSequence, Zenon
<1>5. Window' \in Seq(Nat) /\ Len(Window') = queue_count - 1
  BY <1>2, <1>3, AsSequence, Zenon
<1>6. Window' = Tail(Window)
  <2>1. \A k \in 1 .. Len(Window') : Window'[k] = Tail(Window)[k]
    BY <1>3, <1>4, <1>5, Zenon
  <2>2. Len(Window') = Len(Tail(Window))
    BY <1>4, <1>5, Zenon
  <2>3. QED
    BY <1>4, <1>5, <2>1, <2>2, SameSequence, Zenon
<1>7. Waiting' = Waiting /\ UNCHANGED <<next_message_id, received>>
  BY <1>1, <1>6, ReleasesHead
<1>8. QED
  BY <1>7 DEF Waiting, Box!boxVars

LEMMA ResetDiscards ==
  ASSUME IInv, IInv', TeardownReset
  PROVE  Box!Discard
<1>1. /\ queue_count' = 0 /\ handler' = "gone"
      /\ UNCHANGED <<next_message_id, received>>
  BY DEF TeardownReset
<1>2. 0 \in Nat /\ Window' \in [1 .. 0 -> Nat]
  BY <1>1, NextWindowIs DEF IInv
<1>3. Window' = <<>>
  BY <1>2, AsSequence, Zenon
<1>4. Waiting' = <<>>
  BY <1>1, <1>3 DEF Waiting
<1>5. QED
  BY <1>1, <1>4 DEF Waiting, Box!Discard

LEMMA InitBox == Init => Box!BoxInit
<1> SUFFICES ASSUME Init PROVE Box!BoxInit
  OBVIOUS
<1>1. 0 \in Nat /\ Window \in [1 .. 0 -> Nat]
  BY DEF Init, Window
<1>2. Window = <<>>
  BY <1>1, AsSequence, Zenon
<1>3. QED
  BY <1>2 DEF Init, Box!BoxInit

LEMMA BoxStep ==
  ASSUME IInv, IInv', OrderInv, [Next]_vars
  PROVE  [Box!BoxNext]_(Box!boxVars)
BY Steps, QuietOrIssue, CommitPosts, SendTakes, ReleaseIsUnseen, ResetDiscards
   DEF Box!BoxNext

-----------------------------------------------------------------------------

\* Identifiers wait and arrive in the order in which next_message_id gave them
\* out, late senders of a torn-down queue included (message_queue.c:21-54).
THEOREM OrderInvariance == Spec => []OrderInv
BY InitOrder, OrderStep, Invariance, PTL DEF Spec

\* Whatever the senders, the handler and the teardown do, what is waiting and
\* what was received change as a bounded first-in-first-out box changes: no
\* message is lost before the teardown, doubled or overtaken
\* (message_queue.c:9-57, message_queue.c:101-137, client_handler.c:137-148).
THEOREM BoxIsImplemented == Spec => BoxRefined
<1>1. IInv /\ IInv' /\ OrderInv /\ [Next]_vars => [Box!BoxNext]_(Box!boxVars)
  BY BoxStep
<1>2. QED
  BY <1>1, InitBox, OrderInvariance, Invariance, PTL DEF Spec, BoxRefined, Box!BoxSpec
===============================================================================
