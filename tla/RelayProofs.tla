------------------------------ MODULE RelayProofs ------------------------------
(***************************************************************************)
(* What becomes of a message, for any number of slots, users and messages  *)
(* and any queue length.  None of the four promises is inductive: that an  *)
(* id or a copy is single depends on what every handler under way is about *)
(* to send, queue or acknowledge.  IInv says what each of them may rely on *)
(* between two of its critical sections.                                   *)
(***************************************************************************)
EXTENDS Relay, SequenceTheorems, WellFoundedInduction, TLAPS

Relaying == {"numbered", "sending", "queueing", "found", "acking"}

\* A handler's job: a message no other handler relays and nobody has been
\* answered about, and a slot on which the recipient once logged in.
JobInv ==
  \A c \in Slots :
    /\ pc[c] \in Relaying =>
         job[c].msg \in Msgs /\ job[c].id # 0 /\ ack[job[c].msg] = NoAck
    /\ pc[c] \notin Relaying => job[c] = NoJob
    /\ pc[c] \in {"sending", "found"} =>
         job[c].to \in Slots /\ To[job[c].msg] \in was[job[c].to]
    /\ pc[c] = "found" => job[c].status = Queued
    /\ \A d \in Slots : job[c].msg = job[d].msg /\ job[c].msg # None => c = d

WasInv == \A c \in Slots : user[c] # None => user[c] \in was[c]

\* The counter is beyond every id in use.
InUse == Holding \cup Answered \cup UnderWay
IdsIssued == \A x \in InUse : x.id < next_message_id

\* A message has no copy before its handler has sent or queued it.
Copied(m) == \E x \in Holding : x.msg = m
CopyInv ==
  /\ \A m \in Msgs : ack[m] = NoAck /\ (\A c \in Slots : job[c].msg # m) => ~Copied(m)
  /\ \A c \in Slots :
       pc[c] \in {"numbered", "sending", "queueing", "found"} => ~Copied(job[c].msg)

\* AckTruthful, for an acknowledgement about to be sent.
JobTruthful ==
  \A c \in Slots : pc[c] = "acking" =>
    /\ job[c].status = Delivered =>
         \E d \in Slots : [msg |-> job[c].msg, id |-> job[c].id] \in Range(took[d])
    /\ job[c].status = Failed => ~Copied(job[c].msg)

IInv ==
  /\ TypeOK /\ JobInv /\ WasInv
  /\ IdsIssued /\ IdsDistinct
  /\ CopyInv /\ AtMostOnce /\ AddresseesOnly
  /\ JobTruthful /\ AckTruthful

-----------------------------------------------------------------------------
(* The look-up.                                                            *)

LEMMA LeastOf ==
  ASSUME NEW S \in SUBSET Nat, S # {}
  PROVE  \E x \in S : \A y \in S : ~(y < x)
<1> DEFINE R == OpToRel(<, Nat)
<1>1. IsWellFoundedOn(R, Nat)
  BY NatLessThanWellFounded, Zenon
<1> HIDE DEF R
<1>2. PICK x \in S : \A y \in S : <<y, x>> \notin R
  BY <1>1, WFMin, Zenon
<1>3. \A y \in S : y < x => <<y, x>> \in R
  BY DEF R, OpToRel
<1>4. QED
  BY <1>2, <1>3

\* find_client_by_username finds a slot of the user if there is one.
LEMMA FindFinds ==
  ASSUME NEW u
  PROVE  IF \E c \in Slots : user[c] = u
         THEN Find(u) \in Slots /\ user[Find(u)] = u
         ELSE Find(u) = None
<1>1. CASE \E c \in Slots : user[c] = u
  <2> DEFINE S == {c \in Slots : user[c] = u}
  <2>1. S \in SUBSET Nat /\ S # {}
    BY <1>1, RelayAssumption DEF Slots
  <2>2. PICK x \in S : \A y \in S : ~(y < x)
    BY <2>1, LeastOf
  <2>3. x \in Slots /\ user[x] = u /\ \A d \in Slots : d < x => user[d] # u
    BY <2>2
  <2>4. QED
    BY <1>1, <2>3 DEF Find
<1>2. CASE ~\E c \in Slots : user[c] = u
  BY <1>2 DEF Find
<1>3. QED
  BY <1>1, <1>2

LEMMA NoneIsNothing == None \notin Slots /\ None \notin Users /\ None \notin Msgs
BY RelayAssumption DEF Slots

LEMMA FoundSlot ==
  ASSUME TypeOK, WasInv, NEW u \in Users, Find(u) # None
  PROVE  Find(u) \in Slots /\ u \in was[Find(u)]
BY FindFinds, NoneIsNothing DEF WasInv

LEMMA FindType ==
  ASSUME NEW u PROVE Find(u) \in Slots \cup {None}
BY FindFinds

-----------------------------------------------------------------------------
(* Types and jobs.                                                         *)

Label == {"loop", "delivering", "numbered", "sending", "queueing", "found",
          "acking", "gone"}
Job == [msg : Msgs \cup {None}, id : Nat, to : Slots \cup {None}, status : {0, 1, 2}]

LEMMA InitTypes == Init => TypeOK
BY RelayAssumption DEF Init, TypeOK, NoJob, NoAck, Slots

LEMMA SplitSeq ==
  ASSUME NEW q \in Seq(Stored), NEW n \in 0 .. Len(q)
  PROVE  /\ SubSeq(q, 1, n) \in Seq(Stored)
         /\ SubSeq(q, n + 1, Len(q)) \in Seq(Stored)
         /\ SubSeq(q, 1, n) \o SubSeq(q, n + 1, Len(q)) = q
<1>1. Len(q) \in Nat /\ \A k \in 1 .. Len(q) : q[k] \in Stored
  OBVIOUS
<1>2. SubSeq(q, 1, n) \in Seq(Stored) /\ SubSeq(q, n + 1, Len(q)) \in Seq(Stored)
  BY <1>1, SubSeqProperties
<1>3. 1 \in 1 .. Len(q) + 1 /\ n \in 1 - 1 .. Len(q) /\ Len(q) \in n .. Len(q)
  BY <1>1
<1>4. SubSeq(q, 1, n) \o SubSeq(q, n + 1, Len(q)) = SubSeq(q, 1, Len(q))
  BY <1>3, ConcatAdjacentSubSeq
<1>5. QED
  BY <1>2, <1>4, SubSeqFull

LEMMA TypeStep ==
  ASSUME TypeOK, JobInv, NEW c \in Slots, Request(c) \/ Proceed(c)
  PROVE  TypeOK'
<1> USE DEF Goto
<1>1. CASE GetMessages(c)
  BY <1>1 DEF TypeOK, GetMessages
<1>2. CASE Leave(c)
  BY <1>2 DEF TypeOK, Leave
<1>3. ASSUME NEW u \in Users, Login(c, u) PROVE TypeOK'
  BY <1>3 DEF TypeOK, Login
<1>4. ASSUME NEW m \in Msgs, Number(c, m) PROVE TypeOK'
  <2>1. [NoJob EXCEPT !.msg = m, !.id = next_message_id] \in Job
    BY DEF NoJob, Job, TypeOK
  <2>2. job' \in [Slots -> Job]
    BY <1>4, <2>1 DEF TypeOK, Number, Job
  <2>3. QED
    BY <1>4, <2>2 DEF TypeOK, Number, Job
<1>5. CASE Deliver(c)
  <2>1. PICK n \in 0 .. Len(queue[c]) :
          /\ took' = [took EXCEPT ![c] = took[c] \o SubSeq(queue[c], 1, n)]
          /\ queue' = [queue EXCEPT ![c] = SubSeq(queue[c], n + 1, Len(queue[c]))]
    BY <1>5 DEF Deliver
  <2>2. /\ SubSeq(queue[c], 1, n) \in Seq(Stored)
        /\ SubSeq(queue[c], n + 1, Len(queue[c])) \in Seq(Stored)
    BY SplitSeq DEF TypeOK
  <2>3. took[c] \o SubSeq(queue[c], 1, n) \in Seq(Stored)
    BY <2>2, ConcatProperties DEF TypeOK
  <2>4. took' \in [Slots -> Seq(Stored)] /\ queue' \in [Slots -> Seq(Stored)]
    BY <2>1, <2>2, <2>3 DEF TypeOK
  <2>5. QED
    BY <1>5, <2>4 DEF TypeOK, Deliver
<1>6. CASE Locate(c)
  <2>1. job' \in [Slots -> Job]
    <3> DEFINE found == Find(To[job[c].msg])
    <3>1. found \in Slots \cup {None}
      BY FindType
    <3>2. job' = [job EXCEPT ![c].to = found]
      BY <1>6 DEF Locate
    <3> HIDE DEF found
    <3>3. job \in [Slots -> Job] /\ job[c] \in Job
      BY DEF TypeOK, Job
    <3>4. [job[c] EXCEPT !.to = found] \in Job
      BY <3>1, <3>3 DEF Job
    <3>5. job' = [job EXCEPT ![c] = [job[c] EXCEPT !.to = found]]
      BY <3>2, <3>3
    <3>6. QED
      BY <3>3, <3>4, <3>5
  <2>2. QED
    BY <1>6, <2>1 DEF TypeOK, Locate, Job
<1>7. CASE SendDirect(c)
  <2>1. job[c].to \in Slots /\ [msg |-> job[c].msg, id |-> job[c].id] \in Stored
    BY <1>7 DEF SendDirect, JobInv, Relaying, TypeOK, Stored
  <2>2. took' \in [Slots -> Seq(Stored)]
    BY <1>7, <2>1, AppendProperties DEF SendDirect, TypeOK
  <2>3. QED
    BY <1>7, <2>2 DEF TypeOK, SendDirect, Delivered
<1>8. CASE SendFails(c) \/ NoMemory(c)
  <2>1. job' \in [Slots -> Job]
    <3>1. CASE job' = job
      BY <3>1 DEF TypeOK, Job
    <3>2. CASE job' = [job EXCEPT ![c].status = 0]
      BY <3>2 DEF TypeOK, Job
    <3>3. QED
      BY <1>8, <3>1, <3>2 DEF SendFails, NoMemory, Failed
  <2>2. pc' \in [Slots -> Label]
    BY <1>8 DEF TypeOK, SendFails, NoMemory, Label
  <2>3. QED
    BY <1>8, <2>1, <2>2 DEF TypeOK, SendFails, NoMemory, Job, Label
<1>9. CASE FindQueue(c)
  <2>1. job' \in [Slots -> Job]
    <3> DEFINE found == Find(To[job[c].msg])
    <3>1. found \in Slots \cup {None}
      BY FindType
    <3> DEFINE mid == [job EXCEPT ![c].to = found]
    <3>2. job' = [mid EXCEPT ![c].status = 2]
      BY <1>9 DEF FindQueue, Queued
    <3> HIDE DEF found
    <3>3. mid \in [Slots -> Job]
      BY <3>1 DEF TypeOK, Job
    <3> HIDE DEF mid
    <3>4. QED
      BY <3>2, <3>3 DEF Job
  <2>2. QED
    BY <1>9, <2>1 DEF TypeOK, FindQueue, Job
<1>10. CASE Enqueue(c)
  <2>1. job[c].to \in Slots /\ [msg |-> job[c].msg, id |-> next_message_id] \in Stored
    BY <1>10 DEF Enqueue, JobInv, Relaying, TypeOK, Stored
  <2>2. queue' \in [Slots -> Seq(Stored)]
    BY <1>10, <2>1, AppendProperties DEF Enqueue, TypeOK
  <2>3. QED
    BY <1>10, <2>2 DEF TypeOK, Enqueue
<1>11. CASE EnqueueFails(c)
  BY <1>11 DEF TypeOK, EnqueueFails
<1>12. CASE Acknowledge(c)
  BY <1>12 DEF TypeOK, Acknowledge, NoJob
<1>13. QED
  BY <1>1, <1>2, <1>3, <1>4, <1>5, <1>6, <1>7, <1>8, <1>9, <1>10, <1>11, <1>12
     DEF Request, Proceed

\* A handler's own step, with the others' jobs left alone.
LEMMA JobInvKept ==
  ASSUME TypeOK, TypeOK', JobInv, NEW c \in Slots,
         \A d \in Slots \ {c} : pc'[d] = pc[d] /\ job'[d] = job[d],
         \A d \in Slots : was[d] \subseteq was'[d],
         \A d \in Slots \ {c} : job[d].msg \in Msgs => ack'[job[d].msg] = ack[job[d].msg],
         \A d \in Slots \ {c} : job'[c].msg # None => job[d].msg # job'[c].msg,
         pc'[c] \in Relaying =>
           job'[c].msg \in Msgs /\ job'[c].id # 0 /\ ack'[job'[c].msg] = NoAck,
         pc'[c] \notin Relaying => job'[c] = NoJob,
         pc'[c] \in {"sending", "found"} =>
           job'[c].to \in Slots /\ To[job'[c].msg] \in was'[job'[c].to],
         pc'[c] = "found" => job'[c].status = Queued
  PROVE  JobInv'
BY DEF JobInv

LEMMA JobInvStep ==
  ASSUME TypeOK, TypeOK', JobInv, WasInv, NEW c \in Slots, Request(c) \/ Proceed(c)
  PROVE  JobInv'
<1> USE DEF Goto
<1>0. /\ pc \in [Slots -> Label]
      /\ job \in [Slots -> Job]
      /\ was \in [Slots -> SUBSET Users]
      /\ ack \in [Msgs -> [id : Nat, status : {-1, 0, 1, 2}]]
  BY DEF TypeOK, Label, Job
<1>1. CASE \/ GetMessages(c) \/ Leave(c) \/ Deliver(c)
           \/ \E u \in Users : Login(c, u)
  <2>1. /\ job' = job /\ ack' = ack /\ \A d \in Slots : was[d] \subseteq was'[d]
        /\ pc[c] \notin Relaying /\ pc'[c] \notin Relaying
        /\ \A d \in Slots \ {c} : pc'[d] = pc[d]
    BY <1>0, <1>1 DEF GetMessages, Leave, Deliver, Login, Relaying
  <2>2. QED
    BY <1>0, <2>1 DEF JobInv, Relaying
<1>2. ASSUME NEW m \in Msgs, Number(c, m) PROVE JobInv'
  <2> DEFINE new == [NoJob EXCEPT !.msg = m, !.id = next_message_id]
  <2>0. new.msg = m /\ new.id = next_message_id
    BY DEF NoJob
  <2> HIDE DEF new
  <2>1. /\ job' = [job EXCEPT ![c] = new]
        /\ pc' = [pc EXCEPT ![c] = "numbered"] /\ ack' = ack /\ was' = was
        /\ ack[m] = NoAck /\ next_message_id # 0
        /\ \A d \in Slots : job[d].msg # m
    BY <1>2 DEF Number, new, TypeOK
  <2>2. job'[c].msg = m /\ job'[c].id = next_message_id /\ pc'[c] = "numbered"
    BY <1>0, <2>0, <2>1
  <2>3. \A d \in Slots \ {c} : pc'[d] = pc[d] /\ job'[d] = job[d]
    BY <1>0, <2>1
  <2>4. QED
    BY <2>1, <2>2, <2>3, JobInvKept DEF Relaying
<1>3. CASE \/ Locate(c) \/ SendDirect(c) \/ SendFails(c) \/ NoMemory(c)
           \/ FindQueue(c) \/ Enqueue(c) \/ EnqueueFails(c)
  <2>1. /\ pc[c] \in Relaying /\ pc'[c] \in Relaying
        /\ was' = was /\ ack' = ack
        /\ job'[c].msg = job[c].msg /\ job'[c].id = job[c].id
        /\ \A d \in Slots \ {c} : pc'[d] = pc[d] /\ job'[d] = job[d]
    <3>1. CASE Locate(c) \/ FindQueue(c)
      BY <1>0, <3>1 DEF Locate, FindQueue, Relaying, Job
    <3>2. CASE SendDirect(c) \/ NoMemory(c)
      BY <1>0, <3>2 DEF SendDirect, NoMemory, Relaying, Job
    <3>3. CASE SendFails(c) \/ Enqueue(c) \/ EnqueueFails(c)
      BY <1>0, <3>3 DEF SendFails, Enqueue, EnqueueFails, Relaying
    <3>4. QED
      BY <1>3, <3>1, <3>2, <3>3
  <2>2. job[c].msg \in Msgs /\ job[c].id # 0 /\ ack[job[c].msg] = NoAck
    BY <2>1 DEF JobInv
  <2>3. To[job[c].msg] \in Users
    BY <2>2, RelayAssumption
  <2>4. pc'[c] \in {"sending", "found"} =>
          job'[c].to \in Slots /\ To[job'[c].msg] \in was'[job'[c].to]
    <3>1. CASE Locate(c) \/ FindQueue(c)
      <4>1. job'[c].to = Find(To[job[c].msg])
        BY <1>0, <3>1 DEF Locate, FindQueue, Job
      <4>2. pc'[c] \in {"sending", "found"} => Find(To[job[c].msg]) # None
        BY <1>0, <3>1 DEF Locate, FindQueue
      <4>3. QED
        BY <2>1, <2>3, <4>1, <4>2, FoundSlot
    <3>2. CASE SendDirect(c) \/ SendFails(c) \/ NoMemory(c) \/ Enqueue(c) \/ EnqueueFails(c)
      BY <1>0, <3>2 DEF SendDirect, SendFails, NoMemory, Enqueue, EnqueueFails
    <3>3. QED
      BY <1>3, <3>1, <3>2
  <2>5. pc'[c] = "found" => job'[c].status = Queued
    <3>1. CASE FindQueue(c)
      BY <1>0, <3>1 DEF FindQueue, Job
    <3>2. CASE \/ Locate(c) \/ SendDirect(c) \/ SendFails(c) \/ NoMemory(c)
               \/ Enqueue(c) \/ EnqueueFails(c)
      BY <1>0, <3>2 DEF Locate, SendDirect, SendFails, NoMemory, Enqueue, EnqueueFails
    <3>3. QED
      BY <1>3, <3>1, <3>2
  <2>6. \A d \in Slots \ {c} : job[d].msg # job[c].msg
    BY <2>2, NoneIsNothing DEF JobInv
  <2>7. QED
    BY <2>1, <2>2, <2>4, <2>5, <2>6, JobInvKept
<1>4. CASE Acknowledge(c)
  <2>1. pc[c] \in Relaying /\ job[c].msg \in Msgs
    BY <1>4 DEF Acknowledge, JobInv, Relaying
  <2>2. /\ pc'[c] = "loop" /\ job'[c] = NoJob /\ was' = was
        /\ \A m \in Msgs \ {job[c].msg} : ack'[m] = ack[m]
        /\ \A d \in Slots \ {c} : pc'[d] = pc[d] /\ job'[d] = job[d]
    BY <1>0, <1>4, <2>1 DEF Acknowledge
  <2>3. \A d \in Slots \ {c} : job[d].msg # job[c].msg
    BY <2>1, NoneIsNothing DEF JobInv
  <2>4. NoJob.msg = None
    BY DEF NoJob
  <2>5. QED
    BY <2>2, <2>3, <2>4, JobInvKept DEF Relaying
<1>5. QED
  BY <1>1, <1>2, <1>3, <1>4 DEF Request, Proceed

LEMMA WasInvStep ==
  ASSUME TypeOK, WasInv, NEW c \in Slots, Request(c) \/ Proceed(c)
  PROVE  WasInv'
<1>1. ASSUME NEW u \in Users, Login(c, u) PROVE WasInv'
  BY <1>1 DEF Login, WasInv, TypeOK
<1>2. CASE Leave(c)
  BY <1>2 DEF Leave, WasInv, TypeOK
<1>3. CASE UNCHANGED <<user, was>>
  BY <1>3 DEF WasInv
<1>4. QED
  BY <1>1, <1>2, <1>3
     DEF Request, Proceed, GetMessages, Number, Deliver, Locate, SendDirect, SendFails,
         NoMemory, FindQueue, Enqueue, EnqueueFails, Acknowledge

-----------------------------------------------------------------------------
(* What a step does to the copies of messages.                             *)

LEMMA AppendRange ==
  ASSUME NEW s \in Seq(Stored), NEW x \in Stored
  PROVE  Range(Append(s, x)) = Range(s) \cup {x}
<1>1. <<x>> \in Seq(Stored) /\ Len(<<x>>) = 1 /\ <<x>>[1] = x
  OBVIOUS
<1>2. Range(<<x>>) = {x}
  <2>1. Range(<<x>>) = {<<x>>[k] : k \in 1 .. Len(<<x>>)}
    BY <1>1, RangeEquality
  <2>2. QED
    BY <1>1, <2>1
<1>3. Append(s, x) = s \o <<x>>
  BY AppendIsConcat
<1>4. Range(s \o <<x>>) = Range(s) \cup Range(<<x>>)
  BY <1>1, RangeConcatenation
<1>5. QED
  BY <1>2, <1>3, <1>4

\* The copy a sending or queueing handler makes, under the id it makes it with.
NewCopy(c) ==
  [msg |-> job[c].msg,
   id |-> IF pc[c] = "sending" THEN job[c].id ELSE next_message_id]

LEMMA NewCopyType ==
  ASSUME TypeOK, JobInv, NEW c \in Slots, pc[c] \in {"sending", "found"}
  PROVE  NewCopy(c) \in Stored /\ job[c].to \in Slots /\ job[c].msg \in Msgs
BY DEF TypeOK, JobInv, Relaying, NewCopy, Stored

LEMMA CopiesStep ==
  ASSUME TypeOK, JobInv, NEW c \in Slots, Request(c) \/ Proceed(c)
  PROVE  /\ \A d \in Slots : Range(took[d]) \subseteq Range(took'[d])
         /\ \/ \A d \in Slots : Copies(d)' \subseteq Copies(d)
            \/ /\ SendDirect(c) \/ Enqueue(c)
               /\ \A d \in Slots :
                    Copies(d)' \subseteq
                      Copies(d) \cup (IF d = job[c].to THEN {NewCopy(c)} ELSE {})
<1>0. queue \in [Slots -> Seq(Stored)] /\ took \in [Slots -> Seq(Stored)]
  BY DEF TypeOK
<1>1. CASE UNCHANGED <<queue, took>>
  BY <1>1 DEF Copies
<1>2. CASE Deliver(c)
  <2>1. PICK n \in 0 .. Len(queue[c]) :
          /\ took' = [took EXCEPT ![c] = took[c] \o SubSeq(queue[c], 1, n)]
          /\ queue' = [queue EXCEPT ![c] = SubSeq(queue[c], n + 1, Len(queue[c]))]
    BY <1>2 DEF Deliver
  <2> DEFINE p == SubSeq(queue[c], 1, n)
             q == SubSeq(queue[c], n + 1, Len(queue[c]))
  <2>2. p \in Seq(Stored) /\ q \in Seq(Stored) /\ p \o q = queue[c]
    BY <1>0, SplitSeq
  <2>3. took'[c] = took[c] \o p /\ queue'[c] = q
        /\ \A d \in Slots \ {c} : took'[d] = took[d] /\ queue'[d] = queue[d]
    BY <1>0, <2>1
  <2> HIDE DEF p, q
  <2>4. Range(took[c] \o p) = Range(took[c]) \cup Range(p)
        /\ Range(queue[c]) = Range(p) \cup Range(q)
    <3>1. Range(took[c] \o p) = Range(took[c]) \cup Range(p)
      BY <1>0, <2>2, RangeConcatenation
    <3>2. Range(p \o q) = Range(p) \cup Range(q)
      BY <2>2, RangeConcatenation
    <3>3. QED
      BY <2>2, <3>1, <3>2
  <2>5. QED
    BY <2>3, <2>4 DEF Copies
<1>3. CASE Leave(c)
  <2>1. Range(<<>>) = {}
    BY DEF Range
  <2>2. QED
    BY <1>0, <1>3, <2>1 DEF Leave, Copies
<1>4. CASE SendDirect(c)
  <2>1. NewCopy(c) = [msg |-> job[c].msg, id |-> job[c].id]
        /\ NewCopy(c) \in Stored /\ job[c].to \in Slots
    BY <1>4, NewCopyType DEF SendDirect, NewCopy
  <2>2. took' = [took EXCEPT ![job[c].to] = Append(took[job[c].to], NewCopy(c))]
        /\ queue' = queue
    BY <1>4, <2>1 DEF SendDirect
  <2>3. Range(Append(took[job[c].to], NewCopy(c))) = Range(took[job[c].to]) \cup {NewCopy(c)}
    BY <1>0, <2>1, AppendRange
  <2>4. \A d \in Slots : took'[d] = IF d = job[c].to
                                    THEN Append(took[job[c].to], NewCopy(c)) ELSE took[d]
    BY <1>0, <2>2
  <2>5. QED
    BY <1>4, <2>2, <2>3, <2>4 DEF Copies
<1>5. CASE Enqueue(c)
  <2>1. NewCopy(c) = [msg |-> job[c].msg, id |-> next_message_id]
        /\ NewCopy(c) \in Stored /\ job[c].to \in Slots
    BY <1>5, NewCopyType DEF Enqueue, NewCopy
  <2>2. queue' = [queue EXCEPT ![job[c].to] = Append(queue[job[c].to], NewCopy(c))]
        /\ took' = took
    BY <1>5, <2>1 DEF Enqueue
  <2>3. Range(Append(queue[job[c].to], NewCopy(c))) = Range(queue[job[c].to]) \cup {NewCopy(c)}
    BY <1>0, <2>1, AppendRange
  <2>4. \A d \in Slots : queue'[d] = IF d = job[c].to
                                     THEN Append(queue[job[c].to], NewCopy(c)) ELSE queue[d]
    BY <1>0, <2>2
  <2>5. QED
    BY <1>5, <2>2, <2>3, <2>4 DEF Copies
<1>6. QED
  BY <1>1, <1>2, <1>3, <1>4, <1>5
     DEF Request, Proceed, GetMessages, Login, Number, Locate, SendFails, NoMemory,
         FindQueue, EnqueueFails, Acknowledge

\* The same of everything held.
LEMMA HoldingStep ==
  ASSUME TypeOK, JobInv, NEW c \in Slots, Request(c) \/ Proceed(c)
  PROVE  \/ Holding' \subseteq Holding
         \/ /\ SendDirect(c) \/ Enqueue(c)
            /\ Holding' \subseteq Holding \cup {NewCopy(c)}
BY CopiesStep DEF Holding

LEMMA CopyInvStep ==
  ASSUME TypeOK, JobInv, CopyInv, NEW c \in Slots, Request(c) \/ Proceed(c)
  PROVE  CopyInv'
<1> USE DEF Goto
<1>0. /\ pc \in [Slots -> Label] /\ job \in [Slots -> Job]
      /\ ack \in [Msgs -> [id : Nat, status : {-1, 0, 1, 2}]]
  BY DEF TypeOK, Label, Job
<1>1. CASE SendDirect(c) \/ Enqueue(c)
  <2>1. /\ pc[c] \in {"sending", "found"} /\ pc'[c] = "acking" /\ ack' = ack
        /\ \A d \in Slots : job'[d].msg = job[d].msg
        /\ \A d \in Slots \ {c} : pc'[d] = pc[d]
    <3>1. CASE SendDirect(c)
      BY <1>0, <3>1 DEF SendDirect, Job
    <3>2. CASE Enqueue(c)
      BY <1>0, <3>2 DEF Enqueue
    <3>3. QED
      BY <1>1, <3>1, <3>2
  <2>2. \A m \in Msgs \ {job[c].msg} : Copied(m)' => Copied(m)
    BY <2>1, HoldingStep DEF Copied, NewCopy
  <2>3. \A d \in Slots \ {c} :
          pc[d] \in Relaying => job[d].msg \in Msgs \ {job[c].msg}
    BY <2>1, NoneIsNothing DEF JobInv, Relaying
  <2>4. QED
    BY <2>1, <2>2, <2>3 DEF CopyInv, Relaying
<1>2. CASE ~(SendDirect(c) \/ Enqueue(c))
  <2>1. \A m : Copied(m)' => Copied(m)
    BY <1>2, HoldingStep DEF Copied
  <2>2. CASE Acknowledge(c)
    <3>1. /\ pc[c] = "acking" /\ pc'[c] = "loop"
          /\ job[c].msg \in Msgs /\ job[c].id # 0
          /\ ack' = [ack EXCEPT ![job[c].msg] = [id |-> job[c].id, status |-> job[c].status]]
          /\ \A d \in Slots \ {c} : job'[d] = job[d] /\ pc'[d] = pc[d]
      BY <1>0, <2>2 DEF Acknowledge, JobInv, Relaying
    <3>2. ack'[job[c].msg] # NoAck /\ \A m \in Msgs \ {job[c].msg} : ack'[m] = ack[m]
      BY <1>0, <3>1 DEF NoAck
    <3>3. QED
      BY <2>1, <3>1, <3>2 DEF CopyInv
  <2>3. CASE \E m \in Msgs : Number(c, m)
    <3>1. PICK m \in Msgs : Number(c, m)
      BY <2>3
    <3>2. /\ ack' = ack /\ ack[m] = NoAck /\ \A d \in Slots : job[d].msg # m
          /\ job'[c].msg = m /\ pc[c] = "loop" /\ pc'[c] = "numbered"
          /\ \A d \in Slots \ {c} : job'[d] = job[d] /\ pc'[d] = pc[d]
      BY <1>0, <3>1 DEF Number, NoJob
    <3>3. job[c] = NoJob
      BY <3>2 DEF JobInv, Relaying
    <3>4. job[c].msg \notin Msgs
      BY <3>3, NoneIsNothing DEF NoJob
    <3>5. QED
      BY <2>1, <3>2, <3>4 DEF CopyInv
  <2>4. CASE \/ GetMessages(c) \/ Leave(c) \/ Deliver(c) \/ SendFails(c) \/ EnqueueFails(c)
             \/ \E u \in Users : Login(c, u)
    <3>1. /\ job' = job /\ ack' = ack
          /\ pc'[c] \in {"numbered", "sending", "queueing", "found"} => pc[c] = "sending"
          /\ \A d \in Slots \ {c} : pc'[d] = pc[d]
      BY <1>0, <2>4 DEF GetMessages, Leave, Deliver, SendFails, EnqueueFails, Login
    <3>2. QED
      BY <2>1, <3>1 DEF CopyInv
  <2>5. CASE Locate(c) \/ NoMemory(c) \/ FindQueue(c)
    <3>1. /\ ack' = ack
          /\ pc[c] \in {"numbered", "sending", "queueing"}
          /\ \A d \in Slots : job'[d].msg = job[d].msg
          /\ \A d \in Slots \ {c} : pc'[d] = pc[d]
      BY <1>0, <2>5 DEF Locate, NoMemory, FindQueue, Job
    <3>2. QED
      BY <2>1, <3>1 DEF CopyInv
  <2>6. QED
    BY <1>2, <2>2, <2>3, <2>4, <2>5 DEF Request, Proceed
<1>3. QED
  BY <1>1, <1>2

-----------------------------------------------------------------------------
(* Identifiers.                                                            *)

LEMMA InUseType == TypeOK => \A x \in InUse : x.id \in Nat
<1> SUFFICES ASSUME TypeOK, NEW x \in InUse PROVE x.id \in Nat
  OBVIOUS
<1>1. CASE x \in Holding
  <2>1. PICK c \in Slots : x \in Range(queue[c]) \/ x \in Range(took[c])
    BY <1>1 DEF Holding, Copies
  <2>2. Range(queue[c]) \in SUBSET Stored
    BY RangeOfSeq DEF TypeOK
  <2>3. Range(took[c]) \in SUBSET Stored
    BY RangeOfSeq DEF TypeOK
  <2>4. QED
    BY <2>1, <2>2, <2>3 DEF Stored
<1>2. CASE x \in Answered
  BY <1>2 DEF Answered, TypeOK
<1>3. CASE x \in UnderWay
  BY <1>3 DEF UnderWay, TypeOK
<1>4. QED
  BY <1>1, <1>2, <1>3 DEF InUse

\* No id comes into use: the counter may only have grown.
LEMMA IdsKept ==
  ASSUME TypeOK, IdsIssued, IdsDistinct,
         next_message_id' \in Nat, next_message_id' >= next_message_id,
         InUse' \subseteq InUse
  PROVE  IdsIssued' /\ IdsDistinct'
<1>1. IdsIssued'
  BY InUseType DEF IdsIssued, TypeOK
<1>2. QED
  BY <1>1 DEF IdsDistinct, InUse

\* The id the counter stood at comes into use.
LEMMA IdsTaken ==
  ASSUME TypeOK, IdsIssued, IdsDistinct, NEW x, x.id = next_message_id,
         next_message_id' = next_message_id + 1, InUse' \subseteq InUse \cup {x}
  PROVE  IdsIssued' /\ IdsDistinct'
<1>1. \A y \in InUse : y.id \in Nat /\ y.id < next_message_id /\ y.id # next_message_id
  BY InUseType DEF IdsIssued, TypeOK
<1>2. IdsIssued'
  <2>1. \A y \in InUse \cup {x} : y.id < next_message_id + 1
    BY <1>1 DEF TypeOK
  <2>2. QED
    BY <2>1 DEF IdsIssued
<1>3. \A y, z \in InUse' : y.id = z.id => y.msg = z.msg
  BY <1>1 DEF IdsDistinct, InUse
<1>4. QED
  BY <1>2, <1>3 DEF IdsDistinct, InUse

LEMMA UnderWayStep ==
  ASSUME TypeOK, JobInv, NEW c \in Slots, Proceed(c)
  PROVE  UnderWay' \subseteq UnderWay
<1>0. job \in [Slots -> Job]
  BY DEF TypeOK, Job
<1>1. CASE job' = job
  BY <1>1 DEF UnderWay
<1>2. CASE Locate(c) \/ SendDirect(c) \/ NoMemory(c) \/ FindQueue(c)
  <2>1. \A d \in Slots : job'[d].msg = job[d].msg /\ job'[d].id = job[d].id
    <3>1. CASE Locate(c) \/ FindQueue(c)
      BY <1>0, <3>1 DEF Locate, FindQueue, Job
    <3>2. CASE SendDirect(c) \/ NoMemory(c)
      BY <1>0, <3>2 DEF SendDirect, NoMemory, Job
    <3>3. QED
      BY <1>2, <3>1, <3>2
  <2>2. job[c].id # 0
    BY <1>2 DEF Locate, SendDirect, NoMemory, FindQueue, JobInv, Relaying
  <2>3. \A d \in Slots : job'[d] # NoJob => job[d] # NoJob
    <3>1. job[c] # NoJob
      BY <2>2 DEF NoJob
    <3>2. \A d \in Slots \ {c} : job'[d] = job[d]
      BY <1>0, <1>2 DEF Locate, SendDirect, NoMemory, FindQueue
    <3>3. QED
      BY <3>1, <3>2
  <2>4. QED
    BY <2>1, <2>3 DEF UnderWay
<1>3. CASE Acknowledge(c)
  <2>1. job'[c] = NoJob /\ \A d \in Slots \ {c} : job'[d] = job[d]
    BY <1>0, <1>3 DEF Acknowledge
  <2>2. QED
    BY <2>1 DEF UnderWay
<1>4. QED
  BY <1>1, <1>2, <1>3 DEF Proceed, Deliver, SendFails, Enqueue, EnqueueFails

LEMMA IdsStep ==
  ASSUME TypeOK, JobInv, IdsIssued, IdsDistinct,
         NEW c \in Slots, Request(c) \/ Proceed(c)
  PROVE  IdsIssued' /\ IdsDistinct'
<1>0. next_message_id \in Nat /\ job \in [Slots -> Job]
      /\ ack \in [Msgs -> [id : Nat, status : {-1, 0, 1, 2}]]
  BY DEF TypeOK, Job
<1>1. ASSUME NEW m \in Msgs, Number(c, m) PROVE IdsIssued' /\ IdsDistinct'
  <2> DEFINE new == [NoJob EXCEPT !.msg = m, !.id = next_message_id]
  <2>1. [msg |-> new.msg, id |-> new.id] = [msg |-> m, id |-> next_message_id]
    BY DEF NoJob
  <2> HIDE DEF new
  <2>2. job' = [job EXCEPT ![c] = new] /\ ack' = ack
        /\ queue' = queue /\ took' = took
        /\ next_message_id' = next_message_id + 1
    BY <1>1 DEF Number, new
  <2>3. \A d \in Slots : job'[d] = IF d = c THEN new ELSE job[d]
    BY <1>0, <2>2
  <2>4. UnderWay' \subseteq UnderWay \cup {[msg |-> m, id |-> next_message_id]}
    BY <2>1, <2>3 DEF UnderWay
  <2>5. Holding' = Holding /\ Answered' = Answered
    BY <2>2 DEF Holding, Copies, Answered
  <2>6. InUse' \subseteq InUse \cup {[msg |-> m, id |-> next_message_id]}
    BY <2>4, <2>5 DEF InUse
  <2>7. [msg |-> m, id |-> next_message_id].id = next_message_id
    OBVIOUS
  <2>8. QED
    BY <2>2, <2>6, <2>7, IdsTaken
<1>2. CASE GetMessages(c) \/ Leave(c) \/ \E u \in Users : Login(c, u)
  <2>1. job' = job /\ ack' = ack /\ next_message_id' = next_message_id
        /\ pc[c] = "loop"
    BY <1>2 DEF GetMessages, Leave, Login
  <2>2. Holding' \subseteq Holding
    BY <2>1, HoldingStep DEF SendDirect, Enqueue
  <2>3. Answered' = Answered /\ UnderWay' = UnderWay
    BY <2>1 DEF Answered, UnderWay
  <2>4. QED
    BY <1>0, <2>1, <2>2, <2>3, IdsKept DEF InUse
<1>3. CASE Enqueue(c)
  <2>1. Holding' \subseteq Holding \cup {NewCopy(c)}
    BY <1>3, HoldingStep
  <2>2. NewCopy(c).id = next_message_id /\ ack' = ack
        /\ next_message_id' = next_message_id + 1
    BY <1>3 DEF Enqueue, NewCopy
  <2>3. Answered' = Answered /\ UnderWay' \subseteq UnderWay
    BY <1>3, <2>2, UnderWayStep DEF Answered, Proceed
  <2>4. QED
    BY <2>1, <2>2, <2>3, IdsTaken DEF InUse
<1>4. CASE SendDirect(c)
  <2>1. Holding' \subseteq Holding \cup {NewCopy(c)}
    BY <1>4, HoldingStep
  <2>2. NewCopy(c) = [msg |-> job[c].msg, id |-> job[c].id] /\ ack' = ack
        /\ next_message_id' = next_message_id
    BY <1>4 DEF SendDirect, NewCopy
  <2>3. job[c] # NoJob
    BY <1>4 DEF SendDirect, JobInv, Relaying, NoJob
  <2>4. NewCopy(c) \in UnderWay
    BY <2>2, <2>3 DEF UnderWay
  <2>5. Answered' = Answered /\ UnderWay' \subseteq UnderWay
    BY <1>4, <2>2, UnderWayStep DEF Answered, Proceed
  <2>6. QED
    BY <1>0, <2>1, <2>2, <2>4, <2>5, IdsKept DEF InUse
<1>5. CASE Acknowledge(c)
  <2>1. Holding' = Holding /\ next_message_id' = next_message_id
    BY <1>5 DEF Acknowledge, Holding, Copies
  <2>2. job[c] # NoJob /\ job[c].msg \in Msgs
    BY <1>5 DEF Acknowledge, JobInv, Relaying, NoJob
  <2>3. \A m \in Msgs : ack'[m] = IF m = job[c].msg
                                  THEN [id |-> job[c].id, status |-> job[c].status]
                                  ELSE ack[m]
    BY <1>0, <1>5, <2>2 DEF Acknowledge
  <2>4. [msg |-> job[c].msg, id |-> job[c].id] \in UnderWay
    BY <2>2 DEF UnderWay
  <2>5. Answered' \subseteq Answered \cup {[msg |-> job[c].msg, id |-> job[c].id]}
    BY <2>3 DEF Answered
  <2>6. UnderWay' \subseteq UnderWay
    BY <1>5, UnderWayStep DEF Proceed
  <2>7. QED
    BY <1>0, <2>1, <2>4, <2>5, <2>6, IdsKept DEF InUse
<1>6. CASE \/ Deliver(c) \/ Locate(c) \/ SendFails(c) \/ NoMemory(c)
           \/ FindQueue(c) \/ EnqueueFails(c)
  <2>1. /\ ack' = ack /\ next_message_id' \in {next_message_id, next_message_id + 1}
        /\ ~(SendDirect(c) \/ Enqueue(c)) \/ Holding' = Holding
    BY <1>6 DEF Deliver, Locate, SendFails, NoMemory, FindQueue, EnqueueFails,
                SendDirect, Enqueue, Holding, Copies
  <2>2. Holding' \subseteq Holding
    BY <2>1, HoldingStep
  <2>3. Answered' = Answered
    BY <2>1 DEF Answered
  <2>4. UnderWay' \subseteq UnderWay
    <3>1. Proceed(c)
      BY <1>6 DEF Proceed
    <3>2. QED
      BY <3>1, UnderWayStep
  <2>5. InUse' \subseteq InUse
    BY <2>2, <2>3, <2>4 DEF InUse
  <2>6. next_message_id' \in Nat /\ next_message_id' >= next_message_id
    BY <1>0, <2>1
  <2>7. QED
    BY <2>5, <2>6, IdsKept
<1>7. QED
  BY <1>1, <1>2, <1>3, <1>4, <1>5, <1>6 DEF Request, Proceed

-----------------------------------------------------------------------------
(* Who gets a copy, and what is said of it.                                *)

LEMMA AddresseesStep ==
  ASSUME TypeOK, JobInv, AddresseesOnly, NEW c \in Slots, Request(c) \/ Proceed(c)
  PROVE  AddresseesOnly'
<1>1. \A d \in Slots : was[d] \subseteq was'[d]
  <2>1. ASSUME NEW u \in Users, Login(c, u) PROVE \A d \in Slots : was[d] \subseteq was'[d]
    BY <2>1 DEF TypeOK, Login
  <2>2. was' = was \/ \E u \in Users : Login(c, u)
    BY DEF Request, Proceed, GetMessages, Leave, Number, Deliver, Locate, SendDirect,
           SendFails, NoMemory, FindQueue, Enqueue, EnqueueFails, Acknowledge
  <2>3. QED
    BY <2>1, <2>2
<1>2. CASE \A d \in Slots : Copies(d)' \subseteq Copies(d)
  BY <1>1, <1>2 DEF AddresseesOnly
<1>3. CASE /\ SendDirect(c) \/ Enqueue(c)
           /\ \A d \in Slots :
                Copies(d)' \subseteq
                  Copies(d) \cup (IF d = job[c].to THEN {NewCopy(c)} ELSE {})
  <2>1. To[NewCopy(c).msg] \in was[job[c].to]
    BY <1>3 DEF SendDirect, Enqueue, JobInv, NewCopy
  <2>2. QED
    BY <1>1, <1>3, <2>1 DEF AddresseesOnly
<1>4. QED
  BY <1>2, <1>3, CopiesStep

\* A direct delivery is one: the socket has the message under its id.
LEMMA SendDirectTakes ==
  ASSUME TypeOK, JobInv, NEW c \in Slots, SendDirect(c)
  PROVE  [msg |-> job[c].msg, id |-> job[c].id] \in Range(took'[job[c].to])
<1> DEFINE x == [msg |-> job[c].msg, id |-> job[c].id]
<1>1. x \in Stored /\ job[c].to \in Slots /\ took[job[c].to] \in Seq(Stored)
  BY NewCopyType DEF SendDirect, NewCopy, TypeOK
<1>2. took'[job[c].to] = Append(took[job[c].to], x)
  BY <1>1 DEF SendDirect, TypeOK
<1> HIDE DEF x
<1>3. Range(Append(took[job[c].to], x)) = Range(took[job[c].to]) \cup {x}
  BY <1>1, AppendRange
<1>4. x \in Range(took'[job[c].to])
  BY <1>2, <1>3
<1>5. QED
  BY <1>4 DEF x

\* No copy of another handler's message, or of an answered one, is made.
LEMMA CopiedKept ==
  ASSUME TypeOK, JobInv, NEW c \in Slots, Request(c) \/ Proceed(c),
         NEW m, pc[c] \in {"sending", "found"} => job[c].msg # m,
         \A x \in Holding : x.msg # m
  PROVE  \A x \in Holding' : x.msg # m
<1>1. CASE SendDirect(c) \/ Enqueue(c)
  <2>1. pc[c] \in {"sending", "found"}
    BY <1>1 DEF SendDirect, Enqueue
  <2>2. NewCopy(c).msg # m
    BY <2>1 DEF NewCopy
  <2>3. QED
    BY <2>2, HoldingStep
<1>2. CASE Holding' \subseteq Holding
  BY <1>2
<1>3. QED
  BY <1>1, <1>2, HoldingStep

LEMMA JobTruthfulStep ==
  ASSUME TypeOK, JobInv, CopyInv, JobTruthful, NEW c \in Slots, Request(c) \/ Proceed(c)
  PROVE  JobTruthful'
<1> USE DEF Goto
<1>0. pc \in [Slots -> Label] /\ job \in [Slots -> Job]
  BY DEF TypeOK, Label, Job
<1>1. \A d \in Slots : Range(took[d]) \subseteq Range(took'[d])
  BY CopiesStep
<1> SUFFICES ASSUME NEW e \in Slots, pc'[e] = "acking"
             PROVE  /\ job'[e].status = Delivered =>
                         \E d \in Slots : [msg |-> job'[e].msg, id |-> job'[e].id]
                                            \in Range(took'[d])
                    /\ job'[e].status = Failed =>
                         \A x \in Holding' : x.msg # job'[e].msg
  BY DEF JobTruthful, Copied
<1>2. CASE e # c
  <2>1. pc[e] = "acking" /\ job'[e] = job[e]
    <3>1. CASE Request(c)
      BY <1>0, <1>2, <3>1 DEF Request, GetMessages, Leave, Login, Number
    <3>2. CASE Proceed(c)
      BY <1>0, <1>2, <3>2
         DEF Proceed, Deliver, Locate, SendDirect, SendFails, NoMemory, FindQueue, Enqueue,
             EnqueueFails, Acknowledge
    <3>3. QED
      BY <3>1, <3>2
  <2>2. job[e].msg \in Msgs /\ job[c].msg # job[e].msg
    BY <1>2, <2>1, NoneIsNothing DEF JobInv, Relaying
  <2>3. job[e].status = Failed => \A x \in Holding' : x.msg # job[e].msg
    <3>1. job[e].status = Failed => \A x \in Holding : x.msg # job[e].msg
      BY <2>1 DEF JobTruthful, Copied
    <3>2. QED
      BY <2>2, <3>1, CopiedKept
  <2>4. QED
    BY <1>1, <2>1, <2>3 DEF JobTruthful
<1>3. CASE e = c /\ SendDirect(c)
  <2>1. job[c].to \in Slots /\ job'[c].msg = job[c].msg /\ job'[c].id = job[c].id
        /\ job'[c].status = Delivered
    BY <1>0, <1>3, NewCopyType DEF SendDirect, Job
  <2>2. QED
    BY <1>3, <2>1, SendDirectTakes DEF Delivered, Failed
<1>4. CASE e = c /\ NoMemory(c)
  <2>1. /\ pc[c] = "sending" /\ job'[c].status = Failed /\ job'[c].msg = job[c].msg
        /\ queue' = queue /\ took' = took
    BY <1>0, <1>4 DEF NoMemory, Job
  <2>2. \A x \in Holding : x.msg # job[c].msg
    BY <2>1 DEF CopyInv, Copied
  <2>3. Holding' = Holding
    BY <2>1 DEF Holding, Copies
  <2>4. QED
    BY <1>4, <2>1, <2>2, <2>3 DEF Delivered, Failed
<1>5. CASE e = c /\ (FindQueue(c) \/ Enqueue(c) \/ EnqueueFails(c))
  <2>1. job'[c].status = Queued
    <3>1. CASE FindQueue(c)
      BY <1>0, <3>1 DEF FindQueue, Job
    <3>2. CASE Enqueue(c) \/ EnqueueFails(c)
      BY <3>2 DEF Enqueue, EnqueueFails, JobInv
    <3>3. QED
      BY <1>5, <3>1, <3>2
  <2>2. QED
    BY <1>5, <2>1 DEF Queued, Delivered, Failed
<1>6. CASE e = c
  <2>1. ASSUME \/ GetMessages(c) \/ Leave(c) \/ Deliver(c) \/ Locate(c) \/ SendFails(c)
               \/ Acknowledge(c)
               \/ \E u \in Users : Login(c, u)
               \/ \E m \in Msgs : Number(c, m)
        PROVE  FALSE
    BY <1>0, <1>6, <2>1
       DEF GetMessages, Leave, Login, Number, Deliver, Locate, SendFails, Acknowledge
  <2>2. QED
    BY <1>3, <1>4, <1>5, <1>6, <2>1 DEF Request, Proceed
<1>7. QED
  BY <1>2, <1>6

LEMMA AckTruthfulStep ==
  ASSUME TypeOK, JobInv, JobTruthful, AckTruthful,
         NEW c \in Slots, Request(c) \/ Proceed(c)
  PROVE  AckTruthful'
<1>0. ack \in [Msgs -> [id : Nat, status : {-1, 0, 1, 2}]]
  BY DEF TypeOK
<1>1. \A d \in Slots : Range(took[d]) \subseteq Range(took'[d])
  BY CopiesStep
<1> SUFFICES ASSUME NEW m \in Msgs
             PROVE  /\ ack'[m].status = Delivered =>
                         \E d \in Slots : [msg |-> m, id |-> ack'[m].id] \in Range(took'[d])
                    /\ ack'[m].status = Failed => \A x \in Holding' : x.msg # m
  BY DEF AckTruthful
<1>2. CASE ack'[m] = ack[m]
  <2>1. ack[m].status = Failed => \A x \in Holding : x.msg # m
    BY DEF AckTruthful
  <2>2. ack[m].status = Failed => ack[m] # NoAck
    BY DEF NoAck, Failed
  <2>3. ack[m].status = Failed /\ pc[c] \in {"sending", "found"} => job[c].msg # m
    BY <2>2 DEF JobInv, Relaying
  <2>4. ack[m].status = Failed => \A x \in Holding' : x.msg # m
    BY <2>1, <2>3, CopiedKept
  <2>5. QED
    BY <1>1, <1>2, <2>4 DEF AckTruthful
<1>3. CASE Acknowledge(c) /\ m = job[c].msg
  <2>1. /\ pc[c] = "acking" /\ queue' = queue /\ took' = took
        /\ ack'[m] = [id |-> job[c].id, status |-> job[c].status]
    BY <1>0, <1>3 DEF Acknowledge
  <2>2. job[c].status = Failed => \A x \in Holding' : x.msg # m
    BY <1>3, <2>1 DEF JobTruthful, Copied, Holding, Copies
  <2>3. QED
    BY <1>3, <2>1, <2>2 DEF JobTruthful
<1>4. ack' = ack \/ Acknowledge(c)
  BY DEF Request, Proceed, GetMessages, Leave, Login, Number, Deliver, Locate, SendDirect,
         SendFails, NoMemory, FindQueue, Enqueue, EnqueueFails
<1>5. QED
  BY <1>0, <1>2, <1>3, <1>4 DEF Acknowledge

-----------------------------------------------------------------------------
(* At most once: the copies of a connection, as one sequence.              *)

Once(C) ==
  \A c, d \in Slots : \A i \in DOMAIN C[c], j \in DOMAIN C[d] :
    C[c][i].msg = C[d][j].msg => c = d /\ i = j

Line == [c \in Slots |-> took[c] \o queue[c]]

LEMMA OnceKept ==
  ASSUME NEW C, NEW D, Once(C),
         \A c \in Slots : \A i \in DOMAIN D[c] : i \in DOMAIN C[c] /\ D[c][i] = C[c][i]
  PROVE  Once(D)
BY DEF Once

\* s with x put in somewhere.
Inserted(s, new, x) ==
  \E n \in Nat, k \in Nat :
    /\ k \in 1 .. n + 1
    /\ DOMAIN s = 1 .. n /\ DOMAIN new = 1 .. n + 1
    /\ new[k] = x
    /\ \A i \in 1 .. n + 1 : i < k => new[i] = s[i]
    /\ \A i \in 1 .. n + 1 : i > k => new[i] = s[i - 1]

\* A copy of a message that has none joins the line of one connection.
LEMMA OnceInserted ==
  ASSUME NEW C, NEW D, Once(C), NEW t \in Slots, NEW x, Inserted(C[t], D[t], x),
         \A c \in Slots \ {t} : D[c] = C[c],
         \A c \in Slots : \A i \in DOMAIN C[c] : C[c][i].msg # x.msg
  PROVE  Once(D)
<1>0. PICK n \in Nat, k \in Nat :
        /\ k \in 1 .. n + 1
        /\ DOMAIN C[t] = 1 .. n /\ DOMAIN D[t] = 1 .. n + 1
        /\ D[t][k] = x
        /\ \A i \in 1 .. n + 1 : i < k => D[t][i] = C[t][i]
        /\ \A i \in 1 .. n + 1 : i > k => D[t][i] = C[t][i - 1]
  BY DEF Inserted
<1> DEFINE Was(i) == IF i < k THEN i ELSE i - 1
<1>1. ASSUME NEW i \in 1 .. n + 1, i # k
      PROVE  Was(i) \in DOMAIN C[t] /\ D[t][i] = C[t][Was(i)]
  BY <1>0, <1>1
<1>2. ASSUME NEW i \in 1 .. n + 1, NEW j \in 1 .. n + 1, i # k, j # k, Was(i) = Was(j)
      PROVE  i = j
  BY <1>2
<1> HIDE DEF Was
<1> SUFFICES ASSUME NEW c \in Slots, NEW d \in Slots,
                    NEW i \in DOMAIN D[c], NEW j \in DOMAIN D[d],
                    D[c][i].msg = D[d][j].msg
             PROVE  c = d /\ i = j
  BY DEF Once
<1>3. CASE c # t /\ d # t
  BY <1>3 DEF Once
<1>4. CASE c = t /\ d # t
  <2>1. i = k => FALSE
    BY <1>0, <1>4
  <2>2. i # k => Was(i) \in DOMAIN C[t] /\ C[t][Was(i)].msg = C[d][j].msg
    BY <1>0, <1>1, <1>4
  <2>3. QED
    BY <1>4, <2>1, <2>2 DEF Once
<1>5. CASE c # t /\ d = t
  <2>1. j = k => FALSE
    BY <1>0, <1>5
  <2>2. j # k => Was(j) \in DOMAIN C[t] /\ C[t][Was(j)].msg = C[c][i].msg
    BY <1>0, <1>1, <1>5
  <2>3. QED
    BY <1>5, <2>1, <2>2 DEF Once
<1>6. CASE c = t /\ d = t
  <2>1. CASE i = k \/ j = k
    <3>1. i # k => Was(i) \in DOMAIN C[t] /\ D[t][i].msg = C[t][Was(i)].msg
      BY <1>0, <1>1, <1>6
    <3>2. j # k => Was(j) \in DOMAIN C[t] /\ D[t][j].msg = C[t][Was(j)].msg
      BY <1>0, <1>1, <1>6
    <3>3. \A l \in DOMAIN C[t] : C[t][l].msg # D[t][k].msg
      BY <1>0
    <3>4. D[t][i].msg = D[t][j].msg
      BY <1>6
    <3>5. QED
      BY <1>6, <2>1, <3>1, <3>2, <3>3, <3>4
  <2>2. CASE i # k /\ j # k
    <3>1. Was(i) \in DOMAIN C[t] /\ Was(j) \in DOMAIN C[t]
          /\ C[t][Was(i)].msg = C[t][Was(j)].msg
      BY <1>0, <1>1, <1>6, <2>2
    <3>2. Was(i) = Was(j)
      BY <3>1 DEF Once
    <3>3. QED
      BY <1>0, <1>2, <1>6, <2>2, <3>2
  <2>3. QED
    BY <2>1, <2>2
<1>7. QED
  BY <1>3, <1>4, <1>5, <1>6

LEMMA OnceIsAtMostOnce == AtMostOnce <=> Once(Line)
BY DEF AtMostOnce, Once, Line

LEMMA ConcatFacts ==
  ASSUME NEW p \in Seq(Stored), NEW q \in Seq(Stored)
  PROVE  /\ Len(p) \in Nat /\ Len(q) \in Nat /\ DOMAIN p = 1 .. Len(p)
         /\ DOMAIN (p \o q) = 1 .. Len(p) + Len(q)
         /\ \A i \in 1 .. Len(p) + Len(q) :
              (p \o q)[i] = IF i <= Len(p) THEN p[i] ELSE q[i - Len(p)]
         /\ Range(p \o q) = Range(p) \cup Range(q)
<1>1. /\ p \o q \in Seq(Stored)
      /\ Len(p \o q) = Len(p) + Len(q)
      /\ \A i \in 1 .. Len(p) + Len(q) :
           (p \o q)[i] = IF i <= Len(p) THEN p[i] ELSE q[i - Len(p)]
  BY ConcatProperties
<1>2. DOMAIN (p \o q) = 1 .. Len(p \o q)
  BY <1>1
<1>3. Range(p \o q) = Range(p) \cup Range(q)
  BY RangeConcatenation
<1>4. QED
  BY <1>1, <1>2, <1>3

LEMMA ConcatThree ==
  ASSUME NEW p \in Seq(Stored), NEW q \in Seq(Stored), NEW r \in Seq(Stored)
  PROVE  (p \o q) \o r = p \o (q \o r)
BY ConcatAssociative

LEMMA ConcatKeeps ==
  ASSUME NEW p \in Seq(Stored), NEW q \in Seq(Stored), NEW i \in DOMAIN p
  PROVE  i \in DOMAIN (p \o q) /\ (p \o q)[i] = p[i]
BY ConcatFacts

LEMMA InsertFirst ==
  ASSUME NEW p \in Seq(Stored), NEW q \in Seq(Stored), NEW x \in Stored
  PROVE  Inserted(p \o q, Append(p, x) \o q, x)
<1> DEFINE r == Append(p, x)
<1>1. /\ r \in Seq(Stored) /\ Len(r) = Len(p) + 1
      /\ \A i \in 1 .. Len(p) : r[i] = p[i]
      /\ r[Len(p) + 1] = x
  BY AppendProperties
<1> HIDE DEF r
<1> DEFINE s == p \o q
           new == r \o q
           n == Len(p) + Len(q)
           k == Len(p) + 1
<1>2. n \in Nat /\ k \in Nat /\ k \in 1 .. n + 1
  OBVIOUS
<1>3. /\ DOMAIN s = 1 .. n
      /\ \A i \in 1 .. n : s[i] = IF i <= Len(p) THEN p[i] ELSE q[i - Len(p)]
  BY ConcatFacts
<1>4. /\ DOMAIN new = 1 .. Len(r) + Len(q)
      /\ \A i \in 1 .. Len(r) + Len(q) :
           new[i] = IF i <= Len(r) THEN r[i] ELSE q[i - Len(r)]
  BY <1>1, ConcatFacts
<1> HIDE DEF s, new
<1>5. DOMAIN new = 1 .. n + 1 /\ new[k] = x
  BY <1>1, <1>2, <1>4
<1>6. \A i \in 1 .. n + 1 : i < k => new[i] = s[i]
  BY <1>1, <1>2, <1>3, <1>4
<1>7. \A i \in 1 .. n + 1 : i > k => new[i] = s[i - 1]
  BY <1>1, <1>2, <1>3, <1>4
<1> HIDE DEF n, k
<1>8. Inserted(s, new, x)
  BY <1>2, <1>3, <1>5, <1>6, <1>7 DEF Inserted
<1>9. QED
  BY <1>8 DEF s, new, r

LEMMA InsertLast ==
  ASSUME NEW p \in Seq(Stored), NEW q \in Seq(Stored), NEW x \in Stored
  PROVE  Inserted(p \o q, p \o Append(q, x), x)
<1> DEFINE r == Append(q, x)
<1>1. /\ r \in Seq(Stored) /\ Len(r) = Len(q) + 1
      /\ \A i \in 1 .. Len(q) : r[i] = q[i]
      /\ r[Len(q) + 1] = x
  BY AppendProperties
<1> HIDE DEF r
<1> DEFINE s == p \o q
           new == p \o r
           n == Len(p) + Len(q)
           k == n + 1
<1>2. n \in Nat /\ k \in Nat /\ k \in 1 .. n + 1
  OBVIOUS
<1>3. /\ DOMAIN s = 1 .. n
      /\ \A i \in 1 .. n : s[i] = IF i <= Len(p) THEN p[i] ELSE q[i - Len(p)]
  BY ConcatFacts
<1>4. /\ DOMAIN new = 1 .. Len(p) + Len(r)
      /\ \A i \in 1 .. Len(p) + Len(r) :
           new[i] = IF i <= Len(p) THEN p[i] ELSE r[i - Len(p)]
  BY <1>1, ConcatFacts
<1> HIDE DEF s, new
<1>5. DOMAIN new = 1 .. n + 1 /\ new[k] = x
  BY <1>1, <1>2, <1>4
<1>6. ASSUME NEW i \in 1 .. n + 1, i < k PROVE new[i] = s[i]
  <2>1. CASE i <= Len(p)
    BY <1>1, <1>3, <1>4, <1>6, <2>1
  <2>2. CASE i > Len(p)
    <3>1. i - Len(p) \in 1 .. Len(q) /\ i \in 1 .. n /\ ~(i <= Len(p))
      BY <1>6, <2>2
    <3>2. new[i] = r[i - Len(p)] /\ s[i] = q[i - Len(p)]
      BY <1>1, <1>3, <1>4, <3>1
    <3>3. QED
      BY <1>1, <3>1, <3>2
  <2>3. QED
    BY <2>1, <2>2
<1>7. \A i \in 1 .. n + 1 : i > k => new[i] = s[i - 1]
  BY <1>2
<1> HIDE DEF n, k
<1>8. Inserted(s, new, x)
  BY <1>2, <1>3, <1>5, <1>6, <1>7 DEF Inserted
<1>9. QED
  BY <1>8 DEF s, new, r

LEMMA LineType ==
  ASSUME TypeOK, NEW c \in Slots
  PROVE  /\ took[c] \in Seq(Stored) /\ queue[c] \in Seq(Stored)
         /\ Line[c] = took[c] \o queue[c]
         /\ Range(Line[c]) = Copies(c)
<1>1. took[c] \in Seq(Stored) /\ queue[c] \in Seq(Stored) /\ Line[c] = took[c] \o queue[c]
  BY DEF TypeOK, Line
<1>2. Range(took[c] \o queue[c]) = Range(took[c]) \cup Range(queue[c])
  BY <1>1, ConcatFacts, Zenon
<1>3. QED
  BY <1>1, <1>2, Zenon DEF Copies

LEMMA UncopiedOffLine ==
  ASSUME TypeOK, NEW m, ~Copied(m)
  PROVE  \A c \in Slots : \A i \in DOMAIN Line[c] : Line[c][i].msg # m
<1> SUFFICES ASSUME NEW c \in Slots, NEW i \in DOMAIN Line[c] PROVE Line[c][i].msg # m
  OBVIOUS
<1>1. Line[c][i] \in Range(Line[c])
  BY DEF Range
<1>2. QED
  BY <1>1, LineType DEF Copied, Holding

LEMMA OnceStep ==
  ASSUME TypeOK, TypeOK', JobInv, CopyInv, AtMostOnce,
         NEW c \in Slots, Request(c) \/ Proceed(c)
  PROVE  AtMostOnce'
<1>0. Once(Line)
  BY OnceIsAtMostOnce
<1> SUFFICES Once(Line')
  BY DEF AtMostOnce, Once, Line
<1>1. CASE UNCHANGED <<queue, took>>
  <2>1. Line' = Line
    BY <1>1 DEF Line
  <2>2. QED
    BY <1>0, <2>1
<1>2. CASE Deliver(c)
  <2>1. PICK n \in 0 .. Len(queue[c]) :
          /\ took' = [took EXCEPT ![c] = took[c] \o SubSeq(queue[c], 1, n)]
          /\ queue' = [queue EXCEPT ![c] = SubSeq(queue[c], n + 1, Len(queue[c]))]
    BY <1>2 DEF Deliver
  <2> DEFINE p == SubSeq(queue[c], 1, n)
             q == SubSeq(queue[c], n + 1, Len(queue[c]))
  <2>2. p \in Seq(Stored) /\ q \in Seq(Stored) /\ p \o q = queue[c]
    BY SplitSeq DEF TypeOK
  <2>3. took'[c] = took[c] \o p /\ queue'[c] = q
        /\ \A d \in Slots \ {c} : took'[d] = took[d] /\ queue'[d] = queue[d]
    BY <2>1 DEF TypeOK
  <2> HIDE DEF p, q
  <2>4. (took[c] \o p) \o q = took[c] \o queue[c]
    <3>1. took[c] \in Seq(Stored)
      BY DEF TypeOK
    <3>2. (took[c] \o p) \o q = took[c] \o (p \o q)
      BY <2>2, <3>1, ConcatThree, Zenon
    <3>3. QED
      BY <2>2, <3>2
  <2>5. Line' = Line
    BY <2>3, <2>4 DEF Line
  <2>6. QED
    BY <1>0, <2>5
<1>3. CASE Leave(c)
  <2>1. took' = took /\ queue'[c] = <<>> /\ \A d \in Slots \ {c} : queue'[d] = queue[d]
    BY <1>3 DEF Leave, TypeOK
  <2>2. Line'[c] = took[c] \o <<>> /\ \A d \in Slots \ {c} : Line'[d] = Line[d]
    BY <2>1 DEF Line
  <2>3. took[c] \o <<>> = took[c]
    BY LineType, ConcatEmptySeq
  <2>4. took[c] \in Seq(Stored) /\ queue[c] \in Seq(Stored)
        /\ Line[c] = took[c] \o queue[c]
    BY LineType
  <2>5. ASSUME NEW i \in DOMAIN took[c]
        PROVE  i \in DOMAIN Line[c] /\ took[c][i] = Line[c][i]
    BY <2>4, ConcatKeeps, Zenon
  <2>6. \A d \in Slots : \A i \in DOMAIN Line'[d] :
          i \in DOMAIN Line[d] /\ Line'[d][i] = Line[d][i]
    BY <2>2, <2>3, <2>5
  <2>7. QED
    BY <1>0, <2>6, OnceKept
<1>4. CASE SendDirect(c) \/ Enqueue(c)
  <2> DEFINE t == job[c].to
             x == NewCopy(c)
  <2>1. t \in Slots /\ x \in Stored /\ ~Copied(job[c].msg)
    BY <1>4, NewCopyType DEF SendDirect, Enqueue, CopyInv
  <2>2. \/ took'[t] = Append(took[t], x) /\ queue'[t] = queue[t]
        \/ took'[t] = took[t] /\ queue'[t] = Append(queue[t], x)
    BY <1>4, <2>1 DEF SendDirect, Enqueue, NewCopy, TypeOK
  <2>3. \A d \in Slots \ {t} : Line'[d] = Line[d]
    BY <1>4 DEF SendDirect, Enqueue, Line, TypeOK
  <2>4. x.msg = job[c].msg
    BY DEF NewCopy
  <2>5. Line'[t] = took'[t] \o queue'[t]
    BY <2>1 DEF Line
  <2>6. took[t] \in Seq(Stored) /\ queue[t] \in Seq(Stored)
        /\ Line[t] = took[t] \o queue[t]
    BY <2>1, LineType
  <2> HIDE DEF t, x
  <2>7. Inserted(Line[t], Line'[t], x)
    <3>1. Inserted(took[t] \o queue[t], Append(took[t], x) \o queue[t], x)
      BY <2>1, <2>6, InsertFirst, Zenon
    <3>2. Inserted(took[t] \o queue[t], took[t] \o Append(queue[t], x), x)
      BY <2>1, <2>6, InsertLast, Zenon
    <3>3. QED
      BY <2>2, <2>5, <2>6, <3>1, <3>2, Zenon
  <2>8. \A d \in Slots : \A i \in DOMAIN Line[d] : Line[d][i].msg # x.msg
    BY <2>1, <2>4, UncopiedOffLine, Zenon
  <2>9. QED
    BY <1>0, <2>1, <2>3, <2>7, <2>8, OnceInserted
<1>5. QED
  BY <1>1, <1>2, <1>3, <1>4
     DEF Request, Proceed, GetMessages, Login, Number, Locate, SendFails, NoMemory,
         FindQueue, EnqueueFails, Acknowledge

-----------------------------------------------------------------------------

LEMMA InitIInv == Init => IInv
<1> SUFFICES ASSUME Init PROVE IInv
  OBVIOUS
<1>1. TypeOK
  BY InitTypes
<1>2. JobInv /\ WasInv
  BY DEF Init, JobInv, WasInv, Relaying, NoJob
<1>3. Range(<<>>) = {}
  BY DEF Range
<1>4. Holding = {}
  BY <1>3 DEF Init, Holding, Copies
<1>5. Answered = {} /\ UnderWay = {}
  BY DEF Init, Answered, UnderWay
<1>6. IdsIssued /\ IdsDistinct /\ CopyInv /\ AddresseesOnly
  BY <1>3, <1>4, <1>5 DEF Init, InUse, IdsIssued, IdsDistinct, CopyInv, Copied, Copies,
                          AddresseesOnly
<1>7. AtMostOnce
  <2>1. \A c \in Slots : Line[c] = <<>>
    BY DEF Init, Line
  <2>2. \A c \in Slots : DOMAIN Line[c] = {}
    BY <2>1
  <2>3. QED
    BY <2>2, OnceIsAtMostOnce DEF Once
<1>8. JobTruthful /\ AckTruthful
  BY DEF Init, JobTruthful, AckTruthful, NoAck, Delivered, Failed
<1>9. QED
  BY <1>1, <1>2, <1>6, <1>7, <1>8 DEF IInv

LEMMA NextIInv == IInv /\ [Next]_vars => IInv'
<1> SUFFICES ASSUME IInv, [Next]_vars PROVE IInv'
  OBVIOUS
<1> USE DEF IInv
<1>1. ASSUME NEW c \in Slots, Request(c) \/ Proceed(c) PROVE IInv'
  <2>1. TypeOK'
    BY <1>1, TypeStep
  <2>2. JobInv' /\ WasInv'
    BY <1>1, <2>1, JobInvStep, WasInvStep
  <2>3. IdsIssued' /\ IdsDistinct'
    BY <1>1, IdsStep
  <2>4. CopyInv' /\ AtMostOnce'
    BY <1>1, <2>1, CopyInvStep, OnceStep
  <2>5. AddresseesOnly' /\ JobTruthful' /\ AckTruthful'
    BY <1>1, AddresseesStep, JobTruthfulStep, AckTruthfulStep
  <2>6. QED
    BY <2>1, <2>2, <2>3, <2>4, <2>5
<1>2. CASE UNCHANGED vars
  <2>1. TypeOK' /\ JobInv' /\ WasInv'
    BY <1>2 DEF vars, TypeOK, JobInv, WasInv
  <2>2. IdsIssued' /\ IdsDistinct'
    BY <1>2 DEF vars, IdsIssued, IdsDistinct, InUse, Holding, Answered, UnderWay, Copies
  <2>3. CopyInv' /\ AddresseesOnly'
    BY <1>2 DEF vars, CopyInv, Copied, Holding, Copies, AddresseesOnly
  <2>4. AtMostOnce'
    <3>1. Line' = Line
      BY <1>2 DEF vars, Line
    <3>2. Once(Line')
      BY <3>1, OnceIsAtMostOnce
    <3>3. QED
      BY <3>2 DEF AtMostOnce, Once, Line
  <2>5. JobTruthful' /\ AckTruthful'
    BY <1>2 DEF vars, JobTruthful, AckTruthful, Copied, Holding, Copies
  <2>6. QED
    BY <2>1, <2>2, <2>3, <2>4, <2>5
<1>3. QED
  BY <1>1, <1>2 DEF Next

\* What every handler may rely on between two of its critical sections.
THEOREM Invariance == Spec => []IInv
BY InitIInv, NextIInv, PTL DEF Spec

\* Every variable keeps to the values the code can give it, and no handler
\* writes to a slot it did not find (message_handlers.c:121-243).
THEOREM TypeCorrect == Spec => []TypeOK
<1>1. IInv => TypeOK
  BY DEF IInv
<1>2. QED
  BY <1>1, Invariance, PTL

\* One id never stands for two messages, though handle_send_message and
\* queue_message both take ids (message_handlers.c:170-172,
\* message_queue.c:26-28).
THEOREM IdsAreDistinct == Spec => []IdsDistinct
<1>1. IInv => IdsDistinct
  BY DEF IInv
<1>2. QED
  BY <1>1, Invariance, PTL

\* A message has at most one copy in all the queues and on all the sockets:
\* the retreat from a failed send to the queue never doubles it
\* (message_handlers.c:174-232).
THEOREM CopiesAreSingle == Spec => []AtMostOnce
<1>1. IInv => AtMostOnce
  BY DEF IInv
<1>2. QED
  BY <1>1, Invariance, PTL

\* No connection gets or holds a message for a user who never logged in on it,
\* though the recipient is looked up in one critical section and sent to in
\* another (message_handlers.c:175-215, message_queue.c:20-46).
THEOREM OnlyAddressees == Spec => []AddresseesOnly
<1>1. IInv => AddresseesOnly
  BY DEF IInv
<1>2. QED
  BY <1>1, Invariance, PTL

\* "Delivered" and "failed" are said truthfully (message_handlers.c:196-243).
THEOREM AcknowledgedTruthfully == Spec => []AckTruthful
<1>1. IInv => AckTruthful
  BY DEF IInv
<1>2. QED
  BY <1>1, Invariance, PTL
=============================================================================
