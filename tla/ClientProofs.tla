---------------------------- MODULE ClientProofs ----------------------------
(***************************************************************************)
(* Key files and the server's users, for any number of users, terminals    *)
(* and connections.  A key has a claim to be a user's when the server      *)
(* holds it, when a registration is about to send it, or when a request on *)
(* its way carries it.  A claimed key is in the user's file, if the file   *)
(* is whole, and nobody makes a file for a user with a claim.              *)
(*                                                                         *)
(* The second part follows the requests: while one is under way, the       *)
(* terminal's place and the server's end determine both streams.           *)
(***************************************************************************)
EXTENDS Client, TLAPS

\* The stream to the server carries a registration of u with key k.
Carries(ch, u, k) ==
  \E i \in 1 .. Len(ch.up) :
    /\ ch.up[i].part = "payload"
    /\ ch.up[i].type = "register"
    /\ ch.up[i].user = u
    /\ ch.up[i].key = k

\* A terminal is about to send its key.
Asking(t) ==
  /\ term[t].request = "register"
  /\ term[t].pc \in {"connect", "send_header", "send_payload"}

Claim(u, k) ==
  \/ registered[u] = k /\ k # NoKey
  \/ \E t \in Terminals : Asking(t) /\ term[t].user = u /\ term[t].n = k
  \/ \E c \in Conns : Carries(chan[c], u, k)

ClaimInv ==
  \A u \in Users \ raced, k \in Key :
    Claim(u, k) =>
      /\ file[u].state # "absent"
      /\ file[u].state = "whole" => file[u].key = k

\* Unless two raced, one terminal at a time is on its way to a user's file.
MakingInv ==
  \A u \in Users \ raced, t \in Terminals :
    Registering(t) /\ term[t].user = u =>
      /\ \A s \in Terminals : Registering(s) /\ term[s].user = u => s = t
      /\ term[t].pc # "write" => file[u].state = "absent"
      /\ term[t].pc = "write" =>
           /\ file[u].state = "torn"
           /\ \A k \in Key : ~Claim(u, k)

\* What the types of the next state rest on.
TermShape ==
  \A t \in Terminals :
    /\ term[t].pc # "idle" => term[t].user \in Users
    /\ Registering(t) => term[t].request = "register" /\ term[t].n \in Conns
    /\ term[t].pc = "prompt" => term[t].request = "get_key"

WireShape ==
  \A c \in Conns :
    /\ chan[c].server = "answering" => chan[c].owed \in Part
    /\ \A k \in Key : ~Carries(chan[c], None, k)

IInv == TypeOK /\ TermShape /\ WireShape /\ ClaimInv /\ MakingInv

-----------------------------------------------------------------------------
(* Streams.                                                                *)

LEMMA SettleType ==
  ASSUME NEW ch \in Channel
  PROVE  Settle(ch) \in Channel
<1> DEFINE up == IF ch.server = "closed" THEN <<>> ELSE ch.up
           owed == IF ch.server = "closed" THEN None ELSE ch.owed
           down == IF ch.client = "closed" THEN <<>> ELSE ch.down
<1>1. <<>> \in Seq(Part)
  OBVIOUS
<1>2. up \in Seq(Part) /\ owed \in Part \cup {None} /\ down \in Seq(Part)
  BY <1>1 DEF Channel
<1>3. Settle(ch) = [ch EXCEPT !.up = up, !.owed = owed, !.down = down]
  BY DEF Settle
<1> HIDE DEF up, owed, down
<1>4. QED
  BY <1>2, <1>3 DEF Channel

LEMMA SettleCarries ==
  ASSUME NEW ch \in Channel, NEW u, NEW k, Carries(Settle(ch), u, k)
  PROVE  Carries(ch, u, k)
BY DEF Channel, Settle, Carries

LEMMA AppendCarries ==
  ASSUME NEW ch \in Channel, NEW p \in Part, NEW u, NEW k,
         Carries([ch EXCEPT !.up = Append(ch.up, p)], u, k)
  PROVE  \/ Carries(ch, u, k)
         \/ p.part = "payload" /\ p.type = "register" /\ p.user = u /\ p.key = k
<1>1. \A i \in 1 .. Len(Append(ch.up, p)) :
        \/ i \in 1 .. Len(ch.up) /\ Append(ch.up, p)[i] = ch.up[i]
        \/ Append(ch.up, p)[i] = p
  BY DEF Channel
<1>2. QED
  BY <1>1 DEF Carries, Channel

LEMMA TakenCarries ==
  ASSUME NEW ch \in Channel, Len(ch.up) >= 2, NEW u, NEW k,
         Carries([ch EXCEPT !.up = SubSeq(ch.up, 3, Len(ch.up))], u, k)
  PROVE  Carries(ch, u, k)
<1>1. \A i \in 1 .. Len(SubSeq(ch.up, 3, Len(ch.up))) :
        i + 2 \in 1 .. Len(ch.up) /\ SubSeq(ch.up, 3, Len(ch.up))[i] = ch.up[i + 2]
  BY DEF Channel
<1>2. QED
  BY <1>1 DEF Carries, Channel

-----------------------------------------------------------------------------
(* Steps that add no claim and touch no file.                              *)

\* No stream gains a registration.
Calm ==
  /\ chan' \in [Conns -> Channel]
  /\ \A c \in Conns : chan'[c].server = "answering" => chan'[c].owed \in Part
  /\ \A c \in Conns, u \in Users \cup {None}, k \in Key :
       Carries(chan'[c], u, k) => Carries(chan[c], u, k)

LEMMA Unchanged ==
  ASSUME IInv, UNCHANGED chan
  PROVE  Calm
BY DEF IInv, TypeOK, WireShape, Calm

\* What a connection may become without gaining a registration.
CalmFrom(ch, new) ==
  /\ new \in Channel
  /\ new.server = "answering" => new.owed \in Part
  /\ \A u \in Users \cup {None}, k \in Key : Carries(new, u, k) => Carries(ch, u, k)

LEMMA OneCalm ==
  ASSUME IInv, NEW c, NEW new, c \in Conns => CalmFrom(chan[c], new),
         chan' = [chan EXCEPT ![c] = new]
  PROVE  Calm
BY DEF IInv, TypeOK, WireShape, Calm, CalmFrom

LEMMA SameCalm ==
  ASSUME IInv, NEW c \in Conns
  PROVE  chan[c] \in Channel /\ CalmFrom(chan[c], chan[c])
BY DEF IInv, TypeOK, WireShape, CalmFrom

\* The stream to the server stays or is emptied.
LEMMA KeptCalm ==
  ASSUME NEW ch, ch \in Channel, NEW new, new \in Channel, new.up \in {ch.up, <<>>},
         new.server = "answering" => new.owed \in Part
  PROVE  CalmFrom(ch, new)
BY DEF CalmFrom, Carries, Channel

LEMMA ThenCalm ==
  ASSUME NEW ch, NEW put, NEW new, CalmFrom(ch, put), CalmFrom(put, new)
  PROVE  CalmFrom(ch, new)
BY DEF CalmFrom

LEMMA SettleCalm ==
  ASSUME NEW ch, NEW put, CalmFrom(ch, put)
  PROVE  CalmFrom(ch, Settle(put))
<1> DEFINE new == Settle(put)
<1>1. put \in Channel /\ new \in Channel
  BY SettleType DEF CalmFrom
<1>2. /\ new.server = put.server /\ new.up \in {put.up, <<>>}
      /\ new.server = "answering" => new.owed = put.owed
  BY <1>1 DEF Settle, Channel
<1> HIDE DEF new
<1>3. CalmFrom(put, new)
  BY <1>1, <1>2, KeptCalm DEF CalmFrom
<1>4. CalmFrom(ch, new)
  BY <1>3, ThenCalm
<1>5. QED
  BY <1>4 DEF new

\* One end is closed.
LEMMA EndCalm ==
  ASSUME NEW ch, NEW put, CalmFrom(ch, put)
  PROVE  CalmFrom(ch, Close(put)) /\ CalmFrom(ch, Shut(put))
<1> DEFINE closed == [put EXCEPT !.client = "closed"]
           shut == [put EXCEPT !.server = "closed"]
<1>1. /\ put \in Channel /\ closed \in Channel /\ shut \in Channel
      /\ closed.up = put.up /\ shut.up = put.up
      /\ closed.server = "answering" => closed.owed \in Part
      /\ shut.server # "answering"
  BY DEF CalmFrom, Channel
<1> HIDE DEF closed, shut
<1>2. CalmFrom(put, closed) /\ CalmFrom(put, shut)
  BY <1>1, KeptCalm
<1>3. CalmFrom(ch, closed) /\ CalmFrom(ch, shut)
  BY <1>2, ThenCalm
<1>4. CalmFrom(ch, Settle(closed)) /\ CalmFrom(ch, Settle(shut))
  BY <1>3, SettleCalm
<1>5. QED
  BY <1>4 DEF Close, Shut, closed, shut

\* A part is sent.
LEMMA PutCarries ==
  ASSUME NEW ch, ch \in Channel, CalmFrom(ch, ch), NEW p \in Part
  PROVE  /\ Put(ch, p) \in Channel
         /\ Put(ch, p).server = "answering" => Put(ch, p).owed \in Part
         /\ \A u \in Users \cup {None}, k \in Key :
              Carries(Put(ch, p), u, k) =>
                \/ Carries(ch, u, k)
                \/ /\ p.part = "payload" /\ p.type = "register"
                   /\ p.user = u /\ p.key = k
<1> DEFINE put == [ch EXCEPT !.up = Append(ch.up, p)]
<1>1. Append(ch.up, p) \in Seq(Part)
  BY DEF Channel
<1>2. put \in Channel /\ put.server = ch.server /\ put.owed = ch.owed
  BY <1>1 DEF Channel
<1>3. \A u, k : Carries(put, u, k) =>
                  \/ Carries(ch, u, k)
                  \/ p.part = "payload" /\ p.type = "register" /\ p.user = u /\ p.key = k
  BY AppendCarries
<1> HIDE DEF put
<1>4. CalmFrom(put, put)
  BY <1>2 DEF CalmFrom
<1>5. CalmFrom(put, Settle(put)) /\ Settle(put) = Put(ch, p)
  BY <1>4, SettleCalm DEF Put, put
<1>6. QED
  BY <1>3, <1>5 DEF CalmFrom

LEMMA PutCalm ==
  ASSUME NEW ch, ch \in Channel, CalmFrom(ch, ch), NEW p \in Part,
         p.part = "payload" => p.type # "register"
  PROVE  CalmFrom(ch, Put(ch, p))
BY PutCarries DEF CalmFrom

\* A claim may end or pass from a terminal to its stream, and from there to
\* the server.
LEMMA ClaimsQuiet ==
  ASSUME IInv, TypeOK', TermShape', WireShape', file' = file, raced \subseteq raced',
         \A u \in Users, k \in Key : Claim(u, k)' => Claim(u, k),
         \A t \in Terminals :
           Registering(t)' => /\ Registering(t)
                              /\ term'[t].user = term[t].user
                              /\ term'[t].pc = "write" <=> term[t].pc = "write"
  PROVE  IInv'
<1>1. ClaimInv'
  BY DEF IInv, ClaimInv
<1>2. MakingInv'
  <2> SUFFICES ASSUME NEW u \in Users \ raced', NEW t \in Terminals,
                      Registering(t)', term'[t].user = u
               PROVE  /\ \A s \in Terminals :
                           Registering(s)' /\ term'[s].user = u => s = t
                      /\ term'[t].pc # "write" => file'[u].state = "absent"
                      /\ term'[t].pc = "write" =>
                           /\ file'[u].state = "torn"
                           /\ \A k \in Key : ~Claim(u, k)'
    BY DEF MakingInv
  <2>1. u \in Users \ raced /\ Registering(t) /\ term[t].user = u
    OBVIOUS
  <2>2. QED
    BY <2>1 DEF IInv, MakingInv
<1>3. QED
  BY <1>1, <1>2 DEF IInv

LEMMA Quiet ==
  ASSUME IInv, TypeOK', TermShape', Calm, file' = file, raced \subseteq raced',
         \A u \in Users : registered'[u] \in {registered[u], NoKey},
         \A t \in Terminals :
           Asking(t)' => /\ Asking(t)
                         /\ term'[t].user = term[t].user
                         /\ term'[t].n = term[t].n,
         \A t \in Terminals :
           Registering(t)' => /\ Registering(t)
                              /\ term'[t].user = term[t].user
                              /\ term'[t].pc = "write" <=> term[t].pc = "write"
  PROVE  IInv'
<1>1. WireShape'
  BY DEF IInv, WireShape, Calm
<1>2. \A u \in Users, k \in Key : Claim(u, k)' => Claim(u, k)
  BY DEF Claim, Calm
<1>3. QED
  BY <1>1, <1>2, ClaimsQuiet

Making == {"generate", "create", "write"}

\* A terminal moves on without reaching for a file or for the server's users.
MovesOn(t, new) ==
  /\ new \in Terminal
  /\ new.pc # "idle" => new.user \in Users
  /\ new.pc = "prompt" => new.request = "get_key"
  /\ new.pc \in Making =>
       /\ Registering(t)
       /\ new.user = term[t].user /\ new.n = term[t].n
       /\ new.request = term[t].request
       /\ new.pc = "write" <=> term[t].pc = "write"
  /\ new.pc \in {"connect", "send_header", "send_payload"} /\ new.request = "register" =>
       Asking(t) /\ new.user = term[t].user /\ new.n = term[t].n

LEMMA TermQuiet ==
  ASSUME IInv, Calm, NEW t \in Terminals, NEW new, MovesOn(t, new),
         term' = [term EXCEPT ![t] = new],
         UNCHANGED <<server, file, raced>>, commands' \in 0 .. MaxConns
  PROVE  IInv'
<1>1. TypeOK'
  BY DEF IInv, TypeOK, Calm, MovesOn, server
<1>2. TermShape'
  BY DEF IInv, TypeOK, TermShape, MovesOn, Registering, Making
<1>3. \A s \in Terminals : term'[s] = IF s = t THEN new ELSE term[s]
  BY DEF IInv, TypeOK
<1>4. \A s \in Terminals :
        Asking(s)' => Asking(s) /\ term'[s].user = term[s].user /\ term'[s].n = term[s].n
  BY <1>3 DEF Asking, MovesOn
<1>5. \A s \in Terminals :
        Registering(s)' => /\ Registering(s)
                           /\ term'[s].user = term[s].user
                           /\ term'[s].pc = "write" <=> term[s].pc = "write"
  BY <1>3 DEF Registering, MovesOn, Making
<1>6. QED
  BY <1>1, <1>2, <1>4, <1>5, Quiet DEF server

LEMMA ServerQuiet ==
  ASSUME IInv, Calm, UNCHANGED <<file, term, raced, commands>>,
         registered' \in [Users -> Key],
         \A u \in Users : registered'[u] \in {registered[u], NoKey},
         running' \in BOOLEAN, UNCHANGED taken
  PROVE  IInv'
<1>1. TypeOK'
  BY DEF IInv, TypeOK, Calm
<1>2. TermShape'
  BY DEF IInv, TermShape, Registering
<1>3. QED
  BY <1>1, <1>2, Quiet DEF Asking, Registering

-----------------------------------------------------------------------------
(* The initial states and the terminals' own steps.                        *)

LEMMA IdleType == Idle \in Terminal /\ Idle.pc = "idle"
BY WireAssumption DEF Idle, Terminal, Requests, Key, OldKey, NoKey

LEMMA InitIInv == Init => IInv
<1> SUFFICES ASSUME Init PROVE IInv
  OBVIOUS
<1> USE WireAssumption DEF Init, WireInit
<1>1. Unused \in Channel /\ Unused.up = <<>> /\ Unused.server # "answering"
  <2>1. <<>> \in Seq(Part)
    OBVIOUS
  <2>2. QED
    BY <2>1 DEF Unused, Channel
<1>2. Idle \in Terminal /\ Idle.pc = "idle"
  BY IdleType
<1>3. TypeOK
  <2>1. file \in [Users -> File]
    BY DEF File, Whole, Absent, Torn, Key, OldKey, NoKey
  <2>2. \A u \in Users : file[u].key \in Key
    BY DEF Whole, Absent, Key, OldKey, NoKey
  <2>3. QED
    BY <1>1, <1>2, <2>1, <2>2 DEF TypeOK, Key, OldKey, NoKey
<1>4. TermShape
  BY <1>2 DEF TermShape, Registering
<1>5. \A c \in Conns : \A u, k : ~Carries(chan[c], u, k)
  BY <1>1 DEF Carries
<1>6. WireShape
  BY <1>1, <1>5 DEF WireShape
<1>7. ClaimInv
  BY <1>2, <1>5 DEF ClaimInv, Claim, Asking
<1>8. MakingInv
  BY <1>2 DEF MakingInv, Registering
<1>9. QED
  BY <1>3, <1>4, <1>6, <1>7, <1>8 DEF IInv

\* Steps that only move a terminal, and the record each leaves it in.
LEMMA LocalIInv ==
  ASSUME IInv, NEW t \in Terminals, UNCHANGED <<chan, server, file, raced>>,
         \/ \E u \in Users : RegisterRefused(t, u) \/ Login(t, u)
         \/ AskPassword(t) \/ SaveFails(t) \/ Chat(t) \/ Quit(t)
         \/ SendFails(t) \/ ReadEnds(t) \/ ReadFails(t)
  PROVE  IInv'
<1> DEFINE now == term[t]
<1>0. now \in Terminal /\ Calm /\ Idle \in Terminal /\ commands \in 0 .. MaxConns
  BY IdleType, Unchanged DEF IInv, TypeOK
<1>1. CASE \E u \in Users : RegisterRefused(t, u)
  <2>1. PICK u \in Users : RegisterRefused(t, u)
    BY <1>1
  <2> DEFINE new == [Idle EXCEPT !.user = u, !.outcome = "refused"]
  <2>2. MovesOn(t, new)
    BY <1>0 DEF MovesOn, Terminal, Making, Idle
  <2>3. QED
    BY <1>0, <2>1, <2>2, TermQuiet DEF RegisterRefused
<1>2. CASE \E u \in Users : Login(t, u)
  <2>1. PICK u \in Users : Login(t, u)
    BY <1>2
  <2> DEFINE new == [Idle EXCEPT !.pc = "prompt", !.user = u, !.request = "get_key"]
  <2>2. MovesOn(t, new)
    BY <1>0 DEF MovesOn, Terminal, Making, Idle, Requests
  <2>3. QED
    BY <1>0, <2>1, <2>2, TermQuiet DEF Login
<1>3. CASE AskPassword(t)
  <2>1. PICK p \in Passwords \cup {Empty} :
          term' = [term EXCEPT ![t].pc = "create", ![t].password = p]
    BY <1>3 DEF AskPassword
  <2> DEFINE new == [now EXCEPT !.pc = "create", !.password = p]
  <2>2. MovesOn(t, new)
    BY <1>0, <1>3 DEF MovesOn, Terminal, Making, AskPassword, Registering, IInv, TermShape
  <2>3. QED
    BY <1>0, <1>3, <2>1, <2>2, TermQuiet DEF AskPassword
<1>4. CASE SaveFails(t) \/ Quit(t)
  <2>1. MovesOn(t, Idle)
    BY <1>0 DEF MovesOn, Making, Idle
  <2>2. QED
    BY <1>0, <1>4, <2>1, TermQuiet DEF SaveFails, Quit, End
<1>5. CASE Chat(t)
  <2> DEFINE new == [now EXCEPT !.pc = "connect", !.n = commands + 1]
  <2>1. commands + 1 \in Key /\ commands' \in 0 .. MaxConns
    BY <1>0, <1>5, WireAssumption DEF Chat, Key, OldKey
  <2>2. now.user \in Users /\ now.request = "get_key"
    BY <1>5 DEF Chat, IInv, TermShape
  <2>3. MovesOn(t, new)
    BY <1>0, <2>1, <2>2 DEF MovesOn, Terminal, Making
  <2>4. QED
    BY <1>0, <1>5, <2>1, <2>3, TermQuiet DEF Chat
<1>6. CASE SendFails(t)
  <2>1. PICK connected \in BOOLEAN :
          term' = [term EXCEPT ![t].pc = "disconnect", ![t].connected = connected]
    BY <1>6 DEF SendFails
  <2> DEFINE new == [now EXCEPT !.pc = "disconnect", !.connected = connected]
  <2>2. MovesOn(t, new)
    BY <1>0, <1>6 DEF MovesOn, Terminal, Making, SendFails, IInv, TermShape
  <2>3. term' = [term EXCEPT ![t] = new]
    BY <2>1
  <2> HIDE DEF new
  <2>4. QED
    BY <1>0, <1>6, <2>2, <2>3, TermQuiet DEF SendFails, Rest
<1>7. CASE ReadEnds(t) \/ ReadFails(t)
  <2> DEFINE new == [now EXCEPT !.pc = "disconnect"]
  <2>1. MovesOn(t, new)
    BY <1>0, <1>7 DEF MovesOn, Terminal, Making, ReadEnds, ReadFails, IInv, TermShape
  <2>2. QED
    BY <1>0, <1>7, <2>1, TermQuiet DEF ReadEnds, ReadFails, Goto, Rest
<1>8. QED
  BY <1>1, <1>2, <1>3, <1>4, <1>5, <1>6, <1>7

-----------------------------------------------------------------------------
(* The terminals' steps on a connection.                                   *)

LEMMA PartType ==
  /\ \A type \in Requests \cup Answers \cup {"logout"} : Header(type) \in Part
  /\ \A type \in Requests, u \in Users \cup {None}, k \in Key : Asked(type, u, k) \in Part
  /\ \A type \in Answers, code \in Code : Answered(type, code) \in Part
BY WireAssumption DEF Header, Asked, Answered, Part, Key, OldKey, NoKey, Code

LEMMA SentCalm ==
  ASSUME IInv, NEW c, NEW p \in Part, chan' = Sent(c, p),
         p.part = "payload" => p.type # "register"
  PROVE  Calm
<1> DEFINE new == Put(chan[c], p)
<1>1. c \in Conns => CalmFrom(chan[c], new)
  BY SameCalm, PutCalm
<1>2. chan' = [chan EXCEPT ![c] = new]
  BY DEF Sent
<1> HIDE DEF new
<1>3. QED
  BY <1>1, <1>2, OneCalm

LEMMA HangUpCalm ==
  ASSUME IInv, NEW c, chan' = HangUp(c)
  PROVE  Calm
<1> DEFINE new == Close(chan[c])
<1>1. c \in Conns => CalmFrom(chan[c], new)
  BY SameCalm, EndCalm
<1>2. chan' = [chan EXCEPT ![c] = new]
  BY DEF HangUp
<1> HIDE DEF new
<1>3. QED
  BY <1>1, <1>2, OneCalm

LEMMA BackMoves ==
  ASSUME IInv, NEW t \in Terminals, term[t].pc # "idle", Back(t)
  PROVE  \E new : MovesOn(t, new) /\ term' = [term EXCEPT ![t] = new]
<1> DEFINE now == term[t]
           new ==
             CASE now.request = "get_key" ->
                    [Idle EXCEPT !.pc = "prompt", !.user = now.user, !.request = "get_key"]
               [] now.outcome = "completed" ->
                    [Idle EXCEPT !.user = now.user, !.n = now.n, !.outcome = "completed"]
               [] OTHER -> Idle
<1>1. now \in Terminal /\ now.user \in Users /\ Idle \in Terminal
  BY IdleType DEF IInv, TypeOK, TermShape
<1>2. \/ new = [Idle EXCEPT !.pc = "prompt", !.user = now.user, !.request = "get_key"]
      \/ new = [Idle EXCEPT !.user = now.user, !.n = now.n, !.outcome = "completed"]
      \/ new = Idle
  OBVIOUS
<1>3. term' = [term EXCEPT ![t] = new]
  BY DEF Back
<1> HIDE DEF new
<1>4. MovesOn(t, new)
  BY <1>1, <1>2 DEF MovesOn, Terminal, Making, Idle, Requests
<1>5. QED
  BY <1>3, <1>4

LEMMA ConnectIInv ==
  ASSUME IInv, NEW t \in Terminals, Connect(t)
  PROVE  IInv'
<1> DEFINE now == term[t]
<1>1. /\ now \in Terminal /\ now.pc = "connect" /\ now.user \in Users
      /\ commands' \in 0 .. MaxConns /\ UNCHANGED <<server, file, raced>>
  BY DEF IInv, TypeOK, TermShape, Connect, Rest
<1>2. CASE Goto(t, "send_header") /\ UNCHANGED chan
  <2> DEFINE new == [now EXCEPT !.pc = "send_header"]
  <2>1. MovesOn(t, new)
    BY <1>1 DEF MovesOn, Terminal, Making, Asking
  <2>2. QED
    BY <1>1, <1>2, <2>1, Unchanged, TermQuiet DEF Goto
<1>3. CASE /\ chan' = Connected(term[t].n)
           /\ term' = [term EXCEPT ![t].pc = "send_header",
                         ![t].socket = term[t].n, ![t].connected = TRUE]
  <2> DEFINE new == [now EXCEPT !.pc = "send_header", !.socket = now.n, !.connected = TRUE]
             fresh == [Unused EXCEPT !.client = "open", !.server = "backlog"]
  <2>1. MovesOn(t, new)
    BY <1>1 DEF MovesOn, Terminal, Making, Asking
  <2>2. term' = [term EXCEPT ![t] = new]
    BY <1>3
  <2>3. <<>> \in Seq(Part)
    OBVIOUS
  <2>4. fresh \in Channel /\ fresh.up = <<>> /\ fresh.server # "answering"
    BY <2>3 DEF Channel, Unused
  <2>5. chan' = [chan EXCEPT ![now.n] = fresh]
    BY <1>3 DEF Connected
  <2> HIDE DEF new, fresh
  <2>6. now.n \in Conns => CalmFrom(chan[now.n], fresh)
    BY <2>4, SameCalm, KeptCalm
  <2>7. Calm
    BY <2>5, <2>6, OneCalm
  <2>8. QED
    BY <1>1, <2>1, <2>2, <2>7, TermQuiet
<1>4. CASE Back(t) /\ UNCHANGED chan
  <2>1. PICK new : MovesOn(t, new) /\ term' = [term EXCEPT ![t] = new]
    BY <1>1, <1>4, BackMoves
  <2>2. QED
    BY <1>1, <1>4, <2>1, Unchanged, TermQuiet
<1>5. QED
  BY <1>2, <1>3, <1>4 DEF Connect

\* The header of a request, or the payload of a chat's.
LEMMA SendIInv ==
  ASSUME IInv, NEW t \in Terminals,
         SendHeader(t) \/ (SendPayload(t) /\ term[t].request = "get_key")
  PROVE  IInv'
<1> DEFINE now == term[t]
           label == IF SendHeader(t) THEN "send_payload" ELSE "read_header"
           new == [now EXCEPT !.pc = label]
<1>1. /\ now \in Terminal /\ now.user \in Users
      /\ now.pc \in {"send_header", "send_payload"}
      /\ commands' \in 0 .. MaxConns /\ UNCHANGED <<server, file, raced>>
  BY DEF IInv, TypeOK, TermShape, SendHeader, SendPayload, Rest
<1>2. \E p \in Part : chan' = Sent(now.socket, p)
                      /\ (p.part = "payload" => p.type # "register")
  <2>1. CASE SendHeader(t)
    <3>1. Header(now.request) \in Part
      BY <1>1, PartType DEF Terminal
    <3>2. QED
      BY <2>1, <3>1 DEF SendHeader, Header
  <2>2. CASE SendPayload(t) /\ now.request = "get_key"
    <3>1. Asked("get_key", None, NoKey) \in Part
      BY PartType, WireAssumption DEF Key, OldKey, NoKey, Requests
    <3>2. QED
      BY <2>2, <3>1 DEF SendPayload, Asked
  <2>3. QED
    BY <2>1, <2>2
<1>3. Calm
  BY <1>2, SentCalm
<1>4. MovesOn(t, new)
  BY <1>1 DEF MovesOn, Terminal, Making, Asking, SendHeader, SendPayload
<1>5. term' = [term EXCEPT ![t] = new]
  BY DEF SendHeader, SendPayload, Goto
<1> HIDE DEF new
<1>6. QED
  BY <1>1, <1>3, <1>4, <1>5, TermQuiet

LEMMA ReadIInv ==
  ASSUME IInv, NEW t \in Terminals, ReadHeader(t) \/ ReadPayload(t)
  PROVE  IInv'
<1> DEFINE now == term[t]
           c == now.socket
           new == [chan[c] EXCEPT !.down = Tail(chan[c].down)]
<1>1. /\ now \in Terminal /\ now.user \in Users
      /\ now.pc \in {"read_header", "read_payload"}
      /\ commands' \in 0 .. MaxConns /\ UNCHANGED <<server, file, raced>>
  BY DEF IInv, TypeOK, TermShape, ReadHeader, ReadPayload, Rest
<1>2. chan[c].down # <<>> /\ chan' = [chan EXCEPT ![c] = new]
  BY DEF ReadHeader, ReadPayload, Read
<1>3. c \in Conns => CalmFrom(chan[c], new)
  <2> SUFFICES ASSUME c \in Conns PROVE CalmFrom(chan[c], new)
    OBVIOUS
  <2>1. chan[c] \in Channel /\ CalmFrom(chan[c], chan[c])
    BY SameCalm
  <2>2. Tail(chan[c].down) \in Seq(Part)
    BY <1>2, <2>1 DEF Channel
  <2>3. /\ new \in Channel /\ new.up = chan[c].up
        /\ new.server = chan[c].server /\ new.owed = chan[c].owed
    BY <2>1, <2>2 DEF Channel
  <2> HIDE DEF new
  <2>4. QED
    BY <2>1, <2>3, KeptCalm DEF CalmFrom
<1> HIDE DEF new
<1>4. Calm
  BY <1>2, <1>3, OneCalm
<1>5. \E next : MovesOn(t, next) /\ term' = [term EXCEPT ![t] = next]
  <2>1. CASE ReadHeader(t)
    <3> DEFINE next == [now EXCEPT !.pc = "read_payload"]
    <3>1. MovesOn(t, next)
      BY <1>1 DEF MovesOn, Terminal, Making
    <3>2. QED
      BY <2>1, <3>1 DEF ReadHeader, Goto
  <2>2. CASE ReadPayload(t)
    <3> DEFINE answer == Head(chan[now.socket].down)
               outcome == IF /\ answer.type = Expected(now.request)
                             /\ answer.code = "success"
                          THEN "completed" ELSE "none"
               next == [now EXCEPT !.pc = "disconnect", !.outcome = outcome]
    <3>1. term' = [term EXCEPT ![t] = next]
      BY <2>2 DEF ReadPayload
    <3>2. outcome \in {"none", "completed"}
      OBVIOUS
    <3> HIDE DEF outcome
    <3>3. MovesOn(t, next)
      BY <1>1, <3>2 DEF MovesOn, Terminal, Making
    <3>4. QED
      BY <3>1, <3>3
  <2>3. QED
    BY <2>1, <2>2
<1>6. QED
  BY <1>1, <1>4, <1>5, TermQuiet

LEMMA DisconnectIInv ==
  ASSUME IInv, NEW t \in Terminals, Disconnect(t)
  PROVE  IInv'
<1> DEFINE now == term[t]
           c == now.socket
           told == IF now.connected THEN Put(chan[c], Header("logout")) ELSE chan[c]
           new == Close(told)
<1>1. /\ now.pc = "disconnect" /\ Back(t) /\ chan' = [chan EXCEPT ![c] = new]
      /\ commands' \in 0 .. MaxConns /\ UNCHANGED <<server, file, raced>>
  BY DEF IInv, TypeOK, Disconnect, Rest
<1>2. Header("logout") \in Part /\ Header("logout").part = "header"
  BY PartType DEF Header
<1>3. c \in Conns => CalmFrom(chan[c], told)
  BY <1>2, SameCalm, PutCalm
<1> HIDE DEF told
<1>4. c \in Conns => CalmFrom(chan[c], new)
  BY <1>3, EndCalm
<1> HIDE DEF new
<1>5. Calm
  BY <1>1, <1>4, OneCalm
<1>6. PICK next : MovesOn(t, next) /\ term' = [term EXCEPT ![t] = next]
  BY <1>1, BackMoves
<1>7. QED
  BY <1>1, <1>5, <1>6, TermQuiet

LEMMA CrashIInv ==
  ASSUME IInv, NEW t \in Terminals, Crash(t)
  PROVE  IInv'
<1>1. Calm
  BY HangUpCalm, Unchanged DEF Crash
<1>2. MovesOn(t, Idle)
  BY IdleType DEF MovesOn, Making
<1>3. commands' \in 0 .. MaxConns /\ UNCHANGED <<server, file, raced>>
  BY DEF IInv, TypeOK, Crash, Rest
<1>4. QED
  BY <1>1, <1>2, <1>3, TermQuiet DEF Crash

-----------------------------------------------------------------------------
(* The server's steps that register nobody.                                *)

LEMMA ServerIInv ==
  ASSUME IInv, UNCHANGED <<file, term, raced, commands>>,
         \/ Stop \/ Start
         \/ \E c \in Conns : Accept(c) \/ Answer(c) \/ Leave(c) \/ Break(c)
  PROVE  IInv'
<1>0. registered \in [Users -> Key] /\ running \in BOOLEAN
  BY DEF IInv, TypeOK
<1>1. CASE Stop
  <2>1. PICK lost \in BOOLEAN :
          chan' = [c \in Conns |->
            IF chan[c].client = "unused" THEN chan[c]
            ELSE Settle([chan[c] EXCEPT !.server = "closed",
                                        !.down = IF lost THEN <<>> ELSE chan[c].down])]
    BY <1>1 DEF Stop
  <2>2. ASSUME NEW c \in Conns
        PROVE  CalmFrom(chan[c], chan'[c])
    <3> DEFINE down == IF lost THEN <<>> ELSE chan[c].down
               put == [chan[c] EXCEPT !.server = "closed", !.down = down]
    <3>1. chan[c] \in Channel /\ CalmFrom(chan[c], chan[c])
      BY SameCalm
    <3>2. <<>> \in Seq(Part)
      OBVIOUS
    <3>3. down \in Seq(Part)
      BY <3>1, <3>2 DEF Channel
    <3> HIDE DEF down
    <3>4. put \in Channel /\ put.up = chan[c].up /\ put.server # "answering"
      BY <3>1, <3>3 DEF Channel
    <3>5. chan'[c] = IF chan[c].client = "unused" THEN chan[c] ELSE Settle(put)
      BY <2>1 DEF down
    <3> HIDE DEF put
    <3>6. CalmFrom(chan[c], Settle(put))
      BY <3>1, <3>4, KeptCalm, SettleCalm
    <3>7. QED
      BY <3>1, <3>5, <3>6
  <2>3. Calm
    <3>1. chan' \in [Conns -> Channel]
      <4>1. DOMAIN chan' = Conns /\ chan' = [c \in Conns |-> chan'[c]]
        BY <2>1
      <4>2. QED
        BY <2>2, <4>1 DEF CalmFrom
    <3>2. QED
      BY <2>2, <3>1 DEF Calm, CalmFrom
  <2>4. registered' = [u \in Users |-> NoKey] /\ running' \in BOOLEAN /\ UNCHANGED taken
    BY <1>1 DEF Stop
  <2>5. registered' \in [Users -> Key]
    BY <2>4, WireAssumption DEF Key, OldKey, NoKey
  <2>6. QED
    BY <2>3, <2>4, <2>5, ServerQuiet
<1>2. CASE Start
  BY <1>0, <1>2, Unchanged, ServerQuiet DEF Start
<1>3. ASSUME NEW c \in Conns, Accept(c) \/ Answer(c) \/ Leave(c) \/ Break(c)
      PROVE  IInv'
  <2>1. UNCHANGED server
    BY <1>3 DEF Accept, Answer, Leave, Break
  <2>2. chan[c] \in Channel /\ CalmFrom(chan[c], chan[c])
    BY SameCalm
  <2>3. CASE Leave(c) \/ Break(c) \/ chan' = [chan EXCEPT ![c] = Shut(chan[c])]
    <3> DEFINE new == Shut(chan[c])
    <3>1. CalmFrom(chan[c], new) /\ chan' = [chan EXCEPT ![c] = new]
      BY <2>2, <2>3, EndCalm DEF Leave, Break
    <3> HIDE DEF new
    <3>2. Calm
      BY <3>1, OneCalm
    <3>3. QED
      BY <1>0, <2>1, <3>2, ServerQuiet DEF server
  <2>4. CASE chan' = [chan EXCEPT ![c] = [chan[c] EXCEPT !.server = "serving"]]
    <3> DEFINE new == [chan[c] EXCEPT !.server = "serving"]
    <3>1. new \in Channel /\ new.up = chan[c].up /\ new.server # "answering"
      BY <2>2 DEF Channel
    <3> HIDE DEF new
    <3>2. CalmFrom(chan[c], new)
      BY <2>2, <3>1, KeptCalm
    <3>3. Calm
      BY <2>4, <3>2, OneCalm DEF new
    <3>4. QED
      BY <1>0, <2>1, <3>3, ServerQuiet DEF server
  <2>5. CASE Answer(c)
    <3> DEFINE put == [chan[c] EXCEPT !.down = Append(chan[c].down, chan[c].owed),
                                      !.owed = None, !.server = "serving"]
               new == Settle(put)
    <3>1. chan[c].owed \in Part
      BY <2>5 DEF Answer, IInv, WireShape
    <3>2. Append(chan[c].down, chan[c].owed) \in Seq(Part)
      BY <2>2, <3>1 DEF Channel
    <3>3. put \in Channel /\ put.up = chan[c].up /\ put.server # "answering"
      BY <2>2, <3>2 DEF Channel
    <3>4. chan' = [chan EXCEPT ![c] = new]
      BY <2>5 DEF Answer
    <3> HIDE DEF put
    <3>5. CalmFrom(chan[c], new)
      BY <2>2, <3>3, KeptCalm, SettleCalm
    <3> HIDE DEF new
    <3>6. Calm
      BY <3>4, <3>5, OneCalm
    <3>7. QED
      BY <1>0, <2>1, <3>6, ServerQuiet DEF server
  <2>6. QED
    BY <1>3, <2>3, <2>4, <2>5 DEF Accept
<1>4. QED
  BY <1>1, <1>2, <1>3

-----------------------------------------------------------------------------
(* A registration: its file, its request, and the server's answer.         *)

LEMMA RegisterIInv ==
  ASSUME IInv, NEW t \in Terminals, NEW u \in Users, Register(t, u)
  PROVE  IInv'
<1> DEFINE new == [Idle EXCEPT !.pc = "generate", !.user = u, !.n = commands + 1]
<1>1. commands + 1 \in Conns /\ commands + 1 \in Key /\ commands' \in 0 .. MaxConns
  BY WireAssumption DEF Register, IInv, TypeOK, Conns, Key, OldKey
<1>2. new \in Terminal /\ new.pc = "generate" /\ new.user = u
      /\ new.request = "register" /\ new.n \in Conns
  BY <1>1, IdleType DEF Terminal, Idle
<1>3. /\ term' = [term EXCEPT ![t] = new] /\ file[u].state = "absent"
      /\ UNCHANGED <<chan, server, file>>
      /\ raced' = IF \E s \in Terminals \ {t} : Registering(s) /\ term[s].user = u
                  THEN raced \cup {u} ELSE raced
  BY DEF Register
<1> HIDE DEF new
<1>4. \A s \in Terminals : term'[s] = IF s = t THEN new ELSE term[s]
  BY <1>3 DEF IInv, TypeOK
<1>5. TypeOK'
  BY <1>1, <1>2, <1>3 DEF IInv, TypeOK, server
<1>6. TermShape' /\ WireShape'
  BY <1>2, <1>3, <1>4 DEF IInv, TermShape, WireShape, Registering
<1>7. \A v \in Users, k \in Key : Claim(v, k)' => Claim(v, k)
  BY <1>2, <1>3, <1>4 DEF Claim, Asking, server
<1>8. ClaimInv'
  BY <1>3, <1>7 DEF IInv, ClaimInv
<1>9. \A s \in Terminals : Registering(s)' <=> (s = t \/ Registering(s))
  BY <1>2, <1>4 DEF Registering
<1>10. \A s \in Terminals : s # t /\ Registering(s) /\ u \notin raced' => term[s].user # u
  BY <1>3
<1>11. MakingInv'
  BY <1>2, <1>3, <1>4, <1>7, <1>9, <1>10 DEF IInv, MakingInv
<1>12. QED
  BY <1>5, <1>6, <1>8, <1>11 DEF IInv

\* A step of a terminal that changes the file it is making.
LEMMA FileIInv ==
  ASSUME IInv, NEW t \in Terminals, Registering(t),
         NEW new \in Terminal, NEW content \in File,
         term' = [term EXCEPT ![t] = new],
         file' = [file EXCEPT ![term[t].user] = content],
         UNCHANGED <<chan, server, raced, commands>>,
         new.pc # "idle" => /\ new.user = term[t].user
                            /\ new.n = term[t].n
                            /\ new.request = "register",
         \/ /\ term[t].pc = "create"
            /\ new.pc = "write"
            /\ content.state = "torn"
         \/ /\ term[t].pc = "write"
            /\ new.pc = "idle"
         \/ /\ term[t].pc = "write"
            /\ new.pc = "connect"
            /\ term[t].user \notin raced =>
                 /\ content.state # "absent"
                 /\ content.state = "whole" => content.key = term[t].n
  PROVE  IInv'
<1> DEFINE u == term[t].user
           n == term[t].n
<1>1. u \in Users /\ n \in Conns
  BY DEF IInv, TermShape, Registering
<1>2. u \notin raced => \A k \in Key : ~Claim(u, k)
  BY <1>1 DEF IInv, MakingInv, ClaimInv
<1>3. \A s \in Terminals : term'[s] = IF s = t THEN new ELSE term[s]
  BY DEF IInv, TypeOK
<1>4. \A v \in Users : file'[v] = IF v = u THEN content ELSE file[v]
  BY DEF IInv, TypeOK
<1>5. TypeOK'
  BY DEF IInv, TypeOK, server
<1>6. TermShape' /\ WireShape'
  BY <1>1, <1>3 DEF IInv, TermShape, WireShape, Registering
<1>7. \A v \in Users, k \in Key :
        Claim(v, k)' => Claim(v, k) \/ (v = u /\ k = n /\ new.pc = "connect")
  BY <1>3 DEF Claim, Asking, server
<1>8. ClaimInv'
  BY <1>1, <1>2, <1>4, <1>7 DEF IInv, ClaimInv
<1>9. \A s \in Terminals :
        Registering(s)' => Registering(s) /\ term'[s].user = term[s].user
  BY <1>3 DEF Registering
<1>10. MakingInv'
  <2> SUFFICES ASSUME NEW v \in Users \ raced, NEW s \in Terminals,
                      Registering(s)', term'[s].user = v
               PROVE  /\ \A r \in Terminals :
                           Registering(r)' /\ term'[r].user = v => r = s
                      /\ term'[s].pc # "write" => file'[v].state = "absent"
                      /\ term'[s].pc = "write" =>
                           /\ file'[v].state = "torn"
                           /\ \A k \in Key : ~Claim(v, k)'
    BY DEF MakingInv
  <2>1. /\ Registering(s) /\ term[s].user = v
        /\ \A r \in Terminals : Registering(r) /\ term[r].user = v => r = s
    BY <1>9 DEF IInv, MakingInv
  <2>2. \A r \in Terminals : Registering(r)' /\ term'[r].user = v => r = s
    BY <1>9, <2>1
  <2>3. CASE s = t
    BY <1>2, <1>3, <1>4, <1>7, <2>1, <2>2, <2>3 DEF Registering
  <2>4. CASE s # t
    <3>1. v # u /\ term'[s] = term[s] /\ file'[v] = file[v]
      BY <1>3, <1>4, <2>1, <2>4
    <3>2. QED
      BY <1>7, <2>1, <2>2, <3>1 DEF IInv, MakingInv
  <2>5. QED
    BY <2>3, <2>4
<1>11. QED
  BY <1>5, <1>6, <1>8, <1>10 DEF IInv

LEMMA SaveIInv ==
  ASSUME IInv, NEW t \in Terminals, CreateFile(t) \/ WriteFails(t) \/ CloseFile(t)
  PROVE  IInv'
<1> DEFINE now == term[t]
<1>1. /\ Registering(t) /\ now \in Terminal /\ now.user \in Users
      /\ now.request = "register" /\ now.n \in Conns /\ file[now.user] \in File
      /\ UNCHANGED <<chan, server, raced, commands>>
  BY DEF IInv, TypeOK, TermShape, Registering, CreateFile, WriteFails, CloseFile
<1>2. Absent \in File /\ Torn \in File /\ Torn.state = "torn"
  BY DEF File, Torn
<1>3. CASE CreateFile(t)
  <2> DEFINE new == [now EXCEPT !.pc = "write"]
  <2>1. new \in Terminal /\ new.pc = "write" /\ new.user = now.user
        /\ new.n = now.n /\ new.request = now.request
    BY <1>1 DEF Terminal
  <2>2. now.pc = "create" /\ term' = [term EXCEPT ![t] = new]
        /\ file' = [file EXCEPT ![now.user] = Torn]
    BY <1>3 DEF CreateFile, Goto
  <2> HIDE DEF new
  <2>3. QED
    BY <1>1, <1>2, <2>1, <2>2, FileIInv
<1>4. CASE WriteFails(t)
  <2>1. now.pc = "write" /\ term' = [term EXCEPT ![t] = Idle]
        /\ file' = [file EXCEPT ![now.user] = Absent]
    BY <1>4 DEF WriteFails, End
  <2>2. QED
    BY <1>1, <1>2, <2>1, IdleType, FileIInv
<1>5. CASE CloseFile(t)
  <2> DEFINE new == [now EXCEPT !.pc = "connect"]
             whole == Whole(now.n, now.password)
  <2>1. new \in Terminal /\ new.pc = "connect" /\ new.user = now.user
        /\ new.n = now.n /\ new.request = now.request
    BY <1>1 DEF Terminal
  <2>2. now.pc = "write" /\ term' = [term EXCEPT ![t] = new]
    BY <1>5 DEF CloseFile, Goto
  <2>3. PICK content \in {file[now.user], Torn, whole} :
          file' = [file EXCEPT ![now.user] = content]
    BY <1>5 DEF CloseFile
  <2>4. whole \in File /\ whole.state = "whole" /\ whole.key = now.n
    <3>1. now.n \in Key \ {NoKey} /\ now.password \in Passwords \cup {Empty}
      BY <1>1, WireAssumption DEF Terminal, Conns, Key, OldKey, NoKey
    <3>2. QED
      BY <3>1 DEF File, Whole
  <2>5. now.user \notin raced => file[now.user].state = "torn"
    BY <1>1, <2>2 DEF IInv, MakingInv
  <2> HIDE DEF new, whole
  <2>6. content \in File
    BY <1>1, <1>2, <2>3, <2>4
  <2>7. now.user \notin raced =>
          /\ content.state # "absent"
          /\ content.state = "whole" => content.key = now.n
    BY <1>2, <2>3, <2>4, <2>5
  <2>8. QED
    BY <1>1, <2>1, <2>2, <2>3, <2>6, <2>7, FileIInv
<1>6. QED
  BY <1>3, <1>4, <1>5

\* The payload of a registration: its claim passes from the terminal to the
\* stream.
LEMMA AskIInv ==
  ASSUME IInv, NEW t \in Terminals, SendPayload(t), term[t].request = "register"
  PROVE  IInv'
<1> DEFINE now == term[t]
           c == now.socket
           p == Asked("register", now.user, now.n)
           next == [now EXCEPT !.pc = "read_header"]
           new == Put(chan[c], p)
<1>1. /\ now \in Terminal /\ now.user \in Users /\ now.pc = "send_payload"
      /\ UNCHANGED <<server, file, raced, commands>>
  BY DEF IInv, TypeOK, TermShape, SendPayload, Rest
<1>2. p \in Part /\ p.user = now.user /\ p.key = now.n
  BY <1>1, PartType DEF Terminal, Requests, Asked
<1>3. next \in Terminal /\ next.pc = "read_header" /\ next.user = now.user
  BY <1>1 DEF Terminal
<1>4. chan' = [chan EXCEPT ![c] = new] /\ term' = [term EXCEPT ![t] = next]
  BY DEF SendPayload, Goto, Sent
<1> HIDE DEF p, next
<1>5. c \in Conns =>
        /\ new \in Channel
        /\ new.server = "answering" => new.owed \in Part
        /\ \A u \in Users \cup {None}, k \in Key :
             Carries(new, u, k) => Carries(chan[c], u, k) \/ (u = now.user /\ k = now.n)
  BY <1>2, SameCalm, PutCarries
<1> HIDE DEF new
<1>6. \A s \in Terminals : term'[s] = IF s = t THEN next ELSE term[s]
  BY <1>4 DEF IInv, TypeOK
<1>7. \A d \in Conns : chan'[d] = IF d = c THEN new ELSE chan[d]
  BY <1>4 DEF IInv, TypeOK
<1>8. TypeOK'
  BY <1>1, <1>3, <1>4, <1>5 DEF IInv, TypeOK, server
<1>9. TermShape'
  BY <1>1, <1>3, <1>6 DEF IInv, TermShape, Registering
<1>10. WireShape'
  BY <1>1, <1>5, <1>7, WireAssumption DEF IInv, WireShape
<1>11. ASSUME NEW u \in Users, NEW k \in Key, Claim(u, k)'
       PROVE  Claim(u, k)
  <2>1. u = now.user /\ k = now.n => Claim(u, k)
    BY <1>1 DEF Claim, Asking
  <2>2. \A s \in Terminals : Asking(s)' => Asking(s) /\ term'[s] = term[s]
    BY <1>3, <1>6 DEF Asking
  <2>3. QED
    BY <1>1, <1>5, <1>7, <1>11, <2>1, <2>2 DEF Claim, server
<1>12. \A s \in Terminals : Registering(s)' => Registering(s) /\ term'[s] = term[s]
  BY <1>3, <1>6 DEF Registering
<1>13. QED
  BY <1>1, <1>8, <1>9, <1>10, <1>11, <1>12, ClaimsQuiet

\* The server's answer: the claim passes from the stream to the server.
LEMMA HandleIInv ==
  ASSUME IInv, UNCHANGED <<file, term, raced, commands>>, NEW c \in Conns, Handle(c)
  PROVE  IInv'
<1> DEFINE ch == chan[c]
           asked == ch.up[2]
           code == Registration(asked.user)
           answer == IF asked.type = "register"
                     THEN Answered("register_response", code)
                     ELSE Refusal
           up == SubSeq(ch.up, 3, Len(ch.up))
           down == Append(ch.down, Header(answer.type))
           rest == [ch EXCEPT !.up = up]
           put == [ch EXCEPT !.up = up, !.down = down, !.owed = answer,
                             !.server = "answering"]
           new == Settle(put)
<1>1. ch \in Channel /\ CalmFrom(ch, ch) /\ Len(ch.up) >= 2
      /\ asked.part = "payload" /\ running' = running
  BY SameCalm DEF Handle, FrameThere
<1>2. asked \in Part
  BY <1>1 DEF Channel
<1>3. asked.type = "register" =>
        /\ Carries(ch, asked.user, asked.key)
        /\ asked.user \in Users /\ asked.key \in Key
  <2>1. asked.type = "register" => Carries(ch, asked.user, asked.key)
    BY <1>1 DEF Carries, Channel
  <2>2. asked.user \in Users \cup {None} /\ asked.key \in Key
    BY <1>2 DEF Part
  <2>3. QED
    BY <2>1, <2>2 DEF IInv, WireShape
<1>4. /\ registered' = IF asked.type = "register" /\ code = "success"
                       THEN [registered EXCEPT ![asked.user] = asked.key]
                       ELSE registered
      /\ taken' = IF asked.type = "register" /\ code = "success"
                  THEN taken \cup {<<asked.user, asked.key>>} ELSE taken
      /\ chan' = [chan EXCEPT ![c] = new]
  BY DEF Handle
<1>5. answer \in Part /\ Header(answer.type) \in Part
  <2>1. code \in Code
    BY DEF Registration, Code
  <2>2. /\ Answered("register_response", code) \in Part
        /\ Answered("error", "refused") \in Part
    BY <2>1, PartType DEF Answers, Code
  <2>3. answer \in Part /\ answer.type \in Answers
    BY <2>2 DEF Refusal, Answered, Answers
  <2>4. QED
    BY <2>3, PartType
<1> HIDE DEF answer, code
<1>6. up \in Seq(Part) /\ down \in Seq(Part)
  BY <1>1, <1>5 DEF Channel
<1>7. \A u \in Users \cup {None}, k \in Key : Carries(rest, u, k) => Carries(ch, u, k)
  BY <1>1, TakenCarries
<1>8. CalmFrom(ch, new)
  <2>1. rest \in Channel /\ put \in Channel /\ rest.up = up /\ put.up = up
        /\ put.owed \in Part
    BY <1>1, <1>5, <1>6 DEF Channel
  <2> HIDE DEF up, put
  <2>2. \A u, k : Carries(put, u, k) => Carries(rest, u, k)
    BY <2>1 DEF Carries
  <2>3. CalmFrom(ch, put)
    BY <1>7, <2>1, <2>2 DEF CalmFrom
  <2>4. QED
    BY <2>3, SettleCalm
<1> HIDE DEF new
<1>9. Calm
  BY <1>4, <1>8, OneCalm
<1>10. TypeOK'
  <2>1. registered' \in [Users -> Key]
    BY <1>3, <1>4 DEF IInv, TypeOK
  <2>2. taken' \subseteq Users \X Key
    BY <1>3, <1>4 DEF IInv, TypeOK
  <2>3. QED
    BY <1>1, <1>9, <2>1, <2>2 DEF IInv, TypeOK, Calm
<1>11. TermShape' /\ WireShape'
  BY <1>9 DEF IInv, TermShape, WireShape, Registering, Calm
<1>12. ASSUME NEW u \in Users, NEW k \in Key, Claim(u, k)'
       PROVE  Claim(u, k)
  <2>1. CASE registered'[u] = k /\ k # NoKey
    <3>1. registered[u] = k \/ (asked.type = "register" /\ u = asked.user /\ k = asked.key)
      BY <1>3, <1>4, <2>1 DEF IInv, TypeOK
    <3>2. QED
      BY <1>3, <2>1, <3>1 DEF Claim
  <2>2. CASE \E t \in Terminals : Asking(t)' /\ term'[t].user = u /\ term'[t].n = k
    BY <2>2 DEF Claim, Asking
  <2>3. CASE \E d \in Conns : Carries(chan'[d], u, k)
    BY <1>9, <2>3 DEF Claim, Calm
  <2>4. QED
    BY <1>12, <2>1, <2>2, <2>3 DEF Claim
<1>13. QED
  BY <1>10, <1>11, <1>12, ClaimsQuiet DEF Registering

-----------------------------------------------------------------------------
(* Every step, and the theorems.                                           *)

LEMMA NextIInv == IInv /\ [Next]_vars => IInv'
<1> SUFFICES ASSUME IInv, [Next]_vars PROVE IInv'
  OBVIOUS
<1>1. CASE Server /\ UNCHANGED <<file, term, raced, commands>>
  <2>1. ASSUME NEW c \in Conns, Handle(c) PROVE IInv'
    BY <1>1, <2>1, HandleIInv
  <2>2. QED
    BY <1>1, <2>1, ServerIInv DEF Server, Handler
<1>2. ASSUME NEW t \in Terminals,
             Command(t) \/ Save(t) \/ Exchange(t) \/ ReadFails(t) \/ Crash(t)
      PROVE  IInv'
  <2>1. ASSUME NEW u \in Users, Register(t, u) PROVE IInv'
    BY <2>1, RegisterIInv
  <2>2. ASSUME \/ \E u \in Users : RegisterRefused(t, u) \/ Login(t, u)
               \/ AskPassword(t) \/ SaveFails(t) \/ Chat(t) \/ Quit(t)
               \/ SendFails(t) \/ ReadEnds(t) \/ ReadFails(t)
        PROVE  IInv'
    <3>1. UNCHANGED <<chan, server, file, raced>>
      BY <2>2 DEF RegisterRefused, Login, AskPassword, SaveFails, Chat, Quit,
                  SendFails, ReadEnds, ReadFails, Rest
    <3>2. QED
      BY <2>2, <3>1, LocalIInv
  <2>3. CASE CreateFile(t) \/ WriteFails(t) \/ CloseFile(t)
    BY <2>3, SaveIInv
  <2>4. CASE Connect(t)
    BY <2>4, ConnectIInv
  <2>5. CASE SendHeader(t) \/ SendPayload(t)
    <3>1. term[t].request \in {"register", "get_key"}
      BY DEF IInv, TypeOK, Terminal, Requests
    <3>2. QED
      BY <2>5, <3>1, SendIInv, AskIInv
  <2>6. CASE ReadHeader(t) \/ ReadPayload(t)
    BY <2>6, ReadIInv
  <2>7. CASE Disconnect(t)
    BY <2>7, DisconnectIInv
  <2>8. CASE Crash(t)
    BY <2>8, CrashIInv
  <2>9. QED
    BY <1>2, <2>1, <2>2, <2>3, <2>4, <2>5, <2>6, <2>7, <2>8 DEF Command, Save, Exchange
<1>3. CASE UNCHANGED vars
  BY <1>3 DEF vars, server, IInv, TypeOK, TermShape, WireShape, ClaimInv, MakingInv,
              Registering, Claim, Asking
<1>4. QED
  BY <1>1, <1>2, <1>3 DEF Next

\* No step leaves the inductive invariant: what the steps of terminals and
\* server keep of claims and of files being made (user.c:18-88).
THEOREM Invariance == Spec => []IInv
<1>1. Init => IInv
  BY InitIInv
<1>2. IInv /\ [Next]_vars => IInv'
  BY NextIInv
<1>3. QED
  BY <1>1, <1>2, PTL DEF Spec

\* Connections, key files, the server's users and the terminals keep their
\* types.
THEOREM TypeCorrect == Spec => []TypeOK
<1>1. IInv => TypeOK
  BY DEF IInv
<1>2. QED
  BY Invariance, <1>1, PTL

\* The server's key of a user is the key of the user's file, unless two
\* terminals registered the name at once (user.c:25, crypto.c:181).
THEOREM FilesAndServerAgree == Spec => []KeysAgree
<1>1. ASSUME IInv PROVE KeysAgree
  <2>1. ASSUME NEW u \in Users \ raced, registered[u] # NoKey, file[u].state = "whole"
        PROVE  file[u].key = registered[u]
    <3>1. registered[u] \in Key /\ Claim(u, registered[u])
      BY <1>1, <2>1 DEF IInv, TypeOK, Claim
    <3>2. QED
      BY <1>1, <2>1, <3>1 DEF IInv, ClaimInv
  <2>2. QED
    BY <2>1 DEF KeysAgree
<1>2. IInv => KeysAgree
  BY <1>1
<1>3. QED
  BY Invariance, <1>2, PTL

\* A whole key file is neither changed nor removed (user.c:28, crypto.c:231),
\* unless two terminals registered the name at once.
THEOREM KeysAreKept == Spec => KeysKept
<1>1. ASSUME IInv, [Next]_vars
      PROVE  [\A u \in Users \ raced' : file[u].state = "whole" => file'[u] = file[u]]_vars
  <2>1. ASSUME NEW u \in Users \ raced', file[u].state = "whole", Next
        PROVE  file'[u] = file[u]
    <3>1. CASE \E t \in Terminals : CreateFile(t) \/ WriteFails(t) \/ CloseFile(t)
      <4>1. PICK t \in Terminals : CreateFile(t) \/ WriteFails(t) \/ CloseFile(t)
        BY <3>1
      <4>2. Registering(t) /\ raced' = raced
        BY <4>1 DEF CreateFile, WriteFails, CloseFile, Registering
      <4>3. term[t].user # u
        BY <1>1, <2>1, <4>2 DEF IInv, MakingInv
      <4>4. QED
        BY <1>1, <4>1, <4>3 DEF CreateFile, WriteFails, CloseFile, IInv, TypeOK
    <3>2. CASE ~ \E t \in Terminals : CreateFile(t) \/ WriteFails(t) \/ CloseFile(t)
      <4>1. file' = file
        BY <2>1, <3>2 DEF Next, Command, Save, Exchange, Register, RegisterRefused,
                          Login, Chat, Quit, AskPassword, SaveFails, Connect, SendHeader,
                          SendPayload, SendFails, ReadHeader, ReadPayload, ReadEnds,
                          ReadFails, Disconnect, Crash, Rest
      <4>2. QED
        BY <4>1
    <3>3. QED
      BY <3>1, <3>2
  <2>2. QED
    BY <1>1, <2>1
<1>2. IInv /\ [Next]_vars =>
        [\A u \in Users \ raced' : file[u].state = "whole" => file'[u] = file[u]]_vars
  BY <1>1
<1>3. QED
  BY Invariance, <1>2, PTL DEF Spec, KeysKept

-----------------------------------------------------------------------------
(* Requests and their answers.                                             *)

Linked == {"send_header", "send_payload", "read_header", "read_payload", "disconnect"}
Waiting == Linked \ {"disconnect"}
Reading == {"read_header", "read_payload"}
Resting == {"idle", "prompt"}

\* A command's connection has the command's number, which no other command
\* under way has.
SocketInv ==
  \A t \in Terminals :
    /\ IF term[t].pc \in Linked THEN term[t].socket = term[t].n
       ELSE term[t].socket = 0 /\ ~term[t].connected
    /\ term[t].pc \notin Resting =>
         /\ term[t].n \in 1 .. commands
         /\ \A s \in Terminals :
              term[s].pc \notin Resting /\ term[s].n = term[t].n => s = t
    /\ term[t].pc = "prompt" => term[t].outcome = "none"

Request(now) ==
  IF now.request = "register" THEN Asked("register", now.user, now.n)
                              ELSE Asked("get_key", None, NoKey)
AnswerType(now) == IF now.request = "register" THEN "register_response" ELSE "error"

\* What the terminal has sent so far, and what of an answer's header it has
\* yet to read.
Said(now) ==
  CASE now.pc = "send_header" -> <<>>
    [] now.pc = "send_payload" -> <<Header(now.request)>>
    [] OTHER -> <<Header(now.request), Request(now)>>
Unread(now) == IF now.pc = "read_header" THEN <<Header(AnswerType(now))>> ELSE <<>>

\* A payload that answers the request, and truthfully.
Replies(p, now, tk) ==
  /\ p \in Part
  /\ p.type = AnswerType(now)
  /\ now.request = "register" /\ p.code = "success" => <<now.user, now.n>> \in tk

\* The states of a request on its connection.
Unanswered(ch, now) ==
  /\ now.pc # "read_payload"
  /\ ch.server \in {"backlog", "serving", "closed"}
  /\ ch.up = IF ch.server = "closed" THEN <<>> ELSE Said(now)
  /\ ch.owed = None /\ ch.down = <<>>

HalfAnswered(ch, now, tk) ==
  /\ now.pc \in Reading
  /\ ch.server = "answering" /\ ch.up = <<>>
  /\ Replies(ch.owed, now, tk)
  /\ ch.down = Unread(now)

WhollyAnswered(ch, now, tk) ==
  /\ now.pc \in Reading
  /\ ch.server \in {"serving", "closed"} /\ ch.up = <<>> /\ ch.owed = None
  /\ \E p \in Part : Replies(p, now, tk) /\ ch.down = Append(Unread(now), p)

CutOff(ch, now) ==
  /\ now.pc \in Reading
  /\ ch.server = "closed" /\ ch.up = <<>> /\ ch.owed = None
  /\ ch.down = <<>> \/ ch.down = Unread(now)

Line(ch, now, tk) ==
  /\ ch.client = "open"
  /\ \/ Unanswered(ch, now) \/ HalfAnswered(ch, now, tk)
     \/ WhollyAnswered(ch, now, tk) \/ CutOff(ch, now)

LineInv ==
  \A t \in Terminals :
    term[t].pc \in Waiting => Line(chan[term[t].n], term[t], taken)

\* With what a terminal says of its last command.
ExchangeInv == SocketInv /\ LineInv /\ CompletedIsTaken

-----------------------------------------------------------------------------
(* What each step on a connection makes of its state.                      *)

\* Servers take more and more keys.
LEMMA LineLater ==
  ASSUME NEW ch, NEW now, NEW tk, NEW more, tk \subseteq more, Line(ch, now, tk)
  PROVE  Line(ch, now, more)
BY DEF Line, HalfAnswered, WhollyAnswered, Replies


LEMMA LineShut ==
  ASSUME NEW ch \in Channel, NEW now, NEW tk, Line(ch, now, tk)
  PROVE  Line(Shut(ch), now, tk)
<1> DEFINE new == Shut(ch)
<1>1. /\ new.client = "open" /\ new.server = "closed" /\ new.up = <<>>
      /\ new.owed = None /\ new.down = ch.down
  BY DEF Shut, Settle, Channel, Line
<1> HIDE DEF new
<1>2. Line(new, now, tk)
  <2>1. CASE Unanswered(ch, now)
    BY <1>1, <2>1 DEF Unanswered, Line
  <2>2. CASE HalfAnswered(ch, now, tk)
    BY <1>1, <2>2 DEF HalfAnswered, CutOff, Line
  <2>3. CASE WhollyAnswered(ch, now, tk)
    BY <1>1, <2>3 DEF WhollyAnswered, Line
  <2>4. CASE CutOff(ch, now)
    BY <1>1, <2>4 DEF CutOff, Line
  <2>5. QED
    BY <2>1, <2>2, <2>3, <2>4 DEF Line
<1>3. QED
  BY <1>2 DEF new

\* The server ends; what it sent arrives, or is lost.
LEMMA LineStop ==
  ASSUME NEW ch \in Channel, NEW now, NEW tk, Line(ch, now, tk), NEW down,
         down \in {<<>>, ch.down}
  PROVE  Line(Settle([ch EXCEPT !.server = "closed", !.down = down]), now, tk)
<1> DEFINE new == Settle([ch EXCEPT !.server = "closed", !.down = down])
<1>1. /\ new.client = "open" /\ new.server = "closed" /\ new.up = <<>>
      /\ new.owed = None /\ new.down = down
  BY DEF Settle, Channel, Line
<1> HIDE DEF new
<1>2. Line(new, now, tk)
  <2>0. CASE down = <<>>
    <3>1. Unanswered(new, now) \/ CutOff(new, now)
      BY <1>1, <2>0 DEF Line, Unanswered, HalfAnswered, WhollyAnswered, CutOff, Reading
    <3>2. QED
      BY <1>1, <3>1 DEF Line
  <2>1. CASE down = ch.down /\ Unanswered(ch, now)
    BY <1>1, <2>1 DEF Unanswered, Line
  <2>2. CASE down = ch.down /\ HalfAnswered(ch, now, tk)
    BY <1>1, <2>2 DEF HalfAnswered, CutOff, Line
  <2>3. CASE down = ch.down /\ WhollyAnswered(ch, now, tk)
    BY <1>1, <2>3 DEF WhollyAnswered, Line
  <2>4. CASE down = ch.down /\ CutOff(ch, now)
    BY <1>1, <2>4 DEF CutOff, Line
  <2>5. QED
    BY <2>0, <2>1, <2>2, <2>3, <2>4 DEF Line
<1>3. QED
  BY <1>2 DEF new

LEMMA LineAccept ==
  ASSUME NEW ch \in Channel, NEW now, NEW tk, Line(ch, now, tk),
         ch.server = "backlog"
  PROVE  Line([ch EXCEPT !.server = "serving"], now, tk)
<1> DEFINE new == [ch EXCEPT !.server = "serving"]
<1>1. /\ new.client = ch.client /\ new.server = "serving" /\ new.up = ch.up
      /\ new.owed = ch.owed /\ new.down = ch.down
  BY DEF Channel
<1> HIDE DEF new
<1>2. Unanswered(ch, now) /\ ch.client = "open"
  BY DEF Line, HalfAnswered, WhollyAnswered, CutOff
<1>3. QED
  BY <1>1, <1>2 DEF Line, Unanswered, new

\* The whole request is there only when nothing was answered.
LEMMA LineAsked ==
  ASSUME NEW ch \in Channel, NEW now, NEW tk, Line(ch, now, tk), now.pc \in Waiting,
         ch.server = "serving", Len(ch.up) >= 2
  PROVE  /\ now.pc = "read_header" /\ ch.client = "open" /\ ch.down = <<>>
         /\ ch.up = <<Header(now.request), Request(now)>>
<1>1. Len(<<>>) = 0 /\ Len(<<Header(now.request)>>) = 1
  OBVIOUS
<1>2. Unanswered(ch, now)
  BY <1>1 DEF Line, HalfAnswered, WhollyAnswered, CutOff
<1>3. now.pc = "read_header" /\ ch.up = Said(now)
  BY <1>1, <1>2 DEF Unanswered, Said, Waiting, Linked
<1>4. QED
  BY <1>2, <1>3 DEF Unanswered, Said, Line

LEMMA LineHandle ==
  ASSUME NEW ch \in Channel, NEW now, NEW tk, Line(ch, now, tk), now.pc \in Waiting,
         ch.server = "serving", Len(ch.up) >= 2,
         NEW answer, NEW more, Replies(answer, now, more)
  PROVE  Line(Settle([ch EXCEPT !.up = SubSeq(ch.up, 3, Len(ch.up)),
                                !.down = Append(ch.down, Header(answer.type)),
                                !.owed = answer,
                                !.server = "answering"]), now, more)
<1>1. /\ now.pc = "read_header" /\ ch.client = "open" /\ ch.down = <<>>
      /\ ch.up = <<Header(now.request), Request(now)>>
  BY LineAsked
<1>2. SubSeq(ch.up, 3, Len(ch.up)) = <<>>
  BY <1>1
<1>3. Append(ch.down, Header(answer.type)) = Unread(now)
  BY <1>1 DEF Unread, Replies
<1> DEFINE new == Settle([ch EXCEPT !.up = SubSeq(ch.up, 3, Len(ch.up)),
                                    !.down = Append(ch.down, Header(answer.type)),
                                    !.owed = answer,
                                    !.server = "answering"])
<1>4. /\ new.client = "open" /\ new.server = "answering" /\ new.up = <<>>
      /\ new.owed = answer /\ new.down = Unread(now)
  BY <1>1, <1>2, <1>3 DEF Settle, Channel
<1> HIDE DEF new
<1>5. HalfAnswered(new, now, more)
  BY <1>1, <1>4 DEF HalfAnswered, Reading
<1>6. QED
  BY <1>4, <1>5 DEF Line, new

LEMMA LineAnswer ==
  ASSUME NEW ch \in Channel, NEW now, NEW tk, Line(ch, now, tk),
         ch.server = "answering"
  PROVE  Line(Settle([ch EXCEPT !.down = Append(ch.down, ch.owed),
                                !.owed = None, !.server = "serving"]), now, tk)
<1> DEFINE new == Settle([ch EXCEPT !.down = Append(ch.down, ch.owed),
                                    !.owed = None, !.server = "serving"])
<1>1. HalfAnswered(ch, now, tk) /\ ch.client = "open"
  BY DEF Line, Unanswered, WhollyAnswered, CutOff
<1>2. /\ new.client = "open" /\ new.server = "serving" /\ new.up = <<>>
      /\ new.owed = None /\ new.down = Append(Unread(now), ch.owed)
  BY <1>1 DEF Settle, Channel, HalfAnswered
<1> HIDE DEF new
<1>3. Replies(ch.owed, now, tk) /\ ch.owed \in Part
  BY <1>1 DEF HalfAnswered, Replies
<1>4. WhollyAnswered(new, now, tk)
  BY <1>1, <1>2, <1>3 DEF WhollyAnswered, HalfAnswered
<1>5. QED
  BY <1>2, <1>4 DEF Line, new

\* Short sequences.
LEMMA PairIn ==
  ASSUME NEW S, NEW x \in S, NEW p \in S
  PROVE  Append(<<x>>, p) = <<x, p>>
<1> DEFINE r == Append(<<x>>, p)
           q == <<x, p>>
<1>1. r \in Seq(S) /\ Len(r) = 2
  OBVIOUS
<1>2. r[1] = x /\ r[2] = p
  OBVIOUS
<1>3. q \in Seq(S) /\ Len(q) = 2 /\ q[1] = x /\ q[2] = p
  OBVIOUS
<1> HIDE DEF r, q
<1>4. r = q
  BY <1>1, <1>2, <1>3
<1>5. QED
  BY <1>4 DEF r, q

LEMMA Pair ==
  ASSUME NEW x, NEW p
  PROVE  /\ Append(<<x>>, p) = <<x, p>> /\ Append(<<>>, p) = <<p>>
         /\ Tail(<<x>>) = <<>> /\ Tail(<<x, p>>) = <<p>>
<1>1. x \in {x, p} /\ p \in {x, p}
  OBVIOUS
<1>2. Append(<<x>>, p) = <<x, p>>
  BY <1>1, PairIn
<1>3. QED
  BY <1>2

\* The terminal's record of the next step of one request.
Onward(now, next, label) ==
  /\ next.pc = label
  /\ next.request = now.request /\ next.user = now.user /\ next.n = now.n

LEMMA LineBegun ==
  ASSUME NEW now, NEW tk, now.pc = "send_header"
  PROVE  Line([Unused EXCEPT !.client = "open", !.server = "backlog"], now, tk)
BY DEF Line, Unanswered, Said, Unused

\* What is put on an open connection to an open end arrives.
LEMMA PutThere ==
  ASSUME NEW ch \in Channel, NEW p, ch.client = "open"
  PROVE  /\ Put(ch, p).up = IF ch.server = "closed" THEN <<>> ELSE Append(ch.up, p)
         /\ Put(ch, p).owed = IF ch.server = "closed" THEN None ELSE ch.owed
         /\ Put(ch, p).down = ch.down /\ Put(ch, p).server = ch.server
         /\ Put(ch, p).client = "open"
BY DEF Put, Settle, Channel

LEMMA LineSaid ==
  ASSUME NEW ch \in Channel, NEW now, NEW next, NEW tk, NEW p, Line(ch, now, tk),
         \/ now.pc = "send_header" /\ p = Header(now.request)
            /\ Onward(now, next, "send_payload")
         \/ now.pc = "send_payload" /\ p = Request(now)
            /\ Onward(now, next, "read_header")
  PROVE  Line(Put(ch, p), next, tk)
<1> DEFINE new == Put(ch, p)
<1>1. Unanswered(ch, now) /\ ch.client = "open"
  BY DEF Line, HalfAnswered, WhollyAnswered, CutOff, Reading
<1>2. /\ new.up = IF ch.server = "closed" THEN <<>> ELSE Append(ch.up, p)
      /\ new.owed = None /\ new.down = <<>>
      /\ new.server = ch.server /\ new.client = "open"
  BY <1>1, PutThere DEF Unanswered
<1> HIDE DEF new
<1>3. Append(Said(now), p) = Said(next)
  <2>1. CASE now.pc = "send_header"
    <3>1. Said(now) = <<>> /\ Said(next) = <<p>>
      BY <2>1 DEF Said, Onward
    <3>2. QED
      BY <3>1
  <2>2. CASE now.pc = "send_payload"
    <3>1. Said(now) = <<Header(now.request)>> /\ Said(next) = <<Header(now.request), p>>
      BY <2>2 DEF Said, Onward, Request
    <3>2. QED
      BY <3>1, Pair
  <2>3. QED
    BY <2>1, <2>2
<1>4. Unanswered(new, next)
  BY <1>1, <1>2, <1>3 DEF Unanswered, Onward
<1>5. QED
  BY <1>2, <1>4 DEF Line, new

LEMMA LineRead ==
  ASSUME NEW ch \in Channel, NEW now, NEW next, NEW tk, Line(ch, now, tk),
         now.pc = "read_header", ch.down # <<>>, Onward(now, next, "read_payload")
  PROVE  Line([ch EXCEPT !.down = Tail(ch.down)], next, tk)
<1> DEFINE new == [ch EXCEPT !.down = Tail(ch.down)]
<1>1. /\ new.up = ch.up /\ new.owed = ch.owed /\ new.down = Tail(ch.down)
      /\ new.server = ch.server /\ new.client = ch.client /\ ch.client = "open"
  BY DEF Channel, Line
<1> HIDE DEF new
<1>2. Unread(now) = <<Header(AnswerType(now))>> /\ Unread(next) = <<>>
      /\ next.pc \in Reading
  BY DEF Unread, Onward, Reading
<1>3. \A p : Replies(p, now, tk) => Replies(p, next, tk)
  BY DEF Replies, AnswerType, Onward
<1>4. \A x, p : Tail(<<x>>) = <<>> /\ Tail(Append(<<x>>, p)) = Append(<<>>, p)
  BY Pair
<1>5. CASE HalfAnswered(ch, now, tk)
  <2>1. HalfAnswered(new, next, tk)
    BY <1>1, <1>2, <1>3, <1>4, <1>5 DEF HalfAnswered
  <2>2. QED
    BY <1>1, <2>1 DEF Line, new
<1>6. CASE WhollyAnswered(ch, now, tk)
  <2>1. WhollyAnswered(new, next, tk)
    BY <1>1, <1>2, <1>3, <1>4, <1>6 DEF WhollyAnswered
  <2>2. QED
    BY <1>1, <2>1 DEF Line, new
<1>7. CASE CutOff(ch, now)
  <2>1. CutOff(new, next)
    BY <1>1, <1>2, <1>4, <1>7 DEF CutOff
  <2>2. QED
    BY <1>1, <2>1 DEF Line, new
<1>8. QED
  BY <1>5, <1>6, <1>7 DEF Line, Unanswered

LEMMA LineJudged ==
  ASSUME NEW ch \in Channel, NEW now, NEW tk, Line(ch, now, tk),
         now.pc = "read_payload", ch.down # <<>>
  PROVE  Replies(Head(ch.down), now, tk)
<1>1. Unread(now) = <<>>
  BY DEF Unread
<1>2. WhollyAnswered(ch, now, tk)
  BY <1>1 DEF Line, Unanswered, HalfAnswered, CutOff
<1>3. PICK p \in Part : Replies(p, now, tk) /\ ch.down = Append(<<>>, p)
  BY <1>1, <1>2 DEF WhollyAnswered
<1>4. Head(ch.down) = p
  BY <1>3
<1>5. QED
  BY <1>3, <1>4

-----------------------------------------------------------------------------
(* Steps of the server, of one terminal, and of all.                       *)

\* A step of the server.
LEMMA ServerExchange ==
  ASSUME ExchangeInv, UNCHANGED <<term, commands>>, taken \subseteq taken',
         \A t \in Terminals :
           /\ term[t].pc \in Waiting
           /\ Line(chan[term[t].n], term[t], taken)
           => Line(chan'[term[t].n], term[t], taken')
  PROVE  ExchangeInv'
<1>1. SocketInv'
  BY DEF ExchangeInv, SocketInv
<1>2. LineInv'
  BY DEF ExchangeInv, LineInv
<1>3. CompletedIsTaken'
  BY DEF ExchangeInv, CompletedIsTaken
<1>4. QED
  BY <1>1, <1>2, <1>3 DEF ExchangeInv

\* A terminal's next record: it rests, or goes on with its command, or begins one.
Proceeds(t, new) ==
  /\ new \in Terminal
  /\ IF new.pc \in Linked THEN new.socket = new.n
     ELSE new.socket = 0 /\ ~new.connected
  /\ \/ new.pc \in Resting
     \/ term[t].pc \notin Resting /\ new.n = term[t].n
     \/ commands' = commands + 1 /\ new.n = commands + 1
  /\ new.pc = "prompt" => new.outcome = "none"
  /\ new.outcome = "completed" => <<new.user, new.n>> \in taken
  /\ new.pc \in Waiting => Line(chan'[new.n], new, taken)

\* A terminal touches no connection but its command's.
OwnLine(t) ==
  \A c \in Conns : chan'[c] = chan[c] \/ (term[t].pc \notin Resting /\ c = term[t].n)

LEMMA TermExchange ==
  ASSUME IInv, ExchangeInv, NEW t \in Terminals, NEW new, Proceeds(t, new),
         term' = [term EXCEPT ![t] = new], OwnLine(t), taken' = taken,
         commands' \in {commands, commands + 1}, commands' \in 0 .. MaxConns
  PROVE  ExchangeInv'
<1>1. \A s \in Terminals : term'[s] = IF s = t THEN new ELSE term[s]
  BY DEF IInv, TypeOK
<1>2. commands \in Nat /\ \A s \in Terminals : term[s] \in Terminal
  BY WireAssumption DEF IInv, TypeOK
<1>3. \A s \in Terminals : term[s].pc \notin Resting => term[s].n \in 1 .. commands
  BY DEF ExchangeInv, SocketInv
<1>4. SocketInv'
  <2>1. \A s \in Terminals : term'[s].pc \notin Resting => term'[s].n \in 1 .. commands'
    BY <1>1, <1>2, <1>3 DEF Proceeds
  <2>2. \A s \in Terminals :
          /\ s # t /\ term'[s].pc \notin Resting /\ term'[t].pc \notin Resting
          => term'[s].n # term'[t].n
    <3> SUFFICES ASSUME NEW s \in Terminals, s # t, term[s].pc \notin Resting,
                        new.pc \notin Resting
                 PROVE  term[s].n # new.n
      BY <1>1
    <3>1. term[s].n \in 1 .. commands
      BY <1>3
    <3>2. term[t].pc \notin Resting => term[s].n # term[t].n
      BY DEF ExchangeInv, SocketInv
    <3>3. QED
      BY <1>2, <3>1, <3>2 DEF Proceeds
  <2>3. ASSUME NEW s \in Terminals, NEW r \in Terminals,
               term'[s].pc \notin Resting, term'[r].pc \notin Resting,
               term'[r].n = term'[s].n
        PROVE  r = s
    BY <1>1, <2>2, <2>3 DEF ExchangeInv, SocketInv
  <2>4. \A s \in Terminals :
          /\ IF term'[s].pc \in Linked THEN term'[s].socket = term'[s].n
             ELSE term'[s].socket = 0 /\ ~term'[s].connected
          /\ term'[s].pc = "prompt" => term'[s].outcome = "none"
    BY <1>1 DEF ExchangeInv, SocketInv, Proceeds
  <2>5. QED
    BY <2>1, <2>3, <2>4 DEF SocketInv
<1>5. LineInv'
  <2> SUFFICES ASSUME NEW s \in Terminals, term'[s].pc \in Waiting
               PROVE  Line(chan'[term'[s].n], term'[s], taken)
    BY DEF LineInv
  <2>1. CASE s = t
    BY <1>1, <2>1 DEF Proceeds
  <2>2. CASE s # t
    <3>1. term'[s] = term[s] /\ term[s].pc \in Waiting /\ term[s].pc \notin Resting
      BY <1>1, <2>2 DEF Waiting, Linked, Resting
    <3>2. term[s].n \in Conns
      BY <1>2, <1>3, <3>1, WireAssumption DEF IInv, TypeOK, Conns
    <3>3. chan'[term[s].n] = chan[term[s].n]
      BY <2>2, <3>1, <3>2 DEF OwnLine, ExchangeInv, SocketInv
    <3>4. QED
      BY <3>1, <3>3 DEF ExchangeInv, LineInv
  <2>3. QED
    BY <2>1, <2>2
<1>6. CompletedIsTaken'
  BY <1>1 DEF ExchangeInv, CompletedIsTaken, Proceeds
<1>7. QED
  BY <1>4, <1>5, <1>6 DEF ExchangeInv

LEMMA ServerSteps ==
  ASSUME IInv, ExchangeInv, Server, UNCHANGED <<file, term, raced, commands>>
  PROVE  ExchangeInv'
<1>0. ASSUME NEW t \in Terminals, term[t].pc \in Waiting
      PROVE  /\ term[t].n \in Conns /\ chan[term[t].n] \in Channel
             /\ term[t].user \in Users
  <2>1. term[t].pc \notin Resting /\ term[t].pc # "idle"
    BY <1>0 DEF Waiting, Linked, Resting
  <2>2. term[t].n \in 1 .. commands /\ commands \in 0 .. MaxConns
    BY <2>1 DEF IInv, TypeOK, ExchangeInv, SocketInv
  <2>3. term[t].n \in Conns
    BY <2>2, WireAssumption DEF Conns
  <2>4. QED
    BY <2>1, <2>3 DEF IInv, TypeOK, TermShape
<1>1. CASE Stop
  <2>1. PICK lost \in BOOLEAN :
          chan' = [c \in Conns |->
            IF chan[c].client = "unused" THEN chan[c]
            ELSE Settle([chan[c] EXCEPT !.server = "closed",
                                        !.down = IF lost THEN <<>> ELSE chan[c].down])]
    BY <1>1 DEF Stop
  <2>2. ASSUME NEW t \in Terminals, term[t].pc \in Waiting,
               Line(chan[term[t].n], term[t], taken)
        PROVE  Line(chan'[term[t].n], term[t], taken)
    <3> DEFINE c == term[t].n
               down == IF lost THEN <<>> ELSE chan[c].down
    <3>1. c \in Conns /\ chan[c] \in Channel
      BY <1>0, <2>2
    <3>2. chan'[c] = IF chan[c].client = "unused" THEN chan[c]
                     ELSE Settle([chan[c] EXCEPT !.server = "closed", !.down = down])
      BY <2>1, <3>1
    <3>3. down \in {<<>>, chan[c].down}
      OBVIOUS
    <3> HIDE DEF down, c
    <3>4. Line(Settle([chan[c] EXCEPT !.server = "closed", !.down = down]), term[t], taken)
      BY <2>2, <3>1, <3>3, LineStop DEF c
    <3>5. QED
      BY <2>2, <3>2, <3>4 DEF c
  <2>3. taken' = taken
    BY <1>1 DEF Stop
  <2>4. QED
    BY <2>2, <2>3, ServerExchange
<1>2. CASE Start
  BY <1>2, ServerExchange DEF Start
<1>3. ASSUME NEW c \in Conns, Handler(c) \/ Break(c)
      PROVE  ExchangeInv'
  <2> DEFINE ch == chan[c]
  <2>0. chan[c] \in Channel /\ chan \in [Conns -> Channel]
    BY DEF IInv, TypeOK
  <2>1. ASSUME NEW new, chan' = [chan EXCEPT ![c] = new], taken \subseteq taken',
               \A t \in Terminals :
                 term[t].pc \in Waiting /\ term[t].n = c /\ Line(chan[c], term[t], taken)
                 => Line(new, term[t], taken')
        PROVE  ExchangeInv'
    <3>1. ASSUME NEW t \in Terminals, term[t].pc \in Waiting,
                 Line(chan[term[t].n], term[t], taken)
          PROVE  Line(chan'[term[t].n], term[t], taken')
      <4>1. term[t].n \in Conns
        BY <1>0, <3>1
      <4>2. CASE term[t].n = c
        BY <2>0, <2>1, <3>1, <4>2
      <4>3. CASE term[t].n # c
        BY <2>0, <2>1, <3>1, <4>1, <4>3, LineLater
      <4>4. QED
        BY <4>2, <4>3
    <3>2. QED
      BY <2>1, <3>1, ServerExchange
  <2>2. CASE chan' = [chan EXCEPT ![c] = Shut(chan[c])] /\ taken' = taken
    BY <2>0, <2>1, <2>2, LineShut
  <2>3. CASE Accept(c)
    <3>1. CASE chan' = [chan EXCEPT ![c] = [chan[c] EXCEPT !.server = "serving"]]
      BY <2>0, <2>1, <2>3, <3>1, LineAccept DEF Accept, server
    <3>2. CASE chan' = [chan EXCEPT ![c] = Shut(chan[c])]
      BY <2>2, <2>3, <3>2 DEF Accept, server
    <3>3. QED
      BY <2>3, <3>1, <3>2 DEF Accept
  <2>4. CASE Handle(c)
    <3> DEFINE asked == ch.up[2]
               code == Registration(asked.user)
               answer == IF asked.type = "register"
                         THEN Answered("register_response", code)
                         ELSE Refusal
               new == Settle([ch EXCEPT !.up = SubSeq(ch.up, 3, Len(ch.up)),
                                        !.down = Append(ch.down, Header(answer.type)),
                                        !.owed = answer,
                                        !.server = "answering"])
    <3>1. /\ ch.server = "serving" /\ Len(ch.up) >= 2
          /\ chan' = [chan EXCEPT ![c] = new]
          /\ taken' = IF asked.type = "register" /\ code = "success"
                      THEN taken \cup {<<asked.user, asked.key>>} ELSE taken
      BY <2>4 DEF Handle, FrameThere
    <3>2. ASSUME NEW t \in Terminals, term[t].pc \in Waiting, term[t].n = c,
                 Line(ch, term[t], taken)
          PROVE  Line(new, term[t], taken')
      <4>1. ch.up = <<Header(term[t].request), Request(term[t])>>
        BY <2>0, <3>1, <3>2, LineAsked
      <4>2. asked = Request(term[t])
        BY <4>1
      <4>3. code \in Code /\ "refused" \in Code
        BY DEF Registration, Code
      <4> HIDE DEF asked, code
      <4>4. answer \in Part
        BY <4>3, PartType DEF Refusal, Answers
      <4>5. Replies(answer, term[t], taken')
        BY <3>1, <4>2, <4>4 DEF Replies, Request, AnswerType, Asked, Answered, Refusal
      <4> HIDE DEF answer
      <4>6. QED
        BY <2>0, <3>1, <3>2, <4>5, LineHandle
    <3> HIDE DEF new, code
    <3>3. taken \subseteq taken'
      BY <3>1
    <3>4. QED
      BY <2>1, <3>1, <3>2, <3>3
  <2>5. CASE Answer(c)
    <3> DEFINE new == Settle([ch EXCEPT !.down = Append(ch.down, ch.owed),
                                        !.owed = None, !.server = "serving"])
    <3>1. ch.server = "answering" /\ chan' = [chan EXCEPT ![c] = new] /\ taken' = taken
      BY <2>5 DEF Answer, server
    <3>2. \A t \in Terminals : Line(ch, term[t], taken) => Line(new, term[t], taken)
      BY <2>0, <3>1, LineAnswer
    <3> HIDE DEF new
    <3>3. QED
      BY <2>1, <3>1, <3>2
  <2>6. CASE Leave(c) \/ Break(c)
    BY <2>2, <2>6 DEF Leave, Break, server
  <2>7. QED
    BY <1>3, <2>3, <2>4, <2>5, <2>6 DEF Handler
<1>4. QED
  BY <1>1, <1>2, <1>3 DEF Server

\* Steps without a connection.
LEMMA QuietSteps ==
  ASSUME IInv, ExchangeInv, NEW t \in Terminals,
         \/ \E u \in Users : RegisterRefused(t, u) \/ Login(t, u) \/ Register(t, u)
         \/ AskPassword(t) \/ SaveFails(t) \/ CreateFile(t) \/ WriteFails(t)
         \/ CloseFile(t) \/ Chat(t) \/ Quit(t)
         \/ SendFails(t) \/ ReadEnds(t) \/ ReadFails(t)
  PROVE  ExchangeInv'
<1> DEFINE now == term[t]
<1>0. /\ now \in Terminal /\ Idle \in Terminal /\ commands \in 0 .. MaxConns
      /\ commands \in Nat
  BY IdleType, WireAssumption DEF IInv, TypeOK
<1>1. UNCHANGED <<chan, taken>>
  BY DEF RegisterRefused, Login, Register, AskPassword, SaveFails, CreateFile,
         WriteFails, CloseFile, Chat, Quit, SendFails, ReadEnds, ReadFails, Rest, server
<1>2. OwnLine(t)
  BY <1>1 DEF OwnLine
<1>3. /\ IF now.pc \in Linked THEN now.socket = now.n
         ELSE now.socket = 0 /\ ~now.connected
      /\ now.pc = "prompt" => now.outcome = "none"
      /\ now.outcome = "completed" => <<now.user, now.n>> \in taken
  BY DEF ExchangeInv, SocketInv, CompletedIsTaken
<1>4. CASE \E u \in Users : RegisterRefused(t, u)
  <2>1. PICK u \in Users : RegisterRefused(t, u)
    BY <1>4
  <2> DEFINE new == [Idle EXCEPT !.user = u, !.outcome = "refused"]
  <2>2. Proceeds(t, new)
    BY <1>0 DEF Proceeds, Terminal, Idle, Linked, Waiting, Resting
  <2> HIDE DEF new
  <2>3. QED
    BY <1>0, <1>1, <1>2, <2>1, <2>2, TermExchange DEF RegisterRefused, new
<1>5. CASE \E u \in Users : Login(t, u)
  <2>1. PICK u \in Users : Login(t, u)
    BY <1>5
  <2> DEFINE new == [Idle EXCEPT !.pc = "prompt", !.user = u, !.request = "get_key"]
  <2>2. Proceeds(t, new)
    BY <1>0 DEF Proceeds, Terminal, Idle, Linked, Waiting, Resting, Requests
  <2>3. QED
    BY <1>0, <1>1, <1>2, <2>1, <2>2, TermExchange DEF Login
<1>6. CASE \E u \in Users : Register(t, u)
  <2>1. PICK u \in Users : Register(t, u)
    BY <1>6
  <2> DEFINE new == [Idle EXCEPT !.pc = "generate", !.user = u, !.n = commands + 1]
  <2>2. commands + 1 \in Key /\ commands' = commands + 1 /\ commands' \in 0 .. MaxConns
    <3>1. commands < MaxConns /\ commands' = commands + 1
      BY <2>1 DEF Register
    <3>2. QED
      BY <1>0, <3>1, WireAssumption DEF Key, OldKey
  <2>3. Proceeds(t, new)
    BY <1>0, <2>2 DEF Proceeds, Terminal, Idle, Linked, Waiting, Resting
  <2>4. QED
    BY <1>0, <1>1, <1>2, <2>1, <2>2, <2>3, TermExchange DEF Register
<1>7. CASE AskPassword(t)
  <2>1. PICK p \in Passwords \cup {Empty} :
          term' = [term EXCEPT ![t].pc = "create", ![t].password = p]
    BY <1>7 DEF AskPassword
  <2> DEFINE new == [now EXCEPT !.pc = "create", !.password = p]
  <2>2. Proceeds(t, new)
    BY <1>0, <1>3, <1>7 DEF Proceeds, Terminal, AskPassword, Linked, Waiting, Resting
  <2>3. QED
    BY <1>0, <1>1, <1>2, <1>7, <2>1, <2>2, TermExchange DEF AskPassword
<1>8. CASE SaveFails(t) \/ WriteFails(t) \/ Quit(t)
  <2>1. Proceeds(t, Idle)
    BY <1>0 DEF Proceeds, Idle, Linked, Waiting, Resting
  <2>2. QED
    BY <1>0, <1>1, <1>2, <1>8, <2>1, TermExchange DEF SaveFails, WriteFails, Quit, End
<1>9. CASE CreateFile(t) \/ CloseFile(t)
  <2>1. PICK label \in {"write", "connect"} : Goto(t, label)
    BY <1>9 DEF CreateFile, CloseFile
  <2> DEFINE new == [now EXCEPT !.pc = label]
  <2>2. Proceeds(t, new)
    BY <1>0, <1>3, <1>9 DEF Proceeds, Terminal, CreateFile, CloseFile,
                            Linked, Waiting, Resting
  <2>3. QED
    BY <1>0, <1>1, <1>2, <1>9, <2>1, <2>2, TermExchange DEF CreateFile, CloseFile, Goto
<1>10. CASE Chat(t)
  <2> DEFINE new == [now EXCEPT !.pc = "connect", !.n = commands + 1]
  <2>1. commands + 1 \in Key /\ commands' = commands + 1 /\ commands' \in 0 .. MaxConns
    BY <1>0, <1>10, WireAssumption DEF Chat, Key, OldKey
  <2>2. Proceeds(t, new)
    BY <1>0, <1>3, <1>10, <2>1 DEF Proceeds, Terminal, Chat, Linked, Waiting, Resting
  <2>3. QED
    BY <1>0, <1>1, <1>2, <1>10, <2>1, <2>2, TermExchange DEF Chat
<1>11. CASE SendFails(t)
  <2>1. PICK connected \in BOOLEAN :
          term' = [term EXCEPT ![t].pc = "disconnect", ![t].connected = connected]
    BY <1>11 DEF SendFails
  <2> DEFINE new == [now EXCEPT !.pc = "disconnect", !.connected = connected]
  <2>2. Proceeds(t, new)
    BY <1>0, <1>3, <1>11 DEF Proceeds, Terminal, SendFails, Linked, Waiting, Resting
  <2>3. QED
    BY <1>0, <1>1, <1>2, <1>11, <2>1, <2>2, TermExchange DEF SendFails, Rest
<1>12. CASE ReadEnds(t) \/ ReadFails(t)
  <2> DEFINE new == [now EXCEPT !.pc = "disconnect"]
  <2>1. Proceeds(t, new)
    BY <1>0, <1>3, <1>12 DEF Proceeds, Terminal, ReadEnds, ReadFails,
                             Linked, Waiting, Resting
  <2>2. QED
    BY <1>0, <1>1, <1>2, <1>12, <2>1, TermExchange DEF ReadEnds, ReadFails, Goto, Rest
<1>13. QED
  BY <1>4, <1>5, <1>6, <1>7, <1>8, <1>9, <1>10, <1>11, <1>12

\* Where a request ends: at the prompt, or in the outcome of a registration.
LEMMA BackProceeds ==
  ASSUME IInv, ExchangeInv, NEW t \in Terminals, Back(t)
  PROVE  \E new : Proceeds(t, new) /\ term' = [term EXCEPT ![t] = new]
<1> DEFINE now == term[t]
           new ==
             CASE now.request = "get_key" ->
                    [Idle EXCEPT !.pc = "prompt", !.user = now.user, !.request = "get_key"]
               [] now.outcome = "completed" ->
                    [Idle EXCEPT !.user = now.user, !.n = now.n, !.outcome = "completed"]
               [] OTHER -> Idle
<1>1. /\ now \in Terminal /\ Idle \in Terminal
      /\ now.outcome = "completed" => <<now.user, now.n>> \in taken
  BY IdleType DEF IInv, TypeOK, ExchangeInv, CompletedIsTaken
<1>2. \/ new = [Idle EXCEPT !.pc = "prompt", !.user = now.user, !.request = "get_key"]
      \/ /\ now.outcome = "completed"
         /\ new = [Idle EXCEPT !.user = now.user, !.n = now.n, !.outcome = "completed"]
      \/ new = Idle
  OBVIOUS
<1>3. term' = [term EXCEPT ![t] = new]
  BY DEF Back
<1> HIDE DEF new
<1>4. /\ new \in Terminal /\ new.pc \in Resting /\ new.socket = 0 /\ ~new.connected
      /\ new.pc = "prompt" => new.outcome = "none"
      /\ new.outcome = "completed" => <<new.user, new.n>> \in taken
  <2>1. CASE new = [Idle EXCEPT !.pc = "prompt", !.user = now.user, !.request = "get_key"]
    BY <1>1, <2>1 DEF Terminal, Idle, Resting, Requests
  <2>2. CASE /\ now.outcome = "completed"
             /\ new = [Idle EXCEPT !.user = now.user, !.n = now.n, !.outcome = "completed"]
    BY <1>1, <2>2 DEF Terminal, Idle, Resting, Requests
  <2>3. CASE new = Idle
    BY <1>1, <2>3 DEF Idle, Resting
  <2>4. QED
    BY <1>2, <2>1, <2>2, <2>3
<1>5. Proceeds(t, new)
  BY <1>4 DEF Proceeds, Linked, Waiting, Resting
<1>6. QED
  BY <1>3, <1>5

\* Steps of a terminal on its connection.
LEMMA LineSteps ==
  ASSUME IInv, ExchangeInv, NEW t \in Terminals,
         \/ Connect(t) \/ SendHeader(t) \/ SendPayload(t) \/ ReadHeader(t)
         \/ ReadPayload(t) \/ Disconnect(t) \/ Crash(t)
  PROVE  ExchangeInv'
<1> DEFINE now == term[t]
           c == now.n
<1>0. /\ now \in Terminal /\ Idle \in Terminal /\ commands \in 0 .. MaxConns
      /\ chan \in [Conns -> Channel] /\ UNCHANGED <<taken, commands>>
      /\ commands' \in 0 .. MaxConns /\ commands' \in {commands, commands + 1}
  BY IdleType DEF IInv, TypeOK, Connect, SendHeader, SendPayload, ReadHeader,
     ReadPayload, Disconnect, Crash, Rest, server
<1>1. /\ IF now.pc \in Linked THEN now.socket = c ELSE now.socket = 0 /\ ~now.connected
      /\ now.pc \notin Resting => c \in 1 .. commands
      /\ now.pc \in Waiting => Line(chan[c], now, taken)
      /\ now.outcome = "completed" => <<now.user, now.n>> \in taken
  BY DEF ExchangeInv, SocketInv, LineInv, CompletedIsTaken
<1>2. now.pc \notin Resting => c \in Conns /\ chan[c] \in Channel
  BY <1>0, <1>1, WireAssumption DEF Conns
<1>3. ASSUME NEW new, chan' = [chan EXCEPT ![c] = new], now.pc \notin Resting
      PROVE  OwnLine(t) /\ chan'[c] = new
  BY <1>0, <1>2, <1>3 DEF OwnLine
<1>4. CASE Connect(t)
  <2>1. CASE Back(t) /\ UNCHANGED chan
    <3>1. OwnLine(t)
      BY <2>1 DEF OwnLine
    <3>2. QED
      BY <1>0, <2>1, <3>1, BackProceeds, TermExchange
  <2>2. CASE /\ chan' = Connected(c)
             /\ term' = [term EXCEPT ![t].pc = "send_header",
                           ![t].socket = c, ![t].connected = TRUE]
    <3> DEFINE new == [now EXCEPT !.pc = "send_header", !.socket = c, !.connected = TRUE]
               fresh == [Unused EXCEPT !.client = "open", !.server = "backlog"]
    <3>1. now.pc = "connect" /\ now.pc \notin Resting
      BY <1>4 DEF Connect, Resting
    <3>2. OwnLine(t) /\ chan'[c] = fresh
      BY <1>3, <2>2, <3>1 DEF Connected
    <3>3. /\ new \in Terminal /\ new.pc = "send_header" /\ new.socket = new.n
          /\ new.n = c /\ new.outcome = now.outcome /\ new.user = now.user
      BY <1>0 DEF Terminal
    <3>4. Line(fresh, new, taken)
      BY <3>3, LineBegun
    <3> HIDE DEF new, fresh
    <3>5. Proceeds(t, new)
      BY <1>1, <3>1, <3>2, <3>3, <3>4 DEF Proceeds, Linked, Waiting, Resting
    <3>6. QED
      BY <1>0, <2>2, <3>2, <3>5, TermExchange DEF new
  <2>3. now.pc = "connect" /\ ~now.connected
    BY <1>1, <1>4 DEF Connect, Linked
  <2>4. QED
    BY <1>4, <2>1, <2>2, <2>3 DEF Connect
<1>5. CASE SendHeader(t) \/ SendPayload(t)
  <2> DEFINE label == IF SendHeader(t) THEN "send_payload" ELSE "read_header"
             part == IF SendHeader(t) THEN Header(now.request) ELSE Request(now)
             new == [now EXCEPT !.pc = label]
             sent == Put(chan[c], part)
  <2>1. /\ now.pc \in {"send_header", "send_payload"} /\ now.socket = c
        /\ now.pc = "send_header" <=> SendHeader(t)
    BY <1>1, <1>5 DEF SendHeader, SendPayload, Linked
  <2>2. chan' = [chan EXCEPT ![c] = sent] /\ term' = [term EXCEPT ![t] = new]
    BY <1>5, <2>1 DEF SendHeader, SendPayload, Sent, Goto, Request
  <2>3. now.pc \notin Resting /\ now.pc \in Waiting
    BY <2>1 DEF Waiting, Linked, Resting
  <2>4. OwnLine(t) /\ chan'[c] = sent
    BY <1>3, <2>2, <2>3
  <2>5. label \in {"send_payload", "read_header"}
    OBVIOUS
  <2>6. new \in Terminal /\ Onward(now, new, label)
        /\ new.socket = now.socket /\ new.outcome = now.outcome
    BY <1>0, <2>5 DEF Terminal, Onward
  <2>7. Line(sent, new, taken)
    BY <1>1, <1>2, <2>1, <2>3, <2>6, LineSaid
  <2> HIDE DEF new, label, sent
  <2>8. Proceeds(t, new)
    BY <1>1, <2>1, <2>3, <2>4, <2>5, <2>6, <2>7
    DEF Proceeds, Onward, Linked, Waiting, Resting
  <2>9. QED
    BY <1>0, <2>2, <2>4, <2>8, TermExchange
<1>6. CASE ReadHeader(t)
  <2> DEFINE new == [now EXCEPT !.pc = "read_payload"]
             left == [chan[c] EXCEPT !.down = Tail(chan[c].down)]
  <2>1. now.pc = "read_header" /\ now.socket = c /\ now.pc \notin Resting /\ now.pc \in Waiting
    BY <1>1, <1>6 DEF ReadHeader, Linked, Waiting, Resting
  <2>2. chan[c].down # <<>> /\ chan' = [chan EXCEPT ![c] = left]
        /\ term' = [term EXCEPT ![t] = new]
    BY <1>6, <2>1 DEF ReadHeader, Read, Goto
  <2>3. OwnLine(t) /\ chan'[c] = left
    BY <1>3, <2>1, <2>2
  <2>4. new \in Terminal /\ Onward(now, new, "read_payload")
        /\ new.socket = now.socket /\ new.outcome = now.outcome
    BY <1>0 DEF Terminal, Onward
  <2>5. Line(left, new, taken)
    BY <1>1, <1>2, <2>1, <2>2, <2>4, LineRead
  <2> HIDE DEF new, left
  <2>6. Proceeds(t, new)
    BY <1>1, <2>1, <2>3, <2>4, <2>5 DEF Proceeds, Onward, Linked, Waiting, Resting
  <2>7. QED
    BY <1>0, <2>2, <2>3, <2>6, TermExchange
<1>7. CASE ReadPayload(t)
  <2> DEFINE answer == Head(chan[c].down)
             outcome == IF /\ answer.type = Expected(now.request)
                           /\ answer.code = "success"
                        THEN "completed" ELSE "none"
             new == [now EXCEPT !.pc = "disconnect", !.outcome = outcome]
  <2>1. now.pc = "read_payload" /\ now.socket = c /\ now.pc \notin Resting /\ now.pc \in Waiting
    BY <1>1, <1>7 DEF ReadPayload, Linked, Waiting, Resting
  <2>2. /\ chan[c].down # <<>>
        /\ chan' = [chan EXCEPT ![c] = [chan[c] EXCEPT !.down = Tail(chan[c].down)]]
        /\ term' = [term EXCEPT ![t] = new]
    BY <1>7, <2>1 DEF ReadPayload, Read
  <2>3. OwnLine(t)
    BY <1>3, <2>1, <2>2
  <2>4. Replies(answer, now, taken)
    BY <1>1, <1>2, <2>1, <2>2, LineJudged
  <2>5. /\ outcome \in {"none", "completed"}
        /\ outcome = "completed" => <<now.user, now.n>> \in taken
    BY <2>4 DEF Replies, Expected, AnswerType
  <2> HIDE DEF outcome, answer
  <2>6. Proceeds(t, new)
    BY <1>0, <1>1, <2>1, <2>5 DEF Proceeds, Terminal, Linked, Waiting, Resting
  <2> HIDE DEF new
  <2>7. QED
    BY <1>0, <2>2, <2>3, <2>6, TermExchange
<1>8. CASE Disconnect(t)
  <2> DEFINE told == IF now.connected THEN Put(chan[c], Header("logout")) ELSE chan[c]
  <2>1. now.pc \notin Resting /\ now.socket = c
    BY <1>1, <1>8 DEF Disconnect, Linked, Resting
  <2>2. chan' = [chan EXCEPT ![c] = Close(told)] /\ Back(t)
    BY <1>8, <2>1 DEF Disconnect
  <2> HIDE DEF told
  <2>3. OwnLine(t)
    BY <1>3, <2>1, <2>2
  <2>4. QED
    BY <1>0, <2>2, <2>3, BackProceeds, TermExchange
<1>9. CASE Crash(t)
  <2>1. OwnLine(t)
    <3>1. CASE now.socket = 0
      BY <1>9, <3>1 DEF Crash, OwnLine
    <3>2. CASE now.socket # 0
      <4>1. now.pc \notin Resting /\ now.socket = c
        BY <1>1, <3>2 DEF Linked, Resting
      <4>2. QED
        BY <1>3, <1>9, <3>2, <4>1 DEF Crash, HangUp
    <3>3. QED
      BY <3>1, <3>2
  <2>2. Proceeds(t, Idle)
    BY <1>0 DEF Proceeds, Idle, Linked, Waiting, Resting
  <2>3. QED
    BY <1>0, <1>9, <2>1, <2>2, TermExchange DEF Crash
<1>10. QED
  BY <1>4, <1>5, <1>6, <1>7, <1>8, <1>9

LEMMA InitExchange == Init => ExchangeInv
BY DEF Init, WireInit, ExchangeInv, SocketInv, LineInv, CompletedIsTaken, Idle,
       Linked, Waiting, Resting

LEMMA NextExchange == IInv /\ ExchangeInv /\ [Next]_vars => ExchangeInv'
<1> SUFFICES ASSUME IInv, ExchangeInv, [Next]_vars PROVE ExchangeInv'
  OBVIOUS
<1>1. CASE Server /\ UNCHANGED <<file, term, raced, commands>>
  BY <1>1, ServerSteps
<1>2. ASSUME NEW t \in Terminals,
             Command(t) \/ Save(t) \/ Exchange(t) \/ ReadFails(t) \/ Crash(t)
      PROVE  ExchangeInv'
  BY <1>2, QuietSteps, LineSteps DEF Command, Save, Exchange
<1>3. CASE UNCHANGED vars
  BY <1>3 DEF ExchangeInv, SocketInv, LineInv, CompletedIsTaken, vars, server
<1>4. QED
  BY <1>1, <1>2, <1>3 DEF Next

\* The streams of a request under way are in step with the terminal's place,
\* for any number of terminals and connections.
THEOREM ExchangeInvariance == Spec => []ExchangeInv
BY InitExchange, NextExchange, Invariance, PTL DEF Spec

\* CompletedIsTaken: an answer that completes a registration (user.c:64-75)
\* is the server's to this very request, which took the key.
THEOREM CompletionsAreTrue == Spec => []CompletedIsTaken
<1>1. ExchangeInv => CompletedIsTaken
  BY DEF ExchangeInv
<1>2. QED
  BY <1>1, ExchangeInvariance, PTL

\* InStep: what a request reads first is the header of its own answer.
THEOREM RequestsInStep == Spec => []InStep
<1>1. IInv /\ ExchangeInv => InStep
  <2> SUFFICES ASSUME IInv, ExchangeInv, NEW t \in Terminals,
                      term[t].pc \in {"send_header", "send_payload", "read_header"}
               PROVE  LET ch == chan[term[t].socket] IN
                      /\ Len(ch.down) + (IF ch.owed = None THEN 0 ELSE 1) <= 2
                      /\ ch.down # <<>> =>
                           /\ term[t].pc = "read_header"
                           /\ Head(ch.down) = Header(IF term[t].request = "register"
                                                     THEN "register_response" ELSE "error")
    BY DEF InStep
  <2> DEFINE now == term[t]
             ch == chan[now.socket]
             header == Header(AnswerType(now))
  <2>1. Line(ch, now, taken)
    BY DEF ExchangeInv, SocketInv, LineInv, Linked, Waiting
  <2>2. now.pc = "read_header" => Unread(now) = <<header>>
    BY DEF Unread
  <2>3. now.pc \in {"send_header", "send_payload", "read_header"}
    OBVIOUS
  <2>4. header = Header(IF now.request = "register" THEN "register_response" ELSE "error")
    BY DEF AnswerType
  <2> HIDE DEF now, ch, header
  <2>5. /\ Len(<<>>) = 0 /\ Len(<<header>>) = 1 /\ Head(<<header>>) = header
        /\ \A p : Len(Append(<<header>>, p)) = 2 /\ Head(Append(<<header>>, p)) = header
    BY Pair
  <2>6. \/ ch.down = <<>>
        \/ /\ now.pc = "read_header" /\ ch.down = <<header>>
        \/ /\ now.pc = "read_header" /\ ch.owed = None
           /\ \E p : ch.down = Append(<<header>>, p)
    BY <2>1, <2>2, <2>3
    DEF Line, Unanswered, HalfAnswered, WhollyAnswered, CutOff, Reading
  <2>7. /\ Len(ch.down) + (IF ch.owed = None THEN 0 ELSE 1) <= 2
        /\ ch.down # <<>> => now.pc = "read_header" /\ Head(ch.down) = header
    <3>1. CASE ch.down = <<>>
      BY <2>5, <3>1
    <3>2. CASE now.pc = "read_header" /\ ch.down = <<header>>
      BY <2>5, <3>2
    <3>3. CASE /\ now.pc = "read_header" /\ ch.owed = None
               /\ \E p : ch.down = Append(<<header>>, p)
      <4>1. Len(ch.down) = 2 /\ Head(ch.down) = header
        BY <2>5, <3>3
      <4>2. QED
        BY <3>3, <4>1
    <3>4. QED
      BY <2>6, <3>1, <3>2, <3>3
  <2>8. QED
    BY <2>4, <2>7 DEF now, ch
<1>2. QED
  BY <1>1, Invariance, ExchangeInvariance, PTL
=============================================================================
