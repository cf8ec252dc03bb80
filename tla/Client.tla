------------------------------- MODULE Client -------------------------------
(***************************************************************************)
(* The client program: accounts, their key files, and what it does on a    *)
(* connection.  A terminal runs one command of the program after another:  *)
(* --register, or --login and then any number of chats.                    *)
(*                                                                         *)
(* A command is cut at every access to the key file and every send and     *)
(* recv.  The program can end at any of them, files are shared by all      *)
(* terminals, and writing a file can fail as the code tells it apart.      *)
(***************************************************************************)
EXTENDS Wire

CONSTANTS
  Terminals,
  Passwords,     \* passwords people choose
  Empty          \* the empty password

ASSUME ClientAssumption == Empty \notin Passwords

VARIABLES
  file,     \* user -> ~/.c-chat/<user>.keys: its state and, if whole, content
  term,     \* terminal -> the command it runs
  raced,    \* users that two terminals registered at once
  commands  \* registrations and chats begun

vars == <<chan, server, file, term, raced, commands>>

Absent == [state |-> "absent", key |-> NoKey, password |-> Empty]
Torn == [state |-> "torn", key |-> NoKey, password |-> Empty]
Whole(k, p) == [state |-> "whole", key |-> k, password |-> p]
File == {Absent, Torn} \cup {Whole(k, p) : k \in Key \ {NoKey},
                                           p \in Passwords \cup {Empty}}

\* n numbers the command, and the key pair and the connection it may make;
\* connected is the flag connected_to_server.  An idle terminal shows the
\* outcome of its last command: refused, completed or something else.
Idle == [pc |-> "idle", user |-> None, request |-> "register", n |-> 0,
         socket |-> 0, password |-> Empty, connected |-> FALSE, outcome |-> "none"]

\* A user may have an account already, with an earlier server, whose users
\* are forgotten.
Init ==
  /\ WireInit
  /\ file \in [Users -> {Absent} \cup {Whole(OldKey, p) : p \in Passwords}]
  /\ taken = {<<u, file[u].key>> : u \in {v \in Users : file[v].state = "whole"}}
  /\ term = [t \in Terminals |-> Idle]
  /\ raced = {}
  /\ commands = 0

Goto(t, label) == term' = [term EXCEPT ![t].pc = label]
End(t) == term' = [term EXCEPT ![t] = Idle]

\* A terminal between its look for the key file and the end of its writing.
Registering(t) == term[t].pc \in {"generate", "create", "write"}

-----------------------------------------------------------------------------
(* --register: the key file.                                               *)

\* stat finds a file: "already exists. Use --login instead."
RegisterRefused(t, u) ==
  /\ term[t].pc = "idle"
  /\ file[u].state # "absent"
  /\ term' = [term EXCEPT ![t] = [Idle EXCEPT !.user = u, !.outcome = "refused"]]
  /\ UNCHANGED <<chan, server, file, raced, commands>>

\* Mutated form of Register, in no specification: it does not look for a file.
RegisterAnew(t, u) ==
  /\ term[t].pc = "idle"
  /\ commands < MaxConns
  /\ commands' = commands + 1
  /\ term' = [term EXCEPT ![t] = [Idle EXCEPT !.pc = "generate", !.user = u,
                                              !.n = commands + 1]]
  /\ raced' = IF \E s \in Terminals \ {t} : Registering(s) /\ term[s].user = u
              THEN raced \cup {u} ELSE raced
  /\ UNCHANGED <<chan, server, file>>

Register(t, u) ==
  /\ term[t].pc = "idle"
  /\ file[u].state = "absent"
  /\ commands < MaxConns
  /\ commands' = commands + 1
  /\ term' = [term EXCEPT ![t] = [Idle EXCEPT !.pc = "generate", !.user = u,
                                              !.n = commands + 1]]
  /\ raced' = IF \E s \in Terminals \ {t} : Registering(s) /\ term[s].user = u
              THEN raced \cup {u} ELSE raced
  /\ UNCHANGED <<chan, server, file>>

\* The key pair is made and the password asked for twice.  When the two
\* differ both are erased, and the loop that should ask again finds them
\* equal: the password is then empty.
AskPassword(t) ==
  /\ term[t].pc = "generate"
  /\ \E p \in Passwords \cup {Empty} :
       term' = [term EXCEPT ![t].pc = "create", ![t].password = p]
  /\ UNCHANGED <<chan, server, file, raced, commands>>

\* No key pair, no directory, no derived key, no file: nothing is left behind.
SaveFails(t) ==
  /\ term[t].pc \in {"generate", "create"}
  /\ End(t)
  /\ UNCHANGED <<chan, server, file, raced, commands>>

\* fopen with "wb" makes the file, or empties the one that is there by now.
CreateFile(t) ==
  /\ term[t].pc = "create"
  /\ file' = [file EXCEPT ![term[t].user] = Torn]
  /\ Goto(t, "write")
  /\ UNCHANGED <<chan, server, raced, commands>>

\* Mutated form of WriteFails: the file is removed, the registration goes on.
WriteFailsUnheeded(t) ==
  /\ term[t].pc = "write"
  /\ file' = [file EXCEPT ![term[t].user] = Absent]
  /\ Goto(t, "connect")
  /\ UNCHANGED <<chan, server, raced, commands>>

\* A part cannot be written: the file is removed.
WriteFails(t) ==
  /\ term[t].pc = "write"
  /\ file' = [file EXCEPT ![term[t].user] = Absent]
  /\ End(t)
  /\ UNCHANGED <<chan, server, raced, commands>>

\* Mutated form of CloseFile: the keys are erased before they are written.
CloseFileErased(t) ==
  /\ term[t].pc = "write"
  /\ file' = [file EXCEPT ![term[t].user] = Whole(NoKey, term[t].password)]
  /\ Goto(t, "connect")
  /\ UNCHANGED <<chan, server, raced, commands>>

\* The four parts are in the stream's buffer and reach the file when it is
\* closed; that they do is not checked.
CloseFile(t) ==
  /\ term[t].pc = "write"
  /\ \E content \in {file[term[t].user], Torn, Whole(term[t].n, term[t].password)} :
       file' = [file EXCEPT ![term[t].user] = content]
  /\ Goto(t, "connect")
  /\ UNCHANGED <<chan, server, raced, commands>>

-----------------------------------------------------------------------------
(* --login and chat.                                                       *)

\* load_keys_from_file, with the password the keys were saved with.  A torn
\* file is too short, another password does not decrypt.
Loads(u) == file[u].state = "whole"

\* login_user loads the keys and says "Authentication successful!"; the server
\* is not asked.
Login(t, u) ==
  /\ term[t].pc = "idle"
  /\ Loads(u)
  /\ term' = [term EXCEPT ![t] = [Idle EXCEPT !.pc = "prompt", !.user = u,
                                              !.request = "get_key"]]
  /\ UNCHANGED <<chan, server, file, raced, commands>>

\* chat <user>: the keys are loaded once more, then the server is asked for
\* the other's key.
Chat(t) ==
  /\ term[t].pc = "prompt"
  /\ Loads(term[t].user)
  /\ commands < MaxConns
  /\ commands' = commands + 1
  /\ term' = [term EXCEPT ![t].pc = "connect", ![t].n = commands + 1]
  /\ UNCHANGED <<chan, server, file, raced>>

Quit(t) ==
  /\ term[t].pc = "prompt"
  /\ End(t)
  /\ UNCHANGED <<chan, server, file, raced, commands>>

-----------------------------------------------------------------------------
(* A request: connect_to_server, two sends, two recvs, disconnect.         *)

Rest == <<server, file, raced, commands>>

\* Where the request began: a chat always fails, and leads back to the prompt.
Back(t) ==
  LET now == term[t] IN
  term' = [term EXCEPT ![t] =
    CASE now.request = "get_key" ->
           [Idle EXCEPT !.pc = "prompt", !.user = now.user, !.request = "get_key"]
      [] now.outcome = "completed" ->
           [Idle EXCEPT !.user = now.user, !.n = now.n, !.outcome = "completed"]
      [] OTHER -> Idle]

\* A connection still marked as connected would be used again.
Connect(t) ==
  /\ term[t].pc = "connect"
  /\ \/ /\ running
        /\ IF term[t].connected
           THEN Goto(t, "send_header") /\ UNCHANGED chan
           ELSE /\ chan' = Connected(term[t].n)
                /\ term' = [term EXCEPT ![t].pc = "send_header",
                              ![t].socket = term[t].n, ![t].connected = TRUE]
     \/ Back(t) /\ UNCHANGED chan
  /\ UNCHANGED Rest

\* A send fails; only a broken connection clears the flag.
SendFails(t) ==
  /\ term[t].pc \in {"send_header", "send_payload"}
  /\ \E connected \in BOOLEAN :
       term' = [term EXCEPT ![t].pc = "disconnect", ![t].connected = connected]
  /\ UNCHANGED <<chan, Rest>>

SendHeader(t) ==
  /\ term[t].pc = "send_header"
  /\ chan' = Sent(term[t].socket, Header(term[t].request))
  /\ Goto(t, "send_payload")
  /\ UNCHANGED Rest

SendPayload(t) ==
  /\ term[t].pc = "send_payload"
  /\ chan' = Sent(term[t].socket, IF term[t].request = "register"
                                  THEN Asked("register", term[t].user, term[t].n)
                                  ELSE Asked("get_key", None, NoKey))
  /\ Goto(t, "read_header")
  /\ UNCHANGED Rest

\* The next part of the stream is taken for what is expected.
Read(t) ==
  LET down == chan[term[t].socket].down IN
  /\ down # <<>>
  /\ chan' = [chan EXCEPT ![term[t].socket].down = Tail(down)]

ReadHeader(t) ==
  /\ term[t].pc = "read_header"
  /\ Read(t)
  /\ Goto(t, "read_payload")
  /\ UNCHANGED Rest

\* The type of answer that is taken.
Expected(request) == IF request = "register" THEN "register_response" ELSE "key_response"

\* Mutated form of ReadPayload: the success byte is not looked at.
ReadPayloadBlindly(t) ==
  LET answer == Head(chan[term[t].socket].down) IN
  /\ term[t].pc = "read_payload"
  /\ Read(t)
  /\ term' = [term EXCEPT ![t].pc = "disconnect", ![t].outcome =
       IF answer.type = Expected(term[t].request) THEN "completed" ELSE "none"]
  /\ UNCHANGED Rest

\* The answer is judged.  A chat ends here: it never gets a key_response.
ReadPayload(t) ==
  LET answer == Head(chan[term[t].socket].down) IN
  /\ term[t].pc = "read_payload"
  /\ Read(t)
  /\ term' = [term EXCEPT ![t].pc = "disconnect", ![t].outcome =
       IF answer.type = Expected(term[t].request) /\ answer.code = "success"
       THEN "completed" ELSE "none"]
  /\ UNCHANGED Rest

\* recv finds the end of the stream.
ReadEnds(t) ==
  /\ term[t].pc \in {"read_header", "read_payload"}
  /\ chan[term[t].socket].down = <<>>
  /\ chan[term[t].socket].server = "closed"
  /\ Goto(t, "disconnect")
  /\ UNCHANGED <<chan, Rest>>

\* recv or the allocation of the payload fails: what was sent stays unread.
ReadFails(t) ==
  /\ term[t].pc \in {"read_header", "read_payload"}
  /\ Goto(t, "disconnect")
  /\ UNCHANGED <<chan, Rest>>

\* Mutated form of Disconnect: a chat that failed keeps its connection.
DisconnectKeeps(t) ==
  LET c == term[t].socket
      told == IF term[t].connected THEN Put(chan[c], Header("logout")) ELSE chan[c]
      chat == term[t].request = "get_key" IN
  /\ term[t].pc = "disconnect"
  /\ chan' = IF chat THEN chan
             ELSE [chan EXCEPT ![c] = Close(told)]
  /\ IF chat THEN Goto(t, "prompt") ELSE Back(t)
  /\ UNCHANGED Rest

\* LOGOUT, where the connection is not known to be broken, and close.
Disconnect(t) ==
  LET c == term[t].socket
      told == IF term[t].connected THEN Put(chan[c], Header("logout")) ELSE chan[c] IN
  /\ term[t].pc = "disconnect"
  /\ chan' = [chan EXCEPT ![c] = Close(told)]
  /\ Back(t)
  /\ UNCHANGED Rest

\* The program is ended from outside, or its machine is.
Crash(t) ==
  /\ term[t].pc # "idle"
  /\ chan' = IF term[t].socket = 0 THEN chan ELSE HangUp(term[t].socket)
  /\ term' = [term EXCEPT ![t] = Idle]
  /\ UNCHANGED Rest

-----------------------------------------------------------------------------

Save(t) ==
  \/ AskPassword(t) \/ SaveFails(t) \/ CreateFile(t) \/ WriteFails(t) \/ CloseFile(t)

Exchange(t) ==
  \/ Connect(t) \/ SendHeader(t) \/ SendPayload(t) \/ SendFails(t)
  \/ ReadHeader(t) \/ ReadPayload(t) \/ ReadEnds(t) \/ Disconnect(t)

Command(t) ==
  \/ \E u \in Users : Register(t, u) \/ RegisterRefused(t, u) \/ Login(t, u)
  \/ Chat(t) \/ Quit(t)

Next ==
  \/ Server /\ UNCHANGED <<file, term, raced, commands>>
  \/ \E t \in Terminals :
       Command(t) \/ Save(t) \/ Exchange(t) \/ ReadFails(t) \/ Crash(t)

Spec == Init /\ [][Next]_vars

\* A command goes on, and so does what the server does for a connection: it
\* accepts, answers and leaves.  Nobody has to stop the server, to start it,
\* or to end a program.
Fairness ==
  /\ \A t \in Terminals : WF_vars(Save(t) \/ Exchange(t))
  /\ \A c \in Conns :
       WF_vars(Handler(c) /\ UNCHANGED <<file, term, raced, commands>>)

FairSpec == Spec /\ Fairness

-----------------------------------------------------------------------------

Channel ==
  [up : Seq(Part), down : Seq(Part), owed : Part \cup {None},
   client : {"unused", "open", "closed"},
   server : {"unused", "backlog", "serving", "answering", "closed"}]

Terminal ==
  [pc : {"idle", "generate", "create", "write", "connect", "send_header",
         "send_payload", "read_header", "read_payload", "disconnect", "prompt"},
   user : Users \cup {None}, request : Requests, n : Key, socket : Key,
   password : Passwords \cup {Empty}, connected : BOOLEAN,
   outcome : {"none", "refused", "completed"}]

TypeOK ==
  /\ chan \in [Conns -> Channel]
  /\ registered \in [Users -> Key]
  /\ running \in BOOLEAN
  /\ taken \subseteq Users \X Key
  /\ file \in [Users -> File]
  /\ term \in [Terminals -> Terminal]
  /\ raced \subseteq Users
  /\ commands \in 0 .. MaxConns

\* What the server holds of a user and what the user's key file holds are the
\* same key, however often registrations failed, programs died between two
\* writes or two sends, and servers came and went.  Two terminals that register
\* one name at the same time can break it: the look for the file and its
\* making are not one step (user.c:25, crypto.c:181).
KeysAgree ==
  \A u \in Users \ raced :
    registered[u] # NoKey /\ file[u].state = "whole" => file[u].key = registered[u]

\* A key file that is whole is never changed or removed again, by a later
\* registration that fails or by one that is refused.
KeysKept ==
  [][\A u \in Users \ raced' : file[u].state = "whole" => file'[u] = file[u]]_vars

\* When the program says that the registration is complete, a server took
\* this very key: no answer to something else is taken for it.
CompletedIsTaken ==
  \A t \in Terminals :
    term[t].outcome = "completed" => <<term[t].user, term[t].n>> \in taken

\* Requests and answers stay in step: what a request will read first is the
\* header of its own answer, though earlier requests failed with their
\* answers half read or still to come.
InStep ==
  \A t \in Terminals :
    LET ch == chan[term[t].socket] IN
    term[t].pc \in {"send_header", "send_payload", "read_header"} =>
      /\ Len(ch.down) + (IF ch.owed = None THEN 0 ELSE 1) <= 2
      /\ ch.down # <<>> =>
           /\ term[t].pc = "read_header"
           /\ Head(ch.down) = Header(IF term[t].request = "register"
                                     THEN "register_response" ELSE "error")

\* Every command ends, or comes back to its prompt, whatever the server does.
CommandsEnd ==
  \A t \in Terminals :
    (term[t].pc \notin {"idle", "prompt"}) ~> (term[t].pc \in {"idle", "prompt"})

\* user.c:83: "Your keys are saved locally and you can register with the server
\* later."  Whose registration is refused for the sake of a whole key file has
\* had that key taken by a server.
RegisterLater ==
  \A t \in Terminals :
    LET u == term[t].user IN
    term[t].outcome = "refused" /\ file[u].state = "whole"
      => <<u, file[u].key>> \in taken
=============================================================================
