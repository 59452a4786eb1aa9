---------------------------- MODULE FileService -----------------------------
(***************************************************************************)
(* The file service of A3: the Python server (python/server/server.py),    *)
(* which keeps its users in memory and serves one connection per thread,   *)
(* and the C client (src/networking.c), a process that registers its user  *)
(* unless salts.csv of its directory knows the name, and then fetches      *)
(* files, one connection per request, through one read buffer that is      *)
(* never reset (compsys_helpers.c).                                        *)
(*                                                                         *)
(* A block of a response is two units on the wire, header and payload.  A  *)
(* read() takes any part of what has arrived, and readnb repeats it until  *)
(* it has what it wants or the connection is closed.  Hashes are taken to  *)
(* tell different data apart, and a salt is named for the process that     *)
(* draws it.                                                               *)
(***************************************************************************)
EXTENDS Integers, Sequences, FiniteSets

CONSTANTS
  Clients,     \* client processes, each of which runs once
  User,        \* User[c]: the username typed in process c
  Password,    \* Password[c]: the password typed
  Dir,         \* Dir[c]: the directory process c runs in
  Blocks,      \* Blocks[p]: how many blocks the server's file p takes
  Missing,     \* a path the server does not have, or cannot read as text
  OneAtATime,  \* whether a directory runs one client process at a time
  MaxGets,     \* bound: MaxGets[c] files are fetched by process c
  MaxCrashes,  \* bound: clients killed and servers restarted
  None         \* no signature, path or file

Paths == DOMAIN Blocks
Names == {User[c] : c \in Clients}
Dirs  == {Dir[c] : c \in Clients}

ASSUME ServiceAssumption ==
  /\ Blocks \in [Paths -> Nat] /\ Missing \notin Paths
  /\ OneAtATime \in BOOLEAN /\ MaxGets \in [Clients -> Nat] /\ MaxCrashes \in Nat
  /\ \A c, b \in Clients : None # <<Password[c], b>>

VARIABLES
  users,    \* server: users[n] is the signature registered for n, or None
  thread,   \* thread[c]: the server thread of c's connection
  wire,     \* wire[c]: units sent to c and not yet read
  rio,      \* rio[c]: the units in the buffer of compsys_helper_state_t
  salts,    \* salts[d]: the lines of salts.csv
  disk,     \* disk[d][p]: the numbers of the blocks written to file p, or None
  client,   \* client[c]: where process c is, and its local variables
  gets,     \* gets[c]: the requests c has made
  crashes,
  acked     \* history: who has been told OK for a registration that still stands

vars == <<users, thread, wire, rio, salts, disk, client, gets, crashes, acked>>

Statuses  == {"OK", "USER_EXISTS", "USER_MISSING", "INVALID_LOGIN", "BAD_REQUEST"}
Signature(c) == <<Password[c], client[c].salt>>
Whole(p)     == [i \in 1..Blocks[p] |-> i - 1]
Account(c)   == <<Dir[c], User[c], Password[c]>>

\* A header or a payload; request tells which request of its client it answers.
Unit == [kind : {"header", "payload"}, status : Statuses, num : Nat, count : Nat,
         path : Paths \cup {Missing, None}, request : Nat]
NoHeader == [kind |-> "header", status |-> "BAD_REQUEST", num |-> 0, count |-> 0,
             path |-> None, request |-> 0]

\* No connection, or one that the server has closed.
Idle == [at |-> "closed", path |-> None, sig |-> None, status |-> "OK", count |-> 0, left |-> {}]

Init ==
  /\ users = [n \in Names |-> None]
  /\ thread = [c \in Clients |-> Idle]
  /\ wire = [c \in Clients |-> << >>]
  /\ rio = [c \in Clients |-> << >>]
  /\ salts = [d \in Dirs |-> << >>]
  /\ disk = [d \in Dirs |-> [p \in Paths |-> None]]
  /\ client = [c \in Clients |-> [at |-> "off", salt |-> c, path |-> None, count |-> 0,
                                  header |-> NoHeader, array |-> << >>, i |-> 0]]
  /\ gets = [c \in Clients |-> 0]
  /\ crashes = 0
  /\ acked = {}

-----------------------------------------------------------------------------
(* The server *)

ServerOnly == UNCHANGED <<rio, salts, disk, client, gets, crashes, acked>>
At(c, stage) == thread[c].at = stage
Block(c, kind, b) == [kind |-> kind, status |-> thread[c].status, num |-> b,
                      count |-> thread[c].count, path |-> thread[c].path, request |-> gets[c]]

\* _build_and_send_responses cuts what it sends into blocks: an empty file into
\* none, to which no response is sent.
Respond(c, status, count) ==
  thread' = [thread EXCEPT ![c] =
    IF count = 0 THEN Idle
    ELSE [@ EXCEPT !.at = "send", !.status = status, !.count = count, !.left = 0..(count - 1)]]

\* mutant: the error is handled twice, for want of a return
Message_Twice(c, status) == Respond(c, status, 2)

\* A message fits one block.
Message(c, status) == Respond(c, status, 1)

IsNew(c) == users[User[c]] = None

\* _register_new_user looks the name up ...
CheckName(c) ==
  /\ At(c, "register")
  /\ \/ IsNew(c) /\ thread' = [thread EXCEPT ![c].at = "insert"]
     \/ ~IsNew(c) /\ Message(c, "USER_EXISTS")
  /\ UNCHANGED <<users, wire>> /\ ServerOnly

\* ... and inserts it: another thread may have done so in between.
InsertUser(c) ==
  /\ At(c, "insert")
  /\ users' = [users EXCEPT ![User[c]] = thread[c].sig]
  /\ Message(c, "OK")
  /\ acked' = {a \in acked : a[2] # User[c]}
  /\ UNCHANGED <<wire, rio, salts, disk, client, gets, crashes>>

\* _handle_request
HandleRequest(c) ==
  LET known == users[User[c]]
      path  == thread[c].path IN
    /\ At(c, "request")
    /\ \/ known = None /\ Message(c, "USER_MISSING")
       \/ known \notin {None, thread[c].sig} /\ Message(c, "INVALID_LOGIN")
       \/ known = thread[c].sig /\ path = Missing /\ Message(c, "BAD_REQUEST")
       \/ known = thread[c].sig /\ path # Missing /\ Respond(c, "OK", Blocks[path])
    /\ UNCHANGED <<users, wire>> /\ ServerOnly

\* mutant: the connection stays open after the last block
AfterBlock_KeptOpen(t) == t

AfterBlock(t) == IF t.left = {} THEN Idle ELSE t

\* The blocks go out in a random order; then the connection is closed.
SendBlock(c) ==
  /\ At(c, "send")
  /\ \E b \in thread[c].left :
       /\ wire' = [wire EXCEPT ![c] = @ \o <<Block(c, "header", b), Block(c, "payload", b)>>]
       /\ thread' = [thread EXCEPT ![c] = AfterBlock([@ EXCEPT !.left = thread[c].left \ {b}])]
  /\ UNCHANGED users /\ ServerOnly

\* The server is stopped and started again: its users and connections are gone,
\* and one block may be cut off after its header.
Restart ==
  /\ crashes < MaxCrashes
  /\ crashes' = crashes + 1
  /\ users' = [n \in Names |-> None]
  /\ thread' = [c \in Clients |-> Idle]
  /\ acked' = {}
  /\ \/ UNCHANGED wire
     \/ \E c \in Clients : At(c, "send") /\ \E b \in thread[c].left :
          wire' = [wire EXCEPT ![c] = Append(@, Block(c, "header", b))]
  /\ UNCHANGED <<rio, salts, disk, client, gets>>

-----------------------------------------------------------------------------
(* The read buffer *)

\* readnb of one unit: from the buffer, or from a read() of part of the wire.
Take(c) ==
  \/ /\ rio[c] # << >>
     /\ rio' = [rio EXCEPT ![c] = Tail(@)]
     /\ UNCHANGED wire
  \/ /\ rio[c] = << >> /\ wire[c] # << >>
     /\ \E n \in 1..Len(wire[c]) :
          /\ rio' = [rio EXCEPT ![c] = SubSeq(wire[c], 2, n)]
          /\ wire' = [wire EXCEPT ![c] = SubSeq(@, n + 1, Len(@))]

\* The unit that Take takes.
Upcoming(c) == Head(rio[c] \o wire[c])

EndOfFile(c) ==
  /\ rio[c] = << >> /\ wire[c] = << >> /\ At(c, "closed")
  /\ UNCHANGED <<rio, wire>>

-----------------------------------------------------------------------------
(* The client process *)

ClientOnly == UNCHANGED <<users, crashes>>
In(c, stage) == client[c].at = stage
Goto(c, stage) == client' = [client EXCEPT ![c].at = stage]

Known(c) == \E i \in DOMAIN salts[Dir[c]] : salts[Dir[c]][i][1] = User[c]

\* A new connection; the read buffer stays as it is.
Connect(c) ==
  /\ thread' = [thread EXCEPT ![c] = [Idle EXCEPT !.at = "accepted"]]
  /\ wire' = [wire EXCEPT ![c] = << >>]
  /\ UNCHANGED rio

\* main connects and takes the salt from the first line of salts.csv with the
\* username, or else its own.
Start(c) ==
  LET lines == salts[Dir[c]]
      First(i) == /\ lines[i][1] = User[c]
                  /\ \A j \in 1..(i - 1) : lines[j][1] # User[c] IN
    /\ In(c, "off")
    /\ OneAtATime => \A b \in Clients \ {c} : Dir[b] = Dir[c] => client[b].at \in {"off", "quit", "failed"}
    /\ IF Known(c)
       THEN \E i \in DOMAIN lines : First(i) /\ client' =
              [client EXCEPT ![c].at = "again", ![c].salt = lines[i][2]]
       ELSE Goto(c, "save")
    /\ Connect(c)
    /\ UNCHANGED <<salts, disk, gets, acked>> /\ ClientOnly

\* register_user writes the salt down before it asks the server.
SaveSalt(c) ==
  /\ In(c, "save")
  /\ salts' = [salts EXCEPT ![Dir[c]] = Append(@, <<User[c], client[c].salt>>)]
  /\ Goto(c, "ask")
  /\ UNCHANGED <<thread, wire, rio, disk, gets, acked>> /\ ClientOnly

\* The request goes out on the connection, if the server has not closed it since.
Submit(c, stage, path) ==
  /\ thread' = IF At(c, "accepted")
               THEN [thread EXCEPT ![c] = [Idle EXCEPT !.at = stage, !.path = path, !.sig = Signature(c)]]
               ELSE thread
  /\ UNCHANGED <<wire, rio>>

AskToRegister(c) ==
  /\ In(c, "ask")
  /\ Submit(c, "register", None)
  /\ Goto(c, "reply")
  /\ UNCHANGED <<salts, disk, gets, acked>> /\ ClientOnly

GetFile(c) ==
  /\ In(c, "prompt") /\ gets[c] < MaxGets[c]
  /\ gets' = [gets EXCEPT ![c] = @ + 1]
  /\ \E p \in Paths \cup {Missing} :
       /\ Submit(c, "request", p)
       /\ client' = [client EXCEPT ![c].at = "header", ![c].path = p]
  /\ UNCHANGED <<salts, disk, acked>> /\ ClientOnly

\* get_file has returned: close(network_socket), and a new connection before the
\* next prompt.
Reopen(c) ==
  /\ In(c, "again")
  /\ Connect(c)
  /\ client' = [client EXCEPT ![c].at = "prompt", ![c].header = NoHeader, ![c].count = 0,
                              ![c].array = << >>, ![c].i = 0]
  /\ UNCHANGED <<salts, disk, gets, acked>> /\ ClientOnly

Quit(c) ==
  /\ In(c, "prompt")
  /\ Goto(c, "quit")
  /\ UNCHANGED <<thread, wire, rio, salts, disk, gets, acked>> /\ ClientOnly

\* A header that never comes is read from uninitialised memory: the message
\* printed is any, or the process crashes.
ReadReply(c) ==
  /\ In(c, "reply")
  /\ \/ /\ Take(c)
        /\ client' = [client EXCEPT ![c].at = "told", ![c].header = Upcoming(c)]
     \/ EndOfFile(c) /\ \E stage \in {"again", "failed"} : Goto(c, stage)
  /\ UNCHANGED <<thread, salts, disk, gets, acked>> /\ ClientOnly

\* The status of the reply is not looked at; the message is printed.
ReadMessage(c) ==
  /\ client[c].at \in {"told", "message"}
  /\ Goto(c, "again")
  /\ Take(c) \/ EndOfFile(c)
  /\ acked' = IF In(c, "told") /\ client[c].header.status = "OK" /\ users[User[c]] = Signature(c)
              THEN acked \cup {Account(c)} ELSE acked
  /\ UNCHANGED <<thread, salts, disk, gets>> /\ ClientOnly

\* get_file: the first header tells how many blocks there are.
ReadHeader(c) ==
  /\ In(c, "header")
  /\ \/ /\ Take(c)
        /\ LET u == Upcoming(c) IN
             client' = [client EXCEPT ![c] =
               [@ EXCEPT !.header = u, !.count = u.count,
                         !.at = IF u.status = "OK" /\ u.count > 0 THEN "payload" ELSE "message"]]
     \/ EndOfFile(c) /\ \E stage \in {"again", "failed"} : Goto(c, stage)
  /\ UNCHANGED <<thread, salts, disk, gets, acked>> /\ ClientOnly

Entered(array, num, payload) == [n \in DOMAIN array \cup {num} |->
                                   IF n = num THEN payload ELSE array[n]]

\* mutant: the blocks are numbered from one
Stored_FromOne(array, num, payload) == Entered(array, num + 1, payload)

\* array[num] = payload
Stored(array, num, payload) == Entered(array, num, payload)

\* A payload that does not match the hash of its header ends the process.  One
\* that never comes is what the previous one left on the stack, or anything: it
\* matches only if the header did not come either and is the previous one still.
ReadPayload(c) ==
  LET me == client[c]
      Keep(num) == client' = [client EXCEPT ![c].at = "next",
                                ![c].array = Stored(@, me.header.num, num)] IN
    /\ In(c, "payload")
    /\ \/ /\ Take(c)
          /\ IF Upcoming(c).num = me.header.num THEN Keep(me.header.num) ELSE Goto(c, "failed")
       \/ EndOfFile(c) /\ me.header.num \in DOMAIN me.array /\ Keep(me.header.num)
       \/ EndOfFile(c) /\ Goto(c, "failed")
    /\ UNCHANGED <<thread, salts, disk, gets, acked>> /\ ClientOnly

\* After every block the next header is read; after the last there is none, and
\* the header is left as it is.
ReadNext(c) ==
  LET me == client[c]
      Go(header) == client' = [client EXCEPT ![c] =
        [@ EXCEPT !.header = header, !.i = me.i + 1,
                  !.at = IF me.i + 1 < me.count THEN "payload" ELSE "write"]] IN
    /\ In(c, "next")
    /\ \/ Take(c) /\ Go(Upcoming(c))
       \/ EndOfFile(c) /\ Go(me.header)
    /\ UNCHANGED <<thread, salts, disk, gets, acked>> /\ ClientOnly

\* The first n blocks go to the file, which is emptied first.  Blocks that never
\* came are uninitialised pointers.
Written(c, n) ==
  LET array == client[c].array IN
    disk' = [disk EXCEPT ![Dir[c]][client[c].path] =
              [i \in 1..n |-> IF i - 1 \in DOMAIN array THEN array[i - 1] ELSE None]]

WriteFile(c) ==
  /\ In(c, "write")
  /\ \/ Written(c, client[c].count) /\ Goto(c, "check")
     \/ \E n \in 0..(client[c].count - 1) :
          n \notin DOMAIN client[c].array /\ Written(c, n) /\ Goto(c, "failed")
  /\ UNCHANGED <<thread, wire, rio, salts, gets, acked>> /\ ClientOnly

\* mutant: the hash of the whole file is not compared
HashMatches_Always(c) == TRUE

HashMatches(c) == disk[Dir[c]][client[c].path] = Whole(client[c].header.path)

CheckFile(c) ==
  /\ In(c, "check")
  /\ Goto(c, IF HashMatches(c) THEN "again" ELSE "failed")
  /\ UNCHANGED <<thread, wire, rio, salts, disk, gets, acked>> /\ ClientOnly

\* The process is killed, perhaps half way through the file it writes; the
\* server's thread goes on.
Kill(c) ==
  /\ crashes < MaxCrashes /\ client[c].at \notin {"off", "quit", "failed"}
  /\ crashes' = crashes + 1
  /\ Goto(c, "failed")
  /\ \/ UNCHANGED disk
     \/ In(c, "write") /\ \E n \in 0..(client[c].count - 1) : Written(c, n)
  /\ UNCHANGED <<users, thread, wire, rio, salts, gets, acked>>

-----------------------------------------------------------------------------
Server(c) == CheckName(c) \/ InsertUser(c) \/ HandleRequest(c) \/ SendBlock(c)
Client(c) == \/ Reopen(c) \/ SaveSalt(c) \/ AskToRegister(c) \/ ReadReply(c) \/ ReadMessage(c)
             \/ ReadHeader(c) \/ ReadPayload(c) \/ ReadNext(c) \/ WriteFile(c) \/ CheckFile(c)

Next == \/ Restart
        \/ \E c \in Clients : Server(c) \/ Client(c) \/ Start(c) \/ GetFile(c) \/ Quit(c) \/ Kill(c)

Spec == Init /\ [][Next]_vars

\* The server's threads and the clients run; what the user types is up to him.
FairSpec == Spec /\ \A c \in Clients : WF_vars(Server(c)) /\ WF_vars(Client(c))

-----------------------------------------------------------------------------
(* Properties *)

TypeOK ==
  /\ \A n \in Names : users[n] # None => users[n] \in {Password[c] : c \in Clients} \X Clients
  /\ \A c \in Clients :
       /\ thread[c].at \in {"closed", "accepted", "register", "insert", "request", "send"}
       /\ thread[c].path \in Paths \cup {Missing, None} /\ thread[c].status \in Statuses
       /\ thread[c].left \subseteq 0..(thread[c].count - 1)
       /\ wire[c] \in Seq(Unit) /\ rio[c] \in Seq(Unit)
       /\ client[c].at \in {"off", "save", "ask", "reply", "told", "again", "prompt", "header", "payload",
                            "next", "message", "write", "check", "quit", "failed"}
       /\ client[c].salt \in Clients /\ client[c].header \in Unit
       /\ gets[c] \in 0..MaxGets[c]
       /\ client[c].i \in 0..client[c].count
       /\ DOMAIN client[c].array \subseteq 0..(client[c].count - 1)
  /\ salts \in [Dirs -> Seq(Names \X Clients)]
  /\ crashes \in 0..MaxCrashes

Fetching(c) == client[c].at \in {"payload", "next", "message", "write", "check"}

\* The buffer is set up for the first connection only (networking.c 292) and
\* carries whatever an answer leaves in it over to the next: every header the
\* client acts on still belongs to the request it has just made.
AnswersBelongToTheRequest ==
  \A c \in Clients :
    /\ Fetching(c) => client[c].header.request = gets[c] /\ client[c].header.path = client[c].path
    /\ client[c].at \in {"again", "prompt"} => rio[c] = << >>

\* However the blocks are shuffled and the reads cut, and wherever a server
\* dies: a file in a client's directory is the server's, or the process that
\* fetched it is still checking it or has given up (networking.c 208-226).
FilesAreTheServers ==
  \A d \in Dirs, p \in Paths :
    \/ disk[d][p] \in {None, Whole(p)}
    \/ \E c \in Clients : Dir[c] = d /\ client[c].path = p /\ client[c].at \in {"check", "failed"}

\* salts.csv survives the process, and the server's users do not survive the
\* server: whoever has been told that the registration is OK, and uses the same
\* password from the same directory, is not denied before the server restarts or
\* the registration is replaced (which takes the race of InsertUser).
RegisteredUsersAreServed ==
  \A c \in Clients :
    client[c].at = "message" /\ client[c].header.status \in {"USER_MISSING", "INVALID_LOGIN"}
    => Account(c) \notin acked

\* A client that waits for the server gets back to its prompt or gives up.
RequestsEnd ==
  \A c \in Clients : client[c].at \in {"ask", "reply", "header"} ~>
                     client[c].at \in {"prompt", "quit", "failed"}
=============================================================================
