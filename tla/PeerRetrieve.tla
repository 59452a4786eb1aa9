---------------------------- MODULE PeerRetrieve ----------------------------
(***************************************************************************)
(* One peer of A4 (src/A4/handout/python/first_peer/peer.py) that fetches  *)
(* a file from another peer while it serves the files it has: the client   *)
(* thread (to_server) and the handler threads (_handle_request) share the  *)
(* file system and the list currently_retreiving, under retrieving_mutex.  *)
(*                                                                         *)
(* A file is the sequence of its blocks, each with the version it belongs  *)
(* to and its number; a reader may see any state between the truncation    *)
(* and the last block.  The peer that is asked sends whole files, shuffled *)
(* (_build_and_send_responses); what it sends may arrive cut in two.       *)
(* Names are what requests say; several names may be the same path.        *)
(***************************************************************************)
EXTENDS Integers, Sequences, FiniteSets, SequencesExt

CONSTANTS
  Handlers,      \* one handler thread per request
  Names,         \* names of files in requests
  PathOf,        \* PathOf[n]: os.path.abspath of the name
  Blocks,        \* pieces in which a file is written and read
  Absent,        \* no such file
  NoThread,      \* retrieving_mutex is free
  MaxVersion,    \* bound: retrievals
  MayVanish      \* whether requesters may close their connection early

Paths    == {PathOf[n] : n \in Names}
Versions == 0..MaxVersion
Whole(v) == [i \in 1..Blocks |-> <<v, i>>]
None     == <<-1, 0>>
CLIENT   == "client"

ASSUME RetrieveAssumption ==
  /\ DOMAIN PathOf = Names
  /\ Blocks \in Nat \ {0} /\ MaxVersion \in Nat /\ MayVanish \in BOOLEAN
  /\ NoThread \notin Handlers \cup {CLIENT}

VARIABLES
  file,                  \* file[p]: the blocks of the file at p, or Absent
  currently_retreiving,  \* the list
  retrieving_mutex,      \* who holds retrieving_mutex
  to_server,             \* the client thread: where it is, and the name it fetches
  all_blocks,            \* the blocks received, by their number, or None
  version,               \* the version fetched last
  handler,               \* handler[h]: where the thread is, its name and the data read
  reply,                 \* reply[h]: the replies sent
  vanished               \* vanished[h]: the requester has closed the connection

filesVars == <<file, currently_retreiving, retrieving_mutex, to_server, all_blocks, version, handler, reply, vanished>>

\* The thread t takes and releases the mutex with nothing in between that can fail.
MutexFree == retrieving_mutex = NoThread

FilesInit ==
  /\ file \in [Paths -> {Whole(0), Absent}]
  /\ currently_retreiving = << >>
  /\ retrieving_mutex = NoThread
  /\ to_server = [pc |-> "input", name |-> CHOOSE n \in Names : TRUE]
  /\ all_blocks = << >>
  /\ version = 0
  /\ handler \in [Handlers -> [pc : {"exists"}, name : Names, data : {<< >>}]]
  /\ reply = [h \in Handlers |-> << >>]
  /\ vanished = [h \in Handlers |-> FALSE]

-----------------------------------------------------------------------------
(* The client thread: to_server with COMMAND_RETREIVE *)

UnchangedByClient == UNCHANGED <<retrieving_mutex, handler, reply, vanished>>
ToServerGoes(from, to) == to_server.pc = from /\ to_server' = [to_server EXCEPT !.pc = to]

Mark ==
  /\ to_server.pc = "input" /\ MutexFree /\ version < MaxVersion
  /\ \E n \in Names :
       /\ to_server' = [pc |-> "exchange", name |-> n]
       /\ currently_retreiving' = Append(currently_retreiving, n)
  /\ version' = version + 1
  /\ UNCHANGED <<file, all_blocks>> /\ UnchangedByClient

\* send_to_server connects and sends the request, or raises.
SendRequest ==
  /\ \/ ToServerGoes("exchange", "receive") /\ all_blocks' = [i \in 1..Blocks |-> None]
     \/ ToServerGoes("exchange", "ended") /\ UNCHANGED all_blocks
  /\ UNCHANGED <<file, currently_retreiving, version>> /\ UnchangedByClient

\* mutant: the blocks are put together as they come
Placed_AsTheyCome(blocks, i) ==
  LET came == Cardinality({k \in DOMAIN blocks : blocks[k] # None})
  IN  [blocks EXCEPT ![came + 1] = <<version, i>>]

Placed(blocks, i) == [blocks EXCEPT ![i] = <<version, i>>]

\* A block arrives whole, with its hash; after the last one the loop ends.
ReceiveBlock ==
  /\ to_server.pc = "receive"
  /\ \E i \in DOMAIN all_blocks :
       /\ \A k \in DOMAIN all_blocks : all_blocks[k] # <<version, i>>
       /\ all_blocks' = Placed(all_blocks, i)
  /\ to_server' = IF \A i \in DOMAIN all_blocks : all_blocks'[i] # None
               THEN [to_server EXCEPT !.pc = "unmark"] ELSE to_server
  /\ UNCHANGED <<file, currently_retreiving, version>> /\ UnchangedByClient

\* recv returns a part of a block, whose hash does not match, or an answer that
\* is not OK: STATUS_OTHER.  It returns a part of a header, or nothing: struct
\* raises, which ends the thread.
ReceiveFails ==
  /\ \E to \in {"unmark_error", "ended"} : ToServerGoes("receive", to)
  /\ UNCHANGED <<file, currently_retreiving, all_blocks, version>> /\ UnchangedByClient

Unmark ==
  /\ MutexFree
  /\ ToServerGoes("unmark", "open") \/ ToServerGoes("unmark_error", "input")
  /\ currently_retreiving' = Remove(currently_retreiving, to_server.name)
  /\ UNCHANGED <<file, all_blocks, version>> /\ UnchangedByClient

\* open(request, "wb") truncates
OpenForWriting ==
  /\ ToServerGoes("open", "write")
  /\ file' = [file EXCEPT ![PathOf[to_server.name]] = << >>]
  /\ UNCHANGED <<currently_retreiving, all_blocks, version>> /\ UnchangedByClient

WriteBlock ==
  LET p == PathOf[to_server.name] IN
    /\ to_server.pc = "write"
    /\ file' = [file EXCEPT ![p] = Append(@, all_blocks[Len(@) + 1])]
    /\ to_server' = IF Len(file'[p]) = Blocks THEN [to_server EXCEPT !.pc = "input"] ELSE to_server
    /\ UNCHANGED <<currently_retreiving, all_blocks, version>> /\ UnchangedByClient

-----------------------------------------------------------------------------
(* A handler thread: _handle_request *)

UnchangedByHandler == UNCHANGED <<file, currently_retreiving, to_server, all_blocks, version>>
In(h, pc)   == handler[h].pc = pc
HandlerGoes(h, pc) == handler' = [handler EXCEPT ![h].pc = pc]

\* The reply to a requester that is gone may raise.
SendReply(h, status, data, next) ==
  /\ reply' = [reply EXCEPT ![h] = Append(@, [status |-> status, data |-> data])]
  /\ HandlerGoes(h, next)
SendReplyRaises(h, next) == vanished[h] /\ HandlerGoes(h, next) /\ UNCHANGED reply

\* the file is looked up twice, with os.path.exists and os.path.isfile
CheckExists(h) ==
  /\ In(h, "exists")
  /\ IF file[PathOf[handler[h].name]] = Absent
     THEN SendReply(h, "BAD_REQUEST", << >>, "done") \/ SendReplyRaises(h, "apologise")
     ELSE HandlerGoes(h, "check") /\ UNCHANGED reply
  /\ UNCHANGED <<retrieving_mutex, vanished>> /\ UnchangedByHandler

CheckNotRetrieving(h) ==
  /\ In(h, "check") /\ MutexFree
  /\ IF Contains(currently_retreiving, handler[h].name)
     THEN retrieving_mutex' = h /\ HandlerGoes(h, "refuse")
     ELSE UNCHANGED retrieving_mutex /\ HandlerGoes(h, "open")
  /\ UNCHANGED <<reply, vanished>> /\ UnchangedByHandler

\* mutant: the mutex is not released after the refusal
AfterRefusal_Held(h) == h

AfterRefusal(h) == NoThread

\* The refusal is sent with the mutex held; when sending raises it stays held.
RefuseFile(h) ==
  /\ In(h, "refuse")
  /\ \/ SendReply(h, "BAD_REQUEST", << >>, "done") /\ retrieving_mutex' = AfterRefusal(h)
     \/ SendReplyRaises(h, "apologise") /\ UNCHANGED retrieving_mutex
  /\ UNCHANGED vanished /\ UnchangedByHandler

OpenForReading(h) ==
  /\ In(h, "open")
  /\ HandlerGoes(h, "read")
  /\ UNCHANGED <<retrieving_mutex, reply, vanished>> /\ UnchangedByHandler

ReadBlock(h) ==
  LET data == handler[h].data
      at   == Len(data) + 1
      onDisk == file[PathOf[handler[h].name]] IN
    /\ In(h, "read")
    /\ handler' = [handler EXCEPT ![h] =
         IF at \in DOMAIN onDisk THEN [@ EXCEPT !.data = Append(data, onDisk[at])]
         ELSE [@ EXCEPT !.pc = "reply"]]
    /\ UNCHANGED <<retrieving_mutex, reply, vanished>> /\ UnchangedByHandler

Reply(h) ==
  /\ In(h, "reply")
  /\ SendReply(h, "OK", handler[h].data, "done") \/ SendReplyRaises(h, "apologise")
  /\ UNCHANGED <<retrieving_mutex, vanished>> /\ UnchangedByHandler

\* handle: an exception is answered with STATUS_OTHER
ApologiseForError(h) ==
  /\ In(h, "apologise")
  /\ SendReply(h, "OTHER", << >>, "done") \/ SendReplyRaises(h, "done")
  /\ UNCHANGED <<retrieving_mutex, vanished>> /\ UnchangedByHandler

Vanish(h) ==
  /\ MayVanish /\ ~vanished[h]
  /\ vanished' = [vanished EXCEPT ![h] = TRUE]
  /\ UNCHANGED <<retrieving_mutex, handler, reply>> /\ UnchangedByHandler

-----------------------------------------------------------------------------
ToServer == SendRequest \/ ReceiveBlock \/ ReceiveFails \/ Unmark \/ OpenForWriting \/ WriteBlock
HandleRequest(h) ==
  \/ CheckExists(h) \/ CheckNotRetrieving(h) \/ RefuseFile(h)
  \/ OpenForReading(h) \/ ReadBlock(h) \/ Reply(h) \/ ApologiseForError(h)

FilesNext == Mark \/ ToServer \/ \E h \in Handlers : HandleRequest(h) \/ Vanish(h)

FilesSpec == FilesInit /\ [][FilesNext]_filesVars

FairFilesSpec == FilesSpec /\ WF_filesVars(ToServer) /\ \A h \in Handlers : WF_filesVars(HandleRequest(h))

-----------------------------------------------------------------------------
(* Properties *)

\* In whatever order the blocks come, and wherever the transfer ends: a file
\* is broken only while the client writes it.
FilesAreWhole ==
  \A p \in Paths : \/ file[p] = Absent
                   \/ \E v \in Versions : file[p] = Whole(v)
                   \/ to_server.pc = "write" /\ p = PathOf[to_server.name]

\* A reply has the blocks of the file in their place, and never an older block
\* after a newer one is written before it is read: what the handler has read
\* belongs to the versions that were on disk since it began, in order.
RepliesNeverGoBack ==
  \A h \in Handlers : LET d == handler[h].data IN
    /\ Len(d) <= Blocks
    /\ \A i \in DOMAIN d : d[i][2] = i
    /\ \A i, j \in DOMAIN d : i < j => d[i][1] <= d[j][1]

\* Class docstring, "Any input message will ALWAYS receive an appropriate
\* response": every request is answered once, as long as no requester vanishes.
EveryRequestIsAnswered ==
  [](\A h \in Handlers : ~vanished[h]) => \A h \in Handlers : <>[](Len(reply[h]) = 1)

\* Comments of lines 346 and 567: a file is not served before it is complete.
OnlyCompleteFilesAreServed ==
  \A h \in Handlers : \A i \in DOMAIN reply[h] :
    reply[h][i].status = "OK" => \E v \in Versions : reply[h][i].data = Whole(v)
=============================================================================
