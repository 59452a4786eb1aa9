---------------------------- MODULE PeerNetwork -----------------------------
(***************************************************************************)
(* How the peers of A4 (src/A4/handout/python/first_peer/peer.py) learn of *)
(* each other.  A peer is one process: a client thread that registers with *)
(* a configured contact and then fetches files from random peers, and a    *)
(* ThreadingTCPServer with one handler thread per connection.  They share  *)
(* the list `network`, under network_mutex.                                *)
(*                                                                         *)
(* A connection is a record: the request it carries, how far its handler   *)
(* thread is (pc), and the replies sent on it so far.  A section of code   *)
(* under network_mutex in which nothing blocks is one step; the inform     *)
(* loop, which connects to other peers while it holds the mutex, is one    *)
(* step per entry of the list.  That is exact here, where no process is    *)
(* killed: then nobody releases the mutex of another thread.  PeerSections *)
(* adds the kills, takes the sections apart, and shows that they have the  *)
(* effect they have here until somebody does.  Time counts minutes, of     *)
(* which the code only asks whether one has passed.  What a file request   *)
(* does beyond refreshing the list is left to another module.              *)
(***************************************************************************)
EXTENDS Integers, Sequences, FiniteSets

CONSTANTS
  Peers,     \* the addresses
  Contact,   \* Contact[p]: the peer_ip:peer_port of p's configuration, or NoPeer
  NoPeer,
  Slots,     \* bound: connections open at the same time
  MaxNow,    \* bound: minutes that pass
  MaxFetches, \* bound: files that the users ask for
  NoConn,    \* an unused slot
  Nobody     \* nobody holds the mutex

ASSUME NetworkAssumption ==
  /\ NoPeer \notin Peers
  /\ Contact \in [Peers -> Peers \cup {NoPeer}]
  /\ \A p \in Peers : Contact[p] # p
  /\ Slots \subseteq Nat /\ Nobody \notin Slots
  /\ MaxNow \in Nat /\ MaxFetches \in Nat

VARIABLES
  phase,    \* phase[p]: "off", "starting" (client thread runs, server not yet bound) or "serving"
  network,  \* network[p]: the list of addresses and the time each was last stamped
  mutex,    \* mutex[p]: the handler that holds network_mutex of p for more than a step
  client,   \* client[p]: where the client thread is, and the reply it has read
  conn,     \* conn[s]: the connection in slot s
  now, fetches,
  heard,    \* history: heard[p][q] is when p last received a message of q
  aborted   \* history: some inform loop ended at a peer it could not reach

vars == <<phase, network, mutex, client, conn, now, fetches, heard, aborted>>

Own == -1                 \* the timestamp of a peer's own entry
Entry == [addr : Peers, seen : Own..MaxNow]
Conn == [cmd : {"REGISTER", "RETREIVE", "INFORM"}, from : Peers, to : Peers, about : Peers,
         pc : {"sent", "register", "refuse", "welcome", "announce", "inform",
               "add", "serve", "apologise", "done"},
         idx : Nat, data : Seq(Peers), replies : Seq({"OK", "PEER_EXISTS", "OTHER"}),
         gone : BOOLEAN]
ClientAt == {"off", "register", "waiting", "merge", "look", "ready", "ask", "ended"}

ASSUME SlotAssumption == NoConn \notin Conn

Addresses(list) == {list[i].addr : i \in DOMAIN list}
Serving(p) == phase[p] = "serving"

\* mutant: the mutex is not asked for
Free_NotAsked(p) == TRUE

Free(p) == mutex[p] = Nobody

Init ==
  /\ phase = [p \in Peers |-> "off"]
  /\ network = [p \in Peers |-> << >>]
  /\ mutex = [p \in Peers |-> Nobody]
  /\ client = [p \in Peers |-> [pc |-> "off", data |-> << >>]]
  /\ conn = [s \in Slots |-> NoConn]
  /\ now = 0 /\ fetches = 0
  /\ heard = [p \in Peers |-> [q \in Peers |-> Own]]
  /\ aborted = FALSE

-----------------------------------------------------------------------------
(* Connections *)

FreeSlots == {s \in Slots : conn[s] = NoConn}
Open      == Slots \ FreeSlots

\* A connection is forgotten once its handler has returned and its client has closed it.
Kept(c) == IF c.pc = "done" /\ c.gone THEN NoConn ELSE c
Update(s, c) == conn' = [conn EXCEPT ![s] = Kept(c)]

\* p connects to q and sends a request; nobody waits for the answer to an INFORM.
Request(p, q, cmd, about) ==
  [cmd |-> cmd, from |-> p, to |-> q, about |-> about, pc |-> "sent", idx |-> 1,
   data |-> << >>, replies |-> << >>, gone |-> cmd = "INFORM"]

\* What a handler that is at pc can do on connection s.
At(s, pc) == conn[s] # NoConn /\ conn[s].pc = pc

Goto(s, pc) == Update(s, [conn[s] EXCEPT !.pc = pc])

\* Sending a reply: to a client that is gone it may or may not raise.
Send(s, status, next) ==
  Update(s, [conn[s] EXCEPT !.replies = Append(@, status), !.pc = next])
SendRaises(s, next) ==
  /\ conn[s].gone
  /\ Goto(s, next)

-----------------------------------------------------------------------------
(* The process *)

Start(p) ==
  /\ phase[p] = "off"
  /\ phase' = [phase EXCEPT ![p] = "starting"]
  /\ network' = [network EXCEPT ![p] = <<[addr |-> p, seen |-> Own]>>]
  /\ client' = [client EXCEPT ![p].pc = IF Contact[p] = NoPeer THEN "off" ELSE "register"]
  /\ UNCHANGED <<mutex, conn, now, fetches, heard, aborted>>

Serve(p) ==
  /\ phase[p] = "starting"
  /\ phase' = [phase EXCEPT ![p] = "serving"]
  /\ UNCHANGED <<network, mutex, client, conn, now, fetches, heard, aborted>>

Minute ==
  /\ now < MaxNow
  /\ now' = now + 1
  /\ UNCHANGED <<phase, network, mutex, client, conn, fetches, heard, aborted>>

-----------------------------------------------------------------------------
(* The client thread *)

Unchanged_Client == UNCHANGED <<phase, mutex, now, heard, aborted>>

\* Connecting to a peer that does not listen raises, and ends the thread.
Connect(p, q, cmd) ==
  IF Serving(q)
  THEN \E s \in FreeSlots :
         /\ \A r \in FreeSlots : s <= r
         /\ conn' = [conn EXCEPT ![s] = Request(p, q, cmd, p)]
         /\ client' = [client EXCEPT ![p].pc = "waiting"]
  ELSE /\ client' = [client EXCEPT ![p].pc = "ended"]
       /\ UNCHANGED conn

Register(p) ==
  /\ client[p].pc = "register"
  /\ Connect(p, Contact[p], "REGISTER")
  /\ UNCHANGED <<network, fetches>>
  /\ Unchanged_Client

\* The first reply is the answer; a connection closed without one raises.
ReadReply(p) ==
  /\ client[p].pc = "waiting"
  /\ \E s \in Open :
       /\ conn[s].from = p /\ ~conn[s].gone
       /\ conn[s].replies # << >> \/ conn[s].pc = "done"
       /\ Update(s, [conn[s] EXCEPT !.gone = TRUE])
       /\ client' = [client EXCEPT ![p] =
            IF conn[s].replies = << >> THEN [pc |-> "ended", data |-> << >>]
            ELSE IF conn[s].cmd = "RETREIVE" THEN [pc |-> "ready", data |-> << >>]
            ELSE IF Head(conn[s].replies) = "OK" THEN [pc |-> "merge", data |-> conn[s].data]
            ELSE [pc |-> "look", data |-> << >>]]
  /\ UNCHANGED <<network, fetches>>
  /\ Unchanged_Client

\* mutant: the clock of the new entry is ahead
AppendIfNew_Ahead(list, addr) ==
  IF addr \in Addresses(list) THEN list
  ELSE Append(list, [addr |-> addr, seen |-> now + 1])

\* mutant: without the test of lines 213, 296 and 611
AppendIfNew_Always(list, addr) == Append(list, [addr |-> addr, seen |-> now])

AppendIfNew(list, addr) ==
  IF addr \in Addresses(list) THEN list
  ELSE Append(list, [addr |-> addr, seen |-> now])

Merged(list, data) ==
  LET merged[n \in 0..Len(data)] ==
        IF n = 0 THEN list ELSE AppendIfNew(merged[n - 1], data[n])
  IN  merged[Len(data)]

MergeNetwork(p) ==
  /\ client[p].pc = "merge" /\ Free(p)
  /\ network' = [network EXCEPT ![p] = Merged(@, client[p].data)]
  /\ client' = [client EXCEPT ![p] = [pc |-> "look", data |-> << >>]]
  /\ UNCHANGED <<conn, fetches>>
  /\ Unchanged_Client

\* run_client looks whether the list is empty, which it never is.
Look(p) ==
  /\ client[p].pc = "look" /\ Free(p)
  /\ client' = [client EXCEPT ![p].pc = "ready"]
  /\ UNCHANGED <<network, conn, fetches>>
  /\ Unchanged_Client

\* The user asks for a file: one of the other peers of the list is chosen at
\* random, and random.choice of no peers at all ends the thread ...
Retrieve(p) ==
  /\ client[p].pc = "ready" /\ Free(p) /\ fetches < MaxFetches
  /\ fetches' = fetches + 1
  /\ LET potential_peers == Addresses(network[p]) \ {p} IN
       IF potential_peers = {}
       THEN client' = [client EXCEPT ![p] = [pc |-> "ended", data |-> << >>]]
       ELSE \E q \in potential_peers : client' = [client EXCEPT ![p] = [pc |-> "ask", data |-> <<q>>]]
  /\ UNCHANGED <<network, conn>>
  /\ Unchanged_Client

\* ... and asked.
Ask(p) ==
  /\ client[p].pc = "ask"
  /\ Connect(p, Head(client[p].data), "RETREIVE")
  /\ UNCHANGED <<network, fetches>>
  /\ Unchanged_Client

-----------------------------------------------------------------------------
(* A handler thread *)

Unchanged_Handler == UNCHANGED <<phase, client, now, fetches>>

Dispatch(cmd) == CASE cmd = "REGISTER" -> "register"
                   [] cmd = "INFORM"   -> "add"
                   [] OTHER            -> "serve"

IsFresh(e) == e.seen = Own \/ now <= e.seen

\* What the loop over the list leaves of it.
Fresh(list) ==
  LET fresh[n \in 0..Len(list)] ==
        IF n = 0 THEN << >>
        ELSE IF IsFresh(list[n]) THEN Append(fresh[n - 1], list[n]) ELSE fresh[n - 1]
  IN  fresh[Len(list)]

\* mutant: the age test of line 133 is lost
Refreshed_DropAll(list, from) == SelectSeq(list, LAMBDA e : e.seen = Own)

\* Refreshing the timestamps.  The entries are tuples: writing the time of the
\* sender's raises, which ends the refresh before anything is removed.
Refreshed(list, from) ==
  IF \E i \in DOMAIN list : list[i].addr = from /\ list[i].seen # Own
  THEN list
  ELSE Fresh(list)

Receive(s) ==
  /\ At(s, "sent")
  /\ LET t == conn[s].to IN
       /\ Serving(t) /\ Free(t)
       /\ network' = [network EXCEPT ![t] = Refreshed(@, conn[s].from)]
       /\ heard' = [heard EXCEPT ![t][conn[s].from] = now]
  /\ Goto(s, Dispatch(conn[s].cmd))
  /\ UNCHANGED <<mutex, aborted>> /\ Unchanged_Handler

\* RETREIVE: here only that it is answered.
ServeFile(s) ==
  /\ At(s, "serve")
  /\ Send(s, "OK", "done") \/ SendRaises(s, "apologise")
  /\ UNCHANGED <<network, mutex, heard, aborted>> /\ Unchanged_Handler

\* INFORM
AddToNetwork(s) ==
  /\ At(s, "add") /\ Free(conn[s].to)
  /\ network' = [network EXCEPT ![conn[s].to] = AppendIfNew(@, conn[s].about)]
  /\ Goto(s, "done")
  /\ UNCHANGED <<mutex, heard, aborted>> /\ Unchanged_Handler

\* REGISTER: refuse a known address, or add it and remember the whole list for the reply.
RegisterPeer(s) ==
  /\ At(s, "register") /\ Free(conn[s].to)
  /\ LET t == conn[s].to
         p == conn[s].from
         list == AppendIfNew(network[t], p) IN
       IF p \in Addresses(network[t])
       THEN Goto(s, "refuse") /\ UNCHANGED network
       ELSE /\ network' = [network EXCEPT ![t] = list]
            /\ Update(s, [conn[s] EXCEPT !.pc = "welcome",
                                         !.data = [i \in DOMAIN list |-> list[i].addr]])
  /\ UNCHANGED <<mutex, heard, aborted>> /\ Unchanged_Handler

\* The mutex is released already, and when the reply raises the except branch
\* releases it again: whoever holds it by then loses it.
Refuse(s) ==
  /\ At(s, "refuse")
  /\ \/ Send(s, "PEER_EXISTS", "done") /\ UNCHANGED mutex
     \/ /\ SendRaises(s, "apologise")
        /\ mutex' = [mutex EXCEPT ![conn[s].to] = Nobody]
  /\ UNCHANGED <<network, heard, aborted>> /\ Unchanged_Handler

Welcome(s) ==
  /\ At(s, "welcome")
  /\ Send(s, "OK", "announce") \/ SendRaises(s, "apologise")
  /\ UNCHANGED <<network, mutex, heard, aborted>> /\ Unchanged_Handler

\* The inform loop takes the mutex ...
Announce(s) ==
  /\ At(s, "announce") /\ Free(conn[s].to)
  /\ mutex' = [mutex EXCEPT ![conn[s].to] = s]
  /\ Goto(s, "inform")
  /\ UNCHANGED <<network, heard, aborted>> /\ Unchanged_Handler

Informing(s) == At(s, "inform") /\ conn[s].idx <= Len(network[conn[s].to])
Listed(s)    == network[conn[s].to][conn[s].idx].addr
\* mutant: the message is sent after the loop, to its last peer only
Skipped_NotLast(s) == \/ conn[s].idx < Len(network[conn[s].to])
                      \/ Listed(s) \in {conn[s].to, conn[s].from}

Skipped(s)   == Listed(s) \in {conn[s].to, conn[s].from}

\* ... goes through the list ...
InformNext(s) ==
  /\ Informing(s)
  /\ LET seen == [conn EXCEPT ![s].idx = @ + 1] IN
       \/ Skipped(s) /\ conn' = seen
       \/ /\ ~Skipped(s) /\ Serving(Listed(s))
          /\ \E f \in FreeSlots :
               /\ \A r \in FreeSlots : f <= r
               /\ conn' = [seen EXCEPT ![f] =
                    Request(conn[s].to, Listed(s), "INFORM", conn[s].about)]
  /\ UNCHANGED <<network, mutex, heard, aborted>> /\ Unchanged_Handler

\* ... gives up at the first peer that it cannot reach ...
InformFails(s) ==
  /\ Informing(s) /\ ~Skipped(s) /\ ~Serving(Listed(s))
  /\ mutex' = [mutex EXCEPT ![conn[s].to] = Nobody]
  /\ aborted' = TRUE
  /\ Goto(s, "apologise")
  /\ UNCHANGED <<network, heard>> /\ Unchanged_Handler

\* mutant: the mutex is not released on the way out
EndInform_Keeps(s) ==
  /\ At(s, "inform") /\ ~Informing(s)
  /\ Goto(s, "done")
  /\ UNCHANGED <<network, heard, aborted, mutex>> /\ Unchanged_Handler

\* ... and releases the mutex, which raises when it has been taken away.
EndInform(s) ==
  /\ At(s, "inform") /\ ~Informing(s)
  /\ mutex' = [mutex EXCEPT ![conn[s].to] = Nobody]
  /\ Goto(s, IF Free(conn[s].to) THEN "apologise" ELSE "done")
  /\ UNCHANGED <<network, heard, aborted>> /\ Unchanged_Handler

\* handle: whatever went wrong is answered with STATUS_OTHER.
Apologise(s) ==
  /\ At(s, "apologise")
  /\ Send(s, "OTHER", "done") \/ SendRaises(s, "done")
  /\ UNCHANGED <<network, mutex, heard, aborted>> /\ Unchanged_Handler

-----------------------------------------------------------------------------
Client(p)  == Register(p) \/ ReadReply(p) \/ MergeNetwork(p) \/ Look(p) \/ Ask(p)
Handler(s) == \/ Receive(s) \/ ServeFile(s) \/ AddToNetwork(s) \/ RegisterPeer(s)
              \/ Refuse(s) \/ Welcome(s) \/ Announce(s) \/ InformNext(s)
              \/ InformFails(s) \/ EndInform(s) \/ Apologise(s)

Next == \/ Minute
        \/ \E p \in Peers : Start(p) \/ Serve(p) \/ Client(p) \/ Retrieve(p)
        \/ \E s \in Slots : Handler(s)

Spec == Init /\ [][Next]_vars

-----------------------------------------------------------------------------
(* Properties *)

TypeOK ==
  /\ phase \in [Peers -> {"off", "starting", "serving"}]
  /\ network \in [Peers -> Seq(Entry)]
  /\ mutex \in [Peers -> Slots \cup {Nobody}]
  /\ client \in [Peers -> [pc : ClientAt, data : Seq(Peers)]]
  /\ conn \in [Slots -> Conn \cup {NoConn}]
  /\ now \in 0..MaxNow
  /\ fetches \in 0..MaxFetches
  /\ heard \in [Peers -> [Peers -> Own..MaxNow]]
  /\ aborted \in BOOLEAN

\* The list is a set that starts with the peer itself: whatever registers,
\* informs, merges and refreshes at the same time, no address is listed twice
\* and the peer never forgets itself.
ListIsASet ==
  \A p \in Peers : phase[p] # "off" =>
    /\ Cardinality(Addresses(network[p])) = Len(network[p])
    /\ \A i \in DOMAIN network[p] :
          /\ i = 1 <=> network[p][i].addr = p
          /\ i = 1 <=> network[p][i].seen = Own

\* Nothing is under way: no connection, and every client that was to register has.
Quiet ==
  /\ Open = {}
  /\ \A p \in Peers : phase[p] = "off" \/ client[p].pc \in {"off", "ready"}

\* Nobody is missed: two peers may register at the same time, one while the
\* other is being announced or is still merging its reply; once all is quiet
\* every two peers that run know each other, unless an announcement failed or
\* an entry grew old.
QuietPeersKnowEachOther ==
  Quiet /\ ~aborted /\ now = 0 =>
    \A p, q \in Peers : phase[p] # "off" /\ phase[q] # "off" => q \in Addresses(network[p])

\* A peer is removed only when a minute has passed since it was added.
OnlyOldEntriesGo ==
  [][\A p \in Peers : phase[p] = phase'[p] =>
       \A i \in DOMAIN network[p] : network[p][i].addr \notin Addresses(network'[p])
                                    => network[p][i].seen # Own /\ network[p][i].seen < now]_vars

\* The inform loop runs under network_mutex: the list it goes through does not
\* change under it.  Here every client waits for its reply, so that the second
\* release of line 232 never happens.
InformLoopSeesOneList ==
  [][\A s \in Slots : At(s, "inform") /\ At(s, "inform")' =>
       network'[conn[s].to] = network[conn[s].to]]_vars

\* Comments of lines 129 and 132: the entry of a peer that makes a connection
\* is refreshed, so only peers not heard from in a while are removed.
HeardPeersAreKept ==
  [][\A p, q \in Peers : phase[p] = phase'[p] /\ q # p /\ heard[p][q] = now
                         /\ q \in Addresses(network[p]) => q \in Addresses(network'[p])]_vars
=============================================================================
