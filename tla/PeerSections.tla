---------------------------- MODULE PeerSections ----------------------------
(***************************************************************************)
(* The peers of A4 when processes are killed and started again.            *)
(*                                                                         *)
(* The except branch of _register releases network_mutex a second time     *)
(* when the refusal of a client that is gone cannot be sent.  Whoever      *)
(* holds the mutex by then loses it, and two threads may be in the code    *)
(* that it protects at once.  So the sections that are one step each in    *)
(* PeerNetwork (refresh, register, add, merge, look, choose a peer) are    *)
(* taken apart here: acquiring, every loop that only reads the list, every *)
(* change of it and releasing are steps of their own.  The other steps are *)
(* PeerNetwork's.                                                          *)
(***************************************************************************)
EXTENDS PeerNetwork

CONSTANT MaxTurns  \* bound: how often a process is started or killed

ASSUME SectionsAssumption ==
  /\ MaxTurns \in Nat /\ Slots \cap Peers = {} /\ Nobody \notin Peers

VARIABLES
  turns,    \* turns[p]: how often p may still be started or killed
  lost,     \* history: a second release has taken a mutex away from its holder
  inside    \* inside[t]: how far thread t is in a section

sectionsVars ==
  <<phase, network, mutex, client, conn, now, fetches, heard, aborted, turns, lost, inside>>

\* A handler is named by its slot, a client by its peer.
Threads  == Slots \cup Peers
Place(t) == IF t \in Peers THEN t ELSE conn[t].to

\* stale: the entries still to be removed.  addrs: the addresses still to be
\* added, then those of the reply, or the one to ask.  next: what the thread
\* does after the section.  before, since: history, the list and the time when
\* the section was entered.
Outside == [pc |-> "out", stale |-> << >>, addrs |-> << >>, next |-> "none",
            before |-> << >>, since |-> 0]
Section == [pc : {"out", "scan", "remove", "test", "append", "choose", "leave", "again"},
            stale : Seq(Entry), addrs : Seq(Peers),
            next : {"none", "register", "add", "serve", "refuse", "welcome", "done",
                    "look", "ready", "ask", "ended"},
            before : Seq(Entry), since : 0..MaxNow]

In(t, pc) == inside[t].pc = pc

SectionsInit ==
  /\ Init
  /\ turns \in [Peers -> 0..MaxTurns] /\ lost = FALSE
  /\ inside = [t \in Threads |-> Outside]

-----------------------------------------------------------------------------
(* A section *)

Unchanged_Threads == UNCHANGED <<phase, client, conn, now, fetches, heard, aborted, turns, lost>>

\* mutant: the mutex is not waited for
Enter_Barging(t, pc, addrs, next) ==
  /\ In(t, "out")
  /\ mutex' = [mutex EXCEPT ![Place(t)] = t]
  /\ inside' = [inside EXCEPT ![t] = [pc |-> pc, stale |-> << >>, addrs |-> addrs, next |-> next,
                                      before |-> network[Place(t)], since |-> now]]
  /\ UNCHANGED <<phase, network, client, conn, now, heard, aborted, turns, lost>>

\* network_mutex.acquire()
Enter(t, pc, addrs, next) ==
  /\ In(t, "out") /\ Free(Place(t))
  /\ mutex' = [mutex EXCEPT ![Place(t)] = t]
  /\ inside' = [inside EXCEPT ![t] = [pc |-> pc, stale |-> << >>, addrs |-> addrs, next |-> next,
                                      before |-> network[Place(t)], since |-> now]]
  /\ UNCHANGED <<phase, network, client, conn, now, heard, aborted, turns, lost>>

EnterRefresh(s) ==
  /\ At(s, "sent") /\ Serving(conn[s].to)
  /\ Enter(s, "scan", << >>, Dispatch(conn[s].cmd)) /\ UNCHANGED fetches

EnterRegister(s) ==
  /\ At(s, "register")
  /\ Enter(s, "test", <<conn[s].from>>, "welcome") /\ UNCHANGED fetches

EnterAdd(s) ==
  /\ At(s, "add")
  /\ Enter(s, "test", <<conn[s].about>>, "done") /\ UNCHANGED fetches

EnterMerge(p) ==
  /\ client[p].pc = "merge"
  /\ Enter(p, "test", client[p].data, "look") /\ UNCHANGED fetches

EnterLook(p) ==
  /\ client[p].pc = "look"
  /\ Enter(p, "leave", << >>, "ready") /\ UNCHANGED fetches

EnterChoose(p) ==
  /\ client[p].pc = "ready" /\ fetches < MaxFetches
  /\ Enter(p, "choose", << >>, "ask") /\ fetches' = fetches + 1

Step(t, section) == inside' = [inside EXCEPT ![t] = section]
Picks(list, I) ==
  LET picked[n \in 0..Len(list)] ==
        IF n = 0 THEN << >>
        ELSE IF n \in I THEN Append(picked[n - 1], list[n]) ELSE picked[n - 1]
  IN  picked[Len(list)]

\* What a loop over the list may see of it: while another thread removes
\* entries, the loop's index passes over some, but not over the first.
Sights(t) ==
  LET list == network[Place(t)] IN
    IF \E u \in Threads \ {t} : In(u, "remove") /\ Place(u) = Place(t)
    THEN {Picks(list, I \cup {1}) : I \in SUBSET DOMAIN list}
    ELSE {list}

\* The first loop of the refresh, over the entries; see Refreshed.
Scan(t) ==
  /\ In(t, "scan")
  /\ \E seen \in Sights(t) :
       Step(t, [inside[t] EXCEPT !.pc = "remove", !.stale =
                  IF \E i \in DOMAIN seen : seen[i].addr = conn[t].from /\ seen[i].seen # Own
                  THEN << >> ELSE SelectSeq(seen, LAMBDA e : ~IsFresh(e))])
  /\ UNCHANGED <<network, mutex>> /\ Unchanged_Threads

\* Its second loop; an entry that is gone by now raises, which ends the refresh.
Remove(t) ==
  /\ In(t, "remove")
  /\ LET list  == network[Place(t)]
         stale == inside[t].stale
         Found == {i \in DOMAIN list : list[i] = Head(stale)} IN
       IF stale = << >> \/ Found = {}
       THEN Step(t, [inside[t] EXCEPT !.pc = "leave", !.stale = << >>]) /\ UNCHANGED network
       ELSE /\ Step(t, [inside[t] EXCEPT !.stale = Tail(stale)])
            /\ \E i \in Found :
                 network' = [network EXCEPT ![Place(t)] = Picks(list, DOMAIN list \ {i})]
  /\ UNCHANGED mutex /\ Unchanged_Threads

\* Is the address listed?  Who registers is refused then, others are passed over.
Test(t) ==
  /\ In(t, "test") /\ inside[t].addrs # << >>
  /\ \E seen \in Sights(t) :
       Step(t, IF Head(inside[t].addrs) \notin Addresses(seen)
               THEN [inside[t] EXCEPT !.pc = "append"]
               ELSE IF inside[t].next = "welcome"
               THEN [inside[t] EXCEPT !.pc = "leave", !.addrs = << >>, !.next = "refuse"]
               ELSE [inside[t] EXCEPT !.addrs = Tail(@)])
  /\ UNCHANGED <<network, mutex>> /\ Unchanged_Threads

AppendTested(t) ==
  /\ In(t, "append")
  /\ network' = [network EXCEPT ![Place(t)] =
                   Append(@, [addr |-> Head(inside[t].addrs), seen |-> now])]
  /\ Step(t, [inside[t] EXCEPT !.pc = "test", !.addrs = Tail(@)])
  /\ UNCHANGED mutex /\ Unchanged_Threads

\* mutant: the reply is to hold the entries, with their times
AllTested_Entries(t) ==
  /\ In(t, "test") /\ inside[t].addrs = << >>
  /\ \E seen \in Sights(t) :
       Step(t, [inside[t] EXCEPT !.pc = "leave", !.addrs =
                  IF inside[t].next = "welcome" THEN seen ELSE @])
  /\ UNCHANGED <<network, mutex>> /\ Unchanged_Threads

\* No address is left; the reply to one that has registered lists all that are known.
AllTested(t) ==
  /\ In(t, "test") /\ inside[t].addrs = << >>
  /\ \E seen \in Sights(t) :
       Step(t, [inside[t] EXCEPT !.pc = "leave", !.addrs =
                  IF inside[t].next = "welcome" THEN [i \in DOMAIN seen |-> seen[i].addr] ELSE @])
  /\ UNCHANGED <<network, mutex>> /\ Unchanged_Threads

\* get_random_peer: random.choice of no peers at all ends the thread.
Choose(p) ==
  /\ In(p, "choose")
  /\ \E seen \in Sights(p) :
       LET potential_peers == Addresses(seen) \ {p} IN
         \/ /\ potential_peers = {}
            /\ Step(p, [inside[p] EXCEPT !.pc = "leave", !.next = "ended"])
         \/ \E q \in potential_peers : Step(p, [inside[p] EXCEPT !.pc = "leave", !.addrs = <<q>>])
  /\ UNCHANGED <<network, mutex>> /\ Unchanged_Threads

\* What follows a section.  The loop over the reply leaves its last address in
\* ip and port, and that is what is announced.
Proceed(t) ==
  LET next  == inside[t].next
      addrs == inside[t].addrs IN
    IF t \in Peers
    THEN client' = [client EXCEPT ![t] = [pc |-> next, data |-> addrs]] /\ UNCHANGED <<conn, heard>>
    ELSE /\ Update(t, IF next = "welcome"
                      THEN [conn[t] EXCEPT !.pc = next, !.data = addrs, !.about = addrs[Len(addrs)]]
                      ELSE [conn[t] EXCEPT !.pc = next])
         /\ heard' = IF At(t, "sent") THEN [heard EXCEPT ![conn[t].to][conn[t].from] = now] ELSE heard
         /\ UNCHANGED client

\* network_mutex.release(), also when it is another thread that holds it by now.
Leave(t) ==
  /\ In(t, "leave") /\ ~Free(Place(t))
  /\ mutex' = [mutex EXCEPT ![Place(t)] = Nobody]
  /\ Step(t, Outside)
  /\ Proceed(t)
  /\ UNCHANGED <<phase, network, now, fetches, aborted, turns, lost>>

\* A handler whose section raises apologises, a client ends.
Fail(t) ==
  /\ Step(t, Outside)
  /\ IF t \in Peers
     THEN client' = [client EXCEPT ![t] = [pc |-> "ended", data |-> << >>]] /\ UNCHANGED conn
     ELSE Goto(t, "apologise") /\ UNCHANGED client
  /\ UNCHANGED <<phase, network, now, fetches, heard, aborted, turns, lost>>

\* Releasing a mutex that nobody holds raises, in the refresh and in run_client
\* for good.  The other sections have an except branch that releases it again ...
LeaveRaises(t) ==
  /\ In(t, "leave") /\ Free(Place(t))
  /\ IF inside[t].next \in {"register", "add", "serve", "ready"}
     THEN Fail(t)
     ELSE Step(t, [inside[t] EXCEPT !.pc = "again"]) /\ UNCHANGED network /\ Unchanged_Threads
  /\ UNCHANGED mutex

\* ... as has the inform loop, ...
LoopRaises(s) ==
  /\ At(s, "inform") /\ ~Informing(s) /\ In(s, "out") /\ Free(conn[s].to)
  /\ Step(s, [Outside EXCEPT !.pc = "again"])
  /\ UNCHANGED <<network, mutex>> /\ Unchanged_Threads

\* ... from another thread, if one has acquired it in between.
LeaveAgain(t) ==
  /\ In(t, "again")
  /\ mutex' = [mutex EXCEPT ![Place(t)] = Nobody]
  /\ Fail(t)

-----------------------------------------------------------------------------
(* All steps *)

Turn(p) == turns[p] > 0 /\ turns' = [turns EXCEPT ![p] = @ - 1]

\* The process is killed: its handlers are gone, and so is its side of every connection.
Stop(p) ==
  /\ phase[p] # "off" /\ Turn(p)
  /\ phase' = [phase EXCEPT ![p] = "off"]
  /\ network' = [network EXCEPT ![p] = << >>]
  /\ mutex' = [mutex EXCEPT ![p] = Nobody]
  /\ client' = [client EXCEPT ![p] = [pc |-> "off", data |-> << >>]]
  /\ heard' = [heard EXCEPT ![p] = [q \in Peers |-> Own]]
  /\ conn' = [s \in Slots |->
        IF s \in FreeSlots THEN NoConn
        ELSE Kept([conn[s] EXCEPT !.pc   = IF conn[s].to = p THEN "done" ELSE @,
                                  !.gone = @ \/ conn[s].from = p])]
  /\ inside' = [t \in Threads |-> IF t \notin FreeSlots /\ Place(t) = p THEN Outside ELSE inside[t]]
  /\ UNCHANGED <<now, fetches, aborted, lost>>

InSection(t) == \/ Scan(t) \/ Remove(t) \/ Test(t) \/ AppendTested(t) \/ AllTested(t) \/ Choose(t)
               \/ Leave(t) \/ LeaveRaises(t) \/ LeaveAgain(t)

SectionsClient(p) ==
  \/ (Register(p) \/ ReadReply(p) \/ Ask(p)) /\ UNCHANGED <<turns, lost, inside>>
  \/ EnterMerge(p) \/ EnterLook(p) \/ InSection(p)

SectionsHandler(s) ==
  \/ /\ In(s, "out")
     /\ \/ ServeFile(s) \/ Welcome(s) \/ Announce(s) \/ InformNext(s) \/ InformFails(s)
        \/ EndInform(s) /\ ~Free(conn[s].to)
        \/ Apologise(s)
     /\ UNCHANGED <<turns, lost, inside>>
  \/ In(s, "out") /\ Refuse(s) /\ lost' = (lost \/ mutex' # mutex) /\ UNCHANGED <<turns, inside>>
  \/ EnterRefresh(s) \/ EnterRegister(s) \/ EnterAdd(s) \/ LoopRaises(s) \/ InSection(s)

SectionsNext ==
  \/ (Minute \/ \E p \in Peers : Serve(p)) /\ UNCHANGED <<turns, lost, inside>>
  \/ \E p \in Peers : Start(p) /\ Turn(p) /\ UNCHANGED <<lost, inside>>
  \/ \E p \in Peers : Stop(p) \/ SectionsClient(p) \/ EnterChoose(p)
  \/ \E s \in Slots : SectionsHandler(s)

SectionsSpec == SectionsInit /\ [][SectionsNext]_sectionsVars

SomeThread ==
  \/ \E p \in Peers : (Serve(p) /\ UNCHANGED <<turns, lost, inside>>) \/ SectionsClient(p)
  \/ \E s \in Slots : SectionsHandler(s)

\* As long as a thread can run, one does; nobody has to start or kill a process
\* or to ask for a file.
SectionsFairSpec ==
  /\ SectionsSpec
  /\ WF_sectionsVars(SomeThread)

-----------------------------------------------------------------------------
(* Properties *)

SectionsTypeOK ==
  /\ turns \in [Peers -> 0..MaxTurns] /\ lost \in BOOLEAN
  /\ inside \in [Threads -> Section]
  /\ mutex \in [Peers -> Threads \cup {Nobody}]

\* The section that holds the mutex of p, if one does.
Holders(p) == {t \in Threads : t \notin FreeSlots /\ Place(t) = p /\ ~In(t, "out")}

\* What PeerNetwork sees: the list as it was when the section was entered.  The
\* release is its step.
Whole == INSTANCE PeerNetwork WITH
  network <- [p \in Peers |-> IF Holders(p) = {} THEN network[p]
                              ELSE inside[CHOOSE t \in Holders(p) : TRUE].before],
  mutex   <- [p \in Peers |-> IF Holders(p) = {} THEN mutex[p] ELSE Nobody],
  fetches <- fetches - Cardinality({p \in Peers : inside[p].next \in {"ask", "ended"}})

\* PeerNetwork may take a section under network_mutex as one step: until a
\* mutex is taken away from its holder nothing disturbs it, whichever threads
\* of a peer are in one, wait for one or inform others, and whoever is killed.
\* A section in which a minute passes is left out; PeerNetwork gives all that
\* it adds one time.
SectionsAreOneStep ==
  [][~lost' /\ (\A t \in Threads : In(t, "leave") => inside[t].since = now)
     => Whole!Next \/ UNCHANGED Whole!vars \/ \E p \in Peers : Stop(p)]_sectionsVars

\* A peer that registers gets past it: answered, refused, or told by a closed
\* connection that there is nobody; also when a mutex has been taken away.
RegistrationEnds ==
  \A p \in Peers : client[p].pc \in {"register", "waiting", "merge", "look"}
                     ~> client[p].pc \in {"off", "ready", "ended"}
=============================================================================
