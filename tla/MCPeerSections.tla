--------------------------- MODULE MCPeerSections ---------------------------
(***************************************************************************)
(* Three peers for PeerSections.  From SectionsInit on, the ways to join   *)
(* and die in are too many; so the run starts in four states on the way,   *)
(* where a kill or a minute matters.  The turns that a peer has left bound *)
(* what else happens.                                                      *)
(***************************************************************************)
EXTENDS PeerSections, TLC

CONSTANTS first, second, third

Three == {first, second, third}
ContactFirst == [p \in Peers |-> IF p = first THEN NoPeer ELSE first]
SlotsOf4 == 1..4

\* The third peer has registered with the first in that minute, and fetched so often.
Heard(minute, asked) ==
  /\ now = minute /\ fetches = asked
  /\ heard = [p \in Peers |-> [q \in Peers |-> IF p = first /\ q = third THEN minute ELSE Own]]
  /\ mutex = [p \in Peers |-> Nobody]
  /\ aborted = FALSE /\ lost = FALSE
  /\ inside = [t \in Threads |-> Outside]

Turns(f, s, t) ==
  turns = [p \in Peers |-> CASE p = first -> f [] p = second -> s [] p = third -> t]

\* The first and the third peer have joined and know each other, the second is off.
Joined(minute) ==
  /\ phase = [p \in Peers |-> IF p = second THEN "off" ELSE "serving"]
  /\ network = [p \in Peers |->
       CASE p = first  -> <<[addr |-> first, seen |-> Own], [addr |-> third, seen |-> minute]>>
         [] p = second -> << >>
         [] p = third  -> <<[addr |-> third, seen |-> Own], [addr |-> first, seen |-> minute]>>]
  /\ client = [p \in Peers |-> [pc |-> IF p = third THEN "ready" ELSE "off", data |-> << >>]]
  /\ conn = [s \in Slots |-> NoConn]

\* The third peer has joined, died, come back and died again: the second release
\* of the mutex of the first peer is to come.
Died(minute) ==
  /\ phase = [p \in Peers |-> IF p = first THEN "serving" ELSE "off"]
  /\ network = [p \in Peers |->
       IF p = first THEN <<[addr |-> first, seen |-> Own], [addr |-> third, seen |-> minute]>>
       ELSE << >>]
  /\ client = [p \in Peers |-> [pc |-> "off", data |-> << >>]]
  /\ conn = [s \in Slots |->
       IF s = 1 THEN [Request(third, first, "REGISTER", third) EXCEPT !.pc = "refuse", !.gone = TRUE]
       ELSE NoConn]

\* The second peer comes, dies and comes back while the first dies or comes back;
OnTheWay ==
  \/ Joined(1) /\ Heard(1, MaxFetches) /\ Turns(2, 3, 0)
  \* it comes while a minute passes, or while the third fetches a file;
  \/ Joined(0) /\ Heard(0, MaxFetches) /\ Turns(0, 1, 0)
  \/ Joined(1) /\ Heard(1, 0) /\ Turns(0, 1, 0)
  \* it comes, dies and comes back while the mutex is taken away.
  \/ Died(1) /\ Heard(1, MaxFetches) /\ Turns(0, 3, 0)

OnTheWaySpec ==
  /\ OnTheWay
  /\ [][SectionsNext]_sectionsVars
  /\ WF_sectionsVars(SomeThread)
=============================================================================
