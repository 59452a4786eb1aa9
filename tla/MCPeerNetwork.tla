--------------------------- MODULE MCPeerNetwork ----------------------------
(* Small networks of peers for PeerNetwork: one first peer, contacted by the others. *)
EXTENDS PeerNetwork, TLC

CONSTANTS first, second, third

Three == {first, second, third}
ContactFirst == [p \in Peers |-> IF p = first THEN NoPeer ELSE first]
SlotsOf3 == 1..3
SlotsOf4 == 1..4
PeerSymmetry == Permutations({second, third})

\* A peer has joined and been killed, so that it is refused when it comes back:
\* a state that PeerSections gets to, where processes are killed.
CameBack ==
  \E p \in {second, third} :
    /\ phase = [q \in Peers |-> IF q = first THEN "serving" ELSE "off"]
    /\ network = [q \in Peers |->
         IF q = first THEN <<[addr |-> first, seen |-> Own], [addr |-> p, seen |-> MaxNow]>>
         ELSE << >>]
    /\ mutex = [q \in Peers |-> Nobody]
    /\ client = [q \in Peers |-> [pc |-> "off", data |-> << >>]]
    /\ conn = [s \in Slots |-> NoConn]
    /\ now = MaxNow /\ fetches = MaxFetches
    /\ heard = [q \in Peers |-> [r \in Peers |-> IF q = first /\ r = p THEN MaxNow ELSE Own]]
    /\ aborted = FALSE

JoiningSpec == (Init \/ CameBack) /\ [][Next]_vars
=============================================================================
