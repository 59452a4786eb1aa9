---------------------------- MODULE MCPeerFetch -----------------------------
(* One file under two names, and two requesters, of which the first is the  *)
(* peer in C, for PeerFetch.                                                *)
EXTENDS PeerFetch

CONSTANTS h1, h2

TwoHandlers == {h1, h2}
TwoNames == {"tiny.txt", "./tiny.txt"}
OnePath == [n \in TwoNames |-> "tiny.txt"]
NoneOrWhole == {0, 2}
=============================================================================
