--------------------------- MODULE MCPeerRetrieve ---------------------------
(* One file under two names, and two requesters, for PeerRetrieve. *)
EXTENDS PeerRetrieve, TLC

CONSTANTS h1, h2

TwoHandlers == {h1, h2}
\* "tiny.txt" and "./tiny.txt" are one path, "hamlet.txt" another.
ThreeNames == {"tiny.txt", "./tiny.txt", "hamlet.txt"}
ThreePaths == [n \in ThreeNames |-> IF n = "./tiny.txt" THEN "tiny.txt" ELSE n]
=============================================================================
