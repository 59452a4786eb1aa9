---------------------------- MODULE MCRadixTree -----------------------------
(* Input files of a few numbers of three bits, for RadixTree. *)
EXTENDS RadixTree

\* Numbers that differ in every bit, and takes of one and of more than a buffer.
FewInputs == {0, 1, 3, 4, 6, -1, -3}
NodesOnly == {NodeSize}
=============================================================================
