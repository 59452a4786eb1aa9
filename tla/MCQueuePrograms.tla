-------------------------- MODULE MCQueuePrograms ---------------------------
(* A small tree and three lines for QueuePrograms.                         *)
EXTENDS QueuePrograms

CONSTANTS w1, w2

TwoWorkers == {w1, w2}

\* An empty file, one whose last chunk is full, one with a byte left over, and a
\* directory between them; bytes with no, one and both bits set.
SmallTree == << <<{0, 1}, {0}>>, Directory, << >>, <<{1}, {}, {0, 1}>> >>

ThreeLines == <<5, -1, 2>>

ThreadCounts == {None, 0, 2}
=============================================================================
