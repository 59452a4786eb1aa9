--------------------------- MODULE MCFileService ----------------------------
(* Two runs of the client in one directory, of which one may fetch two files, *)
(* and one in another directory that wants the same name, for FileService.    *)
EXTENDS FileService, TLC

CONSTANTS c1, c2, c3

ThreeRuns == {c1, c2, c3}
Ann       == [c \in Clients |-> "ann"]
Home      == [c \in Clients |-> IF c = c3 THEN "dir2" ELSE "dir1"]
Secret    == [c \in Clients |-> "pw"]
Gets      == [c \in Clients |-> IF c = c2 THEN 2 ELSE 0]
\* an empty file and one of two blocks
TwoFiles == [p \in {"empty.txt", "hamlet.txt"} |-> IF p = "empty.txt" THEN 0 ELSE 2]
=============================================================================
