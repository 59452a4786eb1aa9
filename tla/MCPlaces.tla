------------------------------ MODULE MCPlaces ------------------------------
(* Small files for Places: ids that repeat and one that does not fit an int,  *)
(* places that share a coordinate, lines that end early.                      *)
EXTENDS Places

Place(i, x, y) == [id |-> i, lon |-> x, lat |-> y]
Full(i, x, y)  == [tabs |-> 23, place |-> Place(i, x, y)]

SomeLines == {Full(1, 0, 2), Full(2, 1, 0), Full(2, 2, 1), Full(9, 1, 2)}
CutLines  == {[tabs |-> 3, place |-> Place(1, 0, 0)], [tabs |-> 7, place |-> Place(3, 2, 0)]}

ReadableFiles ==
  {[header |-> "right", lines |-> s] :
     s \in UNION {[1..k -> SomeLines] : k \in 0..4} \cup
           {<<a, b, Full(1, 0, 2)>> : a \in CutLines, b \in SomeLines} \cup
           {<<Full(3, 2, 2), Full(1, 1, 1), Full(0, 0, 2), Full(-1, 2, 0), Full(2, 0, 0), Full(4, 1, 2)>>}}

SmallFiles == ReadableFiles \cup
  {None, [header |-> "absent", lines |-> << >>], [header |-> "wrong", lines |-> <<Full(1, 0, 0)>>]}

OldRecords == {Place(2, 0, 1), Place(1, 2, 2)}
SomeIds    == {-1, 0, 1, 2, 4, 9}
SomePoints == {<<0, 0>>, <<1, 1>>, <<2, 1>>, <<1, 2>>}
=============================================================================
