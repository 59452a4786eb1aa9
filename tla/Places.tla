------------------------------- MODULE Places -------------------------------
(***************************************************************************)
(* The programs of A1 that look places up by id or by coordinates          *)
(* (src/A1).  All of them read the records of one file (record.c), build   *)
(* an index and answer the queries typed in (id_query.c, coord_query.c);   *)
(* random_ids prints ids for ever.  A lookup is one step per round of its  *)
(* loop or call, and so is the building of the k-d tree, whose pending     *)
(* calls of rec are the sequence `work`.                                   *)
(*                                                                         *)
(* A record is reduced to the fields that are looked up.  A field that the *)
(* line has no tab for, and the slot after the last record, hold whatever  *)
(* malloc returned.  Coordinates are whole numbers and distances are left  *)
(* squared, which orders them as euclid does.                              *)
(***************************************************************************)
EXTENDS Integers, Sequences, FiniteSets

CONSTANTS
  Files,    \* the files that a program may be given
  Garbage,  \* the records that uninitialised memory may look like
  Needles,  \* the ids asked for
  Points,   \* the points asked for
  IntHalf,  \* 2^31 in the code: an int lies in -IntHalf .. IntHalf - 1
  Capacity, \* 100 in the code: the records there is room for at first
  None

IdPrograms    == {"id_naive", "id_indexed", "id_binsort"}
CoordPrograms == {"coord_naive", "coord_kdtree"}
Programs      == IdPrograms \cup CoordPrograms \cup {"random_ids"}

Record == [id : Int, lon : Int, lat : Int]
Line   == [tabs : Nat, place : Record]
File   == [header : {"right", "wrong", "absent"}, lines : Seq(Line)]

ASSUME PlacesAssumption ==
  /\ Files \subseteq File \cup {None} /\ None \notin File
  /\ \A f \in Files \ {None} : f.header = "absent" => f.lines = << >>
  /\ Garbage \subseteq Record /\ Garbage # {}
  /\ Needles \subseteq Int /\ Points \subseteq Int \X Int
  /\ IntHalf \in Nat \ {0} /\ Capacity \in Nat \ {0} /\ None \notin Int

VARIABLES
  program, file, \* what was started, and the file it was given
  at,            \* how far it is
  rs, n, room,   \* the array of records from 0, the records read, its capacity
  irs,           \* the index by id: an array of an id and the place of its record
  tree,          \* the k-d tree: the node at each path of "left" and "right"
  work,          \* the calls of rec that are still to be made
  query,         \* the id or point asked for last
  lo, hi,        \* l and r of the binary search; i of the loops is lo
  node, closest, \* the node that lookup_rec is at; the nearest record or node so far
  answer         \* the place in rs of the last answer, or None

readVars   == <<rs, n, room>>
indexVars  == <<irs, tree, work>>
searchVars == <<lo, hi, node, closest>>
vars == <<program, file, at, rs, n, room, irs, tree, work, query, lo, hi, node, closest, answer>>

Init ==
  /\ program \in Programs /\ file \in Files
  /\ at = "open"
  /\ rs = << >> /\ n = 0 /\ room = Capacity
  /\ irs = << >> /\ tree = << >> /\ work = << >>
  /\ query = None /\ answer = None
  /\ lo = 0 /\ hi = 0 /\ node = << >> /\ closest = 0

-----------------------------------------------------------------------------
(* Reading *)

\* An empty file passes: the -1 of input_looks_ok counts as true.
LooksOk(f) == f # None /\ f.header # "wrong"

\* The numbers of tabs before the end of osm_id, lon and lat.
Parsed(line, old) ==
  [id  |-> IF line.tabs >= 4 THEN line.place.id  ELSE old.id,
   lon |-> IF line.tabs >= 7 THEN line.place.lon ELSE old.lon,
   lat |-> IF line.tabs >= 8 THEN line.place.lat ELSE old.lat]

\* The array with record r in slot n.
Stored(r) == [i \in 0..n |-> IF i < n THEN rs[i] ELSE r]

Open ==
  /\ at = "open"
  /\ at' = IF LooksOk(file) THEN "read" ELSE "failed"
  /\ UNCHANGED <<program, file, readVars, indexVars, query, searchVars, answer>>

\* There is always room for the next record, also for the one that fails.
Grown(i) == IF i = room THEN 2 * room ELSE room

ReadRecord ==
  /\ at = "read" /\ n < Len(file.lines)
  /\ \E old \in Garbage : rs' = Stored(Parsed(file.lines[n + 1], old))
  /\ n' = n + 1
  /\ room' = Grown(n + 1)
  /\ UNCHANGED <<program, file, at, indexVars, query, searchVars, answer>>

EndOfRecords ==
  /\ at = "read" /\ n = Len(file.lines)
  /\ \E old \in Garbage : rs' = Stored(old)
  /\ at' = "build"
  /\ UNCHANGED <<program, file, n, room, indexVars, query, searchVars, answer>>

-----------------------------------------------------------------------------
(* Building the index *)

Orders(from, to) == {p \in [from..to -> from..to] : \A i \in from..to : \E j \in from..to : p[j] = i}

\* qsort of the slots from..to of an array, whose entries have the keys key[i]:
\* some order of them in which no key comes before a smaller one.
Sorted(array, from, to, key) ==
  {[i \in DOMAIN array |-> IF i \in from..to THEN array[p[i]] ELSE array[i]] :
     p \in {q \in Orders(from, to) : \A i, j \in from..to : i < j => key[q[i]] <= key[q[j]]}}

MkNaive ==
  /\ at = "build" /\ program \in {"id_naive", "coord_naive", "random_ids"}
  /\ at' = "query"
  /\ UNCHANGED <<program, file, readVars, indexVars, query, searchVars, answer>>

Indexed == [i \in 0..(n - 1) |-> [id |-> rs[i].id, record |-> i]]

MkIndexed ==
  /\ at = "build" /\ program = "id_indexed"
  /\ irs' = Indexed
  /\ at' = "query"
  /\ UNCHANGED <<program, file, readVars, tree, work, query, searchVars, answer>>

\* What cmpfunc compares: the id, cut down to an int.
AsInt(id) == ((id + IntHalf) % (2 * IntHalf)) - IntHalf

MkSortedIndex ==
  /\ at = "build" /\ program = "id_binsort"
  /\ irs' \in Sorted(Indexed, 0, n - 1, [i \in 0..(n - 1) |-> AsInt(rs[i].id)])
  /\ at' = "query"
  /\ UNCHANGED <<program, file, readVars, tree, work, query, searchVars, answer>>

Coord(r) == <<r.lon, r.lat>>

\* sort_rec: axis 0 is the longitude, axis 1 the latitude.
SortRec(from, to, axis) ==
  Sorted(rs, from, to, [i \in from..to |-> Coord(rs[i])[axis + 1]])

Axis(path) == Len(path) % 2

Call(path, offset, last) == [path |-> path, offset |-> offset, last |-> last]

\* The node at path is about record i, and has its coordinates copied.
Planted(path, i, records) ==
  [q \in DOMAIN tree \cup {path} |->
     IF q = path THEN [record |-> i, coord |-> Coord(records[i])] ELSE tree[q]]

\* The root: all records are sorted, the right half includes the slot after them.
MkKdtree ==
  LET m == n \div 2 IN
    /\ at = "build" /\ program = "coord_kdtree"
    /\ rs' \in SortRec(0, n - 1, 0)
    /\ tree' = Planted(<< >>, m, rs')
    /\ work' = <<Call(<<"left">>, 0, m - 1), Call(<<"right">>, m + 1, n)>>
    /\ at' = "rec"
    /\ UNCHANGED <<program, file, n, room, irs, query, searchVars, answer>>

Done(rest) ==
  /\ work' = rest
  /\ at' = IF rest = << >> THEN "query" ELSE "rec"

RecNothing ==
  /\ at = "rec" /\ Head(work).last < Head(work).offset
  /\ Done(Tail(work))
  /\ UNCHANGED <<program, file, readVars, irs, tree, query, searchVars, answer>>

RecOne ==
  LET c == Head(work) IN
    /\ at = "rec" /\ c.last = c.offset
    /\ tree' = Planted(c.path, c.offset, rs)
    /\ Done(Tail(work))
    /\ UNCHANGED <<program, file, readVars, irs, query, searchVars, answer>>

\* mutant: next_n is not corrected
LeftEnd_AsComputed(c, mid) == c.offset + c.last - mid - 1

\* Where the left half ends: one before the middle.
LeftEnd(c, mid) ==
  LET next_n == c.offset + c.last - mid - 1 IN IF next_n = mid THEN next_n - 1 ELSE next_n

\* mutant: one record less
SortEnd_OneLess(c) == c.last - 2

\* sort_rec is given last - offset records, so the last one stays where it is.
SortEnd(c) == c.last - 1

RecMany ==
  LET c == Head(work)
      mid == c.offset + (c.last - c.offset) \div 2 IN
    /\ at = "rec" /\ c.last > c.offset
    /\ rs' \in SortRec(c.offset, SortEnd(c), Axis(c.path))
    /\ tree' = Planted(c.path, mid, rs')
    /\ Done(<<Call(Append(c.path, "left"), c.offset, LeftEnd(c, mid)),
              Call(Append(c.path, "right"), mid + 1, c.last)>> \o Tail(work))
    /\ UNCHANGED <<program, file, n, room, irs, query, searchVars, answer>>

-----------------------------------------------------------------------------
(* Queries *)

AskForId ==
  /\ at = "query" /\ program \in IdPrograms
  /\ query' \in Needles
  /\ lo' = 0 /\ hi' = n - 1
  /\ answer' = None
  /\ at' = "search"
  /\ UNCHANGED <<program, file, readVars, indexVars, node, closest>>

AskForPoint ==
  /\ at = "query" /\ program \in CoordPrograms
  /\ query' \in Points
  /\ lo' = 0 /\ node' = << >>
  /\ closest' = IF program = "coord_naive" THEN 0 ELSE << >>
  /\ answer' = None
  /\ at' = "search"
  /\ UNCHANGED <<program, file, readVars, indexVars, hi>>

EndOfInput ==
  /\ at = "query" /\ program # "random_ids"
  /\ at' = "end"
  /\ UNCHANGED <<program, file, readVars, indexVars, query, searchVars, answer>>

\* rand() % 0 kills the process.
PrintRandomId ==
  /\ at = "query" /\ program = "random_ids"
  /\ \/ n = 0 /\ at' = "failed" /\ UNCHANGED answer
     \/ answer' \in 0..(n - 1) /\ UNCHANGED at
  /\ UNCHANGED <<program, file, readVars, indexVars, query, searchVars>>

Answer(i) ==
  /\ answer' = i
  /\ at' = "query"
  /\ UNCHANGED searchVars

Searching(p) ==
  /\ at = "search" /\ program = p
  /\ UNCHANGED <<program, file, readVars, indexVars, query>>

\* One round of a loop over n ids, at the one that belongs to record i.
Scan(id, i) ==
  \/ lo = n /\ Answer(None)
  \/ lo < n /\ id = query /\ Answer(i)
  \/ lo < n /\ id # query /\ lo' = lo + 1 /\ UNCHANGED <<at, answer, hi, node, closest>>

LookupNaiveId == Searching("id_naive") /\ Scan(rs[lo].id, lo)
LookupIndexed == Searching("id_indexed") /\ Scan(irs[lo].id, irs[lo].record)

\* mutants: a range of one is taken for empty; the middle is not passed
IsLeft_StrictlyLess == lo < hi
Above_Stays(m) == m

IsLeft   == lo <= hi
Above(m) == m + 1

LookupSortedIndex ==
  LET m == (lo + hi) \div 2 IN
    /\ Searching("id_binsort")
    /\ \/ ~IsLeft /\ Answer(None)
       \/ /\ IsLeft /\ irs[m].id < query
          /\ lo' = Above(m) /\ UNCHANGED <<at, answer, hi, node, closest>>
       \/ /\ IsLeft /\ irs[m].id > query
          /\ hi' = m - 1 /\ UNCHANGED <<at, answer, lo, node, closest>>
       \/ IsLeft /\ irs[m].id = query /\ Answer(irs[m].record)

Distance(p, q) == (p[1] - q[1]) * (p[1] - q[1]) + (p[2] - q[2]) * (p[2] - q[2])

LookupNaiveCoord ==
  /\ Searching("coord_naive")
  /\ \/ lo = n /\ Answer(closest)
     \/ /\ lo < n
        /\ lo' = lo + 1
        /\ closest' = IF Distance(query, Coord(rs[lo])) < Distance(query, Coord(rs[closest]))
                      THEN lo ELSE closest
        /\ UNCHANGED <<at, answer, hi, node>>

\* One side only is looked at.
Side(path) ==
  LET a == Axis(path) + 1 IN IF tree[path].coord[a] - query[a] >= 0 THEN "left" ELSE "right"

LookupRec ==
  /\ Searching("coord_kdtree")
  /\ \/ node \notin DOMAIN tree /\ Answer(tree[closest].record)
     \/ /\ node \in DOMAIN tree
        /\ closest' = IF Distance(tree[closest].coord, query) > Distance(tree[node].coord, query)
                      THEN node ELSE closest
        /\ node' = Append(node, Side(node))
        /\ UNCHANGED <<at, answer, lo, hi>>

-----------------------------------------------------------------------------
Step ==
  \/ Open \/ ReadRecord \/ EndOfRecords
  \/ MkNaive \/ MkIndexed \/ MkSortedIndex \/ MkKdtree \/ RecNothing \/ RecOne \/ RecMany
  \/ LookupNaiveId \/ LookupIndexed \/ LookupSortedIndex \/ LookupNaiveCoord \/ LookupRec

Next == Step \/ AskForId \/ AskForPoint \/ EndOfInput \/ PrintRandomId

Spec == Init /\ [][Next]_vars

\* The program runs; what is typed in, and when it ends, is up to the user.
FairSpec == Spec /\ WF_vars(Step)

-----------------------------------------------------------------------------
(* Properties *)

FitsInt(id) == id \in (-IntHalf)..(IntHalf - 1)

\* The binary search never gives a wrong record, and misses none as long as all
\* ids fit the int that the sorting compares (id_query_binsort.c 44), whatever
\* the order of the file and the repetitions in it; the scans miss none at all.
IdAnswersAreRight ==
  program \in IdPrograms /\ at = "query" /\ query # None =>
    IF answer # None THEN answer \in 0..(n - 1) /\ rs[answer].id = query
    ELSE \A i \in 0..(n - 1) :
           rs[i].id = query => program = "id_binsort" /\ \E j \in 0..(n - 1) : ~FitsInt(rs[j].id)

TreeIsBuilt == program = "coord_kdtree" /\ at \in {"query", "search", "end"}

\* Although the halves are computed differently at the root and below, and the
\* records are sorted in place under nodes that exist already: every record is
\* in one node and no node keeps the coordinates of another record.  The slot
\* after the last record, which is allocated but never filled, is in a node too.
TreeHoldsEveryRecord ==
  TreeIsBuilt =>
    /\ \A i \in 0..n : \E path \in DOMAIN tree : tree[path].record = i
    /\ Cardinality(DOMAIN tree) = n + 1 /\ n < room
    /\ \A path \in DOMAIN tree : tree[path].coord = Coord(rs[tree[path].record])

Below(path, side) == {q \in DOMAIN tree : Len(q) > Len(path) /\ SubSeq(q, 1, Len(path) + 1) = Append(path, side)}

\* lookup_rec goes left or right by one coordinate: what is left of a node is
\* not beyond it, and what is right not short of it, but for the last record of
\* each part, which its sorting leaves out (coord_query_kdtree.c 70).
TreeIsOrdered ==
  TreeIsBuilt =>
    \A path \in DOMAIN tree :
      LET a == Axis(path) + 1
          right == Below(path, "right") IN
        /\ \A q \in Below(path, "left") : tree[q].coord[a] <= tree[path].coord[a]
        /\ \A q \in right : \/ tree[q].coord[a] >= tree[path].coord[a]
                            \/ \A r \in right : tree[r].record <= tree[q].record

\* Whatever the file: the index gets built, and every query is answered.
QueriesEnd == at # "query" ~> at \in {"query", "end", "failed"}
=============================================================================
