---------------------------- MODULE PlacesProofs ----------------------------
(***************************************************************************)
(* Proofs about Places: the array of records always has room for one more, *)
(* and the answers of the three programs that look an id up are right, for *)
(* every file, every order that qsort may choose and every query.          *)
(***************************************************************************)
EXTENDS Places, FiniteSetTheorems, TLAPS

\* The range of a loop that has not found the query yet holds what is left to look at.
Slots == 0..(n - 1)
AllFit == \A j \in Slots : FitsInt(rs[j].id)

\* Every record read has an id, whatever its line looked like.
CountsOK ==
  /\ program \in Programs /\ file \in Files
  /\ at \in {"open", "read", "build", "rec", "query", "search", "end", "failed"}
  /\ at = "read" => LooksOk(file)
  /\ at = "rec" => program = "coord_kdtree"
  /\ at \in {"open", "read", "build"} => query = None
  /\ n \in Nat /\ room \in Nat /\ n < room

RecordsOK == program \in IdPrograms => \A i \in Slots : rs[i].id \in Int

\* The sorted index names every record once or more, with its id, in the order
\* of the ids as ints.
SortedIndexOK ==
  /\ \A k \in Slots : irs[k].record \in Slots /\ irs[k].id = rs[irs[k].record].id
  /\ \A i \in Slots : \E k \in Slots : irs[k].record = i
  /\ \A j, k \in Slots : j < k => AsInt(irs[j].id) <= AsInt(irs[k].id)

IndexOK ==
  at \in {"query", "search"} =>
    /\ program = "id_indexed" => irs = Indexed
    /\ program = "id_binsort" => SortedIndexOK

\* What the scans have passed is not the query; what the binary search has cut
\* off lies below or above it.
SearchOK ==
  at = "search" /\ program \in IdPrograms =>
    /\ query \in Int
    /\ lo \in Nat
    /\ program # "id_binsort" => lo <= n /\ \A j \in Slots : j < lo => rs[j].id # query
    /\ program = "id_binsort" =>
         /\ hi \in Int /\ hi < n
         /\ AllFit => \A j \in Slots : /\ j < lo => irs[j].id < query
                                       /\ j > hi => irs[j].id > query

IInv == CountsOK /\ RecordsOK /\ IndexOK /\ SearchOK /\ IdAnswersAreRight

-----------------------------------------------------------------------------
\* An id that fits an int is compared as it is.
LEMMA IntsStay ==
  ASSUME NEW id \in Int, FitsInt(id)
  PROVE  AsInt(id) = id
  <1>1. id + IntHalf \in Nat /\ id + IntHalf < 2 * IntHalf /\ 2 * IntHalf \in Nat \ {0}
    BY PlacesAssumption DEF FitsInt
  <1>2. \A a \in Nat, b \in Nat \ {0} : a < b => a % b = a
    OBVIOUS
  <1>3. (id + IntHalf) % (2 * IntHalf) = id + IntHalf
    BY <1>1, <1>2
  <1>4. QED
    BY <1>3, PlacesAssumption DEF AsInt

\* The id of a record just read is a number, also when the line has none.
LEMMA ParsedId ==
  ASSUME NEW line \in Line, NEW old \in Garbage
  PROVE  Parsed(line, old).id \in Int
  BY PlacesAssumption DEF Parsed, Line, Record

LEMMA InitIInv == Init => IInv
  BY PlacesAssumption DEF Init, IInv, CountsOK, RecordsOK, IndexOK, SearchOK,
     IdAnswersAreRight, Slots, Programs, IdPrograms

\* The steps that the id programs do not take, or that keep what IInv is about.
LEMMA FrameKeeps ==
  ASSUME IInv, UNCHANGED <<program, file, n, room>>,
         at' \in {"rec", "query", "end", "failed", "search"},
         program \notin IdPrograms, at' = "rec" => program = "coord_kdtree"
  PROVE  IInv'
  BY DEF IInv, CountsOK, RecordsOK, IndexOK, SearchOK, IdAnswersAreRight, Slots, IdPrograms

LEMMA ReadKeeps ==
  ASSUME IInv, Open \/ ReadRecord \/ EndOfRecords
  PROVE  IInv'
  <1>1. CASE Open
    BY <1>1 DEF Open, IInv, CountsOK, RecordsOK, IndexOK, SearchOK, IdAnswersAreRight, Slots,
       readVars, indexVars, searchVars, LooksOk
  <1>2. CASE ReadRecord
    <2>1. PICK old \in Garbage : rs' = Stored(Parsed(file.lines[n + 1], old))
      BY <1>2 DEF ReadRecord
    <2>2. n \in Nat /\ room \in Nat /\ n < room /\ n' = n + 1 /\ at = "read" /\ at' = "read"
      BY <1>2 DEF ReadRecord, IInv, CountsOK
    <2>3. file \in File /\ n + 1 \in 1..Len(file.lines)
      BY <1>2, <2>2, PlacesAssumption DEF ReadRecord, IInv, CountsOK, LooksOk, File
    <2>4. file.lines[n + 1] \in Line
      BY <2>3 DEF File
    <2>5. Parsed(file.lines[n + 1], old).id \in Int
      BY <2>4, ParsedId
    <2>6. CountsOK'
      BY <1>2, <2>2, PlacesAssumption DEF ReadRecord, IInv, CountsOK, Grown
    <2>7. RecordsOK'
      BY <1>2, <2>1, <2>2, <2>5 DEF ReadRecord, IInv, RecordsOK, Stored, Slots
    <2>8. QED
      BY <2>2, <2>6, <2>7 DEF IInv, IndexOK, SearchOK, IdAnswersAreRight
  <1>3. CASE EndOfRecords
    <2>1. PICK old \in Garbage : rs' = Stored(old)
      BY <1>3 DEF EndOfRecords
    <2>2. n \in Nat /\ n' = n /\ at' = "build"
      BY <1>3 DEF EndOfRecords, IInv, CountsOK
    <2>3. CountsOK'
      BY <1>3, <2>2 DEF EndOfRecords, IInv, CountsOK
    <2>4. RecordsOK'
      BY <1>3, <2>1, <2>2 DEF EndOfRecords, IInv, RecordsOK, Stored, Slots
    <2>5. QED
      BY <2>2, <2>3, <2>4 DEF IInv, IndexOK, SearchOK, IdAnswersAreRight
  <1>4. QED
    BY <1>1, <1>2, <1>3

\* qsort with the comparison of ints makes a sorted index.
LEMMA SortMakesIndex ==
  ASSUME n \in Nat, UNCHANGED <<n, rs>>,
         irs' \in Sorted(Indexed, 0, n - 1, [i \in 0..(n - 1) |-> AsInt(rs[i].id)])
  PROVE  SortedIndexOK'
  <1> DEFINE key == [i \in 0..(n - 1) |-> AsInt(rs[i].id)]
  <1>1. PICK p \in Orders(0, n - 1) :
          /\ \A i, j \in 0..(n - 1) : i < j => key[p[i]] <= key[p[j]]
          /\ irs' = [i \in DOMAIN Indexed |-> IF i \in 0..(n - 1) THEN Indexed[p[i]] ELSE Indexed[i]]
    BY DEF Sorted
  <1>2. \A k \in 0..(n - 1) : p[k] \in 0..(n - 1) /\ irs'[k] = [id |-> rs[p[k]].id, record |-> p[k]]
    BY <1>1 DEF Orders, Indexed
  <1>3. \A i \in 0..(n - 1) : \E k \in 0..(n - 1) : p[k] = i
    BY <1>1 DEF Orders
  <1>4. \A k \in 0..(n - 1) : irs'[k].record = p[k] /\ irs'[k].id = rs[p[k]].id
    <2>1. TAKE k \in 0..(n - 1)
    <2>2. irs'[k] = [id |-> rs[p[k]].id, record |-> p[k]]
      BY <1>2
    <2>3. QED
      BY <2>2
  <1>5. \A k \in 0..(n - 1) : key[p[k]] = AsInt(irs'[k].id)
    BY <1>2, <1>4
  <1>6. \A i, j \in 0..(n - 1) : i < j => AsInt(irs'[i].id) <= AsInt(irs'[j].id)
    BY <1>1, <1>5
  <1>7. \A i \in 0..(n - 1) : \E k \in 0..(n - 1) : irs'[k].record = i
    BY <1>3, <1>4
  <1>8. QED
    BY <1>2, <1>4, <1>6, <1>7, ZenonT(60) DEF SortedIndexOK, Slots, AsInt

LEMMA BuildKeeps ==
  ASSUME IInv, MkNaive \/ MkIndexed \/ MkSortedIndex
  PROVE  IInv'
  <1>1. at' = "query" /\ UNCHANGED <<program, file, n, room, rs, query, answer>> /\ at = "build"
    BY DEF MkNaive, MkIndexed, MkSortedIndex, readVars
  <1>2. CountsOK' /\ RecordsOK' /\ SearchOK'
    BY <1>1 DEF IInv, CountsOK, RecordsOK, SearchOK, Slots
  <1>3. IndexOK'
    <2>1. CASE MkNaive
      BY <1>1, <2>1 DEF MkNaive, IndexOK
    <2>2. CASE MkIndexed
      BY <1>1, <2>2 DEF MkIndexed, IndexOK, Indexed
    <2>3. CASE MkSortedIndex
      <3>1. SortedIndexOK'
        BY <1>1, <2>3, SortMakesIndex DEF MkSortedIndex, IInv, CountsOK
      <3>2. QED
        BY <1>1, <2>3, <3>1 DEF MkSortedIndex, IndexOK
    <2>4. QED
      BY <2>1, <2>2, <2>3
  <1>4. query = None
    BY <1>1 DEF IInv, CountsOK
  <1>5. QED
    BY <1>1, <1>2, <1>3, <1>4 DEF IInv, IdAnswersAreRight
-----------------------------------------------------------------------------
LEMMA AskKeeps ==
  ASSUME IInv, AskForId
  PROVE  IInv'
  <1>1. /\ at' = "search" /\ answer' = None /\ lo' = 0 /\ hi' = n - 1 /\ query' \in Int
        /\ UNCHANGED <<program, file, n, room, rs, irs>> /\ at = "query"
    BY PlacesAssumption DEF AskForId, readVars, indexVars
  <1>2. CountsOK' /\ RecordsOK'
    BY <1>1 DEF IInv, CountsOK, RecordsOK, Slots
  <1>3. IndexOK'
    BY <1>1 DEF IInv, IndexOK, SortedIndexOK, Indexed, Slots
  <1>4. SearchOK'
    BY <1>1 DEF IInv, CountsOK, SearchOK, Slots, AllFit
  <1>5. QED
    BY <1>1, <1>2, <1>3, <1>4 DEF IInv, IdAnswersAreRight

\* What a lookup step leaves alone, and what it must show.
LEMMA LookupFrame ==
  ASSUME IInv, at = "search", program \in IdPrograms, UNCHANGED <<program, file, readVars, indexVars, query>>,
         at' \in {"query", "search"}, SearchOK', IdAnswersAreRight'
  PROVE  IInv'
  <1>1. CountsOK' /\ RecordsOK'
    BY DEF IInv, CountsOK, RecordsOK, Slots, readVars
  <1>2. IndexOK'
    BY DEF IInv, IndexOK, SortedIndexOK, Indexed, Slots, readVars, indexVars
  <1>3. QED
    BY <1>1, <1>2 DEF IInv

\* One round of either scan.
LEMMA ScanKeeps ==
  ASSUME IInv, NEW p \in {"id_naive", "id_indexed"}, Searching(p),
         NEW id, NEW i, lo < n => id = rs[lo].id /\ i = lo, Scan(id, i)
  PROVE  IInv'
  <1>1. /\ n \in Nat /\ lo \in Nat /\ lo <= n /\ query \in Int /\ at = "search" /\ program = p
        /\ \A j \in Slots : j < lo => rs[j].id # query
    BY DEF IInv, CountsOK, SearchOK, Searching, IdPrograms
  <1>2. UNCHANGED <<program, file, readVars, indexVars, query, n, rs>>
    BY DEF Searching, readVars
  <1>3. query # None
    BY <1>1, PlacesAssumption
  <1>4. CASE lo = n /\ Answer(None)
    <2>1. \A j \in Slots : rs[j].id # query
      BY <1>1, <1>4 DEF Slots
    <2>2. SearchOK' /\ IdAnswersAreRight'
      BY <1>1, <1>2, <1>4, <2>1 DEF SearchOK, IdAnswersAreRight, Answer, Slots
    <2>3. QED
      BY <1>1, <1>2, <1>4, <2>2, LookupFrame DEF Answer, IdPrograms
  <1>5. CASE lo < n /\ id = query /\ Answer(i)
    <2>1. i \in 0..(n - 1) /\ rs[i].id = query /\ i # None
      BY <1>1, <1>5, PlacesAssumption
    <2>2. SearchOK' /\ IdAnswersAreRight'
      BY <1>2, <1>5, <2>1 DEF SearchOK, IdAnswersAreRight, Answer
    <2>3. QED
      BY <1>1, <1>2, <1>5, <2>2, LookupFrame DEF Answer, IdPrograms
  <1>6. CASE lo < n /\ id # query /\ lo' = lo + 1 /\ UNCHANGED <<at, answer, hi, node, closest>>
    <2>1. SearchOK'
      BY <1>1, <1>2, <1>6 DEF SearchOK, Slots
    <2>2. IdAnswersAreRight'
      BY <1>1, <1>6 DEF IdAnswersAreRight
    <2>3. QED
      BY <1>1, <1>2, <1>6, <2>1, <2>2, LookupFrame DEF IdPrograms
  <1>7. QED
    BY <1>4, <1>5, <1>6 DEF Scan

LEMMA BinaryKeeps ==
  ASSUME IInv, LookupSortedIndex
  PROVE  IInv'
  <1> DEFINE m == (lo + hi) \div 2
  <1>1. /\ n \in Nat /\ lo \in Nat /\ hi \in Int /\ hi < n /\ query \in Int
        /\ at = "search" /\ program = "id_binsort" /\ SortedIndexOK /\ RecordsOK
        /\ AllFit => \A j \in Slots : (j < lo => irs[j].id < query) /\ (j > hi => irs[j].id > query)
    BY DEF IInv, CountsOK, IndexOK, SearchOK, LookupSortedIndex, Searching, IdPrograms
  <1>2. UNCHANGED <<program, file, readVars, indexVars, query, n, rs, irs>>
    BY DEF LookupSortedIndex, Searching, readVars, indexVars
  <1>3. query # None
    BY <1>1, PlacesAssumption
  <1>4. \A k \in Slots : irs[k].id \in Int
    BY <1>1 DEF SortedIndexOK, RecordsOK, IdPrograms
  <1>5. AllFit => \A j, k \in Slots : j < k => irs[j].id <= irs[k].id
    <2>1. SUFFICES ASSUME AllFit, NEW j \in Slots, NEW k \in Slots, j < k
                   PROVE  irs[j].id <= irs[k].id
      OBVIOUS
    <2>2. FitsInt(irs[j].id) /\ FitsInt(irs[k].id)
      BY <1>1, <2>1 DEF SortedIndexOK, AllFit
    <2>3. AsInt(irs[j].id) <= AsInt(irs[k].id)
      BY <1>1, <2>1 DEF SortedIndexOK
    <2>4. QED
      BY <1>4, <2>2, <2>3, IntsStay
  <1>6. lo <= hi => m \in Slots /\ lo <= m /\ m <= hi
    BY <1>1 DEF Slots
  <1>7. AllFit' <=> AllFit
    BY <1>2 DEF AllFit, Slots
  <1>8. CASE ~IsLeft /\ Answer(None)
    <2>1. AllFit => \A i \in Slots : rs[i].id # query
      <3>1. SUFFICES ASSUME AllFit, NEW i \in Slots
                     PROVE  rs[i].id # query
        OBVIOUS
      <3>2. PICK k \in Slots : irs[k].record = i /\ irs[k].id = rs[i].id
        BY <1>1 DEF SortedIndexOK
      <3>3. k < lo \/ k > hi
        BY <1>1, <1>8, <3>2 DEF IsLeft, Slots
      <3>4. QED
        BY <1>1, <1>4, <3>1, <3>2, <3>3
    <2>2. SearchOK' /\ IdAnswersAreRight'
      BY <1>1, <1>2, <1>8, <2>1 DEF SearchOK, IdAnswersAreRight, Answer, AllFit, Slots
    <2>3. QED
      BY <1>1, <1>2, <1>8, <2>2, LookupFrame DEF Answer, IdPrograms
  <1>9. CASE IsLeft /\ irs[m].id < query /\ lo' = Above(m) /\ UNCHANGED <<at, answer, hi, node, closest>>
    <2>1. m \in Slots /\ lo' = m + 1
      BY <1>6, <1>9 DEF IsLeft, Above
    <2>2. AllFit => \A j \in Slots : j < m + 1 => irs[j].id < query
      BY <1>1, <1>4, <1>5, <1>9, <2>1 DEF Slots
    <2>3. SearchOK'
      BY <1>1, <1>2, <1>7, <1>9, <2>1, <2>2 DEF SearchOK, Slots
    <2>4. QED
      BY <1>1, <1>2, <1>9, <2>3, LookupFrame DEF IdPrograms, IdAnswersAreRight
  <1>10. CASE IsLeft /\ irs[m].id > query /\ hi' = m - 1 /\ UNCHANGED <<at, answer, lo, node, closest>>
    <2>1. m \in Slots
      BY <1>6, <1>10 DEF IsLeft
    <2>2. AllFit => \A j \in Slots : j > m - 1 => irs[j].id > query
      BY <1>1, <1>4, <1>5, <1>10, <2>1 DEF Slots
    <2>3. SearchOK'
      BY <1>1, <1>2, <1>7, <1>10, <2>1, <2>2 DEF SearchOK, Slots
    <2>4. QED
      BY <1>1, <1>2, <1>10, <2>3, LookupFrame DEF IdPrograms, IdAnswersAreRight
  <1>11. CASE IsLeft /\ irs[m].id = query /\ Answer(irs[m].record)
    <2>1. irs[m].record \in 0..(n - 1) /\ rs[irs[m].record].id = query /\ irs[m].record # None
      <3>1. m \in Slots /\ irs[m].id = query
        BY <1>6, <1>11 DEF IsLeft
      <3>2. irs[m].record \in Slots /\ rs[irs[m].record].id = query
        BY <1>1, <3>1 DEF SortedIndexOK
      <3>3. QED
        BY <1>1, <3>2, PlacesAssumption DEF Slots
    <2>2. answer' = irs[m].record /\ at' = "query" /\ UNCHANGED <<n, rs, query>>
      BY <1>2, <1>11 DEF Answer
    <2>3. SearchOK' /\ IdAnswersAreRight'
      BY <2>1, <2>2 DEF SearchOK, IdAnswersAreRight
    <2>4. QED
      BY <1>1, <1>2, <2>2, <2>3, LookupFrame DEF IdPrograms
  <1>12. QED
    BY <1>8, <1>9, <1>10, <1>11 DEF LookupSortedIndex

LEMMA StepKeeps == IInv /\ [Next]_vars => IInv'
  <1>1. SUFFICES ASSUME IInv, [Next]_vars
                 PROVE  IInv'
    OBVIOUS
  <1>2. CASE Open \/ ReadRecord \/ EndOfRecords
    BY <1>1, <1>2, ReadKeeps
  <1>3. CASE MkNaive \/ MkIndexed \/ MkSortedIndex
    BY <1>1, <1>3, BuildKeeps
  <1>4. CASE AskForId
    BY <1>1, <1>4, AskKeeps
  <1>5. CASE LookupNaiveId
    <2>1. Scan(rs[lo].id, lo) /\ Searching("id_naive")
      BY <1>5 DEF LookupNaiveId
    <2>2. QED
      BY <1>1, <2>1, ScanKeeps
  <1>6. CASE LookupIndexed
    <2>1. Scan(irs[lo].id, irs[lo].record) /\ Searching("id_indexed")
      BY <1>6 DEF LookupIndexed
    <2>2. irs = Indexed /\ n \in Nat /\ lo \in Nat
      BY <1>1, <2>1 DEF IInv, CountsOK, IndexOK, SearchOK, Searching, IdPrograms
    <2>3. lo < n => irs[lo].id = rs[lo].id /\ irs[lo].record = lo
      BY <2>2 DEF Indexed
    <2>4. QED
      BY <1>1, <2>1, <2>3, ScanKeeps
  <1>7. CASE LookupSortedIndex
    BY <1>1, <1>7, BinaryKeeps
  <1>8. CASE \/ MkKdtree \/ RecNothing \/ RecOne \/ RecMany
             \/ AskForPoint \/ LookupNaiveCoord \/ LookupRec \/ PrintRandomId
    <2>1. /\ UNCHANGED <<program, file, n, room>>
          /\ at' \in {"rec", "query", "end", "failed", "search"}
      BY <1>1, <1>8 DEF MkKdtree, RecNothing, RecOne, RecMany, Done, AskForPoint, LookupNaiveCoord,
         LookupRec, PrintRandomId, Searching, Answer, readVars, IInv, CountsOK
    <2>2. program \notin IdPrograms
      <3>1. CASE MkKdtree \/ AskForPoint \/ LookupNaiveCoord \/ LookupRec \/ PrintRandomId
        BY <3>1 DEF MkKdtree, AskForPoint, LookupNaiveCoord, LookupRec, PrintRandomId, Searching,
           IdPrograms, CoordPrograms
      <3>2. CASE RecNothing \/ RecOne \/ RecMany
        BY <1>1, <3>2 DEF RecNothing, RecOne, RecMany, IInv, CountsOK, IdPrograms
      <3>3. QED
        BY <1>8, <3>1, <3>2
    <2>3. at' = "rec" => program = "coord_kdtree"
      BY <1>1, <1>8 DEF MkKdtree, RecNothing, RecOne, RecMany, AskForPoint, LookupNaiveCoord,
         LookupRec, PrintRandomId, Searching, Answer, IInv, CountsOK
    <2>4. QED
      BY <1>1, <2>1, <2>2, <2>3, FrameKeeps
  <1>9. CASE EndOfInput
    BY <1>1, <1>9 DEF EndOfInput, IInv, CountsOK, RecordsOK, IndexOK, SearchOK, IdAnswersAreRight,
       Slots, readVars, indexVars, searchVars
  <1>10. CASE UNCHANGED vars
    BY <1>1, <1>10 DEF vars, IInv, CountsOK, RecordsOK, IndexOK, SortedIndexOK, SearchOK,
       IdAnswersAreRight, AllFit, Slots, Indexed
  <1>11. QED
    BY <1>1, <1>2, <1>3, <1>4, <1>5, <1>6, <1>7, <1>8, <1>9, <1>10 DEF Next, Step

LEMMA Inductive == Spec => []IInv
  BY InitIInv, StepKeeps, PTL DEF Spec

\* The binary search never gives a wrong record and misses none when all ids fit
\* an int, and the scans miss none, for files of any length (lookup_sorted_index,
\* lookup_indexed, lookup_naive).
THEOREM LookupsAreRight == Spec => []IdAnswersAreRight
  <1>1. IInv => IdAnswersAreRight
    BY DEF IInv
  <1>2. QED
    BY <1>1, Inductive, PTL

\* However many records a file has, the slot after the last is allocated: the
\* failing read_record and the k-d tree use it.
THEOREM RoomForOneMore == Spec => [](n < room)
  <1>1. IInv => n < room
    BY DEF IInv, CountsOK
  <1>2. QED
    BY <1>1, Inductive, PTL
-----------------------------------------------------------------------------
(* The k-d tree: a tree T of nodes over an array R of records in the slots   *)
(* 0..N, and a set C of calls of rec that are still to be made.              *)

Extends(q, p) == Len(p) <= Len(q) /\ \A k \in 1..Len(p) : q[k] = p[k]

\* Path q begins with path p and goes on to the given side.
Under(q, p, side) == Len(q) > Len(p) /\ Extends(q, p) /\ q[Len(p) + 1] = side

Sides == {"left", "right"}
Paths == Seq(Sides)
Calls == [path : Paths, offset : Nat, last : Int]
Span(c) == c.offset..c.last
Arrays(N) == [0..N -> Record]

\* The part of the array on one side of a node: in nodes, or in calls to be made.
Holds(T, C, i, p, side) ==
  \/ \E q \in DOMAIN T : Under(q, p, side) /\ T[q].record = i
  \/ \E c \in C : Under(c.path, p, side) /\ i \in Span(c)

CoordAt(R, i, p) == Coord(R[i])[Axis(p) + 1]

\* Each slot is in one node or one call, no call is at or above a node or another
\* call, and nodes have the coordinates of their records.
NodesOK(N, T, R) ==
  /\ DOMAIN T \subseteq Paths
  /\ \A q \in DOMAIN T : T[q].record \in 0..N /\ T[q].coord = Coord(R[T[q].record])
  /\ \A q, r \in DOMAIN T : T[q].record = T[r].record => q = r

CallsOK(N, T, C) ==
  /\ C \subseteq Calls
  /\ \A c \in C : c.last <= N
  /\ \A c, d \in C : c # d => ~Extends(c.path, d.path)
  /\ \A c, d \in C : c # d => \A i \in Span(c) : i \notin Span(d)
  /\ \A c \in C, q \in DOMAIN T : ~Extends(q, c.path) /\ T[q].record \notin Span(c)

CoversOK(N, T, C) ==
  \A i \in 0..N : (\E q \in DOMAIN T : T[q].record = i) \/ (\E c \in C : i \in Span(c))

\* The nodes are in order with what is on their sides, also before it is in nodes:
\* only the last slot of a right side may be out of order.
OrderOK(T, C, R) ==
  \A p \in DOMAIN T :
    /\ \A i : Holds(T, C, i, p, "left") => CoordAt(R, i, p) <= T[p].coord[Axis(p) + 1]
    /\ \A i : Holds(T, C, i, p, "right") => \/ CoordAt(R, i, p) >= T[p].coord[Axis(p) + 1]
                                            \/ \A j : Holds(T, C, j, p, "right") => j <= i

Grows(N, T, C, R) ==
  /\ NodesOK(N, T, R) /\ CallsOK(N, T, C) /\ CoversOK(N, T, C) /\ OrderOK(T, C, R)

-----------------------------------------------------------------------------
(* Paths *)

LEMMA ChildIs ==
  ASSUME NEW p \in Paths, NEW side \in Sides
  PROVE  /\ Append(p, side) \in Paths /\ Len(Append(p, side)) = Len(p) + 1
         /\ Append(p, side)[Len(p) + 1] = side /\ Len(p) \in Nat
         /\ \A k \in 1..Len(p) : Append(p, side)[k] = p[k]
  BY DEF Paths

LEMMA ExtendsItself == \A p \in Paths : Extends(p, p) /\ \A side : ~Under(p, p, side)
  BY DEF Extends, Under, Paths

\* What is under a path is not above it.
LEMMA ExtendsTransitively ==
  ASSUME NEW p \in Paths, NEW q \in Paths, NEW r \in Paths, Extends(r, q), Extends(q, p)
  PROVE  Extends(r, p)
  BY DEF Extends, Paths

LEMMA UnderExtends ==
  ASSUME NEW p \in Paths, NEW q \in Paths, NEW r \in Paths, NEW side, Extends(r, q), Under(q, p, side)
  PROVE  Under(r, p, side)
  <1>1. Len(p) \in Nat /\ Len(q) \in Nat /\ Len(r) \in Nat /\ Len(p) < Len(q) /\ Len(q) <= Len(r)
    BY DEF Extends, Under, Paths
  <1>2. Extends(r, p)
    BY ExtendsTransitively DEF Under
  <1>3. r[Len(p) + 1] = q[Len(p) + 1]
    BY <1>1 DEF Extends
  <1> QED BY <1>1, <1>2, <1>3 DEF Under

\* A path that ends where p goes on is p, or p extends it.
LEMMA ChildExtends ==
  ASSUME NEW p \in Paths, NEW side \in Sides, NEW q \in Paths, Extends(Append(p, side), q)
  PROVE  Extends(p, q) \/ q = Append(p, side)
  <1> DEFINE a == Append(p, side)
  <1>1. a \in Paths /\ Len(a) = Len(p) + 1 /\ Len(p) \in Nat /\ Len(q) \in Nat /\ Len(q) <= Len(a)
        /\ \A k \in 1..Len(p) : a[k] = p[k]
    BY ChildIs DEF Extends, Paths
  <1>2. \A k \in 1..Len(q) : a[k] = q[k]
    BY DEF Extends
  <1> HIDE DEF a
  <1>3. CASE Len(q) <= Len(p)
    BY <1>1, <1>2, <1>3 DEF Extends
  <1>4. CASE Len(q) = Len(p) + 1
    <2>1. q = a
      BY <1>1, <1>2, <1>4 DEF Paths
    <2> QED BY <2>1 DEF a
  <1> QED BY <1>1, <1>3, <1>4

LEMMA UnderChild ==
  ASSUME NEW p \in Paths, NEW side \in Sides, NEW q \in Paths, NEW s, Under(Append(p, side), q, s)
  PROVE  Under(p, q, s) \/ (q = p /\ s = side)
  <1> DEFINE a == Append(p, side)
  <1>1. a \in Paths /\ Len(a) = Len(p) + 1 /\ Len(p) \in Nat /\ Len(q) \in Nat /\ Len(q) < Len(a)
        /\ a[Len(p) + 1] = side /\ \A k \in 1..Len(p) : a[k] = p[k]
    BY ChildIs DEF Under, Paths
  <1>2. (\A k \in 1..Len(q) : a[k] = q[k]) /\ a[Len(q) + 1] = s
    BY DEF Under, Extends
  <1> HIDE DEF a
  <1>3. CASE Len(q) < Len(p)
    BY <1>1, <1>2, <1>3 DEF Under, Extends
  <1>4. CASE Len(q) = Len(p)
    <2>1. \A k \in 1..Len(p) : q[k] = p[k]
      BY <1>1, <1>2, <1>4
    <2>2. q = p
      BY <1>4, <2>1 DEF Paths
    <2> QED BY <1>1, <1>2, <2>2
  <1> QED BY <1>1, <1>3, <1>4

\* The condition of the property, in the words of the proof.
LEMMA UnderIs ==
  ASSUME NEW p \in Paths, NEW side \in Sides, NEW q \in Paths,
         Len(q) > Len(p), SubSeq(q, 1, Len(p) + 1) = Append(p, side)
  PROVE  Under(q, p, side)
  <1>1. Len(p) \in Nat /\ Len(q) \in Nat
    BY DEF Paths
  <1>2. \A k \in 1..(Len(p) + 1) : SubSeq(q, 1, Len(p) + 1)[k] = q[k]
    BY <1>1 DEF Paths
  <1>3. \A k \in 1..(Len(p) + 1) : q[k] = Append(p, side)[k]
    BY <1>2
  <1>4. (\A k \in 1..Len(p) : q[k] = p[k]) /\ q[Len(p) + 1] = side
    <2>1. 1..Len(p) \subseteq 1..(Len(p) + 1) /\ Len(p) + 1 \in 1..(Len(p) + 1)
      BY <1>1
    <2>2. \A k \in 1..Len(p) : q[k] = p[k]
      BY <1>3, <2>1, ChildIs
    <2>3. q[Len(p) + 1] = side
      BY <1>3, <2>1, ChildIs
    <2> QED BY <2>2, <2>3
  <1> QED BY <1>1, <1>4 DEF Under, Extends
-----------------------------------------------------------------------------
(* Building *)

\* Tree T with a new node at path for slot i of R.
Plant(T, path, i, R) ==
  [q \in DOMAIN T \cup {path} |-> IF q = path THEN [record |-> i, coord |-> Coord(R[i])] ELSE T[q]]

\* sort_rec of from..to, and what it leaves alone.
Sorts(N, R, S, from, to, a) ==
  /\ \A i \in 0..N : i \notin from..to => S[i] = R[i]
  /\ \A i \in from..to : \E j \in from..to : S[i] = R[j]
  /\ \A i, j \in from..to : i < j => Coord(S[i])[a] <= Coord(S[j])[a]

LEMMA CoordIs ==
  ASSUME NEW N, NEW R \in Arrays(N), NEW i \in 0..N, NEW p \in Paths
  PROVE  Coord(R[i])[1] \in Int /\ Coord(R[i])[2] \in Int /\ Axis(p) + 1 \in {1, 2} /\ CoordAt(R, i, p) \in Int
  <1>1. R[i].lon \in Int /\ R[i].lat \in Int
    BY DEF Arrays, Record
  <1>2. Len(p) \in Nat
    BY DEF Paths
  <1>3. Axis(p) + 1 \in {1, 2}
    BY <1>2 DEF Axis
  <1> QED BY <1>1, <1>3 DEF Coord, CoordAt

\* What a call that is planted at mid leaves to be done: the parts on its sides
\* that are not empty.
Left(c, mid)  == Call(Append(c.path, "left"), c.offset, mid - 1)
Right(c, mid) == Call(Append(c.path, "right"), mid + 1, c.last)

\* One call of rec, as a step from T, C and R to U, D and S.
Splits(N, T, C, R, U, D, S, c, mid) ==
  /\ c \in C /\ mid \in Span(c)
  /\ Sorts(N, R, S, c.offset, c.last - 1, Axis(c.path) + 1)
  /\ mid < c.last \/ Span(c) = {mid}
  /\ U = Plant(T, c.path, mid, S)
  /\ D \subseteq (C \ {c}) \cup {Left(c, mid), Right(c, mid)}
  /\ C \ {c} \subseteq D
  /\ Left(c, mid) \in D \/ Span(Left(c, mid)) = {}
  /\ Right(c, mid) \in D \/ Span(Right(c, mid)) = {}

LEMMA PartsAre ==
  ASSUME NEW N \in Nat, NEW T, NEW C, CallsOK(N, T, C), NEW c \in C, NEW mid \in Span(c)
  PROVE  /\ c.path \in Paths /\ c.offset \in Nat /\ c.last \in Int /\ c.last <= N /\ mid \in Nat
         /\ Left(c, mid) \in Calls /\ Right(c, mid) \in Calls
         /\ Left(c, mid).path = Append(c.path, "left") /\ Right(c, mid).path = Append(c.path, "right")
         /\ Span(Left(c, mid)) = c.offset..(mid - 1) /\ Span(Right(c, mid)) = (mid + 1)..c.last
         /\ Left(c, mid).last <= N /\ Right(c, mid).last <= N
  <1>1. c \in Calls /\ c.last <= N
    BY DEF CallsOK
  <1>2. c.path \in Paths /\ c.offset \in Nat /\ c.last \in Int /\ mid \in Nat /\ mid <= c.last
    BY <1>1 DEF Calls, Span
  <1>3. Append(c.path, "left") \in Paths /\ Append(c.path, "right") \in Paths
    BY <1>2, ChildIs DEF Sides
  <1>4. Left(c, mid) \in Calls /\ Right(c, mid) \in Calls
    BY <1>2, <1>3 DEF Left, Right, Call, Calls
  <1> QED BY <1>1, <1>2, <1>4 DEF Left, Right, Call, Span

\* The new calls are apart from the others and from the nodes.
LEMMA SplitCalls ==
  ASSUME NEW N \in Nat, NEW T, NEW C, NEW R, NEW U, NEW D, NEW S, NEW c, NEW mid,
         NodesOK(N, T, R), CallsOK(N, T, C), Splits(N, T, C, R, U, D, S, c, mid)
  PROVE  CallsOK(N, U, D)
  <1> DEFINE L == Left(c, mid)
             M == Right(c, mid)
  <1>0. c \in C /\ mid \in Span(c) /\ D \subseteq (C \ {c}) \cup {L, M}
    BY DEF Splits
  <1>1. /\ c.path \in Paths /\ c.offset \in Nat /\ c.last \in Int /\ c.last <= N /\ mid \in Nat
        /\ L \in Calls /\ M \in Calls
        /\ L.path = Append(c.path, "left") /\ M.path = Append(c.path, "right")
        /\ Span(L) = c.offset..(mid - 1) /\ Span(M) = (mid + 1)..c.last
        /\ L.last <= N /\ M.last <= N
    BY <1>0, PartsAre
  <1> HIDE DEF L, M
  <1>2. Span(c) = c.offset..c.last /\ c.offset <= mid /\ mid <= c.last
    BY <1>0, <1>1 DEF Span
  <1>3. /\ Span(L) \subseteq Span(c) /\ Span(M) \subseteq Span(c) /\ mid \notin Span(L) /\ mid \notin Span(M)
        /\ \A i \in Span(L) : i \notin Span(M)
    BY <1>1, <1>2
  <1>4. \A d \in C : d \in Calls /\ d.path \in Paths /\ d.last <= N
    BY DEF CallsOK, Calls
  <1>5. DOMAIN T \subseteq Paths /\ DOMAIN U = DOMAIN T \cup {c.path} /\ U[c.path].record = mid
        /\ \A q \in DOMAIN T : q # c.path => U[q] = T[q]
    BY DEF NodesOK, Splits, Plant
  <1>6. \A q \in DOMAIN T : ~Extends(q, c.path) /\ T[q].record \notin Span(c)
    BY <1>0 DEF CallsOK
  <1>7. \A q \in DOMAIN T : q # c.path
    BY <1>1, <1>6, ExtendsItself
  <1>8. \A d \in C \ {c} : ~Extends(d.path, c.path) /\ ~Extends(c.path, d.path)
    BY <1>0 DEF CallsOK
  <1>9. \A d \in C \ {c} : \A i \in Span(c) : i \notin Span(d)
    BY <1>0 DEF CallsOK
  \* what is apart from c is apart from its children
  <1>10. ASSUME NEW e \in {L, M} 
         PROVE  /\ e.path \in Paths /\ Extends(e.path, c.path) /\ ~Extends(c.path, e.path) /\ Span(e) \subseteq Span(c)
                /\ \A d \in C \ {c} : ~Extends(e.path, d.path) /\ ~Extends(d.path, e.path)
    <2>1. PICK side \in Sides : e.path = Append(c.path, side)
      BY <1>1 DEF Sides
    <2>2. e.path \in Paths /\ Extends(e.path, c.path) /\ ~Extends(c.path, e.path)
      BY <1>1, <2>1, ChildIs DEF Extends
    <2>3. ASSUME NEW d \in C \ {c} PROVE ~Extends(d.path, e.path)
      BY <1>1, <1>4, <1>8, <2>2, <2>3, ExtendsTransitively
    <2>4. ASSUME NEW d \in C \ {c}, Extends(e.path, d.path) PROVE FALSE
      <3>1. d.path = e.path
        BY <1>1, <1>4, <1>8, <2>1, <2>4, ChildExtends
      <3> QED BY <2>2, <2>3, <2>4, <3>1
    <2> QED BY <1>3, <2>2, <2>3, <2>4
  <1>11. ~Extends(L.path, M.path) /\ ~Extends(M.path, L.path)
    <2>1. /\ Len(L.path) = Len(c.path) + 1 /\ Len(M.path) = Len(c.path) + 1 /\ Len(c.path) \in Nat
          /\ L.path[Len(c.path) + 1] = "left" /\ M.path[Len(c.path) + 1] = "right"
      BY <1>1, ChildIs DEF Sides
    <2> QED BY <2>1 DEF Extends
  <1>12. D \subseteq Calls /\ \A d \in D : d.last <= N
    BY <1>0, <1>1, <1>4
  <1>13. ASSUME NEW d \in D, NEW e \in D, d # e
         PROVE  ~Extends(d.path, e.path) /\ \A i \in Span(d) : i \notin Span(e)
    <2>1. CASE d \in C \ {c} /\ e \in C \ {c}
      BY <1>13, <2>1 DEF CallsOK
    <2>2. CASE d \in {L, M} /\ e \in C \ {c}
      BY <1>9, <1>10, <2>2
    <2>3. CASE d \in C \ {c} /\ e \in {L, M}
      BY <1>9, <1>10, <2>3
    <2>4. CASE d \in {L, M} /\ e \in {L, M}
      BY <1>3, <1>11, <1>13, <2>4
    <2> QED BY <1>0, <2>1, <2>2, <2>3, <2>4
  <1>14. ASSUME NEW d \in D, NEW q \in DOMAIN U
         PROVE  ~Extends(q, d.path) /\ U[q].record \notin Span(d)
    <2>1. CASE d \in C \ {c} /\ q \in DOMAIN T
      BY <1>5, <1>7, <2>1 DEF CallsOK
    <2>2. CASE d \in C \ {c} /\ q = c.path
      BY <1>0, <1>5, <1>8, <1>9, <2>2
    <2>3. CASE d \in {L, M} /\ q \in DOMAIN T
      <3>1. ~Extends(q, d.path)
        BY <1>1, <1>5, <1>6, <1>10, <2>3, ExtendsTransitively
      <3> QED BY <1>5, <1>6, <1>7, <1>10, <2>3, <3>1
    <2>4. CASE d \in {L, M} /\ q = c.path
      BY <1>3, <1>5, <1>10, <2>4
    <2> QED BY <1>0, <1>5, <2>1, <2>2, <2>3, <2>4
  <1> QED BY <1>12, <1>13, <1>14 DEF CallsOK
LEMMA SplitNodes ==
  ASSUME NEW N \in Nat, NEW T, NEW C, NEW R, NEW U, NEW D, NEW S, NEW c, NEW mid,
         NodesOK(N, T, R), CallsOK(N, T, C), Splits(N, T, C, R, U, D, S, c, mid)
  PROVE  NodesOK(N, U, S)
  <1>1. c \in C /\ mid \in Span(c) /\ c.path \in Paths /\ c.offset \in Nat /\ c.last \in Int /\ c.last <= N
    BY DEF Splits, CallsOK, Calls
  <1>2. mid \in 0..N
    BY <1>1 DEF Span
  <1>3. /\ DOMAIN U = DOMAIN T \cup {c.path} /\ U[c.path] = [record |-> mid, coord |-> Coord(S[mid])]
        /\ \A q \in DOMAIN T : q # c.path => U[q] = T[q]
    BY DEF Splits, Plant
  <1>4. \A q \in DOMAIN T : q # c.path /\ T[q].record \notin Span(c) /\ T[q].record \in 0..N
    BY <1>1, ExtendsItself DEF CallsOK, NodesOK
  <1>5. \A i \in 0..N : i \notin Span(c) => S[i] = R[i]
    BY <1>1 DEF Splits, Sorts, Span
  <1>6. ASSUME NEW q \in DOMAIN T PROVE U[q].record \in 0..N /\ U[q].coord = Coord(S[U[q].record])
    BY <1>3, <1>4, <1>5 DEF NodesOK
  <1>7. U[c.path].record = mid /\ U[c.path].coord = Coord(S[mid])
    BY <1>3
  <1>8. DOMAIN U \subseteq Paths
    BY <1>1, <1>3 DEF NodesOK
  <1>9. ASSUME NEW q \in DOMAIN U, NEW r \in DOMAIN U, U[q].record = U[r].record PROVE q = r
    <2>1. CASE q \in DOMAIN T /\ r \in DOMAIN T
      BY <1>3, <1>4, <1>9, <2>1 DEF NodesOK
    <2>2. CASE q = c.path \/ r = c.path
      BY <1>1, <1>3, <1>4, <1>7, <1>9, <2>2
    <2> QED BY <1>3, <2>1, <2>2
  <1> QED BY <1>2, <1>3, <1>6, <1>7, <1>8, <1>9 DEF NodesOK

LEMMA SplitCovers ==
  ASSUME NEW N \in Nat, NEW T, NEW C, NEW R, NEW U, NEW D, NEW S, NEW c, NEW mid,
         CallsOK(N, T, C), CoversOK(N, T, C), Splits(N, T, C, R, U, D, S, c, mid)
  PROVE  CoversOK(N, U, D)
  <1>1. c \in C /\ mid \in Span(c) /\ c.offset \in Nat /\ c.last \in Int /\ c.path \in Paths
    BY DEF Splits, CallsOK, Calls
  <1>2. mid \in Nat /\ Span(c) = c.offset..c.last
    BY <1>1 DEF Span
  <1>3. Span(Left(c, mid)) = c.offset..(mid - 1) /\ Span(Right(c, mid)) = (mid + 1)..c.last
    BY <1>1, PartsAre
  <1>4. /\ DOMAIN U = DOMAIN T \cup {c.path} /\ U[c.path].record = mid
        /\ \A q \in DOMAIN T : q # c.path => U[q] = T[q]
    BY DEF Splits, Plant
  <1>5. \A q \in DOMAIN T : q # c.path
    BY <1>1, ExtendsItself DEF CallsOK
  <1>6. ASSUME NEW i \in 0..N
        PROVE  (\E q \in DOMAIN U : U[q].record = i) \/ (\E d \in D : i \in Span(d))
    <2>1. CASE \E q \in DOMAIN T : T[q].record = i
      BY <1>4, <1>5, <2>1
    <2>2. CASE \E d \in C \ {c} : i \in Span(d)
      BY <2>2 DEF Splits
    <2>3. CASE i \in Span(c)
      <3>1. i = mid \/ i \in Span(Left(c, mid)) \/ i \in Span(Right(c, mid))
        BY <1>1, <1>2, <1>3, <2>3
      <3>2. CASE i = mid
        BY <1>4, <3>2
      <3>3. CASE i \in Span(Left(c, mid)) 
        BY <3>3 DEF Splits
      <3>4. CASE i \in Span(Right(c, mid)) 
        BY <3>4 DEF Splits
      <3> QED BY <3>1, <3>2, <3>3, <3>4
    <2> QED BY <2>1, <2>2, <2>3 DEF CoversOK
  <1> QED BY <1>6 DEF CoversOK

\* A node that is there has the same slots on its sides as before.
LEMMA SplitHolds ==
  ASSUME NEW N \in Nat, NEW T, NEW C, NEW R, NEW U, NEW D, NEW S, NEW c, NEW mid,
         NodesOK(N, T, R), CallsOK(N, T, C), Splits(N, T, C, R, U, D, S, c, mid),
         NEW p \in DOMAIN T, NEW i, NEW side, Holds(U, D, i, p, side)
  PROVE  Holds(T, C, i, p, side)
  <1>1. c \in C /\ mid \in Span(c) /\ c.path \in Paths /\ p \in Paths /\ ~Extends(p, c.path)
    BY DEF Splits, CallsOK, Calls, NodesOK
  <1>2. /\ DOMAIN U = DOMAIN T \cup {c.path} /\ U[c.path].record = mid
        /\ \A q \in DOMAIN T : q # c.path => U[q] = T[q]
    BY DEF Splits, Plant
  <1>3. c.path # p
    BY <1>1, ExtendsItself
  <1>4. CASE \E q \in DOMAIN U : Under(q, p, side) /\ U[q].record = i
    <2>1. PICK q \in DOMAIN U : Under(q, p, side) /\ U[q].record = i
      BY <1>4
    <2>2. CASE q = c.path
      BY <1>1, <1>2, <2>1, <2>2 DEF Holds
    <2>3. CASE q # c.path
      BY <1>2, <2>1, <2>3 DEF Holds
    <2> QED BY <2>2, <2>3
  <1>5. CASE \E d \in D : Under(d.path, p, side) /\ i \in Span(d)
    <2>1. PICK d \in D : Under(d.path, p, side) /\ i \in Span(d)
      BY <1>5
    <2>2. CASE d \in C
      BY <2>1, <2>2 DEF Holds
    <2>3. CASE d = Left(c, mid) \/ d = Right(c, mid)
      <3>1. \E s \in Sides : d.path = Append(c.path, s)
        BY <1>1, <2>3, PartsAre DEF Sides
      <3>2. Under(c.path, p, side)
        BY <1>1, <1>3, <2>1, <3>1, UnderChild
      <3>3. i \in Span(c)
        <4>1. /\ c.offset \in Nat /\ c.last \in Int /\ mid \in Nat /\ Span(c) = c.offset..c.last
              /\ Span(Left(c, mid)) = c.offset..(mid - 1) /\ Span(Right(c, mid)) = (mid + 1)..c.last
          BY <1>1, PartsAre DEF Span
        <4> QED BY <1>1, <2>1, <2>3, <4>1
      <3> QED BY <1>1, <3>2, <3>3 DEF Holds
    <2> QED BY <2>1, <2>2, <2>3 DEF Splits
  <1> QED BY <1>4, <1>5 DEF Holds

\* What a new node has on its sides are the parts of its call.
LEMMA SplitHoldsNew ==
  ASSUME NEW N \in Nat, NEW T, NEW C, NEW R, NEW U, NEW D, NEW S, NEW c, NEW mid,
         NodesOK(N, T, R), CallsOK(N, T, C), Splits(N, T, C, R, U, D, S, c, mid),
         NEW i, NEW side \in Sides, Holds(U, D, i, c.path, side)
  PROVE  /\ side = "left" => i \in c.offset..(mid - 1)
         /\ side = "right" => i \in (mid + 1)..c.last
  <1>1. c \in C /\ mid \in Span(c) /\ c.path \in Paths
    BY DEF Splits, CallsOK, Calls
  <1>2. DOMAIN U = DOMAIN T \cup {c.path}
    BY DEF Splits, Plant
  <1>3. \A q \in DOMAIN U : ~Under(q, c.path, side)
    BY <1>1, <1>2, ExtendsItself DEF CallsOK, Under
  <1>4. PICK d \in D : Under(d.path, c.path, side) /\ i \in Span(d)
    BY <1>3 DEF Holds
  <1>5. d = Left(c, mid) \/ d = Right(c, mid)
    <2>1. d \notin C \ {c}
      BY <1>1, <1>4 DEF CallsOK, Under
    <2> QED BY <2>1 DEF Splits
  <1>6. /\ Left(c, mid).path = Append(c.path, "left") /\ Right(c, mid).path = Append(c.path, "right")
        /\ Span(Left(c, mid)) = c.offset..(mid - 1) /\ Span(Right(c, mid)) = (mid + 1)..c.last
    BY <1>1, PartsAre
  <1>7. /\ d = Left(c, mid) => side = "left"
        /\ d = Right(c, mid) => side = "right"
    BY <1>1, <1>4, <1>6, ChildIs DEF Under, Sides
  <1> QED BY <1>4, <1>5, <1>6, <1>7

LEMMA SplitOrder ==
  ASSUME NEW N \in Nat, NEW T, NEW C, NEW R \in Arrays(N), NEW U, NEW D, NEW S \in Arrays(N), NEW c, NEW mid,
         Grows(N, T, C, R), Splits(N, T, C, R, U, D, S, c, mid)
  PROVE  OrderOK(U, D, S)
  <1>1. c \in C /\ mid \in Span(c) /\ c.path \in Paths /\ c.offset \in Nat /\ c.last \in Int /\ c.last <= N
        /\ Span(c) = c.offset..c.last /\ NodesOK(N, T, R) /\ CallsOK(N, T, C)
    BY DEF Splits, Grows, CallsOK, Calls, Span
  <1>2. /\ DOMAIN U = DOMAIN T \cup {c.path} /\ U[c.path].coord = Coord(S[mid])
        /\ \A q \in DOMAIN T : q # c.path => U[q] = T[q]
    BY DEF Splits, Plant
  <1>3. \A q \in DOMAIN T : q # c.path /\ q \in Paths /\ T[q].record \notin Span(c)
    BY <1>1, ExtendsItself DEF CallsOK, NodesOK
  <1> DEFINE From == c.offset
             To   == c.last - 1
  <1>4. Sorts(N, R, S, From, To, Axis(c.path) + 1)
    BY DEF Splits
  \* a slot in the part that is sorted is held through c
  <1>5. ASSUME NEW p \in DOMAIN T, NEW i \in Span(c), NEW side, Holds(T, C, i, p, side)
        PROVE  Under(c.path, p, side) /\ \A j \in Span(c) : Holds(T, C, j, p, side)
    <2>1. ~\E q \in DOMAIN T : Under(q, p, side) /\ T[q].record = i
      BY <1>3, <1>5
    <2>2. PICK d \in C : Under(d.path, p, side) /\ i \in Span(d)
      BY <1>5, <2>1 DEF Holds
    <2>3. d = c
      BY <1>1, <1>5, <2>2 DEF CallsOK
    <2> QED BY <1>1, <2>2, <2>3 DEF Holds
  <1>6. ASSUME NEW p \in DOMAIN T
        PROVE  /\ \A i : Holds(U, D, i, p, "left") => CoordAt(S, i, p) <= U[p].coord[Axis(p) + 1]
               /\ \A i : Holds(U, D, i, p, "right") => \/ CoordAt(S, i, p) >= U[p].coord[Axis(p) + 1]
                                                       \/ \A j : Holds(U, D, j, p, "right") => j <= i
    <2>1. U[p] = T[p]
      BY <1>2, <1>3
    <2>2. \A i, side : Holds(U, D, i, p, side) => Holds(T, C, i, p, side)
      BY <1>1, SplitHolds
    <2>3. /\ \A i : Holds(T, C, i, p, "left") => CoordAt(R, i, p) <= T[p].coord[Axis(p) + 1]
          /\ \A i : Holds(T, C, i, p, "right") => \/ CoordAt(R, i, p) >= T[p].coord[Axis(p) + 1]
                                                  \/ \A j : Holds(T, C, j, p, "right") => j <= i
      BY DEF Grows, OrderOK
    <2>4. ASSUME NEW i, NEW side, Holds(T, C, i, p, side)
          PROVE  i \in 0..N
      BY <1>1, <2>4 DEF Holds, NodesOK, CallsOK, Calls, Span
    \* what is now in slot i was in a slot j of the same side, and is not its last
    <2>5. ASSUME NEW i, NEW side, Holds(T, C, i, p, side)
          PROVE  \/ S[i] = R[i]
                 \/ \E j \in From..To : S[i] = R[j] /\ Holds(T, C, j, p, side) /\ Holds(T, C, c.last, p, side)
      <3>1. CASE i \notin From..To
        BY <1>4, <2>4, <2>5, <3>1 DEF Sorts
      <3>2. CASE i \in From..To
        <4>1. PICK j \in From..To : S[i] = R[j]
          BY <1>4, <3>2 DEF Sorts
        <4>2. i \in Span(c) /\ j \in Span(c) /\ c.last \in Span(c)
          BY <1>1, <3>2
        <4> QED BY <1>5, <2>5, <4>1, <4>2
      <3> QED BY <3>1, <3>2
    <2>6. ASSUME NEW i, Holds(U, D, i, p, "left") PROVE CoordAt(S, i, p) <= U[p].coord[Axis(p) + 1]
      BY <2>1, <2>2, <2>3, <2>5, <2>6 DEF CoordAt
    <2>7. ASSUME NEW i, Holds(U, D, i, p, "right")
          PROVE  \/ CoordAt(S, i, p) >= U[p].coord[Axis(p) + 1]
                 \/ \A j : Holds(U, D, j, p, "right") => j <= i
      <3>1. CASE S[i] = R[i]
        BY <2>1, <2>2, <2>3, <2>7, <3>1 DEF CoordAt
      <3>2. CASE \E j \in From..To : S[i] = R[j] /\ Holds(T, C, j, p, "right") /\ Holds(T, C, c.last, p, "right")
        <4>1. PICK j \in From..To : S[i] = R[j] /\ Holds(T, C, j, p, "right") /\ Holds(T, C, c.last, p, "right")
          BY <3>2
        <4>2. ~(c.last <= j)
          BY <1>1, <4>1
        <4>3. CoordAt(R, j, p) >= T[p].coord[Axis(p) + 1]
          BY <2>3, <4>1, <4>2
        <4> QED BY <2>1, <4>1, <4>3 DEF CoordAt
      <3> QED BY <2>2, <2>5, <2>7, <3>1, <3>2
    <2> QED BY <2>6, <2>7
  <1>7. /\ \A i : Holds(U, D, i, c.path, "left") => CoordAt(S, i, c.path) <= U[c.path].coord[Axis(c.path) + 1]
        /\ \A i : Holds(U, D, i, c.path, "right") => \/ CoordAt(S, i, c.path) >= U[c.path].coord[Axis(c.path) + 1]
                                                     \/ \A j : Holds(U, D, j, c.path, "right") => j <= i
    <2>1. U[c.path].coord[Axis(c.path) + 1] = CoordAt(S, mid, c.path)
      BY <1>2 DEF CoordAt
    <2>2. \A i \in Span(c) : CoordAt(S, i, c.path) \in Int
      <3> TAKE i \in Span(c)
      <3>1. i \in 0..N
        BY <1>1
      <3> QED BY <1>1, <3>1, CoordIs
    <2>3. \A i, j \in From..To : i < j => CoordAt(S, i, c.path) <= CoordAt(S, j, c.path)
      BY <1>4 DEF Sorts, CoordAt
    <2>4. mid \in Nat /\ (mid < c.last \/ Span(c) = {mid})
      BY <1>1 DEF Splits
    <2>5. ASSUME NEW i, Holds(U, D, i, c.path, "left")
          PROVE  CoordAt(S, i, c.path) <= CoordAt(S, mid, c.path)
      <3>1. i \in c.offset..(mid - 1)
        BY <1>1, <2>5, SplitHoldsNew DEF Sides
      <3>2. i \in From..To /\ mid \in From..To /\ i < mid
        BY <1>1, <2>4, <3>1
      <3> QED BY <2>3, <3>2
    <2>6. ASSUME NEW i, Holds(U, D, i, c.path, "right"), i # c.last
          PROVE  CoordAt(S, i, c.path) >= CoordAt(S, mid, c.path)
      <3>1. i \in (mid + 1)..c.last
        BY <1>1, <2>6, SplitHoldsNew DEF Sides
      <3>2. i \in From..To /\ mid \in From..To /\ mid < i /\ i \in Span(c)
        BY <1>1, <2>4, <2>6, <3>1
      <3>3. CoordAt(S, mid, c.path) <= CoordAt(S, i, c.path)
        BY <2>3, <3>2
      <3> QED BY <1>1, <2>2, <3>2, <3>3
    <2>7. \A j : Holds(U, D, j, c.path, "right") => j <= c.last
      <3>1. ASSUME NEW j, Holds(U, D, j, c.path, "right") PROVE j <= c.last
        <4>1. j \in (mid + 1)..c.last
          BY <1>1, <3>1, SplitHoldsNew DEF Sides
        <4> QED BY <4>1
      <3> QED BY <3>1
    <2> QED BY <2>1, <2>5, <2>6, <2>7
  <1> QED BY <1>2, <1>6, <1>7 DEF OrderOK

LEMMA SplitGrows ==
  ASSUME NEW N \in Nat, NEW T, NEW C, NEW R \in Arrays(N), NEW U, NEW D, NEW S \in Arrays(N), NEW c, NEW mid,
         Grows(N, T, C, R), Splits(N, T, C, R, U, D, S, c, mid)
  PROVE  Grows(N, U, D, S)
  BY SplitNodes, SplitCalls, SplitCovers, SplitOrder DEF Grows

\* An empty call may be left out.
LEMMA DropGrows ==
  ASSUME NEW N \in Nat, NEW T, NEW C, NEW R, Grows(N, T, C, R), NEW c \in C, Span(c) = {}
  PROVE  Grows(N, T, C \ {c}, R)
  <1> DEFINE D == C \ {c}
  <1>1. CallsOK(N, T, D)
    BY DEF Grows, CallsOK
  <1>2. CoversOK(N, T, D)
    BY DEF Grows, CoversOK
  <1>3. \A i, p, side : Holds(T, D, i, p, side) <=> Holds(T, C, i, p, side)
    BY DEF Holds
  <1>4. OrderOK(T, D, R)
    BY <1>3 DEF Grows, OrderOK
  <1> QED BY <1>1, <1>2, <1>4 DEF Grows
-----------------------------------------------------------------------------
(* The calls that are pending, as a set *)

Pending(w)  == {w[k] : k \in DOMAIN w}
Distinct(w) == \A i, j \in DOMAIN w : w[i] = w[j] => i = j

LEMMA RestIs ==
  ASSUME NEW w \in Seq(Calls), w # << >>, Distinct(w)
  PROVE  /\ Head(w) \in Pending(w) /\ Head(w) \in Calls
         /\ Tail(w) \in Seq(Calls) /\ Distinct(Tail(w)) /\ Pending(Tail(w)) = Pending(w) \ {Head(w)}
  <1>1. /\ Len(w) \in Nat \ {0} /\ DOMAIN w = 1..Len(w) /\ Head(w) = w[1] /\ w[1] \in Calls
        /\ Tail(w) \in Seq(Calls) /\ Len(Tail(w)) = Len(w) - 1 /\ DOMAIN Tail(w) = 1..(Len(w) - 1)
        /\ \A k \in 1..(Len(w) - 1) : Tail(w)[k] = w[k + 1]
    OBVIOUS
  <1>2. Distinct(Tail(w))
    BY <1>1 DEF Distinct
  <1>3. ASSUME NEW d \in Pending(w), d # Head(w) PROVE d \in Pending(Tail(w))
    <2>1. PICK k \in 1..Len(w) : d = w[k]
      BY <1>1 DEF Pending
    <2>2. k - 1 \in 1..(Len(w) - 1) /\ (k - 1) + 1 = k
      BY <1>1, <1>3, <2>1
    <2>3. Tail(w)[k - 1] = d
      BY <1>1, <2>1, <2>2
    <2> QED BY <1>1, <2>2, <2>3 DEF Pending
  <1>4. ASSUME NEW d \in Pending(Tail(w)) PROVE d \in Pending(w) /\ d # Head(w)
    <2>1. PICK k \in 1..(Len(w) - 1) : d = w[k + 1]
      BY <1>1, <1>4 DEF Pending
    <2>2. k + 1 \in DOMAIN w /\ 1 \in DOMAIN w /\ k + 1 # 1
      BY <1>1, <2>1
    <2> QED BY <1>1, <2>1, <2>2 DEF Pending, Distinct
  <1>5. Head(w) \in Pending(w)
    BY <1>1 DEF Pending
  <1>6. Pending(Tail(w)) = Pending(w) \ {Head(w)}
    BY <1>3, <1>4
  <1> QED BY <1>1, <1>2, <1>5, <1>6

LEMMA PushedIs ==
  ASSUME NEW w \in Seq(Calls), Distinct(w), NEW a \in Calls, NEW b \in Calls,
         a # b, a \notin Pending(w), b \notin Pending(w)
  PROVE  /\ <<a, b>> \o w \in Seq(Calls) /\ <<a, b>> \o w # << >>
         /\ Distinct(<<a, b>> \o w) /\ Pending(<<a, b>> \o w) = Pending(w) \cup {a, b}
  <1> DEFINE v == <<a, b>> \o w
  <1>1. /\ Len(w) \in Nat /\ DOMAIN w = 1..Len(w)
        /\ v \in Seq(Calls) /\ v # << >> /\ DOMAIN v = 1..(Len(w) + 2) /\ v[1] = a /\ v[2] = b
        /\ \A k \in 3..(Len(w) + 2) : v[k] = w[k - 2]
    OBVIOUS
  <1> HIDE DEF v
  <1>2. \A k \in 3..(Len(w) + 2) : v[k] \in Pending(w)
    BY <1>1 DEF Pending
  <1>3. Distinct(v)
    <2> SUFFICES ASSUME NEW i \in 1..(Len(w) + 2), NEW j \in 1..(Len(w) + 2), v[i] = v[j] PROVE i = j
      BY <1>1 DEF Distinct
    <2>1. CASE i \in 3..(Len(w) + 2) /\ j \in 3..(Len(w) + 2)
      <3>1. w[i - 2] = w[j - 2] /\ i - 2 \in DOMAIN w /\ j - 2 \in DOMAIN w
        BY <1>1, <2>1
      <3>2. i - 2 = j - 2
        BY <3>1 DEF Distinct
      <3> QED BY <3>2
    <2>2. CASE i \in {1, 2} \/ j \in {1, 2}
      BY <1>1, <1>2, <2>2
    <2> QED BY <1>1, <2>1, <2>2
  <1>4. Pending(v) = Pending(w) \cup {a, b}
    <2>1. Pending(v) \subseteq Pending(w) \cup {a, b}
      <3> SUFFICES ASSUME NEW k \in 1..(Len(w) + 2) PROVE v[k] \in Pending(w) \cup {a, b}
        BY <1>1 DEF Pending
      <3> QED BY <1>1, <1>2
    <2>2. {a, b} \subseteq Pending(v)
      BY <1>1 DEF Pending
    <2>3. ASSUME NEW k \in 1..Len(w) PROVE w[k] \in Pending(v)
      <3>1. k + 2 \in 1..(Len(w) + 2) /\ v[k + 2] = w[k]
        BY <1>1
      <3> QED BY <1>1, <3>1 DEF Pending
    <2>4. Pending(w) \subseteq Pending(v)
      BY <1>1, <2>3 DEF Pending
    <2> QED BY <2>1, <2>2, <2>4
  <1> QED BY <1>1, <1>3, <1>4 DEF v

-----------------------------------------------------------------------------
(* The invariant of the tree *)

KdInv ==
  program = "coord_kdtree" =>
    /\ at = "read" => \A i \in Slots : rs[i] \in Record
    /\ at \in {"open", "read", "build"} => tree = << >>
    /\ at = "open" => n = 0
    /\ at \in {"build", "rec", "query", "search", "end"} => rs \in Arrays(n)
    /\ at \in {"rec", "query", "search", "end"} =>
         work \in Seq(Calls) /\ Distinct(work) /\ Grows(n, tree, Pending(work), rs)
    /\ at = "rec" <=> work # << >>

LEMMA SortRecIs ==
  ASSUME n \in Nat, rs \in Arrays(n), NEW from \in Nat, NEW to \in Int, to <= n, NEW p \in Paths,
         NEW S \in SortRec(from, to, Axis(p))
  PROVE  S \in Arrays(n) /\ Sorts(n, rs, S, from, to, Axis(p) + 1)
  <1> DEFINE a   == Axis(p) + 1
             key == [i \in from..to |-> Coord(rs[i])[a]]
  <1>1. PICK q \in Orders(from, to) :
          /\ \A i, j \in from..to : i < j => key[q[i]] <= key[q[j]]
          /\ S = [i \in DOMAIN rs |-> IF i \in from..to THEN rs[q[i]] ELSE rs[i]]
    BY DEF SortRec, Sorted
  <1>2. DOMAIN rs = 0..n /\ from..to \subseteq 0..n /\ \A i \in from..to : q[i] \in from..to
    BY <1>1 DEF Arrays, Orders
  <1>3. /\ \A i \in 0..n : i \notin from..to => S[i] = rs[i]
        /\ \A i \in from..to : S[i] = rs[q[i]]
    BY <1>1, <1>2
  <1>4. \A i \in from..to : key[q[i]] = Coord(S[i])[a]
    BY <1>2, <1>3
  <1>5. S \in Arrays(n)
    BY <1>1, <1>2 DEF Arrays
  <1> HIDE DEF key
  <1>6. \A i, j \in from..to : i < j => Coord(S[i])[a] <= Coord(S[j])[a]
    BY <1>1, <1>4
  <1>7. \A i \in from..to : \E j \in from..to : S[i] = rs[j]
    BY <1>2, <1>3
  <1> HIDE DEF a
  <1>8. Sorts(n, rs, S, from, to, a)
    BY <1>3, <1>6, <1>7 DEF Sorts
  <1> QED BY <1>5, <1>8 DEF a

\* The halves of a call, as rec computes them.
LEMMA HalvesAre ==
  ASSUME NEW c \in Calls, c.last > c.offset
  PROVE  LET mid == c.offset + (c.last - c.offset) \div 2 IN
           mid \in Span(c) /\ mid < c.last /\ LeftEnd(c, mid) = mid - 1
  BY DEF Calls, Span, LeftEnd

\* The tree of the whole array: one node to come for all slots.
LEMMA NothingGrown ==
  ASSUME NEW N \in Nat, NEW R
  PROVE  Grows(N, << >>, {Call(<< >>, 0, N)}, R)
  <1> DEFINE c == Call(<< >>, 0, N)
  <1>1. c \in Calls /\ c.last = N /\ Span(c) = 0..N
    BY DEF Call, Calls, Paths, Span
  <1>2. DOMAIN << >> = {}
    OBVIOUS
  <1> QED BY <1>1, <1>2 DEF Grows, NodesOK, CallsOK, CoversOK, OrderOK

LEMMA RootGrows ==
  ASSUME IInv, KdInv, MkKdtree
  PROVE  KdInv'
  <1> DEFINE m == n \div 2
             c == Call(<< >>, 0, n)
  <1>1. /\ at = "build" /\ program = "coord_kdtree" /\ UNCHANGED <<program, n>> /\ at' = "rec"
        /\ rs' \in SortRec(0, n - 1, 0) /\ tree' = Planted(<< >>, m, rs')
        /\ work' = <<Call(<<"left">>, 0, m - 1), Call(<<"right">>, m + 1, n)>>
    BY DEF MkKdtree
  <1>2. n \in Nat /\ rs \in Arrays(n) /\ tree = << >>
    BY <1>1 DEF IInv, CountsOK, KdInv
  <1>3. << >> \in Paths /\ Axis(<< >>) = 0
    BY DEF Paths, Axis
  <1>4. rs' \in Arrays(n) /\ Sorts(n, rs, rs', 0, n - 1, Axis(<< >>) + 1)
    BY <1>1, <1>2, <1>3, SortRecIs
  <1>5. c.path = << >> /\ c.offset = 0 /\ c.last = n /\ Span(c) = 0..n
    BY DEF Call, Span
  <1>6. m \in Span(c) /\ (m < n \/ Span(c) = {m})
    BY <1>2, <1>5
  <1>7. tree' = Plant(tree, c.path, m, rs')
    BY <1>1, <1>5 DEF Planted, Plant
  <1>8. /\ Left(c, m) = Call(<<"left">>, 0, m - 1) /\ Right(c, m) = Call(<<"right">>, m + 1, n)
        /\ Left(c, m) \in Calls /\ Right(c, m) \in Calls /\ Left(c, m) # Right(c, m)
    <2>1. Append(<< >>, "left") = <<"left">> /\ Append(<< >>, "right") = <<"right">>
      OBVIOUS
    <2>2. <<"left">> \in Paths /\ <<"right">> \in Paths /\ <<"left">> # <<"right">>
      BY DEF Paths, Sides
    <2>3. m \in Nat /\ m - 1 \in Int /\ m + 1 \in Nat
      BY <1>2
    <2> HIDE DEF m
    <2> QED BY <1>2, <1>5, <2>1, <2>2, <2>3 DEF Left, Right, Call, Calls
  <1>9. /\ work' \in Seq(Calls) /\ work' # << >> /\ Distinct(work')
        /\ Pending(work') = {Left(c, m), Right(c, m)}
    <2> HIDE DEF c, m
    <2>1. work' = <<Left(c, m), Right(c, m)>>
      BY <1>1, <1>8 DEF m
    <2>2. DOMAIN work' = 1..2 /\ work'[1] = Left(c, m) /\ work'[2] = Right(c, m) /\ work' # << >>
      BY <2>1
    <2> QED BY <1>8, <2>1, <2>2 DEF Distinct, Pending
  <1>10. Grows(n, tree, {c}, rs)
    BY <1>2, NothingGrown
  <1>11. Splits(n, tree, {c}, rs, tree', Pending(work'), rs', c, m)
    <2> HIDE DEF c, m
    <2> QED BY <1>4, <1>5, <1>6, <1>7, <1>9 DEF Splits
  <1>12. Grows(n, tree', Pending(work'), rs')
    <2> HIDE DEF c, m
    <2> QED BY <1>2, <1>4, <1>10, <1>11, SplitGrows
  <1> QED BY <1>1, <1>4, <1>9, <1>12 DEF KdInv

LEMMA RecGrows ==
  ASSUME IInv, KdInv, RecNothing \/ RecOne \/ RecMany
  PROVE  KdInv'
  <1> DEFINE c == Head(work)
  <1>1. at = "rec" /\ program = "coord_kdtree" /\ UNCHANGED <<program, n>>
    BY DEF RecNothing, RecOne, RecMany, IInv, CountsOK, readVars
  <1>2. /\ n \in Nat /\ rs \in Arrays(n) /\ work \in Seq(Calls) /\ work # << >> /\ Distinct(work)
        /\ Grows(n, tree, Pending(work), rs)
    BY <1>1 DEF IInv, CountsOK, KdInv
  <1>3. /\ c \in Pending(work) /\ c \in Calls
        /\ Tail(work) \in Seq(Calls) /\ Distinct(Tail(work)) /\ Pending(Tail(work)) = Pending(work) \ {c}
    BY <1>2, RestIs
  <1>4. c.path \in Paths /\ c.offset \in Nat /\ c.last \in Int /\ c.last <= n /\ Span(c) = c.offset..c.last
    BY <1>2, <1>3 DEF Calls, Span, Grows, CallsOK
  <1> HIDE DEF c
  <1>5. ASSUME NEW w, Done(w), w \in Seq(Calls), Distinct(w), rs' \in Arrays(n), Grows(n, tree', Pending(w), rs')
        PROVE  KdInv'
    <2>1. work' = w /\ at' \in {"rec", "query"} /\ (at' = "rec" <=> w # << >>)
      BY <1>5 DEF Done
    <2> QED BY <1>1, <1>5, <2>1 DEF KdInv
  <1>6. CASE RecNothing
    <2>1. Done(Tail(work)) /\ c.last < c.offset /\ tree' = tree /\ rs' = rs
      BY <1>6 DEF RecNothing, c, readVars
    <2>2. Span(c) = {}
      BY <1>4, <2>1
    <2>3. Grows(n, tree, Pending(Tail(work)), rs)
      BY <1>2, <1>3, <2>2, DropGrows
    <2> QED BY <1>2, <1>3, <1>5, <2>1, <2>3
  <1>7. CASE RecOne
    <2>1. Done(Tail(work)) /\ c.last = c.offset /\ tree' = Planted(c.path, c.offset, rs) /\ rs' = rs
      BY <1>7 DEF RecOne, c, readVars
    <2>2. tree' = Plant(tree, c.path, c.offset, rs)
      BY <2>1 DEF Planted, Plant
    <2>3. c.offset \in Span(c) /\ Span(c) = {c.offset}
      BY <1>4, <2>1
    <2>4. Sorts(n, rs, rs, c.offset, c.last - 1, Axis(c.path) + 1)
      BY <1>4, <2>1 DEF Sorts
    <2>5. Span(Left(c, c.offset)) = {} /\ Span(Right(c, c.offset)) = {}
      <3>1. /\ Span(Left(c, c.offset)) = c.offset..(c.offset - 1)
            /\ Span(Right(c, c.offset)) = (c.offset + 1)..c.last
        BY <1>2, <1>3, <2>3, PartsAre DEF Grows
      <3> QED BY <1>4, <2>1, <3>1
    <2>6. Splits(n, tree, Pending(work), rs, tree', Pending(Tail(work)), rs, c, c.offset)
      BY <1>3, <2>2, <2>3, <2>4, <2>5 DEF Splits
    <2>7. Grows(n, tree', Pending(Tail(work)), rs)
      BY <1>2, <2>6, SplitGrows
    <2> QED BY <1>2, <1>3, <1>5, <2>1, <2>7
  <1>8. CASE RecMany
    <2> DEFINE mid == c.offset + (c.last - c.offset) \div 2
               w   == <<Left(c, mid), Right(c, mid)>> \o Tail(work)
    <2>1. /\ c.last > c.offset /\ rs' \in SortRec(c.offset, SortEnd(c), Axis(c.path))
          /\ tree' = Planted(c.path, mid, rs')
          /\ Done(<<Call(Append(c.path, "left"), c.offset, LeftEnd(c, mid)),
                    Call(Append(c.path, "right"), mid + 1, c.last)>> \o Tail(work))
      BY <1>8 DEF RecMany, c
    <2>2. mid \in Span(c) /\ mid < c.last /\ LeftEnd(c, mid) = mid - 1
      BY <1>3, <2>1, HalvesAre
    <2> HIDE DEF mid
    <2>3. Done(w)
      BY <2>1, <2>2 DEF Left, Right
    <2>4. rs' \in Arrays(n) /\ Sorts(n, rs, rs', c.offset, c.last - 1, Axis(c.path) + 1)
      BY <1>2, <1>4, <2>1, SortRecIs DEF SortEnd
    <2>5. tree' = Plant(tree, c.path, mid, rs')
      BY <2>1 DEF Planted, Plant
    <2>6. /\ Left(c, mid) \in Calls /\ Right(c, mid) \in Calls
          /\ Left(c, mid).path = Append(c.path, "left") /\ Right(c, mid).path = Append(c.path, "right")
      BY <1>2, <1>3, <2>2, PartsAre DEF Grows
    <2>7. /\ Left(c, mid) # Right(c, mid)
          /\ Left(c, mid) \notin Pending(Tail(work)) /\ Right(c, mid) \notin Pending(Tail(work))
      <3>1. /\ Extends(Append(c.path, "left"), c.path) /\ Extends(Append(c.path, "right"), c.path)
            /\ Append(c.path, "left") # Append(c.path, "right")
        BY <1>4, ChildIs DEF Extends, Sides
      <3>2. \A d \in Pending(work) \ {c} : ~Extends(d.path, c.path)
        BY <1>2, <1>3 DEF Grows, CallsOK
      <3> QED BY <1>3, <2>6, <3>1, <3>2
    <2>8. w \in Seq(Calls) /\ Distinct(w) /\ Pending(w) = Pending(Tail(work)) \cup {Left(c, mid), Right(c, mid)}
      <3> DEFINE a == Left(c, mid)
                 b == Right(c, mid)
                 t == Tail(work)
      <3>1. t \in Seq(Calls) /\ Distinct(t) /\ a \in Calls /\ b \in Calls
            /\ a # b /\ a \notin Pending(t) /\ b \notin Pending(t)
        BY <1>3, <2>6, <2>7
      <3> HIDE DEF a, b, t
      <3>2. <<a, b>> \o t \in Seq(Calls) /\ Distinct(<<a, b>> \o t) /\ Pending(<<a, b>> \o t) = Pending(t) \cup {a, b}
        BY <3>1, PushedIs
      <3> QED BY <3>2 DEF a, b, t
    <2> HIDE DEF w
    <2>9. Splits(n, tree, Pending(work), rs, tree', Pending(w), rs', c, mid)
      BY <1>3, <2>2, <2>4, <2>5, <2>8 DEF Splits
    <2>10. Grows(n, tree', Pending(w), rs')
      BY <1>2, <2>4, <2>9, SplitGrows
    <2> QED BY <1>5, <2>3, <2>4, <2>8, <2>10
  <1> QED BY <1>6, <1>7, <1>8
LEMMA KdStarts == Init => KdInv
  <1> SUFFICES ASSUME Init PROVE KdInv
    OBVIOUS
  <1> QED BY DEF Init, KdInv

LEMMA KdKeeps ==
  ASSUME IInv, KdInv, [Next]_vars
  PROVE  KdInv'
  <1>1. CASE Open
    <2>1. at' \in {"read", "failed"} /\ at = "open" /\ UNCHANGED <<program, n, rs, tree, work>>
      BY <1>1 DEF Open, readVars, indexVars
    <2> QED BY <2>1 DEF KdInv, Slots
  <1>2. CASE ReadRecord
    <2>1. PICK old \in Garbage : rs' = Stored(Parsed(file.lines[n + 1], old))
      BY <1>2 DEF ReadRecord
    <2>2. at = "read" /\ at' = "read" /\ n' = n + 1 /\ UNCHANGED <<program, tree, work>> /\ n \in Nat /\ n < Len(file.lines)
      BY <1>2 DEF ReadRecord, indexVars, IInv, CountsOK
    <2>3. file \in File
      BY <2>2, PlacesAssumption DEF IInv, CountsOK, LooksOk
    <2>4. file.lines[n + 1] \in Line
      BY <2>2, <2>3 DEF File
    <2>5. Parsed(file.lines[n + 1], old) \in Record
      BY <2>4, PlacesAssumption DEF Parsed, Line, Record
    <2>6. rs' = [i \in 0..n |-> IF i < n THEN rs[i] ELSE Parsed(file.lines[n + 1], old)]
      BY <2>1 DEF Stored
    <2>7. program = "coord_kdtree" => \A i \in 0..n : rs'[i] \in Record
      BY <2>2, <2>5, <2>6 DEF KdInv, Slots
    <2> QED BY <2>2, <2>7 DEF KdInv, Slots
  <1>3. CASE EndOfRecords
    <2>1. PICK old \in Garbage : rs' = Stored(old)
      BY <1>3 DEF EndOfRecords
    <2>2. at = "read" /\ at' = "build" /\ n \in Nat /\ UNCHANGED <<program, n, tree, work>>
      BY <1>3 DEF EndOfRecords, indexVars, IInv, CountsOK
    <2>3. rs' = [i \in 0..n |-> IF i < n THEN rs[i] ELSE old] /\ old \in Record
      BY <2>1, PlacesAssumption DEF Stored
    <2>4. program = "coord_kdtree" => rs' \in Arrays(n)
      BY <2>2, <2>3 DEF KdInv, Slots, Arrays
    <2> QED BY <2>2, <2>4 DEF KdInv
  <1>4. CASE MkNaive \/ MkIndexed \/ MkSortedIndex \/ LookupNaiveId \/ LookupIndexed \/ LookupSortedIndex
             \/ LookupNaiveCoord \/ AskForId \/ PrintRandomId
    <2>1. UNCHANGED program /\ program # "coord_kdtree"
      BY <1>4 DEF MkNaive, MkIndexed, MkSortedIndex, LookupNaiveId, LookupIndexed, LookupSortedIndex,
         LookupNaiveCoord, AskForId, PrintRandomId, Searching, IdPrograms
    <2> QED BY <2>1 DEF KdInv
  <1>5. CASE MkKdtree
    BY <1>5, RootGrows
  <1>6. CASE RecNothing \/ RecOne \/ RecMany
    BY <1>6, RecGrows
  <1>7. CASE LookupRec \/ AskForPoint \/ EndOfInput
    <2>1. UNCHANGED <<program, n, rs, tree, work>> /\ at \in {"search", "query"} /\ at' \in {"search", "query", "end"}
      BY <1>7 DEF LookupRec, AskForPoint, EndOfInput, Searching, Answer, readVars, indexVars
    <2> QED BY <2>1 DEF KdInv
  <1>8. CASE UNCHANGED vars
    BY <1>8 DEF vars, KdInv, Slots
  <1> QED BY <1>1, <1>2, <1>3, <1>4, <1>5, <1>6, <1>7, <1>8 DEF Next, Step

LEMMA KdInvariant == Spec => []KdInv
  BY KdStarts, KdKeeps, Inductive, PTL DEF Spec

\* When it is built, nothing is pending.
LEMMA BuiltIs ==
  ASSUME IInv, KdInv, TreeIsBuilt
  PROVE  n \in Nat /\ n < room /\ rs \in Arrays(n) /\ Grows(n, tree, {}, rs)
  <1>1. work = << >>
    BY DEF KdInv, TreeIsBuilt
  <1>2. Pending(work) = {}
    BY <1>1 DEF Pending
  <1> QED BY <1>2 DEF IInv, CountsOK, KdInv, TreeIsBuilt

\* For files of any length and whatever order qsort leaves equal keys in: every
\* slot of the array, the one after the last record included, is in exactly one
\* node, which has the coordinates of the record that is in the slot when the
\* tree is done, although later calls go on sorting the array (mk_kdtree, rec).
THEOREM EveryRecordIsInTheTree == Spec => []TreeHoldsEveryRecord
  <1>1. ASSUME IInv, KdInv PROVE TreeHoldsEveryRecord
    <2> SUFFICES ASSUME TreeIsBuilt
                 PROVE  /\ \A i \in 0..n : \E path \in DOMAIN tree : tree[path].record = i
                        /\ Cardinality(DOMAIN tree) = n + 1 /\ n < room
                        /\ \A path \in DOMAIN tree : tree[path].coord = Coord(rs[tree[path].record])
      BY DEF TreeHoldsEveryRecord
    <2>1. n \in Nat /\ n < room /\ NodesOK(n, tree, rs) /\ CoversOK(n, tree, {})
      BY <1>1, BuiltIs DEF Grows
    <2>2. \A i \in 0..n : \E path \in DOMAIN tree : tree[path].record = i
      BY <2>1 DEF CoversOK
    <2>3. Cardinality(DOMAIN tree) = n + 1
      <3> DEFINE f == [q \in DOMAIN tree |-> tree[q].record]
      <3>1. f \in Bijection(DOMAIN tree, 0..n)
        BY <2>1, <2>2 DEF NodesOK, Bijection, Injection, Surjection, IsInjective
      <3>2. IsFiniteSet(0..n) /\ Cardinality(0..n) = n + 1
        BY <2>1, FS_Interval
      <3>3. Cardinality(DOMAIN tree) = Cardinality(0..n)
        <4> HIDE DEF f
        <4>1. f \in Injection(DOMAIN tree, 0..n) /\ f \in Surjection(DOMAIN tree, 0..n)
          BY <3>1 DEF Bijection
        <4> QED BY <3>2, <4>1, FS_Injection
      <3> QED BY <3>2, <3>3
    <2> QED BY <2>1, <2>2, <2>3 DEF NodesOK
  <1> QED BY <1>1, Inductive, KdInvariant, PTL

\* For files of any length: what is left of a node is not beyond it, and what is
\* right of it not short of it, but for the last record of the part, which the
\* sorting of rec leaves where it is (sort_rec is given last - offset records).
THEOREM TreeKeepsOrder == Spec => []TreeIsOrdered
  <1>1. ASSUME IInv, KdInv, TreeIsBuilt, NEW p \in DOMAIN tree
        PROVE  LET a == Axis(p) + 1
                   right == Below(p, "right") IN
                 /\ \A q \in Below(p, "left") : tree[q].coord[a] <= tree[p].coord[a]
                 /\ \A q \in right : \/ tree[q].coord[a] >= tree[p].coord[a]
                                     \/ \A r \in right : tree[r].record <= tree[q].record
    <2>1. NodesOK(n, tree, rs) /\ OrderOK(tree, {}, rs)
      BY <1>1, BuiltIs DEF Grows
    <2>2. ASSUME NEW side \in Sides, NEW q \in Below(p, side)
          PROVE  /\ Holds(tree, {}, tree[q].record, p, side)
                 /\ tree[q].coord[Axis(p) + 1] = CoordAt(rs, tree[q].record, p)
      <3>1. q \in DOMAIN tree /\ p \in Paths /\ q \in Paths
        BY <2>1, <2>2 DEF Below, NodesOK
      <3>2. Under(q, p, side)
        BY <2>2, <3>1, UnderIs DEF Below
      <3> QED BY <2>1, <3>1, <3>2 DEF Holds, NodesOK, CoordAt
    <2>3. /\ \A i : Holds(tree, {}, i, p, "left") => CoordAt(rs, i, p) <= tree[p].coord[Axis(p) + 1]
          /\ \A i : Holds(tree, {}, i, p, "right") => \/ CoordAt(rs, i, p) >= tree[p].coord[Axis(p) + 1]
                                                      \/ \A j : Holds(tree, {}, j, p, "right") => j <= i
      BY <2>1 DEF OrderOK
    <2>4. "left" \in Sides /\ "right" \in Sides
      BY DEF Sides
    <2>5. ASSUME NEW q \in Below(p, "left") PROVE tree[q].coord[Axis(p) + 1] <= tree[p].coord[Axis(p) + 1]
      BY <2>2, <2>3, <2>4
    <2>6. ASSUME NEW q \in Below(p, "right")
          PROVE  \/ tree[q].coord[Axis(p) + 1] >= tree[p].coord[Axis(p) + 1]
                 \/ \A r \in Below(p, "right") : tree[r].record <= tree[q].record
      BY <2>2, <2>3, <2>4
    <2> QED BY <2>5, <2>6
  <1>2. ASSUME IInv, KdInv PROVE TreeIsOrdered
    BY <1>1, <1>2 DEF TreeIsOrdered
  <1> QED BY <1>2, Inductive, KdInvariant, PTL
=============================================================================
