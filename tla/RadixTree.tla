----------------------------- MODULE RadixTree ------------------------------
(***************************************************************************)
(* The program A6/handout/radix.c: a priority queue in a radix tree whose  *)
(* nodes come from Allocator.  It reads numbers from a file: V >= 0 is     *)
(* added, -N takes the N lowest numbers and writes them, BufferSize at a   *)
(* time.  Every iteration of a loop and every call or return of the        *)
(* recursions is a step.                                                   *)
(* A node is a record; the union of a leaf (two counts) and an interior    *)
(* node (two pointers) is the pair of fields zero and one.  As in the      *)
(* code, a node keeps its contents after its release until the memory is   *)
(* used again (release overwrites only the word in front of it).           *)
(***************************************************************************)
EXTENDS Allocator, Sequences, FiniteSetsExt, Sums

CONSTANTS
  NodeSize,    \* sizeof(struct node)
  TopBit,      \* exponent of MAX_BITS (30)
  BufferSize,  \* length of out_numbers (100)
  Inputs,      \* the numbers that may be in the input file
  MaxReads     \* bound: length of the input file

VARIABLES
  node,     \* the contents of the memory behind the blocks used for nodes
  tree,     \* the root
  pc,       \* what the program is doing
  number,   \* add_number: its argument
  bitPos,   \* add_number: its loop variable, a one-hot bit position
  parent,   \* add_number: the place of the pointer it has come to
  limit,    \* main: numbers still to be taken for the command
  buffer,   \* main: out_numbers, up to the pointer of take_numbers_2
  stack,    \* the frames of take_numbers_2 or release_tree, innermost first
  written,  \* the output file
  reads     \* the numbers read so far

treeVars == <<node, tree, pc, number, bitPos, parent, limit, buffer, stack, written, reads>>
vars == <<heapVars, treeVars>>

\* 1 << k.
OneHot[k \in 0..TopBit] == IF k = 0 THEN 1 ELSE 2 * OneHot[k - 1]

Positions == {OneHot[k] : k \in 0..TopBit}
MaxBits   == OneHot[TopBit]
Numbers   == 0..(2 * MaxBits - 1)

ASSUME RadixAssumption ==
  /\ TopBit \in Nat /\ BufferSize \in Nat \ {0} /\ MaxReads \in Nat
  /\ Inputs \subseteq {i \in Int : i < 2 * MaxBits}
  /\ NodeSize \in Sizes /\ ~Refused(NodeSize)

-----------------------------------------------------------------------------
(* Pointers to pointers: the variable tree, or a field of a node. *)

Root == <<NULL, "root">>

Deref(place) == IF place = Root THEN tree ELSE node[place[1]][place[2]]

\* *place = p, once the nodes have become `nodes`.
Store(nodes, place, p) ==
  IF place = Root
  THEN tree' = p /\ node' = nodes
  ELSE tree' = tree /\ node' = [nodes EXCEPT ![place[1]][place[2]] = p]

\* The contents of the memory once p points to a new node.
WithNode(p, contents) ==
  [q \in DOMAIN node \cup {p} |-> IF q = p THEN contents ELSE node[q]]

Set(n, bit)  == (n \div bit) % 2 = 1
Side(n, bit) == IF Set(n, bit) THEN "one" ELSE "zero"

Leaf(n) ==
  [bit |-> 1, number |-> n, zero |-> IF Set(n, 1) THEN 0 ELSE 1, one |-> IF Set(n, 1) THEN 1 ELSE 0]

-----------------------------------------------------------------------------
Init ==
  /\ InitHeap
  /\ node = [p \in {} |-> Leaf(0)]
  /\ tree = NULL
  /\ pc = "read"
  /\ number = 0 /\ bitPos = 0 /\ parent = Root
  /\ limit = 0 /\ buffer = << >> /\ stack = << >>
  /\ written = << >>
  /\ reads = 0

Enter(place) == [place |-> place, at |-> "enter"]

\* A number is added, -N starts a take of the N lowest.
ReadNumber(i) ==
  /\ pc = "read"
  /\ reads < MaxReads
  /\ reads' = reads + 1
  /\ IF i < 0
     THEN /\ pc' = "take"
          /\ limit' = -i
          /\ buffer' = << >>
          /\ stack' = <<Enter(Root)>>
          /\ UNCHANGED <<number, bitPos, parent>>
     ELSE /\ pc' = "add"
          /\ number' = i
          /\ bitPos' = MaxBits
          /\ parent' = Root
          /\ UNCHANGED <<limit, buffer, stack>>
  /\ UNCHANGED <<heapVars, node, tree, written>>

\* There are no more numbers, the tree is released.
EndOfInput ==
  /\ pc = "read"
  /\ pc' = "release"
  /\ stack' = <<Enter(Root)>>
  /\ UNCHANGED <<heapVars, node, tree, number, bitPos, parent, limit, buffer, written, reads>>

-----------------------------------------------------------------------------
(* add_number: one action for each way through an iteration of its loop. *)

here == Deref(parent)

Adding == pc = "add"

\* mutant: only the highest bit of the range is compared
Differing_HighestOnly == {b \in Positions : b = bitPos /\ Set(number, b) # Set(node[here].number, b)}

\* The bits above the node's own, up to bit_pos, in which the number differs.
Differing ==
  {b \in Positions : node[here].bit < b /\ b <= bitPos /\ Set(number, b) # Set(node[here].number, b)}

\* The subtree does not exist: a leaf is made of the number.
NewLeaf ==
  /\ Adding /\ here = NULL
  /\ Allocate(NodeSize)
  /\ LET p == Pointer(NodeSize) IN Store(WithNode(p, Leaf(number)), parent, p)
  /\ pc' = "read"
  /\ UNCHANGED <<number, bitPos, parent, limit, buffer, stack, written, reads>>

\* mutant: the new node goes at bit_pos, and the search for the highest
\* differing bit is left out
SplitBit_NoSearch == bitPos

\* The most significant bit in which the number differs from the subtree.
SplitBit == Max(Differing)

\* The number differs from the whole subtree: a node is put above it.
Split ==
  /\ Adding /\ here # NULL /\ Differing # {}
  /\ Allocate(NodeSize)
  /\ LET p   == Pointer(NodeSize)
         bit == SplitBit
         new == [bit |-> bit, number |-> number,
                 zero |-> IF Set(number, bit) THEN here ELSE NULL,
                 one  |-> IF Set(number, bit) THEN NULL ELSE here]
     IN  /\ Store(WithNode(p, new), parent, p)
         /\ parent' = <<p, Side(number, bit)>>
         /\ bitPos' = bit \div 2
  /\ UNCHANGED <<pc, number, limit, buffer, stack, written, reads>>

Descend ==
  /\ Adding /\ here # NULL /\ Differing = {} /\ node[here].bit > 1
  /\ parent' = <<here, Side(number, node[here].bit)>>
  /\ bitPos' = node[here].bit \div 2
  /\ UNCHANGED <<heapVars, node, tree, pc, number, limit, buffer, stack, written, reads>>

CountAtLeaf ==
  /\ Adding /\ here # NULL /\ Differing = {} /\ node[here].bit = 1
  /\ node' = [node EXCEPT ![here][Side(number, 1)] = @ + 1]
  /\ pc' = "read"
  /\ UNCHANGED <<heapVars, tree, number, bitPos, parent, limit, buffer, stack, written, reads>>

-----------------------------------------------------------------------------
(* take_numbers_2, with its frames on `stack`. *)

Frame     == stack[1]
At(label) == stack # << >> /\ Frame.at = label
top       == Deref(Frame.place)          \* nptr of the innermost call

Goto(label)  == <<[Frame EXCEPT !.at = label]>> \o Tail(stack)
Call(side)   == <<Enter(<<top, side>>)>>

takeUnchanged == UNCHANGED <<number, bitPos, parent, limit, written, reads>>

\* mutant: the end of the buffer is passed by one
Room_OneTooMany == Len(buffer) <= IF limit < BufferSize THEN limit ELSE BufferSize

Room == Len(buffer) < IF limit < BufferSize THEN limit ELSE BufferSize

\* The side of the leaf that the next number is taken from.
TakenSide == IF node[top].zero > 0 THEN "zero" ELSE "one"

LeafHasNumber == node[top].zero > 0 \/ node[top].one > 0

TakeNothing ==
  /\ pc = "take" /\ At("enter") /\ top = NULL
  /\ stack' = Tail(stack)
  /\ UNCHANGED <<heapVars, node, tree, pc, buffer>> /\ takeUnchanged

TakeFromLeaf ==
  /\ pc = "take" /\ At("enter") /\ top # NULL /\ node[top].bit = 1
  /\ Room /\ LeafHasNumber
  /\ LET even == (node[top].number \div 2) * 2
     IN  buffer' = Append(buffer, IF TakenSide = "zero" THEN even ELSE even + 1)
  /\ node' = [node EXCEPT ![top][TakenSide] = @ - 1]
  /\ UNCHANGED <<heapVars, tree, pc, stack>> /\ takeUnchanged

LeafDone ==
  /\ pc = "take" /\ At("enter") /\ top # NULL /\ node[top].bit = 1
  /\ ~(Room /\ LeafHasNumber)
  /\ stack' = Goto("leave")
  /\ UNCHANGED <<heapVars, node, tree, pc, buffer>> /\ takeUnchanged

TakeFromSubtree ==
  /\ pc = "take" /\ stack # << >> /\ top # NULL /\ node[top].bit > 1
  /\ \/ At("enter") /\ stack' = Call("zero") \o Goto("one")
     \/ At("one")   /\ stack' = Call("one") \o Goto("leave")
  /\ UNCHANGED <<heapVars, node, tree, pc, buffer>> /\ takeUnchanged

\* mutant: a node whose zero side is empty is taken for empty
Empty_OneSide(p) == node[p].zero = 0

\* No numbers, or no subtrees: NULL is 0.
Empty(p) == node[p].zero = 0 /\ node[p].one = 0

\* mutant: the released node stays in the tree
Unlink_Forgotten(place) == UNCHANGED <<node, tree>>

Unlink(place) == Store(node, place, NULL)

\* A node that has become empty is released and taken out of the tree.
LeaveNode ==
  /\ pc = "take" /\ At("leave")
  /\ IF Empty(top)
     THEN Release(top) /\ Unlink(Frame.place)
     ELSE UNCHANGED <<heapVars, node, tree>>
  /\ stack' = Tail(stack)
  /\ UNCHANGED <<pc, buffer>> /\ takeUnchanged

\* mutant: an empty tree does not end the loop
TakesEnd_NoBreak(taken) == limit = taken

\* The loop over the limit ends when all are taken or the tree was empty.
TakesEnd(taken) == limit = taken \/ taken = 0

\* take_numbers returns, the numbers taken are written.
WriteTaken ==
  /\ pc = "take" /\ stack = << >>
  /\ LET taken == Len(buffer)
     IN  /\ written' = written \o buffer
         /\ limit' = IF TakesEnd(taken) THEN 0 ELSE limit - taken
         /\ pc' = IF TakesEnd(taken) THEN "read" ELSE "take"
         /\ stack' = IF TakesEnd(taken) THEN << >> ELSE <<Enter(Root)>>
  /\ buffer' = << >>
  /\ UNCHANGED <<heapVars, node, tree, number, bitPos, parent, reads>>

-----------------------------------------------------------------------------
(* release_tree: the subtrees, then the node. *)

releaseUnchanged ==
  UNCHANGED <<node, tree, pc, number, bitPos, parent, limit, buffer, written, reads>>

ReleaseNothing ==
  /\ pc = "release" /\ At("enter") /\ top = NULL
  /\ stack' = Tail(stack)
  /\ UNCHANGED heapVars /\ releaseUnchanged

ReleaseSubtree ==
  /\ pc = "release" /\ stack # << >> /\ top # NULL /\ node[top].bit > 1
  /\ \/ At("enter") /\ stack' = Call("zero") \o Goto("one")
     \/ At("one")   /\ stack' = Call("one") \o Goto("leave")
  /\ UNCHANGED heapVars /\ releaseUnchanged

ReleaseNode ==
  /\ pc = "release"
  /\ \/ At("leave")
     \/ At("enter") /\ top # NULL /\ node[top].bit = 1
  /\ Release(top)
  /\ stack' = Tail(stack)
  /\ releaseUnchanged

Terminate ==
  /\ pc = "release" /\ stack = << >>
  /\ pc' = "end"
  /\ UNCHANGED <<heapVars, node, tree, number, bitPos, parent, limit, buffer, stack, written, reads>>

-----------------------------------------------------------------------------
Next ==
  \/ \E i \in Inputs : ReadNumber(i)
  \/ EndOfInput
  \/ NewLeaf \/ Split \/ Descend \/ CountAtLeaf
  \/ TakeNothing \/ TakeFromLeaf \/ LeafDone \/ TakeFromSubtree \/ LeaveNode \/ WriteTaken
  \/ ReleaseNothing \/ ReleaseSubtree \/ ReleaseNode \/ Terminate

Spec == Init /\ [][Next]_vars

\* One process runs the program: it never stops while it can take a step.
FairSpec == Spec /\ WF_vars(Next)

-----------------------------------------------------------------------------
(* Properties. *)

LiveNodes == {b + Word : b \in live}

TypeOK ==
  /\ HeapTypeOK
  /\ LiveNodes \subseteq DOMAIN node
  /\ \A p \in DOMAIN node :
       node[p] \in [bit : Positions, number : Numbers, zero : Nat, one : Nat]
  /\ tree \in Nat
  /\ pc \in {"read", "add", "take", "release", "end"}
  /\ number \in Numbers /\ bitPos \in Positions \cup {0}
  /\ limit \in Nat /\ reads \in 0..MaxReads
  /\ buffer \in Seq(Numbers) /\ Len(buffer) <= BufferSize
  /\ written \in Seq(Numbers)

Places == {Root} \cup {<<p, side>> : p \in {q \in LiveNodes : node[q].bit > 1}, side \in {"zero", "one"}}

\* Until the tree is released, the live blocks are a radix tree: each is in
\* exactly one place, and a node below another branches at a lower bit and
\* agrees with it in every bit above and with its side in the branching bit -
\* whatever was added, split and taken before (radix.c:46-72, 105-118).
TreeHoldsTheLiveNodes ==
  pc \in {"read", "add", "take"} =>
    /\ \A place \in Places : Deref(place) = NULL \/ Deref(place) \in LiveNodes
    /\ \A p \in LiveNodes : Cardinality({place \in Places : Deref(place) = p}) = 1
    /\ \A place \in Places \ {Root} : Deref(place) # NULL =>
         LET up == node[place[1]] down == node[Deref(place)]
         IN  /\ down.bit < up.bit
             /\ down.number \div (2 * up.bit) = up.number \div (2 * up.bit)
             /\ Side(down.number, up.bit) = place[2]

\* The heap stays sound under the program, every node is released once, and
\* when the program ends it has given back all it allocated (radix.c:131-139).
HeapIsSound ==
  /\ BlocksNeverOverlap
  /\ FreeListsAreSound
  /\ NoBlockIsLost
  /\ pc = "end" => live = {}

\* The times that n is in the tree (nodes that release_tree has given back
\* included; a leaf that take_numbers has given back is empty).
InLeaf(p, n) ==
  IF node[p].bit = 1 /\ node[p].number \div 2 = n \div 2 THEN node[p][Side(n, 1)] ELSE 0
Held(n) == SumOver(DOMAIN node, [p \in DOMAIN node |-> InLeaf(p, n)])

Queue == INSTANCE PriorityQueue WITH
  Counts <- {-i : i \in {j \in Inputs : j < 0}},
  bag    <- [n \in Numbers |-> Held(n)],
  due    <- limit - Len(buffer),
  out    <- written \o buffer

\* The program implements the priority queue: every number that it takes out is
\* the lowest of all that were added and not yet taken, and it stops early only
\* when there is none (A6/opgave.md:13-27, radix.c:91-139, 163-185).
ImplementsQueue == Queue!Spec

\* The program ends: no loop or recursion goes on for ever, not even when more
\* numbers are asked for than there are (radix.c:167-180).
ProgramEnds == <>(pc = "end")
=============================================================================
