----------------------------- MODULE Allocator ------------------------------
(***************************************************************************)
(* The allocator for small blocks of A6/handout/lib.c, lines 130 to 201.   *)
(* A block starts with one word; behind it is the memory that the caller   *)
(* uses.  The word holds the size of the block while it is live and the    *)
(* address of the next free block of its class while it is free: the free  *)
(* lists are threaded through the blocks.  (A5/tiny_riscv/lib.c has the    *)
(* same allocator with one line different, see Initialized_TinyRiscv.)     *)
(* Addresses are integers as large as the program needs.                   *)
(***************************************************************************)
EXTENDS Integers, FiniteSets

CONSTANTS
  HeapStart,      \* where init_heap puts free_space
  Step,           \* BLOCK_SIZE_STEP: sizes of blocks are multiples of it
  Word,           \* sizeof(int), and of a pointer
  MinAllocation,  \* MIN_ALLOCATION: a chunk of small blocks fills about as much
  PerChunk,       \* blocks in a chunk of larger blocks (10)
  NumSizes,       \* NUM_SIZES: classes of small blocks
  Sizes           \* the sizes that a program asks for

ASSUME AllocatorAssumption ==
  /\ HeapStart \in Nat \ {0} /\ Step \in Nat \ {0} /\ Word \in 1..Step
  /\ MinAllocation \in Nat /\ PerChunk \in Nat \ {0} /\ NumSizes \in Nat
  /\ Sizes \subseteq Int

VARIABLES
  header,       \* small_block_headers[c]: the first free block of c * Step bytes
  word,         \* the first word of every block carved so far
  freeSpace,    \* free_space: where the next chunk begins
  initialized,  \* whether the headers have been cleared
  cut,          \* history: the size that every block was cut to
  live          \* history: the blocks that the program holds

heapVars == <<header, word, freeSpace, initialized, cut, live>>

NULL == 0

Classes == 0..(NumSizes - 1)

-----------------------------------------------------------------------------
(* Sizes and chunks. *)

\* The header word is added and the sum rounded up to a multiple of Step.
Aligned(size) == ((size + Word + Step - 1) \div Step) * Step

Class(size) == Aligned(size) \div Step

\* Requests that are answered with NULL.
Refused(size) == size < 1 \/ Class(size) >= NumSizes

\* mutant: the division is rounded up, and the last block sticks out of its chunk
ChunkBlocks_RoundedUp(s) ==
  IF PerChunk * s < MinAllocation THEN (MinAllocation + s - 1) \div s ELSE PerChunk + 1

\* The number of blocks of s bytes in a chunk.
ChunkBlocks(s) ==
  IF PerChunk * s < MinAllocation THEN MinAllocation \div s ELSE PerChunk

\* The end of the chunk of blocks of s bytes that starts at free_space.
ChunkEnd(s) ==
  LET allocation == PerChunk * s
  IN  freeSpace + IF allocation < MinAllocation THEN (MinAllocation \div s) * s ELSE allocation

\* Its blocks.
Carved(s) == {freeSpace + i * s : i \in 0..(ChunkBlocks(s) - 1)}

\* mutant: the allocator of A5/tiny_riscv/lib.c clears the headers on every call
Initialized_TinyRiscv == FALSE

\* What allocate sets initialized to.
Initialized == TRUE

\* The headers as allocate finds them once the first call has cleared them.
Headers == IF initialized THEN header ELSE [c \in Classes |-> NULL]

-----------------------------------------------------------------------------
(* The two operations. *)

InitHeap ==
  /\ header = [c \in Classes |-> NULL]
  /\ word = [b \in {} |-> NULL]
  /\ freeSpace = HeapStart
  /\ initialized = FALSE
  /\ cut = [b \in {} |-> 0]
  /\ live = {}

\* The block that allocate takes: the first of the free list, or of a new chunk.
NextBlock(size) ==
  LET first == Headers[Class(size)] IN IF first = NULL THEN freeSpace ELSE first

\* What allocate(size) returns.
Pointer(size) == IF Refused(size) THEN NULL ELSE NextBlock(size) + Word

\* A new chunk becomes a list of blocks in the order of their addresses.
Chunk(s) ==
  [b \in Carved(s) |-> IF b + s < ChunkEnd(s) THEN b + s ELSE NULL]

Allocate(size) ==
  LET s       == Aligned(size)
      c       == Class(size)
      carving == Headers[c] = NULL
      words   == IF carving
                 THEN [b \in DOMAIN word \cup Carved(s) |->
                         IF b \in Carved(s) THEN Chunk(s)[b] ELSE word[b]]
                 ELSE word
      block   == NextBlock(size)
  IN  /\ initialized' = Initialized
      /\ IF Refused(size)
         THEN header' = Headers /\ UNCHANGED <<word, freeSpace, cut, live>>
         ELSE /\ header' = [Headers EXCEPT ![c] = words[block]]
              /\ word' = [words EXCEPT ![block] = s]
              /\ freeSpace' = IF carving THEN ChunkEnd(s) ELSE freeSpace
              /\ cut' = IF carving
                        THEN [b \in DOMAIN cut \cup Carved(s) |->
                                IF b \in Carved(s) THEN s ELSE cut[b]]
                        ELSE cut
              /\ live' = live \cup {block}

\* mutant: the class is found from the size without its header word
ReleaseClass_Payload(s) == (s - Word) \div Step

\* The class that release finds from the word in front of the memory.
ReleaseClass(s) == s \div Step

Release(p) ==
  LET block == p - Word
      c     == ReleaseClass(word[block])
  IN  /\ word' = [word EXCEPT ![block] = header[c]]
      /\ header' = [header EXCEPT ![c] = block]
      /\ live' = live \ {block}
      /\ UNCHANGED <<freeSpace, initialized, cut>>

\* A program that allocates and releases what it holds, in any order.
NextHeap ==
  \/ \E size \in Sizes : Allocate(size)
  \/ \E block \in live : Release(block + Word)

SpecHeap == InitHeap /\ [][NextHeap]_heapVars

-----------------------------------------------------------------------------
(* Properties. *)

Blocks == DOMAIN word
Free   == Blocks \ live

\* The type invariant of the heap.
HeapTypeOK ==
  /\ header \in [Classes -> Nat]
  /\ freeSpace \in Nat
  /\ initialized \in BOOLEAN
  /\ live \subseteq Blocks
  /\ word \in [Blocks -> Nat]
  /\ cut \in [Blocks -> Nat]

\* Two blocks never overlap, neither live ones nor free ones, and none reaches
\* into the space that is still to be cut (lib.c:169-183).
BlocksNeverOverlap ==
  \A b \in Blocks :
    /\ b + cut[b] <= freeSpace
    /\ \A d \in Blocks : b < d => b + cut[b] <= d

\* A place that may hold the address of a free block: a header or a free block.
Links     == {<<"header", c>> : c \in Classes} \cup {<<"block", b>> : b \in Free}
Target(l) == IF l[1] = "header" THEN header[l[2]] ELSE word[l[2]]
SizeOf(l) == IF l[1] = "header" THEN l[2] * Step ELSE cut[l[2]]

\* The free lists lead to free blocks of their own size and never meet, so that
\* no block is handed out twice, and a live block still has its size in front of
\* it (lib.c:186-190, 193-201).
FreeListsAreSound ==
  /\ \A b \in live : word[b] = cut[b]
  /\ \A l \in Links : Target(l) # NULL => Target(l) \in Free /\ cut[Target(l)] = SizeOf(l)
  /\ \A l, m \in Links : Target(l) # NULL /\ Target(l) = Target(m) => l = m

\* Every free block is in a free list: what was released, and the rest of every
\* chunk, can be handed out again (lib.c:147-150, 199-200).
NoBlockIsLost == \A b \in Free : \E l \in Links : Target(l) = b
=============================================================================
