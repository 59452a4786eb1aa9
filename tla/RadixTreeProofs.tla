-------------------------- MODULE RadixTreeProofs ---------------------------
(***************************************************************************)
(* Proofs about Allocator and RadixTree: for blocks, chunks and nodes of   *)
(* any size, any number of bits, and any input.  The heap stays sound, the *)
(* tree is one and gives all of it back, and it implements PriorityQueue.  *)
(***************************************************************************)
EXTENDS RadixTree, InductionLemmas

-----------------------------------------------------------------------------
(* Sizes and chunks *)

\* Every block has the size of its class.
LEMMA SizeIs ==
  ASSUME NEW size \in Int, ~Refused(size)
  PROVE  /\ Class(size) \in Classes /\ Class(size) >= 1
         /\ Aligned(size) = Class(size) * Step /\ Aligned(size) \in Nat /\ Aligned(size) >= Step
         /\ Aligned(size) >= size + Word
  <1> DEFINE x == size + Word + Step - 1
             q == x \div Step
  <1>1. x \in Nat /\ x >= Step /\ Step \in Nat \ {0}
    BY AllocatorAssumption DEF Refused
  <1> HIDE DEF x
  <1>2. q \in Nat /\ q >= 1 /\ q * Step <= x /\ x < q * Step + Step
    BY <1>1
  <1>3. Aligned(size) = q * Step
    BY DEF Aligned, x
  <1> HIDE DEF q
  <1>4. (q * Step) \div Step = q
    BY <1>1, <1>2
  <1>5. Class(size) = q
    BY <1>3, <1>4 DEF Class
  <1>6. q * Step \in Nat /\ q * Step >= Step
    BY <1>1, <1>2
  <1>7. q * Step >= size + Word
    BY <1>1, <1>2, <1>6, AllocatorAssumption DEF x
  <1> QED BY <1>2, <1>3, <1>5, <1>6, <1>7, AllocatorAssumption DEF Refused, Classes

\* The class that release finds is the one that allocate took.
LEMMA ReleaseClassIs == ASSUME NEW c \in Classes PROVE ReleaseClass(c * Step) = c
  <1>1. c \in Nat /\ Step \in Nat /\ Step > 0
    BY AllocatorAssumption DEF Classes
  <1>2. (c * Step) \div Step = c
    BY <1>1
  <1> QED BY <1>2 DEF ReleaseClass

\* A chunk is a row of blocks of s bytes from free_space on.
LEMMA ChunkIs ==
  ASSUME NEW s \in Nat \ {0}, freeSpace \in Nat
  PROVE  /\ ChunkEnd(s) \in Nat /\ freeSpace \in Carved(s) /\ Carved(s) \subseteq Nat
         /\ \A b \in Carved(s) : /\ b >= freeSpace /\ b + s <= ChunkEnd(s)
                                 /\ b + s < ChunkEnd(s) => b + s \in Carved(s)
                                 /\ b # freeSpace => b - s \in Carved(s)
         /\ \A b, d \in Carved(s) : b < d => b + s <= d
  <1> DEFINE K == ChunkBlocks(s)
             f == freeSpace
  <1>1. K \in Nat /\ K >= 1 /\ ChunkEnd(s) = f + K * s
    <2>1. PerChunk \in Nat \ {0} /\ MinAllocation \in Nat
      BY AllocatorAssumption
    <2>2. CASE PerChunk * s < MinAllocation
      <3>1. ChunkBlocks(s) = MinAllocation \div s /\ ChunkEnd(s) = f + (MinAllocation \div s) * s
        BY <2>2 DEF ChunkBlocks, ChunkEnd
      <3>2. MinAllocation \div s \in Nat
        BY <2>1
      <3>3. MinAllocation \div s >= 1
        <4>1. PerChunk * s >= s
          BY <2>1
        <4>2. MinAllocation >= s
          BY <2>1, <2>2, <4>1
        <4> QED BY <2>1, <4>2
      <3> QED BY <3>1, <3>2, <3>3
    <2>3. CASE ~(PerChunk * s < MinAllocation)
      BY <2>1, <2>3 DEF ChunkBlocks, ChunkEnd
    <2> QED BY <2>2, <2>3
  <1>2. Carved(s) = {f + i * s : i \in 0..(K - 1)}
    BY DEF Carved
  <1> HIDE DEF K, f
  <1>3. f \in Nat
    BY DEF f
  <1>4. \A i, j \in 0..K : i < j => i * s + s <= j * s
    <2> TAKE i \in 0..K, j \in 0..K
    <2>1. i < j => (i + 1) * s <= j * s
      BY <1>1
    <2>2. (i + 1) * s = i * s + s
      BY <1>1
    <2> QED BY <2>1, <2>2
  <1>5. \A i \in 0..K : i * s \in Nat /\ (i + 1) * s = i * s + s /\ (i - 1) * s = i * s - s
    BY <1>1
  <1>6. K * s \in Nat /\ 0 * s = 0
    BY <1>1
  <1>7. f \in Carved(s) /\ Carved(s) \subseteq Nat /\ ChunkEnd(s) \in Nat
    BY <1>1, <1>2, <1>3, <1>5, <1>6
  <1>8. ASSUME NEW b \in Carved(s)
        PROVE  /\ b >= f /\ b + s <= ChunkEnd(s)
               /\ b + s < ChunkEnd(s) => b + s \in Carved(s)
               /\ b # f => b - s \in Carved(s)
    <2>1. PICK i \in 0..(K - 1) : b = f + i * s
      BY <1>2
    <2>2. i \in 0..K /\ i * s \in Nat /\ i < K /\ K \in 0..K
      BY <1>1, <1>5
    <2>3. i * s + s <= K * s
      BY <1>4, <2>2
    <2>4. b >= f /\ b + s <= ChunkEnd(s)
      BY <1>1, <1>3, <1>6, <2>1, <2>2, <2>3
    <2>5. ASSUME b + s < ChunkEnd(s) PROVE b + s \in Carved(s)
      <3>1. i * s + s = (i + 1) * s /\ (i + 1) * s \in Nat
        BY <1>5, <2>2
      <3>2. b + s = f + (i + 1) * s
        BY <1>3, <2>1, <2>2, <3>1
      <3>3. i + 1 # K
        <4>1. i + 1 = K => b + s = ChunkEnd(s)
          BY <1>1, <3>2
        <4>2. ChunkEnd(s) \in Int
          BY <1>7
        <4> QED BY <2>5, <4>1, <4>2
      <3>4. i + 1 \in 0..(K - 1)
        BY <1>1, <2>2, <3>3
      <3> QED BY <1>2, <3>2, <3>4
    <2>6. ASSUME b # f PROVE b - s \in Carved(s)
      <3>1. i # 0
        BY <1>3, <1>6, <2>1, <2>6
      <3>2. b - s = f + (i - 1) * s
        BY <1>3, <1>5, <2>1, <2>2
      <3>3. i - 1 \in 0..(K - 1)
        BY <1>1, <2>2, <3>1
      <3> QED BY <1>2, <3>2, <3>3
    <2> QED BY <2>4, <2>5, <2>6
  <1>9. ASSUME NEW b \in Carved(s), NEW d \in Carved(s), b < d PROVE b + s <= d
    <2>1. PICK i \in 0..(K - 1), j \in 0..(K - 1) : b = f + i * s /\ d = f + j * s
      BY <1>2
    <2>2. i \in 0..K /\ j \in 0..K /\ i * s \in Nat /\ j * s \in Nat
      BY <1>1, <1>5
    <2>3. CASE i < j
      <3>1. i * s + s <= j * s
        BY <1>4, <2>2, <2>3
      <3> QED BY <1>3, <2>1, <2>2, <3>1
    <2>4. CASE j <= i
      <3>1. j * s <= i * s
        <4>1. CASE j = i
          BY <4>1
        <4>2. CASE j < i
          <5>1. j * s + s <= i * s
            BY <1>4, <2>2, <4>2
          <5> QED BY <2>2, <5>1
        <4> QED BY <2>2, <2>4, <4>1, <4>2
      <3> QED BY <1>3, <1>9, <2>1, <2>2, <3>1
    <2> QED BY <2>2, <2>3, <2>4
  <1> QED BY <1>7, <1>8, <1>9 DEF f
-----------------------------------------------------------------------------
(* The heap *)

\* Before the first call nothing has been cut; every block has the size of a class.
BlocksOK ==
  /\ freeSpace >= HeapStart
  /\ ~initialized => Blocks = {} /\ \A c \in Classes : header[c] = NULL
  /\ \A b \in Blocks : /\ b \in Nat /\ b >= HeapStart
                       /\ \E c \in Classes : c >= 1 /\ cut[b] = c * Step

HeapInv == HeapTypeOK /\ BlocksOK /\ BlocksNeverOverlap /\ FreeListsAreSound /\ NoBlockIsLost

LEMMA HeapStarts == InitHeap => HeapInv
  <1> SUFFICES ASSUME InitHeap PROVE HeapInv
    OBVIOUS
  <1>1. /\ header = [c \in Classes |-> NULL] /\ word = [b \in {} |-> NULL] /\ cut = [b \in {} |-> 0]
        /\ freeSpace = HeapStart /\ initialized = FALSE /\ live = {}
    BY DEF InitHeap
  <1>2. Blocks = {} /\ Free = {} /\ NULL \in Nat /\ HeapStart \in Nat
    BY <1>1, AllocatorAssumption DEF Blocks, Free, NULL
  <1>3. HeapTypeOK
    BY <1>1, <1>2 DEF HeapTypeOK
  <1>4. BlocksOK /\ BlocksNeverOverlap
    BY <1>1, <1>2 DEF BlocksOK, BlocksNeverOverlap
  <1>5. \A l \in Links : Target(l) = NULL
    BY <1>1, <1>2 DEF Links, Target
  <1>6. FreeListsAreSound /\ NoBlockIsLost
    BY <1>1, <1>2, <1>5 DEF FreeListsAreSound, NoBlockIsLost
  <1> QED BY <1>3, <1>4, <1>6 DEF HeapInv

\* A free block that is taken out of its list, and what the lists say afterwards:
\* the place that led to the block leads to what the block led to.
LEMMA UnlinkedKeeps ==
  ASSUME HeapInv, NEW c \in Classes, NEW s, s = c * Step, NEW block, block = header[c], block # NULL,
         header' = [header EXCEPT ![c] = word[block]], word' = [word EXCEPT ![block] = s],
         live' = live \cup {block}, UNCHANGED <<freeSpace, cut>>, initialized' = TRUE
  PROVE  HeapInv' /\ block \notin live /\ block \in Nat /\ block >= HeapStart
  <1> DEFINE link == <<"block", block>>
             place == <<"header", c>>
             Old(l) == IF l = place THEN link ELSE l
  <1>0. /\ header \in [Classes -> Nat] /\ word \in [Blocks -> Nat] /\ cut \in [Blocks -> Nat]
        /\ live \subseteq Blocks /\ freeSpace \in Nat
    BY DEF HeapInv, HeapTypeOK
  <1>1. place \in Links /\ Target(place) = block /\ SizeOf(place) = s
    BY DEF Links, Target, SizeOf
  <1>2. block \in Free /\ block \in Blocks /\ cut[block] = s
    BY <1>1 DEF HeapInv, FreeListsAreSound, Free
  <1>3. link \in Links /\ Target(link) = word[block] /\ SizeOf(link) = s
    BY <1>2 DEF Links, Target, SizeOf
  <1>4. block \in Nat /\ block >= HeapStart /\ s \in Nat
    BY <1>0, <1>2 DEF HeapInv, BlocksOK
  <1>5. Blocks' = Blocks /\ Free' = Free \ {block}
    BY <1>0 DEF Blocks, Free
  <1>6. HeapTypeOK'
    BY <1>0, <1>2, <1>4, <1>5 DEF HeapTypeOK
  <1>7. BlocksOK' /\ BlocksNeverOverlap'
    BY <1>2, <1>5 DEF HeapInv, BlocksOK, BlocksNeverOverlap
  <1>8. \A l \in Links' : /\ Old(l) \in Links /\ Target(l)' = Target(Old(l)) /\ SizeOf(l)' = SizeOf(Old(l))
                          /\ Old(l) # place
    <2> TAKE l \in Links'
    <2>1. CASE \E d \in Classes : l = <<"header", d>>
      <3>1. PICK d \in Classes : l = <<"header", d>>
        BY <2>1
      <3>2. CASE d = c
        BY <1>0, <1>3, <3>1, <3>2 DEF Target, SizeOf
      <3>3. CASE d # c
        <4>1. l # place /\ l \in Links
          BY <3>1, <3>3 DEF Links
        <4> QED BY <1>0, <3>1, <3>3, <4>1 DEF Target, SizeOf
      <3> QED BY <3>2, <3>3
    <2>2. CASE \E b \in Free' : l = <<"block", b>>
      <3>1. PICK b \in Free : l = <<"block", b>> /\ b # block
        BY <1>5, <2>2
      <3>2. l # place /\ l \in Links /\ b \in Blocks
        BY <3>1 DEF Links, Free
      <3> QED BY <1>0, <3>1, <3>2 DEF Target, SizeOf
    <2> QED BY <2>1, <2>2 DEF Links
  <1>9. \A l, m \in Links' : Old(l) = Old(m) => l = m
    <2>1. link \notin Links'
      <3>1. block \notin Free' /\ "block" # "header"
        BY <1>5
      <3> QED BY <3>1 DEF Links
    <2> QED BY <2>1
  <1> HIDE DEF Old, place, link
  <1>10. FreeListsAreSound'
    <2>1. ASSUME NEW b \in live' PROVE word'[b] = cut'[b]
      BY <1>0, <1>2 DEF HeapInv, FreeListsAreSound
    <2>2. ASSUME NEW l \in Links', Target(l)' # NULL
          PROVE  Target(l)' \in Free' /\ cut'[Target(l)'] = SizeOf(l)'
      <3>1. /\ Old(l) \in Links /\ Target(l)' = Target(Old(l)) /\ SizeOf(l)' = SizeOf(Old(l)) /\ Old(l) # place
        BY <1>8
      <3>2. Target(Old(l)) \in Free /\ cut[Target(Old(l))] = SizeOf(Old(l))
        BY <2>2, <3>1 DEF HeapInv, FreeListsAreSound
      <3>3. Target(Old(l)) # block
        BY <1>1, <3>1 DEF HeapInv, FreeListsAreSound
      <3> QED BY <1>5, <3>1, <3>2, <3>3
    <2>3. ASSUME NEW l \in Links', NEW m \in Links', Target(l)' # NULL, Target(l)' = Target(m)'
          PROVE  l = m
      BY <1>8, <1>9, <2>3 DEF HeapInv, FreeListsAreSound
    <2> QED BY <2>1, <2>2, <2>3 DEF FreeListsAreSound
  <1>11. NoBlockIsLost'
    <2> SUFFICES ASSUME NEW b \in Free' PROVE \E l \in Links' : Target(l)' = b
      BY DEF NoBlockIsLost
    <2>1. PICK l \in Links : Target(l) = b
      BY <1>5 DEF HeapInv, NoBlockIsLost
    <2>2. l # place
      BY <1>1, <1>5, <2>1
    <2>3. CASE l = link
      <3>1. place \in Links' /\ Target(place)' = word[block]
        BY <1>0 DEF place, Links, Target
      <3> QED BY <1>3, <2>1, <2>3, <3>1
    <2>4. CASE l # link
      <3>1. l \in Links' /\ Old(l) = l
        BY <1>5, <2>2, <2>4 DEF Links, link, Old
      <3> QED BY <1>8, <2>1, <3>1
    <2> QED BY <2>3, <2>4
  <1> QED BY <1>2, <1>4, <1>6, <1>7, <1>10, <1>11 DEF HeapInv, Free

\* A new chunk: its first block is handed out, the others become the free list.
Carves(c, s) ==
  /\ c >= 1 /\ s = c * Step /\ header[c] = NULL
  /\ word' = [b \in Blocks \cup Carved(s) |->
                IF b = freeSpace THEN s ELSE IF b \in Carved(s) THEN Chunk(s)[b] ELSE word[b]]
  /\ header' = [header EXCEPT ![c] = Chunk(s)[freeSpace]]
  /\ cut' = [b \in Blocks \cup Carved(s) |-> IF b \in Carved(s) THEN s ELSE cut[b]]
  /\ live' = live \cup {freeSpace} /\ freeSpace' = ChunkEnd(s) /\ initialized' = TRUE

LEMMA CarvedKeeps ==
  ASSUME HeapInv, NEW c \in Classes, NEW s, Carves(c, s)
  PROVE  HeapInv' /\ freeSpace \notin live /\ freeSpace \in Nat /\ freeSpace >= HeapStart
  <1> DEFINE f == freeSpace
             C == Carved(s)
             E == ChunkEnd(s)
             place == <<"header", c>>
  <1>0. /\ header \in [Classes -> Nat] /\ word \in [Blocks -> Nat] /\ cut \in [Blocks -> Nat]
        /\ live \subseteq Blocks /\ f \in Nat /\ f >= HeapStart /\ HeapStart \in Nat \ {0}
    BY AllocatorAssumption DEF HeapInv, HeapTypeOK, BlocksOK
  <1>1. s \in Nat \ {0} /\ s = c * Step /\ c >= 1
    <2>1. s = c * Step /\ c >= 1 /\ c \in Nat /\ Step \in Nat \ {0}
      BY AllocatorAssumption DEF Classes, Carves
    <2>2. c * Step \in Nat \ {0}
      BY <2>1
    <2> QED BY <2>1, <2>2
  <1>2. /\ E \in Nat /\ f \in C /\ C \subseteq Nat
        /\ \A b \in C : /\ b >= f /\ b + s <= E
                        /\ b + s < E => b + s \in C
                        /\ b # f => b - s \in C
        /\ \A b, d \in C : b < d => b + s <= d
    BY <1>0, <1>1, ChunkIs
  <1> HIDE DEF C, E
  <1>3. /\ word' = [b \in Blocks \cup C |-> IF b = f THEN s ELSE IF b \in C THEN Chunk(s)[b] ELSE word[b]]
        /\ cut' = [b \in Blocks \cup C |-> IF b \in C THEN s ELSE cut[b]]
        /\ header' = [header EXCEPT ![c] = Chunk(s)[f]]
        /\ live' = live \cup {f} /\ freeSpace' = E /\ initialized' = TRUE
    BY DEF C, E, Carves
  <1>4. \A b \in C : Chunk(s)[b] = IF b + s < E THEN b + s ELSE NULL
    BY DEF Chunk, C, E
  <1> HIDE DEF f
  <1>5. \A b \in Blocks : b \in Nat /\ cut[b] \in Nat /\ cut[b] > 0 /\ b + cut[b] <= f /\ b < f /\ b \notin C
    <2> TAKE b \in Blocks
    <2>1. PICK d \in Classes : d >= 1 /\ cut[b] = d * Step /\ b \in Nat
      BY DEF HeapInv, BlocksOK
    <2>2. cut[b] > 0
      BY <2>1, AllocatorAssumption DEF Classes
    <2>3. b + cut[b] <= f
      BY DEF HeapInv, BlocksNeverOverlap, f
    <2> QED BY <1>0, <1>2, <2>1, <2>2, <2>3
  <1>6. Blocks' = Blocks \cup C /\ Free' = Free \cup (C \ {f})
    BY <1>0, <1>3, <1>5 DEF Blocks, Free
  <1>7. NULL = 0 /\ \A b \in C : Chunk(s)[b] \in Nat
    BY <1>1, <1>2, <1>4 DEF NULL
  <1>8. HeapTypeOK'
    <2>1. word' \in [Blocks' -> Nat] /\ cut' \in [Blocks' -> Nat]
      <3>1. \A b \in Blocks \cup C : /\ (IF b = f THEN s ELSE IF b \in C THEN Chunk(s)[b] ELSE word[b]) \in Nat
                                    /\ (IF b \in C THEN s ELSE cut[b]) \in Nat
        <4> TAKE b \in Blocks \cup C
        <4>1. CASE b \in C
          BY <1>1, <1>7, <4>1
        <4>2. CASE b \notin C
          BY <1>0, <1>1, <4>2
        <4> QED BY <4>1, <4>2
      <3> QED BY <1>3, <1>6, <3>1
    <2>2. header' \in [Classes -> Nat] /\ live' \subseteq Blocks'
      BY <1>0, <1>2, <1>3, <1>6, <1>7
    <2> QED BY <1>2, <1>3, <2>1, <2>2 DEF HeapTypeOK
  <1>9. \A b \in Blocks' : cut'[b] = IF b \in C THEN s ELSE cut[b]
    BY <1>3, <1>6
  <1>e. E >= f
    <2>1. E >= f + s
      BY <1>2
    <2> QED BY <1>0, <1>1, <1>2, <2>1
  <1>10. BlocksOK'
    <2>1. E >= HeapStart
      BY <1>0, <1>2, <1>e
    <2>2. ASSUME NEW b \in Blocks'
          PROVE  b \in Nat /\ b >= HeapStart /\ \E d \in Classes : d >= 1 /\ cut'[b] = d * Step
      <3>1. CASE b \in C
        <4>1. b \in Nat /\ b >= f /\ cut'[b] = c * Step
          BY <1>1, <1>2, <1>9, <3>1
        <4> QED BY <1>0, <1>1, <4>1
      <3>2. CASE b \notin C
        BY <1>6, <1>9, <3>2 DEF HeapInv, BlocksOK
      <3> QED BY <3>1, <3>2
    <2> QED BY <1>3, <2>1, <2>2 DEF BlocksOK
  <1>11. BlocksNeverOverlap'
    <2>1. ASSUME NEW b \in Blocks'
          PROVE  b \in Nat /\ cut'[b] \in Nat /\ b + cut'[b] <= E /\ (b \notin C => b + cut'[b] <= f)
      <3>1. CASE b \in C
        BY <1>1, <1>2, <1>9, <3>1
      <3>2. CASE b \notin C
        <4>1. b \in Nat /\ cut'[b] \in Nat /\ b + cut'[b] <= f
          BY <1>5, <1>6, <1>9, <3>2
        <4> QED BY <1>0, <1>2, <1>e, <4>1
      <3> QED BY <3>1, <3>2
    <2>2. ASSUME NEW b \in Blocks', NEW d \in Blocks', b < d PROVE b + cut'[b] <= d
      <3>1. CASE b \in C /\ d \in C
        BY <1>2, <1>9, <2>2, <3>1
      <3>2. CASE b \notin C /\ d \in C
        <4>1. b + cut'[b] <= f /\ f <= d /\ b \in Nat /\ cut'[b] \in Nat /\ d \in Nat
          BY <1>2, <2>1, <3>2
        <4> QED BY <1>0, <4>1
      <3>3. CASE b \notin C /\ d \notin C
        BY <1>6, <1>9, <2>2, <3>3 DEF HeapInv, BlocksNeverOverlap
      <3>4. CASE b \in C /\ d \notin C
        <4>1. b >= f /\ d < f /\ b \in Nat /\ d \in Nat
          BY <1>2, <1>5, <1>6, <3>4
        <4> QED BY <1>0, <2>2, <4>1
      <3> QED BY <3>1, <3>2, <3>3, <3>4
    <2>3. \A b \in Blocks' : b + cut'[b] <= freeSpace'
      BY <1>3, <2>1
    <2>4. \A b, d \in Blocks' : b < d => b + cut'[b] <= d
      BY <2>2
    <2> QED BY <2>3, <2>4 DEF BlocksNeverOverlap
  <1> DEFINE News == {place} \cup {<<"block", b>> : b \in C \ {f}}
             Base(l) == IF l = place THEN f ELSE l[2]
  <1>12. \A l \in News : /\ l \in Links' /\ Base(l) \in C /\ SizeOf(l)' = s
                         /\ Target(l)' = IF Base(l) + s < E THEN Base(l) + s ELSE NULL
    <2> TAKE l \in News
    <2>1. CASE l = place
      <3>1. Target(place)' = Chunk(s)[f] /\ SizeOf(place)' = s /\ place \in Links'
        BY <1>0, <1>1, <1>3 DEF Links, Target, SizeOf
      <3> QED BY <1>2, <1>4, <2>1, <3>1
    <2>2. CASE \E b \in C \ {f} : l = <<"block", b>>
      <3>1. PICK b \in C \ {f} : l = <<"block", b>>
        BY <2>2
      <3>2. l # place /\ "block" # "header" /\ b \in Blocks' /\ b \in Free'
        BY <1>6, <3>1
      <3>3. Target(l)' = Chunk(s)[b] /\ SizeOf(l)' = s /\ l \in Links' /\ Base(l) = b
        BY <1>3, <1>6, <1>9, <3>1, <3>2 DEF Links, Target, SizeOf
      <3> QED BY <1>4, <3>3
    <2> QED BY <2>1, <2>2
  <1>13. \A l, m \in News : Base(l) = Base(m) => l = m
    OBVIOUS
  <1>14. \A l \in Links' : l \in News \/ (l \in Links \ {place} /\ Target(l)' = Target(l) /\ SizeOf(l)' = SizeOf(l))
    <2> SUFFICES ASSUME NEW l \in Links', l \notin News
                 PROVE  l \in Links \ {place} /\ Target(l)' = Target(l) /\ SizeOf(l)' = SizeOf(l)
      OBVIOUS
    <2>1. CASE \E d \in Classes : l = <<"header", d>>
      <3>1. PICK d \in Classes : l = <<"header", d>> /\ d # c
        BY <2>1
      <3> QED BY <1>0, <1>3, <3>1 DEF Links, Target, SizeOf
    <2>2. CASE \E b \in Free' : l = <<"block", b>>
      <3>1. PICK b \in Free : l = <<"block", b>>
        BY <1>6, <2>2
      <3>2. b \in Blocks /\ b \notin C /\ b # f /\ b \in Blocks'
        BY <1>2, <1>5, <1>6, <3>1 DEF Free
      <3> QED BY <1>3, <1>6, <1>9, <3>1, <3>2 DEF Links, Target, SizeOf
    <2> QED BY <2>1, <2>2 DEF Links
  <1>15. \A l \in Links \ {place} : l \in Links' /\ Target(l)' = Target(l)
    <2> TAKE l \in Links \ {place}
    <2>1. CASE \E d \in Classes : l = <<"header", d>>
      <3>1. PICK d \in Classes : l = <<"header", d>> /\ d # c
        BY <2>1
      <3> QED BY <1>0, <1>3, <3>1 DEF Links, Target
    <2>2. CASE \E b \in Free : l = <<"block", b>>
      <3>1. PICK b \in Free : l = <<"block", b>>
        BY <2>2
      <3>2. b \in Blocks /\ b \notin C /\ b # f
        BY <1>2, <1>5, <3>1 DEF Free
      <3> QED BY <1>3, <1>6, <3>1, <3>2 DEF Links, Target
    <2> QED BY <2>1, <2>2 DEF Links
  <1>16. Target(place) = NULL
    BY DEF Target, Carves
  <1> HIDE DEF News, Base, place
  <1>17. FreeListsAreSound'
    <2>1. ASSUME NEW b \in live' PROVE word'[b] = cut'[b]
      <3>1. CASE b = f
        BY <1>2, <1>3, <1>6, <1>9, <3>1
      <3>2. CASE b # f
        BY <1>0, <1>3, <1>5, <1>6, <1>9, <3>2 DEF HeapInv, FreeListsAreSound
      <3> QED BY <3>1, <3>2
    <2>2. ASSUME NEW l \in Links \ {place}, Target(l) # NULL
          PROVE  Target(l) \in Free /\ cut[Target(l)] = SizeOf(l) /\ Target(l) \in Blocks
      BY <2>2 DEF HeapInv, FreeListsAreSound, Free
    <2>3. ASSUME NEW l \in News, Target(l)' # NULL
          PROVE  Target(l)' = Base(l) + s /\ Target(l)' \in C /\ Target(l)' # f
      <3>1. Base(l) \in C /\ Target(l)' = Base(l) + s /\ Base(l) + s < E
        BY <1>12, <2>3
      <3>2. Base(l) \in Nat /\ Base(l) >= f /\ Base(l) + s \in C
        BY <1>2, <3>1
      <3> QED BY <1>0, <1>1, <3>1, <3>2
    <2>4. ASSUME NEW l \in Links', Target(l)' # NULL
          PROVE  Target(l)' \in Free' /\ cut'[Target(l)'] = SizeOf(l)'
      <3>1. CASE l \in News
        BY <1>6, <1>9, <1>12, <2>3, <2>4, <3>1
      <3>2. CASE l \notin News
        BY <1>5, <1>6, <1>9, <1>14, <2>2, <2>4, <3>2
      <3> QED BY <3>1, <3>2
    <2>5. ASSUME NEW l \in Links', NEW m \in Links', Target(l)' # NULL, Target(l)' = Target(m)'
          PROVE  l = m
      <3>1. CASE l \in News /\ m \in News
        <4>1. Base(l) + s = Base(m) + s /\ Base(l) \in Nat /\ Base(m) \in Nat
          BY <1>2, <1>12, <2>3, <2>5, <3>1
        <4> QED BY <1>1, <1>13, <3>1, <4>1
      <3>2. CASE l \notin News /\ m \notin News
        BY <1>14, <2>5, <3>2 DEF HeapInv, FreeListsAreSound
      <3>3. CASE l \in News /\ m \notin News
        BY <1>5, <1>14, <2>2, <2>3, <2>5, <3>3
      <3>4. CASE l \notin News /\ m \in News
        BY <1>5, <1>14, <2>2, <2>3, <2>5, <3>4
      <3> QED BY <3>1, <3>2, <3>3, <3>4
    <2> QED BY <2>1, <2>4, <2>5 DEF FreeListsAreSound
  <1>18. NoBlockIsLost'
    <2> SUFFICES ASSUME NEW b \in Free' PROVE \E l \in Links' : Target(l)' = b
      BY DEF NoBlockIsLost
    <2>1. CASE b \in Free
      <3>1. PICK l \in Links : Target(l) = b
        BY <2>1 DEF HeapInv, NoBlockIsLost
      <3>2. b # NULL
        BY <1>0, <1>7, <2>1 DEF HeapInv, BlocksOK, Free
      <3> QED BY <1>15, <1>16, <3>1, <3>2
    <2>2. CASE b \in C \ {f}
      <3>1. b - s \in C /\ b \in Nat /\ b + s <= E /\ (b - s) + s = b
        BY <1>1, <1>2, <2>2
      <3>2. b < E
        BY <1>1, <1>2, <3>1
      <3>3. \E l \in News : Base(l) = b - s
        <4>1. CASE b - s = f
          BY <4>1 DEF News, Base
        <4>2. CASE b - s # f
          <5>1. <<"block", b - s>> \in News /\ Base(<<"block", b - s>>) = b - s
            BY <3>1, <4>2 DEF News, Base, place
          <5> QED BY <5>1
        <4> QED BY <4>1, <4>2
      <3>4. PICK l \in News : Base(l) = b - s
        BY <3>3
      <3>5. l \in Links' /\ Target(l)' = b
        BY <1>12, <3>1, <3>2, <3>4
      <3> QED BY <3>5
    <2> QED BY <1>6, <2>1, <2>2
  <1> QED BY <1>0, <1>5, <1>8, <1>10, <1>11, <1>17, <1>18 DEF HeapInv, f

\* A block that is released becomes the first of the free list of its class.
LEMMA ReleasedKeeps ==
  ASSUME HeapInv, NEW block \in live, Release(block + Word)
  PROVE  HeapInv' /\ live' = live \ {block}
  <1>0. /\ header \in [Classes -> Nat] /\ word \in [Blocks -> Nat] /\ cut \in [Blocks -> Nat]
        /\ live \subseteq Blocks /\ freeSpace \in Nat
    BY DEF HeapInv, HeapTypeOK
  <1>1. block \in Blocks /\ block \in Nat /\ block >= HeapStart /\ HeapStart \in Nat \ {0}
    BY <1>0, AllocatorAssumption DEF HeapInv, BlocksOK
  <1>2. PICK c \in Classes : c >= 1 /\ cut[block] = c * Step
    BY <1>1 DEF HeapInv, BlocksOK
  <1>3. word[block] = c * Step
    BY <1>2 DEF HeapInv, FreeListsAreSound
  <1>4. (block + Word) - Word = block
    BY <1>1, AllocatorAssumption
  <1>5. /\ word' = [word EXCEPT ![block] = header[c]] /\ header' = [header EXCEPT ![c] = block]
        /\ live' = live \ {block} /\ UNCHANGED <<freeSpace, initialized, cut>>
    BY <1>3, <1>4, ReleaseClassIs DEF Release
  <1> DEFINE link == <<"block", block>>
             place == <<"header", c>>
             Old(l) == IF l = link THEN place ELSE l
  <1>6. Blocks' = Blocks /\ Free' = Free \cup {block} /\ block \notin Free
    BY <1>0, <1>1, <1>5 DEF Blocks, Free
  <1>7. HeapTypeOK'
    BY <1>0, <1>1, <1>5, <1>6 DEF HeapInv, HeapTypeOK
  <1>8. BlocksOK' /\ BlocksNeverOverlap'
    BY <1>0, <1>1, <1>5, <1>6 DEF HeapInv, BlocksOK, BlocksNeverOverlap
  <1>9. Target(place)' = block /\ SizeOf(place)' = cut[block] /\ place \in Links'
    BY <1>0, <1>2, <1>5 DEF Target, SizeOf, Links
  <1>10. \A l \in Links' : l # place => /\ Old(l) \in Links /\ Target(l)' = Target(Old(l))
                                        /\ SizeOf(l)' = SizeOf(Old(l))
    <2> SUFFICES ASSUME NEW l \in Links', l # place
                 PROVE  Old(l) \in Links /\ Target(l)' = Target(Old(l)) /\ SizeOf(l)' = SizeOf(Old(l))
      OBVIOUS
    <2>1. CASE \E d \in Classes : l = <<"header", d>>
      <3>1. PICK d \in Classes : l = <<"header", d>> /\ d # c
        BY <2>1
      <3>2. l # link /\ l \in Links
        BY <3>1 DEF Links
      <3> QED BY <1>0, <1>5, <3>1, <3>2 DEF Target, SizeOf
    <2>2. CASE \E b \in Free' : l = <<"block", b>>
      <3>1. PICK b \in Free' : l = <<"block", b>>
        BY <2>2
      <3>2. CASE b = block
        <4>1. l = link /\ place \in Links /\ Target(place) = header[c] /\ SizeOf(place) = c * Step
          BY <3>1, <3>2 DEF Links, Target, SizeOf
        <4> QED BY <1>0, <1>1, <1>2, <1>5, <4>1 DEF Target, SizeOf
      <3>3. CASE b # block
        <4>1. b \in Free /\ b \in Blocks /\ l # link /\ l \in Links
          BY <1>6, <3>1, <3>3 DEF Links, Free
        <4> QED BY <1>0, <1>5, <3>1, <3>3, <4>1 DEF Target, SizeOf
      <3> QED BY <3>2, <3>3
    <2> QED BY <2>1, <2>2 DEF Links
  <1>11. \A l, m \in Links' : l # place /\ m # place /\ Old(l) = Old(m) => l = m
    OBVIOUS
  <1>12. \A l \in Links : l # place => l \in Links' /\ l # link
    BY <1>6 DEF Links
  <1>13. link \in Links' /\ link # place
    BY <1>6 DEF Links
  <1>14. Target(place) = header[c]
    BY DEF Target
  <1>15. \A l \in Links : Target(l) # NULL => Target(l) \in Free /\ Target(l) # block
    BY <1>6 DEF HeapInv, FreeListsAreSound
  <1>16. block # NULL
    BY <1>1 DEF NULL
  <1> HIDE DEF Old, place, link
  <1>17. FreeListsAreSound'
    <2>1. ASSUME NEW b \in live' PROVE word'[b] = cut'[b]
      BY <1>0, <1>5 DEF HeapInv, FreeListsAreSound
    <2>2. ASSUME NEW l \in Links', Target(l)' # NULL
          PROVE  Target(l)' \in Free' /\ cut'[Target(l)'] = SizeOf(l)'
      <3>1. CASE l = place
        BY <1>5, <1>6, <1>9, <3>1
      <3>2. CASE l # place
        BY <1>5, <1>6, <1>10, <2>2, <3>2 DEF HeapInv, FreeListsAreSound
      <3> QED BY <3>1, <3>2
    <2>3. ASSUME NEW l \in Links', NEW m \in Links', Target(l)' # NULL, Target(l)' = Target(m)'
          PROVE  l = m
      <3>1. CASE l # place /\ m # place
        BY <1>10, <1>11, <2>3, <3>1 DEF HeapInv, FreeListsAreSound
      <3>2. CASE l = place /\ m # place
        BY <1>9, <1>10, <1>15, <1>16, <2>3, <3>2
      <3>3. CASE l # place /\ m = place
        BY <1>9, <1>10, <1>15, <1>16, <2>3, <3>3
      <3> QED BY <3>1, <3>2, <3>3
    <2> QED BY <2>1, <2>2, <2>3 DEF FreeListsAreSound
  <1>18. NoBlockIsLost'
    <2> SUFFICES ASSUME NEW b \in Free' PROVE \E l \in Links' : Target(l)' = b
      BY DEF NoBlockIsLost
    <2>1. CASE b = block
      BY <1>9, <2>1
    <2>2. CASE b # block
      <3>1. PICK l \in Links : Target(l) = b
        BY <1>6, <2>2 DEF HeapInv, NoBlockIsLost
      <3>2. CASE l = place
        <4>1. Old(link) = place
          BY DEF Old
        <4> QED BY <1>10, <1>13, <3>1, <3>2, <4>1
      <3>3. CASE l # place
        <4>1. l \in Links' /\ Old(l) = l
          BY <1>12, <3>3 DEF Old
        <4> QED BY <1>10, <3>1, <3>3, <4>1
      <3> QED BY <3>2, <3>3
    <2> QED BY <2>1, <2>2
  <1> QED BY <1>5, <1>7, <1>8, <1>17, <1>18 DEF HeapInv

LEMMA HeadersAre == HeapInv => Headers = header
  <1> SUFFICES ASSUME HeapInv, ~initialized PROVE [c \in Classes |-> NULL] = header
    BY DEF Headers
  <1>1. header \in [Classes -> Nat] /\ \A c \in Classes : header[c] = NULL
    BY DEF HeapInv, HeapTypeOK, BlocksOK
  <1> QED BY <1>1

\* A request keeps the heap in order, whatever its size; one that is answered
\* makes a block live that was not.
LEMMA AllocatedKeeps ==
  ASSUME HeapInv, NEW size \in Int, Allocate(size)
  PROVE  /\ HeapInv'
         /\ Refused(size) => live' = live
         /\ ~Refused(size) => /\ live' = live \cup {NextBlock(size)} /\ NextBlock(size) \notin live
                              /\ NextBlock(size) \in Nat /\ NextBlock(size) >= HeapStart
                              /\ Pointer(size) = NextBlock(size) + Word
  <1> DEFINE c == Class(size)
             s == Aligned(size)
             block == NextBlock(size)
  <1>1. Headers = header
    BY HeadersAre
  <1>2. initialized' = TRUE
    BY DEF Allocate, Initialized
  <1>3. CASE Refused(size)
    <2>1. header' = header /\ UNCHANGED <<word, freeSpace, cut, live>>
      BY <1>1, <1>3 DEF Allocate
    <2>2. Blocks' = Blocks /\ Free' = Free
      BY <2>1 DEF Blocks, Free
    <2>3. HeapTypeOK' /\ BlocksOK' /\ BlocksNeverOverlap'
      BY <1>2, <2>1, <2>2 DEF HeapInv, HeapTypeOK, BlocksOK, BlocksNeverOverlap
    <2>4. Links' = Links /\ \A l : Target(l)' = Target(l) /\ SizeOf(l)' = SizeOf(l)
      BY <2>1, <2>2 DEF Links, Target, SizeOf
    <2>5. FreeListsAreSound' /\ NoBlockIsLost'
      BY <2>1, <2>2, <2>4 DEF HeapInv, FreeListsAreSound, NoBlockIsLost
    <2> QED BY <1>3, <2>1, <2>3, <2>5 DEF HeapInv
  <1>4. CASE ~Refused(size)
    <2>1. c \in Classes /\ c >= 1 /\ s = c * Step
      BY <1>4, SizeIs
    <2>2. Pointer(size) = block + Word
      BY <1>4 DEF Pointer
    <2>3. CASE header[c] = NULL
      <3>1. block = freeSpace
        BY <1>1, <2>3 DEF NextBlock
      <3>2. freeSpace \in Carved(s)
        <4>1. s \in Nat \ {0} /\ freeSpace \in Nat
          BY <1>4, SizeIs, AllocatorAssumption DEF HeapInv, HeapTypeOK
        <4> QED BY <4>1, ChunkIs
      <3> DEFINE words == [b \in DOMAIN word \cup Carved(s) |-> IF b \in Carved(s) THEN Chunk(s)[b] ELSE word[b]]
      <3>3. /\ header' = [header EXCEPT ![c] = words[freeSpace]] /\ word' = [words EXCEPT ![freeSpace] = s]
            /\ freeSpace' = ChunkEnd(s) /\ live' = live \cup {freeSpace}
            /\ cut' = [b \in DOMAIN cut \cup Carved(s) |-> IF b \in Carved(s) THEN s ELSE cut[b]]
        <4> HIDE DEF c, s
        <4> QED BY <1>1, <1>4, <2>3, <3>1 DEF Allocate, c, s
      <3> HIDE DEF c, s, block
      <3>4. words[freeSpace] = Chunk(s)[freeSpace]
        BY <3>2
      <3>5. word' = [b \in Blocks \cup Carved(s) |->
                       IF b = freeSpace THEN s ELSE IF b \in Carved(s) THEN Chunk(s)[b] ELSE word[b]]
        BY <3>2, <3>3 DEF Blocks
      <3>6. DOMAIN cut = Blocks
        BY DEF HeapInv, HeapTypeOK
      <3>7. Carves(c, s)
        BY <1>2, <2>1, <2>3, <3>3, <3>4, <3>5, <3>6 DEF Carves
      <3>8. HeapInv' /\ freeSpace \notin live /\ freeSpace \in Nat /\ freeSpace >= HeapStart
        BY <2>1, <3>7, CarvedKeeps
      <3> QED BY <1>4, <2>2, <3>1, <3>3, <3>8 DEF block
    <2>4. CASE header[c] # NULL
      <3>1. block = header[c]
        BY <1>1, <2>4 DEF NextBlock
      <3>2. /\ header' = [header EXCEPT ![c] = word[block]] /\ word' = [word EXCEPT ![block] = s]
            /\ UNCHANGED <<freeSpace, cut>> /\ live' = live \cup {block}
        BY <1>1, <1>4, <2>4 DEF Allocate
      <3> HIDE DEF c, s, block
      <3>3. HeapInv' /\ block \notin live /\ block \in Nat /\ block >= HeapStart
        BY <1>2, <2>1, <2>4, <3>1, <3>2, UnlinkedKeeps
      <3> QED BY <1>4, <2>2, <3>2, <3>3 DEF block
    <2> QED BY <2>3, <2>4
  <1> QED BY <1>3, <1>4

LEMMA HeapKeeps == HeapInv /\ [NextHeap]_heapVars => HeapInv'
  <1> SUFFICES ASSUME HeapInv, [NextHeap]_heapVars PROVE HeapInv'
    OBVIOUS
  <1>1. CASE \E size \in Sizes : Allocate(size)
    <2>1. PICK size \in Sizes : Allocate(size)
      BY <1>1
    <2>2. size \in Int
      BY AllocatorAssumption
    <2> QED BY <2>1, <2>2, AllocatedKeeps
  <1>2. CASE \E block \in live : Release(block + Word)
    BY <1>2, ReleasedKeeps
  <1>3. CASE UNCHANGED heapVars
    <2>1. UNCHANGED <<header, word, freeSpace, initialized, cut, live>>
      BY <1>3 DEF heapVars
    <2>2. Blocks' = Blocks /\ Free' = Free
      BY <2>1 DEF Blocks, Free
    <2>3. Links' = Links /\ \A l : Target(l)' = Target(l) /\ SizeOf(l)' = SizeOf(l)
      BY <2>1, <2>2 DEF Links, Target, SizeOf
    <2> QED BY <2>1, <2>2, <2>3 DEF HeapInv, HeapTypeOK, BlocksOK, BlocksNeverOverlap, FreeListsAreSound, NoBlockIsLost
  <1> QED BY <1>1, <1>2, <1>3 DEF NextHeap

\* Whatever a program asks for and gives back, in any order: blocks never
\* overlap, the free lists lead to free blocks of their own size and never meet,
\* and every free block is in one (allocate, release).
THEOREM HeapStaysSound == SpecHeap => [](BlocksNeverOverlap /\ FreeListsAreSound /\ NoBlockIsLost)
  <1>1. HeapInv => BlocksNeverOverlap /\ FreeListsAreSound /\ NoBlockIsLost
    BY DEF HeapInv
  <1> QED BY <1>1, HeapStarts, HeapKeeps, PTL DEF SpecHeap

-----------------------------------------------------------------------------
(* Bits *)

LEMMA OneHotIs ==
  /\ OneHot[0] = 1 /\ 0 \in 0..TopBit /\ TopBit \in 0..TopBit
  /\ \A k \in 0..TopBit : OneHot[k] \in Nat
  /\ \A k \in 1..TopBit : k \in 0..TopBit /\ k - 1 \in 0..TopBit /\ OneHot[k] = 2 * OneHot[k - 1]
  <1> DEFINE step == [k \in 1..TopBit |-> [x \in Nat |-> 2 * x]]
  <1>1. TopBit \in Nat
    BY RadixAssumption
  <1>2. step \in Turns(TopBit, Nat) /\ 1 \in Nat
    BY DEF Turns
  <1>3. \A k \in 1..TopBit, x \in Nat : step[k][x] = 2 * x
    OBVIOUS
  <1> HIDE DEF step
  <1>4. PICK f \in [0..TopBit -> Nat] : IsRun(f, TopBit, 1, step)
    BY <1>1, <1>2, LoopExists
  <1>5. \A k \in 1..TopBit : k \in 0..TopBit /\ k - 1 \in 0..TopBit /\ k # 0
    BY <1>1
  <1>6. f[0] = 1 /\ \A k \in 1..TopBit : f[k] = 2 * f[k - 1]
    BY <1>3, <1>4, <1>5 DEF IsRun
  <1>7. f = [k \in 0..TopBit |-> IF k = 0 THEN 1 ELSE 2 * f[k - 1]]
    <2>1. \A k \in 0..TopBit : k = 0 \/ k \in 1..TopBit
      BY <1>1
    <2>2. \A k \in 0..TopBit : f[k] = IF k = 0 THEN 1 ELSE 2 * f[k - 1]
      BY <1>6, <2>1
    <2> QED BY <2>2
  <1>8. OneHot = [k \in 0..TopBit |-> IF k = 0 THEN 1 ELSE 2 * OneHot[k - 1]]
    <2> DEFINE Is(g) == g = [k \in 0..TopBit |-> IF k = 0 THEN 1 ELSE 2 * g[k - 1]]
    <2>1. \E g : Is(g)
      BY <1>7
    <2>2. OneHot = CHOOSE g : Is(g)
      BY DEF OneHot
    <2> HIDE DEF Is
    <2>3. Is(OneHot)
      BY <2>1, <2>2
    <2> QED BY <2>3 DEF Is
  <1>9. OneHot[0] = 1 /\ \A k \in 1..TopBit : OneHot[k] = 2 * OneHot[k - 1]
    <2>1. 0 \in 0..TopBit
      BY <1>1
    <2> QED BY <1>5, <1>8, <2>1
  <1> DEFINE T == {k \in 0..TopBit : OneHot[k] \in Nat}
  <1>10. 0..TopBit \subseteq T
    <2>1. 0 \in T
      BY <1>1, <1>9
    <2>2. ASSUME NEW k \in 0..(TopBit - 1), k \in T PROVE k + 1 \in T
      <3>1. k + 1 \in 1..TopBit /\ k + 1 \in 0..TopBit /\ (k + 1) - 1 = k
        BY <1>1
      <3> QED BY <1>9, <2>2, <3>1
    <2> HIDE DEF T
    <2> QED BY <1>1, <2>1, <2>2, InductionUpTo
  <1> QED BY <1>1, <1>5, <1>9, <1>10

\* A position is twice the one below it, and there is none in between.
LEMMA OneHotGrows ==
  ASSUME NEW j \in 0..TopBit, NEW k \in 0..TopBit, j < k
  PROVE  2 * OneHot[j] <= OneHot[k] /\ OneHot[j] >= 1
  <1>1. TopBit \in Nat
    BY RadixAssumption
  <1> DEFINE S == {n \in 0..TopBit : OneHot[n] >= 1}
             T == {n \in 0..TopBit : n > j => 2 * OneHot[j] <= OneHot[n]}
  <1>2. 0..TopBit \subseteq S
    <2>1. 0 \in S
      BY OneHotIs
    <2>2. ASSUME NEW n \in 0..(TopBit - 1), n \in S PROVE n + 1 \in S
      <3>1. n + 1 \in 1..TopBit /\ (n + 1) - 1 = n /\ n + 1 \in 0..TopBit /\ n \in 0..TopBit
        BY <1>1
      <3>2. OneHot[n + 1] = 2 * OneHot[n] /\ OneHot[n] \in Nat
        BY <3>1, OneHotIs
      <3> QED BY <2>2, <3>1, <3>2
    <2> HIDE DEF S
    <2> QED BY <1>1, <2>1, <2>2, InductionUpTo
  <1>3. 0..TopBit \subseteq T
    <2>1. 0 \in T
      BY <1>1
    <2>2. ASSUME NEW n \in 0..(TopBit - 1), n \in T PROVE n + 1 \in T
      <3>1. n + 1 \in 1..TopBit /\ (n + 1) - 1 = n /\ n + 1 \in 0..TopBit /\ n \in 0..TopBit
        BY <1>1
      <3>2. OneHot[n + 1] = 2 * OneHot[n] /\ OneHot[n] \in Nat /\ OneHot[n] >= 1 /\ OneHot[j] \in Nat
        BY <1>2, <3>1, OneHotIs
      <3>3. CASE n = j
        BY <3>1, <3>2, <3>3
      <3>4. CASE n < j
        BY <1>1, <3>1, <3>4
      <3>5. CASE n > j
        BY <2>2, <3>1, <3>2, <3>5
      <3> QED BY <1>1, <3>3, <3>4, <3>5
    <2> HIDE DEF T
    <2> QED BY <1>1, <2>1, <2>2, InductionUpTo
  <1> QED BY <1>2, <1>3

LEMMA PositionIs ==
  ASSUME NEW x \in Positions
  PROVE  /\ x \in Nat /\ x >= 1 /\ x <= MaxBits /\ MaxBits \in Positions /\ MaxBits \in Nat
         /\ 1 \in Positions
         /\ x > 1 => x \div 2 \in Positions /\ 2 * (x \div 2) = x
         /\ \A y \in Positions : x < y => 2 * x <= y
  <1>1. PICK k \in 0..TopBit : x = OneHot[k]
    BY DEF Positions
  <1>2. TopBit \in Nat /\ MaxBits = OneHot[TopBit] /\ OneHot[TopBit] \in Nat /\ x \in Nat
    BY <1>1, OneHotIs, RadixAssumption DEF MaxBits
  <1>3. x >= 1 /\ x <= MaxBits
    <2>1. CASE k = TopBit
      <3>1. TopBit = 0 => OneHot[TopBit] = 1
        BY OneHotIs
      <3>2. TopBit # 0 => 2 * OneHot[0] <= OneHot[TopBit]
        <4>1. TopBit # 0 => 0 < TopBit
          BY <1>2
        <4> QED BY <4>1, OneHotIs, OneHotGrows
      <3> QED BY <1>1, <1>2, <2>1, <3>1, <3>2, OneHotIs
    <2>2. CASE k < TopBit
      <3>1. 2 * OneHot[k] <= OneHot[TopBit] /\ OneHot[k] >= 1
        BY <2>2, OneHotIs, OneHotGrows
      <3> QED BY <1>1, <1>2, <3>1
    <2> QED BY <1>2, <2>1, <2>2
  <1>4. MaxBits \in Positions /\ 1 \in Positions
    BY OneHotIs DEF Positions, MaxBits
  <1>5. ASSUME x > 1 PROVE x \div 2 \in Positions /\ 2 * (x \div 2) = x
    <2>1. k # 0
      BY <1>1, <1>5, OneHotIs
    <2>2. k \in 1..TopBit
      BY <1>2, <2>1
    <2>3. k - 1 \in 0..TopBit /\ x = 2 * OneHot[k - 1] /\ OneHot[k - 1] \in Nat
      BY <1>1, <2>2, OneHotIs
    <2>4. x \div 2 = OneHot[k - 1]
      BY <2>3
    <2> QED BY <2>3, <2>4 DEF Positions
  <1>6. ASSUME NEW y \in Positions, x < y PROVE 2 * x <= y
    <2>1. PICK j \in 0..TopBit : y = OneHot[j]
      BY DEF Positions
    <2>2. y \in Nat
      BY <2>1, OneHotIs
    <2>3. CASE k < j
      BY <1>1, <2>1, <2>3, OneHotGrows
    <2>4. CASE j < k
      <3>1. 2 * y <= x /\ y >= 1
        BY <1>1, <2>1, <2>4, OneHotGrows
      <3> QED BY <1>2, <1>6, <2>2, <3>1
    <2>5. CASE j = k
      BY <1>1, <1>2, <1>6, <2>1, <2>5
    <2> QED BY <1>2, <2>3, <2>4, <2>5
  <1> QED BY <1>2, <1>3, <1>4, <1>5, <1>6

\* Two numbers agree from a bit on if they agree above it and in it.
LEMMA AgreeHere ==
  ASSUME NEW a \in Nat, NEW b \in Nat, NEW x \in Nat \ {0}
  PROVE  a \div x = b \div x <=> a \div (2 * x) = b \div (2 * x) /\ (Set(a, x) <=> Set(b, x))
  <1>1. /\ a \div (2 * x) = (a \div x) \div 2 /\ b \div (2 * x) = (b \div x) \div 2
        /\ a \div x \in Nat /\ b \div x \in Nat
    OBVIOUS
  <1> DEFINE c == a \div x
             d == b \div x
  <1>2. c \in Nat /\ d \in Nat
    BY <1>1
  <1> HIDE DEF c, d
  <1>3. c = d <=> c \div 2 = d \div 2 /\ (c % 2 = 1 <=> d % 2 = 1)
    BY <1>2
  <1> QED BY <1>1, <1>3 DEF Set, c, d

LEMMA AgreeBelow ==
  ASSUME NEW a \in Nat, NEW b \in Nat, NEW P \in Positions, NEW Q \in Positions, Q <= P,
         a \div (2 * P) = b \div (2 * P),
         \A x \in Positions : Q < x /\ x <= P => (Set(a, x) <=> Set(b, x))
  PROVE  a \div (2 * Q) = b \div (2 * Q)
  <1>1. PICK k \in 0..TopBit, j \in 0..TopBit : P = OneHot[k] /\ Q = OneHot[j]
    BY DEF Positions
  <1>2. TopBit \in Nat /\ P \in Nat /\ Q \in Nat
    BY PositionIs, RadixAssumption
  <1>3. j <= k
    <2> SUFFICES ASSUME k < j PROVE FALSE
      BY <1>2
    <2>1. 2 * P <= Q /\ P >= 1
      BY <1>1, OneHotGrows
    <2> QED BY <1>2, <2>1
  <1> DEFINE T == {m \in 0..(k - j) : a \div (2 * OneHot[k - m]) = b \div (2 * OneHot[k - m])}
  <1>4. k - j \in Nat
    BY <1>2, <1>3
  <1>5. 0 \in T
    <2>1. 0 \in 0..(k - j) /\ k - 0 = k
      BY <1>2, <1>4
    <2> QED BY <1>1, <2>1
  <1>6. ASSUME NEW m \in 0..((k - j) - 1), m \in T PROVE m + 1 \in T
    <2> DEFINE x == OneHot[k - m]
    <2>1. /\ k - m \in 0..TopBit /\ k - m \in 1..TopBit /\ j < k - m /\ m + 1 \in 0..(k - j)
          /\ k - (m + 1) = (k - m) - 1 /\ m \in Nat
      BY <1>2, <1>4
    <2>2. x \in Positions
      BY <2>1 DEF Positions
    <2>3. x \in Nat \ {0}
      BY <2>2, PositionIs
    <2>4. Q < x
      <3>1. 2 * Q <= x /\ Q >= 1
        BY <1>1, <2>1, OneHotGrows
      <3> QED BY <1>2, <2>3, <3>1
    <2>5. x <= P
      <3>1. CASE m = 0
        BY <1>1, <1>2, <2>3, <3>1
      <3>2. CASE m # 0
        <4>1. k - m < k
          BY <1>2, <2>1, <3>2
        <4>2. 2 * x <= P
          BY <1>1, <2>1, <4>1, OneHotGrows
        <4> QED BY <1>2, <2>3, <4>2
      <3> QED BY <3>1, <3>2
    <2>6. a \div (2 * x) = b \div (2 * x)
      BY <1>6
    <2>7. a \div x = b \div x
      BY <2>2, <2>3, <2>4, <2>5, <2>6, AgreeHere
    <2>8. x = 2 * OneHot[k - (m + 1)]
      BY <2>1, OneHotIs
    <2> QED BY <2>1, <2>7, <2>8
  <1>7. k - j \in T
    <2> HIDE DEF T
    <2>1. 0..(k - j) \subseteq T
      BY <1>4, <1>5, <1>6, InductionUpTo
    <2> QED BY <1>4, <2>1
  <1>8. k - (k - j) = j
    BY <1>2
  <1> QED BY <1>1, <1>7, <1>8

LEMMA HighestIs ==
  ASSUME NEW S \in SUBSET Positions, S # {}
  PROVE  Max(S) \in S /\ \A x \in S : x <= Max(S)
  <1> DEFINE T == {k \in 0..TopBit : OneHot[TopBit - k] \in S}
  <1>1. TopBit \in Nat
    BY RadixAssumption
  <1>2. T \in SUBSET Nat /\ T # {}
    <2>1. PICK k \in 0..TopBit : OneHot[k] \in S
      BY DEF Positions
    <2>2. TopBit - k \in 0..TopBit /\ TopBit - (TopBit - k) = k
      BY <1>1
    <2>3. TopBit - k \in T
      BY <2>1, <2>2
    <2> QED BY <2>3
  <1>3. PICK m \in T : \A n \in T : m <= n
    <2> HIDE DEF T
    <2> QED BY <1>2, LeastNumber
  <1> DEFINE x == OneHot[TopBit - m]
  <1>4. x \in S
    BY <1>3
  <1>5. ASSUME NEW y \in S PROVE x >= y
    <2>1. PICK k \in 0..TopBit : y = OneHot[k]
      BY DEF Positions
    <2>2. TopBit - k \in 0..TopBit /\ TopBit - (TopBit - k) = k
      BY <1>1
    <2>3. m <= TopBit - k
      BY <1>3, <2>1, <2>2
    <2>4. k <= TopBit - m /\ TopBit - m \in 0..TopBit
      BY <1>1, <1>3, <2>3
    <2>5. x \in Nat /\ y \in Nat
      BY <1>4, PositionIs
    <2>6. CASE k = TopBit - m
      BY <2>1, <2>5, <2>6
    <2>7. CASE k < TopBit - m
      <3>1. 2 * y <= x /\ y >= 1
        BY <2>1, <2>4, <2>7, OneHotGrows
      <3> QED BY <2>5, <3>1
    <2> QED BY <1>1, <2>4, <2>6, <2>7
  <1>6. \E z \in S : \A y \in S : z >= y
    BY <1>4, <1>5
  <1>7. Max(S) \in S /\ \A y \in S : Max(S) >= y
    BY <1>6 DEF Max
  <1> QED BY <1>7, PositionIs

-----------------------------------------------------------------------------
(* The tree *)

Frames == [place : {Root} \cup (Nat \X {"zero", "one"}), at : {"enter", "one", "leave"}]

\* The sides of a node that a call has gone down.
Called(at) == CASE at = "enter" -> {} [] at = "one" -> {"zero"} [] at = "leave" -> {"zero", "one"}

\* While the tree is released: the places whose subtrees have been.
Done ==
  IF pc \notin {"release", "end"} THEN {}
  ELSE IF stack = << >> THEN {Root}
  ELSE {f \in Places : \E i \in DOMAIN stack : f[1] = Deref(stack[i].place) /\ f[2] \in Called(stack[i].at)}
         \ {stack[i].place : i \in DOMAIN stack}

Active == Places \ Done

\* The active places lead to the live nodes, one to each.
Joined ==
  /\ \A f \in Active : Deref(f) = NULL \/ Deref(f) \in LiveNodes
  /\ \A f, g \in Active : Deref(f) # NULL /\ Deref(f) = Deref(g) => f = g
  /\ \A p \in LiveNodes : \E f \in Active : Deref(f) = p

\* A number that is in the range of a node and on that side of it.
Fits(n, up, side) ==
  n \div (2 * up.bit) = up.number \div (2 * up.bit) /\ Side(n, up.bit) = side

Ordered ==
  \A f \in Active \ {Root} : Deref(f) # NULL =>
    node[Deref(f)].bit < node[f[1]].bit /\ Fits(node[Deref(f)].number, node[f[1]], f[2])

\* add_number has come to a place where its number belongs.
AddOK ==
  pc = "add" =>
    /\ parent \in Places
    /\ parent = Root => bitPos = MaxBits
    /\ parent # Root => node[parent[1]].bit = 2 * bitPos /\ Fits(number, node[parent[1]], parent[2])

\* The frames, innermost first, lead down from the root.
FrameOK(i) ==
  LET f == stack[i]
      p == Deref(f.place)
  IN  /\ f.place \in Active
      /\ i = Len(stack) => f.place = Root
      /\ f.at # "enter" => p # NULL
      /\ f.at = "one" => node[p].bit > 1
      /\ i > 1 => /\ p # NULL /\ node[p].bit > 1
                  /\ \/ f.at = "one" /\ stack[i - 1].place = <<p, "zero">>
                     \/ f.at = "leave" /\ stack[i - 1].place = <<p, "one">>
      /\ \A j \in DOMAIN stack : i < j /\ p # NULL => node[p].bit < node[Deref(stack[j].place)].bit

StackOK ==
  /\ stack \in Seq(Frames)
  /\ pc \in {"read", "add", "end"} => stack = << >>
  /\ \A i \in DOMAIN stack : FrameOK(i)

RadixInv == TypeOK /\ HeapInv /\ Joined /\ Ordered /\ AddOK /\ StackOK /\ (pc = "take" => Len(buffer) <= limit)

-----------------------------------------------------------------------------
(* Steps of the tree *)

Content == [bit : Positions, number : Numbers, zero : Nat, one : Nat]

\* The nodes that are live before and after a step keep their place in the order.
Same(p) == node'[p].bit = node[p].bit /\ node'[p].number = node[p].number

LEMMA LiveIs ==
  ASSUME TypeOK, HeapInv
  PROVE  /\ NULL \notin LiveNodes /\ LiveNodes \subseteq DOMAIN node /\ LiveNodes \subseteq Nat
         /\ \A p \in LiveNodes : /\ node[p] \in Content /\ node[p].bit \in Positions /\ node[p].number \in Nat
                                 /\ node[p].bit \in Nat /\ node[p].bit >= 1
                                 /\ \E b \in live : p = b + Word
         /\ \A b \in live : b + Word \in LiveNodes
         /\ \A b, d \in live : b + Word = d + Word => b = d
  <1>1. Word \in Nat /\ Word >= 1 /\ HeapStart \in Nat /\ NULL = 0
    BY AllocatorAssumption DEF NULL
  <1>2. \A b \in live : b \in Nat
    BY DEF HeapInv, HeapTypeOK, BlocksOK
  <1>3. LiveNodes \subseteq DOMAIN node /\ \A p \in DOMAIN node : node[p] \in Content
    BY DEF TypeOK, Content
  <1>4. \A n \in Numbers : n \in Nat
    BY OneHotIs DEF Numbers, MaxBits
  <1>5. \A x \in Positions : x \in Nat /\ x >= 1
    BY PositionIs
  <1>6. \A p \in LiveNodes : \E b \in live : p = b + Word
    BY DEF LiveNodes
  <1>7. \A p \in LiveNodes : p \in Nat /\ p # 0
    BY <1>1, <1>2, <1>6
  <1>8. \A p \in LiveNodes : /\ node[p] \in Content /\ node[p].bit \in Positions /\ node[p].number \in Nat
                             /\ node[p].bit \in Nat /\ node[p].bit >= 1
    BY <1>3, <1>4, <1>5 DEF Content
  <1>9. \A b, d \in live : b + Word = d + Word => b = d
    BY <1>1, <1>2
  <1>10. \A b \in live : b + Word \in LiveNodes
    BY DEF LiveNodes
  <1> QED BY <1>1, <1>3, <1>6, <1>7, <1>8, <1>9, <1>10

LEMMA PlaceIs ==
  ASSUME TypeOK, HeapInv
  PROVE  /\ Root \in Places /\ Active \subseteq Places
         /\ \A f \in Places : \/ f = Root
                              \/ /\ f # Root /\ f[1] \in LiveNodes /\ node[f[1]].bit > 1
                                 /\ f[2] \in {"zero", "one"} /\ f = <<f[1], f[2]>>
                                 /\ Deref(f) = node[f[1]][f[2]] /\ Deref(f) \in Nat
         /\ \A p \in LiveNodes, side \in {"zero", "one"} :
              /\ node[p].bit > 1 => <<p, side>> \in Places
              /\ <<p, side>> # Root /\ Deref(<<p, side>>) = node[p][side]
  <1>1. \A p \in LiveNodes : p \in Nat /\ p # NULL /\ node[p] \in Content
    BY LiveIs
  <1>2. \A p \in LiveNodes, side \in {"zero", "one"} : <<p, side>> # Root
    BY <1>1 DEF Root
  <1>3. \A p \in LiveNodes, side \in {"zero", "one"} : Deref(<<p, side>>) = node[p][side] /\ node[p][side] \in Nat
    BY <1>1, <1>2 DEF Deref, Content
  <1>4. \A f \in Places : f = Root \/ \E p \in LiveNodes, side \in {"zero", "one"} : node[p].bit > 1 /\ f = <<p, side>>
    BY DEF Places
  <1>5. ASSUME NEW f \in Places, f # Root
        PROVE  /\ f[1] \in LiveNodes /\ node[f[1]].bit > 1 /\ f[2] \in {"zero", "one"} /\ f = <<f[1], f[2]>>
               /\ Deref(f) = node[f[1]][f[2]] /\ Deref(f) \in Nat
    <2>1. PICK p \in LiveNodes, side \in {"zero", "one"} : node[p].bit > 1 /\ f = <<p, side>>
      BY <1>4, <1>5
    <2> QED BY <1>3, <2>1
  <1>6. Root \in Places /\ Active \subseteq Places
    BY DEF Active, Places
  <1>7. \A p \in LiveNodes, side \in {"zero", "one"} : node[p].bit > 1 => <<p, side>> \in Places
    BY DEF Places
  <1> QED BY <1>2, <1>3, <1>5, <1>6, <1>7

\* A step that changes neither the shape of the tree nor what is active.
LEMMA ShapeStays ==
  ASSUME TypeOK, HeapInv, Joined, Ordered, Active' = Active, LiveNodes' = LiveNodes,
         \A f \in Active : Deref(f)' = Deref(f), \A p \in LiveNodes : Same(p)
  PROVE  Joined' /\ Ordered'
  <1>1. Joined'
    BY DEF Joined
  <1>2. ASSUME NEW f \in Active, f # Root, Deref(f) # NULL
        PROVE  (node[Deref(f)].bit < node[f[1]].bit /\ Fits(node[Deref(f)].number, node[f[1]], f[2]))'
    <2>1. f[1] \in LiveNodes /\ Deref(f) \in LiveNodes
      BY <1>2, PlaceIs DEF Joined
    <2> QED BY <1>2, <2>1 DEF Ordered, Same, Fits
  <1>3. Ordered'
    BY <1>2 DEF Ordered
  <1> QED BY <1>1, <1>3

\* A node goes that is in the place f0; afterwards f0 is inactive or leads nowhere.
LEMMA Removed ==
  ASSUME TypeOK, HeapInv, Joined, Ordered, NEW f0 \in Active,
         Active' \subseteq Active, \A f \in Active \ Active' : f = f0 \/ Deref(f) = NULL,
         LiveNodes' = LiveNodes \ {Deref(f0)},
         \A f \in Active' : IF f = f0 THEN Deref(f)' = NULL ELSE Deref(f)' = Deref(f),
         \A f \in Active' : f = Root \/ f[1] \in LiveNodes',
         \A p \in LiveNodes' : Same(p)
  PROVE  Joined' /\ Ordered'
  <1>0. NULL \notin LiveNodes
    BY LiveIs
  <1>1. \A f \in Active' : Deref(f)' # NULL => f # f0 /\ Deref(f)' = Deref(f) /\ f \in Active
    OBVIOUS
  <1>2. \A f \in Active' : Deref(f)' = NULL \/ Deref(f)' \in LiveNodes'
    BY <1>1 DEF Joined
  <1>3. ASSUME NEW p \in LiveNodes' PROVE \E f \in Active' : Deref(f)' = p
    <2>1. p \in LiveNodes /\ p # Deref(f0) /\ p # NULL
      BY <1>0
    <2>2. PICK f \in Active : Deref(f) = p
      BY <2>1 DEF Joined
    <2> QED BY <2>1, <2>2
  <1>4. Joined'
    BY <1>1, <1>2, <1>3 DEF Joined
  <1>5. ASSUME NEW f \in Active', f # Root, Deref(f)' # NULL
        PROVE  (node[Deref(f)].bit < node[f[1]].bit /\ Fits(node[Deref(f)].number, node[f[1]], f[2]))'
    <2>1. f[1] \in LiveNodes' /\ Deref(f)' \in LiveNodes' /\ Deref(f)' = Deref(f) /\ f \in Active
      BY <1>1, <1>2, <1>5
    <2> QED BY <1>5, <2>1 DEF Ordered, Same, Fits
  <1>6. Ordered'
    BY <1>5 DEF Ordered
  <1> QED BY <1>4, <1>6

\* A node comes to the place f0, with the node that was there on one of its sides.
LEMMA Inserted ==
  ASSUME TypeOK, HeapInv, Joined, Ordered, NEW f0 \in Active, NEW p, p # NULL, p \notin LiveNodes,
         NEW sides \in SUBSET {"zero", "one"}, NEW down,
         Active' = Active \cup {<<p, side>> : side \in sides}, LiveNodes' = LiveNodes \cup {p},
         \A f \in Active : IF f = f0 THEN Deref(f)' = p ELSE Deref(f)' = Deref(f),
         \A side \in sides : Deref(<<p, side>>)' = IF side = down THEN Deref(f0) ELSE NULL,
         down \in sides \/ Deref(f0) = NULL,
         \A q \in LiveNodes : Same(q),
         f0 # Root => node'[p].bit < node[f0[1]].bit /\ Fits(node'[p].number, node[f0[1]], f0[2]),
         Deref(f0) # NULL => node[Deref(f0)].bit < node'[p].bit /\ Fits(node[Deref(f0)].number, node'[p], down)
  PROVE  Joined' /\ Ordered'
  <1>0. NULL \notin LiveNodes /\ \A f \in Active : f = Root \/ f[1] \in LiveNodes
    BY LiveIs, PlaceIs
  <1>1. \A side \in sides : <<p, side>> \notin Active /\ <<p, side>> # Root
    <2>1. \A side \in sides : <<p, side>> # Root
      BY DEF Root
    <2> QED BY <1>0, <2>1
  <1>2. \A f \in Active : Deref(f) = NULL \/ Deref(f) \in LiveNodes
    BY DEF Joined
  <1>3. \A f \in Active' : \/ f \in Active /\ f = f0 /\ Deref(f)' = p
                           \/ f \in Active /\ f # f0 /\ Deref(f)' = Deref(f)
                           \/ f = <<p, down>> /\ down \in sides /\ Deref(f)' = Deref(f0)
                           \/ Deref(f)' = NULL
    OBVIOUS
  <1>4. \A f \in Active' : Deref(f)' = NULL \/ Deref(f)' \in LiveNodes'
    BY <1>2, <1>3
  <1>5. ASSUME NEW f \in Active', NEW g \in Active', Deref(f)' # NULL, Deref(f)' = Deref(g)' PROVE f = g
    <2>1. \A h \in Active, k \in Active : Deref(h) # NULL /\ Deref(h) = Deref(k) => h = k
      BY DEF Joined
    <2>2. \A h \in Active : Deref(h) # p
      BY <1>2
    <2> QED BY <1>3, <1>5, <2>1, <2>2
  <1>6. ASSUME NEW q \in LiveNodes' PROVE \E f \in Active' : Deref(f)' = q
    <2>1. CASE q = p
      BY <2>1
    <2>2. CASE q # p
      <3>1. PICK f \in Active : Deref(f) = q
        BY <2>2 DEF Joined
      <3>2. CASE f # f0
        BY <3>1, <3>2
      <3>3. CASE f = f0
        <4>1. down \in sides
          BY <1>0, <2>2, <3>1, <3>3
        <4> QED BY <3>1, <3>3, <4>1
      <3> QED BY <3>2, <3>3
    <2> QED BY <2>1, <2>2
  <1>7. Joined'
    BY <1>4, <1>5, <1>6 DEF Joined
  <1>8. ASSUME NEW f \in Active', f # Root, Deref(f)' # NULL
        PROVE  (node[Deref(f)].bit < node[f[1]].bit /\ Fits(node[Deref(f)].number, node[f[1]], f[2]))'
    <2>1. CASE f \in Active /\ f = f0 /\ Deref(f)' = p
      BY <1>0, <1>8, <2>1 DEF Same, Fits
    <2>2. CASE f \in Active /\ f # f0 /\ Deref(f)' = Deref(f)
      BY <1>0, <1>2, <1>8, <2>2 DEF Ordered, Same, Fits
    <2>3. CASE f = <<p, down>> /\ down \in sides /\ Deref(f)' = Deref(f0)
      <3>1. Deref(f0) \in LiveNodes /\ Same(Deref(f0))
        BY <1>2, <1>8, <2>3
      <3>2. f[1] = p /\ f[2] = down
        BY <2>3
      <3> QED BY <1>8, <2>3, <3>1, <3>2 DEF Same, Fits
    <2> QED BY <1>3, <1>8, <2>1, <2>2, <2>3
  <1>9. Ordered'
    BY <1>8 DEF Ordered
  <1> QED BY <1>7, <1>9

-----------------------------------------------------------------------------
(* Adding a number *)

LEMMA NumberIs == \A n \in Numbers : n \in Nat /\ n < 2 * MaxBits /\ n \div (2 * MaxBits) = 0
  <1>1. MaxBits \in Nat /\ MaxBits >= 1
    <2>1. 1 \in Positions
      BY OneHotIs DEF Positions
    <2> QED BY <2>1, PositionIs
  <1> HIDE DEF MaxBits
  <1>2. ASSUME NEW n \in 0..(2 * MaxBits - 1) PROVE n \in Nat /\ n < 2 * MaxBits /\ n \div (2 * MaxBits) = 0
    BY <1>1
  <1> QED BY <1>2 DEF Numbers

LEMMA NothingIsDone == pc \notin {"release", "end"} => Active = Places
  BY DEF Active, Done

\* The number agrees with the subtree it has come to in every bit above bit_pos.
LEMMA AddIs ==
  ASSUME RadixInv, Adding
  PROVE  /\ parent \in Active /\ Active = Places /\ bitPos \in Positions /\ bitPos \in Nat /\ bitPos >= 1
         /\ number \in Nat /\ number \in Numbers /\ stack = << >>
         /\ parent # Root => /\ parent[1] \in LiveNodes /\ bitPos < node[parent[1]].bit
                             /\ node[parent[1]].bit = 2 * bitPos /\ Fits(number, node[parent[1]], parent[2])
         /\ here # NULL => /\ here \in LiveNodes /\ node[here].bit <= bitPos
                           /\ number \div (2 * bitPos) = node[here].number \div (2 * bitPos)
  <1>0. TypeOK /\ HeapInv /\ Joined /\ Ordered /\ pc = "add"
    BY DEF RadixInv, Adding
  <1>1. parent \in Places /\ Active = Places /\ stack = << >>
    BY <1>0, NothingIsDone DEF RadixInv, AddOK, StackOK
  <1>2. /\ parent = Root => bitPos = MaxBits
        /\ parent # Root => node[parent[1]].bit = 2 * bitPos /\ Fits(number, node[parent[1]], parent[2])
    BY <1>0 DEF RadixInv, AddOK
  <1>3. number \in Numbers /\ number \in Nat /\ bitPos \in Positions \cup {0}
    BY <1>0, NumberIs DEF TypeOK
  <1>4. parent # Root => parent[1] \in LiveNodes /\ node[parent[1]].bit > 1
    BY <1>0, <1>1, PlaceIs
  <1>5. bitPos \in Positions
    <2>1. CASE parent = Root
      BY <1>2, <2>1, OneHotIs DEF MaxBits, Positions
    <2>2. CASE parent # Root
      BY <1>2, <1>3, <1>4, <2>2
    <2> QED BY <2>1, <2>2
  <1>6. bitPos \in Nat /\ bitPos >= 1
    BY <1>5, PositionIs
  <1>7. here # NULL => here \in LiveNodes
    BY <1>0, <1>1 DEF Joined, here
  <1>8. ASSUME here # NULL
        PROVE  node[here].bit <= bitPos /\ number \div (2 * bitPos) = node[here].number \div (2 * bitPos)
    <2>1. node[here].bit \in Positions /\ node[here].bit \in Nat /\ node[here].number \in Nat /\ node[here].number \in Numbers
      BY <1>0, <1>7, <1>8, LiveIs DEF Content
    <2>2. CASE parent = Root
      BY <1>2, <1>3, <2>1, <2>2, PositionIs, NumberIs
    <2>3. CASE parent # Root
      <3> DEFINE up == node[parent[1]]
                 n == node[here].number
      <3>1. node[here].bit < up.bit /\ Fits(n, up, parent[2])
        BY <1>0, <1>1, <1>8, <2>3 DEF Ordered, here
      <3>2. up.bit = 2 * bitPos /\ Fits(number, up, parent[2])
        BY <1>2, <2>3
      <3>3. up.bit \in Nat \ {0} /\ up.bit \in Positions
        BY <1>0, <1>4, <2>3, LiveIs
      <3> HIDE DEF up, n
      <3>4. 2 * node[here].bit <= up.bit
        BY <2>1, <3>1, <3>3, PositionIs
      <3>5. Set(n, up.bit) <=> Set(number, up.bit)
        BY <3>1, <3>2 DEF Fits, Side
      <3>6. n \div up.bit = number \div up.bit
        BY <1>3, <2>1, <3>1, <3>2, <3>3, <3>5, AgreeHere DEF Fits, n
      <3> QED BY <1>6, <2>1, <3>2, <3>4, <3>6 DEF n
    <2> QED BY <2>2, <2>3
  <1> QED BY <1>1, <1>2, <1>3, <1>4, <1>5, <1>6, <1>7, <1>8

\* Where the number and the subtree differ, if they do.
LEMMA DifferingIs ==
  ASSUME RadixInv, Adding, here # NULL
  PROVE  /\ Differing = {} => number \div (2 * node[here].bit) = node[here].number \div (2 * node[here].bit)
         /\ Differing # {} =>
              /\ SplitBit \in Positions /\ node[here].bit < SplitBit /\ SplitBit <= bitPos
              /\ Set(number, SplitBit) # Set(node[here].number, SplitBit)
              /\ number \div (2 * SplitBit) = node[here].number \div (2 * SplitBit)
  <1>1. /\ bitPos \in Positions /\ bitPos \in Nat /\ number \in Nat /\ here \in LiveNodes /\ node[here].bit <= bitPos
        /\ number \div (2 * bitPos) = node[here].number \div (2 * bitPos)
    BY AddIs
  <1>2. node[here].bit \in Positions /\ node[here].bit \in Nat /\ node[here].number \in Nat
    BY <1>1, LiveIs DEF RadixInv
  <1> DEFINE low == node[here].bit
             m == node[here].number
  <1>3. \A b \in Positions : low < b /\ b <= bitPos => b \in Differing \/ (Set(number, b) <=> Set(m, b))
    BY DEF Differing
  <1>4. Differing \in SUBSET Positions
    BY DEF Differing
  <1>5. CASE Differing = {}
    <2>1. \A b \in Positions : low < b /\ b <= bitPos => (Set(number, b) <=> Set(m, b))
      BY <1>3, <1>5
    <2> HIDE DEF low, m
    <2>2. number \div (2 * low) = m \div (2 * low)
      BY <1>1, <1>2, <2>1, AgreeBelow DEF low, m
    <2> QED BY <1>5, <2>2 DEF low, m
  <1>6. CASE Differing # {}
    <2>1. SplitBit \in Differing /\ \A b \in Differing : b <= SplitBit
      BY <1>4, <1>6, HighestIs DEF SplitBit
    <2>2. /\ SplitBit \in Positions /\ low < SplitBit /\ SplitBit <= bitPos
          /\ Set(number, SplitBit) # Set(m, SplitBit)
      BY <2>1 DEF Differing
    <2>3. \A b \in Positions : SplitBit < b /\ b <= bitPos => (Set(number, b) <=> Set(m, b))
      <3> SUFFICES ASSUME NEW b \in Positions, SplitBit < b, b <= bitPos PROVE Set(number, b) <=> Set(m, b)
        OBVIOUS
      <3>1. b \in Nat /\ SplitBit \in Nat
        BY <2>2, PositionIs
      <3>2. b \notin Differing
        BY <2>1, <3>1
      <3>3. low < b
        BY <1>2, <2>2, <3>1
      <3> QED BY <1>3, <3>2, <3>3
    <2>4. number \div (2 * SplitBit) = m \div (2 * SplitBit)
      <3> HIDE DEF m
      <3> QED BY <1>1, <1>2, <2>2, <2>3, AgreeBelow DEF m
    <2> QED BY <1>6, <2>2, <2>4
  <1> QED BY <1>5, <1>6

LEMMA FieldSet ==
  ASSUME NEW r \in Content, NEW side \in {"zero", "one"}, NEW v \in Nat
  PROVE  LET s == [r EXCEPT ![side] = v]
         IN  /\ s \in Content /\ s.bit = r.bit /\ s.number = r.number /\ s[side] = v
             /\ \A other \in {"zero", "one"} \ {side} : s[other] = r[other]
             /\ \A other \in {"zero", "one"} : s[other] \in Nat /\ r[other] \in Nat
  <1>1. CASE side = "zero"
    BY <1>1 DEF Content
  <1>2. CASE side = "one"
    BY <1>2 DEF Content
  <1> QED BY <1>1, <1>2

LEMMA NodeAllocated ==
  ASSUME TypeOK, HeapInv, Allocate(NodeSize)
  PROVE  LET p == Pointer(NodeSize)
         IN  HeapInv' /\ p \in Nat /\ p # NULL /\ p \notin LiveNodes /\ LiveNodes' = LiveNodes \cup {p}
  <1> DEFINE b == NextBlock(NodeSize)
  <1>1. NodeSize \in Int /\ ~Refused(NodeSize)
    BY AllocatorAssumption, RadixAssumption
  <1>2. /\ HeapInv' /\ live' = live \cup {b} /\ b \notin live /\ b \in Nat /\ b >= HeapStart
        /\ Pointer(NodeSize) = b + Word
    BY <1>1, AllocatedKeeps
  <1> HIDE DEF b
  <1>3. Word \in Nat /\ Word >= 1 /\ HeapStart \in Nat /\ NULL = 0
    BY AllocatorAssumption DEF NULL
  <1>4. \A d \in live : d \in Nat
    BY DEF HeapInv, HeapTypeOK, BlocksOK
  <1>5. b + Word \in Nat /\ b + Word # 0
    BY <1>2, <1>3
  <1>6. \A d \in live : d + Word # b + Word
    BY <1>2, <1>3, <1>4
  <1>7. LiveNodes' = LiveNodes \cup {b + Word}
    BY <1>2 DEF LiveNodes
  <1>8. b + Word \notin LiveNodes
    BY <1>6 DEF LiveNodes
  <1> QED BY <1>2, <1>3, <1>5, <1>7, <1>8

\* A pointer is stored in a place, in memory that holds the live nodes as before.
LEMMA Stored ==
  ASSUME TypeOK, HeapInv, NEW f0 \in Places, NEW p \in Nat, NEW N,
         LiveNodes \subseteq DOMAIN N, \A q \in LiveNodes : N[q] = node[q],
         \A q \in DOMAIN N : N[q] \in Content, Store(N, f0, p)
  PROVE  /\ DOMAIN node' = DOMAIN N /\ tree' \in Nat
         /\ \A q \in DOMAIN node' : node'[q] \in Content
         /\ \A q \in DOMAIN N \ LiveNodes : node'[q] = N[q]
         /\ \A q \in LiveNodes : Same(q)
         /\ \A f \in Places : Deref(f)' = IF f = f0 THEN p ELSE Deref(f)
  <1>1. tree \in Nat
    BY DEF TypeOK
  <1>2. CASE f0 = Root
    <2>1. tree' = p /\ node' = N
      BY <1>2 DEF Store
    <2>2. \A q \in LiveNodes : Same(q) /\ node'[q] = node[q]
      BY <2>1 DEF Same
    <2>3. ASSUME NEW f \in Places PROVE Deref(f)' = IF f = f0 THEN p ELSE Deref(f)
      <3>1. f # Root => f[1] \in LiveNodes
        BY PlaceIs
      <3> QED BY <1>2, <2>1, <2>2, <3>1 DEF Deref
    <2> QED BY <2>1, <2>2, <2>3
  <1>3. CASE f0 # Root
    <2> DEFINE a == f0[1]
               side == f0[2]
    <2>1. a \in LiveNodes /\ side \in {"zero", "one"} /\ f0 = <<a, side>>
      BY <1>3, PlaceIs
    <2>2. tree' = tree /\ node' = [N EXCEPT ![a][side] = p]
      BY <1>3 DEF Store
    <2> HIDE DEF a, side
    <2>3. /\ DOMAIN node' = DOMAIN N /\ node'[a] = [N[a] EXCEPT ![side] = p] /\ N[a] = node[a]
          /\ \A q \in DOMAIN N \ {a} : node'[q] = N[q]
      BY <2>1, <2>2
    <2>4. /\ node'[a] \in Content /\ node'[a].bit = node[a].bit /\ node'[a].number = node[a].number
          /\ node'[a][side] = p /\ \A other \in {"zero", "one"} \ {side} : node'[a][other] = node[a][other]
      BY <2>1, <2>3, FieldSet
    <2>5. \A q \in LiveNodes : Same(q) /\ (q # a => node'[q] = node[q])
      BY <2>3, <2>4 DEF Same
    <2>6. ASSUME NEW f \in Places PROVE Deref(f)' = IF f = f0 THEN p ELSE Deref(f)
      <3>1. CASE f = Root
        BY <1>3, <2>2, <3>1 DEF Deref
      <3>2. CASE f # Root
        <4>1. f[1] \in LiveNodes /\ f[2] \in {"zero", "one"} /\ f = <<f[1], f[2]>>
          BY <3>2, PlaceIs
        <4>2. Deref(f) = node[f[1]][f[2]] /\ Deref(f)' = node'[f[1]][f[2]]
          BY <3>2 DEF Deref
        <4> QED BY <2>1, <2>4, <2>5, <4>1, <4>2
      <3> QED BY <3>1, <3>2
    <2>7. \A q \in DOMAIN node' : node'[q] \in Content
      BY <2>3, <2>4
    <2> QED BY <1>1, <2>1, <2>2, <2>3, <2>5, <2>6, <2>7
  <1> QED BY <1>2, <1>3

\* A new node at p, and a pointer to it stored in a place.
LEMMA NodeStored ==
  ASSUME TypeOK, HeapInv, NEW f0 \in Places, NEW p \in Nat, p \notin LiveNodes, NEW contents \in Content,
         Store(WithNode(p, contents), f0, p)
  PROVE  /\ node'[p] = contents /\ DOMAIN node' = DOMAIN node \cup {p} /\ tree' \in Nat
         /\ \A q \in DOMAIN node' : node'[q] \in Content
         /\ \A q \in LiveNodes : Same(q)
         /\ \A f \in Places : Deref(f)' = IF f = f0 THEN p ELSE Deref(f)
  <1> DEFINE N == WithNode(p, contents)
  <1>1. /\ LiveNodes \subseteq DOMAIN node /\ \A q \in DOMAIN node : node[q] \in Content
    BY LiveIs DEF TypeOK, Content
  <1>2. /\ DOMAIN N = DOMAIN node \cup {p} /\ N[p] = contents
        /\ \A q \in DOMAIN node \ {p} : N[q] = node[q]
    BY DEF WithNode
  <1> HIDE DEF N
  <1>3. /\ LiveNodes \subseteq DOMAIN N /\ \A q \in LiveNodes : N[q] = node[q]
        /\ \A q \in DOMAIN N : N[q] \in Content
    BY <1>1, <1>2
  <1>4. Store(N, f0, p)
    BY DEF N
  <1> QED BY <1>2, <1>3, <1>4, Stored

\* The first frame of a recursion.
LEMMA FirstFrame ==
  ASSUME stack' = <<Enter(Root)>>, Root \in Active', pc' \in {"take", "release"}
  PROVE  StackOK'
  <1>1. /\ stack' \in Seq(Frames) /\ DOMAIN stack' = {1} /\ Len(stack') = 1
        /\ stack'[1].place = Root /\ stack'[1].at = "enter"
    BY DEF Enter, Frames
  <1>2. FrameOK(1)'
    BY <1>1 DEF FrameOK
  <1> QED BY <1>1, <1>2 DEF StackOK

LEMMA NoFrames ==
  ASSUME stack' = << >>
  PROVE  StackOK'
  BY DEF StackOK, Frames

\* The heap and the memory are left alone.
LEMMA NothingMoves ==
  ASSUME TypeOK, HeapInv, UNCHANGED <<heapVars, node, tree>>
  PROVE  /\ HeapInv' /\ HeapTypeOK' /\ LiveNodes' = LiveNodes /\ Places' = Places
         /\ \A f : Deref(f)' = Deref(f)
         /\ \A p : Same(p)
  <1>1. HeapInv'
    BY HeapKeeps
  <1>2. live' = live /\ node' = node /\ tree' = tree
    BY DEF heapVars
  <1>3. LiveNodes' = LiveNodes
    BY <1>2 DEF LiveNodes
  <1>4. Places' = Places /\ (\A f : Deref(f)' = Deref(f)) /\ \A p : Same(p)
    BY <1>2, <1>3 DEF Places, Deref, Same
  <1> QED BY <1>1, <1>3, <1>4 DEF HeapInv

LEMMA NumbersIn == 0 \in Numbers /\ MaxBits \in Positions /\ \A i \in Inputs : i >= 0 => i \in Numbers
  <1>1. MaxBits \in Positions /\ MaxBits \in Nat /\ MaxBits >= 1
    <2>1. MaxBits \in Positions
      BY OneHotIs DEF Positions, MaxBits
    <2> QED BY <2>1, PositionIs
  <1>2. \A i \in Inputs : i \in Int /\ i < 2 * MaxBits
    BY RadixAssumption
  <1> HIDE DEF MaxBits
  <1> QED BY <1>1, <1>2 DEF Numbers

LEMMA ReadNumberKeeps == ASSUME RadixInv, NEW i \in Inputs, ReadNumber(i) PROVE RadixInv'
  <1>0. TypeOK /\ HeapInv /\ Joined /\ Ordered /\ stack = << >> /\ pc = "read"
    BY DEF RadixInv, StackOK, ReadNumber
  <1>1. /\ HeapInv' /\ HeapTypeOK' /\ LiveNodes' = LiveNodes /\ Places' = Places
        /\ \A f : Deref(f)' = Deref(f)
        /\ \A p : Same(p)
    BY <1>0, NothingMoves DEF ReadNumber
  <1>2. UNCHANGED <<node, tree, written>> /\ reads' \in 0..MaxReads
    <2>1. reads \in 0..MaxReads /\ reads < MaxReads /\ reads' = reads + 1 /\ MaxReads \in Nat
      BY <1>0, RadixAssumption DEF ReadNumber, TypeOK
    <2> QED BY <2>1 DEF ReadNumber
  <1>3. pc' \in {"take", "add"}
    BY DEF ReadNumber
  <1>4. Active' = Active /\ Active = Places
    BY <1>0, <1>1, <1>3 DEF Active, Done
  <1>5. Joined' /\ Ordered'
    BY <1>0, <1>1, <1>4, ShapeStays
  <1>6. Root \in Active
    BY <1>0, <1>4, PlaceIs
  <1>7. i \in Int
    BY RadixAssumption
  <1>8. CASE i < 0
    <2>1. /\ pc' = "take" /\ limit' = -i /\ buffer' = << >> /\ stack' = <<Enter(Root)>>
          /\ UNCHANGED <<number, bitPos, parent>>
      BY <1>8 DEF ReadNumber
    <2>2. limit' \in Nat /\ buffer' \in Seq(Numbers) /\ Len(buffer') = 0 /\ BufferSize >= 0
      BY <1>7, <1>8, <2>1, RadixAssumption
    <2>3. TypeOK'
      BY <1>0, <1>1, <1>2, <2>1, <2>2 DEF TypeOK
    <2>4. StackOK'
      BY <1>4, <1>6, <2>1, FirstFrame
    <2>5. AddOK' /\ Len(buffer') <= limit'
      BY <2>1, <2>2 DEF AddOK
    <2> QED BY <1>1, <1>5, <2>3, <2>4, <2>5 DEF RadixInv
  <1>9. CASE i >= 0
    <2>1. /\ pc' = "add" /\ number' = i /\ bitPos' = MaxBits /\ parent' = Root
          /\ UNCHANGED <<limit, buffer, stack>>
      BY <1>7, <1>9 DEF ReadNumber
    <2>2. TypeOK'
      BY <1>0, <1>1, <1>2, <1>9, <2>1, NumbersIn DEF TypeOK
    <2>3. StackOK'
      BY <1>0, <2>1, NoFrames
    <2>4. AddOK'
      BY <1>1, <1>4, <1>6, <2>1 DEF AddOK
    <2> QED BY <1>1, <1>5, <2>1, <2>2, <2>3, <2>4 DEF RadixInv
  <1> QED BY <1>7, <1>8, <1>9

LEMMA EndOfInputKeeps == ASSUME RadixInv, EndOfInput PROVE RadixInv'
  <1>0. TypeOK /\ HeapInv /\ Joined /\ Ordered /\ stack = << >> /\ pc = "read"
    BY DEF RadixInv, StackOK, EndOfInput
  <1>1. /\ HeapInv' /\ HeapTypeOK' /\ LiveNodes' = LiveNodes /\ Places' = Places
        /\ \A f : Deref(f)' = Deref(f)
        /\ \A p : Same(p)
    BY <1>0, NothingMoves DEF EndOfInput
  <1>2. /\ pc' = "release" /\ stack' = <<Enter(Root)>>
        /\ UNCHANGED <<node, tree, number, bitPos, parent, limit, buffer, written, reads>>
    BY DEF EndOfInput
  <1>3. Done' = {}
    <2>1. stack' # << >> /\ DOMAIN stack' = {1} /\ stack'[1].at = "enter"
      BY <1>2 DEF Enter
    <2> QED BY <1>2, <2>1 DEF Done, Called
  <1>4. Active' = Active /\ Active = Places
    BY <1>0, <1>1, <1>3, NothingIsDone DEF Active
  <1>5. Joined' /\ Ordered'
    BY <1>0, <1>1, <1>4, ShapeStays
  <1>6. StackOK'
    BY <1>0, <1>2, <1>4, FirstFrame, PlaceIs
  <1>7. TypeOK' /\ AddOK'
    BY <1>0, <1>1, <1>2 DEF TypeOK, AddOK
  <1> QED BY <1>1, <1>2, <1>5, <1>6, <1>7 DEF RadixInv

LEMMA LeafIs == ASSUME NEW n \in Numbers PROVE Leaf(n) \in Content /\ Leaf(n).bit = 1 /\ Leaf(n).number = n
  BY OneHotIs DEF Leaf, Content, Positions

LEMMA NewLeafKeeps == ASSUME RadixInv, NewLeaf PROVE RadixInv'
  <1>0. TypeOK /\ HeapInv /\ Joined /\ Ordered
    BY DEF RadixInv
  <1>1. /\ parent \in Active /\ Active = Places /\ number \in Numbers /\ stack = << >> /\ here = NULL /\ bitPos >= 1
        /\ bitPos \in Nat
        /\ parent # Root => /\ parent[1] \in LiveNodes /\ bitPos < node[parent[1]].bit
                            /\ Fits(number, node[parent[1]], parent[2])
    BY AddIs DEF NewLeaf
  <1>12. PICK p : p = Pointer(NodeSize)
    OBVIOUS
  <1>2. HeapInv' /\ p \in Nat /\ p # NULL /\ p \notin LiveNodes /\ LiveNodes' = LiveNodes \cup {p}
    BY <1>0, <1>12, NodeAllocated DEF NewLeaf
  <1>3. Store(WithNode(p, Leaf(number)), parent, p)
    BY <1>12 DEF NewLeaf
  <1>4. /\ node'[p] = Leaf(number) /\ DOMAIN node' = DOMAIN node \cup {p} /\ tree' \in Nat
        /\ \A q \in DOMAIN node' : node'[q] \in Content
        /\ \A q \in LiveNodes : Same(q)
        /\ \A f \in Places : Deref(f)' = IF f = parent THEN p ELSE Deref(f)
    BY <1>0, <1>1, <1>2, <1>3, LeafIs, NodeStored
  <1>5. /\ pc' = "read" /\ UNCHANGED <<number, bitPos, parent, limit, buffer, stack, written, reads>>
    BY DEF NewLeaf
  <1>6. node'[p].bit = 1 /\ node'[p].number = number
    BY <1>1, <1>4, LeafIs
  <1>7. Places' = Places
    <2>1. {q \in LiveNodes' : node'[q].bit > 1} = {q \in LiveNodes : node[q].bit > 1}
      BY <1>2, <1>4, <1>6 DEF Same
    <2> QED BY <2>1 DEF Places
  <1>8. Active' = Places /\ Active' = Active
    BY <1>1, <1>5, <1>7 DEF Active, Done
  <1>9. Joined' /\ Ordered'
    <2> DEFINE sides == {}
    <2>1. /\ Active' = Active \cup {<<p, side>> : side \in sides} /\ sides \in SUBSET {"zero", "one"}
          /\ \A side \in sides : Deref(<<p, side>>)' = IF side = "zero" THEN Deref(parent) ELSE NULL
      BY <1>8
    <2>2. Deref(parent) = NULL
      BY <1>1 DEF here
    <2>3. parent # Root => node'[p].bit < node[parent[1]].bit /\ Fits(node'[p].number, node[parent[1]], parent[2])
      <3> SUFFICES ASSUME parent # Root PROVE 1 < node[parent[1]].bit
        BY <1>1, <1>6
      <3>1. node[parent[1]].bit \in Nat
        BY <1>0, <1>1, LiveIs
      <3> QED BY <1>1, <3>1
    <2>4. \A f \in Active : IF f = parent THEN Deref(f)' = p ELSE Deref(f)' = Deref(f)
      BY <1>1, <1>4
    <2>5. /\ "zero" \in sides \/ Deref(parent) = NULL
          /\ Deref(parent) # NULL => /\ node[Deref(parent)].bit < node'[p].bit
                                     /\ Fits(node[Deref(parent)].number, node'[p], "zero")
      BY <2>2
    <2> HIDE DEF sides
    <2> QED BY <1>0, <1>1, <1>2, <1>4, <2>1, <2>3, <2>4, <2>5, Inserted
  <1>10. TypeOK'
    <2>1. HeapTypeOK' /\ LiveNodes' \subseteq DOMAIN node'
      BY <1>0, <1>2, <1>4, LiveIs DEF HeapInv
    <2> QED BY <1>0, <1>4, <1>5, <2>1 DEF TypeOK, Content
  <1>11. StackOK' /\ AddOK'
    BY <1>1, <1>5, NoFrames DEF AddOK
  <1> QED BY <1>2, <1>5, <1>9, <1>10, <1>11 DEF RadixInv

LEMMA SplitKeeps == ASSUME RadixInv, Split PROVE RadixInv'
  <1>0. TypeOK /\ HeapInv /\ Joined /\ Ordered /\ pc = "add"
    BY DEF RadixInv, Split, Adding
  <1>1. /\ parent \in Active /\ Active = Places /\ number \in Numbers /\ number \in Nat /\ stack = << >>
        /\ here # NULL /\ here \in LiveNodes /\ bitPos \in Nat
        /\ parent # Root => /\ parent[1] \in LiveNodes /\ bitPos < node[parent[1]].bit
                            /\ Fits(number, node[parent[1]], parent[2])
    BY AddIs DEF Split
  <1>18. PICK p : p = Pointer(NodeSize)
    OBVIOUS
  <1> DEFINE bit == SplitBit
             side == Side(number, bit)
             other == IF Set(number, bit) THEN "zero" ELSE "one"
             new == [bit |-> bit, number |-> number,
                     zero |-> IF Set(number, bit) THEN here ELSE NULL,
                     one  |-> IF Set(number, bit) THEN NULL ELSE here]
  <1>2. HeapInv' /\ p \in Nat /\ p # NULL /\ p \notin LiveNodes /\ LiveNodes' = LiveNodes \cup {p}
    BY <1>0, <1>18, NodeAllocated DEF Split
  <1>3. Store(WithNode(p, new), parent, p) /\ parent' = <<p, side>> /\ bitPos' = bit \div 2
    BY <1>18 DEF Split
  <1>4. /\ bit \in Positions /\ node[here].bit < bit /\ bit <= bitPos
        /\ Set(number, bit) # Set(node[here].number, bit)
        /\ number \div (2 * bit) = node[here].number \div (2 * bit)
    BY <1>1, DifferingIs DEF Split
  <1>5. node[here].bit \in Nat /\ node[here].bit >= 1 /\ here \in Nat /\ bit \in Nat /\ node[here].number \in Nat
    BY <1>0, <1>1, <1>4, LiveIs, PositionIs
  <1>6. bit > 1 /\ bit \div 2 \in Positions /\ 2 * (bit \div 2) = bit
    BY <1>4, <1>5, PositionIs
  <1> HIDE DEF bit
  <1>7. new \in Content /\ new.bit = bit /\ new.number = number
    BY <1>1, <1>4, <1>5 DEF Content, NULL
  <1>8. /\ side \in {"zero", "one"} /\ other \in {"zero", "one"} /\ side # other
        /\ new[other] = here /\ new[side] = NULL /\ {"zero", "one"} = {side, other}
    BY DEF Side
  <1>9. Side(node[here].number, bit) = other
    <2>1. CASE Set(number, bit)
      <3>1. ~Set(node[here].number, bit)
        BY <1>4, <2>1
      <3> QED BY <2>1, <3>1 DEF Side
    <2>2. CASE ~Set(number, bit)
      <3>1. Set(node[here].number, bit)
        BY <1>4, <2>2 DEF Set
      <3> QED BY <2>2, <3>1 DEF Side
    <2> QED BY <2>1, <2>2
  <1> HIDE DEF new, side, other
  <1>10. /\ node'[p] = new /\ DOMAIN node' = DOMAIN node \cup {p} /\ tree' \in Nat
         /\ \A q \in DOMAIN node' : node'[q] \in Content
         /\ \A q \in LiveNodes : Same(q)
         /\ \A f \in Places : Deref(f)' = IF f = parent THEN p ELSE Deref(f)
    BY <1>0, <1>1, <1>2, <1>3, <1>7, NodeStored
  <1>11. pc' = "add" /\ UNCHANGED <<number, limit, buffer, stack, written, reads>>
    BY <1>0 DEF Split
  <1>12. Places' = Places \cup {<<p, s>> : s \in {"zero", "one"}}
    <2>1. {q \in LiveNodes' : node'[q].bit > 1} = {q \in LiveNodes : node[q].bit > 1} \cup {p}
      BY <1>2, <1>6, <1>7, <1>10 DEF Same
    <2> QED BY <2>1 DEF Places
  <1>13. Active' = Active \cup {<<p, s>> : s \in {"zero", "one"}} /\ Active' = Places'
    BY <1>1, <1>11, <1>12 DEF Active, Done
  <1>14. Joined' /\ Ordered'
    <2>1. Deref(parent) = here
      BY DEF here
    <2>2. parent # Root => node'[p].bit < node[parent[1]].bit /\ Fits(node'[p].number, node[parent[1]], parent[2])
      <3> SUFFICES ASSUME parent # Root PROVE bit < node[parent[1]].bit
        BY <1>1, <1>7, <1>10
      <3>1. node[parent[1]].bit \in Nat
        BY <1>0, <1>1, LiveIs
      <3> QED BY <1>1, <1>4, <1>5, <3>1
    <2>3. \A f \in Active : IF f = parent THEN Deref(f)' = p ELSE Deref(f)' = Deref(f)
      BY <1>1, <1>10
    <2>4. \A s \in {"zero", "one"} : Deref(<<p, s>>)' = IF s = other THEN Deref(parent) ELSE NULL
      <3> TAKE s \in {"zero", "one"}
      <3>1. <<p, s>> # Root
        BY <1>2 DEF Root
      <3>2. Deref(<<p, s>>)' = node'[p][s]
        BY <3>1 DEF Deref
      <3> QED BY <1>8, <1>10, <2>1, <3>2
    <2>5. node[Deref(parent)].bit < node'[p].bit /\ Fits(node[Deref(parent)].number, node'[p], other)
      <3>1. node'[p].bit = bit /\ node'[p].number = number /\ Deref(parent) = here
        BY <1>7, <1>10, <2>1
      <3>2. node[here].bit < bit /\ node[here].number \div (2 * bit) = number \div (2 * bit)
        BY <1>4
      <3> QED BY <1>9, <3>1, <3>2 DEF Fits
    <2> DEFINE sides == {"zero", "one"}
    <2>6. /\ Active' = Active \cup {<<p, s>> : s \in sides} /\ sides \in SUBSET {"zero", "one"} /\ other \in sides
          /\ \A s \in sides : Deref(<<p, s>>)' = IF s = other THEN Deref(parent) ELSE NULL
      BY <1>8, <1>13, <2>4
    <2> HIDE DEF sides
    <2> QED BY <1>0, <1>1, <1>2, <1>10, <2>2, <2>3, <2>5, <2>6, Inserted
  <1>15. TypeOK'
    <2>1. HeapTypeOK' /\ LiveNodes' \subseteq DOMAIN node'
      BY <1>0, <1>2, <1>10, LiveIs DEF HeapInv
    <2> QED BY <1>0, <1>3, <1>6, <1>10, <1>11, <2>1 DEF TypeOK, Content
  <1>16. AddOK'
    <2>1. parent' \in Places' /\ parent' # Root /\ parent'[1] = p /\ parent'[2] = side
      BY <1>2, <1>3, <1>8, <1>12 DEF Root
    <2>2. node'[p].bit = 2 * bitPos' /\ Fits(number', node'[p], side)
      BY <1>3, <1>6, <1>7, <1>10, <1>11 DEF Fits, side
    <2> QED BY <2>1, <2>2 DEF AddOK
  <1>17. StackOK'
    BY <1>1, <1>11, NoFrames
  <1> QED BY <1>2, <1>11, <1>14, <1>15, <1>16, <1>17 DEF RadixInv

LEMMA DescendKeeps == ASSUME RadixInv, Descend PROVE RadixInv'
  <1>0. TypeOK /\ HeapInv /\ Joined /\ Ordered /\ pc = "add" /\ UNCHANGED <<heapVars, node, tree>>
    BY DEF RadixInv, Descend, Adding
  <1>1. Active = Places /\ number \in Numbers /\ stack = << >> /\ here \in LiveNodes /\ here # NULL
    BY AddIs DEF Descend
  <1>2. /\ HeapInv' /\ HeapTypeOK' /\ LiveNodes' = LiveNodes /\ Places' = Places
        /\ \A f : Deref(f)' = Deref(f)
        /\ \A p : Same(p)
    BY <1>0, NothingMoves
  <1> DEFINE bit == node[here].bit
             side == Side(number, bit)
  <1>3. /\ parent' = <<here, side>> /\ bitPos' = bit \div 2 /\ bit > 1
        /\ UNCHANGED <<pc, number, limit, buffer, stack, written, reads>>
    BY DEF Descend
  <1>4. bit \in Positions /\ bit \div 2 \in Positions /\ 2 * (bit \div 2) = bit
    BY <1>0, <1>1, <1>3, LiveIs, PositionIs
  <1>5. Active' = Active
    BY <1>0, <1>1, <1>2, <1>3 DEF Active, Done
  <1>6. Joined' /\ Ordered'
    BY <1>0, <1>2, <1>5, ShapeStays
  <1>7. AddOK'
    <2>1. side \in {"zero", "one"}
      BY DEF Side
    <2>2. parent' \in Places' /\ parent' # Root /\ parent'[1] = here /\ parent'[2] = side
      BY <1>0, <1>1, <1>2, <1>3, <2>1, PlaceIs
    <2>3. node'[here] = node[here] /\ number' = number
      BY <1>0, <1>3
    <2>4. Fits(number, node[here], side)
      BY <1>1, DifferingIs DEF Descend, Fits
    <2>5. node'[parent'[1]].bit = 2 * bitPos'
      BY <1>3, <1>4, <2>2, <2>3
    <2> QED BY <2>2, <2>3, <2>4, <2>5 DEF AddOK
  <1>8. TypeOK' /\ StackOK'
    BY <1>0, <1>1, <1>2, <1>3, <1>4, NoFrames DEF TypeOK
  <1> QED BY <1>0, <1>2, <1>3, <1>6, <1>7, <1>8 DEF RadixInv

\* A leaf counts one more or one less: the shape of the tree is the same.
LEMMA LeafCounted ==
  ASSUME TypeOK, HeapInv, NEW p \in LiveNodes, node[p].bit = 1, NEW side \in {"zero", "one"}, NEW v \in Nat,
         node' = [node EXCEPT ![p][side] = v], UNCHANGED <<heapVars, tree>>
  PROVE  /\ HeapInv' /\ HeapTypeOK' /\ LiveNodes' = LiveNodes /\ Places' = Places
         /\ DOMAIN node' = DOMAIN node /\ \A q \in DOMAIN node : node'[q] \in Content
         /\ \A q \in LiveNodes : Same(q)
         /\ \A f \in Places : Deref(f)' = Deref(f)
  <1>1. HeapInv' /\ HeapTypeOK'
    BY HeapKeeps DEF HeapInv
  <1>2. LiveNodes' = LiveNodes
    BY DEF LiveNodes, heapVars
  <1>3. p \in DOMAIN node /\ \A q \in DOMAIN node : node[q] \in Content
    BY LiveIs DEF TypeOK, Content
  <1>4. /\ DOMAIN node' = DOMAIN node /\ node'[p] = [node[p] EXCEPT ![side] = v]
        /\ \A q \in DOMAIN node \ {p} : node'[q] = node[q]
    BY <1>3
  <1>5. node'[p] \in Content /\ Same(p)
    <2> DEFINE r == node[p]
               s == [r EXCEPT ![side] = v]
    <2>1. r \in Content
      BY <1>3
    <2> HIDE DEF r
    <2>2. s \in Content /\ s.bit = r.bit /\ s.number = r.number
      BY <2>1, FieldSet
    <2>3. node'[p] = s
      BY <1>4 DEF r
    <2> HIDE DEF s
    <2> QED BY <2>2, <2>3 DEF Same, r
  <1>6. \A q \in DOMAIN node : node'[q] \in Content /\ Same(q)
    BY <1>3, <1>4, <1>5 DEF Same
  <1>7. \A q \in LiveNodes : Same(q)
    BY <1>6, LiveIs
  <1>8. Places' = Places
    <2>1. {q \in LiveNodes' : node'[q].bit > 1} = {q \in LiveNodes : node[q].bit > 1}
      BY <1>2, <1>7 DEF Same
    <2> QED BY <2>1 DEF Places
  <1>9. ASSUME NEW f \in Places PROVE Deref(f)' = Deref(f)
    <2>1. CASE f = Root
      BY <2>1 DEF Deref
    <2>2. CASE f # Root
      <3>1. f[1] \in LiveNodes /\ f[1] # p
        BY <2>2, PlaceIs
      <3>2. node'[f[1]] = node[f[1]]
        BY <1>4, <3>1, LiveIs
      <3> QED BY <2>2, <3>2 DEF Deref
    <2> QED BY <2>1, <2>2
  <1> QED BY <1>1, <1>2, <1>4, <1>6, <1>7, <1>8, <1>9

LEMMA CountAtLeafKeeps == ASSUME RadixInv, CountAtLeaf PROVE RadixInv'
  <1>0. TypeOK /\ HeapInv /\ Joined /\ Ordered /\ pc = "add"
    BY DEF RadixInv, CountAtLeaf, Adding
  <1>1. PICK p : p = here
    OBVIOUS
  <1>2. PICK side \in {"zero", "one"} : side = Side(number, 1)
    BY DEF Side
  <1>3. Active = Places /\ stack = << >> /\ p \in LiveNodes /\ node[p].bit = 1
    BY <1>1, AddIs DEF CountAtLeaf
  <1>4. node[p] \in Content /\ p \in DOMAIN node
    BY <1>0, <1>3, LiveIs
  <1>5. node[p][side] + 1 \in Nat
    BY <1>4 DEF Content
  <1>6. /\ node' = [node EXCEPT ![p][side] = node[p][side] + 1] /\ pc' = "read"
        /\ UNCHANGED <<heapVars, tree, number, bitPos, parent, limit, buffer, stack, written, reads>>
    BY <1>1, <1>2, <1>4 DEF CountAtLeaf
  <1>7. /\ HeapInv' /\ HeapTypeOK' /\ LiveNodes' = LiveNodes /\ Places' = Places
        /\ DOMAIN node' = DOMAIN node /\ \A q \in DOMAIN node : node'[q] \in Content
        /\ \A q \in LiveNodes : Same(q)
        /\ \A f \in Places : Deref(f)' = Deref(f)
    BY <1>0, <1>3, <1>5, <1>6, LeafCounted
  <1>8. Active' = Active
    BY <1>3, <1>6, <1>7 DEF Active, Done
  <1>9. Joined' /\ Ordered'
    BY <1>0, <1>3, <1>7, <1>8, ShapeStays
  <1>10. TypeOK' /\ AddOK' /\ StackOK'
    BY <1>0, <1>3, <1>6, <1>7, NoFrames DEF TypeOK, Content, AddOK
  <1> QED BY <1>6, <1>7, <1>9, <1>10 DEF RadixInv

-----------------------------------------------------------------------------
(* Frames *)

LEMMA TailIs ==
  ASSUME StackOK, stack # << >>
  PROVE  /\ Len(stack) \in Nat /\ Len(stack) >= 1 /\ DOMAIN stack = 1..Len(stack) /\ Frame = stack[1]
         /\ Tail(stack) \in Seq(Frames) /\ Len(Tail(stack)) = Len(stack) - 1
         /\ DOMAIN Tail(stack) = 1..(Len(stack) - 1)
         /\ \A i \in 1..(Len(stack) - 1) : Tail(stack)[i] = stack[i + 1]
         /\ \A i \in 1..Len(stack) : stack[i] \in Frames /\ FrameOK(i)
  <1>1. stack \in Seq(Frames) /\ \A i \in DOMAIN stack : FrameOK(i)
    BY DEF StackOK
  <1>2. Len(stack) \in Nat /\ Len(stack) >= 1 /\ DOMAIN stack = 1..Len(stack)
    BY <1>1
  <1>3. /\ Tail(stack) \in Seq(Frames) /\ Len(Tail(stack)) = Len(stack) - 1
        /\ \A i \in 1..(Len(stack) - 1) : Tail(stack)[i] = stack[i + 1]
    BY <1>1, <1>2
  <1>4. DOMAIN Tail(stack) = 1..(Len(stack) - 1)
    BY <1>3
  <1>5. \A i \in 1..Len(stack) : stack[i] \in Frames
    BY <1>1, <1>2
  <1> QED BY <1>1, <1>2, <1>3, <1>4, <1>5 DEF Frame

\* The frames below the innermost are in live nodes above it, each in another.
LEMMA FramesAre ==
  ASSUME TypeOK, HeapInv, Joined, StackOK, stack # << >>
  PROVE  /\ Frame.place \in Active /\ Frame.at \in {"enter", "one", "leave"}
         /\ top = NULL \/ top \in LiveNodes
         /\ Frame.at # "enter" => top # NULL
         /\ Frame.at = "one" => node[top].bit > 1
         /\ Len(stack) = 1 => Frame.place = Root
         /\ Len(stack) >= 2 => \E side \in Called(stack[2].at) : Frame.place = <<Deref(stack[2].place), side>>
         /\ \A i \in 2..Len(stack) : /\ Deref(stack[i].place) \in LiveNodes /\ Deref(stack[i].place) # top
                                     /\ stack[i].place # Frame.place /\ stack[i].place \in Active
                                     /\ top # NULL => node[top].bit < node[Deref(stack[i].place)].bit
         /\ \A i \in 1..Len(stack) :
              stack[i].place = Root \/ \E j \in 2..Len(stack) : stack[i].place[1] = Deref(stack[j].place)
  <1>1. /\ Len(stack) \in Nat /\ Len(stack) >= 1 /\ DOMAIN stack = 1..Len(stack) /\ Frame = stack[1]
        /\ \A i \in 1..Len(stack) : stack[i] \in Frames /\ FrameOK(i)
    BY TailIs
  <1>2. FrameOK(1) /\ Frame \in Frames
    BY <1>1
  <1>3. /\ Frame.place \in Active /\ Frame.at \in {"enter", "one", "leave"}
        /\ Frame.at # "enter" => top # NULL
        /\ Frame.at = "one" => node[top].bit > 1
        /\ Len(stack) = 1 => Frame.place = Root
        /\ \A j \in 1..Len(stack) : 1 < j /\ top # NULL => node[top].bit < node[Deref(stack[j].place)].bit
    BY <1>1, <1>2 DEF FrameOK, Frames, top
  <1>4. top = NULL \/ top \in LiveNodes
    BY <1>3 DEF Joined, top
  <1>5. ASSUME NEW i \in 2..Len(stack)
        PROVE  /\ Deref(stack[i].place) \in LiveNodes /\ Deref(stack[i].place) # top
               /\ stack[i].place # Frame.place /\ stack[i].place \in Active
               /\ top # NULL => node[top].bit < node[Deref(stack[i].place)].bit
    <2>1. i \in 1..Len(stack) /\ i > 1 /\ 1 < i
      BY <1>1
    <2>2. FrameOK(i)
      BY <1>1, <2>1
    <2>3. stack[i].place \in Active /\ Deref(stack[i].place) # NULL
      BY <2>1, <2>2 DEF FrameOK
    <2>4. Deref(stack[i].place) \in LiveNodes
      BY <2>3 DEF Joined
    <2>5. top # NULL => node[top].bit < node[Deref(stack[i].place)].bit
      BY <1>3, <2>1
    <2>6. Deref(stack[i].place) # top
      <3>1. node[Deref(stack[i].place)].bit \in Nat
        BY <2>4, LiveIs
      <3> QED BY <2>3, <2>5, <3>1
    <2>7. stack[i].place # Frame.place
      BY <2>6 DEF top
    <2> QED BY <2>3, <2>4, <2>5, <2>6, <2>7
  <1>6. ASSUME NEW i \in 1..Len(stack)
        PROVE  /\ i = Len(stack) => stack[i].place = Root
               /\ i < Len(stack) => \E side \in Called(stack[i + 1].at) :
                                      stack[i].place = <<Deref(stack[i + 1].place), side>>
    <2>1. i = Len(stack) => stack[i].place = Root
      BY <1>1 DEF FrameOK
    <2>2. ASSUME i < Len(stack)
          PROVE  \E side \in Called(stack[i + 1].at) : stack[i].place = <<Deref(stack[i + 1].place), side>>
      <3>1. i + 1 \in 1..Len(stack) /\ i + 1 > 1 /\ (i + 1) - 1 = i
        BY <1>1, <2>2
      <3>2. FrameOK(i + 1)
        BY <1>1, <3>1
      <3>3. \/ stack[i + 1].at = "one" /\ stack[i].place = <<Deref(stack[i + 1].place), "zero">>
            \/ stack[i + 1].at = "leave" /\ stack[i].place = <<Deref(stack[i + 1].place), "one">>
        BY <3>1, <3>2 DEF FrameOK
      <3> QED BY <3>3 DEF Called
    <2> QED BY <2>1, <2>2
  <1>7. Len(stack) >= 2 => \E side \in Called(stack[2].at) : Frame.place = <<Deref(stack[2].place), side>>
    <2>1. 1 \in 1..Len(stack) /\ 1 + 1 = 2 /\ (Len(stack) >= 2 => 1 < Len(stack))
      BY <1>1
    <2> QED BY <1>1, <1>6, <2>1
  <1>8. ASSUME NEW i \in 1..Len(stack)
        PROVE  stack[i].place = Root \/ \E j \in 2..Len(stack) : stack[i].place[1] = Deref(stack[j].place)
    <2>1. CASE i = Len(stack)
      BY <1>6, <2>1
    <2>2. CASE i # Len(stack)
      <3>1. i < Len(stack) /\ i + 1 \in 2..Len(stack)
        <4>1. Len(stack) \in Nat
          BY <1>1
        <4> QED BY <2>2, <4>1
      <3>2. PICK side : stack[i].place = <<Deref(stack[i + 1].place), side>>
        BY <1>6, <3>1
      <3>3. stack[i].place[1] = Deref(stack[i + 1].place)
        BY <3>2
      <3> QED BY <3>1, <3>3
    <2> QED BY <2>1, <2>2
  <1> QED BY <1>3, <1>4, <1>5, <1>7, <1>8

\* A call returns: its frame goes, and what the others rest on has not changed.
LEMMA Popped ==
  ASSUME StackOK, stack # << >>, stack' = Tail(stack), pc' \in {"take", "release"},
         TypeOK, HeapInv, Joined, \A p \in LiveNodes : Same(p),
         \A i \in 2..Len(stack), f \in Active : f = stack[i].place => f \in Active' /\ Deref(f)' = Deref(f)
  PROVE  StackOK'
  <1>1. /\ Len(stack) \in Nat /\ Len(stack) >= 1 /\ DOMAIN stack = 1..Len(stack)
        /\ Tail(stack) \in Seq(Frames) /\ Len(Tail(stack)) = Len(stack) - 1
        /\ DOMAIN Tail(stack) = 1..(Len(stack) - 1)
        /\ \A i \in 1..(Len(stack) - 1) : Tail(stack)[i] = stack[i + 1]
        /\ \A i \in 1..Len(stack) : FrameOK(i)
    BY TailIs
  <1>2. /\ Len(stack') = Len(stack) - 1 /\ DOMAIN stack' = 1..(Len(stack) - 1) /\ stack' \in Seq(Frames)
        /\ \A i \in 1..(Len(stack) - 1) : stack'[i] = stack[i + 1]
    BY <1>1
  <1>3. ASSUME NEW i \in DOMAIN stack' PROVE FrameOK(i)'
    <2>1. i + 1 \in 2..Len(stack) /\ i + 1 \in 1..Len(stack) /\ i \in Nat /\ i >= 1
      BY <1>1, <1>2
    <2>2. PICK f : f = stack[i + 1]
      OBVIOUS
    <2>3. PICK p : p = Deref(f.place)
      OBVIOUS
    <2>4. stack'[i] = f /\ f.place \in Active' /\ Deref(f.place)' = p /\ node'[p].bit = node[p].bit
      <3>1. f.place \in Active /\ p \in LiveNodes
        BY <2>1, <2>2, <2>3, FramesAre
      <3>2. f.place \in Active' /\ Deref(f.place)' = Deref(f.place)
        BY <2>1, <2>2, <3>1
      <3>3. stack'[i] = f
        BY <1>1, <1>2, <2>1, <2>2
      <3>4. node'[p].bit = node[p].bit
        BY <3>1 DEF Same
      <3> QED BY <2>3, <3>2, <3>3, <3>4
    <2>5. FrameOK(i + 1)
      BY <1>1, <2>1
    <2>6. /\ i = Len(stack') => f.place = Root
          /\ f.at # "enter" => p # NULL
          /\ f.at = "one" => node'[p].bit > 1
      <3>1. /\ i + 1 = Len(stack) => f.place = Root
            /\ f.at # "enter" => p # NULL
            /\ f.at = "one" => node[p].bit > 1
        BY <2>2, <2>3, <2>5 DEF FrameOK
      <3>2. i = Len(stack') => i + 1 = Len(stack)
        <4>1. Len(stack) \in Nat /\ Len(stack') = Len(stack) - 1
          BY <1>1, <1>2
        <4> QED BY <4>1
      <3> QED BY <2>4, <3>1, <3>2
    <2>7. i > 1 => /\ p # NULL /\ node'[p].bit > 1
                   /\ \/ f.at = "one" /\ stack'[i - 1].place = <<p, "zero">>
                      \/ f.at = "leave" /\ stack'[i - 1].place = <<p, "one">>
      <3> SUFFICES ASSUME i > 1
                   PROVE  /\ p # NULL /\ node'[p].bit > 1
                          /\ \/ f.at = "one" /\ stack'[i - 1].place = <<p, "zero">>
                             \/ f.at = "leave" /\ stack'[i - 1].place = <<p, "one">>
        OBVIOUS
      <3>1. i - 1 \in 1..(Len(stack) - 1) /\ (i - 1) + 1 = i /\ i + 1 > 1 /\ (i + 1) - 1 = i
        BY <1>1, <1>2, <2>1
      <3>2. stack'[i - 1] = stack[i]
        BY <1>2, <3>1
      <3> QED BY <2>2, <2>3, <2>4, <2>5, <3>1, <3>2 DEF FrameOK
    <2>8. ASSUME NEW j \in DOMAIN stack', i < j, p # NULL
          PROVE  node'[p].bit < (node[Deref(stack[j].place)].bit)'
      <3>1. j + 1 \in 2..Len(stack) /\ j + 1 \in DOMAIN stack /\ i + 1 < j + 1
        BY <1>1, <1>2, <2>1, <2>8
      <3>2. node[p].bit < node[Deref(stack[j + 1].place)].bit
        BY <2>2, <2>3, <2>5, <2>8, <3>1 DEF FrameOK
      <3>3. stack'[j] = stack[j + 1]
        BY <1>2
      <3>4. PICK g : g = stack[j + 1]
        OBVIOUS
      <3>5. Deref(g.place)' = Deref(g.place) /\ node'[Deref(g.place)].bit = node[Deref(g.place)].bit
        <4>1. g.place \in Active /\ Deref(g.place) \in LiveNodes
          BY <3>1, <3>4, FramesAre
        <4> QED BY <3>1, <3>4, <4>1 DEF Same
      <3>6. node'[p].bit < node'[Deref(g.place)].bit
        BY <2>4, <3>2, <3>4, <3>5
      <3> QED BY <3>3, <3>4, <3>5, <3>6
    <2> QED BY <2>4, <2>6, <2>7, <2>8 DEF FrameOK
  <1>4. pc' \in {"read", "add", "end"} => stack' = << >>
    OBVIOUS
  <1> QED BY <1>2, <1>3, <1>4 DEF StackOK

\* The frames stay, at most the innermost goes on to its end.
LEMMA Kept ==
  ASSUME TypeOK, HeapInv, Joined, StackOK, stack # << >>, pc' \in {"take", "release"},
         stack' \in Seq(Frames), Len(stack') = Len(stack),
         \A i \in 1..Len(stack) : stack'[i].place = stack[i].place,
         \A i \in 2..Len(stack) : stack'[i].at = stack[i].at,
         stack'[1].at = stack[1].at \/ (stack'[1].at = "leave" /\ top # NULL),
         Active' = Active, \A f \in Active : Deref(f)' = Deref(f), \A p \in LiveNodes : Same(p)
  PROVE  StackOK'
  <1>1. /\ Len(stack) \in Nat /\ Len(stack) >= 1 /\ DOMAIN stack = 1..Len(stack) /\ Frame = stack[1]
        /\ \A i \in 1..Len(stack) : FrameOK(i)
    BY TailIs
  <1>2. DOMAIN stack' = 1..Len(stack)
    OBVIOUS
  <1>3. ASSUME NEW i \in 1..Len(stack) PROVE FrameOK(i)'
    <2>1. PICK f : f = stack[i].place
      OBVIOUS
    <2>2. PICK p : p = Deref(f)
      OBVIOUS
    <2>3. FrameOK(i)
      BY <1>1
    <2>4. /\ f \in Active /\ (i = Len(stack) => f = Root)
          /\ stack[i].at # "enter" => p # NULL
          /\ stack[i].at = "one" => node[p].bit > 1
          /\ i > 1 => /\ p # NULL /\ node[p].bit > 1
                      /\ \/ stack[i].at = "one" /\ stack[i - 1].place = <<p, "zero">>
                         \/ stack[i].at = "leave" /\ stack[i - 1].place = <<p, "one">>
          /\ \A j \in DOMAIN stack : i < j /\ p # NULL => node[p].bit < node[Deref(stack[j].place)].bit
      BY <2>1, <2>2, <2>3 DEF FrameOK
    <2>5. stack'[i].place = f /\ f \in Active' /\ Deref(f)' = p /\ (p # NULL => Same(p))
      BY <2>1, <2>2, <2>4 DEF Joined
    <2>6. i # 1 => i \in 2..Len(stack) /\ i - 1 \in 1..Len(stack)
      BY <1>1
    <2>7. /\ stack'[i].at # "enter" => p # NULL
          /\ stack'[i].at = "one" => node'[p].bit > 1
      <3>1. CASE i = 1
        BY <1>1, <2>1, <2>2, <2>4, <2>5, <3>1 DEF Same, top
      <3>2. CASE i # 1
        BY <2>4, <2>5, <2>6, <3>2 DEF Same
      <3> QED BY <3>1, <3>2
    <2>8. i > 1 => /\ p # NULL /\ node'[p].bit > 1
                   /\ \/ stack'[i].at = "one" /\ stack'[i - 1].place = <<p, "zero">>
                      \/ stack'[i].at = "leave" /\ stack'[i - 1].place = <<p, "one">>
      BY <2>4, <2>5, <2>6 DEF Same
    <2>9. ASSUME NEW j \in DOMAIN stack', i < j, p # NULL
          PROVE  node'[p].bit < (node[Deref(stack[j].place)].bit)'
      <3>1. j \in DOMAIN stack /\ j \in 2..Len(stack) /\ j \in 1..Len(stack)
        BY <1>1, <1>2, <2>9
      <3>2. PICK g : g = stack[j].place
        OBVIOUS
      <3>3. g \in Active /\ Deref(g) \in LiveNodes
        BY <3>1, <3>2, FramesAre
      <3>4. node[p].bit < node[Deref(g)].bit
        BY <2>4, <2>9, <3>1, <3>2
      <3>5. stack'[j].place = g /\ Deref(g)' = Deref(g)
        BY <3>1, <3>2, <3>3
      <3>6. node'[Deref(g)].bit = node[Deref(g)].bit /\ node'[p].bit = node[p].bit
        BY <2>5, <2>9, <3>3 DEF Same
      <3>7. node'[p].bit < node'[Deref(g)].bit
        BY <3>4, <3>6
      <3> QED BY <3>5, <3>7
    <2>10. i = Len(stack') => f = Root
      BY <2>4
    <2> QED BY <2>5, <2>7, <2>8, <2>9, <2>10 DEF FrameOK
  <1> QED BY <1>2, <1>3 DEF StackOK

LEMMA Prepended ==
  ASSUME NEW S, NEW x \in S, NEW t \in Seq(S)
  PROVE  /\ <<x>> \o t \in Seq(S) /\ Len(<<x>> \o t) = Len(t) + 1 /\ (<<x>> \o t)[1] = x
         /\ \A i \in 1..Len(t) : (<<x>> \o t)[i + 1] = t[i]
  <1>1. /\ <<x>> \in Seq(S) /\ Len(<<x>>) = 1 /\ <<x>>[1] = x /\ Len(t) \in Nat
    OBVIOUS
  <1>2. ASSUME NEW i \in 1..Len(t) PROVE (<<x>> \o t)[i + 1] = t[i]
    <2>1. i + 1 \in 1..(1 + Len(t)) /\ i + 1 > 1 /\ (i + 1) - 1 = i
      BY <1>1
    <2> QED BY <1>1, <2>1
  <1> QED BY <1>1, <1>2

\* The frames after a call for a side of the node of the innermost one.
LEMMA PushIs ==
  ASSUME TypeOK, HeapInv, Joined, StackOK, stack # << >>, top # NULL,
         NEW side, NEW label, (label = "one" /\ side = "zero") \/ (label = "leave" /\ side = "one"),
         stack' = Call(side) \o Goto(label)
  PROVE  /\ stack' \in Seq(Frames) /\ Len(stack') = Len(stack) + 1
         /\ stack'[1].place = <<top, side>> /\ stack'[1].at = "enter"
         /\ stack'[2].place = Frame.place /\ stack'[2].at = label
         /\ \A i \in 2..Len(stack) : stack'[i + 1] = stack[i]
  <1>1. /\ Len(stack) \in Nat /\ Len(stack) >= 1 /\ DOMAIN stack = 1..Len(stack) /\ Frame = stack[1]
        /\ Tail(stack) \in Seq(Frames) /\ Len(Tail(stack)) = Len(stack) - 1
        /\ \A i \in 1..(Len(stack) - 1) : Tail(stack)[i] = stack[i + 1]
        /\ \A i \in 1..Len(stack) : stack[i] \in Frames /\ FrameOK(i)
    BY TailIs
  <1>2. top \in LiveNodes /\ top \in Nat
    BY FramesAre, LiveIs
  <1> DEFINE new   == Enter(<<top, side>>)
             again == [Frame EXCEPT !.at = label]
  <1>3. /\ new \in Frames /\ new.place = <<top, side>> /\ new.at = "enter"
        /\ again \in Frames /\ again.place = Frame.place /\ again.at = label
    <2>1. Frame \in Frames /\ label \in {"one", "leave"} /\ side \in {"zero", "one"}
      BY <1>1
    <2>2. again \in Frames /\ again.place = Frame.place /\ again.at = label
      BY <2>1 DEF Frames
    <2>3. new \in Frames /\ new.place = <<top, side>> /\ new.at = "enter"
      BY <1>2, <2>1 DEF Enter, Frames
    <2> QED BY <2>2, <2>3
  <1>4. stack' = <<new>> \o (<<again>> \o Tail(stack))
    BY DEF Call, Goto
  <1> HIDE DEF new, again
  <1>5. /\ stack' \in Seq(Frames) /\ Len(stack') = Len(stack) + 1 /\ stack'[1] = new /\ stack'[2] = again
        /\ \A i \in 2..Len(stack) : stack'[i + 1] = stack[i]
    <2> DEFINE rest == Tail(stack)
               mid == <<again>> \o rest
    <2>1. rest \in Seq(Frames) /\ Len(rest) = Len(stack) - 1 /\ \A i \in 1..(Len(stack) - 1) : rest[i] = stack[i + 1]
      BY <1>1
    <2> HIDE DEF rest
    <2>2. mid \in Seq(Frames) /\ Len(mid) = Len(stack) /\ mid[1] = again /\ \A i \in 2..Len(stack) : mid[i] = rest[i - 1]
      <3>1. /\ mid \in Seq(Frames) /\ Len(mid) = Len(rest) + 1 /\ mid[1] = again
            /\ \A i \in 1..Len(rest) : mid[i + 1] = rest[i]
        BY <1>3, <2>1, Prepended
      <3>2. Len(rest) + 1 = Len(stack)
        BY <1>1, <2>1
      <3>3. ASSUME NEW i \in 2..Len(stack) PROVE i - 1 \in 1..Len(rest) /\ (i - 1) + 1 = i
        BY <2>1, <3>2
      <3>4. ASSUME NEW i \in 2..Len(stack) PROVE mid[i] = rest[i - 1]
        <4>1. mid[(i - 1) + 1] = rest[i - 1] /\ (i - 1) + 1 = i
          BY <3>1, <3>3
        <4> QED BY <4>1
      <3> QED BY <3>1, <3>2, <3>4
    <2> HIDE DEF mid
    <2>3. stack' = <<new>> \o mid
      BY <1>4 DEF mid, rest
    <2>4. /\ stack' \in Seq(Frames) /\ Len(stack') = Len(stack) + 1 /\ stack'[1] = new
          /\ \A i \in 1..Len(stack) : stack'[i + 1] = mid[i]
      <3>1. /\ <<new>> \o mid \in Seq(Frames) /\ Len(<<new>> \o mid) = Len(mid) + 1 /\ (<<new>> \o mid)[1] = new
            /\ \A i \in 1..Len(mid) : (<<new>> \o mid)[i + 1] = mid[i]
        BY <1>3, <2>2, Prepended
      <3> QED BY <2>2, <2>3, <3>1
    <2>5. stack'[2] = again
      <3>1. 1 \in 1..Len(stack) /\ 1 + 1 = 2
        BY <1>1
      <3> QED BY <2>2, <2>4, <3>1
    <2>6. ASSUME NEW i \in 2..Len(stack) PROVE stack'[i + 1] = stack[i]
      <3>1. i \in 1..Len(stack) /\ i - 1 \in 1..(Len(stack) - 1) /\ (i - 1) + 1 = i
        BY <1>1
      <3> QED BY <2>1, <2>2, <2>4, <3>1
    <2> QED BY <2>4, <2>5, <2>6
  <1> QED BY <1>3, <1>5

\* A call for a side of the node of the innermost frame.
LEMMA Pushed ==
  ASSUME TypeOK, HeapInv, Joined, Ordered, StackOK, stack # << >>, pc' \in {"take", "release"},
         top # NULL, node[top].bit > 1, UNCHANGED <<node, tree>>, Active' = Active,
         NEW side, NEW label, (label = "one" /\ side = "zero") \/ (label = "leave" /\ side = "one"),
         stack' = Call(side) \o Goto(label), <<top, side>> \in Active
  PROVE  StackOK'
  <1>1. /\ Len(stack) \in Nat /\ Len(stack) >= 1 /\ DOMAIN stack = 1..Len(stack) /\ Frame = stack[1]
        /\ Tail(stack) \in Seq(Frames) /\ Len(Tail(stack)) = Len(stack) - 1
        /\ \A i \in 1..(Len(stack) - 1) : Tail(stack)[i] = stack[i + 1]
        /\ \A i \in 1..Len(stack) : stack[i] \in Frames /\ FrameOK(i)
    BY TailIs
  <1>2. top \in LiveNodes /\ top \in Nat
    BY FramesAre, LiveIs
  <1>5. /\ stack' \in Seq(Frames) /\ Len(stack') = Len(stack) + 1
        /\ stack'[1].place = <<top, side>> /\ stack'[1].at = "enter"
        /\ stack'[2].place = Frame.place /\ stack'[2].at = label
        /\ \A i \in 2..Len(stack) : stack'[i + 1] = stack[i]
    BY PushIs
  <1>6. DOMAIN stack' = 1..(Len(stack) + 1)
    BY <1>5
  <1>13. Len(stack) \in Nat /\ Len(stack) >= 1 /\ Len(stack') = Len(stack) + 1
    BY <1>1, <1>5
  <1>7. \A f : Deref(f)' = Deref(f)
    BY DEF Deref
  <1>8. ASSUME NEW i \in 1..Len(stack)
        PROVE  /\ stack'[i + 1].place = stack[i].place
               /\ i # 1 => stack'[i + 1].at = stack[i].at
               /\ i # 1 => i \in 2..Len(stack) /\ i - 1 \in 1..Len(stack)
    <2>1. i # 1 => i \in 2..Len(stack) /\ i - 1 \in 1..Len(stack)
      BY <1>1
    <2>2. i = 1 => i + 1 = 2
      OBVIOUS
    <2> QED BY <1>1, <1>5, <2>1, <2>2
  <1>9. ASSUME NEW k \in DOMAIN stack', k # 1 PROVE k - 1 \in 1..Len(stack) /\ (k - 1) + 1 = k
    BY <1>1, <1>6, <1>9
  <1>10. FrameOK(1)'
    <2>1. PICK f : f = <<top, side>>
      OBVIOUS
    <2>2. PICK p : p = Deref(f)
      OBVIOUS
    <2>3. stack'[1].place = f /\ stack'[1].at = "enter" /\ f \in Active' /\ Deref(f)' = p /\ 1 # Len(stack')
      BY <1>1, <1>5, <1>7, <2>1, <2>2
    <2>4. ASSUME NEW j \in DOMAIN stack', 1 < j, p # NULL PROVE node'[p].bit < (node[Deref(stack[j].place)].bit)'
      <3>1. PICK g : g = stack[j - 1].place
        OBVIOUS
      <3>2. j - 1 \in 1..Len(stack) /\ stack'[j].place = g
        BY <1>8, <1>9, <2>4, <3>1
      <3>3. f # Root /\ f[1] = top
        BY <1>2, <2>1, LiveIs DEF Root
      <3>4. p \in LiveNodes /\ node[p].bit < node[top].bit
        BY <2>1, <2>2, <2>4, <3>3 DEF Ordered, Joined
      <3>5. node[p].bit < node[Deref(g)].bit
        <4>1. CASE j - 1 = 1
          BY <1>1, <3>1, <3>4, <4>1 DEF top
        <4>2. CASE j - 1 # 1
          <5>1. j - 1 \in 2..Len(stack)
            BY <1>8, <3>2, <4>2
          <5>2. Deref(g) \in LiveNodes /\ node[top].bit < node[Deref(g)].bit
            BY <3>1, <5>1, FramesAre
          <5>3. node[p].bit \in Nat /\ node[top].bit \in Nat /\ node[Deref(g)].bit \in Nat
            BY <1>2, <3>4, <5>2, LiveIs
          <5> QED BY <3>4, <5>2, <5>3
        <4> QED BY <4>1, <4>2
      <3> QED BY <1>7, <3>2, <3>5
    <2>5. ~(1 > 1) /\ ~(1 = Len(stack'))
      BY <2>3
    <2>6. ~(stack'[1].at = "one") /\ ~(stack'[1].at # "enter")
      BY <2>3

    <2> QED BY <2>3, <2>4, <2>5, <2>6 DEF FrameOK
  <1>11. ASSUME NEW i \in 1..Len(stack) PROVE FrameOK(i + 1)'
    <2>1. PICK f : f = stack[i].place
      OBVIOUS
    <2>2. PICK p : p = Deref(f)
      OBVIOUS
    <2>3. FrameOK(i)
      BY <1>1
    <2>4. /\ f \in Active /\ (i = Len(stack) => f = Root)
          /\ stack[i].at # "enter" => p # NULL
          /\ stack[i].at = "one" => node[p].bit > 1
          /\ i > 1 => /\ p # NULL /\ node[p].bit > 1
                      /\ \/ stack[i].at = "one" /\ stack[i - 1].place = <<p, "zero">>
                         \/ stack[i].at = "leave" /\ stack[i - 1].place = <<p, "one">>
          /\ \A j \in DOMAIN stack : i < j /\ p # NULL => node[p].bit < node[Deref(stack[j].place)].bit
      BY <2>1, <2>2, <2>3 DEF FrameOK
    <2>5. stack'[i + 1].place = f /\ f \in Active' /\ Deref(f)' = p
      BY <1>7, <1>8, <2>1, <2>2, <2>4
    <2>6. i + 1 = Len(stack') => f = Root
      <3>1. i + 1 = Len(stack') => i = Len(stack)
        BY <1>13
      <3> QED BY <2>4, <3>1
    <2>7. /\ p # NULL /\ node'[p].bit > 1
          /\ \/ stack'[i + 1].at = "one" /\ stack'[(i + 1) - 1].place = <<p, "zero">>
             \/ stack'[i + 1].at = "leave" /\ stack'[(i + 1) - 1].place = <<p, "one">>
      <3>0. (i + 1) - 1 = i
        OBVIOUS
      <3>1. CASE i = 1
        <4>1. p = top /\ stack'[i + 1].at = label /\ stack'[i].place = <<top, side>>
          BY <1>1, <1>5, <2>1, <2>2, <3>1 DEF top
        <4> QED BY <3>0, <4>1
      <3>2. CASE i # 1
        <4>1. i > 1 /\ i - 1 \in 1..Len(stack) /\ (i - 1) + 1 = i /\ stack'[i + 1].at = stack[i].at
          <5>1. i > 1 /\ (i - 1) + 1 = i
            BY <1>13, <3>2
          <5> QED BY <1>8, <3>2, <5>1
        <4>2. stack'[i].place = stack[i - 1].place
          BY <1>8, <4>1
        <4> QED BY <2>4, <3>0, <4>1, <4>2
      <3> QED BY <3>1, <3>2
    <2>8. ASSUME NEW j \in DOMAIN stack', i + 1 < j PROVE node'[p].bit < (node[Deref(stack[j].place)].bit)'
      <3>1. PICK g : g = stack[j - 1].place
        OBVIOUS
      <3>0. j \in 1..(Len(stack) + 1) /\ i \in Nat /\ i >= 1
        BY <1>6
      <3>4. j # 1 /\ i < j - 1
        BY <1>13, <2>8, <3>0
      <3>2. j - 1 \in 1..Len(stack) /\ stack'[j].place = g /\ i < j - 1
        <4>1. j - 1 \in 1..Len(stack) /\ (j - 1) + 1 = j
          BY <1>9, <3>4
        <4>2. stack'[(j - 1) + 1].place = stack[j - 1].place
          BY <1>8, <4>1
        <4> QED BY <3>1, <3>4, <4>1, <4>2
      <3>3. node[p].bit < node[Deref(g)].bit
        BY <1>1, <2>4, <2>7, <3>1, <3>2
      <3> QED BY <1>7, <3>2, <3>3
    <2> QED BY <2>5, <2>6, <2>7, <2>8 DEF FrameOK
  <1>12. ASSUME NEW k \in DOMAIN stack' PROVE FrameOK(k)'
    <2>1. CASE k = 1
      BY <1>10, <2>1
    <2>2. CASE k # 1
      <3>1. PICK i \in 1..Len(stack) : i + 1 = k
        BY <1>9, <2>2
      <3>2. FrameOK(i + 1)'
        BY <1>11
      <3> QED BY <3>1, <3>2
    <2> QED BY <2>1, <2>2
  <1> QED BY <1>5, <1>12 DEF StackOK

-----------------------------------------------------------------------------
(* Taking numbers *)

TakeKeeps(buf) == pc' = "take" /\ buffer' = buf /\ takeUnchanged

\* A step of the recursion that changes no node.
LEMMA TakeMovesOn ==
  ASSUME RadixInv, pc = "take", TakeKeeps(buffer), UNCHANGED <<heapVars, node, tree>>, StackOK'
  PROVE  RadixInv'
  <1>0. TypeOK /\ HeapInv /\ Joined /\ Ordered /\ Len(buffer) <= limit
    BY DEF RadixInv
  <1>1. pc' = "take" /\ buffer' = buffer /\ UNCHANGED <<number, bitPos, parent, limit, written, reads>>
    BY DEF TakeKeeps, takeUnchanged
  <1>2. /\ HeapInv' /\ HeapTypeOK' /\ LiveNodes' = LiveNodes /\ Places' = Places
        /\ \A f : Deref(f)' = Deref(f)
        /\ \A p : Same(p)
    BY <1>0, NothingMoves
  <1>3. Active' = Active
    BY <1>1, <1>2 DEF Active, Done
  <1>4. Joined' /\ Ordered'
    BY <1>0, <1>2, <1>3, ShapeStays
  <1>5. TypeOK'
    BY <1>0, <1>1, <1>2 DEF TypeOK
  <1>6. AddOK'
    BY <1>1 DEF AddOK
  <1> QED BY <1>0, <1>1, <1>2, <1>4, <1>5, <1>6 DEF RadixInv

LEMMA ActiveStays ==
  ASSUME TypeOK, HeapInv, UNCHANGED <<heapVars, node, tree>>, pc = "take", pc' = "take"
  PROVE  Active' = Active /\ (\A f : Deref(f)' = Deref(f)) /\ (\A p : Same(p)) /\ Active = Places
  <1>1. Places' = Places /\ (\A f : Deref(f)' = Deref(f)) /\ \A p : Same(p)
    BY NothingMoves
  <1> QED BY <1>1 DEF Active, Done

LEMMA TakeNothingKeeps == ASSUME RadixInv, TakeNothing PROVE RadixInv'
  <1>1. /\ pc = "take" /\ stack # << >> /\ stack' = Tail(stack) /\ TakeKeeps(buffer)
        /\ UNCHANGED <<heapVars, node, tree>> /\ pc' = "take"
    BY DEF TakeNothing, TakeKeeps, At
  <1>2. TypeOK /\ HeapInv /\ Joined /\ StackOK
    BY DEF RadixInv
  <1>3. Active' = Active /\ (\A f : Deref(f)' = Deref(f)) /\ \A p : Same(p)
    BY <1>1, <1>2, ActiveStays
  <1>4. \A i \in 2..Len(stack), f \in Active : f = stack[i].place => f \in Active' /\ Deref(f)' = Deref(f)
    BY <1>3
  <1>5. StackOK'
    BY <1>1, <1>2, <1>3, <1>4, Popped
  <1> QED BY <1>1, <1>5, TakeMovesOn

LEMMA LeafDoneKeeps == ASSUME RadixInv, LeafDone PROVE RadixInv'
  <1>1. /\ pc = "take" /\ stack # << >> /\ top # NULL /\ stack' = Goto("leave") /\ TakeKeeps(buffer)
        /\ UNCHANGED <<heapVars, node, tree>> /\ pc' = "take"
    BY DEF LeafDone, TakeKeeps, At
  <1>2. TypeOK /\ HeapInv /\ Joined /\ StackOK
    BY DEF RadixInv
  <1>3. Active' = Active /\ (\A f : Deref(f)' = Deref(f)) /\ \A p : Same(p)
    BY <1>1, <1>2, ActiveStays
  <1>4. /\ stack' \in Seq(Frames) /\ Len(stack') = Len(stack)
        /\ \A i \in 1..Len(stack) : stack'[i].place = stack[i].place
        /\ \A i \in 2..Len(stack) : stack'[i].at = stack[i].at
        /\ stack'[1].at = "leave"
    <2> DEFINE rest == Tail(stack)
               again == [Frame EXCEPT !.at = "leave"]
    <2>1. /\ Len(stack) \in Nat /\ Len(stack) >= 1 /\ Frame = stack[1]
          /\ rest \in Seq(Frames) /\ Len(rest) = Len(stack) - 1
          /\ \A i \in 1..(Len(stack) - 1) : rest[i] = stack[i + 1]
          /\ \A i \in 1..Len(stack) : stack[i] \in Frames
      BY <1>1, <1>2, TailIs
    <2>2. Frame \in Frames
      BY <2>1
    <2>3. again \in Frames /\ again.place = stack[1].place /\ again.at = "leave"
      BY <2>1, <2>2 DEF Frames
    <2> HIDE DEF rest, again
    <2>4. stack' = <<again>> \o rest
      BY <1>1 DEF Goto, rest, again
    <2>5. /\ stack' \in Seq(Frames) /\ Len(stack') = Len(rest) + 1 /\ stack'[1] = again
          /\ \A i \in 1..Len(rest) : stack'[i + 1] = rest[i]
      BY <2>1, <2>3, <2>4, Prepended
    <2>6. ASSUME NEW i \in 2..Len(stack) PROVE stack'[i] = stack[i]
      <3>1. i - 1 \in 1..(Len(stack) - 1) /\ (i - 1) + 1 = i
        BY <2>1
      <3>2. stack'[(i - 1) + 1] = rest[i - 1] /\ rest[i - 1] = stack[(i - 1) + 1]
        BY <2>1, <2>5, <3>1
      <3> QED BY <3>1, <3>2
    <2>7. \A i \in 1..Len(stack) : i = 1 \/ i \in 2..Len(stack)
      BY <2>1
    <2>8. Len(stack') = Len(stack)
      BY <2>1, <2>5
    <2> QED BY <2>3, <2>5, <2>6, <2>7, <2>8
  <1>5. StackOK'
    BY <1>1, <1>2, <1>3, <1>4, Kept
  <1> QED BY <1>1, <1>5, TakeMovesOn

LEMMA CallIs ==
  ASSUME stack' = Call("zero") \o Goto("one") \/ stack' = Call("one") \o Goto("leave")
  PROVE  \E side, label : /\ (label = "one" /\ side = "zero") \/ (label = "leave" /\ side = "one")
                          /\ stack' = Call(side) \o Goto(label)
  <1>1. CASE stack' = Call("zero") \o Goto("one")
    <2> WITNESS "zero", "one"
    <2> QED BY <1>1
  <1>2. CASE stack' = Call("one") \o Goto("leave")
    <2> WITNESS "one", "leave"
    <2> QED BY <1>2
  <1> QED BY <1>1, <1>2

LEMMA TakeFromSubtreeKeeps == ASSUME RadixInv, TakeFromSubtree PROVE RadixInv'
  <1>1. /\ pc = "take" /\ stack # << >> /\ top # NULL /\ node[top].bit > 1 /\ TakeKeeps(buffer)
        /\ UNCHANGED <<heapVars, node, tree>> /\ pc' = "take"
    BY DEF TakeFromSubtree, TakeKeeps
  <1>2. TypeOK /\ HeapInv /\ Joined /\ Ordered /\ StackOK
    BY DEF RadixInv
  <1>3. Active' = Active /\ Active = Places
    BY <1>1, <1>2, ActiveStays
  <1>4. top \in LiveNodes
    BY <1>1, <1>2, FramesAre
  <1>5. <<top, "zero">> \in Active /\ <<top, "one">> \in Active
    BY <1>1, <1>2, <1>3, <1>4, PlaceIs
  <1>6. PICK side, label : /\ (label = "one" /\ side = "zero") \/ (label = "leave" /\ side = "one")
                           /\ stack' = Call(side) \o Goto(label)
    <2>1. \/ stack' = Call("zero") \o Goto("one")
          \/ stack' = Call("one") \o Goto("leave")
      BY DEF TakeFromSubtree
    <2> QED BY <2>1, CallIs
  <1>7. StackOK'
    <2>1. <<top, side>> \in Active
      BY <1>5, <1>6
    <2> QED BY <1>1, <1>2, <1>3, <1>6, <2>1, Pushed
  <1> QED BY <1>1, <1>7, TakeMovesOn

LEMMA TakeFromLeafKeeps == ASSUME RadixInv, TakeFromLeaf PROVE RadixInv'
  <1>0. TypeOK /\ HeapInv /\ Joined /\ Ordered /\ StackOK
    BY DEF RadixInv
  <1>1. PICK p : p = top
    OBVIOUS
  <1>2. PICK side \in {"zero", "one"} : side = TakenSide
    BY DEF TakenSide
  <1>3. /\ pc = "take" /\ stack # << >> /\ p # NULL /\ node[p].bit = 1 /\ Room
        /\ node[p].zero > 0 \/ node[p].one > 0
        /\ buffer' = Append(buffer, LET even == (node[p].number \div 2) * 2 IN IF side = "zero" THEN even ELSE even + 1)
        /\ UNCHANGED <<heapVars, tree, pc, stack, number, bitPos, parent, limit, written, reads>>
    BY <1>1, <1>2 DEF TakeFromLeaf, At, LeafHasNumber, takeUnchanged
  <1>4. p \in LiveNodes
    BY <1>0, <1>1, <1>3, FramesAre
  <1>5. node[p] \in Content /\ p \in DOMAIN node
    BY <1>0, <1>4, LiveIs
  <1>6. node[p][side] - 1 \in Nat
    BY <1>1, <1>2, <1>3, <1>5 DEF Content, TakenSide
  <1>7. node' = [node EXCEPT ![p][side] = node[p][side] - 1]
    BY <1>1, <1>2, <1>5 DEF TakeFromLeaf
  <1>8. /\ HeapInv' /\ HeapTypeOK' /\ LiveNodes' = LiveNodes /\ Places' = Places
        /\ DOMAIN node' = DOMAIN node /\ \A q \in DOMAIN node : node'[q] \in Content
        /\ \A q \in LiveNodes : Same(q)
        /\ \A f \in Places : Deref(f)' = Deref(f)
    BY <1>0, <1>3, <1>4, <1>6, <1>7, LeafCounted
  <1>9. Active' = Active /\ Active = Places
    BY <1>3, <1>8 DEF Active, Done
  <1>10. Joined' /\ Ordered'
    BY <1>0, <1>8, <1>9, ShapeStays
  <1>11. buffer' \in Seq(Numbers) /\ Len(buffer') = Len(buffer) + 1
    <2> DEFINE even == (node[p].number \div 2) * 2
               x == IF side = "zero" THEN even ELSE even + 1
    <2>1. node[p].number \in Numbers
      BY <1>5 DEF Content
    <2>2. MaxBits \in Nat
      BY NumbersIn, PositionIs
    <2>3. even \in Numbers /\ even + 1 \in Numbers
      <3> HIDE DEF MaxBits
      <3>1. \A n \in 0..(2 * MaxBits - 1) : /\ (n \div 2) * 2 \in 0..(2 * MaxBits - 1)
                                            /\ (n \div 2) * 2 + 1 \in 0..(2 * MaxBits - 1)
        BY <2>2
      <3> QED BY <2>1, <3>1 DEF Numbers
    <2>4. x \in Numbers /\ buffer' = Append(buffer, x)
      BY <1>3, <2>3
    <2> HIDE DEF x
    <2> QED BY <1>0, <2>4 DEF TypeOK
  <1>12. Len(buffer') <= BufferSize /\ Len(buffer') <= limit
    <2>1. Len(buffer) \in Nat /\ limit \in Nat /\ BufferSize \in Nat /\ limit' = limit
      BY <1>0, <1>3, RadixAssumption DEF TypeOK
    <2>2. Len(buffer) < limit /\ Len(buffer) < BufferSize
      BY <1>3, <2>1 DEF Room
    <2> QED BY <1>11, <2>1, <2>2
  <1>13. TypeOK'
    BY <1>0, <1>3, <1>8, <1>11, <1>12, LiveIs DEF TypeOK, Content
  <1>14. AddOK' /\ limit' = limit
    BY <1>3 DEF AddOK
  <1>15. StackOK'
    <2>1. /\ stack' \in Seq(Frames) /\ Len(stack') = Len(stack) /\ stack' = stack /\ pc' = "take"
      BY <1>0, <1>3 DEF StackOK
    <2>2. \A f \in Active : Deref(f)' = Deref(f)
      BY <1>8, <1>9
    <2>3. /\ \A i \in 1..Len(stack) : stack'[i].place = stack[i].place
          /\ \A i \in 2..Len(stack) : stack'[i].at = stack[i].at
          /\ stack'[1].at = stack[1].at
      BY <2>1
    <2>4. stack # << >> /\ pc' \in {"take", "release"} /\ Active' = Active /\ \A q \in LiveNodes : Same(q)
      BY <1>3, <1>8, <1>9
    <2>5. /\ stack' \in Seq(Frames) /\ Len(stack') = Len(stack)
          /\ stack'[1].at = stack[1].at \/ (stack'[1].at = "leave" /\ top # NULL)
      <3>1. stack' \in Seq(Frames) /\ Len(stack') = Len(stack)
        BY <2>1
      <3>2. stack'[1].at = stack[1].at
        BY <2>3
      <3> QED BY <3>1, <3>2
    <2> QED BY <1>0, <2>2, <2>3, <2>4, <2>5, Kept
  <1> QED BY <1>8, <1>10, <1>12, <1>13, <1>14, <1>15 DEF RadixInv

\* The node of the innermost frame is released.
LEMMA NodeReleased ==
  ASSUME TypeOK, HeapInv, NEW p \in LiveNodes, Release(p)
  PROVE  HeapInv' /\ HeapTypeOK' /\ LiveNodes' = LiveNodes \ {p}
  <1>1. PICK b \in live : p = b + Word
    BY LiveIs
  <1>2. HeapInv' /\ live' = live \ {b}
    BY <1>1, ReleasedKeeps
  <1>3. LiveNodes' = LiveNodes \ {p}
    <2>1. \A d \in live : d + Word = b + Word => d = b
      BY LiveIs
    <2> QED BY <1>1, <1>2, <2>1 DEF LiveNodes
  <1> QED BY <1>2, <1>3 DEF HeapInv

\* The places without those in a node that is no longer live.
LEMMA PlacesWithout ==
  ASSUME TypeOK, HeapInv, NEW p \in LiveNodes, LiveNodes' = LiveNodes \ {p}, \A q \in LiveNodes : Same(q)
  PROVE  /\ Places' \subseteq Places
         /\ \A f \in Places : f \in Places' <=> f = Root \/ f[1] # p
         /\ \A f \in Places' : f = Root \/ f[1] \in LiveNodes'
  <1>1. {q \in LiveNodes' : node'[q].bit > 1} = {q \in LiveNodes : node[q].bit > 1} \ {p}
    BY DEF Same
  <1> DEFINE N == {q \in LiveNodes : node[q].bit > 1}
  <1>2. /\ Places = {Root} \cup {<<q, side>> : q \in N, side \in {"zero", "one"}}
        /\ Places' = {Root} \cup {<<q, side>> : q \in N \ {p}, side \in {"zero", "one"}}
    BY <1>1 DEF Places
  <1>3. \A q \in N : q # NULL /\ q \in LiveNodes
    BY LiveIs
  <1> HIDE DEF N
  <1>4. ASSUME NEW f \in Places', f # Root PROVE f[1] \in N /\ f[1] # p /\ f \in Places
    <2>1. PICK q \in N \ {p}, side \in {"zero", "one"} : f = <<q, side>>
      BY <1>2, <1>4
    <2> QED BY <1>2, <2>1
  <1>5. \A f \in Places : f = Root \/ f[1] = p \/ f \in Places'
    BY <1>2
  <1>6. Root \in Places /\ Root \in Places'
    BY <1>2
  <1>7. \A f \in Places : f \in Places' <=> f = Root \/ f[1] # p
    BY <1>4, <1>5, <1>6
  <1>8. \A f \in Places' : f = Root \/ f[1] \in LiveNodes'
    BY <1>3, <1>4
  <1> QED BY <1>4, <1>6, <1>7, <1>8

LEMMA WriteTakenKeeps == ASSUME RadixInv, WriteTaken PROVE RadixInv'
  <1>0. TypeOK /\ HeapInv /\ Joined /\ Ordered /\ StackOK /\ pc = "take" /\ Len(buffer) <= limit
    BY DEF RadixInv, WriteTaken
  <1> DEFINE taken == Len(buffer)
             over == TakesEnd(taken)
  <1>1. /\ stack = << >> /\ written' = written \o buffer
        /\ limit' = IF over THEN 0 ELSE limit - taken
        /\ pc' = IF over THEN "read" ELSE "take"
        /\ stack' = IF over THEN << >> ELSE <<Enter(Root)>>
        /\ buffer' = << >> /\ UNCHANGED <<heapVars, node, tree, number, bitPos, parent, reads>>
    BY DEF WriteTaken
  <1>2. taken \in Nat /\ limit \in Nat /\ BufferSize >= 0 /\ buffer \in Seq(Numbers) /\ written \in Seq(Numbers)
    BY <1>0, RadixAssumption DEF TypeOK
  <1> HIDE DEF over, taken
  <1>3. /\ HeapInv' /\ HeapTypeOK' /\ LiveNodes' = LiveNodes /\ Places' = Places
        /\ \A f : Deref(f)' = Deref(f)
        /\ \A p : Same(p)
    BY <1>0, <1>1, NothingMoves
  <1>4. pc' \in {"read", "take"}
    BY <1>1
  <1>5. Active' = Active /\ Active = Places
    BY <1>0, <1>3, <1>4 DEF Active, Done
  <1>6. Joined' /\ Ordered'
    BY <1>0, <1>3, <1>5, ShapeStays
  <1>7. limit' \in Nat
    BY <1>0, <1>1, <1>2 DEF taken
  <1>8. buffer' \in Seq(Numbers) /\ Len(buffer') = 0 /\ written' \in Seq(Numbers)
    BY <1>1, <1>2
  <1>9. TypeOK'
    BY <1>0, <1>1, <1>2, <1>3, <1>4, <1>7, <1>8 DEF TypeOK
  <1>10. StackOK'
    <2>1. CASE over
      BY <1>1, <2>1, NoFrames
    <2>2. CASE ~over
      <3>1. Root \in Active'
        BY <1>0, <1>5, PlaceIs
      <3> QED BY <1>1, <2>2, <3>1, FirstFrame
    <2> QED BY <2>1, <2>2
  <1>11. AddOK' /\ Len(buffer') <= limit'
    BY <1>4, <1>7, <1>8 DEF AddOK
  <1> QED BY <1>3, <1>6, <1>9, <1>10, <1>11 DEF RadixInv

LEMMA LeaveNodeKeeps == ASSUME RadixInv, LeaveNode PROVE RadixInv'
  <1>0. TypeOK /\ HeapInv /\ Joined /\ Ordered /\ StackOK /\ pc = "take" /\ Len(buffer) <= limit
    BY DEF RadixInv, LeaveNode
  <1>1. /\ stack # << >> /\ Frame.at = "leave" /\ stack' = Tail(stack) /\ pc' = "take" /\ TakeKeeps(buffer)
        /\ buffer' = buffer /\ UNCHANGED <<number, bitPos, parent, limit, written, reads>>
    BY <1>0 DEF LeaveNode, At, TakeKeeps, takeUnchanged
  <1>2. PICK p : p = top
    OBVIOUS
  <1>3. PICK f0 : f0 = Frame.place
    OBVIOUS
  <1>4. f0 \in Active /\ p # NULL /\ p \in LiveNodes /\ Deref(f0) = p /\ Active = Places
    <2>1. Frame.place \in Active /\ (top = NULL \/ top \in LiveNodes) /\ (Frame.at # "enter" => top # NULL)
      BY <1>0, <1>1, FramesAre
    <2> QED BY <1>0, <1>1, <1>2, <1>3, <2>1, NothingIsDone DEF top
  <1>5. CASE ~Empty(top)
    <2>1. UNCHANGED <<heapVars, node, tree>>
      BY <1>5 DEF LeaveNode
    <2>2. Active' = Active /\ (\A f : Deref(f)' = Deref(f)) /\ \A q : Same(q)
      BY <1>0, <1>1, <2>1, ActiveStays
    <2>3. \A i \in 2..Len(stack), f \in Active : f = stack[i].place => f \in Active' /\ Deref(f)' = Deref(f)
      BY <2>2
    <2>4. StackOK'
      BY <1>0, <1>1, <2>2, <2>3, Popped
    <2> QED BY <1>0, <1>1, <2>1, <2>4, TakeMovesOn
  <1>6. CASE Empty(top)
    <2>1. Release(p) /\ Store(node, f0, NULL)
      BY <1>2, <1>3, <1>6 DEF LeaveNode, Unlink
    <2>2. HeapInv' /\ HeapTypeOK' /\ LiveNodes' = LiveNodes \ {p}
      BY <1>0, <1>4, <2>1, NodeReleased
    <2>3. /\ DOMAIN node' = DOMAIN node /\ tree' \in Nat
          /\ \A q \in DOMAIN node' : node'[q] \in Content
          /\ \A q \in LiveNodes : Same(q)
          /\ \A f \in Places : Deref(f)' = IF f = f0 THEN NULL ELSE Deref(f)
      <3>1. PICK N : N = node
        OBVIOUS
      <3>2. Store(N, f0, NULL) /\ NULL \in Nat /\ f0 \in Places
        BY <1>4, <2>1, <3>1 DEF NULL
      <3>3. /\ LiveNodes \subseteq DOMAIN N /\ \A q \in LiveNodes : N[q] = node[q]
            /\ \A q \in DOMAIN N : N[q] \in Content
        BY <1>0, <3>1, LiveIs DEF TypeOK, Content
      <3> QED BY <1>0, <3>1, <3>2, <3>3, Stored
    <2>4. /\ Places' \subseteq Places
          /\ \A f \in Places : f \in Places' <=> f = Root \/ f[1] # p
          /\ \A f \in Places' : f = Root \/ f[1] \in LiveNodes'
      BY <1>0, <1>4, <2>2, <2>3, PlacesWithout
    <2>5. Active' = Places'
      BY <1>1 DEF Active, Done
    <2>6. ASSUME NEW f \in Active \ Active' PROVE f = f0 \/ Deref(f) = NULL
      <3>1. f \in Places /\ f # Root /\ f[1] = p
        BY <1>4, <2>4, <2>5
      <3>2. f[2] \in {"zero", "one"} /\ Deref(f) = node[p][f[2]]
        BY <1>0, <3>1, PlaceIs
      <3>3. node[p].zero = 0 /\ node[p].one = 0
        BY <1>2, <1>6 DEF Empty
      <3> QED BY <3>2, <3>3 DEF NULL
    <2>7. Joined' /\ Ordered'
      <3>1. Active' \subseteq Active /\ LiveNodes' = LiveNodes \ {Deref(f0)}
        BY <1>4, <2>2, <2>4, <2>5
      <3>2. /\ \A f \in Active' : IF f = f0 THEN Deref(f)' = NULL ELSE Deref(f)' = Deref(f)
            /\ \A f \in Active' : f = Root \/ f[1] \in LiveNodes'
            /\ \A q \in LiveNodes' : Same(q)
        BY <1>4, <2>2, <2>3, <2>4, <2>5
      <3> QED BY <1>0, <1>4, <2>6, <3>1, <3>2, Removed
    <2>8. StackOK'
      <3>1. ASSUME NEW i \in 2..Len(stack), NEW f \in Active, f = stack[i].place
            PROVE  f \in Active' /\ Deref(f)' = Deref(f)
        <4>1. i \in 1..Len(stack)
          OBVIOUS
        <4>2. f # f0 /\ (f = Root \/ \E j \in 2..Len(stack) : f[1] = Deref(stack[j].place))
          BY <1>0, <1>1, <1>3, <3>1, <4>1, FramesAre
        <4>3. \A j \in 2..Len(stack) : Deref(stack[j].place) # p
          BY <1>0, <1>1, <1>2, FramesAre
        <4> QED BY <1>4, <2>3, <2>4, <2>5, <4>2, <4>3
      <3> QED BY <1>0, <1>1, <2>3, <3>1, Popped
    <2>9. TypeOK'
      <3>1. LiveNodes' \subseteq DOMAIN node'
        BY <1>0, <2>2, <2>3, LiveIs
      <3> QED BY <1>0, <1>1, <2>2, <2>3, <3>1 DEF TypeOK, Content
    <2>10. AddOK'
      BY <1>1 DEF AddOK
    <2> QED BY <1>0, <1>1, <2>2, <2>7, <2>8, <2>9, <2>10 DEF RadixInv
  <1> QED BY <1>5, <1>6

-----------------------------------------------------------------------------
(* Releasing the tree *)

\* A step of the recursion keeps everything else.
LEMMA ReleaseMovesOn ==
  ASSUME RadixInv, pc = "release", releaseUnchanged, HeapInv', LiveNodes' \subseteq LiveNodes,
         Joined', Ordered', StackOK'
  PROVE  RadixInv'
  <1>1. /\ TypeOK /\ HeapInv /\ pc' = "release"
        /\ UNCHANGED <<node, tree, pc, number, bitPos, parent, limit, buffer, written, reads>>
    BY DEF RadixInv, releaseUnchanged
  <1>2. TypeOK'
    BY <1>1 DEF TypeOK, HeapInv
  <1>3. AddOK'
    BY <1>1 DEF AddOK
  <1> QED BY <1>1, <1>2, <1>3 DEF RadixInv

\* A call of release_tree returns: the place it was for is done, and the node in
\* it, if there was one, is no longer live.
LEMMA CallReturns ==
  ASSUME TypeOK, HeapInv, Joined, StackOK, pc = "release", pc' = "release", stack # << >>, stack' = Tail(stack),
         UNCHANGED <<node, tree>>, LiveNodes' = LiveNodes \ {top},
         top = NULL \/ Frame.at = "leave" \/ node[top].bit = 1
  PROVE  /\ Active' = Active \ {Frame.place}
         /\ \A f \in Active' : f = Root \/ f[1] \in LiveNodes'
  <1>1. PICK p : p = top
    OBVIOUS
  <1>2. PICK f0 : f0 = Frame.place
    OBVIOUS
  <1>3. /\ Len(stack) \in Nat /\ Len(stack) >= 1 /\ DOMAIN stack = 1..Len(stack) /\ Frame = stack[1]
        /\ Len(stack') = Len(stack) - 1 /\ DOMAIN stack' = 1..(Len(stack) - 1)
        /\ \A i \in 1..(Len(stack) - 1) : stack'[i] = stack[i + 1]
    BY TailIs
  <1>4. /\ f0 \in Active /\ (p = NULL \/ p \in LiveNodes)
        /\ Frame.at \in {"enter", "one", "leave"}
        /\ Frame.at # "enter" => p # NULL
        /\ Len(stack) = 1 => f0 = Root
        /\ Len(stack) >= 2 => \E side \in Called(stack[2].at) : f0 = <<Deref(stack[2].place), side>>
        /\ \A i \in 2..Len(stack) : Deref(stack[i].place) # p /\ stack[i].place # f0
        /\ \A i \in 1..Len(stack) :
             stack[i].place = Root \/ \E j \in 2..Len(stack) : stack[i].place[1] = Deref(stack[j].place)
    BY <1>1, <1>2, FramesAre
  <1>5. \A f : Deref(f)' = Deref(f)
    BY DEF Deref
  <1>6. \A q \in LiveNodes : Same(q)
    BY DEF Same
  <1>7. /\ NULL \notin LiveNodes /\ Root \in Places /\ Root[2] = "root"
        /\ \A f \in Places : f # Root => f[1] \in LiveNodes /\ node[f[1]].bit > 1
    BY LiveIs, PlaceIs DEF Root
  \* What is a place after the step.
  <1>8. /\ \A f : f \in Places' <=> f \in Places /\ (f = Root \/ f[1] # p)
        /\ \A f \in Places' : f = Root \/ f[1] \in LiveNodes'
    <2>1. CASE p = NULL
      <3>1. LiveNodes' = LiveNodes
        BY <1>1, <1>7, <2>1
      <3>2. Places' = Places
        BY <3>1 DEF Places
      <3> QED BY <1>7, <2>1, <3>1, <3>2
    <2>2. CASE p # NULL
      <3>1. p \in LiveNodes /\ LiveNodes' = LiveNodes \ {p}
        BY <1>1, <1>4, <2>2
      <3>2. /\ Places' \subseteq Places
            /\ \A f \in Places : f \in Places' <=> f = Root \/ f[1] # p
            /\ \A f \in Places' : f = Root \/ f[1] \in LiveNodes'
        BY <1>6, <3>1, PlacesWithout
      <3> QED BY <3>2
    <2> QED BY <2>1, <2>2
  <1> DEFINE Below(f)   == \E i \in 2..Len(stack) : f[1] = Deref(stack[i].place) /\ f[2] \in Called(stack[i].at)
             Resting(f) == \E i \in 2..Len(stack) : f = stack[i].place
             Own(f)     == f[1] = p /\ f[2] \in Called(Frame.at)
  \* What was done before.
  <1>9. \A f : f \in Done <=> f \in Places /\ (Own(f) \/ Below(f)) /\ f # f0 /\ ~Resting(f)
    <2>1. Done = {f \in Places : \E i \in DOMAIN stack : f[1] = Deref(stack[i].place) /\ f[2] \in Called(stack[i].at)}
                   \ {stack[i].place : i \in DOMAIN stack}
      BY DEF Done
    <2>2. \A i : i \in DOMAIN stack <=> i = 1 \/ i \in 2..Len(stack)
      BY <1>3
    <2>3. Deref(stack[1].place) = p /\ stack[1].place = f0 /\ Frame = stack[1]
      BY <1>1, <1>2, <1>3 DEF top
    <2> QED BY <2>1, <2>2, <2>3
  \* What is done after the step.
  <1>10. CASE Len(stack) >= 2
    <2>1. \A f : f \in Done' <=> f \in Places' /\ Below(f) /\ ~Resting(f)
      <3>1. stack' # << >>
        <4>1. Len(stack') # 0
          BY <1>3, <1>10
        <4> QED BY <4>1
      <3>2. Done' = {f \in Places' : \E i \in DOMAIN stack' :
                                       f[1] = (Deref(stack[i].place))' /\ f[2] \in Called(stack'[i].at)}
                      \ {stack'[i].place : i \in DOMAIN stack'}
        BY <3>1 DEF Done
      <3>3. \A i \in DOMAIN stack' : i + 1 \in 2..Len(stack) /\ stack'[i] = stack[i + 1]
        BY <1>3
      <3>4. \A i \in 2..Len(stack) : i - 1 \in DOMAIN stack' /\ stack'[i - 1] = stack[i]
        <4> SUFFICES ASSUME NEW i \in 2..Len(stack) PROVE i - 1 \in DOMAIN stack' /\ stack'[i - 1] = stack[i]
          OBVIOUS
        <4>1. i - 1 \in 1..(Len(stack) - 1) /\ (i - 1) + 1 = i
          BY <1>3
        <4> QED BY <1>3, <4>1
      <3>5. \A i \in DOMAIN stack' : (Deref(stack[i].place))' = Deref(stack[i + 1].place)
        <4> SUFFICES ASSUME NEW i \in DOMAIN stack' PROVE (Deref(stack[i].place))' = Deref(stack[i + 1].place)
          OBVIOUS
        <4>1. stack'[i] = stack[i + 1]
          BY <3>3
        <4> QED BY <4>1 DEF Deref
      <3>6. ASSUME NEW f
            PROVE  (\E i \in DOMAIN stack' : f[1] = (Deref(stack[i].place))' /\ f[2] \in Called(stack'[i].at)) <=> Below(f)
        <4>1. ASSUME NEW i \in DOMAIN stack', f[1] = (Deref(stack[i].place))', f[2] \in Called(stack'[i].at) PROVE Below(f)
          BY <3>3, <3>5, <4>1
        <4>2. ASSUME NEW i \in 2..Len(stack), f[1] = Deref(stack[i].place), f[2] \in Called(stack[i].at)
              PROVE  \E k \in DOMAIN stack' : f[1] = (Deref(stack[k].place))' /\ f[2] \in Called(stack'[k].at)
          <5>1. i - 1 \in DOMAIN stack' /\ stack'[i - 1] = stack[i] /\ (i - 1) + 1 = i
            BY <3>4
          <5>2. (Deref(stack[i - 1].place))' = Deref(stack[i].place)
            BY <3>5, <5>1
          <5> QED BY <4>2, <5>1, <5>2
        <4> QED BY <4>1, <4>2
      <3>7. ASSUME NEW f PROVE (\E i \in DOMAIN stack' : f = stack'[i].place) <=> Resting(f)
        <4>1. ASSUME NEW i \in DOMAIN stack', f = stack'[i].place PROVE Resting(f)
          BY <3>3, <4>1
        <4>2. ASSUME NEW i \in 2..Len(stack), f = stack[i].place PROVE \E k \in DOMAIN stack' : f = stack'[k].place
          <5>1. i - 1 \in DOMAIN stack' /\ stack'[i - 1] = stack[i]
            BY <3>4
          <5> QED BY <4>2, <5>1
        <4> QED BY <4>1, <4>2
      <3> QED BY <3>2, <3>6, <3>7
    <2>2. f0 \in Places' /\ Below(f0) /\ ~Resting(f0)
      <3>1. PICK side \in Called(stack[2].at) : f0 = <<Deref(stack[2].place), side>>
        BY <1>4, <1>10
      <3>2. 2 \in 2..Len(stack)
        BY <1>3, <1>10
      <3>3. f0[1] = Deref(stack[2].place) /\ f0[2] = side /\ f0[1] # p
        BY <1>4, <3>1, <3>2
      <3> QED BY <1>4, <1>8, <3>1, <3>2, <3>3 DEF Active
    <2>3. ~Below(Root)
      <3> SUFFICES ASSUME NEW i \in 2..Len(stack) PROVE "root" \notin Called(stack[i].at)
        BY <1>7
      <3>1. stack[i] \in Frames
        BY TailIs
      <3>2. stack[i].at \in {"enter", "one", "leave"}
        BY <3>1 DEF Frames
      <3> QED BY <3>2 DEF Called
    <2>4. \A f : f \in Active' <=> f \in Places' /\ (~Below(f) \/ Resting(f))
      BY <2>1 DEF Active
    <2>5. \A f : f \in Active <=> f \in Places /\ ((~Own(f) /\ ~Below(f)) \/ f = f0 \/ Resting(f))
      BY <1>9 DEF Active
    <2>6. \A f : Resting(f) => f = Root \/ f[1] # p
      <3> SUFFICES ASSUME NEW i \in 2..Len(stack), stack[i].place # Root PROVE stack[i].place[1] # p
        OBVIOUS
      <3>1. i \in 1..Len(stack)
        BY <1>3
      <3> QED BY <1>4, <3>1
    <2>7. \A f \in Places : f # Root /\ f[1] = p => Own(f)
      <3> SUFFICES ASSUME NEW f \in Places, f # Root, f[1] = p PROVE f[2] \in Called(Frame.at)
        OBVIOUS
      <3>1. p \in LiveNodes /\ node[p].bit > 1 /\ f[2] \in {"zero", "one"}
        BY PlaceIs
      <3>2. p # NULL /\ node[p].bit \in Nat
        BY <3>1, LiveIs
      <3>3. Frame.at = "leave"
        BY <1>1, <3>1, <3>2
      <3> QED BY <3>1, <3>3 DEF Called
    <2>8. ~Own(Root)
      <3>1. "root" \notin Called(Frame.at)
        BY <1>4 DEF Called
      <3> QED BY <1>7, <3>1
    <2>9. \A f \in Places : Own(f) <=> f # Root /\ f[1] = p
      BY <2>7, <2>8
    <2>10. \A f : f \in Active' <=> f \in Active /\ f # f0
      <3> HIDE DEF Own, Below, Resting
      <3> QED BY <1>8, <2>2, <2>4, <2>5, <2>6, <2>9
    <2>11. Active' = Active \ {f0}
      BY <2>10
    <2>12. \A f \in Active' : f \in Places'
      BY <2>4
    <2> QED BY <1>2, <1>8, <2>11, <2>12
  <1>11. CASE Len(stack) = 1
    <2>1. stack' = << >> /\ f0 = Root
      BY <1>3, <1>4, <1>11, TailIs
    <2>2. Active' = Places' \ {Root}
      BY <2>1 DEF Active, Done
    <2>3. \A f : ~Below(f) /\ ~Resting(f)
      BY <1>11
    <2>4. \A f : f \in Active <=> f \in Places /\ (~Own(f) \/ f = Root)
      BY <1>9, <2>1, <2>3 DEF Active
    <2>5. \A f \in Places : f # Root => (Own(f) <=> f[1] = p)
      <3> SUFFICES ASSUME NEW f \in Places, f # Root, f[1] = p PROVE f[2] \in Called(Frame.at)
        OBVIOUS
      <3>1. p \in LiveNodes /\ node[p].bit > 1 /\ f[2] \in {"zero", "one"}
        BY PlaceIs
      <3>2. p # NULL /\ node[p].bit \in Nat
        BY <3>1, LiveIs
      <3>3. Frame.at = "leave"
        BY <1>1, <3>1, <3>2
      <3> QED BY <3>1, <3>3 DEF Called
    <2>6. \A f : f \in Active' <=> f \in Active /\ f # f0
      <3> HIDE DEF Own, Below, Resting
      <3> QED BY <1>8, <2>1, <2>2, <2>4, <2>5
    <2>7. Active' = Active \ {f0}
      BY <2>6
    <2>8. \A f \in Active' : f \in Places'
      BY <2>2
    <2> QED BY <1>2, <1>8, <2>7, <2>8
  <1>12. Len(stack) >= 2 \/ Len(stack) = 1
    BY <1>3
  <1> QED BY <1>10, <1>11, <1>12

\* A call of release_tree for a side of a node: nothing else becomes done.
LEMMA CallGoes ==
  ASSUME TypeOK, HeapInv, Joined, StackOK, pc = "release", pc' = "release", stack # << >>,
         top # NULL, node[top].bit > 1, UNCHANGED <<heapVars, node, tree>>,
         NEW side, NEW label, (label = "one" /\ side = "zero") \/ (label = "leave" /\ side = "one"),
         label = "one" => Frame.at = "enter", label = "leave" => Frame.at = "one",
         stack' = Call(side) \o Goto(label)
  PROVE  Active' = Active /\ <<top, side>> \in Active
  <1>1. PICK p : p = top
    OBVIOUS
  <1>2. PICK f0 : f0 = Frame.place
    OBVIOUS
  <1>3. PICK g : g = <<p, side>>
    OBVIOUS
  <1>4. /\ Len(stack) \in Nat /\ Len(stack) >= 1 /\ DOMAIN stack = 1..Len(stack) /\ Frame = stack[1]
    BY TailIs
  <1>5. /\ stack' \in Seq(Frames) /\ Len(stack') = Len(stack) + 1
        /\ stack'[1].place = g /\ stack'[1].at = "enter"
        /\ stack'[2].place = f0 /\ stack'[2].at = label
        /\ \A i \in 2..Len(stack) : stack'[i + 1] = stack[i]
    BY <1>1, <1>2, <1>3, PushIs
  <1>6. p \in LiveNodes /\ side \in {"zero", "one"} /\ \A i \in 2..Len(stack) : Deref(stack[i].place) # p
    BY <1>1, FramesAre
  <1>7. g \in Places /\ g # Root /\ \A f \in Places : f[1] = p /\ f[2] = side => f = g
    <2>1. g \in Places /\ g # Root
      BY <1>1, <1>3, <1>6, PlaceIs
    <2>2. ASSUME NEW f \in Places, f[1] = p, f[2] = side PROVE f = g
      <3>1. f # Root
        BY <1>6, <2>2 DEF Root
      <3>2. f = <<f[1], f[2]>>
        BY <3>1, PlaceIs
      <3> QED BY <1>3, <2>2, <3>2
    <2> QED BY <2>1, <2>2
  <1>8. Places' = Places /\ \A f : Deref(f)' = Deref(f)
    BY NothingMoves
  <1> DEFINE Below(f)   == \E i \in 2..Len(stack) : f[1] = Deref(stack[i].place) /\ f[2] \in Called(stack[i].at)
             Resting(f) == \E i \in 2..Len(stack) : f = stack[i].place
             Own(f)     == f[1] = p /\ f[2] \in Called(Frame.at)
  <1>9. \A f : f \in Done <=> f \in Places /\ (Own(f) \/ Below(f)) /\ f # f0 /\ ~Resting(f)
    <2>1. Done = {f \in Places : \E i \in DOMAIN stack : f[1] = Deref(stack[i].place) /\ f[2] \in Called(stack[i].at)}
                   \ {stack[i].place : i \in DOMAIN stack}
      BY DEF Done
    <2>2. \A i : i \in DOMAIN stack <=> i = 1 \/ i \in 2..Len(stack)
      BY <1>4
    <2>3. Deref(stack[1].place) = p /\ stack[1].place = f0 /\ Frame = stack[1]
      BY <1>1, <1>2, <1>4 DEF top
    <2> QED BY <2>1, <2>2, <2>3
  <1>10. Called("enter") = {} /\ \A x : x \in Called(label) <=> x \in Called(Frame.at) \/ x = side
    BY DEF Called
  <1>11. \A f : f \in Done' <=> f \in Places /\ (Own(f) \/ f = g \/ Below(f)) /\ f # g /\ f # f0 /\ ~Resting(f)
    <2>1. stack' # << >>
      <3>1. Len(stack') # 0
        BY <1>4, <1>5
      <3> QED BY <3>1
    <2>2. Done' = {f \in Places : \E i \in DOMAIN stack' : f[1] = (Deref(stack[i].place))' /\ f[2] \in Called(stack'[i].at)}
                    \ {stack'[i].place : i \in DOMAIN stack'}
      BY <1>8, <2>1 DEF Done
    <2>3. DOMAIN stack' = 1..(Len(stack) + 1)
      BY <1>5
    <2>4. /\ 1 \in DOMAIN stack' /\ 2 \in DOMAIN stack'
          /\ \A i \in 2..Len(stack) : i + 1 \in DOMAIN stack'
          /\ \A i \in DOMAIN stack' : i = 1 \/ i = 2 \/ (i - 1 \in 2..Len(stack) /\ (i - 1) + 1 = i)
      BY <1>4, <2>3
    <2>5. \A i \in 2..Len(stack) : stack'[i + 1].place = stack[i].place /\ stack'[i + 1].at = stack[i].at
      BY <1>5
    <2>6. \A i \in DOMAIN stack' : \A f : f = stack'[i].place => (Deref(stack[i].place))' = Deref(f)
      BY <1>8 DEF Deref
    <2>7. Deref(f0) = p
      BY <1>1, <1>2 DEF top
    <2>8. ASSUME NEW f \in Places
          PROVE  (\E i \in DOMAIN stack' : f[1] = (Deref(stack[i].place))' /\ f[2] \in Called(stack'[i].at))
                   <=> Own(f) \/ f = g \/ Below(f)
      <3>1. ASSUME NEW i \in DOMAIN stack', f[1] = (Deref(stack[i].place))', f[2] \in Called(stack'[i].at)
            PROVE  Own(f) \/ f = g \/ Below(f)
        <4>1. CASE i = 1
          BY <1>5, <1>10, <3>1, <4>1
        <4>2. CASE i = 2
          <5>1. f[1] = p /\ f[2] \in Called(label)
            BY <1>5, <2>4, <2>6, <2>7, <3>1, <4>2
          <5> QED BY <1>7, <1>10, <5>1
        <4>3. CASE i - 1 \in 2..Len(stack) /\ (i - 1) + 1 = i
          <5>1. stack'[i].place = stack[i - 1].place /\ stack'[i].at = stack[i - 1].at
            BY <2>5, <4>3
          <5>2. f[1] = Deref(stack[i - 1].place) /\ f[2] \in Called(stack[i - 1].at)
            BY <2>6, <3>1, <5>1
          <5> QED BY <4>3, <5>2
        <4> QED BY <2>4, <4>1, <4>2, <4>3
      <3>2. ASSUME Own(f) \/ f = g
            PROVE  \E i \in DOMAIN stack' : f[1] = (Deref(stack[i].place))' /\ f[2] \in Called(stack'[i].at)
        <4>1. f[1] = p /\ f[2] \in Called(label)
          BY <1>3, <1>10, <3>2
        <4>2. (Deref(stack[2].place))' = p
          BY <1>5, <2>4, <2>6, <2>7
        <4> QED BY <1>5, <2>4, <4>1, <4>2
      <3>3. ASSUME NEW i \in 2..Len(stack), f[1] = Deref(stack[i].place), f[2] \in Called(stack[i].at)
            PROVE  \E k \in DOMAIN stack' : f[1] = (Deref(stack[k].place))' /\ f[2] \in Called(stack'[k].at)
        <4>1. (Deref(stack[i + 1].place))' = Deref(stack[i].place) /\ f[2] \in Called(stack'[i + 1].at)
          BY <2>4, <2>5, <2>6, <3>3
        <4> QED BY <2>4, <3>3, <4>1
      <3> QED BY <3>1, <3>2, <3>3
    <2>9. ASSUME NEW f PROVE (\E i \in DOMAIN stack' : f = stack'[i].place) <=> f = g \/ f = f0 \/ Resting(f)
      <3>1. ASSUME NEW i \in DOMAIN stack', f = stack'[i].place PROVE f = g \/ f = f0 \/ Resting(f)
        <4>1. CASE i = 1
          BY <1>5, <3>1, <4>1
        <4>2. CASE i = 2
          BY <1>5, <3>1, <4>2
        <4>3. CASE i - 1 \in 2..Len(stack) /\ (i - 1) + 1 = i
          <5>1. f = stack[i - 1].place
            BY <2>5, <3>1, <4>3
          <5> QED BY <4>3, <5>1
        <4> QED BY <2>4, <4>1, <4>2, <4>3
      <3>2. ASSUME NEW i \in 2..Len(stack), f = stack[i].place PROVE \E k \in DOMAIN stack' : f = stack'[k].place
        <4>1. i + 1 \in DOMAIN stack' /\ stack'[i + 1].place = f
          BY <2>4, <2>5, <3>2
        <4> QED BY <4>1
      <3>3. f = g \/ f = f0 => \E k \in DOMAIN stack' : f = stack'[k].place
        BY <1>5, <2>4
      <3> QED BY <3>1, <3>2, <3>3
    <2> DEFINE In(f) == \E i \in DOMAIN stack' : f[1] = (Deref(stack[i].place))' /\ f[2] \in Called(stack'[i].at)
               On(f) == \E i \in DOMAIN stack' : f = stack'[i].place
    <2>10. \A f : f \in Done' <=> f \in Places /\ In(f) /\ ~On(f)
      BY <2>2
    <2>11. \A f \in Places : In(f) <=> Own(f) \/ f = g \/ Below(f)
      BY <2>8
    <2>12. \A f : On(f) <=> f = g \/ f = f0 \/ Resting(f)
      BY <2>9
    <2> HIDE DEF In, On, Own, Below, Resting
    <2> QED BY <2>10, <2>11, <2>12
  <1>12. ~Own(g) /\ ~Below(g)
    <2>1. ~Own(g)
      BY <1>3 DEF Called
    <2>2. ~Below(g)
      BY <1>3, <1>6
    <2> QED BY <2>1, <2>2
  <1>13. g \notin Done
    BY <1>9, <1>12
  <1>14. Done' = Done
    <2> HIDE DEF Own, Below, Resting
    <2>1. \A f : f \in Done' <=> f \in Done
      BY <1>9, <1>11, <1>12
    <2>2. \A f \in Done : f \in Places
      BY <1>9
    <2>3. Done \subseteq Done' /\ Done' \subseteq Done
      BY <2>1
    <2> QED BY <2>3
  <1> QED BY <1>1, <1>3, <1>7, <1>8, <1>13, <1>14 DEF Active

LEMMA ReleaseSubtreeKeeps == ASSUME RadixInv, ReleaseSubtree PROVE RadixInv'
  <1>0. TypeOK /\ HeapInv /\ Joined /\ Ordered /\ StackOK
    BY DEF RadixInv
  <1>1. /\ pc = "release" /\ stack # << >> /\ top # NULL /\ node[top].bit > 1
        /\ UNCHANGED <<heapVars, node, tree>> /\ pc' = "release" /\ releaseUnchanged
    BY DEF ReleaseSubtree, releaseUnchanged
  <1>2. PICK side, label : /\ (label = "one" /\ side = "zero") \/ (label = "leave" /\ side = "one")
                           /\ label = "one" => Frame.at = "enter"
                           /\ label = "leave" => Frame.at = "one"
                           /\ stack' = Call(side) \o Goto(label)
    <2>1. CASE At("enter") /\ stack' = Call("zero") \o Goto("one")
      BY <2>1 DEF At
    <2>2. CASE At("one") /\ stack' = Call("one") \o Goto("leave")
      BY <2>2 DEF At
    <2> QED BY <2>1, <2>2 DEF ReleaseSubtree
  <1>3. Active' = Active /\ <<top, side>> \in Active
    BY <1>0, <1>1, <1>2, CallGoes
  <1>4. HeapInv' /\ LiveNodes' = LiveNodes /\ (\A f : Deref(f)' = Deref(f)) /\ \A q : Same(q)
    BY <1>0, <1>1, NothingMoves
  <1>5. Joined' /\ Ordered'
    BY <1>0, <1>3, <1>4, ShapeStays
  <1>6. StackOK'
    BY <1>0, <1>1, <1>2, <1>3, Pushed
  <1> QED BY <1>1, <1>4, <1>5, <1>6, ReleaseMovesOn

LEMMA ReleaseReturns ==
  ASSUME RadixInv, pc = "release", stack # << >>, stack' = Tail(stack), releaseUnchanged,
         HeapInv', LiveNodes' = LiveNodes \ {top}, top = NULL \/ Frame.at = "leave" \/ node[top].bit = 1
  PROVE  RadixInv'
  <1>0. TypeOK /\ HeapInv /\ Joined /\ Ordered /\ StackOK /\ UNCHANGED <<node, tree>> /\ pc' = "release"
    BY DEF RadixInv, releaseUnchanged
  <1>1. PICK f0 : f0 = Frame.place
    OBVIOUS
  <1>2. /\ Active' = Active \ {f0}
        /\ \A f \in Active' : f = Root \/ f[1] \in LiveNodes'
    BY <1>0, <1>1, CallReturns
  <1>3. f0 \in Active /\ Deref(f0) = top /\ \A i \in 2..Len(stack) : stack[i].place # f0
    BY <1>0, <1>1, FramesAre DEF top
  <1>4. \A f : Deref(f)' = Deref(f)
    BY <1>0 DEF Deref
  <1>5. \A q : Same(q)
    BY <1>0 DEF Same
  <1>6. Joined' /\ Ordered'
    <2>1. /\ Active' \subseteq Active /\ \A f \in Active \ Active' : f = f0 \/ Deref(f) = NULL
          /\ LiveNodes' = LiveNodes \ {Deref(f0)}
          /\ \A f \in Active' : IF f = f0 THEN Deref(f)' = NULL ELSE Deref(f)' = Deref(f)
          /\ \A q \in LiveNodes' : Same(q)
      BY <1>2, <1>3, <1>4, <1>5
    <2> QED BY <1>0, <1>2, <1>3, <2>1, Removed
  <1>7. StackOK'
    <2>1. \A i \in 2..Len(stack), f \in Active : f = stack[i].place => f \in Active' /\ Deref(f)' = Deref(f)
      BY <1>2, <1>3, <1>4
    <2> QED BY <1>0, <1>5, <2>1, Popped
  <1>8. LiveNodes' \subseteq LiveNodes
    OBVIOUS
  <1> QED BY <1>6, <1>7, <1>8, ReleaseMovesOn

LEMMA ReleaseNothingKeeps == ASSUME RadixInv, ReleaseNothing PROVE RadixInv'
  <1>1. /\ pc = "release" /\ stack # << >> /\ top = NULL /\ stack' = Tail(stack)
        /\ UNCHANGED heapVars /\ releaseUnchanged
    BY DEF ReleaseNothing, At
  <1>2. TypeOK /\ HeapInv
    BY DEF RadixInv
  <1>3. HeapInv' /\ LiveNodes' = LiveNodes
    <2>1. UNCHANGED <<heapVars, node, tree>>
      BY <1>1 DEF releaseUnchanged
    <2> QED BY <1>2, <2>1, NothingMoves
  <1>4. LiveNodes' = LiveNodes \ {top}
    BY <1>1, <1>2, <1>3, LiveIs
  <1> QED BY <1>1, <1>3, <1>4, ReleaseReturns

LEMMA ReleaseNodeKeeps == ASSUME RadixInv, ReleaseNode PROVE RadixInv'
  <1>1. /\ pc = "release" /\ stack # << >> /\ stack' = Tail(stack) /\ Release(top) /\ releaseUnchanged
        /\ Frame.at = "leave" \/ (top # NULL /\ node[top].bit = 1)
    BY DEF ReleaseNode, At
  <1>2. TypeOK /\ HeapInv /\ Joined /\ StackOK
    BY DEF RadixInv
  <1>3. PICK p : p = top
    OBVIOUS
  <1>4. p \in LiveNodes
    BY <1>1, <1>2, <1>3, FramesAre
  <1>5. HeapInv' /\ LiveNodes' = LiveNodes \ {top}
    BY <1>1, <1>2, <1>3, <1>4, NodeReleased
  <1> QED BY <1>1, <1>5, ReleaseReturns

LEMMA TerminateKeeps == ASSUME RadixInv, Terminate PROVE RadixInv'
  <1>1. /\ pc = "release" /\ stack = << >> /\ pc' = "end"
        /\ UNCHANGED <<heapVars, node, tree, number, bitPos, parent, limit, buffer, stack, written, reads>>
    BY DEF Terminate
  <1>2. TypeOK /\ HeapInv /\ Joined /\ Ordered
    BY DEF RadixInv
  <1>3. /\ HeapInv' /\ HeapTypeOK' /\ LiveNodes' = LiveNodes /\ Places' = Places
        /\ (\A f : Deref(f)' = Deref(f)) /\ \A q : Same(q)
    BY <1>1, <1>2, NothingMoves
  <1>4. Active' = Active
    BY <1>1, <1>3 DEF Active, Done
  <1>5. Joined' /\ Ordered'
    BY <1>2, <1>3, <1>4, ShapeStays
  <1>6. TypeOK' /\ AddOK'
    BY <1>1, <1>2, <1>3 DEF TypeOK, AddOK
  <1>7. StackOK'
    BY <1>1, NoFrames
  <1> QED BY <1>1, <1>3, <1>5, <1>6, <1>7 DEF RadixInv

LEMMA RadixStarts == Init => RadixInv
  <1> SUFFICES ASSUME Init PROVE RadixInv
    OBVIOUS
  <1>1. /\ InitHeap /\ node = [p \in {} |-> Leaf(0)] /\ tree = NULL /\ pc = "read" /\ number = 0 /\ bitPos = 0
        /\ limit = 0 /\ buffer = << >> /\ stack = << >> /\ written = << >> /\ reads = 0
    BY DEF Init
  <1>2. HeapInv /\ live = {}
    BY <1>1, HeapStarts DEF InitHeap
  <1>3. LiveNodes = {}
    BY <1>2 DEF LiveNodes
  <1>4. Places = {Root}
    BY <1>3 DEF Places
  <1>5. Deref(Root) = NULL
    BY <1>1 DEF Deref
  <1>6. Active \subseteq {Root}
    BY <1>4 DEF Active
  <1>7. Joined /\ Ordered
    BY <1>3, <1>5, <1>6 DEF Joined, Ordered
  <1>8. TypeOK
    <2>1. tree \in Nat /\ 0 \in 0..MaxReads /\ BufferSize >= 0
      BY <1>1, RadixAssumption DEF NULL
    <2>2. << >> \in Seq(Numbers) /\ Len(<< >>) = 0
      OBVIOUS
    <2>3. DOMAIN node = {}
      BY <1>1
    <2> QED BY <1>1, <1>2, <1>3, <2>1, <2>2, <2>3, NumbersIn DEF TypeOK, HeapInv
  <1>9. AddOK /\ StackOK /\ pc # "take"
    BY <1>1 DEF AddOK, StackOK, Frames
  <1> QED BY <1>2, <1>7, <1>8, <1>9 DEF RadixInv

LEMMA RadixStays == RadixInv /\ UNCHANGED vars => RadixInv'
  <1> SUFFICES ASSUME RadixInv, UNCHANGED vars PROVE RadixInv'
    OBVIOUS
  <1>1. /\ UNCHANGED <<header, word, freeSpace, initialized, cut, live>>
        /\ UNCHANGED <<node, tree, pc, number, bitPos, parent, limit, buffer, stack, written, reads>>
    BY DEF vars, treeVars, heapVars
  <1>2. HeapInv' /\ HeapTypeOK'
    <2>1. UNCHANGED heapVars
      BY <1>1 DEF heapVars
    <2> QED BY <2>1, HeapKeeps DEF RadixInv, HeapInv
  <1>3. LiveNodes' = LiveNodes
    BY <1>1 DEF LiveNodes
  <1>4. Places' = Places /\ (\A f : Deref(f)' = Deref(f)) /\ \A p : Same(p)
    BY <1>1, <1>3 DEF Places, Deref, Same
  <1>5. Active' = Active
    BY <1>1, <1>4 DEF Active, Done
  <1>6. Joined' /\ Ordered'
    BY <1>3, <1>4, <1>5, ShapeStays DEF RadixInv
  <1>7. TypeOK'
    BY <1>1, <1>2, <1>3 DEF RadixInv, TypeOK
  <1>8. AddOK'
    BY <1>1, <1>4 DEF RadixInv, AddOK
  <1>9. StackOK'
    <2>1. \A i \in DOMAIN stack : FrameOK(i) => FrameOK(i)'
      BY <1>1, <1>4, <1>5 DEF FrameOK, Deref
    <2> QED BY <1>1, <2>1 DEF RadixInv, StackOK
  <1> QED BY <1>1, <1>2, <1>6, <1>7, <1>8, <1>9 DEF RadixInv

LEMMA RadixKeeps == RadixInv /\ [Next]_vars => RadixInv'
  <1> SUFFICES ASSUME RadixInv, [Next]_vars PROVE RadixInv'
    OBVIOUS
  <1>1. CASE \E i \in Inputs : ReadNumber(i)
    BY <1>1, ReadNumberKeeps
  <1>2. CASE EndOfInput
    BY <1>2, EndOfInputKeeps
  <1>3. CASE NewLeaf \/ Split \/ Descend \/ CountAtLeaf
    BY <1>3, NewLeafKeeps, SplitKeeps, DescendKeeps, CountAtLeafKeeps
  <1>4. CASE TakeNothing \/ TakeFromLeaf \/ LeafDone
    BY <1>4, TakeNothingKeeps, TakeFromLeafKeeps, LeafDoneKeeps
  <1>5. CASE TakeFromSubtree \/ LeaveNode \/ WriteTaken
    BY <1>5, TakeFromSubtreeKeeps, LeaveNodeKeeps, WriteTakenKeeps
  <1>6. CASE ReleaseNothing \/ ReleaseSubtree \/ ReleaseNode \/ Terminate
    BY <1>6, ReleaseNothingKeeps, ReleaseSubtreeKeeps, ReleaseNodeKeeps, TerminateKeeps
  <1>7. CASE UNCHANGED vars
    BY <1>7, RadixStays
  <1> QED BY <1>1, <1>2, <1>3, <1>4, <1>5, <1>6, <1>7 DEF Next

-----------------------------------------------------------------------------
(* What follows *)

\* When release_tree has returned, the node with the highest bit would have to be
\* in a node that is higher still: there is none.
LEMMA NothingIsLeft == RadixInv /\ pc \in {"release", "end"} /\ stack = << >> => live = {}
  <1> SUFFICES ASSUME RadixInv, pc \in {"release", "end"}, stack = << >>, live # {} PROVE FALSE
    OBVIOUS
  <1>0. TypeOK /\ HeapInv /\ Joined /\ Ordered
    BY DEF RadixInv
  <1>1. Root \notin Active
    BY DEF Active, Done
  <1> DEFINE S == {node[p].bit : p \in LiveNodes}
  <1>2. S \in SUBSET Positions /\ S # {}
    <2>1. \A p \in LiveNodes : node[p].bit \in Positions
      BY <1>0, LiveIs
    <2>2. LiveNodes # {}
      BY DEF LiveNodes
    <2> QED BY <2>1, <2>2
  <1>3. Max(S) \in S /\ \A x \in S : x <= Max(S)
    <2> HIDE DEF S
    <2> QED BY <1>2, HighestIs
  <1>4. PICK p \in LiveNodes : node[p].bit = Max(S)
    BY <1>3
  <1>5. PICK f \in Active : Deref(f) = p
    BY <1>0 DEF Joined
  <1>6. f # Root /\ p # NULL
    BY <1>0, <1>1, LiveIs
  <1>7. f[1] \in LiveNodes
    BY <1>0, <1>6, PlaceIs
  <1>8. node[p].bit < node[f[1]].bit
    BY <1>0, <1>5, <1>6 DEF Ordered
  <1>9. node[f[1]].bit <= node[p].bit
    BY <1>3, <1>4, <1>7
  <1>10. node[p].bit \in Nat /\ node[f[1]].bit \in Nat
    BY <1>0, <1>7, LiveIs
  <1> QED BY <1>8, <1>9, <1>10

\* Every variable keeps its type, the buffer of take_numbers its bound, and the
\* numbers and bit positions their range (radix.c:7-37, 91-129).
THEOREM TypeCorrectness == Spec => []TypeOK
  <1>1. RadixInv => TypeOK
    BY DEF RadixInv
  <1> QED BY <1>1, RadixStarts, RadixKeeps, PTL DEF Spec

\* The live blocks are a radix tree, in order and with every node in one place,
\* for every range of numbers and every input (radix.c:46-89, 91-129).
THEOREM TreeIsSound == Spec => []TreeHoldsTheLiveNodes
  <1>1. RadixInv => TreeHoldsTheLiveNodes
    <2> SUFFICES ASSUME RadixInv, pc \in {"read", "add", "take"} PROVE TreeHoldsTheLiveNodes
      BY DEF TreeHoldsTheLiveNodes
    <2>1. TypeOK /\ HeapInv /\ Joined /\ Ordered /\ Active = Places
      BY NothingIsDone DEF RadixInv
    <2>2. ASSUME NEW p \in LiveNodes PROVE Cardinality({place \in Places : Deref(place) = p}) = 1
      <3>1. PICK f \in Places : Deref(f) = p
        BY <2>1 DEF Joined
      <3>2. p # NULL
        BY <2>1, LiveIs
      <3>3. {place \in Places : Deref(place) = p} = {f}
        BY <2>1, <3>1, <3>2 DEF Joined
      <3> QED BY <3>3, FS_Singleton
    <2>3. \A place \in Places : Deref(place) = NULL \/ Deref(place) \in LiveNodes
      BY <2>1 DEF Joined
    <2>4. \A place \in Places \ {Root} : Deref(place) # NULL =>
            node[Deref(place)].bit < node[place[1]].bit /\ Fits(node[Deref(place)].number, node[place[1]], place[2])
      BY <2>1 DEF Ordered
    <2> QED BY <2>2, <2>3, <2>4 DEF TreeHoldsTheLiveNodes, Fits
  <1> QED BY <1>1, RadixStarts, RadixKeeps, PTL DEF Spec

\* The program leaves the heap sound and returns all of it: no node is released
\* twice or while it is in the tree, and none is lost (radix.c:105-139).
THEOREM HeapIsReturned == Spec => []HeapIsSound
  <1>1. RadixInv => HeapIsSound
    <2> SUFFICES ASSUME RadixInv PROVE HeapIsSound
      OBVIOUS
    <2>1. BlocksNeverOverlap /\ FreeListsAreSound /\ NoBlockIsLost
      BY DEF RadixInv, HeapInv
    <2>2. pc = "end" => stack = << >>
      BY DEF RadixInv, StackOK
    <2> QED BY <2>1, <2>2, NothingIsLeft DEF HeapIsSound
  <1> QED BY <1>1, RadixStarts, RadixKeeps, PTL DEF Spec

-----------------------------------------------------------------------------
(* What belongs where *)

\* Node q belongs on that side of node p; in the subtree of p; at or below a place.
Under(q, p, side) == node[q].bit < node[p].bit /\ Fits(node[q].number, node[p], side)
Within(n, p) == n \div (2 * node[p].bit) = node[p].number \div (2 * node[p].bit)
InSubtree(q, p) == q = p \/ (node[q].bit < node[p].bit /\ Within(node[q].number, p))
Reaches(q, f) == f = Root \/ Under(q, f[1], f[2])

\* A node that belongs below a place is there, and no node is in the tree twice.
Gathered == \A f \in Places, q \in LiveNodes : Reaches(q, f) => Deref(f) # NULL /\ InSubtree(q, Deref(f))
Distinct == \A p, q \in LiveNodes : node[q].bit = node[p].bit /\ Within(node[q].number, p) => q = p

NoNumber(p) == node[p].bit = 1 => node[p].zero = 0 /\ node[p].one = 0

\* The i-th call has left q behind, below a side of its node p that it has been
\* through (of the outer calls: a side that another call returned from).
Left(q, i, p, at) ==
  \/ at = "leave" /\ Under(q, p, "zero")
  \/ i = 1 /\ at = "one" /\ Under(q, p, "zero")
  \/ i = 1 /\ at = "leave" /\ InSubtree(q, p)

Past(q) == stack = << >> \/ \E i \in DOMAIN stack : Left(q, i, Deref(stack[i].place), stack[i].at)

\* Where there are no numbers: in nodes given back by a take and, as long as the
\* buffer is not full, in those that the take has left behind.
Exhausted ==
  /\ \A p \in DOMAIN node \ LiveNodes : NoNumber(p)
  /\ pc = "take" /\ Room => \A q \in LiveNodes : Past(q) => NoNumber(q)

QueueInv ==
  /\ pc \in {"read", "add", "take"} => Gathered /\ Distinct /\ Exhausted
  /\ IsFiniteSet(DOMAIN node)
  /\ pc # "take" => limit = 0 /\ buffer = << >>


\* The step puts node p in place f0, with the subtree that was there on one of its sides.
Comes(f0, p, sides, down, b, n) ==
  /\ f0 \in Places /\ p # NULL /\ p \notin LiveNodes /\ sides \in SUBSET {"zero", "one"}
  /\ b \in Positions /\ n \in Nat /\ node'[p].bit = b /\ node'[p].number = n
  /\ Places' = Places \cup {<<p, side>> : side \in sides} /\ LiveNodes' = LiveNodes \cup {p}
  /\ \A f \in Places : Deref(f)' = IF f = f0 THEN p ELSE Deref(f)
  /\ \A side \in sides : Deref(<<p, side>>)' = IF side = down THEN Deref(f0) ELSE NULL
  /\ \A q \in LiveNodes : Same(q)
  /\ f0 # Root => b < node[f0[1]].bit /\ Fits(n, node[f0[1]], f0[2])
  /\ \A f \in Places : Deref(f) = NULL \/ Deref(f) \in LiveNodes
  /\ Deref(f0) # NULL => /\ Deref(f0) \in LiveNodes /\ node[Deref(f0)].bit < b
                         /\ n \div (2 * b) = node[Deref(f0)].number \div (2 * b)
                         /\ Side(node[Deref(f0)].number, b) = down
\* Two numbers that agree above a bit agree in all higher ones.
LEMMA AgreeAbove ==
  ASSUME NEW a \in Nat, NEW b \in Nat, NEW P \in Positions, NEW Q \in Positions, P < Q,
         a \div (2 * P) = b \div (2 * P)
  PROVE  a \div Q = b \div Q /\ a \div (2 * Q) = b \div (2 * Q) /\ Side(a, Q) = Side(b, Q)
  <1>1. PICK k \in 0..TopBit, j \in 0..TopBit : P = OneHot[k] /\ Q = OneHot[j]
    BY DEF Positions
  <1>2. TopBit \in Nat /\ P \in Nat /\ Q \in Nat
    BY PositionIs, RadixAssumption
  <1>3. k < j
    <2>1. CASE j = k
      BY <1>1, <1>2, <2>1
    <2>2. CASE j < k
      <3>1. 2 * Q <= P /\ Q >= 1
        BY <1>1, <2>2, OneHotGrows
      <3> QED BY <1>2, <3>1
    <2> QED BY <1>2, <2>1, <2>2
  <1> DEFINE T == {m \in 0..(j - (k + 1)) : a \div OneHot[(k + 1) + m] = b \div OneHot[(k + 1) + m]}
  <1>4. j - (k + 1) \in Nat
    BY <1>2, <1>3
  <1>5. 0 \in T
    <2>1. 0 \in 0..(j - (k + 1)) /\ (k + 1) + 0 = k + 1 /\ k + 1 \in 1..TopBit /\ (k + 1) - 1 = k
      BY <1>2, <1>3, <1>4
    <2>2. OneHot[k + 1] = 2 * P
      BY <1>1, <2>1, OneHotIs
    <2> QED BY <2>1, <2>2
  <1>6. ASSUME NEW m \in 0..((j - (k + 1)) - 1), m \in T PROVE m + 1 \in T
    <2> DEFINE l == (k + 1) + m
               x == OneHot[l]
    <2>1. /\ l \in 0..TopBit /\ l + 1 \in 1..TopBit /\ (l + 1) - 1 = l /\ (k + 1) + (m + 1) = l + 1
          /\ m + 1 \in 0..(j - (k + 1))
      BY <1>2, <1>4
    <2>2. x \in Nat \ {0}
      <3>1. x \in Positions
        BY <2>1 DEF Positions
      <3> QED BY <3>1, PositionIs
    <2>3. a \div x = b \div x
      BY <1>6
    <2>4. OneHot[l + 1] = 2 * x
      BY <2>1, OneHotIs
    <2> HIDE DEF x, l
    <2>5. a \div (2 * x) = b \div (2 * x)
      BY <2>2, <2>3, AgreeHere
    <2> QED BY <2>1, <2>4, <2>5
  <1>7. j - (k + 1) \in T
    <2> HIDE DEF T
    <2>1. 0..(j - (k + 1)) \subseteq T
      BY <1>4, <1>5, <1>6, InductionUpTo
    <2> QED BY <1>4, <2>1
  <1>8. a \div Q = b \div Q
    <2>1. (k + 1) + (j - (k + 1)) = j
      BY <1>2
    <2> QED BY <1>1, <1>7, <2>1
  <1>9. a \div (2 * Q) = b \div (2 * Q) /\ (Set(a, Q) <=> Set(b, Q))
    <2>1. Q \in Nat \ {0}
      BY PositionIs
    <2> QED BY <1>8, <2>1, AgreeHere
  <1> QED BY <1>8, <1>9 DEF Side

LEMMA NodeGathered ==
  ASSUME TypeOK, HeapInv, Gathered, Distinct, NEW f0, NEW p, NEW sides, NEW down, NEW b, NEW n,
         Comes(f0, p, sides, down, b, n)
  PROVE  Gathered' /\ Distinct'
  <1> SUFFICES ASSUME
         f0 \in Places, p # NULL, p \notin LiveNodes, sides \in SUBSET {"zero", "one"}, b \in Positions, n \in Nat,
         node'[p].bit = b, node'[p].number = n,
         Places' = Places \cup {<<p, side>> : side \in sides}, LiveNodes' = LiveNodes \cup {p},
         \A f \in Places : Deref(f)' = IF f = f0 THEN p ELSE Deref(f),
         \A side \in sides : Deref(<<p, side>>)' = IF side = down THEN Deref(f0) ELSE NULL,
         \A q \in LiveNodes : Same(q),
         f0 # Root => b < node[f0[1]].bit /\ Fits(n, node[f0[1]], f0[2]),
         \A f \in Places : Deref(f) = NULL \/ Deref(f) \in LiveNodes,
         Deref(f0) # NULL => /\ Deref(f0) \in LiveNodes /\ node[Deref(f0)].bit < b
                             /\ n \div (2 * b) = node[Deref(f0)].number \div (2 * b)
                             /\ Side(node[Deref(f0)].number, b) = down
       PROVE Gathered' /\ Distinct'
    BY DEF Comes
  <1> DEFINE h == Deref(f0)
             u == f0[1]
  <1>0. /\ \A q \in LiveNodes : /\ node[q].bit \in Positions /\ node[q].bit \in Nat /\ node[q].bit >= 1
                                /\ node[q].number \in Nat /\ q # p /\ q # NULL
        /\ b \in Nat /\ b >= 1
    BY LiveIs, PositionIs
  <1>1. \A f \in Places : \/ f = Root
                          \/ f # Root /\ f[1] \in LiveNodes /\ node[f[1]].bit > 1 /\ f = <<f[1], f[2]>>
    BY PlaceIs
  <1>2. f0 # Root => u \in LiveNodes /\ b < node[u].bit /\ Fits(n, node[u], f0[2]) /\ Within(n, u)
    BY <1>1 DEF Fits, Within
  <1>3. h # NULL => h \in LiveNodes /\ node[h].bit < b /\ n \div (2 * b) = node[h].number \div (2 * b)
                    /\ Side(node[h].number, b) = down
    OBVIOUS
  <1>4. \A f \in Places, q \in LiveNodes : Reaches(q, f) => Deref(f) # NULL /\ InSubtree(q, Deref(f))
    BY DEF Gathered
  \* What is in the range of the new node was in the subtree that it comes above.
  <1>5. ASSUME NEW q \in LiveNodes, node[q].bit <= b, node[q].number \div (2 * b) = n \div (2 * b)
        PROVE  /\ Reaches(q, f0) /\ h # NULL /\ InSubtree(q, h) /\ node[q].bit < b /\ Side(node[q].number, b) = down
    <2>1. Reaches(q, f0)
      <3> SUFFICES ASSUME f0 # Root PROVE Under(q, u, f0[2])
        BY DEF Reaches
      <3>1. node[q].bit < node[u].bit
        BY <1>0, <1>2, <1>5
      <3>2. /\ node[q].number \div (2 * node[u].bit) = n \div (2 * node[u].bit)
            /\ Side(node[q].number, node[u].bit) = Side(n, node[u].bit)
        <4>1. node[q].number \in Nat /\ node[u].bit \in Positions /\ b < node[u].bit
          BY <1>0, <1>2
        <4> QED BY <1>5, <4>1, AgreeAbove
      <3> QED BY <1>2, <3>1, <3>2 DEF Under, Fits
    <2>2. h # NULL /\ InSubtree(q, h)
      BY <1>4, <2>1
    <2>3. CASE q = h
      BY <1>3, <2>1, <2>2, <2>3
    <2>4. CASE q # h
      <3>1. node[q].bit < node[h].bit /\ node[q].number \div (2 * node[h].bit) = node[h].number \div (2 * node[h].bit)
        BY <2>2, <2>4 DEF InSubtree, Within
      <3>2. Side(node[q].number, b) = Side(node[h].number, b)
        <4>1. node[q].number \in Nat /\ node[h].number \in Nat /\ node[h].bit \in Positions /\ node[h].bit < b
          BY <1>0, <1>3, <2>2
        <4> HIDE DEF h
        <4> QED BY <3>1, <4>1, AgreeAbove
      <3> QED BY <1>0, <1>3, <2>1, <2>2, <3>1, <3>2
    <2> QED BY <2>3, <2>4
  \* A subtree that f0 is in has the new node in its range.
  <1>6. ASSUME f0 # Root, NEW d \in LiveNodes, InSubtree(u, d) PROVE b < node[d].bit /\ Within(n, d)
    <2>1. CASE u = d
      BY <1>2, <1>6, <2>1
    <2>2. CASE u # d
      <3>1. node[u].bit < node[d].bit /\ Within(node[u].number, d)
        BY <1>6, <2>2 DEF InSubtree
      <3>2. n \div (2 * node[d].bit) = node[u].number \div (2 * node[d].bit)
        <4>1. /\ node[u].number \in Nat /\ node[u].bit \in Positions /\ node[d].bit \in Positions
              /\ n \div (2 * node[u].bit) = node[u].number \div (2 * node[u].bit)
          BY <1>0, <1>2, <1>6 DEF Within
        <4> HIDE DEF u
        <4> QED BY <3>1, <4>1, AgreeAbove
      <3> QED BY <1>0, <1>2, <1>6, <3>1, <3>2 DEF Within
    <2> QED BY <2>1, <2>2
  \* If the new node belongs below another place, then so does the node f0 is in.
  <1>7. ASSUME NEW f \in Places, f # f0, f = Root \/ (b < node[f[1]].bit /\ Fits(n, node[f[1]], f[2]))
        PROVE  f0 # Root /\ Reaches(u, f)
    <2>1. CASE f = Root
      BY <1>7, <2>1 DEF Reaches
    <2>2. CASE f # Root
      <3> DEFINE w == f[1]
      <3>1. w \in LiveNodes /\ b < node[w].bit /\ Fits(n, node[w], f[2]) /\ f = <<w, f[2]>>
        BY <1>1, <1>7, <2>2
      <3>2. ~Reaches(w, f0)
        <4> SUFFICES ASSUME Reaches(w, f0) PROVE FALSE
          OBVIOUS
        <4>1. h # NULL /\ InSubtree(w, h)
          BY <1>4, <3>1
        <4>2. node[w].bit <= node[h].bit
          BY <1>0, <1>3, <3>1, <4>1 DEF InSubtree
        <4> QED BY <1>0, <1>3, <3>1, <4>1, <4>2
      <3>3. f0 # Root
        BY <3>2 DEF Reaches
      <3>4. CASE node[w].bit < node[u].bit
        <4>1. /\ n \div (2 * node[u].bit) = node[w].number \div (2 * node[u].bit)
              /\ Side(n, node[u].bit) = Side(node[w].number, node[u].bit)
          BY <1>0, <1>2, <3>1, <3>3, <3>4, AgreeAbove DEF Fits
        <4>2. Under(w, u, f0[2])
          BY <1>2, <3>3, <3>4, <4>1 DEF Under, Fits
        <4> QED BY <3>2, <4>2 DEF Reaches
      <3>5. CASE node[w].bit = node[u].bit
        <4>1. Within(node[w].number, u)
          BY <1>2, <3>1, <3>3, <3>5 DEF Within, Fits
        <4>2. w = u
          BY <1>2, <3>1, <3>3, <3>5, <4>1 DEF Distinct
        <4>3. f[2] = f0[2] /\ f0 = <<u, f0[2]>>
          BY <1>1, <1>2, <3>1, <3>3, <4>2 DEF Fits
        <4> QED BY <1>7, <3>1, <4>2, <4>3
      <3>6. CASE node[u].bit < node[w].bit
        <4>1. /\ n \div (2 * node[w].bit) = node[u].number \div (2 * node[w].bit)
              /\ Side(n, node[w].bit) = Side(node[u].number, node[w].bit)
          BY <1>0, <1>2, <3>1, <3>3, <3>6, AgreeAbove DEF Fits
        <4>2. Under(u, w, f[2])
          BY <3>1, <3>6, <4>1 DEF Under, Fits
        <4> QED BY <3>3, <4>2 DEF Reaches
      <3> QED BY <1>0, <1>2, <3>1, <3>3, <3>4, <3>5, <3>6
    <2> QED BY <2>1, <2>2
  <1>8. /\ \A f \in Places, q \in LiveNodes : Reaches(q, f)' <=> Reaches(q, f)
        /\ \A q, d \in LiveNodes : InSubtree(q, d)' <=> InSubtree(q, d)
        /\ \A f \in Places : Reaches(p, f)' <=> f = Root \/ (b < node[f[1]].bit /\ Fits(n, node[f[1]], f[2]))
        /\ \A d \in LiveNodes : InSubtree(p, d)' <=> b < node[d].bit /\ Within(n, d)
    <2>1. \A f \in Places, q \in LiveNodes : Reaches(q, f)' <=> Reaches(q, f)
      BY <1>1 DEF Reaches, Under, Fits, Same
    <2>2. \A q, d \in LiveNodes : InSubtree(q, d)' <=> InSubtree(q, d)
      BY DEF InSubtree, Within, Same
    <2>3. \A f \in Places : Reaches(p, f)' <=> f = Root \/ (b < node[f[1]].bit /\ Fits(n, node[f[1]], f[2]))
      BY <1>1 DEF Reaches, Under, Fits, Same
    <2>4. \A d \in LiveNodes : InSubtree(p, d)' <=> b < node[d].bit /\ Within(n, d)
      BY <1>0 DEF InSubtree, Within, Same
    <2> QED BY <2>1, <2>2, <2>3, <2>4
  <1>9. /\ \A d \in LiveNodes : InSubtree(d, p)' <=> node[d].bit < b /\ node[d].number \div (2 * b) = n \div (2 * b)
        /\ \A q \in LiveNodes : \A side : Under(q, p, side)' <=>
             /\ node[q].bit < b /\ node[q].number \div (2 * b) = n \div (2 * b) /\ Side(node[q].number, b) = side
        /\ \A side : ~Under(p, p, side)'
        /\ InSubtree(p, p)'
    BY <1>0 DEF InSubtree, Under, Fits, Within, Same
  <1>10. ASSUME NEW f \in Places', NEW q \in LiveNodes', Reaches(q, f)', NEW e, e = Deref(f)'
         PROVE  e # NULL /\ InSubtree(q, e)'
    <2>1. CASE q \in LiveNodes /\ f \in Places /\ f # f0
      <3>1. Deref(f) # NULL /\ InSubtree(q, Deref(f)) /\ e = Deref(f)
        BY <1>4, <1>8, <1>10, <2>1
      <3>2. e \in LiveNodes
        BY <2>1, <3>1
      <3> QED BY <1>8, <2>1, <3>1, <3>2
    <2>2. CASE q \in LiveNodes /\ f = f0
      <3>1. h # NULL /\ InSubtree(q, h) /\ e = p
        BY <1>4, <1>8, <1>10, <2>2
      <3>2. node[q].bit < b /\ node[q].number \div (2 * b) = n \div (2 * b)
        <4>1. CASE q = h
          BY <1>3, <3>1, <4>1
        <4>2. CASE q # h
          <5>1. node[q].bit < node[h].bit /\ node[q].number \div (2 * node[h].bit) = node[h].number \div (2 * node[h].bit)
            BY <3>1, <4>2 DEF InSubtree, Within
          <5>2. node[q].number \in Nat /\ node[h].number \in Nat /\ node[h].bit \in Positions /\ node[h].bit < b
            BY <1>0, <1>3, <2>2, <3>1
          <5>3. node[q].number \div (2 * b) = node[h].number \div (2 * b)
            <6> HIDE DEF h
            <6> QED BY <5>1, <5>2, AgreeAbove
          <5> QED BY <1>0, <1>3, <2>2, <3>1, <5>1, <5>3
        <4> QED BY <4>1, <4>2
      <3> QED BY <1>0, <1>9, <2>2, <3>1, <3>2
    <2>3. CASE q \in LiveNodes /\ f \notin Places
      <3>1. PICK side \in sides : f = <<p, side>>
        BY <2>3
      <3>2. f # Root /\ f[1] = p /\ f[2] = side
        BY <3>1 DEF Root
      <3>3. Under(q, p, side)'
        BY <1>10, <3>2 DEF Reaches
      <3>4. node[q].bit < b /\ node[q].number \div (2 * b) = n \div (2 * b) /\ Side(node[q].number, b) = side
        BY <1>9, <2>3, <3>3
      <3>5. h # NULL /\ InSubtree(q, h) /\ side = down
        BY <1>0, <1>5, <2>3, <3>4
      <3>6. e = h
        BY <1>10, <3>1, <3>5
      <3> QED BY <1>3, <1>8, <2>3, <3>5, <3>6
    <2>4. CASE q = p /\ f = f0
      BY <1>9, <1>10, <2>4
    <2>5. CASE q = p /\ f \in Places /\ f # f0
      <3>1. f0 # Root /\ Reaches(u, f)
        BY <1>7, <1>8, <1>10, <2>5
      <3>2. Deref(f) # NULL /\ InSubtree(u, Deref(f)) /\ e = Deref(f)
        BY <1>2, <1>4, <1>10, <2>5, <3>1
      <3>3. e \in LiveNodes
        BY <2>5, <3>2
      <3>4. b < node[e].bit /\ Within(n, e)
        BY <1>6, <3>1, <3>2, <3>3
      <3> QED BY <1>0, <1>8, <2>5, <3>3, <3>4
    <2>6. CASE q = p /\ f \notin Places
      <3>1. PICK side \in sides : f = <<p, side>>
        BY <2>6
      <3>2. f # Root /\ f[1] = p /\ f[2] = side
        BY <3>1 DEF Root
      <3> QED BY <1>9, <1>10, <2>6, <3>2 DEF Reaches
    <2> QED BY <2>1, <2>2, <2>3, <2>4, <2>5, <2>6
  <1>11. Gathered'
    BY <1>10 DEF Gathered, InSubtree, Within
  <1>12. Distinct'
    <2> SUFFICES ASSUME NEW d \in LiveNodes', NEW q \in LiveNodes', (node[q].bit = node[d].bit /\ Within(node[q].number, d))'
                 PROVE  q = d
      BY DEF Distinct
    <2>1. CASE d \in LiveNodes /\ q \in LiveNodes
      BY <2>1 DEF Distinct, Within, Same
    <2>2. CASE d = p /\ q \in LiveNodes
      BY <1>0, <1>5, <2>2 DEF Within, Same
    <2>3. CASE d \in LiveNodes /\ q = p
      BY <1>0, <1>5, <2>3 DEF Within, Same
    <2> QED BY <2>1, <2>2, <2>3
  <1> QED BY <1>11, <1>12
-----------------------------------------------------------------------------
(* What the leaves hold *)

LEMMA InLeafIs ==
  ASSUME NEW p, node[p] \in Content, NEW n
  PROVE  InLeaf(p, n) \in Nat /\ (NoNumber(p) => InLeaf(p, n) = 0)
  BY DEF InLeaf, Content, Side, NoNumber

LEMMA HeldIs ==
  ASSUME IsFiniteSet(DOMAIN node), \A p \in DOMAIN node : node[p] \in Content, NEW n
  PROVE  /\ Held(n) \in Nat
         /\ \A p \in DOMAIN node : InLeaf(p, n) <= Held(n)
         /\ (\A p \in DOMAIN node : InLeaf(p, n) = 0) => Held(n) = 0
  <1> DEFINE S == DOMAIN node
             f == [p \in S |-> InLeaf(p, n)]
  <1>1. \A p \in S : f[p] = InLeaf(p, n) /\ f[p] \in Nat
    BY InLeafIs
  <1>2. Held(n) = SumOver(S, f)
    BY DEF Held
  <1> HIDE DEF f
  <1>3. SumOver(S, f) \in Nat /\ \A p \in S : f[p] <= SumOver(S, f)
    BY <1>1, SumOfNat
  <1>4. (\A p \in S : f[p] = 0) => SumOver(S, f) = 0
    BY SumOfZeros
  <1> QED BY <1>1, <1>2, <1>3, <1>4

\* One leaf changes, or one node is added.
LEMMA HeldChanges ==
  ASSUME IsFiniteSet(DOMAIN node), \A q \in DOMAIN node : node[q] \in Content,
         NEW p, DOMAIN node' = DOMAIN node \cup {p}, \A q \in DOMAIN node' : node'[q] \in Content,
         NEW n, \A q \in DOMAIN node \ {p} : InLeaf(q, n)' = InLeaf(q, n),
         NEW before, before = IF p \in DOMAIN node THEN InLeaf(p, n) ELSE 0
  PROVE  /\ Held(n)' = Held(n) - before + InLeaf(p, n)'
         /\ Held(n) \in Nat /\ before \in Nat /\ InLeaf(p, n)' \in Nat
  <1> DEFINE S == DOMAIN node
             R == S \cup {p}
             f == [q \in S |-> InLeaf(q, n)]
             g == [q \in R |-> InLeaf(q, n)']
  <1>1. /\ \A q \in S : f[q] = InLeaf(q, n) /\ f[q] \in Nat
        /\ \A q \in R : g[q] = InLeaf(q, n)' /\ g[q] \in Nat
    <2>1. \A q \in S : InLeaf(q, n) \in Nat
      BY InLeafIs
    <2>2. \A q \in R : InLeaf(q, n)' \in Nat
      BY DEF InLeaf, Content, Side
    <2> QED BY <2>1, <2>2
  <1>2. Held(n) = SumOver(S, f) /\ Held(n)' = SumOver(R, g)
    BY DEF Held, InLeaf
  <1>3. \A q \in S \ {p} : f[q] = g[q]
    BY <1>1
  <1> HIDE DEF f, g
  <1>4. IsFiniteSet(R) /\ IntOn(f, S) /\ IntOn(g, R)
    BY <1>1, FS_AddElement DEF IntOn
  <1>5. Held(n) \in Nat
    BY HeldIs
  <1>6. CASE p \in S
    <2>1. R = S
      BY <1>6
    <2>2. SumOver(S, g) = SumOver(S, f) - f[p] + g[p]
      BY <1>3, <1>4, <1>6, <2>1, SumChanges
    <2> QED BY <1>1, <1>2, <1>5, <1>6, <2>1, <2>2
  <1>7. CASE p \notin S
    <2>1. SumOver(R, g) = g[p] + SumOver(R \ {p}, g) /\ SumOver(R \ {p}, g) \in Int
      BY <1>4, SumTakes
    <2>2. R \ {p} = S
      BY <1>7
    <2>3. SumOver(S, f) = SumOver(S, g)
      BY <1>3, <1>4, <1>7, SumOfSame
    <2> QED BY <1>1, <1>2, <1>5, <1>7, <2>1, <2>2, <2>3
  <1> QED BY <1>6, <1>7

LEMMA HeldStays ==
  ASSUME DOMAIN node' = DOMAIN node, NEW n, \A q \in DOMAIN node : InLeaf(q, n)' = InLeaf(q, n)
  PROVE  Held(n)' = Held(n)
  <1>1. [q \in DOMAIN node |-> InLeaf(q, n)]' = [q \in DOMAIN node |-> InLeaf(q, n)]
    BY DEF InLeaf
  <1> QED BY <1>1 DEF Held

\* The shape of the tree stays.
LEMMA GatheredStays ==
  ASSUME TypeOK, HeapInv, Gathered, Distinct, Places' = Places, LiveNodes' = LiveNodes,
         \A f \in Places : Deref(f) = NULL \/ Deref(f) \in LiveNodes,
         \A f \in Places : Deref(f)' = Deref(f), \A q \in LiveNodes : Same(q)
  PROVE  Gathered' /\ Distinct'
  <1>1. \A f \in Places : f = Root \/ f[1] \in LiveNodes
    BY PlaceIs
  <1>2. ASSUME NEW f \in Places, NEW q \in LiveNodes, Reaches(q, f)', NEW e, e = Deref(f)'
        PROVE  e # NULL /\ InSubtree(q, e)'
    <2>1. Reaches(q, f)
      BY <1>1, <1>2 DEF Reaches, Under, Fits, Same
    <2>2. e # NULL /\ InSubtree(q, e) /\ e \in LiveNodes
      BY <1>2, <2>1 DEF Gathered
    <2> QED BY <2>2 DEF InSubtree, Within, Same
  <1>3. Gathered'
    BY <1>2 DEF Gathered, InSubtree, Within
  <1>4. Distinct'
    BY DEF Distinct, Within, Same
  <1> QED BY <1>3, <1>4

\* A node that leads nowhere goes from the place f0.
LEMMA NodeScattered ==
  ASSUME TypeOK, HeapInv, Gathered, Distinct,
         NEW f0 \in Places, NEW p \in LiveNodes, Deref(f0) = p, Empty(p),
         Places' \subseteq Places, \A f \in Places' : f = Root \/ f[1] \in LiveNodes',
         LiveNodes' = LiveNodes \ {p},
         \A f \in Places : Deref(f) = NULL \/ Deref(f) \in LiveNodes,
         \A f \in Places : Deref(f) = p => f = f0,
         \A f \in Places' : Deref(f)' = IF f = f0 THEN NULL ELSE Deref(f),
         \A q \in LiveNodes : Same(q)
  PROVE  Gathered' /\ Distinct'
  <1>0. \A q \in LiveNodes : node[q].bit \in Nat /\ node[q].bit >= 1
    BY LiveIs
  <1>1. ASSUME NEW q \in LiveNodes, InSubtree(q, p) PROVE q = p
    <2> SUFFICES ASSUME q # p PROVE FALSE
      OBVIOUS
    <2>1. node[q].bit < node[p].bit /\ Within(node[q].number, p)
      BY <1>1 DEF InSubtree
    <2>2. PICK side \in {"zero", "one"} : side = Side(node[q].number, node[p].bit)
      BY DEF Side
    <2>3. Under(q, p, side)
      BY <2>1, <2>2 DEF Under, Fits, Within
    <2>7. node[p].bit > 1
      BY <1>0, <2>1
    <2>4. <<p, side>> \in Places /\ <<p, side>> # Root /\ Deref(<<p, side>>) = node[p][side]
      BY <2>7, PlaceIs
    <2>5. Reaches(q, <<p, side>>)
      BY <2>3 DEF Reaches
    <2>6. Deref(<<p, side>>) # NULL
      BY <2>4, <2>5 DEF Gathered
    <2> QED BY <2>4, <2>6 DEF Empty, NULL
  <1>2. ASSUME NEW f \in Places', NEW q \in LiveNodes', Reaches(q, f)', NEW e, e = Deref(f)'
        PROVE  e # NULL /\ InSubtree(q, e)'
    <2>1. Reaches(q, f)
      BY <1>2 DEF Reaches, Under, Fits, Same
    <2>2. Deref(f) # NULL /\ InSubtree(q, Deref(f)) /\ Deref(f) \in LiveNodes
      BY <1>2, <2>1 DEF Gathered
    <2>3. f # f0
      BY <1>1, <1>2, <2>2
    <2>4. e = Deref(f)
      BY <1>2, <2>3
    <2> QED BY <2>2, <2>4 DEF InSubtree, Within, Same
  <1>3. Gathered'
    BY <1>2 DEF Gathered, InSubtree, Within
  <1>4. Distinct'
    BY DEF Distinct, Within, Same
  <1> QED BY <1>3, <1>4

-----------------------------------------------------------------------------
(* The steps that read and add implement the queue. *)

Busy == pc \in {"read", "add", "take"}

\* The heap and the memory are left alone.
LEMMA QueueStays ==
  ASSUME RadixInv, QueueInv, UNCHANGED <<heapVars, node, tree>>
  PROVE  /\ Busy => Gathered' /\ Distinct' /\ \A p \in (DOMAIN node \ LiveNodes)' : NoNumber(p)'
         /\ IsFiniteSet(DOMAIN node)'
         /\ LiveNodes' = LiveNodes /\ \A f : Deref(f)' = Deref(f)
         /\ \A n : Held(n)' = Held(n)
  <1>0. TypeOK /\ HeapInv /\ Joined
    BY DEF RadixInv
  <1>1. LiveNodes' = LiveNodes /\ Places' = Places /\ (\A f : Deref(f)' = Deref(f)) /\ \A p : Same(p)
    BY <1>0, NothingMoves
  <1>2. ASSUME Busy PROVE Gathered' /\ Distinct' /\ \A p \in (DOMAIN node \ LiveNodes)' : NoNumber(p)'
    <2>1. Gathered /\ Distinct /\ Exhausted /\ Active = Places
      BY <1>2, NothingIsDone DEF QueueInv, Busy
    <2>2. \A f \in Places : Deref(f) = NULL \/ Deref(f) \in LiveNodes
      BY <1>0, <2>1 DEF Joined
    <2>3. Gathered' /\ Distinct'
      BY <1>0, <1>1, <2>1, <2>2, GatheredStays
    <2>4. \A p \in (DOMAIN node \ LiveNodes)' : NoNumber(p)'
      BY <1>1, <2>1 DEF Exhausted, NoNumber
    <2> QED BY <2>3, <2>4
  <1>3. ASSUME NEW n PROVE Held(n)' = Held(n)
    BY DEF Held, InLeaf
  <1> QED BY <1>1, <1>2, <1>3 DEF QueueInv

bagStays == \A n \in Numbers : Held(n)' = Held(n)

\* The queue sees nothing of a step that keeps what it is mapped to.
LEMMA Stutters ==
  ASSUME bagStays, limit' - Len(buffer') = limit - Len(buffer), written' \o buffer' = written \o buffer
  PROVE  UNCHANGED Queue!pqVars
  BY DEF bagStays, Queue!pqVars

LEMMA ReadNumberQueues ==
  ASSUME RadixInv, QueueInv, NEW i \in Inputs, ReadNumber(i)
  PROVE  QueueInv' /\ [Queue!Next]_Queue!pqVars
  <1>1. /\ pc = "read" /\ UNCHANGED <<heapVars, node, tree, written>> /\ Busy
        /\ limit = 0 /\ buffer = << >> /\ i \in Int /\ written \in Seq(Numbers)
    BY RadixAssumption DEF ReadNumber, Busy, QueueInv, RadixInv, TypeOK
  <1>2. /\ Gathered' /\ Distinct' /\ \A p \in (DOMAIN node \ LiveNodes)' : NoNumber(p)'
        /\ IsFiniteSet(DOMAIN node)' /\ bagStays
    BY <1>1, QueueStays DEF bagStays
  <1>3. CASE i < 0
    <2>1. pc' = "take" /\ limit' = -i /\ buffer' = << >> /\ stack' = <<Enter(Root)>>
      BY <1>3 DEF ReadNumber
    <2>2. ASSUME NEW q PROVE ~Past(q)'
      <3>1. stack' # << >> /\ \A j \in DOMAIN stack' : stack'[j].at = "enter"
        BY <2>1 DEF Enter
      <3> QED BY <3>1 DEF Past, Left
    <2>3. QueueInv'
      BY <1>2, <2>1, <2>2 DEF QueueInv, Exhausted
    <2>4. -i \in {-j : j \in {k \in Inputs : k < 0}}
      BY <1>3
    <2>5. limit - Len(buffer) = 0 /\ limit' - Len(buffer') = -i /\ written' \o buffer' = written \o buffer
      <3>1. Len(buffer) = 0 /\ Len(buffer') = 0
        BY <1>1, <2>1
      <3>2. limit = 0 /\ limit' = -i /\ i \in Int
        BY <1>1, <2>1
      <3>3. written' \o buffer' = written \o buffer
        BY <1>1, <2>1
      <3> QED BY ONLY <3>1, <3>2, <3>3
    <2>6. Queue!Request(-i)
      BY <1>2, <2>5 DEF Queue!Request, bagStays
    <2> QED BY <2>3, <2>4, <2>6 DEF Queue!Next
  <1>4. CASE ~(i < 0)
    <2>1. pc' = "add" /\ UNCHANGED <<limit, buffer, stack>>
      BY <1>4 DEF ReadNumber
    <2>2. QueueInv'
      BY <1>1, <1>2, <2>1 DEF QueueInv, Exhausted
    <2>3. UNCHANGED Queue!pqVars
      BY <1>1, <1>2, <2>1, Stutters
    <2> QED BY <2>2, <2>3
  <1> QED BY <1>3, <1>4

LEMMA EndOfInputQueues == ASSUME RadixInv, QueueInv, EndOfInput PROVE QueueInv' /\ [Queue!Next]_Queue!pqVars
  <1>1. /\ UNCHANGED <<heapVars, node, tree, written, limit, buffer>> /\ pc' = "release"
        /\ limit = 0 /\ buffer = << >>
    BY DEF EndOfInput, QueueInv
  <1>2. IsFiniteSet(DOMAIN node)' /\ bagStays
    BY <1>1, QueueStays DEF bagStays
  <1>3. UNCHANGED Queue!pqVars
    BY <1>1, <1>2, Stutters
  <1> QED BY <1>1, <1>2, <1>3 DEF QueueInv

LEMMA DescendQueues == ASSUME RadixInv, QueueInv, Descend PROVE QueueInv' /\ [Queue!Next]_Queue!pqVars
  <1>1. /\ UNCHANGED <<heapVars, node, tree, written, limit, buffer>> /\ pc' = "add" /\ Busy
        /\ limit = 0 /\ buffer = << >>
    BY DEF Descend, Adding, QueueInv, Busy
  <1>2. /\ Gathered' /\ Distinct' /\ \A p \in (DOMAIN node \ LiveNodes)' : NoNumber(p)'
        /\ IsFiniteSet(DOMAIN node)' /\ bagStays
    BY <1>1, QueueStays DEF bagStays
  <1>3. UNCHANGED Queue!pqVars
    BY <1>1, <1>2, Stutters
  <1> QED BY <1>1, <1>2, <1>3 DEF QueueInv, Exhausted

\* A pointer stored in a place changes no leaf.
LEMMA LeavesStay ==
  ASSUME TypeOK, HeapInv, NEW f0 \in Places, NEW p \in Nat, NEW N,
         LiveNodes \subseteq DOMAIN N, \A q \in LiveNodes : N[q] = node[q],
         \A q \in DOMAIN N : N[q] \in Content, Store(N, f0, p)
  PROVE  /\ DOMAIN node' = DOMAIN N
         /\ \A q \in DOMAIN N : /\ node'[q].bit = N[q].bit /\ node'[q].number = N[q].number
                                /\ N[q].bit = 1 => node'[q] = N[q]
  <1>1. CASE f0 = Root
    BY <1>1 DEF Store
  <1>2. CASE f0 # Root
    <2> DEFINE a == f0[1]
               side == f0[2]
    <2>1. a \in LiveNodes /\ side \in {"zero", "one"} /\ node[a].bit > 1
      BY <1>2, PlaceIs
    <2>2. node' = [N EXCEPT ![a][side] = p]
      BY <1>2 DEF Store
    <2> HIDE DEF a, side
    <2>3. /\ DOMAIN node' = DOMAIN N /\ node'[a] = [N[a] EXCEPT ![side] = p] /\ N[a] = node[a]
          /\ \A q \in DOMAIN N \ {a} : node'[q] = N[q]
      BY <2>1, <2>2
    <2>4. node'[a].bit = N[a].bit /\ node'[a].number = N[a].number
      BY <2>1, <2>3, FieldSet
    <2>5. N[a].bit # 1
      BY <2>1, <2>3
    <2> QED BY <2>3, <2>4, <2>5
  <1> QED BY <1>1, <1>2

\* The step adds one node to the memory and changes none of the leaves in it.
LEMMA NodeCounts ==
  ASSUME TypeOK, HeapInv, IsFiniteSet(DOMAIN node), \A q \in DOMAIN node \ LiveNodes : NoNumber(q),
         NEW f0 \in Places, NEW p \in Nat, p \notin LiveNodes, LiveNodes' = LiveNodes \cup {p},
         NEW contents \in Content, Store(WithNode(p, contents), f0, p)
  PROVE  /\ IsFiniteSet(DOMAIN node') /\ \A q \in DOMAIN node' \ LiveNodes' : NoNumber(q)'
         /\ node'[p] \in Content /\ node'[p].bit = contents.bit /\ node'[p].number = contents.number
         /\ contents.bit = 1 => node'[p] = contents
         /\ \A n : Held(n)' = Held(n) + InLeaf(p, n)' /\ Held(n) \in Nat /\ InLeaf(p, n)' \in Nat
  <1> DEFINE N == WithNode(p, contents)
  <1>1. /\ LiveNodes \subseteq DOMAIN node /\ \A q \in DOMAIN node : node[q] \in Content
    BY LiveIs DEF TypeOK, Content
  <1>2. /\ DOMAIN N = DOMAIN node \cup {p} /\ N[p] = contents
        /\ \A q \in DOMAIN node \ {p} : N[q] = node[q]
    BY DEF WithNode
  <1>3. Store(N, f0, p)
    OBVIOUS
  <1> HIDE DEF N
  <1>4. /\ LiveNodes \subseteq DOMAIN N /\ \A q \in LiveNodes : N[q] = node[q]
        /\ \A q \in DOMAIN N : N[q] \in Content
    BY <1>1, <1>2
  <1>5. /\ DOMAIN node' = DOMAIN N
        /\ \A q \in DOMAIN N : /\ node'[q].bit = N[q].bit /\ node'[q].number = N[q].number
                               /\ N[q].bit = 1 => node'[q] = N[q]
    BY <1>3, <1>4, LeavesStay
  <1>6. \A q \in DOMAIN node' : node'[q] \in Content
    BY <1>2, <1>3, <1>4, Stored
  <1>7. \A q \in DOMAIN node \ {p} : /\ node'[q].bit = node[q].bit /\ node'[q].number = node[q].number
                                     /\ node[q].bit = 1 => node'[q] = node[q]
    BY <1>2, <1>5
  <1>8. DOMAIN node' = DOMAIN node \cup {p}
    BY <1>2, <1>5
  <1>9. IsFiniteSet(DOMAIN node')
    BY <1>8, FS_AddElement
  <1>10. ASSUME NEW q \in DOMAIN node' \ LiveNodes' PROVE NoNumber(q)'
    <2>1. q \in DOMAIN node \ {p} /\ q \notin LiveNodes
      BY <1>8
    <2> QED BY <1>7, <2>1 DEF NoNumber
  <1>11. ASSUME NEW n PROVE Held(n)' = Held(n) + InLeaf(p, n)' /\ Held(n) \in Nat /\ InLeaf(p, n)' \in Nat
    <2>1. \A q \in DOMAIN node \ {p} : InLeaf(q, n)' = InLeaf(q, n)
      BY <1>7 DEF InLeaf
    <2>2. (IF p \in DOMAIN node THEN InLeaf(p, n) ELSE 0) = 0
      BY <1>1, InLeafIs
    <2>3. /\ Held(n)' = Held(n) - 0 + InLeaf(p, n)'
          /\ Held(n) \in Nat /\ InLeaf(p, n)' \in Nat
      BY <1>1, <1>6, <1>8, <2>1, <2>2, HeldChanges
    <2> QED BY <2>3
  <1> QED BY <1>2, <1>5, <1>6, <1>8, <1>9, <1>10, <1>11

\* A number is told by its higher bits and its side.
LEMMA NumberTold ==
  ASSUME NEW a \in Nat, NEW b \in Nat, a \div 2 = b \div 2, Side(a, 1) = Side(b, 1)
  PROVE  a = b
  <1>1. Set(a, 1) <=> Set(b, 1)
    BY DEF Side
  <1> QED BY <1>1 DEF Set

\* The queue sees a number that is counted once more.
LEMMA Counted ==
  ASSUME NEW m \in Numbers, limit = 0, buffer = << >>, UNCHANGED <<limit, buffer, written>>,
         \A n \in Numbers : Held(n)' = IF n = m THEN Held(n) + 1 ELSE Held(n)
  PROVE  Queue!Add(m)
  <1>1. limit - Len(buffer) = 0 /\ limit' - Len(buffer') = limit - Len(buffer) /\ written' \o buffer' = written \o buffer
    <2>1. limit' = limit /\ buffer' = buffer /\ written' = written /\ Len(buffer) = 0
      OBVIOUS
    <2>2. limit = 0
      OBVIOUS
    <2> QED BY ONLY <2>1, <2>2
  <1>2. [n \in Numbers |-> Held(n)]' = [[n \in Numbers |-> Held(n)] EXCEPT ![m] = @ + 1]
    OBVIOUS
  <1> QED BY <1>1, <1>2 DEF Queue!Add

LEMMA NewLeafQueues == ASSUME RadixInv, QueueInv, NewLeaf PROVE QueueInv' /\ [Queue!Next]_Queue!pqVars
  <1>0. TypeOK /\ HeapInv /\ Joined
    BY DEF RadixInv
  <1>1. /\ parent \in Places /\ Active = Places /\ number \in Numbers /\ number \in Nat /\ here = NULL /\ bitPos >= 1
        /\ bitPos \in Nat
        /\ parent # Root => /\ parent[1] \in LiveNodes /\ bitPos < node[parent[1]].bit
                            /\ Fits(number, node[parent[1]], parent[2])
    BY AddIs DEF NewLeaf
  <1>2. Gathered /\ Distinct /\ Exhausted /\ IsFiniteSet(DOMAIN node) /\ limit = 0 /\ buffer = << >>
    BY DEF QueueInv, NewLeaf, Adding
  <1>3. PICK p : p = Pointer(NodeSize)
    OBVIOUS
  <1>4. p \in Nat /\ p # NULL /\ p \notin LiveNodes /\ LiveNodes' = LiveNodes \cup {p}
    BY <1>0, <1>3, NodeAllocated DEF NewLeaf
  <1>5. Store(WithNode(p, Leaf(number)), parent, p) /\ pc' = "read" /\ UNCHANGED <<limit, buffer, written>>
    BY <1>3 DEF NewLeaf
  <1>6. /\ \A q \in LiveNodes : Same(q)
        /\ \A f \in Places : Deref(f)' = IF f = parent THEN p ELSE Deref(f)
    BY <1>0, <1>1, <1>4, <1>5, LeafIs, NodeStored
  <1>7. /\ IsFiniteSet(DOMAIN node') /\ \A q \in DOMAIN node' \ LiveNodes' : NoNumber(q)'
        /\ node'[p] = Leaf(number) /\ node'[p].bit = 1 /\ node'[p].number = number
        /\ \A n : Held(n)' = Held(n) + InLeaf(p, n)' /\ Held(n) \in Nat
    <2>1. Leaf(number) \in Content /\ Leaf(number).bit = 1 /\ Leaf(number).number = number
      BY <1>1, LeafIs
    <2>2. \A q \in DOMAIN node \ LiveNodes : NoNumber(q)
      BY <1>2 DEF Exhausted
    <2> QED BY <1>0, <1>1, <1>2, <1>4, <1>5, <2>1, <2>2, NodeCounts
  <1>8. Gathered' /\ Distinct'
    <2> DEFINE sides == {}
    <2>1. Places' = Places
      <3>1. {q \in LiveNodes' : node'[q].bit > 1} = {q \in LiveNodes : node[q].bit > 1}
        BY <1>4, <1>6, <1>7 DEF Same
      <3> QED BY <3>1 DEF Places
    <2>2. /\ Places' = Places \cup {<<p, side>> : side \in sides} /\ sides \in SUBSET {"zero", "one"}
          /\ \A side \in sides : Deref(<<p, side>>)' = IF side = "zero" THEN Deref(parent) ELSE NULL
      BY <2>1
    <2>3. parent # Root => 1 < node[parent[1]].bit /\ Fits(number, node[parent[1]], parent[2])
      <3> SUFFICES ASSUME parent # Root PROVE 1 < node[parent[1]].bit
        BY <1>1
      <3>1. node[parent[1]].bit \in Nat
        BY <1>0, <1>1, LiveIs
      <3> QED BY <1>1, <3>1
    <2>4. \A f \in Places : Deref(f) = NULL \/ Deref(f) \in LiveNodes
      BY <1>0, <1>1 DEF Joined
    <2>5. /\ 1 \in Positions
          /\ Deref(parent) # NULL => /\ Deref(parent) \in LiveNodes /\ node[Deref(parent)].bit < 1
                                     /\ number \div (2 * 1) = node[Deref(parent)].number \div (2 * 1)
                                     /\ Side(node[Deref(parent)].number, 1) = "zero"
      BY <1>1, OneHotIs DEF here, Positions
    <2>6. Comes(parent, p, sides, "zero", 1, number)
      BY <1>1, <1>4, <1>6, <1>7, <2>2, <2>3, <2>4, <2>5 DEF Comes
    <2> HIDE DEF sides
    <2> QED BY <1>0, <1>2, <2>6, NodeGathered
  <1>9. QueueInv'
    BY <1>2, <1>5, <1>7, <1>8 DEF QueueInv, Exhausted
  <1>10. Queue!Add(number)
    <2>1. ASSUME NEW n \in Numbers PROVE InLeaf(p, n)' = IF n = number THEN 1 ELSE 0
      <3>1. n \in Nat
        BY NumberIs
      <3>2. InLeaf(p, n)' = IF number \div 2 = n \div 2 THEN Leaf(number)[Side(n, 1)] ELSE 0
        BY <1>7 DEF InLeaf
      <3>3. Side(n, 1) \in {"zero", "one"} /\ Side(number, 1) = "one" <=> Set(number, 1)
        BY DEF Side
      <3>4. /\ Leaf(number)["zero"] = (IF Set(number, 1) THEN 0 ELSE 1)
            /\ Leaf(number)["one"] = (IF Set(number, 1) THEN 1 ELSE 0)
        BY DEF Leaf
      <3>5. Leaf(number)[Side(n, 1)] = IF Side(n, 1) = Side(number, 1) THEN 1 ELSE 0
        <4>1. CASE Set(n, 1)
          BY <3>4, <4>1 DEF Side
        <4>2. CASE ~Set(n, 1)
          BY <3>4, <4>2 DEF Side
        <4> QED BY <4>1, <4>2
      <3> QED BY <1>1, <3>1, <3>2, <3>5, NumberTold
    <2>2. \A n \in Numbers : Held(n)' = IF n = number THEN Held(n) + 1 ELSE Held(n)
      BY <1>7, <2>1
    <2> QED BY <1>1, <1>2, <1>5, <2>2, Counted
  <1> QED BY <1>1, <1>9, <1>10 DEF Queue!Next

LEMMA SplitQueues == ASSUME RadixInv, QueueInv, Split PROVE QueueInv' /\ [Queue!Next]_Queue!pqVars
  <1>0. TypeOK /\ HeapInv /\ Joined
    BY DEF RadixInv
  <1>1. /\ parent \in Places /\ Active = Places /\ number \in Numbers /\ number \in Nat /\ bitPos \in Nat
        /\ here # NULL /\ here \in LiveNodes /\ Deref(parent) = here
        /\ parent # Root => /\ parent[1] \in LiveNodes /\ bitPos < node[parent[1]].bit
                            /\ Fits(number, node[parent[1]], parent[2])
    BY AddIs DEF Split, here
  <1>2. Gathered /\ Distinct /\ Exhausted /\ IsFiniteSet(DOMAIN node) /\ limit = 0 /\ buffer = << >>
    BY DEF QueueInv, Split, Adding
  <1>3. PICK p : p = Pointer(NodeSize)
    OBVIOUS
  <1> DEFINE bit == SplitBit
             side == Side(number, bit)
             other == IF Set(number, bit) THEN "zero" ELSE "one"
             new == [bit |-> bit, number |-> number,
                     zero |-> IF Set(number, bit) THEN here ELSE NULL,
                     one  |-> IF Set(number, bit) THEN NULL ELSE here]
  <1>4. p \in Nat /\ p # NULL /\ p \notin LiveNodes /\ LiveNodes' = LiveNodes \cup {p}
    BY <1>0, <1>3, NodeAllocated DEF Split
  <1>5. Store(WithNode(p, new), parent, p) /\ pc' = "add" /\ UNCHANGED <<limit, buffer, written>>
    BY <1>3 DEF Split, Adding
  <1>6. /\ bit \in Positions /\ node[here].bit < bit /\ bit <= bitPos
        /\ Set(number, bit) # Set(node[here].number, bit)
        /\ number \div (2 * bit) = node[here].number \div (2 * bit)
    BY <1>1, DifferingIs DEF Split
  <1>7. node[here].bit \in Nat /\ node[here].bit >= 1 /\ here \in Nat /\ bit \in Nat /\ bit > 1
    <2>1. node[here].bit \in Nat /\ node[here].bit >= 1 /\ here \in Nat /\ bit \in Nat
      BY <1>0, <1>1, <1>6, LiveIs, PositionIs
    <2> QED BY <1>6, <2>1
  <1> HIDE DEF bit
  <1>8. new \in Content /\ new.bit = bit /\ new.number = number
    BY <1>1, <1>6, <1>7 DEF Content, NULL
  <1>9. /\ other \in {"zero", "one"} /\ new[other] = here
        /\ \A s \in {"zero", "one"} \ {other} : new[s] = NULL
    OBVIOUS
  <1>10. Side(node[here].number, bit) = other
    <2>1. CASE Set(number, bit)
      <3>1. ~Set(node[here].number, bit)
        BY <1>6, <2>1
      <3> QED BY <2>1, <3>1 DEF Side
    <2>2. CASE ~Set(number, bit)
      <3>1. Set(node[here].number, bit)
        BY <1>6, <2>2 DEF Set
      <3> QED BY <2>2, <3>1 DEF Side
    <2> QED BY <2>1, <2>2
  <1> HIDE DEF new, side, other
  <1>11. /\ node'[p] = new
         /\ \A q \in LiveNodes : Same(q)
         /\ \A f \in Places : Deref(f)' = IF f = parent THEN p ELSE Deref(f)
    BY <1>0, <1>1, <1>4, <1>5, <1>8, NodeStored
  <1>12. /\ IsFiniteSet(DOMAIN node') /\ \A q \in DOMAIN node' \ LiveNodes' : NoNumber(q)'
         /\ node'[p].bit = bit /\ node'[p].number = number
         /\ \A n : Held(n)' = Held(n) + InLeaf(p, n)' /\ Held(n) \in Nat
    <2>1. \A q \in DOMAIN node \ LiveNodes : NoNumber(q)
      BY <1>2 DEF Exhausted
    <2> QED BY <1>0, <1>1, <1>2, <1>4, <1>5, <1>8, <2>1, NodeCounts
  <1>13. Gathered' /\ Distinct'
    <2> DEFINE sides == {"zero", "one"}
    <2>1. Places' = Places \cup {<<p, s>> : s \in sides}
      <3>1. {q \in LiveNodes' : node'[q].bit > 1} = {q \in LiveNodes : node[q].bit > 1} \cup {p}
        BY <1>4, <1>7, <1>11, <1>12 DEF Same
      <3> QED BY <3>1 DEF Places
    <2>2. \A s \in sides : Deref(<<p, s>>)' = IF s = other THEN Deref(parent) ELSE NULL
      <3> TAKE s \in sides
      <3>1. <<p, s>> # Root
        BY <1>4 DEF Root
      <3>2. Deref(<<p, s>>)' = node'[p][s]
        BY <3>1 DEF Deref
      <3> QED BY <1>1, <1>9, <1>11, <3>2
    <2>3. parent # Root => bit < node[parent[1]].bit /\ Fits(number, node[parent[1]], parent[2])
      <3> SUFFICES ASSUME parent # Root PROVE bit < node[parent[1]].bit
        BY <1>1
      <3>1. node[parent[1]].bit \in Nat
        BY <1>0, <1>1, LiveIs
      <3> QED BY <1>1, <1>6, <1>7, <3>1
    <2>4. \A f \in Places : Deref(f) = NULL \/ Deref(f) \in LiveNodes
      BY <1>0, <1>1 DEF Joined
    <2>5. sides \in SUBSET {"zero", "one"}
      OBVIOUS
    <2> HIDE DEF sides
    <2>6. Comes(parent, p, sides, other, bit, number)
      BY <1>1, <1>4, <1>6, <1>10, <1>11, <1>12, <2>1, <2>2, <2>3, <2>4, <2>5 DEF Comes
    <2> QED BY <1>0, <1>2, <2>6, NodeGathered
  <1>14. QueueInv'
    BY <1>2, <1>5, <1>12, <1>13 DEF QueueInv, Exhausted
  <1>15. bagStays
    <2>1. \A n : InLeaf(p, n)' = 0
      BY <1>7, <1>12 DEF InLeaf
    <2> QED BY <1>12, <2>1 DEF bagStays
  <1>16. limit' - Len(buffer') = limit - Len(buffer) /\ written' \o buffer' = written \o buffer
    BY <1>5
  <1> QED BY <1>14, <1>15, <1>16, Stutters

\* One count of a leaf changes, and with it one number.
LEMMA LeafHeld ==
  ASSUME TypeOK, HeapInv, IsFiniteSet(DOMAIN node), NEW p \in LiveNodes, node[p].bit = 1, NEW m \in Numbers,
         node[p].number \div 2 = m \div 2, NEW v \in Nat,
         node' = [node EXCEPT ![p][Side(m, 1)] = v], UNCHANGED <<heapVars, tree>>
  PROVE  /\ \A n \in Numbers : Held(n)' = IF n = m THEN Held(n) - node[p][Side(m, 1)] + v ELSE Held(n)
         /\ Held(m) \in Nat /\ node[p][Side(m, 1)] \in Nat /\ node[p][Side(m, 1)] <= Held(m)
  <1>1. PICK side \in {"zero", "one"} : side = Side(m, 1)
    BY DEF Side
  <1>2. node' = [node EXCEPT ![p][side] = v]
    BY <1>1
  <1>3. DOMAIN node' = DOMAIN node /\ \A q \in DOMAIN node : node'[q] \in Content
    BY <1>2, LeafCounted
  <1>4. p \in DOMAIN node /\ \A q \in DOMAIN node : node[q] \in Content
    BY LiveIs DEF TypeOK, Content
  <1>5. node'[p] = [node[p] EXCEPT ![side] = v] /\ \A q \in DOMAIN node \ {p} : node'[q] = node[q]
    BY <1>2, <1>4
  <1>6. /\ node'[p].bit = 1 /\ node'[p].number = node[p].number /\ node'[p][side] = v
        /\ \A other \in {"zero", "one"} \ {side} : node'[p][other] = node[p][other]
        /\ node[p][side] \in Nat
    BY <1>4, <1>5, FieldSet
  <1>7. m \in Nat /\ InLeaf(p, m) = node[p][side]
    BY <1>1, NumberIs DEF InLeaf
  <1>8. ASSUME NEW n \in Numbers
        PROVE  Held(n)' = (IF n = m THEN Held(n) - node[p][side] + v ELSE Held(n)) /\ Held(n) \in Nat
    <2>1. \A q \in DOMAIN node \ {p} : InLeaf(q, n)' = InLeaf(q, n)
      BY <1>5 DEF InLeaf
    <2>2. DOMAIN node' = DOMAIN node \cup {p} /\ (IF p \in DOMAIN node THEN InLeaf(p, n) ELSE 0) = InLeaf(p, n)
      BY <1>3, <1>4
    <2>3. /\ Held(n)' = Held(n) - InLeaf(p, n) + InLeaf(p, n)'
          /\ Held(n) \in Nat /\ InLeaf(p, n) \in Nat
      BY <1>3, <1>4, <2>1, <2>2, HeldChanges
    <2>4. CASE n = m
      <3>1. InLeaf(p, m)' = v
        BY <1>1, <1>6 DEF InLeaf
      <3> QED BY <1>7, <2>3, <2>4, <3>1
    <2>5. CASE n # m
      <3>1. n \in Nat /\ Side(n, 1) \in {"zero", "one"}
        BY NumberIs DEF Side
      <3>2. n \div 2 = m \div 2 => Side(n, 1) # side
        BY <1>1, <1>7, <2>5, <3>1, NumberTold
      <3>3. InLeaf(p, n)' = InLeaf(p, n)
        BY <1>6, <3>1, <3>2 DEF InLeaf
      <3> QED BY <2>3, <2>5, <3>3
    <2> QED BY <2>3, <2>4, <2>5
  <1>9. InLeaf(p, m) <= Held(m)
    BY <1>4, HeldIs
  <1> QED BY <1>1, <1>6, <1>7, <1>8, <1>9

\* A leaf counts one more or one less: everything stays where it is.
LEMMA LeafStays ==
  ASSUME TypeOK, HeapInv, Joined, Gathered, Distinct, \A q \in DOMAIN node \ LiveNodes : NoNumber(q), Active = Places,
         NEW p \in LiveNodes, node[p].bit = 1, NEW m, NEW v \in Nat,
         node' = [node EXCEPT ![p][Side(m, 1)] = v], UNCHANGED <<heapVars, tree>>
  PROVE  /\ Gathered' /\ Distinct' /\ \A q \in DOMAIN node' \ LiveNodes' : NoNumber(q)'
         /\ DOMAIN node' = DOMAIN node /\ LiveNodes' = LiveNodes
         /\ \A f \in Places : Deref(f)' = Deref(f)
         /\ \A q \in LiveNodes : Same(q) /\ (q # p => node'[q] = node[q])
  <1>1. PICK side \in {"zero", "one"} : side = Side(m, 1)
    BY DEF Side
  <1>2. node' = [node EXCEPT ![p][side] = v]
    BY <1>1
  <1>3. /\ LiveNodes' = LiveNodes /\ Places' = Places /\ DOMAIN node' = DOMAIN node
        /\ \A q \in LiveNodes : Same(q)
        /\ \A f \in Places : Deref(f)' = Deref(f)
    BY <1>2, LeafCounted
  <1>4. \A f \in Places : Deref(f) = NULL \/ Deref(f) \in LiveNodes
    BY DEF Joined
  <1>5. Gathered' /\ Distinct'
    BY <1>3, <1>4, GatheredStays
  <1>6. \A q \in DOMAIN node \ {p} : node'[q] = node[q]
    BY <1>2
  <1>7. \A q \in DOMAIN node' \ LiveNodes' : NoNumber(q)'
    BY <1>3, <1>6 DEF NoNumber
  <1> QED BY <1>3, <1>5, <1>6, <1>7, LiveIs

LEMMA CountAtLeafQueues == ASSUME RadixInv, QueueInv, CountAtLeaf PROVE QueueInv' /\ [Queue!Next]_Queue!pqVars
  <1>0. TypeOK /\ HeapInv /\ Joined
    BY DEF RadixInv
  <1>1. PICK p : p = here
    OBVIOUS
  <1>2. Active = Places /\ p \in LiveNodes /\ node[p].bit = 1 /\ number \in Numbers
    BY <1>1, AddIs DEF CountAtLeaf
  <1>3. /\ Gathered /\ Distinct /\ IsFiniteSet(DOMAIN node) /\ limit = 0 /\ buffer = << >>
        /\ \A q \in DOMAIN node \ LiveNodes : NoNumber(q)
    BY DEF QueueInv, CountAtLeaf, Adding, Exhausted
  <1>4. PICK side \in {"zero", "one"} : side = Side(number, 1)
    BY DEF Side
  <1>5. node[p] \in Content /\ p \in DOMAIN node
    BY <1>0, <1>2, LiveIs
  <1>6. node[p][side] \in Nat
    BY <1>5 DEF Content
  <1>7. PICK v : v = node[p][side] + 1
    OBVIOUS
  <1>8. /\ node' = [node EXCEPT ![p][Side(number, 1)] = v] /\ pc' = "read" /\ v \in Nat
        /\ UNCHANGED <<heapVars, tree, limit, buffer, written>>
    BY <1>1, <1>4, <1>5, <1>6, <1>7 DEF CountAtLeaf
  <1>9. node[p].number \div 2 = number \div 2
    <2>1. number \div (2 * 1) = node[p].number \div (2 * 1)
      BY <1>1, <1>2, DifferingIs DEF CountAtLeaf
    <2> QED BY <2>1
  <1>10. \A n \in Numbers : Held(n)' = IF n = number THEN Held(n) - node[p][Side(number, 1)] + v ELSE Held(n)
    BY <1>0, <1>2, <1>3, <1>8, <1>9, LeafHeld
  <1>11. Gathered' /\ Distinct' /\ (\A q \in DOMAIN node' \ LiveNodes' : NoNumber(q)') /\ DOMAIN node' = DOMAIN node
    BY <1>0, <1>2, <1>3, <1>8, LeafStays
  <1>12. QueueInv'
    BY <1>3, <1>8, <1>11 DEF QueueInv, Exhausted
  <1>13. Queue!Add(number)
    <2>1. Held(number) \in Nat
      BY <1>0, <1>2, <1>3, <1>8, <1>9, LeafHeld
    <2>2. Held(number) - node[p][Side(number, 1)] + v = Held(number) + 1
      BY <1>4, <1>6, <1>7, <2>1
    <2>3. \A n \in Numbers : Held(n)' = IF n = number THEN Held(n) + 1 ELSE Held(n)
      BY <1>10, <2>2
    <2> QED BY <1>2, <1>3, <1>8, <2>3, Counted
  <1> QED BY <1>2, <1>12, <1>13 DEF Queue!Next

-----------------------------------------------------------------------------
(* The steps of a take implement the queue. *)

LEMMA TakingIs ==
  ASSUME RadixInv, QueueInv, pc = "take", stack # << >>
  PROVE  /\ TypeOK /\ HeapInv /\ Joined /\ Ordered /\ Gathered /\ Distinct /\ Exhausted /\ IsFiniteSet(DOMAIN node)
         /\ Active = Places /\ Len(stack) \in Nat /\ Len(stack) >= 1 /\ DOMAIN stack = 1..Len(stack)
         /\ Frame = stack[1] /\ stack[Len(stack)].place = Root
         /\ \A i \in 1..Len(stack) : stack[i].place \in Places
         /\ \A i \in 2..Len(stack) :
              /\ Deref(stack[i].place) \in LiveNodes /\ node[Deref(stack[i].place)].bit > 1
              /\ i - 1 \in 1..Len(stack)
              /\ \/ stack[i].at = "one" /\ stack[i - 1].place = <<Deref(stack[i].place), "zero">>
                 \/ stack[i].at = "leave" /\ stack[i - 1].place = <<Deref(stack[i].place), "one">>
         /\ top = NULL \/ top \in LiveNodes
  <1>1. TypeOK /\ HeapInv /\ Joined /\ Ordered /\ StackOK
    BY DEF RadixInv
  <1>2. Gathered /\ Distinct /\ Exhausted /\ IsFiniteSet(DOMAIN node)
    BY DEF QueueInv
  <1>3. Active = Places
    BY NothingIsDone
  <1>4. /\ Len(stack) \in Nat /\ Len(stack) >= 1 /\ DOMAIN stack = 1..Len(stack) /\ Frame = stack[1]
        /\ \A i \in 1..Len(stack) : FrameOK(i)
    BY <1>1, TailIs
  <1>5. stack[Len(stack)].place = Root /\ \A i \in 1..Len(stack) : stack[i].place \in Places
    <2>1. \A i \in 1..Len(stack) : stack[i].place \in Active /\ (i = Len(stack) => stack[i].place = Root)
      <3> SUFFICES ASSUME NEW i \in 1..Len(stack)
                   PROVE  stack[i].place \in Active /\ (i = Len(stack) => stack[i].place = Root)
        OBVIOUS
      <3>1. FrameOK(i)
        BY <1>4
      <3> QED BY <3>1 DEF FrameOK
    <2>2. Len(stack) \in 1..Len(stack)
      BY <1>4
    <2> QED BY <1>3, <2>1, <2>2
  <1>6. ASSUME NEW i \in 2..Len(stack)
        PROVE  /\ Deref(stack[i].place) \in LiveNodes /\ node[Deref(stack[i].place)].bit > 1
               /\ i - 1 \in 1..Len(stack)
               /\ \/ stack[i].at = "one" /\ stack[i - 1].place = <<Deref(stack[i].place), "zero">>
                  \/ stack[i].at = "leave" /\ stack[i - 1].place = <<Deref(stack[i].place), "one">>
    <2>1. i \in 1..Len(stack) /\ i > 1 /\ i - 1 \in 1..Len(stack)
      BY <1>4
    <2>2. FrameOK(i) /\ Deref(stack[i].place) \in LiveNodes
      BY <1>1, <1>4, <2>1, FramesAre
    <2> QED BY <2>1, <2>2 DEF FrameOK
  <1>7. top = NULL \/ top \in LiveNodes
    BY <1>1, FramesAre
  <1> QED BY <1>1, <1>2, <1>3, <1>4, <1>5, <1>6, <1>7

\* Below a node is on one of its sides.
LEMMA OnASide ==
  ASSUME NEW q, NEW p, InSubtree(q, p), q # p
  PROVE  Under(q, p, "zero") \/ Under(q, p, "one")
  BY DEF InSubtree, Under, Within, Fits, Side

\* A call that returns leaves behind what its place leads to, and no more.
LEMMA PastPopped ==
  ASSUME RadixInv, QueueInv, pc = "take", stack # << >>, stack' = Tail(stack),
         \A q \in LiveNodes : Same(q),
         \A i \in 2..Len(stack), f \in Places : f = stack[i].place => Deref(f)' = Deref(f),
         NEW q \in LiveNodes, Past(q)', ~Past(q), ~NoNumber(q)
  PROVE  Reaches(q, Frame.place)
  <1>1. /\ Len(stack) \in Nat /\ Len(stack) >= 1 /\ Frame = stack[1] /\ stack[Len(stack)].place = Root
        /\ DOMAIN stack = 1..Len(stack)
        /\ \A i \in 2..Len(stack) :
              /\ Deref(stack[i].place) \in LiveNodes /\ node[Deref(stack[i].place)].bit > 1
              /\ \/ stack[i].at = "one" /\ stack[i - 1].place = <<Deref(stack[i].place), "zero">>
                 \/ stack[i].at = "leave" /\ stack[i - 1].place = <<Deref(stack[i].place), "one">>
    BY TakingIs
  <1>2. /\ DOMAIN stack' = 1..(Len(stack) - 1) /\ Len(stack') = Len(stack) - 1
        /\ \A i \in 1..(Len(stack) - 1) : stack'[i] = stack[i + 1]
    BY TailIs DEF RadixInv
  <1>5. \A i \in 2..Len(stack) : stack[i].place \in Places
    BY <1>1, TakingIs
  <1>3. CASE stack' = << >>
    <2>1. Len(stack') = 0
      BY ONLY <1>3
    <2>3. Len(stack') = Len(stack) - 1 /\ Len(stack) \in Nat
      BY <1>1, <1>2
    <2>2. Len(stack) = 1
      BY ONLY <2>1, <2>3
    <2> QED BY <1>1, <2>2 DEF Reaches
  <1>4. ASSUME NEW i \in DOMAIN stack', Left(q, i, Deref(stack[i].place), stack[i].at)'
        PROVE  Reaches(q, Frame.place)
    <2>1. i + 1 \in 2..Len(stack) /\ i + 1 \in DOMAIN stack /\ stack'[i] = stack[i + 1] /\ (i + 1) - 1 = i /\ i \in Nat
      <3>1. i \in 1..(Len(stack) - 1)
        BY <1>2
      <3> QED BY <1>1, <1>2, <3>1
    <2>10. PICK f \in Places : f = stack[i + 1].place
      BY <1>5, <2>1
    <2>9. PICK p : p = Deref(stack[i + 1].place)
      OBVIOUS
    <2>2. Deref(stack[i].place)' = p /\ p \in LiveNodes /\ node[p].bit > 1
      <3>1. Deref(f)' = p /\ stack'[i].place = f
        BY <2>1, <2>9, <2>10
      <3> QED BY <1>1, <2>1, <2>9, <3>1
    <2>3. /\ \A side : Under(q, p, side)' <=> Under(q, p, side)
          /\ InSubtree(q, p)' <=> InSubtree(q, p)
      BY <2>2 DEF Under, Fits, InSubtree, Within, Same
    <2>4. ~(stack[i + 1].at = "leave" /\ Under(q, p, "zero"))
      BY <2>1, <2>9 DEF Past, Left
    <2>5. i = 1 /\ \/ stack[i + 1].at = "one" /\ Under(q, p, "zero")
                   \/ stack[i + 1].at = "leave" /\ InSubtree(q, p)
      BY <1>4, <2>1, <2>2, <2>3, <2>4 DEF Left
    <2>6. \/ stack[i + 1].at = "one" /\ stack[1].place = <<p, "zero">>
          \/ stack[i + 1].at = "leave" /\ stack[1].place = <<p, "one">>
      BY <1>1, <2>1, <2>5, <2>9
    <2>7. CASE stack[i + 1].at = "one" /\ Under(q, p, "zero")
      BY <1>1, <2>6, <2>7 DEF Reaches
    <2>8. CASE stack[i + 1].at = "leave" /\ InSubtree(q, p)
      <3>1. q # p
        BY <2>2 DEF NoNumber
      <3>2. Under(q, p, "one")
        BY <2>4, <2>8, <3>1, OnASide
      <3> QED BY <1>1, <2>6, <2>8, <3>2 DEF Reaches
    <2> QED BY <2>5, <2>7, <2>8
  <1> QED BY <1>3, <1>4 DEF Past

LEMMA PastKept ==
  ASSUME UNCHANGED <<node, tree>>, stack' # << >>, NEW q, Past(q)'
  PROVE  \E i \in DOMAIN stack' : Left(q, i, Deref(stack'[i].place), stack'[i].at)
  <1>1. PICK i \in DOMAIN stack' : Left(q, i, Deref(stack[i].place), stack[i].at)'
    BY DEF Past
  <1>2. /\ \A f : Deref(f)' = Deref(f)
        /\ \A p, side : Under(q, p, side)' <=> Under(q, p, side)
        /\ \A p : InSubtree(q, p)' <=> InSubtree(q, p)
    BY DEF Deref, Under, Fits, InSubtree, Within
  <1>3. Left(q, i, Deref(stack'[i].place), stack'[i].at)
    BY <1>1, <1>2 DEF Left
  <1> QED BY <1>3

\* A step of the recursion that changes no node.
LEMMA TakeQueues ==
  ASSUME RadixInv, QueueInv, pc = "take", TakeKeeps(buffer), UNCHANGED <<heapVars, node, tree>>,
         \A q \in LiveNodes : Room /\ Past(q)' => Past(q) \/ NoNumber(q)
  PROVE  QueueInv' /\ [Queue!Next]_Queue!pqVars
  <1>1. pc' = "take" /\ buffer' = buffer /\ limit' = limit /\ written' = written /\ Busy
    BY DEF TakeKeeps, takeUnchanged, Busy
  <1>2. /\ Gathered' /\ Distinct' /\ \A p \in (DOMAIN node \ LiveNodes)' : NoNumber(p)'
        /\ IsFiniteSet(DOMAIN node)' /\ bagStays /\ LiveNodes' = LiveNodes
    BY <1>1, QueueStays DEF bagStays
  <1>3. ASSUME Room', NEW q \in LiveNodes', Past(q)' PROVE NoNumber(q)'
    <2>1. Room
      BY <1>1, <1>3 DEF Room
    <2>2. NoNumber(q)
      BY <1>2, <1>3, <2>1 DEF QueueInv, Exhausted
    <2> QED BY <2>2 DEF NoNumber
  <1>4. QueueInv'
    BY <1>1, <1>2, <1>3 DEF QueueInv, Exhausted
  <1>5. UNCHANGED Queue!pqVars
    BY <1>1, <1>2, Stutters
  <1> QED BY <1>4, <1>5

LEMMA TakeNothingQueues == ASSUME RadixInv, QueueInv, TakeNothing PROVE QueueInv' /\ [Queue!Next]_Queue!pqVars
  <1>1. /\ pc = "take" /\ stack # << >> /\ stack' = Tail(stack) /\ top = NULL /\ TakeKeeps(buffer)
        /\ UNCHANGED <<heapVars, node, tree>> /\ pc' = "take"
    BY DEF TakeNothing, TakeKeeps, At
  <1>2. TypeOK /\ HeapInv /\ Gathered /\ Frame = stack[1] /\ Len(stack) >= 1 /\ stack[1].place \in Places
    BY <1>1, TakingIs
  <1>3. (\A f : Deref(f)' = Deref(f)) /\ \A q : Same(q)
    BY <1>1, <1>2, NothingMoves
  <1>4. ASSUME NEW q \in LiveNodes, Past(q)' PROVE Past(q) \/ NoNumber(q)
    <2>1. ~Reaches(q, Frame.place)
      BY <1>1, <1>2 DEF Gathered, top
    <2>2. \A i \in 2..Len(stack), f \in Places : f = stack[i].place => Deref(f)' = Deref(f)
      BY <1>3
    <2> QED BY <1>1, <1>3, <1>4, <2>1, <2>2, PastPopped
  <1> QED BY <1>1, <1>4, TakeQueues

LEMMA LeafDoneQueues == ASSUME RadixInv, QueueInv, LeafDone PROVE QueueInv' /\ [Queue!Next]_Queue!pqVars
  <1>1. /\ pc = "take" /\ stack # << >> /\ top # NULL /\ node[top].bit = 1 /\ stack' = Goto("leave") /\ TakeKeeps(buffer)
        /\ UNCHANGED <<heapVars, node, tree>> /\ pc' = "take" /\ ~(Room /\ LeafHasNumber)
    BY DEF LeafDone, TakeKeeps, At
  <1>2. /\ TypeOK /\ HeapInv /\ Frame = stack[1] /\ Len(stack) \in Nat /\ Len(stack) >= 1 /\ DOMAIN stack = 1..Len(stack)
        /\ top \in LiveNodes /\ StackOK
    BY <1>1, TakingIs DEF RadixInv
  <1>3. (\A f : Deref(f)' = Deref(f)) /\ \A q : Same(q)
    BY <1>1, <1>2, NothingMoves
  <1>4. /\ DOMAIN stack' = 1..Len(stack) /\ stack'[1].place = stack[1].place
        /\ \A i \in 2..Len(stack) : stack'[i] = stack[i]
    <2> DEFINE rest == Tail(stack)
               again == [Frame EXCEPT !.at = "leave"]
    <2>1. /\ rest \in Seq(Frames) /\ Len(rest) = Len(stack) - 1
          /\ \A i \in 1..(Len(stack) - 1) : rest[i] = stack[i + 1]
          /\ stack[1] \in Frames
      BY <1>1, <1>2, TailIs
    <2>2. again \in Frames /\ again.place = stack[1].place
      BY <1>2, <2>1 DEF Frames
    <2> HIDE DEF rest, again
    <2>3. stack' = <<again>> \o rest
      BY <1>1 DEF Goto, rest, again
    <2>4. /\ stack' \in Seq(Frames) /\ Len(stack') = Len(rest) + 1 /\ stack'[1] = again
          /\ \A i \in 1..Len(rest) : stack'[i + 1] = rest[i]
      BY <2>1, <2>2, <2>3, Prepended
    <2>5. ASSUME NEW i \in 2..Len(stack) PROVE stack'[i] = stack[i]
      <3>1. i - 1 \in 1..(Len(stack) - 1) /\ (i - 1) + 1 = i
        BY <1>2
      <3>2. stack'[(i - 1) + 1] = rest[i - 1] /\ rest[i - 1] = stack[(i - 1) + 1]
        BY <2>1, <2>4, <3>1
      <3> QED BY <3>1, <3>2
    <2>6. DOMAIN stack' = 1..Len(stack)
      BY <1>2, <2>1, <2>4
    <2> QED BY <2>2, <2>4, <2>5, <2>6
  <1>5. ASSUME Room, NEW q \in LiveNodes, Past(q)' PROVE Past(q) \/ NoNumber(q)
    <2>1. stack' # << >>
      BY <1>2, <1>4
    <2>2. PICK i \in DOMAIN stack' : Left(q, i, Deref(stack'[i].place), stack'[i].at)
      BY <1>1, <1>5, <2>1, PastKept
    <2>3. CASE i = 1
      <3>1. Deref(stack'[i].place) = top /\ node[q].bit \in Nat /\ node[q].bit >= 1 /\ node[top] \in Content
        BY <1>2, <1>4, <2>3, LiveIs DEF top
      <3>2. q = top
        BY <1>1, <2>2, <3>1 DEF Left, Under, InSubtree
      <3>3. NoNumber(top)
        BY <1>1, <1>5, <3>1 DEF NoNumber, LeafHasNumber, Content
      <3> QED BY <3>2, <3>3
    <2>4. CASE i # 1
      <3>1. i \in 2..Len(stack) /\ i \in DOMAIN stack /\ stack'[i] = stack[i]
        BY <1>2, <1>4, <2>4
      <3> QED BY <1>1, <2>2, <2>4, <3>1 DEF Past, Left
    <2> QED BY <2>3, <2>4
  <1> QED BY <1>1, <1>5, TakeQueues

LEMMA TakeFromSubtreeQueues == ASSUME RadixInv, QueueInv, TakeFromSubtree PROVE QueueInv' /\ [Queue!Next]_Queue!pqVars
  <1>1. /\ pc = "take" /\ stack # << >> /\ top # NULL /\ node[top].bit > 1 /\ TakeKeeps(buffer)
        /\ UNCHANGED <<heapVars, node, tree>> /\ pc' = "take"
    BY DEF TakeFromSubtree, TakeKeeps
  <1>2. /\ TypeOK /\ HeapInv /\ Joined /\ StackOK /\ Frame = stack[1] /\ Len(stack) \in Nat /\ Len(stack) >= 1
        /\ DOMAIN stack = 1..Len(stack) /\ top \in LiveNodes
    BY <1>1, TakingIs DEF RadixInv
  <1>3. PICK side, label : /\ \/ label = "one" /\ side = "zero"
                              \/ label = "leave" /\ side = "one" /\ Frame.at = "one"
                           /\ stack' = Call(side) \o Goto(label)
    <2>1. CASE At("enter") /\ stack' = Call("zero") \o Goto("one")
      <3> WITNESS "zero", "one"
      <3> QED BY <2>1
    <2>2. CASE At("one") /\ stack' = Call("one") \o Goto("leave")
      <3> WITNESS "one", "leave"
      <3> QED BY <2>2 DEF At
    <2> QED BY <2>1, <2>2 DEF TakeFromSubtree
  <1>4. /\ stack' \in Seq(Frames) /\ Len(stack') = Len(stack) + 1
        /\ stack'[1].place = <<top, side>> /\ stack'[1].at = "enter"
        /\ stack'[2].place = Frame.place /\ stack'[2].at = label
        /\ \A i \in 2..Len(stack) : stack'[i + 1] = stack[i]
    BY <1>1, <1>2, <1>3, PushIs
  <1>5. ASSUME NEW q \in LiveNodes, Past(q)' PROVE Past(q)
    <2>1. stack' # << >> /\ DOMAIN stack' = 1..(Len(stack) + 1)
      BY <1>2, <1>4
    <2>2. PICK i \in DOMAIN stack' : Left(q, i, Deref(stack'[i].place), stack'[i].at)
      BY <1>1, <1>5, <2>1, PastKept
    <2>3. i # 1 /\ stack'[i].at = "leave" /\ Under(q, Deref(stack'[i].place), "zero")
      BY <1>4, <2>2 DEF Left
    <2>4. CASE i = 2
      <3>1. Frame.at = "one" /\ Deref(stack'[i].place) = Deref(stack[1].place) /\ stack[1].at = "one"
        BY <1>2, <1>3, <1>4, <2>3, <2>4
      <3>2. 1 \in DOMAIN stack
        BY <1>2
      <3> QED BY <2>2, <2>3, <3>1, <3>2 DEF Past, Left
    <2>5. CASE i # 2
      <3>1. i - 1 \in 2..Len(stack) /\ i - 1 \in DOMAIN stack /\ (i - 1) + 1 = i
        BY <1>2, <2>1, <2>3, <2>5
      <3>2. stack'[i] = stack[i - 1]
        BY <1>4, <3>1
      <3> QED BY <2>2, <2>3, <3>1, <3>2 DEF Past, Left
    <2> QED BY <2>4, <2>5
  <1> QED BY <1>1, <1>5, TakeQueues

LEMMA LeaveNodeQueues == ASSUME RadixInv, QueueInv, LeaveNode PROVE QueueInv' /\ [Queue!Next]_Queue!pqVars
  <1>1. /\ pc = "take" /\ stack # << >> /\ Frame.at = "leave" /\ stack' = Tail(stack) /\ pc' = "take"
        /\ buffer' = buffer /\ limit' = limit /\ written' = written /\ TakeKeeps(buffer)
    BY DEF LeaveNode, At, TakeKeeps, takeUnchanged
  <1>2. PICK p, f0 : p = top /\ f0 = Frame.place
    OBVIOUS
  <1>3. /\ TypeOK /\ HeapInv /\ Joined /\ Ordered /\ StackOK /\ Gathered /\ Distinct /\ Exhausted
        /\ IsFiniteSet(DOMAIN node) /\ Active = Places /\ Frame = stack[1] /\ 1 \in DOMAIN stack
        /\ Len(stack) \in Nat /\ Len(stack) >= 1 /\ f0 \in Places /\ stack[1].place \in Places
        /\ \A i \in 2..Len(stack) : stack[i].place \in Places
    BY <1>1, <1>2, TakingIs DEF RadixInv
  <1>4. p \in LiveNodes /\ Deref(f0) = p /\ stack[1].place = f0 /\ Deref(stack[1].place) = p
    <2>1. top \in LiveNodes
      BY <1>1, <1>3, FramesAre, LiveIs
    <2> QED BY <1>2, <1>3, <2>1 DEF top
  <1>5. ASSUME NEW q \in LiveNodes, Reaches(q, f0) PROVE Past(q)
    <2>1. InSubtree(q, p)
      BY <1>3, <1>4, <1>5 DEF Gathered
    <2> QED BY <1>1, <1>3, <1>4, <2>1 DEF Past, Left
  <1>6. CASE ~Empty(top)
    <2>1. UNCHANGED <<heapVars, node, tree>>
      BY <1>6 DEF LeaveNode
    <2>2. (\A f : Deref(f)' = Deref(f)) /\ \A q : Same(q)
      BY <1>3, <2>1, NothingMoves
    <2>3. \A i \in 2..Len(stack), f \in Places : f = stack[i].place => Deref(f)' = Deref(f)
      BY <2>2
    <2>4. ASSUME NEW q \in LiveNodes, Past(q)' PROVE Past(q) \/ NoNumber(q)
      BY <1>1, <1>2, <1>5, <2>2, <2>3, <2>4, PastPopped
    <2> QED BY <1>1, <2>1, <2>4, TakeQueues
  <1>7. CASE Empty(top)
    <2>1. Release(p) /\ Store(node, f0, NULL)
      BY <1>2, <1>7 DEF LeaveNode, Unlink
    <2>2. LiveNodes' = LiveNodes \ {p}
      BY <1>3, <1>4, <2>1, NodeReleased
    <2>3. /\ DOMAIN node' = DOMAIN node
          /\ \A q \in LiveNodes : Same(q)
          /\ \A f \in Places : Deref(f)' = IF f = f0 THEN NULL ELSE Deref(f)
          /\ \A q \in DOMAIN node : /\ node'[q].bit = node[q].bit /\ node'[q].number = node[q].number
                                    /\ node[q].bit = 1 => node'[q] = node[q]
      <3>1. PICK N : N = node
        OBVIOUS
      <3>2. Store(N, f0, NULL) /\ NULL \in Nat /\ f0 \in Places
        BY <1>3, <2>1, <3>1 DEF NULL
      <3>3. /\ LiveNodes \subseteq DOMAIN N /\ \A q \in LiveNodes : N[q] = node[q]
            /\ \A q \in DOMAIN N : N[q] \in Content
        BY <1>3, <3>1, LiveIs DEF TypeOK, Content
      <3>4. /\ DOMAIN node' = DOMAIN N
            /\ \A q \in LiveNodes : Same(q)
            /\ \A f \in Places : Deref(f)' = IF f = f0 THEN NULL ELSE Deref(f)
        BY <1>3, <3>2, <3>3, Stored
      <3>5. \A q \in DOMAIN N : /\ node'[q].bit = N[q].bit /\ node'[q].number = N[q].number
                                /\ N[q].bit = 1 => node'[q] = N[q]
        BY <1>3, <3>2, <3>3, LeavesStay
      <3> QED BY <3>1, <3>4, <3>5
    <2>4. /\ Places' \subseteq Places
          /\ \A f \in Places' : f = Root \/ f[1] \in LiveNodes'
      BY <1>3, <1>4, <2>2, <2>3, PlacesWithout
    <2>5. Gathered' /\ Distinct'
      <3>1. /\ \A f \in Places : Deref(f) = NULL \/ Deref(f) \in LiveNodes
            /\ \A f \in Places : Deref(f) = p => f = f0
        <4>1. p # NULL
          BY <1>3, <1>4, LiveIs
        <4> QED BY <1>3, <1>4, <4>1 DEF Joined
      <3>2. Empty(p) /\ \A f \in Places' : Deref(f)' = IF f = f0 THEN NULL ELSE Deref(f)
        BY <1>2, <1>7, <2>3, <2>4
      <3> QED BY <1>3, <1>4, <2>2, <2>3, <2>4, <3>1, <3>2, NodeScattered
    <2>6. \A q \in DOMAIN node : NoNumber(q) => NoNumber(q)'
      BY <2>3 DEF NoNumber
    <2>7. \A q \in DOMAIN node' \ LiveNodes' : NoNumber(q)'
      <3>1. NoNumber(p)
        BY <1>2, <1>7 DEF Empty, NoNumber
      <3> QED BY <1>3, <2>2, <2>3, <2>6, <3>1 DEF Exhausted
    <2>8. ASSUME Room', NEW q \in LiveNodes', Past(q)' PROVE NoNumber(q)'
      <3>1. Room /\ q \in LiveNodes /\ q \in DOMAIN node
        BY <1>1, <1>3, <2>2, <2>8, LiveIs DEF Room
      <3>2. ASSUME NEW i \in 2..Len(stack), NEW f \in Places, f = stack[i].place PROVE Deref(f)' = Deref(f)
        <4>1. f # f0
          BY <1>1, <1>2, <1>3, <3>2, FramesAre
        <4> QED BY <2>3, <4>1
      <3>3. Past(q) \/ NoNumber(q)
        BY <1>1, <1>2, <1>5, <2>3, <2>8, <3>1, <3>2, PastPopped
      <3>4. NoNumber(q)
        BY <1>1, <1>3, <3>1, <3>3 DEF Exhausted
      <3> QED BY <2>6, <3>1, <3>4
    <2>9. QueueInv'
      BY <1>1, <1>3, <2>3, <2>5, <2>7, <2>8 DEF QueueInv, Exhausted
    <2>10. bagStays
      <3>1. ASSUME NEW n PROVE Held(n)' = Held(n)
        <4>1. \A q \in DOMAIN node : InLeaf(q, n)' = InLeaf(q, n)
          BY <2>3 DEF InLeaf
        <4> QED BY <2>3, <4>1, HeldStays
      <3> QED BY <3>1 DEF bagStays
    <2>11. UNCHANGED Queue!pqVars
      <3>1. limit' - Len(buffer') = limit - Len(buffer) /\ written' \o buffer' = written \o buffer
        BY <1>1
      <3> QED BY <2>10, <3>1, Stutters
    <2> QED BY <2>9, <2>11
  <1> QED BY <1>6, <1>7

LEMMA WriteTakenQueues == ASSUME RadixInv, QueueInv, WriteTaken PROVE QueueInv' /\ [Queue!Next]_Queue!pqVars
  <1> DEFINE taken == Len(buffer)
             over == TakesEnd(taken)
  <1>1. /\ pc = "take" /\ stack = << >> /\ written' = written \o buffer
        /\ limit' = IF over THEN 0 ELSE limit - taken
        /\ pc' = IF over THEN "read" ELSE "take"
        /\ stack' = IF over THEN << >> ELSE <<Enter(Root)>>
        /\ buffer' = << >> /\ UNCHANGED <<heapVars, node, tree>> /\ Busy
    BY DEF WriteTaken, Busy
  <1>2. /\ TypeOK /\ Exhausted /\ IsFiniteSet(DOMAIN node) /\ BufferSize \in Nat \ {0}
        /\ taken \in Nat /\ limit \in Nat /\ buffer \in Seq(Numbers) /\ written \in Seq(Numbers) /\ taken <= limit
        /\ \A q \in DOMAIN node : node[q] \in Content
    BY <1>1, RadixAssumption DEF RadixInv, TypeOK, QueueInv, Content
  <1>3. /\ Gathered' /\ Distinct' /\ \A p \in (DOMAIN node \ LiveNodes)' : NoNumber(p)'
        /\ IsFiniteSet(DOMAIN node)' /\ bagStays
    BY <1>1, QueueStays DEF bagStays
  <1>4. written' \o buffer' = written \o buffer /\ Len(buffer') = 0
    <2>1. written \o buffer \in Seq(Numbers)
      BY <1>2
    <2>2. (written \o buffer) \o << >> = written \o buffer
      BY <2>1
    <2>3. Len(<< >>) = 0
      OBVIOUS
    <2> QED BY <1>1, <2>2, <2>3
  <1>5. ASSUME stack' = <<Enter(Root)>>, NEW q PROVE ~Past(q)'
    <2>1. stack' # << >> /\ \A j \in DOMAIN stack' : stack'[j].at = "enter"
      BY <1>5 DEF Enter
    <2> QED BY <2>1 DEF Past, Left
  <1>6. QueueInv'
    <2>1. CASE over
      BY <1>1, <1>3, <2>1 DEF QueueInv, Exhausted
    <2>2. CASE ~over
      BY <1>1, <1>3, <1>5, <2>2 DEF QueueInv, Exhausted
    <2> QED BY <2>1, <2>2
  <1>7. [Queue!Next]_Queue!pqVars
    <2>1. CASE ~over \/ limit = taken
      <3>1. limit' = limit - taken
        BY <1>1, <1>2, <2>1 DEF TakesEnd
      <3>2. limit' - Len(buffer') = limit - Len(buffer)
        BY <1>2, <1>4, <3>1
      <3> QED BY <1>3, <1>4, <3>2, Stutters
    <2>2. CASE over /\ limit # taken
      <3>1. taken = 0 /\ limit' = 0 /\ limit > 0
        BY <1>1, <1>2, <2>2 DEF TakesEnd
      <3>2. Room
        BY <1>2, <3>1 DEF Room
      <3>3. \A q \in DOMAIN node : NoNumber(q)
        BY <1>1, <1>2, <3>2 DEF Exhausted, Past
      <3>4. \A n \in Numbers : Held(n) = 0
        <4> TAKE n \in Numbers
        <4>1. \A q \in DOMAIN node : InLeaf(q, n) = 0
          BY <1>2, <3>3, InLeafIs
        <4> QED BY <1>2, <4>1, HeldIs
      <3>5. limit - Len(buffer) > 0 /\ limit' - Len(buffer') = 0
        BY <1>2, <1>4, <3>1
      <3>6. Queue!Forget
        BY <1>3, <1>4, <3>4, <3>5 DEF Queue!Forget, bagStays
      <3> QED BY <3>6 DEF Queue!Next
    <2> QED BY <2>1, <2>2
  <1> QED BY <1>6, <1>7

\* The node of the innermost call belongs below the places of all the calls.
LEMMA TopReaches ==
  ASSUME RadixInv, QueueInv, pc = "take", stack # << >>, top # NULL
  PROVE  \A i \in 1..Len(stack) : Reaches(top, stack[i].place)
  <1>1. /\ TypeOK /\ HeapInv /\ Ordered /\ Gathered /\ Active = Places /\ Len(stack) \in Nat /\ Len(stack) >= 1
        /\ Frame = stack[1] /\ top \in LiveNodes
        /\ \A i \in 1..Len(stack) : stack[i].place \in Places
        /\ \A i \in 2..Len(stack) :
              /\ Deref(stack[i].place) \in LiveNodes /\ node[Deref(stack[i].place)].bit > 1
              /\ i - 1 \in 1..Len(stack)
              /\ \/ stack[i].at = "one" /\ stack[i - 1].place = <<Deref(stack[i].place), "zero">>
                 \/ stack[i].at = "leave" /\ stack[i - 1].place = <<Deref(stack[i].place), "one">>
    BY TakingIs
  <1>2. \A q \in LiveNodes : node[q].bit \in Positions /\ node[q].bit \in Nat /\ node[q].number \in Nat /\ q # NULL
    BY <1>1, LiveIs
  <1>3. \A f \in Places : Deref(f) # NULL => Reaches(Deref(f), f)
    BY <1>1 DEF Ordered, Reaches, Under
  <1> DEFINE N == Len(stack) - 1
             T == {m \in 0..N : Reaches(top, stack[m + 1].place)}
  <1>4. N \in Nat
    BY <1>1
  <1>5. 0 \in T
    <2>1. 0 \in 0..N /\ 0 + 1 = 1
      BY <1>4
    <2>2. Deref(stack[1].place) = top /\ stack[1].place \in Places
      BY <1>1 DEF top
    <2> QED BY <1>3, <2>1, <2>2
  <1>6. ASSUME NEW m \in 0..(N - 1), m \in T PROVE m + 1 \in T
    <2>1. m + 1 \in 0..N /\ (m + 1) + 1 \in 2..Len(stack) /\ ((m + 1) + 1) - 1 = m + 1
      BY <1>1, <1>4
    <2>2. PICK f : f = stack[(m + 1) + 1].place
      OBVIOUS
    <2>3. PICK p : p = Deref(f)
      OBVIOUS
    <2>4. f \in Places /\ p \in LiveNodes /\ \E side : stack[m + 1].place = <<p, side>>
      BY <1>1, <2>1, <2>2, <2>3
    <2>5. PICK side : stack[m + 1].place = <<p, side>>
      BY <2>4
    <2>6. Under(top, p, side)
      <3>1. Reaches(top, <<p, side>>) /\ <<p, side>> # Root
        BY <1>2, <1>6, <2>4, <2>5 DEF Root
      <3> QED BY <3>1 DEF Reaches
    <2>7. Reaches(p, f)
      BY <1>2, <1>3, <2>3, <2>4
    <2>8. Reaches(top, f)
      <3> SUFFICES ASSUME f # Root PROVE Under(top, f[1], f[2])
        BY DEF Reaches
      <3>1. Under(p, f[1], f[2]) /\ f[1] \in LiveNodes
        BY <1>1, <2>4, <2>7, PlaceIs DEF Reaches
      <3>2. PICK u : u = f[1]
        OBVIOUS
      <3>3. /\ node[top].number \div (2 * node[u].bit) = node[p].number \div (2 * node[u].bit)
            /\ Side(node[top].number, node[u].bit) = Side(node[p].number, node[u].bit)
        <4>1. /\ node[top].number \in Nat /\ node[p].number \in Nat /\ node[p].bit \in Positions
              /\ node[u].bit \in Positions /\ node[p].bit < node[u].bit
              /\ node[top].number \div (2 * node[p].bit) = node[p].number \div (2 * node[p].bit)
          BY <1>1, <1>2, <2>4, <2>6, <3>1, <3>2 DEF Under, Fits
        <4> QED BY <4>1, AgreeAbove
      <3>4. node[top].bit < node[u].bit
        <4>1. node[top].bit < node[p].bit /\ node[p].bit < node[u].bit
          BY <2>6, <3>1, <3>2 DEF Under
        <4>2. node[top].bit \in Nat /\ node[p].bit \in Nat /\ node[u].bit \in Nat
          BY <1>1, <1>2, <2>4, <3>1, <3>2
        <4> QED BY <4>1, <4>2
      <3> QED BY <3>1, <3>2, <3>3, <3>4 DEF Under, Fits
    <2> QED BY <2>1, <2>2, <2>8
  <1>7. 0..N \subseteq T
    <2> HIDE DEF T, N
    <2> QED BY <1>4, <1>5, <1>6, InductionUpTo
  <1>8. ASSUME NEW i \in 1..Len(stack) PROVE Reaches(top, stack[i].place)
    <2>1. i - 1 \in 0..N /\ (i - 1) + 1 = i
      BY <1>1
    <2> QED BY <1>7, <2>1
  <1> QED BY <1>8

\* What is lower than another number is not above it in the higher bits.
LEMMA LowerStays ==
  ASSUME NEW m \in Nat, NEW n \in Nat, NEW x \in Nat \ {0}, m < n
  PROVE  m \div x <= n \div x /\ m \div x \in Nat /\ n \div x \in Nat
  OBVIOUS

LEMMA HalfOf ==
  ASSUME NEW a \in Nat, NEW x \in Nat \ {0}
  PROVE  a \div (2 * x) = (a \div x) \div 2 /\ a \div x \in Nat
  OBVIOUS

LEMMA AppendLater ==
  ASSUME NEW S, NEW s \in Seq(S), NEW t \in Seq(S), NEW x \in S
  PROVE  s \o Append(t, x) = Append(s \o t, x)
  OBVIOUS

\* At the leaf of the innermost call, the leaves with lower numbers are behind.
LEMMA LowerIsPast ==
  ASSUME RadixInv, QueueInv, pc = "take", stack # << >>, top # NULL, node[top].bit = 1,
         NEW q \in LiveNodes, node[q].bit = 1, q # top, NEW m \in Nat, NEW n \in Nat, m < n,
         node[q].number \div 2 = m \div 2, node[top].number \div 2 = n \div 2
  PROVE  Past(q)
  <1>1. /\ TypeOK /\ HeapInv /\ Gathered /\ Len(stack) \in Nat /\ Len(stack) >= 1 /\ DOMAIN stack = 1..Len(stack)
        /\ Frame = stack[1] /\ top \in LiveNodes /\ stack[Len(stack)].place = Root
        /\ \A i \in 1..Len(stack) : stack[i].place \in Places
        /\ \A i \in 2..Len(stack) :
              /\ Deref(stack[i].place) \in LiveNodes /\ node[Deref(stack[i].place)].bit > 1
              /\ i - 1 \in 1..Len(stack)
              /\ \/ stack[i].at = "one" /\ stack[i - 1].place = <<Deref(stack[i].place), "zero">>
                 \/ stack[i].at = "leave" /\ stack[i - 1].place = <<Deref(stack[i].place), "one">>
    BY TakingIs
  <1>2. \A p \in LiveNodes : node[p].bit \in Positions /\ node[p].bit \in Nat /\ node[p].bit >= 1 /\ node[p].number \in Nat
                             /\ p # NULL
    BY <1>1, LiveIs
  \* The innermost call that q belongs below.
  <1> DEFINE S == {i \in 1..Len(stack) : Reaches(q, stack[i].place)}
  <1>3. PICK j \in S : \A i \in S : j <= i
    <2>1. Len(stack) \in S
      BY <1>1 DEF Reaches
    <2>2. S \in SUBSET Nat /\ S # {}
      BY <2>1
    <2> HIDE DEF S
    <2> QED BY <2>2, LeastNumber
  <1>4. PICK f \in Places : f = stack[j].place
    BY <1>1
  <1>5. PICK p : p = Deref(f)
    OBVIOUS
  <1>6. p # NULL /\ InSubtree(q, p) /\ j \in 1..Len(stack)
    BY <1>1, <1>3, <1>4, <1>5 DEF Gathered
  <1>7. j # 1
    <2> SUFFICES ASSUME j = 1 PROVE FALSE
      OBVIOUS
    <2>1. p = top
      BY <1>1, <1>4, <1>5 DEF top
    <2> QED BY <1>2, <1>6, <2>1 DEF InSubtree
  <1>8. j \in 2..Len(stack) /\ j - 1 \in 1..Len(stack) /\ j - 1 < j /\ j \in DOMAIN stack
    BY <1>1, <1>6, <1>7
  <1>9. p \in LiveNodes /\ node[p].bit > 1 /\ \/ stack[j].at = "one" /\ stack[j - 1].place = <<p, "zero">>
                                              \/ stack[j].at = "leave" /\ stack[j - 1].place = <<p, "one">>
    BY <1>1, <1>4, <1>5, <1>8
  <1>10. Under(q, p, "zero") \/ Under(q, p, "one")
    BY <1>6, <1>9, OnASide
  <1>11. ~Reaches(q, stack[j - 1].place)
    <2> SUFFICES ASSUME Reaches(q, stack[j - 1].place) PROVE FALSE
      OBVIOUS
    <2>1. j - 1 \in S
      BY <1>8
    <2>2. j <= j - 1 /\ j \in Nat
      BY <1>3, <2>1
    <2> QED BY <2>2
  <1>12. CASE stack[j].at = "leave" /\ stack[j - 1].place = <<p, "one">>
    <2>1. <<p, "one">> # Root /\ <<p, "one">>[1] = p /\ <<p, "one">>[2] = "one"
      BY <1>2, <1>9 DEF Root
    <2>2. Under(q, p, "zero")
      BY <1>10, <1>11, <1>12, <2>1 DEF Reaches
    <2> QED BY <1>4, <1>5, <1>8, <1>12, <2>2 DEF Past, Left
  <1>13. CASE stack[j].at = "one" /\ stack[j - 1].place = <<p, "zero">>
    <2>1. <<p, "zero">> # Root /\ <<p, "zero">>[1] = p /\ <<p, "zero">>[2] = "zero"
      BY <1>2, <1>9 DEF Root
    <2>2. Under(q, p, "one")
      BY <1>10, <1>11, <1>13, <2>1 DEF Reaches
    <2>3. Under(top, p, "zero")
      <3>1. Reaches(top, stack[j - 1].place)
        BY <1>8, TopReaches
      <3> QED BY <1>13, <2>1, <3>1 DEF Reaches
    <2>4. PICK x : x = node[p].bit
      OBVIOUS
    <2>5. PICK a, b : a = node[top].number /\ b = node[q].number
      OBVIOUS
    <2>6. x \in Positions /\ x \in Nat \ {0} /\ x > 1 /\ a \in Nat /\ b \in Nat /\ 1 \in Positions
      <3>1. x \in Positions /\ x > 1 /\ a \in Nat /\ b \in Nat
        BY <1>1, <1>2, <1>9, <2>4, <2>5
      <3>2. x \in Nat /\ x >= 1 /\ 1 \in Positions
        BY <3>1, PositionIs
      <3> QED BY <3>1, <3>2
    <2>7. a \div (2 * x) = b \div (2 * x) /\ Side(a, x) = "zero" /\ Side(b, x) = "one"
      BY <2>2, <2>3, <2>4, <2>5 DEF Under, Fits
    <2>8. a \div x < b \div x
      <3>1. ~Set(a, x) /\ Set(b, x)
        BY <2>7 DEF Side
      <3>2. PICK c, d : c = a \div x /\ d = b \div x
        OBVIOUS
      <3>3. c \in Nat /\ d \in Nat /\ a \div (2 * x) = c \div 2 /\ b \div (2 * x) = d \div 2
        BY <2>6, <3>2, HalfOf
      <3>4. c \div 2 = d \div 2 /\ c % 2 # 1 /\ d % 2 = 1
        BY <2>7, <3>1, <3>2, <3>3 DEF Set
      <3> QED BY <3>2, <3>3, <3>4
    <2>9. a \div x = n \div x /\ b \div x = m \div x
      <3>1. PICK y : y = 1
        OBVIOUS
      <3>2. y \in Positions /\ y < x /\ a \div (2 * y) = n \div (2 * y) /\ b \div (2 * y) = m \div (2 * y)
        BY <2>5, <2>6, <3>1
      <3>3. a \div x = n \div x
        <4>1. /\ a \in Nat /\ n \in Nat /\ y \in Positions /\ x \in Positions /\ y < x
              /\ a \div (2 * y) = n \div (2 * y)
          BY <2>6, <3>2
        <4> QED BY ONLY <4>1, AgreeAbove
      <3>4. b \div x = m \div x
        <4>1. /\ b \in Nat /\ m \in Nat /\ y \in Positions /\ x \in Positions /\ y < x
              /\ b \div (2 * y) = m \div (2 * y)
          BY <2>6, <3>2
        <4> QED BY ONLY <4>1, AgreeAbove
      <3> QED BY <3>3, <3>4
    <2>10. m \div x <= n \div x /\ m \div x \in Nat /\ n \div x \in Nat
      BY <2>6, LowerStays
    <2> QED BY <2>8, <2>9, <2>10
  <1> QED BY <1>9, <1>12, <1>13

LEMMA TakeFromLeafQueues == ASSUME RadixInv, QueueInv, TakeFromLeaf PROVE QueueInv' /\ [Queue!Next]_Queue!pqVars
  <1>1. PICK p : p = top
    OBVIOUS
  <1>2. PICK side \in {"zero", "one"} : side = TakenSide
    BY DEF TakenSide
  <1>3. PICK n : n = LET even == (node[p].number \div 2) * 2 IN IF side = "zero" THEN even ELSE even + 1
    OBVIOUS
  <1>4. /\ pc = "take" /\ stack # << >> /\ p # NULL /\ node[p].bit = 1 /\ Room /\ LeafHasNumber
        /\ buffer' = Append(buffer, n)
        /\ UNCHANGED <<heapVars, tree, pc, stack, limit, written>>
    BY <1>1, <1>2, <1>3 DEF TakeFromLeaf, At, takeUnchanged
  <1>5. /\ TypeOK /\ HeapInv /\ Joined /\ Gathered /\ Distinct /\ Exhausted /\ IsFiniteSet(DOMAIN node)
        /\ Active = Places /\ p \in LiveNodes
        /\ \A i \in DOMAIN stack : stack[i].place \in Places /\ Deref(stack[i].place) \in LiveNodes
    <2>1. ASSUME NEW i \in DOMAIN stack PROVE Deref(stack[i].place) \in LiveNodes
      <3>1. i = 1 \/ i \in 2..Len(stack)
        BY <1>4, TakingIs
      <3>2. Deref(stack[1].place) = p /\ p \in LiveNodes
        BY <1>1, <1>4, TakingIs DEF top
      <3> QED BY <1>4, <3>1, <3>2, TakingIs
    <2> QED BY <1>1, <1>4, <2>1, TakingIs
  <1>6. node[p] \in Content /\ p \in DOMAIN node /\ \A q \in DOMAIN node : node[q] \in Content
    BY <1>5, LiveIs DEF TypeOK, Content
  <1>7. n \in Numbers /\ n \in Nat /\ n \div 2 = node[p].number \div 2 /\ side = Side(n, 1)
    <2>1. node[p].number \in Numbers
      BY <1>6 DEF Content
    <2>2. MaxBits \in Nat
      BY NumbersIn, PositionIs
    <2>3. \A k \in 0..(2 * MaxBits - 1) :
            /\ (k \div 2) * 2 \in 0..(2 * MaxBits - 1) /\ (k \div 2) * 2 + 1 \in 0..(2 * MaxBits - 1)
            /\ (k \div 2) * 2 \in Nat /\ (k \div 2) * 2 + 1 \in Nat
            /\ ((k \div 2) * 2) \div 2 = k \div 2 /\ ((k \div 2) * 2 + 1) \div 2 = k \div 2
            /\ ~Set((k \div 2) * 2, 1) /\ Set((k \div 2) * 2 + 1, 1)
      <3> HIDE DEF MaxBits
      <3> QED BY <2>2 DEF Set
    <2>4. CASE side = "zero"
      BY <1>3, <2>1, <2>3, <2>4 DEF Numbers, Side
    <2>5. CASE side = "one"
      BY <1>3, <2>1, <2>3, <2>5 DEF Numbers, Side
    <2> QED BY <2>4, <2>5
  <1>8. /\ node[p][side] \in Nat /\ node[p][side] > 0
        /\ side = "one" => node[p]["zero"] = 0
    <2>1. node[p].zero \in Nat /\ node[p].one \in Nat /\ node[p]["zero"] = node[p].zero /\ node[p]["one"] = node[p].one
      BY <1>6 DEF Content
    <2> QED BY <1>1, <1>2, <1>4, <2>1 DEF TakenSide, LeafHasNumber
  <1>9. PICK v : v = node[p][side] - 1
    OBVIOUS
  <1>10. v \in Nat /\ node' = [node EXCEPT ![p][Side(n, 1)] = v]
    <2>1. v \in Nat
      BY <1>8, <1>9
    <2>2. node' = [node EXCEPT ![p][side] = v]
      BY <1>1, <1>2, <1>6, <1>9 DEF TakeFromLeaf
    <2> QED BY <1>7, <2>1, <2>2
  <1>11. /\ \A k \in Numbers : Held(k)' = IF k = n THEN Held(k) - node[p][side] + v ELSE Held(k)
         /\ Held(n) \in Nat /\ node[p][side] <= Held(n)
    <2>1. /\ \A k \in Numbers : Held(k)' = IF k = n THEN Held(k) - node[p][Side(n, 1)] + v ELSE Held(k)
          /\ Held(n) \in Nat /\ node[p][Side(n, 1)] <= Held(n)
      <3>1. node[p].number \div 2 = n \div 2 /\ UNCHANGED <<heapVars, tree>>
        BY <1>4, <1>7
      <3> QED BY <1>4, <1>5, <1>7, <1>10, <3>1, LeafHeld
    <2>2. Side(n, 1) = side
      BY <1>7
    <2> QED BY <2>1, <2>2
  <1>12. /\ Gathered' /\ Distinct' /\ \A q \in DOMAIN node' \ LiveNodes' : NoNumber(q)'
         /\ DOMAIN node' = DOMAIN node /\ LiveNodes' = LiveNodes
         /\ \A f \in Places : Deref(f)' = Deref(f)
         /\ \A q \in LiveNodes : Same(q) /\ (q # p => node'[q] = node[q])
    BY <1>4, <1>5, <1>10, LeafStays DEF Exhausted
  <1>13. buffer \in Seq(Numbers) /\ written \in Seq(Numbers) /\ Len(buffer') = Len(buffer) + 1 /\ Len(buffer) \in Nat
    <2>1. buffer \in Seq(Numbers) /\ written \in Seq(Numbers)
      BY <1>5 DEF TypeOK
    <2> QED BY <1>4, <1>7, <2>1
  <1>14. ASSUME NEW q \in LiveNodes, Past(q)' PROVE Past(q)
    <2>1. stack' = stack
      BY <1>4
    <2>2. PICK i \in DOMAIN stack : Left(q, i, Deref(stack[i].place), stack[i].at)'
      BY <1>4, <1>14, <2>1 DEF Past
    <2>3. PICK f \in Places : f = stack[i].place
      BY <1>5
    <2>4. Deref(f)' = Deref(f) /\ Deref(stack[i].place)' = Deref(f)
      BY <1>12, <2>1, <2>3
    <2>5. Left(q, i, Deref(stack[i].place), stack[i].at)
      <3>1. PICK d : d = Deref(f)
        OBVIOUS
      <3>2. Left(q, i, d, stack[i].at)'
        BY <2>2, <2>4, <3>1
      <3>3. d \in LiveNodes
        BY <1>5, <2>3, <3>1
      <3> QED BY <1>12, <2>1, <2>3, <3>1, <3>2, <3>3 DEF Left, Under, Fits, InSubtree, Within, Same
    <2> QED BY <2>5 DEF Past
  <1>15. QueueInv'
    <2>1. ASSUME NEW q \in LiveNodes', Past(q)' PROVE NoNumber(q)'
      <3>1. q \in LiveNodes /\ NoNumber(q)
        BY <1>4, <1>5, <1>12, <1>14, <2>1 DEF Exhausted
      <3>2. q # p
        BY <1>4, <1>8, <3>1 DEF NoNumber
      <3> QED BY <1>12, <3>1, <3>2 DEF NoNumber
    <2> QED BY <1>4, <1>5, <1>12, <2>1 DEF QueueInv, Exhausted
  <1>16. Queue!Take(n)
    <2>1. limit - Len(buffer) > 0 /\ limit' - Len(buffer') = limit - Len(buffer) - 1
      <3>1. limit \in Nat /\ BufferSize \in Nat /\ limit' = limit
        BY <1>4, <1>5, RadixAssumption DEF TypeOK
      <3> QED BY <1>4, <1>13, <3>1 DEF Room
    <2>2. Held(n) > 0
      BY <1>8, <1>11
    <2>3. ASSUME NEW m \in Numbers, m < n PROVE Held(m) = 0
      <3>1. ASSUME NEW q \in DOMAIN node PROVE InLeaf(q, m) = 0
        <4>1. CASE NoNumber(q)
          BY <1>6, <4>1, InLeafIs
        <4>2. CASE ~(node[q].bit = 1 /\ node[q].number \div 2 = m \div 2)
          BY <4>2 DEF InLeaf
        <4>3. CASE q = p
          <5>1. m \in Nat
            BY NumberIs
          <5>2. m \div 2 = n \div 2 => Side(m, 1) = "zero" /\ Side(n, 1) = "one"
            BY <1>7, <2>3, <5>1 DEF Side, Set
          <5> QED BY <1>7, <1>8, <4>3, <5>2 DEF InLeaf
        <4>4. CASE q # p /\ node[q].bit = 1 /\ node[q].number \div 2 = m \div 2 /\ q \in LiveNodes
          <5>1. m \in Nat
            BY NumberIs
          <5>2. Past(q)
            BY <1>1, <1>4, <1>7, <2>3, <4>4, <5>1, LowerIsPast
          <5>3. NoNumber(q)
            BY <1>4, <1>5, <4>4, <5>2 DEF Exhausted
          <5> QED BY <4>1, <5>3
        <4>5. CASE q \notin LiveNodes
          BY <1>5, <4>1, <4>5 DEF Exhausted
        <4> QED BY <4>2, <4>3, <4>4, <4>5
      <3> QED BY <1>5, <1>6, <3>1, HeldIs
    <2>4. [k \in Numbers |-> Held(k)]' = [[k \in Numbers |-> Held(k)] EXCEPT ![n] = @ - 1]
      <3>1. Held(n) - node[p][side] + v = Held(n) - 1
        BY <1>8, <1>9, <1>11
      <3>2. \A k \in Numbers : Held(k)' = IF k = n THEN Held(k) - 1 ELSE Held(k)
        BY <1>11, <3>1
      <3> QED BY <3>2
    <2>5. written' \o buffer' = Append(written \o buffer, n)
      <3>1. written' = written /\ buffer' = Append(buffer, n)
        BY <1>4
      <3>2. written \o Append(buffer, n) = Append(written \o buffer, n)
        BY <1>7, <1>13, AppendLater
      <3> QED BY <3>1, <3>2
    <2> QED BY <1>7, <2>1, <2>2, <2>3, <2>4, <2>5 DEF Queue!Take
  <1> QED BY <1>7, <1>15, <1>16 DEF Queue!Next

-----------------------------------------------------------------------------
(* Releasing the tree is no concern of the queue. *)

LEMMA OtherQueues ==
  ASSUME RadixInv, QueueInv, UNCHANGED <<node, limit, buffer, written>>, pc' \in {"release", "end"}, pc # "take"
  PROVE  QueueInv' /\ [Queue!Next]_Queue!pqVars
  <1>1. QueueInv'
    BY DEF QueueInv
  <1>2. bagStays
    BY DEF bagStays, Held, InLeaf
  <1>3. limit' - Len(buffer') = limit - Len(buffer) /\ written' \o buffer' = written \o buffer
    OBVIOUS
  <1> QED BY <1>1, <1>2, <1>3, Stutters

LEMMA QueueStarts == Init => QueueInv /\ Queue!Init
  <1> SUFFICES ASSUME Init PROVE QueueInv /\ Queue!Init
    OBVIOUS
  <1>1. /\ live = {} /\ DOMAIN node = {} /\ tree = NULL /\ pc = "read" /\ limit = 0 /\ buffer = << >> /\ written = << >>
    BY DEF Init, InitHeap
  <1>2. LiveNodes = {}
    BY <1>1 DEF LiveNodes
  <1>3. QueueInv
    BY <1>1, <1>2, FS_EmptySet DEF QueueInv, Gathered, Distinct, Exhausted
  <1>4. \A n : Held(n) = 0
    BY <1>1, SumOfNone DEF Held
  <1>5. limit - Len(buffer) = 0
    <2>1. Len(buffer) = 0
      BY ONLY <1>1
    <2>2. limit = 0
      BY <1>1
    <2> QED BY ONLY <2>1, <2>2
  <1>6. written \o buffer = << >>
    BY <1>1
  <1>7. [n \in Numbers |-> Held(n)] = [n \in Numbers |-> 0]
    BY <1>4
  <1> QED BY <1>3, <1>5, <1>6, <1>7 DEF Queue!Init

LEMMA QueueKeeps == RadixInv /\ QueueInv /\ [Next]_vars => QueueInv' /\ [Queue!Next]_Queue!pqVars
  <1> SUFFICES ASSUME RadixInv, QueueInv, [Next]_vars PROVE QueueInv' /\ [Queue!Next]_Queue!pqVars
    OBVIOUS
  <1>1. ASSUME NEW i \in Inputs, ReadNumber(i) PROVE QueueInv' /\ [Queue!Next]_Queue!pqVars
    BY <1>1, ReadNumberQueues
  <1>2. CASE NewLeaf
    BY <1>2, NewLeafQueues
  <1>3. CASE Split
    BY <1>3, SplitQueues
  <1>4. CASE Descend
    BY <1>4, DescendQueues
  <1>5. CASE CountAtLeaf
    BY <1>5, CountAtLeafQueues
  <1>6. CASE EndOfInput
    BY <1>6, EndOfInputQueues
  <1>7. CASE TakeNothing
    BY <1>7, TakeNothingQueues
  <1>8. CASE TakeFromLeaf
    BY <1>8, TakeFromLeafQueues
  <1>9. CASE LeafDone
    BY <1>9, LeafDoneQueues
  <1>10. CASE TakeFromSubtree
    BY <1>10, TakeFromSubtreeQueues
  <1>11. CASE LeaveNode
    BY <1>11, LeaveNodeQueues
  <1>12. CASE WriteTaken
    BY <1>12, WriteTakenQueues
  <1>13. CASE ReleaseNothing \/ ReleaseSubtree \/ ReleaseNode
    <2>1. UNCHANGED <<node, limit, buffer, written>> /\ pc' = "release" /\ pc = "release"
      BY <1>13 DEF ReleaseNothing, ReleaseSubtree, ReleaseNode, releaseUnchanged
    <2> QED BY <2>1, OtherQueues
  <1>14. CASE Terminate
    <2>1. UNCHANGED <<node, limit, buffer, written>> /\ pc' = "end" /\ pc = "release"
      BY <1>14 DEF Terminate
    <2> QED BY <2>1, OtherQueues
  <1>15. CASE UNCHANGED vars
    <2>1. UNCHANGED <<heapVars, node, tree>> /\ UNCHANGED <<pc, stack, limit, buffer, written>>
      BY <1>15 DEF vars, treeVars
    <2>2. /\ Busy => Gathered' /\ Distinct' /\ \A p \in (DOMAIN node \ LiveNodes)' : NoNumber(p)'
          /\ IsFiniteSet(DOMAIN node)' /\ LiveNodes' = LiveNodes
          /\ (\A f : Deref(f)' = Deref(f)) /\ \A n : Held(n)' = Held(n)
      BY <2>1, QueueStays
    <2>3. ASSUME pc = "take", Room', NEW q \in LiveNodes', Past(q)' PROVE NoNumber(q)'
      <3>1. Room /\ q \in LiveNodes /\ Past(q)
        <4>1. Room /\ q \in LiveNodes
          BY <2>1, <2>2, <2>3 DEF Room
        <4>2. CASE stack = << >>
          BY <4>1, <4>2 DEF Past
        <4>3. CASE stack # << >>
          <5>1. UNCHANGED <<node, tree>> /\ stack' = stack /\ stack' # << >>
            BY <2>1, <4>3
          <5>2. \E i \in DOMAIN stack' : Left(q, i, Deref(stack'[i].place), stack'[i].at)
            BY <2>3, <5>1, PastKept
          <5> QED BY <4>1, <5>1, <5>2 DEF Past
        <4> QED BY <4>2, <4>3
      <3>2. NoNumber(q)
        BY <2>3, <3>1 DEF QueueInv, Exhausted
      <3> QED BY <2>1, <3>2 DEF NoNumber
    <2>4. QueueInv'
      BY <2>1, <2>2, <2>3 DEF QueueInv, Exhausted, Busy
    <2>5. bagStays /\ limit' - Len(buffer') = limit - Len(buffer) /\ written' \o buffer' = written \o buffer
      BY <2>1, <2>2 DEF bagStays
    <2> QED BY <2>4, <2>5, Stutters
  <1> QED BY <1>1, <1>2, <1>3, <1>4, <1>5, <1>6, <1>7, <1>8, <1>9, <1>10, <1>11, <1>12, <1>13, <1>14, <1>15 DEF Next

\* The program implements the priority queue, for every input file and every
\* size of the buffer: each number that it takes out of the tree is the lowest
\* of all that were added and not yet taken, each is taken as often as it was
\* added, and a take stops early only when the tree is empty (A6/opgave.md:13-27,
\* radix.c:46-72, 91-139, 163-185).
THEOREM TreeImplementsQueue == Spec => ImplementsQueue
  <1>1. Init => RadixInv /\ QueueInv /\ Queue!Init
    BY RadixStarts, QueueStarts
  <1>2. RadixInv /\ QueueInv /\ [Next]_vars => RadixInv' /\ QueueInv' /\ [Queue!Next]_Queue!pqVars
    BY RadixKeeps, QueueKeeps
  <1> QED BY <1>1, <1>2, PTL DEF Spec, ImplementsQueue, Queue!Spec
=============================================================================
