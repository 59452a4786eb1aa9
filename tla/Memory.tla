------------------------------- MODULE Memory -------------------------------
(***************************************************************************)
(* The simulated memory of A5/src/memory.c: pages of words that are made   *)
(* (of zeros) when they are first used.  A word is Width bits, four bytes; *)
(* in the code Width = 32 and a page has 2^16 bytes.  Addresses and words  *)
(* are C ints: they are signed.                                            *)
(***************************************************************************)
EXTENDS Bits

CONSTANT PageBytes   \* bytes of a page

ByteValues == 2^(Width \div 4)
HalfValues == 2^(Width \div 2)
WordValues == 2^Width

\* Pages consist of words and fill the memory.
ASSUME MemoryAssumption ==
  PageBytes \in Nat \ {0} /\ PageBytes % 4 = 0 /\ WordValues % PageBytes = 0

\* The int with the low Width bits of x, and those bits as an unsigned number.
Signed(x)   == ((x + WordValues \div 2) % WordValues) - WordValues \div 2
Unsigned(x) == x % WordValues

memory_create == [p \in {} |-> 0]

PageOf(addr)  == Unsigned(addr) \div PageBytes
IndexOf(addr) == (Unsigned(addr) % PageBytes) \div 4

\* The pages once that of addr exists.
get_page(mem, addr) ==
  IF PageOf(addr) \in DOMAIN mem
  THEN mem
  ELSE [p \in DOMAIN mem \cup {PageOf(addr)} |->
          IF p = PageOf(addr) THEN [i \in 0..(PageBytes \div 4 - 1) |-> 0] ELSE mem[p]]

Word(mem, addr) == Unsigned(get_page(mem, addr)[PageOf(addr)][IndexOf(addr)])

SetWord(mem, addr, data) ==
  [get_page(mem, addr) EXCEPT ![PageOf(addr)][IndexOf(addr)] = Signed(data)]

\* Accesses that end the program: "Unaligned ...".
UnalignedWord(addr) == addr % 4 # 0
UnalignedHalf(addr) == addr % 2 # 0

memory_wr_w(mem, addr, data) == SetWord(mem, addr, data)

memory_wr_h(mem, addr, data) ==
  LET old == Word(mem, addr)
      low == old % HalfValues
      new == data % HalfValues
  IN  SetWord(mem, addr, IF addr % 4 < 2 THEN (old - low) + new ELSE low + new * HalfValues)

memory_wr_b(mem, addr, data) ==
  LET old    == Word(mem, addr)
      weight == ByteValues^(addr % 4)
      byte   == (old \div weight) % ByteValues
  IN  SetWord(mem, addr, old + ((data % ByteValues) - byte) * weight)

memory_rd_w(mem, addr) == Signed(Word(mem, addr))

memory_rd_h(mem, addr) ==
  IF addr % 4 < 2 THEN Word(mem, addr) % HalfValues ELSE Word(mem, addr) \div HalfValues

memory_rd_b(mem, addr) == (Word(mem, addr) \div ByteValues^(addr % 4)) % ByteValues
=============================================================================
