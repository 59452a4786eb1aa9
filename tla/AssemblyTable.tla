--------------------------- MODULE AssemblyTable ----------------------------
(***************************************************************************)
(* The hash table of A5/src/assembly.c from addresses to the text of their *)
(* instructions: a lookup makes at most Probes probes, and the table grows *)
(* until every entry has found a place within as many.  A table is a       *)
(* function from its indices to entries; its size is that of its domain.   *)
(***************************************************************************)
EXTENDS Integers, FiniteSets

CONSTANTS
  InitialSize,  \* 4
  Probes        \* 4

ASSUME TableAssumption == InitialSize \in Nat \ {0} /\ Probes \in Nat \ {0}

NoEntry   == [valid |-> FALSE]
Entry(addr, text) == [valid |-> TRUE, addr |-> addr, text |-> text]
NOT_FOUND == -1

Size(table) == Cardinality(DOMAIN table)

Empty(size) == [i \in 0..(size - 1) |-> NoEntry]

\* The places that are looked at for addr (addr % table_size is negative in C
\* for a negative addr: the listings of programs have none).
Probe(table, addr, offset) == (addr + offset) % Size(table)

\* The first probe that comes to a place of `wanted`.
First(table, addr, wanted) ==
  LET hits == {k \in 0..(Probes - 1) : Probe(table, addr, k) \in wanted}
  IN  IF hits = {}
      THEN NOT_FOUND
      ELSE Probe(table, addr, CHOOSE k \in hits : \A h \in hits : k <= h)

assembly_find_entry(table, addr) ==
  First(table, addr, {i \in DOMAIN table : table[i].valid /\ table[i].addr = addr})

assembly_find_empty(table, addr) == First(table, addr, {i \in DOMAIN table : ~table[i].valid})

\* No table: allocated and freed again, because an entry found no place in it.
NoTable == << >>

\* mutant: an entry that finds no place in the new table is forgotten
Moved_OrDropped(table, entry) ==
  LET idx == assembly_find_empty(table, entry.addr)
  IN  IF idx = NOT_FOUND THEN table ELSE [table EXCEPT ![idx] = entry]

\* The new table with an entry of the old one in its place.
Moved(table, entry) ==
  LET idx == assembly_find_empty(table, entry.addr)
  IN  IF idx = NOT_FOUND THEN NoTable ELSE [table EXCEPT ![idx] = entry]

\* The entries of old in a table of that size, or NoTable.
RehashAtSize(old, size) ==
  LET new[i \in 0..Size(old)] ==
        IF i = 0 THEN Empty(size)
        ELSE LET table == new[i - 1]
             IN  IF table = NoTable \/ ~old[i - 1].valid THEN table ELSE Moved(table, old[i - 1])
  IN  new[Size(old)]

\* The table is made twice as large until all entries fit.
assembly_grow_and_rehash(old) ==
  LET atSize[size \in Nat] ==
        LET table == RehashAtSize(old, size)
        IN  IF table = NoTable THEN atSize[1 + 2 * size] ELSE table
  IN  atSize[1 + 2 * Size(old)]

Put(table, idx, addr, text) == [table EXCEPT ![idx] = Entry(addr, text)]

\* A new entry: the table grows until there is a place for it.
Insert(table, addr, text) ==
  LET grown[k \in Nat] == IF k = 0 THEN table ELSE assembly_grow_and_rehash(grown[k - 1])
      from[k \in Nat] ==
        LET idx == assembly_find_empty(grown[k], addr)
        IN  IF idx = NOT_FOUND THEN from[k + 1] ELSE Put(grown[k], idx, addr, text)
  IN  from[0]

assembly_set(table, addr, text) ==
  LET idx == assembly_find_entry(table, addr)
  IN  IF idx = NOT_FOUND THEN Insert(table, addr, text) ELSE Put(table, idx, addr, text)

assembly_get(table, addr) ==
  LET idx == assembly_find_entry(table, addr)
  IN  IF idx = NOT_FOUND THEN "" ELSE table[idx].text

assembly_create == Empty(InitialSize)
=============================================================================
