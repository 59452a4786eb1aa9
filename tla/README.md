# CompSys: models, checks and proofs

TLA+ models of the programs in this repository (the assignments A0 to A6 of a
course on computer systems), the TLC configurations that check them on small
instances, and proofs that hold for instances of every size. `PROJECT.json`
lists, for every definition that models code, the lines it stands for; this
file says what the system is, what is modelled, what is shown and under which
assumptions.

Contents: 1 the system, 2 the hard parts and what makes each component correct,
3 modules and the code they model, 4 runs, 5 fairness, 6 proofs, 7 where the
code does not do what it says, 8 what is not modelled, 9 plan.

## 1. The system

The assignments are separate programs.

**A1, looking places up.** `record.c` reads a file of tab-separated records.
`id_query_*.c` answer queries by id (linear over the records, linear over an
index, binary search in a sorted index), `coord_query_*.c` queries by
coordinates (linear, k-d tree). `random_ids.c` prints ids.

**A2, the job queue and its users.** `job_queue.c` is a bounded blocking queue:
a ring buffer, one mutex, three condition variables (`cond_pop`, `cond_push`,
`cond_destroy`) and a flag `destroyed`. `fibs`, `fauxgrep-mt` and
`fhistogram-mt` use it in one way: main starts n workers, pushes every line or
file, calls `job_queue_destroy` and joins the workers; a worker pops until the
pop fails. `fhistogram-mt` has shared state of its own: a global histogram that
every worker merges its local one into, and the screen on which it is drawn.

**A3, the file service.** `server.py` is a threading TCP server with one
dictionary of users in memory. A request either registers a user with a
signature (the hash of password and salt) or asks for a file. The answer is cut
into blocks, which are sent in random order, and then the connection is closed.
`networking.c` is the C client: it keeps the salts of its users in `salts.csv`,
registers a user who is not there, and fetches files through a read buffer
(`compsys_helpers.c`) that lives as long as the process.

**A4, the peer-to-peer network.** `peer.py` is client and server in one
process. A client thread registers with a configured peer, merges the list of
peers it is sent, and fetches files from random peers. Handler threads, one per
connection, register newcomers, inform the others of them, drop entries older
than a minute and serve files. They share `network` under `network_mutex`, and
`currently_retreiving` under `retrieving_mutex`. (`second_peer/peer.py` is the
same file.) `peer.c` is a skeleton of the same in C: its `send_message` can
fetch a file, but it keeps no list and serves nothing.

**A5, the RISC-V simulator.** `main.c` puts the arguments of the simulated
program into memory, `read_exec.c` loads a listing, `simulate.c` executes one
instruction at a time on 32 registers; `memory.c` keeps pages that are made
when first touched; `assembly.c` is a hash table from addresses to text.
`tiny_riscv` holds programs for it.

**A6, the radix tree.** `radix.c` keeps numbers with their counts in a
path-compressed binary tree and takes the smallest ones out on demand;
`lib.c` allocates its nodes from free lists, one per size.

**A0** classifies a file by its bytes.

| part | state | operations | talks to |
|---|---|---|---|
| A1 places | records, index, k-d tree | read, build, look up | a file |
| A2 job queue | ring buffer, counters, flag, mutex, sleepers | init, push, pop, destroy | its callers, pthread |
| A2 fhistogram-mt | local and global histogram, `merge_lock`, screen | count a byte, merge, draw | job queue |
| A2 fibs, fauxgrep-mt | `stdout_mutex` | process a line or file, print | job queue |
| A3 server | `users`, one thread per connection | register, serve, refuse | client, by TCP |
| A3 client | `salts.csv`, read buffer, files | register, fetch, check | server, by TCP |
| A4 peer | `network`, `currently_retreiving`, files | register, inform, merge, refresh, fetch, serve | other peers, by TCP |
| A4 peer in C | its copy of a file | fetch, check | a peer, by TCP |
| A5 simulator | registers, pc | step | loader, memory |
| A5 memory, table | pages; slots | load, store; set, get, grow | loader, simulator |
| A6 radix tree | nodes | add, take, release | allocator |
| A6 allocator | free lists, end of the heap | allocate, release | radix tree |
| A0 file | none between files | scan | a file |

## 2. What is hard, and what correctness is

**Job queue.** Everything about it is an interleaving: `rear` and `top` run
round a ring on which full and empty look alike; a signal may reach a thread
whose condition is false again by the time it has the mutex; `destroyed` is set
under the mutex but its broadcast, and the whole tear-down, come after the
unlock, while workers still come back for more. Correct means: it is a
first-in-first-out queue with atomic operations; it is destroyed only when
every job has been handed out; no wake-up is lost; every thread gets out.

**Its programs.** Two workers merge or print at once; a file ends exactly at a
merge; a file cannot be opened; the walk comes past a directory. Correct means:
every set bit is counted once, and the output is that of the program without
threads, up to the order of files and lines.

**File service.** Blocks in random order, reads of any length through a buffer
that outlives the connection, a server that dies in the middle, a client that
dies between writing its salt and registering. Correct means: an answer is
never taken for another's, a file that was accepted is the server's, and a user
who was told that he is registered is let in.

**Peers.** Two newcomers at once, an INFORM that overtakes the reply that
already lists the same peer, peers that die and come back, a mutex that is held
while connecting to others. Correct means: when all is quiet everybody knows
everybody; a list has every peer once; the inform loop has its list to itself;
a registration ends. For files: whatever the order of the blocks and wherever a
transfer ends, a file is whole once nobody writes it; nobody is served a file
that is only half there.

**Radix tree and allocator.** A number that differs from a whole subtree, takes
that empty subtrees, blocks that are used again for other nodes. Correct means:
a priority queue; a tree of exactly the live blocks; blocks that never overlap.

**Simulator.** Decoding, sign, width and boundary cases of every instruction;
accesses at and across pages; a hash table under any sequence of insertions.
Correct means: the instruction set's specification.

**Places.** Ids that are compared as `int` in one place and `int64_t` in
another, bounds of halves, loops that must end. Correct means: the answer of
the definition.

The hazards are listed one by one, at their lines, in `PROJECT.json`, each with
the properties that would notice it, or with the reason why none does.

## 3. Modules

| module | models | checked by |
|---|---|---|
| `JobQueue` | `job_queue.c` and the threads that call it | `MCJobQueue` |
| `JobFifo` | what `job_queue.h` promises, as atomic operations | refined by `JobQueue`, used by `QueuePrograms` |
| `JobQueueProofs` | theorems about `JobQueue`, and its refinement of `JobFifo` | tlapm |
| `QueuePrograms` | `fhistogram-mt.c`, `fauxgrep-mt.c`, `fibs.c`, on top of `JobFifo` | `MCQueuePrograms` |
| `QueueProgramsProofs` | theorems about `QueuePrograms` | tlapm |
| `PeerNetwork` | `peer.py`: registering, informing, ageing | `MCPeerNetwork` |
| `PeerSections` | the same with kills and restarts, its sections under the mutex taken apart | `MCPeerSections` |
| `PeerRetrieve` | `peer.py`: fetching while serving | `MCPeerRetrieve` |
| `PeerFetch` | `peer.c` fetching a file from the peer of `PeerRetrieve` | `MCPeerFetch` |
| `PeerProofs` | theorems about `PeerNetwork`, `PeerRetrieve` and `PeerFetch` | tlapm |
| `FileService` | `server.py`, `networking.c`, the read buffer | `MCFileService` |
| `FileServiceProofs` | theorems about `FileService` | tlapm |
| `Allocator` | the allocator of A6 `lib.c` | through `RadixTree` |
| `RadixTree` | `radix.c`, on top of `Allocator` | `MCRadixTree` |
| `PriorityQueue` | what `A6/opgave.md` asks of it | refined by `RadixTree` |
| `RadixTreeProofs` | theorems about `Allocator` and `RadixTree` | tlapm |
| `Memory`, `AssemblyTable` | `memory.c`, `assembly.c`, as operators on pages and tables | through `Simulator` |
| `Simulator` | `main.c`, `read_exec.c`, `simulate.c` | `MCSimulator` |
| `RiscV` | RV32IM and the system calls that `A5/opgave.md` asks for | refined by `Simulator` |
| `Bits` | and, or and exclusive or of words | through `Memory` and `RiscV` |
| `SimulatorProofs` | theorems about `Simulator`, and its refinement of `RiscV` | tlapm |
| `Places` | the programs of A1 | `MCPlaces` |
| `PlacesProofs` | theorems about `Places` | tlapm |
| `Sums` | the sum of a function over a finite set | through `QueuePrograms`, `RadixTree` and `Bits` |
| `InductionLemmas` | induction for the loops of the modules above; lemmas on `Sums` | tlapm |

**JobQueue.** The variables `num, top, rear, buffer, destroyed` are the struct.
`owner` is the mutex, `asleep[op]` the threads in `pthread_cond_wait` on
`cond_<op>`, `mutexAlive` and `freed` what the tear-down has done. A thread has
a place (`pc`) and the operation it is in (`call`). One step is what a thread does
between two points where another can interfere: `Enter`/`Acquire` are
`pthread_mutex_lock`, `Sleep` the wait in any of the three loops, `Reacquire`
its return, `Store` the rest of push, `Take` and `Refuse` that of pop,
`MarkDestroyed` that of destroy, `Leave` the unlock. The tear-down of
`job_queue_destroy` (lines 38 to 44) is one step per call. The pthread library
is external: the mutex is not fair, waits may return for no reason, and a
destroyed mutex behaves as in glibc (lock and unlock return an error, which the
code ignores; a thread that already queues stays queued). Helpers are pushers
other than main: the programs have none, but the header offers the queue to
any number of threads. What the queue promises about its end it promises if
nobody pushes late (`NoLatePush`: there are no helpers, or main joins them
before it destroys the queue).

**JobFifo** has one action per operation and no mutex. `JobQueue` gives the
mapping: the fifo is the part of the ring that holds jobs, from `top` on, a
worker holds the job in its hand, the workers that are `done` have ended.

**QueuePrograms** instantiates `JobFifo` for its queue, with the entries of a
file tree, or lines typed in, as jobs; `program` says which of the three was
started, `option` with which `-n`. A byte is the set of its 1 bits and a line
of text the set of the strings it contains. Merging a bin is a load and a store
in two steps, so that a merge without the lock would lose counts. A file may be
unreadable (`Open`). Fibonacci numbers are not cut to an `int`, which holds
them up to the 46th; every larger argument overflows in the code.

**PeerNetwork.** `network[p]` is the list, an entry with the minute of its
timestamp. A connection is a record in a slot with the place of its handler
thread. A section under `network_mutex` in which nothing blocks is one step;
the inform loop connects to others while it holds the mutex and is one step per
entry (`InformNext`, `InformFails`), during which `mutex[p]` names the holder.
`Minute` is the clock; `Start` and `Serve` are the process: the client thread
runs before the server has bound its port (`starting`), as in `__main__`.
`Refreshed` is what lines 120 to 142 do, which is less than they say
(section 7). Nobody is killed here, so a client is there until it has its reply,
and the mutex is only released by the thread that holds it.

**PeerSections** extends it by `Stop`, after which a peer may start again. A
refusal to a client that was killed raises, and line 232 then releases a mutex
that another thread may hold (`lost` records it). From there on two threads can
be in sections at once, so these are taken apart: a thread acquires
(`EnterRefresh`, `EnterRegister`, `EnterAdd`, `EnterMerge`, `EnterLook`,
`EnterChoose`), reads the list (`Scan`, `Test`, `AllTested`, `Choose`), removes
or appends one entry (`Remove`, `AppendTested`) and releases (`Leave`); a loop
that reads while another thread removes may pass entries over (`Sights`). Releasing
a mutex that is free raises (`LeaveRaises`, `LoopRaises`), and the except branch
releases once more (`LeaveAgain`). `SectionsAreOneStep` maps this to
`PeerNetwork`, showing the list as it was when the section was entered: until
line 232 has taken a mutex from its holder, every step is a step of
`PeerNetwork`, a stutter or a kill. This is what allows `PeerNetwork` its short
sections, and what ends with the second release: then the same address can be
appended twice, and nothing is claimed of the lists.

**PeerRetrieve.** One peer's file system, as sequences of blocks with their
version and number. `Mark` to `WriteBlock` are `to_server` (`ToServer`) and,
between them, `SendRequest`, `ReceiveBlock` and `ReceiveFails` the loop of
`send_to_server` that puts the blocks of an answer in their places;
`CheckExists` to `Reply`, `RefuseFile` and `ApologiseForError` are
`_handle_request` and its caller (`HandleRequest`). Several names may be one path.
The module names its parts so that it can stand beside `PeerNetwork` in one
module of proofs (`FilesInit`, `FilesNext`, `FilesSpec`).

**PeerFetch** adds the peer in C as the requester of one of those handlers: it
writes every block into the copy it has, in place, with holes where blocks are
still to come, and compares the hash of the file when all have come. The copy
may be left from an earlier time. As handed out, `client_thread` does not get
as far as this call, because the part that fills the list of peers is left to
the reader and `get_random_peer` then computes `rand() % 0`; the call itself is
complete, and is modelled from where it starts.

**FileService.** A block is two units on the wire, header and payload; a read
takes any part of what has arrived (`Take`), `EndOfFile` is a read after the
server has closed. `CheckName` and `InsertUser` are the two steps of a
registration. `Restart` is the server's, and may cut a block off after its
header; `Kill` is a client's, and may leave a file half written. Uninitialised
memory (a header that never came) is a choice between the outcomes: go on with
a meaningless message, or crash. Two simplifications: a request arrives whole,
because a client writes it with one call of less than 200 bytes; and equal
hashes mean equal data.

**Allocator, RadixTree, PriorityQueue.** A block is an address; its first word
is its size while it is live and the next free block of its class while it is
not, as in the code, so that the free lists are threaded through the blocks.
Nodes are records behind that word, and keep their contents after a release
until the block is used again. Every iteration of `add_number`, every call and
return of `take_numbers_2` and `release_tree` is a step; `stack` has their
frames. The bag of the abstract queue is read off the leaves.

**Simulator** and its parts. Registers and memory words have `Width` bits, of
which a byte is a quarter; instructions keep their 32 bits and are decoded as
the code decodes them, so that the words of the instruction lines are kept
beside the memory (`code`) and a program neither reads nor writes them. A line
is what the `sscanf` patterns make of it. `RiscV` executes instruction records
over an array of bytes, encodes them by the tables of the specification, and
shares nothing with the simulator but `Bits`: what the C operators `&`, `|` and `^`
and the instructions of these names mean is the same thing. `Bits` defines them
over the set of the bits that are 1, with `Sums`, and the assumption
`SameBits` of `MCSimulator` compares them with the community module's. Where the
code is known to depart from the instruction set, the operator `Departs` of
`Simulator` says so and `RiscV` accepts any result (section 7); words that are
none of its instructions may trap or pass by.

**Places.** One step per round of a loop or call of a recursion; the pending
calls of `rec` are `work`. `Garbage` are the records that memory from `malloc`
may look like: the slot after the last record, fields that a line has no tab
for. `qsort` is any order that the comparison allows. Distances are left
squared, coordinates are whole numbers.

Definitions called `X_Something` next to a definition `X` are plausible wrong
versions of `X`. For every property there is one of them that breaks it, which
shows that the run would have noticed.

## 4. Runs

| run | instance | shows |
|---|---|---|
| `job_queue` | 2 workers, main and 1 helper that main joins, capacity 2, 4 jobs, 1 spurious wake-up | the type invariant; the ring holds exactly the backlog, in order; destroyed means drained; no lost wake-up; the freed buffer is left alone; `JobFifo` is implemented; `job_queue_destroy` returns; the program ends unless two threads are queued for the mutex when it is destroyed |
| `job_queue_hang` | 2 workers, capacity 1, 1 job | refuted: the program ends |
| `queue_programs` | 2 workers, capacity 2, an empty file, one of 2 and one of 3 bytes (chunk 2), a directory, 3 lines, `-n` absent, 0 or 2 | no bit is lost or counted twice, the output is the sequential program's, the counts on the screen never fall, every job is finished |
| `peer_joining` | 3 peers, one contact, 4 connections, 1 minute, 1 fetch | lists stay sets, everybody knows everybody once all is quiet, the inform loop has its list to itself, only old entries go |
| `peer_sections` | 3 peers, 4 connections, up to 3 kills and restarts of a peer, 1 minute, 1 fetch, from four states on the way | a section under the mutex has the effect of one step until the mutex is taken from its holder; a registration ends |
| `peer_heard` | 3 peers, 1 minute, 1 fetch | refuted: a peer that was just heard is kept |
| `peer_files_safety` | 1 fetch, 2 requests, one of the peer in C, a path with 2 names, 2 blocks, an old copy of 0 or 2 blocks | a file is broken only while it is written, a transfer to the peer in C goes wrong only over a longer copy, every request is answered |
| `peer_files_incomplete` | 1 fetch, 2 requests, 2 paths of which one has 2 names | refuted: only complete files are served |
| `file_service` | 3 client processes (2 in one directory), 1 name, an empty file and one of 2 blocks, 2 fetches, 1 crash | answers belong to their requests, accepted files are the server's, requests end |
| `radix_tree` | files of up to 5 commands over 5 numbers of 3 bits and takes of 1 and 3, a buffer of 2, chunks of 2 or 3 blocks | the live blocks are the tree; the heap is sound and all of it is given back; `PriorityQueue` is implemented; the program ends |
| `riscv` | words of 8 bits, pages of 16 bytes; every instruction on boundary values, system calls, reserved words, arguments, instruction lines in 120 orders | `RiscV` is implemented but for `Departs`; the table has the texts of the listing; arguments are passed |
| `places` | files of up to 4 records of 4 kinds and one of 6, lines cut short, wrong and missing files; ints of 4 bits | the ids found are right; the k-d tree holds every record and orders them; every query ends |

Why these bounds. *Job queue*: two workers are needed for a signal to reach the
wrong one and for one to overtake the other, two pushers to compete for the
last slot; with capacity 2 and 4 jobs the ring wraps twice and is full and
empty in both rotations. Each sleeper that wakes for no reason goes through the
same loop test, so one such wake-up is as good as many. *Queue programs*: the
interesting files are those that end at, before and after a merge, and two
workers are the smallest number that interferes. *Peers*: two newcomers and one
contact make every pair of roles; a fourth peer would only repeat them; one
minute separates old from new. `peer_joining` starts with nobody running, or with a
peer that is listed since it ran before (`CameBack`) and will be refused. With every section taken apart and kills allowed,
three peers have too many ways to join; so `peer_sections` starts in four states
that can be reached from `SectionsInit` with two to five kills and starts
(`OnTheWay`): the third peer has joined and the second comes, while the first or
the second is killed and comes back; while a minute passes, so that the entry of
the third one goes; while the third one fetches a file; and, the third one having
died twice, while the refusal to it that cannot be sent is about to release the
mutex, which the second one's handlers hold or wait for. In the last one the
mutex is lost, sections overlap and an address is appended twice. *Files*: two blocks are the least that can be
half written or swapped, two requests the least that can surround a fetch; an
old copy of two blocks is longer than the partial answers and as long as a
whole one. *File service*: a first process registers and a second one of the
same directory logs in, in either order, while a third one elsewhere competes
for the name; two blocks can be swapped, and one lost. *Radix tree*: with three
bits a path can be split at the top, in the middle and not at all, five
commands make room for a split above a tree from which a take has removed a
side; takes of 3 need a second round of the buffer. *Simulator*: 8 bits have
all the sign and overflow cases that 32 have, and each instruction is one step
whose operands are set up by loads; five addresses fill the table of 5 and
collide in the next size. *Places*: four records make trees of three levels,
six of four; 9 does not fit an int of 4 bits.

The runs of `riscv` and `places` are mostly breadth: many short behaviours, one
for each listing or file. Deadlock is not checked (`CHECK_DEADLOCK FALSE`)
because all these programs come to an end: main has joined, the users ask for no
more. That nobody waits for ever is what the liveness properties say instead.

History variables (`pushed`, `popped`, `heard`, `aborted`, `unreadable`, `acked`,
`cut`, `live`, `request` in a unit, `lost`, `before` and `since` in a section) record what a property is about; no guard
of the program's own steps reads them.

## 5. Fairness

*JobQueue*: weak fairness of each thread's steps. The operating system lets
every thread run; nothing is assumed about the order in which a mutex is handed
out. Main reaches the end of its input. Helpers need not push, but end.
*QueuePrograms*: the same; its pops and pushes are steps of `JobFifo`, and that
those return is what `job_queue` shows of the code, with the exception in
section 7. *PeerSections*: as long as a thread of any peer can take a step, one is
taken, whichever; no process has to start or stop, and no user to ask for a file.
That is less than what an operating system gives, and enough because the threads
have a bounded number of steps to take. *PeerRetrieve*, *PeerFetch*: threads run; nobody
has to ask for a file. *FileService*: the server's threads and
the client run; the user need not type anything. *RadixTree*, *Places*: the one
thread runs; nobody has to type a query.

## 6. Proofs

| theorem | states, for all constants |
|---|---|
| `JobQueueProofs!TypeCorrect` | `Spec => []TypeOK` |
| `JobQueueProofs!CriticalSectionsExclude` | until the queue is destroyed, critical sections exclude each other |
| `JobQueueProofs!RingIsCorrect` | until it is destroyed, the ring holds exactly the jobs pushed and not popped, in order |
| `JobQueueProofs!DestroyDrains` | if nobody pushes late, a destroyed queue has handed out every job |
| `JobQueueProofs!WakeupsAreNotLost` | if everybody sleeps on a condition, it is really false |
| `JobQueueProofs!FreedBufferIsLeftAlone` | if nobody pushes late, the freed buffer is neither read nor written |
| `JobQueueProofs!QueueImplementsFifo` | if nobody pushes late, `JobQueue` implements `JobFifo` |
| `QueueProgramsProofs!TypeCorrectness` | `Spec => []TypeOK` |
| `QueueProgramsProofs!MutualExclusion` | one worker at a time is between the lock and the unlock of `merge_lock` or `stdout_mutex` |
| `QueueProgramsProofs!BitsStay` | every bit read is counted once, in the global histogram or in its reader's |
| `QueueProgramsProofs!SameAsSequential` | when main returns, screen and output are the sequential program's |
| `QueueProgramsProofs!CountsOnlyGrow` | no drawing takes a count back |
| `PeerProofs!TypeCorrectness` | `Spec => []TypeOK` |
| `PeerProofs!ListsAreSets` | while nobody is killed, a peer lists itself first and nobody twice |
| `PeerProofs!OnlyOldEntriesLeave` | while nobody is killed, a peer loses entries of more than a minute only |
| `PeerProofs!LoopsSeeOneList` | while nobody is killed, the list stays as it is while an inform loop goes through it |
| `PeerProofs!NobodyIsMissed` | while nobody is killed, around one first peer, all that run know each other once all is quiet |
| `PeerProofs!FilesAreWholeOfPeers` | a file is broken only while the client writes it |
| `PeerProofs!RepliesNeverGoBackOfPeers` | a reply has the blocks in their places and no older one after a newer one |
| `PeerProofs!OnlyLongerCopiesMismatchOfPeers` | the peer in C fails on a complete answer only over a longer copy |
| `FileServiceProofs!TypeCorrectness` | `Spec => []TypeOK` |
| `FileServiceProofs!AnswersBelong` | the header a client acts on is the answer to its last request |
| `FileServiceProofs!FilesAreRight` | a file that was accepted is the server's |
| `FileServiceProofs!UsersAreServed` | with one client at a time in a directory, a registered user is not denied |
| `RadixTreeProofs!HeapStaysSound` | whatever is allocated and released, blocks never overlap, and the free lists hold every free block once, at its size |
| `RadixTreeProofs!TypeCorrectness` | `Spec => []TypeOK` |
| `RadixTreeProofs!TreeIsSound` | the live blocks are the nodes of the tree, each in one place, in the order of their bits |
| `RadixTreeProofs!HeapIsReturned` | no node is released twice or while it is in the tree, and all are when the program ends |
| `RadixTreeProofs!TreeImplementsQueue` | `RadixTree` implements `PriorityQueue` |
| `PlacesProofs!LookupsAreRight` | the three programs that look an id up answer rightly |
| `PlacesProofs!RoomForOneMore` | the array has room for the slot after the last record |
| `PlacesProofs!EveryRecordIsInTheTree` | every slot is in one node of the k-d tree, with its record's coordinates |
| `PlacesProofs!TreeKeepsOrder` | the k-d tree orders its records, but for the last of a right part |
| `SimulatorProofs!LatestTexts` | however the table has grown, an address is found with the latest text of the listing, and no other address is |
| `SimulatorProofs!ArgumentsFound` | when the program starts, it finds its arguments where its start-up code looks for them |
| `SimulatorProofs!SimulatorImplementsISA` | `Simulator` implements `RiscV`, but for `Departs` |

*Assumptions*: the named `ASSUME`s of the modules, which say that the constants
have the shapes the code gives them (workers are a finite set, the kinds of
threads are disjoint, the capacity is positive; files are sequences of lines;
nobody is his own contact; `None`, `NoConn` and the like are none of the values
they stand next to; `NodeSize` is one of the sizes the allocator is asked for, and
`allocate` does not refuse it; words have 8, 16 or 32 bits, and pages are a part of
the memory; the listing is one that the assembler can make (`IsLine`): its
addresses are not negative, its instructions aligned and the encodings of instructions
or of words that are none, its bytes those that are counted in the line; there is
room for the arguments, and the listing puts no data there). One theorem about the peers and one about the file
service have a hypothesis on the constants besides:

- `NobodyIsMissed` has `OneFirst`: one peer has no contact and is everyone's.
  The code lets contacts form a chain, and there the property is false: an
  INFORM is not passed on, so a peer hears only of those that register with its
  own contact. The run `peer_joining` satisfies the hypothesis.
- `UsersAreServed` has `OneAtATime`, as the run does: of two processes that start
  in one directory at the same time each may append a salt, and the user who is
  registered with the second line logs in with the first from then on.

The theorems about the lists are theorems of `PeerNetwork`, where nobody is killed:
after a kill the second release in line 232 (section 7) can put two threads into
sections that exclude each other, and the statements are false. That a section is
one step until then is checked, not proved (`SectionsAreOneStep`).

*The argument for the queue.* None of the properties is inductive by itself. The
invariant `IInv` is the conjunction of the type invariant and

- `LockInv`: until the queue is destroyed the mutex works and whoever is in a
  critical section owns it; only a destroyed queue is torn down. Without it
  two threads could be about to store in the same slot.
- `CallInv`, `JoinInv`: who calls what; once destroyed, main pushes no more, and
  the helpers it has joined have ended.
- `SleepInv`: a sleeper is in the wait of its own operation, so that waking it
  cannot put it anywhere else.
- `HandInv`: a pusher in push has a job, a worker has one exactly between its
  take and its next pop. It is needed for the types of the buffer and for the
  refinement (a worker takes with empty hands).
- `RingHoldsTheBacklog`, `DestroyedMeansDrained`, `NoLostWakeup`, which are
  properties and part of the induction.

Every step lemma (`TypeStep`, `LockStep`, ...) has one case per action.
`NoLostWakeup` rests on the critical sections: a thread goes to sleep in the
step in which it finds the condition true, and each step that makes it false
wakes one. The ring rests on three lemmas about counting round it
(`NextSlotLemma`, `RingPlaces`, `RingMoves`), which replace the remainder by a
subtraction that the solver can handle. The refinement maps `Store` to `Put`,
`Take` to `Get`, `FinishJob` to `Finish`, `MarkDestroyed` to `Close`, the
leaving of a refused worker to `End`, and every other step to a stutter.

*The argument for its programs.* A bit is conserved because it moves between two
terms of a sum, and the sum is over the workers, whose number is not fixed. So
`InductionLemmas` proves first what `SumOver` does (it equals a recursion along the
elements of a finite set, in whatever order; one term that changes changes the
sum by as much) and the module, with it, what `Count`, `Matching` and `LinesOf`
return. `IInv` then says of each worker where it is and which job it holds (`WorkerOK`: it
owns the lock exactly inside its critical section), how far it has read
(`ReadOK`), that a merge empties the local histogram from below and that the
count it has loaded is still the global one when it stores (`MergeOK`, the
step where a missing lock would show); of the jobs, that each is in one place
(`JobsOK`); of main, that it closes after its last push and returns after its
last join (`MainOK`, the part that `JobFifo` contributes); that the screen is
the global histogram unless a merge is under way (`ScreenOK`); and what has been
printed for every job, finished, held or waiting (`PrintOK`). When main is done
the local histograms are empty and every job is finished, and conservation
becomes equality with the sequential program.

*The argument for the peers.* The lists are sets (`PeerOK`) because adding looks
for the address under the mutex, merging does the same for each entry of the
answer, and refreshing keeps an order-preserving part; the two loops are
described by `AppendIfNewKeeps`, `MergedIs` and `RefreshedIs`, each proved by
induction over the turns of the loop. `OnlyOldEntriesLeave` follows from the
same three lemmas, applied to the only steps that change a list (`ListSteps`).
`LoopInv` ties a handler in its inform loop to the mutex. `QuietInv` says why
nobody is missed: for any two peers on the first peer's list, one *learns* of
the other: it knows it, or merges an answer that has it, or the answer is on
its way, or an inform loop has not come to it yet, or the INFORM is under way. Each
step of the protocol passes this on to the next form; a loop that is entered
with the longer list meets the newcomer that was added in between, which is
where the mutex is needed. When all is quiet only "knows it" is left. The
invariant also has that a client awaits one answer at a time (`OneEach`), since
otherwise an answer could be read by the wrong registration.

*The argument for the files of the peers.* The file at a path is the first k
blocks of one version, and the whole of it unless the client is writing it
(`FilesOK`); a handler that reads has no block newer than that version
(`ReadsOK`), and the versions only grow, so what it reads next is not older
than what it has. For the peer in C, `Received` says that every block that has
come is in its place and that the copy is no longer than it was or than the
answer; if all have come, a copy that differs from the answer can only be longer.

*The argument for the file service.* `IInv` relates, for each client, its
place, what is in its read buffer, what is on the wire and what its server
thread has still to send. The read buffer outlives the connection, so that
everything rests on its being empty when the next request goes out: the units
outstanding and the units read add up to at most two per block (`Answered`), and
the client reads on until it has them all or gives up for good. `UsersInv`
ties the acknowledged registrations to the first line with the user's name in
the `salts.csv` of the directory; this is what the client logs in with.

*The argument for the heap.* `HeapInv` is the three properties together with the
types and the shape of a block (`BlocksOK`): a block starts behind the start of
the heap and has the size of a class. A step of
the allocator is one of three moves, which are proved one by one:
a free block leaves the front of its list (`UnlinkedKeeps`), a chunk is carved
into blocks of one size that are linked one to the next (`CarvedKeeps`, with
`ChunkIs` for the arithmetic: the blocks of a chunk lie one behind the other up
to its end), and a block goes to the front of its list (`ReleasedKeeps`), which is
the list of its size because the word of a live block still says it.

*The argument for the radix tree.* `RadixInv` is `HeapInv` with

- `Joined`: the places that lead to nodes (the root and the two sides of each
  interior node) and the live blocks correspond one to one;
- `Ordered`: a node below another branches at a lower bit and is in range of it;
- `AddOK`: wherever `add_number` has come to, its number belongs there, that is,
  it agrees with the parent above the bit and goes to that side;
- `StackOK`: the frames of `take_numbers_2` and `release_tree` lead down from the
  root, through nodes of lower and lower bits, to the innermost call. Without it a
  node that is unlinked could still be the caller's.

A split puts a node between a place and what was there: its bit is the highest
in which the two numbers differ (`HighestIs`), so that they agree above it
(`AgreeBelow`) and go to different sides. `Inserted` and `Removed` say of an
arbitrary tree what happens to `Joined` and `Ordered` when a node comes in or goes
out, `ShapeStays` that nothing happens when only counts change. `release_tree`
gives nodes back to the heap while places of nodes that are not yet released still
lead to them; `Done` are those places, computed from the frames, and `Joined`
speaks of the other ones only (`Active`). When the last frame has returned the
root is done as well, and no node is left (`NothingIsLeft`). The bits are values of a
recursive function (`OneHot`), by which they are positive and each divides the
next; the prover knows nothing of `2^k`.

*The argument for the priority queue.* What the queue holds of a number is a sum over the
leaves (`Held`), by the same lemmas as the histogram's. That a step adds or takes
one is a change of one term; what is hard is that no other leaf is concerned, and
that a take is of the lowest number. `QueueInv` adds to `RadixInv`

- `Gathered`: a node that belongs below a place is in the subtree that the place
  leads to, so that a number is in one leaf, the one `add_number` comes to, or in
  none (`Distinct`);
- `Exhausted`: a leaf that was given back is empty, and so are, as long as the
  buffer has room, the leaves that the take has left behind (`Past`: those on a
  side of some frame's node that the frame is done with).

The innermost frame of a take is at the place where the lowest number can be
(`TopReaches`), and a leaf of lower numbers is one that it has left behind
(`LowerIsPast`), hence empty: what it takes is the lowest. When the take ends
early all leaves are behind it, and the queue is empty. `ReadNumber` maps to
`Request` for a take, `NewLeaf` and `CountAtLeaf` to `Add`, `TakeFromLeaf`
to `Take` (a number counts as written once it is in the buffer), the last
`WriteTaken` of a take that falls short to `Forget`, every other step to a stutter.

*The argument for the lookups.* `IInv` adds to the property that the counters
are in range (`CountsOK`), that every record read has an integer id whatever
its line looked like (`RecordsOK`), that the index names every record with its
id, and, once sorted, is ordered by the ids as ints (`IndexOK`), and what a
search has excluded so far (`SearchOK`): what a scan has passed is not the query;
what the binary search has cut off on the left is below the query and on the
right above it, provided that all ids fit an int (`IntsStay`: then the sorting
compares what the search compares).

*The argument for the k-d tree.* rec goes from call to call, so that the tree
under construction is to be described together with the calls that are still on
the stack; `KdInv` takes them as a set (`Pending`). Every slot is in exactly one
node or one pending call's part (`NodesOK`, `CallsOK`, `CoversOK`), and no node or
other call is below a pending call's path. What is `Under` a node on a side, in
nodes or in pending calls, obeys the order there (`OrderOK`): this is inductive
where the property by itself is not, because rec sorts again the part of a call
whose bounds its ancestors have already been promised. Sorting exchanges records
inside the part of the call only (`Sorts`), so that all of them keep what they had
on both sides of every node above. The right part has an exception in
the property as in the code: `sort_rec` is given one record too few, the last one
stays where it was, and is the last on the right of every node whose part ends
there. The lemmas with names in `Split` prove this for one call on arbitrary trees
and arrays; `RootGrows` and `RecGrows` say that the program's steps are such calls.

*The argument for the table.* A table is good if its slots are as many as its size
says, and every entry is where a search for its address comes to (`GoodTable`).
Searching and inserting go round the table until they meet the address or a free
slot; `IsSearch` says what such a loop has seen so far, and `SearchEnds` that it
ends. What the table holds is a set of entries (`Held`), and this is what an
insertion changes, whether it finds its address, takes a free slot or has the
table grow: the new table is filled slot by slot from the old one and holds the same
entries. With it, `Held(table) = TextEntries(lineNo)` is an invariant of the loader.

*The argument for the memory and the arguments.* `memory.c` keeps pages of words, and
takes bytes and halves out of them by remainders and quotients. The lemmas
`ByteWritten`, `HalfWritten` and `WordWritten` say what it comes to: an array of
bytes, of which each store changes those of its address, at every width and page
size, and whether or not the pages were there (`MemoryOK`). `HalfRead` and
`WordRead` are the little-endian order. `LoadInv` then says of the loader which
bytes are those of the arguments (`ArgsThere`), which are the listing's so far
(`DataThere`, the last line that covers an address counts), which words are at which
address (`CodeInv`) and where the start is (`StartInv`). The arguments stay where
they are because no line's bytes are in their extent.

*The argument for the instruction set.* `RiscV` sees the registers with 0 for
register 0 (`X`), the memory byte by byte (`B`) and a status (`Status`), which
are functions of the simulator's state. First the words: an instruction that is encoded
by the specification's tables is decoded by the shifts and masks of `simulate.c`
into the same registers, function and immediate, one lemma for each format
(`OpDecoded`, `OpImmDecoded`, `LoadDecoded`, `StoreDecoded`, `BranchDecoded`,
`JalDecoded`, `JalrDecoded`, `UpperDecoded`); the immediates of branches and jumps
are put together again from their scattered parts, with their sign. Then the
results: `OpResult` and `ImmResult` say for each operation, on words of any of the widths, that it
is the specified one or one of those that depart, and `LoadValue` the same for
loads. Then the steps, one lemma for each format (`OpStep` to `StoreStep`,
`EcallStep`, `ReservedStep`): what the body of the loop does to registers, pc,
memory and output is what `Execute` does, where reading memory may make a page but
changes no byte. `RunInv` is what the steps need and keep: registers are words,
the memory is one. `SimulateStep` joins these with `CodeInv`, by which the word at
pc is the encoding of the instruction that the listing has there. The start is
`Boot` by `DataThere` and `StartInv`, every other step of the loader a stutter, and so is
a system call that does not exist, which the simulator repeats for ever.

*Loops.* The prover cannot instantiate an induction theorem, which takes a
predicate. `InductionLemmas` states induction over the natural numbers for sets
instead (`InductionOnNat`, `InductionUpTo`), and derives it from the
well-foundedness of the strict subsets of a finite set, which the library
proves without a predicate. `LoopExists` says that a loop of n turns has a run,
so that a recursive function in a definition is what its equations say. The
modules proved about write their loops as such functions and have no
`RECURSIVE` operator.

*Only model-checked*: liveness (`DestroyReturns`, `ProgramEndsUnlessTwoQueue`,
`EveryJobIsFinished`, `RegistrationEnds`, `EveryRequestIsAnswered`, `RequestsEnd`,
`ProgramEnds` of the radix tree, `QueriesEnd`: fairness and ENABLED are out of the
prover's reach); and `PeerSections` with its `SectionsTypeOK` and
`SectionsAreOneStep`. Every other invariant, action property and refinement that a
passing run checks has a theorem. *Only proved*: `RepliesNeverGoBackOfPeers` and
`UsersAreServed`.

## 7. Where the code does not do what it says

Three disagreements are runs:

- **The programs may hang at the end** (`job_queue_hang`). `job_queue_destroy`
  invalidates the mutex (line 39) while workers may queue for it. The first of them that
  gets it cannot release it any more, and the second waits for ever; main waits
  for both. `job_queue.h` lines 35 to 38 promise that the pop returns.
- **A peer that was just heard of is dropped** (`peer_heard`). The entries of
  `network` are tuples, so line 131 of `peer.py` raises, and the bare `except` hides it.
- **An incomplete file is served** (`peer_files_incomplete`): the name leaves
  `currently_retreiving` before the file is written.

Others are in the models without a run of their own:

- A2: a push that meets a destroyed queue returns 0, where `job_queue.h` line 29
  promises -1.
- A3: two registrations of one name may both be told OK (`server.py` lines 183
  to 194); `UsersAreServed` leaves out users whose registration was
  replaced that way, and starts anew when the server does. An empty file is answered with nothing (line 241).
- A4: `network_mutex` is released once too often when a refusal cannot be sent
  (line 232); when a client is killed during its registration another thread can
  lose it that way, two threads can then append one address, and the list can
  change under an inform loop (`PeerSections`). The
  retrieving mutex is never released when a refusal cannot be sent (line 351).
  A name stays in `currently_retreiving` when the exchange raises (line 576).
  The hash of a whole file is compared and then ignored (line 544).
- A5, the departures in `Departs`, where `opgave.md` lines 77 and 78 ask for
  RV32IM: SLTU compares as signed (line 261), LB and LH do not extend the sign
  (line 126), MULH, MULHSU and MULHU take the upper half of a 32-bit product
  (line 215), and a division by zero or of the most negative number by -1 ends
  the simulator instead of giving the specified result (line 224). An unknown
  system call is executed again for ever, among them the calls 4 to 6 of A6's
  `lib.c`. A negative address has a negative remainder in the table.
- A1: an id of 2^31 or more is sorted as an `int` and may be missed. The k-d tree
  has a node for the uninitialised slot after the last record; the sorting of
  each part leaves out its last record; and the search looks at one side of
  every node only, so that its answer need not be the nearest.

## 8. What is not modelled

- *A0*: the classification of a file is one scan without state between files.
- *A3*: the Python client, whose reading of blocks is the code that
  `PeerRetrieve` models; a request that arrives in two parts (`server.py` line 77
  answers it twice); a payload with a NUL byte (`networking.c` line 201 cuts
  it there).
- *A4*: the empty handlers of `peer.c`, which have no behaviour; payloads with
  a NUL byte; malformed requests and unknown commands, which change no state.
- *A5*: fetching instructions from memory that the program wrote; reserved words
  that `simulate.c` takes for an instruction (it does not look at all of funct3 and
  funct7; `Unassigned` lists the reserved words that it does tell apart); the text
  patterns of a listing, among them an ASCII column whose first characters are
  hexadecimal digits and are read as bytes: `CountedDigits` counts them as
  `read_exec.c` does (lines 40 to 54), but `IsLine` leaves such lines out; the log
  and the count of instructions, which is always 0; `emil.c` and `backup.c`,
  earlier versions that are not built; `tiny_riscv`, sample programs and an
  earlier allocator whose one different line is the mutant
  `Initialized_TinyRiscv`.
- *A6*: partial writes (`radix.c` line 174 counts them and writes the same
  numbers again) and the take of -2^31 (line 166), whose negation overflows.
- *A1*: the timing, and the fields that are not looked up; `random_ids` of an
  empty file takes a remainder by zero; the model ends in `failed`.
- Everywhere: SHA-256 (third party; equal hashes mean equal data), address
  parsing, socket set-up and configuration files, printing, exhausted memory,
  the 32-bit overflow of the histogram's counters; copies of files that are
  modelled elsewhere; the C# sources under `A2`, test data of another project.

`PROJECT.json` gives the reason for every component.

## 9. Plan

1. `PeerNetwork` with contacts in a chain, for which
   `QuietPeersKnowEachOther` has to be weakened.
2. `FileType` (A0) against the definition of the encodings, over short files.

To check a module: `tlc -config JobQueue.cfg MCJobQueue.tla`; to check the
proofs: `tlapm JobQueueProofs.tla`.
