--------------------------- MODULE QueuePrograms ----------------------------
(***************************************************************************)
(* The programs of A2 that share the job queue (src/A2/src).  Main starts  *)
(* the threads, pushes every file of a tree or every line typed in, and    *)
(* destroys the queue.  The workers of                                     *)
(*   - fhistogram-mt count the set bits of the bytes of their file in a    *)
(*     local histogram and, every Chunk bytes and at the end, merge it     *)
(*     into the global one and redraw the screen, under merge_lock;        *)
(*   - fauxgrep-mt print the lines of their file that contain the needle,  *)
(*     each under stdout_mutex;                                            *)
(*   - fibs print the Fibonacci number of their line under stdout_mutex.   *)
(*                                                                         *)
(* The queue is JobFifo, which JobQueue implements.  Merging one bin is a  *)
(* load and a store of two separate steps, as in the machine code of       *)
(* to[i] += from[i].  A line of text is the set of the strings it contains *)
(* and a byte the set of its 1 bits, so that a file serves both programs.  *)
(***************************************************************************)
EXTENDS Integers, Sequences, FiniteSets, FiniteSetsExt, Functions, Sums

CONSTANTS
  Workers,   \* the threads there can be
  Capacity,  \* capacity of the queue (64 in the code)
  Tree,      \* what fts_read comes past: Tree[i] is the content of a file, or Directory
  Directory, \* anything that is not a regular file
  Typed,     \* the numbers on the lines typed to fibs
  Options,   \* the arguments of -n that may be given, or None
  Needle,    \* the string that fauxgrep looks for
  NBits,     \* bits of a byte (8 in the code)
  Chunk,     \* bytes between two merges (100000 in the code)
  NoJob,     \* a worker without a job
  None       \* nobody owns the lock; no -n

Programs == {"fhistogram", "fauxgrep", "fibs"}
Bits  == 0..(NBits - 1)
Files == {f \in DOMAIN Tree : Tree[f] # Directory}
Bins  == [Bits -> Nat]
Empty == [b \in Bits |-> 0]

ASSUME ProgramsAssumption ==
  /\ IsFiniteSet(Workers)
  /\ Tree \in Seq({Directory} \cup Seq(SUBSET Bits))
  /\ Typed \in Seq(Int) /\ Options \subseteq Int \cup {None} /\ Needle \in Bits
  /\ NBits \in Nat \ {0} /\ Chunk \in Nat \ {0} /\ Capacity \in Nat \ {0}
  /\ NoJob \notin Nat /\ None \notin Workers \cup Int

VARIABLES
  program, option, \* what was started, and the argument of its -n
  fifo, closed, held, ended,  \* the job queue; a job is a number of Tree or of Typed
  threads,       \* the workers that main has created
  next, mainAt,  \* main: the next entry of the walk or line, and how far main is
  at,            \* at[w]: where worker w is
  seen,          \* seen[w]: bytes, or lines, of its file that worker w has read
  eof,           \* eof[w]: worker w has nothing more to read
  local,         \* local[w]: local_histogram of worker w
  bin, register, \* the bin worker w is merging, and the value it loaded or computed
  global,        \* global_histogram
  owner,         \* the owner of merge_lock or stdout_mutex
  screen,        \* the histogram drawn last
  printed,       \* the lines on stdout, each with the job it is printed for
  unreadable     \* history: the files that fopen refused

args       == <<program, option>>
queueVars  == <<fifo, closed, held, ended>>
mainVars   == <<args, threads, next, mainAt>>
workerVars == <<at, seen, eof, local, bin, register>>
sharedVars == <<global, owner, screen, printed, unreadable>>
vars == <<program, option, fifo, closed, held, ended, threads, next, mainAt, at, seen, eof, local,
          bin, register, global, owner, screen, printed, unreadable>>

Input == IF program = "fibs" THEN Typed ELSE Tree
Jobs  == DOMAIN Tree \cup DOMAIN Typed

Queue == INSTANCE JobFifo

Init ==
  /\ program \in Programs /\ option \in Options
  /\ Queue!Init
  /\ threads = {} /\ next = 1 /\ mainAt = "start"
  /\ at = [w \in Workers |-> "pop"]
  /\ seen = [w \in Workers |-> 0]
  /\ eof = [w \in Workers |-> FALSE]
  /\ local = [w \in Workers |-> Empty]
  /\ bin = [w \in Workers |-> 0]
  /\ register = [w \in Workers |-> 0]
  /\ global = Empty
  /\ owner = None
  /\ screen = Empty
  /\ printed = << >>
  /\ unreadable = {}

Goto(w, place) == at' = [at EXCEPT ![w] = place]

-----------------------------------------------------------------------------
(* main *)

\* One thread unless -n asks for more, and none for a number below one.
Create(p, num_threads) ==
  /\ mainAt = "start" /\ program = p
  /\ IF num_threads < 1
     THEN mainAt' = "failed" /\ UNCHANGED threads
     ELSE mainAt' = "walk" /\ threads' \in kSubset(num_threads, Workers)
  /\ UNCHANGED <<args, next, queueVars, workerVars, sharedVars>>

Asked == IF option = None THEN 1 ELSE option

StartFhistogram == Create("fhistogram", Asked)
StartFauxgrep   == Create("fauxgrep", Asked)
StartFibs       == Create("fibs", Asked)

Push ==
  /\ mainAt = "walk" /\ next <= Len(Input)
  /\ Queue!Put(next)
  /\ next' = next + 1
  /\ UNCHANGED <<args, threads, mainAt, workerVars, sharedVars>>

PushFile == program # "fibs" /\ next \in Files /\ Push
PushLine == program = "fibs" /\ Push

PassDirectory ==
  /\ mainAt = "walk" /\ program # "fibs" /\ next \in DOMAIN Tree \ Files
  /\ next' = next + 1
  /\ UNCHANGED <<args, threads, mainAt, queueVars, workerVars, sharedVars>>

DestroyQueue ==
  /\ mainAt = "walk" /\ next > Len(Input)
  /\ Queue!Close
  /\ mainAt' = "join"
  /\ UNCHANGED <<args, threads, next, workerVars, sharedVars>>

JoinWorkers ==
  /\ mainAt = "join" /\ ended = threads
  /\ mainAt' = "done"
  /\ UNCHANGED <<args, threads, next, queueVars, workerVars, sharedVars>>

-----------------------------------------------------------------------------
(* The workers *)

Pop(w) ==
  /\ at[w] = "pop" /\ w \in threads
  /\ Queue!Get(w)
  /\ Goto(w, IF program = "fibs" THEN "compute" ELSE "open")
  /\ UNCHANGED <<mainVars, seen, eof, local, bin, register, sharedVars>>

PopFails(w) ==
  /\ at[w] = "pop" /\ w \in threads
  /\ Queue!End(w)
  /\ UNCHANGED <<mainVars, workerVars, sharedVars>>

Open(w) ==
  /\ at[w] = "open"
  /\ seen' = [seen EXCEPT ![w] = 0]
  /\ eof' = [eof EXCEPT ![w] = FALSE]
  /\ local' = [local EXCEPT ![w] = Empty]
  /\ \/ Goto(w, "read") /\ UNCHANGED unreadable
     \/ Goto(w, "free") /\ unreadable' = unreadable \cup {held[w]}
  /\ UNCHANGED <<queueVars, mainVars, bin, register, global, owner, screen, printed>>

\* update_histogram: one more in the bin of every bit that is set.
Updated(h, byte) == [b \in Bits |-> h[b] + IF b \in byte THEN 1 ELSE 0]

MergeIsDue(i) == i % Chunk = 0

ReadByte(w) ==
  /\ program = "fhistogram"
  /\ at[w] = "read" /\ seen[w] < Len(Tree[held[w]])
  /\ seen' = [seen EXCEPT ![w] = @ + 1]
  /\ local' = [local EXCEPT ![w] = Updated(@, Tree[held[w]][seen[w] + 1])]
  /\ Goto(w, IF MergeIsDue(seen[w] + 1) THEN "lock" ELSE "read")
  /\ UNCHANGED <<queueVars, mainVars, eof, bin, register, sharedVars>>

\* getline, and strstr of the needle.
ReadLine(w) ==
  /\ program = "fauxgrep"
  /\ at[w] = "read" /\ seen[w] < Len(Tree[held[w]])
  /\ seen' = [seen EXCEPT ![w] = @ + 1]
  /\ Goto(w, IF Needle \in Tree[held[w]][seen[w] + 1] THEN "lock" ELSE "read")
  /\ UNCHANGED <<queueVars, mainVars, eof, local, bin, register, sharedVars>>

\* fib, called for every line; an int holds the results up to fib(45).
Fib[k \in Int] == IF k < 2 THEN 1 ELSE Fib[k - 1] + Fib[k - 2]

Compute(w) ==
  /\ at[w] = "compute"
  /\ register' = [register EXCEPT ![w] = Fib[Typed[held[w]]]]
  /\ eof' = [eof EXCEPT ![w] = TRUE]
  /\ Goto(w, "lock")
  /\ UNCHANGED <<queueVars, mainVars, seen, local, bin, sharedVars>>

\* What is left in the local histogram is merged after the last byte.
AtEnd_NoMerge == "free"
AtEnd_Return == "exit"
AtEnd == "lock"

EndOfFile(w) ==
  /\ at[w] = "read" /\ seen[w] = Len(Tree[held[w]])
  /\ eof' = [eof EXCEPT ![w] = TRUE]
  /\ Goto(w, IF program = "fhistogram" THEN AtEnd ELSE "free")
  /\ UNCHANGED <<queueVars, mainVars, seen, local, bin, register, sharedVars>>

LockIsFree_NotAsked == TRUE
LockIsFree == owner = None

Lock(w) ==
  /\ at[w] = "lock"
  /\ LockIsFree
  /\ owner' = w
  /\ bin' = [bin EXCEPT ![w] = 0]
  /\ Goto(w, IF program = "fhistogram" THEN "load" ELSE "print")
  /\ UNCHANGED <<queueVars, mainVars, seen, eof, local, register, global, screen, printed, unreadable>>

LoadBin(w) ==
  /\ at[w] = "load"
  /\ register' = [register EXCEPT ![w] = global[bin[w]]]
  /\ Goto(w, "store")
  /\ UNCHANGED <<queueVars, mainVars, seen, eof, local, bin, sharedVars>>

\* What merge_histogram leaves in a bin of the local histogram.
Merged_Kept(w) == local[w][bin[w]]
Merged(w) == 0

StoreBin(w) ==
  /\ at[w] = "store"
  /\ global' = [global EXCEPT ![bin[w]] = register[w] + local[w][bin[w]]]
  /\ local' = [local EXCEPT ![w][bin[w]] = Merged(w)]
  /\ bin' = [bin EXCEPT ![w] = @ + 1]
  /\ Goto(w, IF bin[w] + 1 \in Bits THEN "load" ELSE "draw")
  /\ UNCHANGED <<queueVars, mainVars, seen, eof, register, owner, screen, printed, unreadable>>

Draw(w) ==
  /\ at[w] = "draw"
  /\ screen' = global
  /\ Goto(w, "unlock")
  /\ UNCHANGED <<queueVars, mainVars, seen, eof, local, bin, register, global, owner, printed, unreadable>>

\* A printf in fauxgrep_file or fib_line: the job, and the number of the line or
\* the Fibonacci number.
PrintLine(w) ==
  /\ at[w] = "print"
  /\ printed' = Append(printed, <<held[w], IF program = "fibs" THEN register[w] ELSE seen[w]>>)
  /\ Goto(w, "unlock")
  /\ UNCHANGED <<queueVars, mainVars, seen, eof, local, bin, register, global, owner, screen, unreadable>>

Released_NotAtEnd(w) == IF eof[w] THEN owner ELSE None
Released(w) == None

Unlock(w) ==
  /\ at[w] = "unlock"
  /\ owner' = Released(w)
  /\ Goto(w, IF eof[w] THEN "free" ELSE "read")
  /\ UNCHANGED <<queueVars, mainVars, seen, eof, local, bin, register, global, screen, printed, unreadable>>

FreePath(w) ==
  /\ at[w] = "free"
  /\ Queue!Finish(w)
  /\ Goto(w, "pop")
  /\ UNCHANGED <<mainVars, seen, eof, local, bin, register, sharedVars>>

Step(w) ==
  \/ Pop(w) \/ PopFails(w) \/ Open(w) \/ ReadByte(w) \/ ReadLine(w) \/ EndOfFile(w) \/ Compute(w)
  \/ Lock(w) \/ LoadBin(w) \/ StoreBin(w) \/ Draw(w) \/ PrintLine(w) \/ Unlock(w) \/ FreePath(w)

Main ==
  \/ StartFhistogram \/ StartFauxgrep \/ StartFibs
  \/ PushFile \/ PushLine \/ PassDirectory \/ DestroyQueue \/ JoinWorkers

Next == Main \/ \E w \in Workers : Step(w)

Spec == Init /\ [][Next]_vars

\* Every thread runs; main's push and the workers' pops return as the runs of
\* JobQueue show they do.
FairSpec == Spec /\ WF_vars(Main) /\ \A w \in Workers : WF_vars(Step(w))

-----------------------------------------------------------------------------
TypeOK ==
  /\ program \in Programs /\ option \in Options
  /\ fifo \in Seq(Jobs) /\ closed \in BOOLEAN /\ ended \subseteq threads /\ threads \subseteq Workers
  /\ held \in [Workers -> Jobs \cup {NoJob}]
  /\ next \in 1..(Len(Input) + 1) /\ mainAt \in {"start", "failed", "walk", "join", "done"}
  /\ at \in [Workers -> {"pop", "open", "read", "compute", "lock", "load", "store", "draw", "print",
                         "unlock", "free"}]
  /\ seen \in [Workers -> Nat] /\ eof \in [Workers -> BOOLEAN]
  /\ local \in [Workers -> Bins] /\ global \in Bins /\ screen \in Bins
  /\ bin \in [Workers -> 0..NBits] /\ register \in [Workers -> Nat]
  /\ owner \in threads \cup {None} /\ unreadable \subseteq Files
  /\ printed \in Seq(Jobs \X Nat)

\* How often bit b is set in the first n bytes of file f, and in all of it: what
\* fhistogram.c, the program without threads, has in bin b after reading them.
Count(f, n, b) == Cardinality({k \in 1..n : b \in Tree[f][k]})
CountAll(f, b) == Count(f, Len(Tree[f]), b)

\* Matching(f)[n]: the lines that fauxgrep.c, the program without threads, prints
\* of the first n lines of file f.
Matching(f) ==
  LET matching[n \in 0..Len(Tree[f])] ==
        IF n = 0 THEN << >>
        ELSE IF Needle \in Tree[f][n] THEN Append(matching[n - 1], n) ELSE matching[n - 1]
  IN  matching

\* What has been printed for job j, and what is to be printed for it.
LinesOf(list, j) ==
  LET lines[n \in 0..Len(list)] ==
        IF n = 0 THEN << >>
        ELSE IF list[n][1] = j THEN Append(lines[n - 1], list[n][2]) ELSE lines[n - 1]
  IN  lines[Len(list)]
Output(j)   == LinesOf(printed, j)
Expected(j) == CASE program = "fibs"       -> <<Fib[Typed[j]]>>
                 [] program = "fauxgrep"   -> IF j \in Files \ unreadable THEN Matching(j)[Len(Tree[j])] ELSE << >>
                 [] program = "fhistogram" -> << >>

\* The jobs that main has pushed and no worker or queue has any more.
Finished == {f \in 1..(next - 1) :
               /\ program = "fibs" \/ f \in Files
               /\ \A i \in DOMAIN fifo : fifo[i] # f
               /\ \A w \in Workers : held[w] # f}

Reading(w) == at[w] \notin {"pop", "open"} /\ held[w] \notin unreadable

\* Every bit counted so far is either in the global histogram or in the local
\* histogram of the worker that counted it, once: merging moves bits, loses
\* none, and merges none twice, whatever the workers do at the same time.
BitsAreConserved ==
  program = "fhistogram" =>
  \A b \in Bits :
    global[b] + SumOver(Workers, [w \in Workers |-> local[w][b]])
      = SumOver(Files, [f \in Files |-> IF f \in Finished \ unreadable THEN CountAll(f, b) ELSE 0])
      + SumOver(Workers, [w \in Workers |-> IF Reading(w) THEN Count(held[w], seen[w], b) ELSE 0])

\* When main returns, all workers have ended, the screen shows what fhistogram.c
\* counts for the files that could be opened, and each file or line has printed
\* what it prints in the program without threads, in its order.
OutputIsSequential ==
  mainAt = "done" =>
    /\ \A b \in Bits : screen[b] =
         IF program # "fhistogram" THEN 0
         ELSE SumOver(Files, [f \in Files |-> IF f \in unreadable THEN 0 ELSE CountAll(f, b)])
    /\ \A j \in DOMAIN Input : Output(j) = Expected(j)

\* The counts on the screen never go down, although every worker draws them.
ScreenNeverGoesBack ==
  [][\A b \in Bits : screen'[b] >= screen[b]]_vars

\* Every file or line pushed is eventually dealt with to its end: no worker is
\* left waiting for the lock.
EveryJobIsFinished ==
  \A j \in Jobs : next > j /\ (program = "fibs" \/ j \in Files) ~> j \in Finished
=============================================================================
