------------------------ MODULE QueueProgramsProofs -------------------------
(***************************************************************************)
(* Proofs about QueuePrograms for any number of threads, any tree, lines,  *)
(* bits of a byte, chunk and capacity: types, the conservation of the bits *)
(* counted, the output of the sequential programs, and a screen whose      *)
(* counts never go down.                                                   *)
(***************************************************************************)
EXTENDS QueuePrograms, InductionLemmas

-----------------------------------------------------------------------------
(* The invariant *)

IsJob(j) == IF program = "fibs" THEN j \in DOMAIN Typed ELSE j \in Files
Places   == {"pop", "open", "read", "compute", "lock", "load", "store", "draw", "print", "unlock", "free"}
Inside   == {"load", "store", "draw", "print", "unlock"}

\* A worker holds a job from its pop to its free, and the lock inside its
\* critical section.
WorkerOK(w) ==
  /\ at[w] # "pop" => w \in threads /\ w \notin ended
  /\ at[w] = "pop" <=> held[w] = NoJob
  /\ held[w] # NoJob => held[w] \in 1..(next - 1) /\ IsJob(held[w])
  /\ owner = w <=> at[w] \in Inside
  /\ program = "fibs"       => at[w] \in {"pop", "compute", "lock", "print", "unlock", "free"}
  /\ program = "fauxgrep"   => at[w] \in {"pop", "open", "read", "lock", "print", "unlock", "free"}
  /\ program = "fhistogram" => at[w] \in {"pop", "open", "read", "lock", "load", "store", "draw", "unlock", "free"}

\* How far worker w has read its file: to the end when it is done with it.
ReadOK(w) ==
  /\ held[w] \in unreadable => at[w] = "free"
  /\ program # "fibs" /\ Reading(w) => seen[w] <= Len(Tree[held[w]])
  /\ program # "fibs" /\ Reading(w) /\ (at[w] = "free" \/ eof[w]) => seen[w] = Len(Tree[held[w]])
  /\ at[w] = "read" => ~eof[w]
  /\ program = "fibs" /\ at[w] \in {"lock", "print", "unlock"} => eof[w]
  /\ program = "fibs" /\ at[w] \in {"lock", "print"} => register[w] = Fib[Typed[held[w]]]
  /\ program = "fauxgrep" /\ at[w] \in {"lock", "print", "unlock"} => ~eof[w]
  /\ program = "fauxgrep" /\ at[w] \in {"lock", "print"} => seen[w] > 0 /\ Needle \in Tree[held[w]][seen[w]]

\* Merging empties the local histogram of worker w bin by bin.
MergeOK(w) ==
  /\ program # "fhistogram" \/ at[w] \in {"pop", "open", "draw", "unlock", "free"} => local[w] = Empty
  /\ at[w] \in {"load", "store"} => bin[w] \in Bits /\ \A b \in Bits : b < bin[w] => local[w][b] = 0
  /\ at[w] = "store" => register[w] = global[bin[w]]

\* Every job is in one place at a time.
JobsOK ==
  /\ \A i \in DOMAIN fifo :
       /\ fifo[i] \in 1..(next - 1) /\ IsJob(fifo[i]) /\ fifo[i] \notin unreadable
       /\ \A w \in Workers : held[w] # fifo[i]
       /\ \A k \in DOMAIN fifo : fifo[k] = fifo[i] => k = i
  /\ \A v, w \in Workers : held[v] = held[w] /\ held[v] # NoJob => v = w
  /\ unreadable \subseteq 1..(next - 1) /\ (program = "fibs" => unreadable = {})

MainOK ==
  /\ mainAt \in {"start", "failed"} => next = 1 /\ threads = {}
  /\ closed <=> mainAt \in {"join", "done"}
  /\ closed => fifo = << >> /\ next = Len(Input) + 1
  /\ mainAt = "done" => ended = threads
  /\ closed \/ ended = {}

\* The screen shows the global histogram, or one that it has outgrown.
ScreenOK ==
  /\ \A b \in Bits : screen[b] <= global[b]
  /\ screen = global \/ \E w \in Workers : at[w] \in {"load", "store", "draw"}
  /\ program # "fhistogram" => global = Empty /\ screen = Empty

\* What worker w has printed for its job.
SoFar(w) ==
  CASE program = "fibs"       -> IF at[w] \in {"unlock", "free"} THEN <<Fib[Typed[held[w]]]>> ELSE << >>
    [] program = "fauxgrep"   -> IF Reading(w)
                                 THEN Matching(held[w])[IF at[w] \in {"lock", "print"} THEN seen[w] - 1 ELSE seen[w]]
                                 ELSE << >>
    [] program = "fhistogram" -> << >>

PrintOK ==
  /\ \A j \in Finished : Output(j) = Expected(j)
  /\ \A w \in Workers : held[w] # NoJob => Output(held[w]) = SoFar(w)
  /\ \A j \in DOMAIN Input : j \notin Finished /\ (\A w \in Workers : held[w] # j) => Output(j) = << >>

IInv ==
  /\ TypeOK
  /\ \A w \in Workers : WorkerOK(w) /\ ReadOK(w) /\ MergeOK(w)
  /\ JobsOK /\ MainOK /\ ScreenOK /\ BitsAreConserved /\ PrintOK

-----------------------------------------------------------------------------
(* What the model computes *)

LEMMA CountIs ==
  ASSUME NEW f, NEW n \in Nat, NEW b
  PROVE  /\ Count(f, n, b) \in Nat /\ Count(f, 0, b) = 0
         /\ Count(f, n + 1, b) = Count(f, n, b) + IF b \in Tree[f][n + 1] THEN 1 ELSE 0
  <1> DEFINE Set(m) == {k \in 1..m : b \in Tree[f][k]}
  <1>1. IsFiniteSet(1..n) /\ Set(n) \in SUBSET (1..n)
    BY FS_Interval
  <1>2. IsFiniteSet(Set(n)) /\ Cardinality(Set(n)) \in Nat
    BY <1>1, FS_Subset, FS_CardinalityType
  <1>3. Set(0) = {}
    OBVIOUS
  <1>4. n + 1 \notin 1..n /\ 1..(n + 1) = 1..n \cup {n + 1}
    OBVIOUS
  <1>5. n + 1 \notin Set(n) /\ Set(n + 1) = IF b \in Tree[f][n + 1] THEN Set(n) \cup {n + 1} ELSE Set(n)
    BY <1>4
  <1>6. \A m : Count(f, m, b) = Cardinality(Set(m))
    BY DEF Count
  <1> HIDE DEF Set
  <1>7. Cardinality(Set(n) \cup {n + 1}) = Cardinality(Set(n)) + 1
    BY <1>2, <1>5, FS_AddElement
  <1>8. Cardinality(Set(n + 1)) = Cardinality(Set(n)) + IF b \in Tree[f][n + 1] THEN 1 ELSE 0
    BY <1>2, <1>5, <1>7
  <1> QED BY <1>2, <1>3, <1>6, <1>8, FS_EmptySet

\* A loop that appends to a list in some of its turns.
IsCollected(m, N, keep, val) ==
  m = [n \in 0..N |-> IF n = 0 THEN << >> ELSE IF n \in keep THEN Append(m[n - 1], val[n]) ELSE m[n - 1]]

LEMMA Collects ==
  ASSUME NEW N \in Nat, NEW keep, NEW val \in [1..N -> Nat]
  PROVE  \E m \in [0..N -> Seq(Nat)] : IsCollected(m, N, keep, val)
  <1> DEFINE Turn(l, n) == IF n \in keep THEN Append(l, val[n]) ELSE l
             step == [n \in 1..N |-> [l \in Seq(Nat) |-> Turn(l, n)]]
  <1>1. step \in Turns(N, Seq(Nat)) /\ << >> \in Seq(Nat)
    <2>1. \A n \in 1..N, l \in Seq(Nat) : Turn(l, n) \in Seq(Nat)
      OBVIOUS
    <2> HIDE DEF Turn
    <2> QED BY <2>1 DEF Turns
  <1>2. \A n \in 1..N, l \in Seq(Nat) : step[n][l] = Turn(l, n)
    OBVIOUS
  <1> HIDE DEF step
  <1>3. PICK m \in [0..N -> Seq(Nat)] : IsRun(m, N, << >>, step)
    BY <1>1, LoopExists
  <1>4. \A n \in 1..N : n - 1 \in 0..N /\ n # 0
    OBVIOUS
  <1>5. \A n \in 1..N : m[n] = Turn(m[n - 1], n)
    BY <1>2, <1>3, <1>4 DEF IsRun
  <1>6. \A n \in 0..N : m[n] = IF n = 0 THEN << >> ELSE IF n \in keep THEN Append(m[n - 1], val[n]) ELSE m[n - 1]
    <2>1. m[0] = << >> /\ \A n \in 0..N : n = 0 \/ n \in 1..N
      BY <1>3 DEF IsRun
    <2> QED BY <1>4, <1>5, <2>1
  <1>7. IsCollected(m, N, keep, val)
    BY <1>6 DEF IsCollected
  <1> QED BY <1>7

SameTurns(M, keep, val, also, wal) == \A n \in 1..M : (n \in keep <=> n \in also) /\ val[n] = wal[n]

\* Two such loops have collected the same after the turns that are the same.
LEMMA CollectsSame ==
  ASSUME NEW N \in Nat, NEW M \in 0..N, NEW keep, NEW val, NEW also, NEW wal, NEW m, NEW k,
         IsCollected(m, N, keep, val), IsCollected(k, M, also, wal),
         SameTurns(M, keep, val, also, wal)
  PROVE  m[M] = k[M]
  <1> DEFINE T == {n \in 0..M : m[n] = k[n]}
  <1>1. 0 \in T
    <2>1. 0 \in 0..M /\ 0 \in 0..N
      OBVIOUS
    <2> QED BY <2>1 DEF IsCollected
  <1>2. ASSUME NEW n \in 0..(M - 1), n \in T PROVE n + 1 \in T
    <2>1. n + 1 \in 0..M /\ n + 1 \in 0..N /\ n + 1 # 0 /\ (n + 1) - 1 = n /\ n + 1 \in 1..M
      OBVIOUS
    <2>2. m[n + 1] = IF n + 1 \in keep THEN Append(m[n], val[n + 1]) ELSE m[n]
      BY <2>1 DEF IsCollected
    <2>3. k[n + 1] = IF n + 1 \in also THEN Append(k[n], wal[n + 1]) ELSE k[n]
      BY <2>1 DEF IsCollected
    <2> QED BY <1>2, <2>1, <2>2, <2>3 DEF SameTurns
  <1>3. 0..M \subseteq T /\ M \in 0..M
    <2> HIDE DEF T
    <2>1. M \in Nat
      OBVIOUS
    <2> QED BY <1>1, <1>2, <2>1, InductionUpTo
  <1> QED BY <1>3

LinesFrom(list) == [n \in 1..Len(list) |-> list[n][2]]
LinesWith(list, j) == {n \in 1..Len(list) : list[n][1] = j}

LEMMA LinesCollected ==
  ASSUME NEW list \in Seq(Jobs \X Nat), NEW j
  PROVE  /\ LinesFrom(list) \in [1..Len(list) -> Nat] /\ Len(list) \in Nat
         /\ \E m \in [0..Len(list) -> Seq(Nat)] :
              /\ IsCollected(m, Len(list), LinesWith(list, j), LinesFrom(list))
              /\ LinesOf(list, j) = m[Len(list)]
  <1> DEFINE N == Len(list)
  <1>1. N \in Nat /\ \A n \in 1..N : list[n] \in Jobs \X Nat
    OBVIOUS
  <1>2. LinesFrom(list) \in [1..N -> Nat]
    BY <1>1 DEF LinesFrom
  <1>3. PICK m \in [0..N -> Seq(Nat)] : IsCollected(m, N, LinesWith(list, j), LinesFrom(list))
    <2> HIDE DEF N
    <2> QED BY <1>1, <1>2, Collects
  <1>4. \A n \in 0..N : n # 0 => (n \in LinesWith(list, j) <=> list[n][1] = j) /\ LinesFrom(list)[n] = list[n][2]
    BY <1>1 DEF LinesWith, LinesFrom
  <1>5. m = [n \in 0..N |-> IF n = 0 THEN << >>
                            ELSE IF list[n][1] = j THEN Append(m[n - 1], list[n][2]) ELSE m[n - 1]]
    <2> HIDE DEF N
    <2> QED BY <1>3, <1>4 DEF IsCollected
  <1> DEFINE lines == CHOOSE k : k = [n \in 0..N |-> IF n = 0 THEN << >>
                                        ELSE IF list[n][1] = j THEN Append(k[n - 1], list[n][2]) ELSE k[n - 1]]
  <1>9. LinesOf(list, j) = lines[N]
    BY DEF LinesOf
  <1>6. PICK k : /\ LinesOf(list, j) = k[N]
                 /\ k = [n \in 0..N |-> IF n = 0 THEN << >>
                                        ELSE IF list[n][1] = j THEN Append(k[n - 1], list[n][2]) ELSE k[n - 1]]
    <2> HIDE DEF N
    <2> QED BY <1>5, <1>9
  <1>7. IsCollected(k, N, LinesWith(list, j), LinesFrom(list))
    <2> HIDE DEF N
    <2> QED BY <1>4, <1>6 DEF IsCollected
  <1>8. m[N] = k[N]
    <2> HIDE DEF N
    <2>1. N \in 0..N
      BY <1>1
    <2>2. SameTurns(N, LinesWith(list, j), LinesFrom(list), LinesWith(list, j), LinesFrom(list))
      BY DEF SameTurns
    <2> QED BY <1>1, <1>3, <1>7, <2>1, <2>2, CollectsSame
  <1> QED BY <1>1, <1>2, <1>3, <1>6, <1>8

LEMMA NoLines == ASSUME NEW j PROVE LinesOf(<< >>, j) = << >>
  <1> DEFINE list == << >>
  <1>1. list \in Seq(Jobs \X Nat) /\ Len(list) = 0
    OBVIOUS
  <1>2. PICK m : IsCollected(m, Len(list), LinesWith(list, j), LinesFrom(list)) /\ LinesOf(list, j) = m[Len(list)]
    BY <1>1, LinesCollected
  <1> QED BY <1>1, <1>2 DEF IsCollected

WithLine(list, i, v) == Append(list, <<i, v>>)

\* A line printed is appended to what was printed for its job, and to nothing else.
LEMMA OneLineMore ==
  ASSUME NEW list \in Seq(Jobs \X Nat), NEW i \in Jobs, NEW v \in Nat, NEW j
  PROVE  /\ i = j => LinesOf(WithLine(list, i, v), j) = Append(LinesOf(list, j), v)
         /\ i # j => LinesOf(WithLine(list, i, v), j) = LinesOf(list, j)
         /\ LinesOf(list, j) \in Seq(Nat)
  <1> DEFINE e == <<i, v>>
             new == Append(list, e)
             M == Len(list)
             N == Len(new)
  <1>1. /\ new \in Seq(Jobs \X Nat) /\ M \in Nat /\ N = M + 1 /\ new[N] = e /\ e[1] = i /\ e[2] = v
        /\ \A n \in 1..M : new[n] = list[n]
    OBVIOUS
  <1>2. PICK k \in [0..M -> Seq(Nat)] : IsCollected(k, M, LinesWith(list, j), LinesFrom(list)) /\ LinesOf(list, j) = k[M]
    BY LinesCollected
  <1> HIDE DEF new, e, N, M
  <1>3. PICK m : IsCollected(m, N, LinesWith(new, j), LinesFrom(new)) /\ LinesOf(new, j) = m[N]
    BY <1>1, LinesCollected DEF N
  <1>4. /\ \A n \in 1..M : n \in LinesWith(new, j) <=> n \in LinesWith(list, j)
        /\ \A n \in 1..M : LinesFrom(new)[n] = LinesFrom(list)[n]
        /\ N \in LinesWith(new, j) <=> i = j
        /\ LinesFrom(new)[N] = v
    <2>1. \A n \in 1..M : n \in 1..N
      BY <1>1
    <2>2. N \in 1..N
      BY <1>1
    <2> QED BY <1>1, <2>1, <2>2 DEF LinesWith, LinesFrom, N, M
  <1>5. m[M] = k[M]
    <2>1. N \in Nat /\ M \in 0..N
      BY <1>1
    <2> DEFINE keep == LinesWith(new, j)
               also == LinesWith(list, j)
               val  == LinesFrom(new)
               wal  == LinesFrom(list)
    <2>2. SameTurns(M, keep, val, also, wal)
      BY <1>4 DEF SameTurns
    <2>3. IsCollected(m, N, keep, val)
      BY <1>3
    <2>4. IsCollected(k, M, also, wal)
      BY <1>2
    <2> HIDE DEF keep, also, val, wal
    <2> QED BY <2>1, <2>2, <2>3, <2>4, CollectsSame
  <1>6. m[N] = IF i = j THEN Append(m[M], v) ELSE m[M]
    <2>1. N \in 0..N /\ N # 0 /\ N - 1 = M
      BY <1>1
    <2> QED BY <1>3, <1>4, <2>1 DEF IsCollected
  <1>7. k[M] \in Seq(Nat)
    BY <1>1, <1>2
  <1> QED BY <1>2, <1>3, <1>5, <1>6, <1>7 DEF new, e, WithLine

\* The lines that match, line by line.
LEMMA MatchingIs ==
  ASSUME ProgramsAssumption, NEW f \in Files
  PROVE  /\ Matching(f)[0] = << >>
         /\ \A n \in 1..Len(Tree[f]) :
              Matching(f)[n] = IF Needle \in Tree[f][n] THEN Append(Matching(f)[n - 1], n) ELSE Matching(f)[n - 1]
  <1> DEFINE N == Len(Tree[f])
             keep == {n \in 1..N : Needle \in Tree[f][n]}
             val == [n \in 1..N |-> n]
  <1>1. N \in Nat
    BY DEF ProgramsAssumption, Files
  <1>2. val \in [1..N -> Nat]
    OBVIOUS
  <1>3. PICK m \in [0..N -> Seq(Nat)] : IsCollected(m, N, keep, val)
    <2> HIDE DEF N, keep, val
    <2> QED BY <1>1, <1>2, Collects
  <1>4. m = [n \in 0..N |-> IF n = 0 THEN << >>
                            ELSE IF Needle \in Tree[f][n] THEN Append(m[n - 1], n) ELSE m[n - 1]]
    <2>1. \A n \in 0..N : n # 0 => (n \in keep <=> Needle \in Tree[f][n]) /\ val[n] = n
      BY <1>1
    <2> HIDE DEF N, keep, val
    <2> QED BY <1>3, <2>1 DEF IsCollected
  <1>5. Matching(f) = [n \in 0..N |-> IF n = 0 THEN << >>
                          ELSE IF Needle \in Tree[f][n] THEN Append(Matching(f)[n - 1], n) ELSE Matching(f)[n - 1]]
    BY <1>4 DEF Matching
  <1>6. 0 \in 0..N /\ \A n \in 1..N : n \in 0..N /\ n # 0
    BY <1>1
  <1> HIDE DEF N
  <1>7. \A n \in 1..N : Matching(f)[n] = IF Needle \in Tree[f][n] THEN Append(Matching(f)[n - 1], n) ELSE Matching(f)[n - 1]
    BY <1>5, <1>6
  <1>8. Matching(f)[0] = << >>
    BY <1>5, <1>6
  <1> QED BY <1>7, <1>8 DEF N

\* The recursive function of fib exists, and its values are natural numbers.
LEMMA FibIs == Fib \in [Int -> Nat]
  <1> DEFINE Body(g, k) == IF k < 2 THEN 1 ELSE g[k - 1] + g[k - 2]
             Upto(n, g) == \A k \in Int : k <= n => g[k] = Body(g, k)
             T == {n \in Nat : \E g \in [Int -> Nat] : Upto(n, g)}
  <1>1. 0 \in T
    <2> DEFINE g == [k \in Int |-> 1]
    <2>1. g \in [Int -> Nat] /\ Upto(0, g)
      OBVIOUS
    <2> QED BY <2>1
  <1>2. ASSUME NEW n \in Nat, n \in T PROVE n + 1 \in T
    <2>1. PICK g \in [Int -> Nat] : Upto(n, g)
      BY <1>2
    <2> DEFINE v == Body(g, n + 1)
               h == [g EXCEPT ![n + 1] = v]
    <2>2. v \in Nat
      <3>1. CASE n + 1 < 2
        BY <3>1
      <3>2. CASE ~(n + 1 < 2)
        BY <3>2
      <3> QED BY <3>1, <3>2
    <2> HIDE DEF v
    <2>3. h \in [Int -> Nat] /\ h[n + 1] = v /\ \A k \in Int : k # n + 1 => h[k] = g[k]
      BY <2>2
    <2> HIDE DEF h
    <2>4. ASSUME NEW k \in Int, k <= n + 1 PROVE h[k] = Body(h, k)
      <3>1. k - 1 \in Int /\ k - 2 \in Int /\ k - 1 # n + 1 /\ k - 2 # n + 1
        BY <2>4
      <3>2. h[k - 1] = g[k - 1] /\ h[k - 2] = g[k - 2]
        BY <2>3, <3>1
      <3>3. CASE k = n + 1
        BY <2>3, <3>2, <3>3 DEF v
      <3>4. CASE k # n + 1
        <4>1. k <= n
          BY <2>4, <3>4
        <4> QED BY <2>1, <2>3, <3>2, <3>4, <4>1
      <3> QED BY <3>3, <3>4
    <2> QED BY <2>3, <2>4
  <1>3. Nat \subseteq T
    <2> HIDE DEF T
    <2> QED BY <1>1, <1>2, InductionOnNat
  <1>4. ASSUME NEW n \in Nat, NEW g, NEW h, Upto(n, g), Upto(n, h), NEW k \in Int, k <= n PROVE g[k] = h[k]
    <2> DEFINE U == {j \in Nat : \A i \in Int : i <= j /\ i <= n => g[i] = h[i]}
    <2>1. 0 \in U
      BY <1>4
    <2>2. ASSUME NEW j \in Nat, j \in U PROVE j + 1 \in U
      <3>1. ASSUME NEW i \in Int, i <= j + 1, i <= n PROVE g[i] = h[i]
        <4>1. g[i] = Body(g, i) /\ h[i] = Body(h, i)
          BY <1>4, <3>1
        <4>2. i - 1 \in Int /\ i - 2 \in Int /\ i - 1 <= j /\ i - 2 <= j /\ i - 1 <= n /\ i - 2 <= n
          BY <3>1
        <4>3. g[i - 1] = h[i - 1] /\ g[i - 2] = h[i - 2]
          BY <2>2, <4>2
        <4> QED BY <4>1, <4>3
      <3> QED BY <3>1
    <2>3. Nat \subseteq U
      <3> HIDE DEF U
      <3> QED BY <2>1, <2>2, InductionOnNat
    <2>4. n \in U
      BY <2>3
    <2> QED BY <1>4, <2>4
  <1> DEFINE Best(n) == CHOOSE g : g \in [Int -> Nat] /\ Upto(n, g)
             fib == [k \in Int |-> Best(IF k < 0 THEN 0 ELSE k)[k]]
  <1>5. \A n \in Nat : Best(n) \in [Int -> Nat] /\ Upto(n, Best(n))
    BY <1>3
  <1> HIDE DEF Best
  <1>6. fib \in [Int -> Nat]
    <2>1. ASSUME NEW k \in Int PROVE Best(IF k < 0 THEN 0 ELSE k)[k] \in Nat
      <3> DEFINE n == IF k < 0 THEN 0 ELSE k
      <3>1. n \in Nat
        OBVIOUS
      <3> HIDE DEF n
      <3>2. Best(n)[k] \in Nat
        BY <1>5, <3>1
      <3> QED BY <3>2 DEF n
    <2> QED BY <2>1
  <1>7. ASSUME NEW k \in Int PROVE fib[k] = Body(fib, k)
    <2>1. CASE k < 2
      <3>1. PICK n \in Nat : k <= n /\ fib[k] = Best(n)[k]
        <4>1. CASE k < 0
          BY <4>1
        <4>2. CASE ~(k < 0)
          BY <4>2
        <4> QED BY <4>1, <4>2
      <3> QED BY <1>5, <2>1, <3>1
    <2>2. CASE ~(k < 2)
      <3> DEFINE a == k - 1
                 b == k - 2
      <3>1. a \in Nat /\ b \in Nat /\ k \in Nat /\ a <= k /\ b <= k /\ ~(k < 0) /\ ~(a < 0) /\ ~(b < 0)
        BY <2>2
      <3> HIDE DEF a, b
      <3>2. fib[k] = Best(k)[k] /\ fib[a] = Best(a)[a] /\ fib[b] = Best(b)[b]
        BY <3>1
      <3>3. Best(k)[k] = Best(k)[a] + Best(k)[b]
        BY <1>5, <2>2, <3>1 DEF a, b
      <3>4. Upto(a, Best(k)) /\ Upto(b, Best(k))
        <4>1. \A j \in Int : (j <= a => j <= k) /\ (j <= b => j <= k)
          BY <3>1
        <4>2. Upto(k, Best(k))
          BY <1>5, <3>1
        <4> QED BY <4>1, <4>2
      <3>5. Best(k)[a] = Best(a)[a]
        <4>1. Upto(a, Best(a)) /\ a \in Int /\ a <= a
          BY <1>5, <3>1
        <4> HIDE DEF Upto
        <4> QED BY <1>4, <3>1, <3>4, <4>1
      <3>6. Best(k)[b] = Best(b)[b]
        <4>1. Upto(b, Best(b)) /\ b \in Int /\ b <= b
          BY <1>5, <3>1
        <4> HIDE DEF Upto
        <4> QED BY <1>4, <3>1, <3>4, <4>1
      <3> HIDE DEF fib
      <3>7. fib[k] = fib[a] + fib[b]
        BY <3>2, <3>3, <3>5, <3>6
      <3> QED BY <2>2, <3>7 DEF a, b
    <2> QED BY <2>1, <2>2
  <1>8. fib = [k \in Int |-> IF k < 2 THEN 1 ELSE fib[k - 1] + fib[k - 2]]
    <2>1. fib = [k \in Int |-> fib[k]]
      BY <1>6
    <2> HIDE DEF fib
    <2> QED BY <1>7, <2>1
  <1> HIDE DEF fib
  <1>9. Fib = [k \in Int |-> IF k < 2 THEN 1 ELSE Fib[k - 1] + Fib[k - 2]]
    BY <1>8 DEF Fib
  <1>10. \A n \in Nat : Upto(n, Fib)
    BY <1>9
  <1>11. ASSUME NEW k \in Int PROVE Fib[k] \in Nat
    <2>1. PICK n \in Nat : k <= n
      <3>1. CASE k < 0
        BY <3>1
      <3>2. CASE ~(k < 0)
        <4>1. k \in Nat /\ k <= k
          BY <3>2
        <4> QED BY <4>1
      <3> QED BY <3>1, <3>2
    <2>2. Upto(n, Fib) /\ Upto(n, Best(n)) /\ Best(n) \in [Int -> Nat]
      BY <1>5, <1>10
    <2>3. Fib[k] = Best(n)[k]
      <3> HIDE DEF Upto
      <3> QED BY <1>4, <2>1, <2>2
    <2> QED BY <2>2, <2>3
  <1> QED BY <1>9, <1>11

LEMMA Given ==
  ASSUME program \in Programs
  PROVE  /\ Len(Input) \in Nat /\ DOMAIN Input = 1..Len(Input) /\ DOMAIN Input \subseteq Jobs
         /\ \A j \in DOMAIN Typed : j \in Jobs /\ j \in Nat /\ Typed[j] \in Int
         /\ \A f \in Files : f \in Jobs /\ f \in Nat /\ Tree[f] \in Seq(SUBSET Bits) /\ Len(Tree[f]) \in Nat
         /\ \A j : IsJob(j) => j \in DOMAIN Input
         /\ NoJob \notin Jobs /\ IsFiniteSet(Files) /\ IsFiniteSet(Workers) /\ None \notin Workers
         /\ program = "fibs" => Input = Typed
         /\ program # "fibs" => Input = Tree
  <1>1. /\ Len(Tree) \in Nat /\ DOMAIN Tree = 1..Len(Tree) /\ Len(Typed) \in Nat /\ DOMAIN Typed = 1..Len(Typed)
        /\ \A j \in DOMAIN Typed : Typed[j] \in Int
        /\ \A i \in DOMAIN Tree : Tree[i] \in {Directory} \cup Seq(SUBSET Bits)
    BY ProgramsAssumption DEF ProgramsAssumption
  <1>2. IsFiniteSet(Files)
    <2>1. Files \in SUBSET (1..Len(Tree)) /\ IsFiniteSet(1..Len(Tree))
      BY <1>1, FS_Interval DEF Files
    <2> QED BY <2>1, FS_Subset
  <1>3. \A f \in Files : f \in DOMAIN Tree /\ Tree[f] \in Seq(SUBSET Bits)
    BY <1>1 DEF Files
  <1>4. \A f \in Files : Len(Tree[f]) \in Nat
    BY <1>3
  <1>5. DOMAIN Tree \subseteq Nat /\ DOMAIN Typed \subseteq Nat
    BY <1>1
  <1>6. (program = "fibs" => Input = Typed) /\ (program # "fibs" => Input = Tree)
    BY DEF Input
  <1>7. NoJob \notin Jobs /\ IsFiniteSet(Workers) /\ None \notin Workers
    BY <1>5, ProgramsAssumption DEF ProgramsAssumption, Jobs
  <1> QED BY <1>1, <1>2, <1>3, <1>4, <1>5, <1>6, <1>7 DEF Jobs, IsJob

LEMMA EmptyIs == Empty \in Bins /\ \A b \in Bits : Empty[b] = 0
  BY DEF Empty, Bins

\* What the sequence operators do to the queue.
LEMMA Pushed ==
  ASSUME NEW S, NEW s \in Seq(S), NEW e \in S
  PROVE  /\ Append(s, e) \in Seq(S) /\ DOMAIN Append(s, e) = 1..(Len(s) + 1) /\ DOMAIN s = 1..Len(s) /\ Len(s) \in Nat
         /\ Append(s, e)[Len(s) + 1] = e /\ \A i \in 1..Len(s) : Append(s, e)[i] = s[i]
  OBVIOUS

LEMMA Popped ==
  ASSUME NEW S, NEW s \in Seq(S), s # << >>
  PROVE  /\ Head(s) = s[1] /\ Head(s) \in S /\ Tail(s) \in Seq(S) /\ DOMAIN s = 1..Len(s) /\ Len(s) \in Nat \ {0}
         /\ DOMAIN Tail(s) = 1..(Len(s) - 1) /\ \A i \in 1..(Len(s) - 1) : Tail(s)[i] = s[i + 1]
  OBVIOUS

\* Only main's first step creates threads, and only its pushes and its walk go on
\* to the next entry.
LEMMA MainSteps ==
  ASSUME IInv, Main
  PROVE  \/ /\ mainAt = "start" /\ mainAt' \in {"failed", "walk"} /\ (mainAt' = "failed" => threads' = threads)
            /\ threads' \in SUBSET Workers
            /\ UNCHANGED <<next, queueVars, args, workerVars, sharedVars>>
         \/ /\ mainAt = "walk" /\ next <= Len(Input) /\ ~closed /\ fifo' = Append(fifo, next) /\ next' = next + 1 /\ IsJob(next)
            /\ UNCHANGED <<mainAt, threads, closed, held, ended, args, workerVars, sharedVars>>
         \/ /\ mainAt = "walk" /\ next <= Len(Input) /\ next' = next + 1 /\ ~IsJob(next) /\ program # "fibs"
            /\ UNCHANGED <<mainAt, threads, queueVars, args, workerVars, sharedVars>>
         \/ /\ mainAt = "walk" /\ next > Len(Input) /\ fifo = << >> /\ closed' = TRUE /\ mainAt' = "join"
            /\ UNCHANGED <<next, threads, fifo, held, ended, args, workerVars, sharedVars>>
         \/ /\ mainAt = "join" /\ ended = threads /\ mainAt' = "done"
            /\ UNCHANGED <<next, threads, queueVars, args, workerVars, sharedVars>>
  <1>0. program \in Programs /\ next \in 1..(Len(Input) + 1)
    BY DEF IInv, TypeOK
  <1>1. CASE StartFhistogram \/ StartFauxgrep \/ StartFibs
    <2>1. \A n : kSubset(n, Workers) \subseteq SUBSET Workers
      BY DEF kSubset
    <2>2. mainAt = "start" => threads = {} /\ {} \in SUBSET Workers
      BY DEF IInv, MainOK
    <2> QED BY <1>1, <2>1, <2>2 DEF StartFhistogram, StartFauxgrep, StartFibs, Create
  <1>2. CASE PushFile
    <2>1. IsJob(next)
      BY <1>2 DEF PushFile, IsJob
    <2> QED BY <1>2, <2>1 DEF PushFile, Push, Queue!Put, queueVars
  <1>3. CASE PushLine
    <2>1. IsJob(next)
      BY <1>0, <1>3, Given DEF PushLine, Push, IsJob
    <2> QED BY <1>3, <2>1 DEF PushLine, Push, Queue!Put, queueVars
  <1>4. CASE PassDirectory
    <2>1. next <= Len(Input)
      BY <1>0, <1>4, Given DEF PassDirectory
    <2> QED BY <1>4, <2>1 DEF PassDirectory, IsJob
  <1>5. CASE DestroyQueue
    BY <1>5 DEF DestroyQueue, Queue!Close, queueVars
  <1>6. CASE JoinWorkers
    BY <1>6 DEF JoinWorkers
  <1> QED BY <1>1, <1>2, <1>3, <1>4, <1>5, <1>6 DEF Main

-----------------------------------------------------------------------------
(* Types *)

LEMMA TypeMain == ASSUME IInv, Main PROVE TypeOK'
  <1> USE DEF args, queueVars, workerVars, sharedVars
  <1>0. TypeOK /\ MainOK /\ program \in Programs
    BY DEF IInv, TypeOK
  <1>1. UNCHANGED <<program, option, held, at, seen, eof, local, bin, register, global, owner, screen, printed, unreadable, ended>>
    BY MainSteps
  <1>2. Input' = Input /\ Len(Input) \in Nat
    BY <1>0, <1>1, Given DEF Input
  <1>3. next' \in 1..(Len(Input) + 1)
    <2>1. next' = next \/ (next <= Len(Input) /\ next' = next + 1)
      BY MainSteps
    <2>2. next \in 1..(Len(Input) + 1)
      BY <1>0 DEF TypeOK
    <2> QED BY <1>2, <2>1, <2>2
  <1>4. fifo' \in Seq(Jobs)
    <2>1. IsJob(next) => next \in Jobs
      BY <1>0, Given
    <2>2. fifo' = fifo \/ (IsJob(next) /\ fifo' = Append(fifo, next))
      BY MainSteps
    <2>3. fifo \in Seq(Jobs)
      BY <1>0 DEF TypeOK
    <2> QED BY <2>1, <2>2, <2>3
  <1>5. closed' \in BOOLEAN /\ mainAt' \in {"start", "failed", "walk", "join", "done"}
    BY <1>0, MainSteps DEF TypeOK
  <1>6. ended' \subseteq threads' /\ threads' \subseteq Workers /\ owner' \in threads' \cup {None}
    <2>1. mainAt = "start" => ended = {} /\ owner = None
      <3>1. mainAt = "start" => threads = {} /\ ended = {}
        BY <1>0 DEF MainOK
      <3> QED BY <1>0, <3>1 DEF TypeOK
    <2> QED BY <1>0, <1>1, <2>1, MainSteps DEF TypeOK
  <1> QED BY <1>0, <1>1, <1>2, <1>3, <1>4, <1>5, <1>6 DEF TypeOK

\* What a worker knows of its file when it reads it, and of its line.
LEMMA JobIs ==
  ASSUME IInv, NEW w \in Workers, held[w] # NoJob
  PROVE  /\ held[w] \in Jobs /\ held[w] \in 1..(next - 1) /\ held[w] \in Nat /\ w \in threads /\ w \notin ended
         /\ program = "fibs" => held[w] \in DOMAIN Typed /\ Typed[held[w]] \in Int /\ Fib[Typed[held[w]]] \in Nat
         /\ program # "fibs" => /\ held[w] \in Files /\ Tree[held[w]] \in Seq(SUBSET Bits)
                                /\ Len(Tree[held[w]]) \in Nat
  <1>1. WorkerOK(w) /\ TypeOK /\ program \in Programs
    BY DEF IInv, TypeOK
  <1>2. held[w] \in Jobs
    BY <1>1 DEF TypeOK
  <1>3. held[w] \in 1..(next - 1) /\ IsJob(held[w]) /\ w \in threads /\ w \notin ended
    BY <1>1 DEF WorkerOK
  <1>4. next - 1 \in Nat
    BY <1>1, Given DEF TypeOK
  <1>5. program = "fibs" => held[w] \in DOMAIN Typed /\ Typed[held[w]] \in Int /\ Fib[Typed[held[w]]] \in Nat
    BY <1>1, <1>3, Given, FibIs DEF IsJob
  <1>6. program # "fibs" => held[w] \in Files
    BY <1>3 DEF IsJob
  <1> QED BY <1>1, <1>2, <1>3, <1>4, <1>5, <1>6, Given

LEMMA UpdatedIs == ASSUME NEW h \in Bins, NEW byte PROVE Updated(h, byte) \in Bins
  BY DEF Updated, Bins

LEMMA TypeStep == ASSUME IInv, NEW w \in Workers, Step(w) PROVE TypeOK'
  <1> USE DEF args, queueVars, mainVars, workerVars, sharedVars, Goto
  <1>0. TypeOK /\ WorkerOK(w) /\ program \in Programs /\ NoJob \notin Jobs
    BY Given DEF IInv, TypeOK
  <1>a. held[w] = NoJob \/ w \in threads
    BY <1>0 DEF WorkerOK
  <1>1. CASE Pop(w)
    <2>1. Head(fifo) \in Jobs /\ Tail(fifo) \in Seq(Jobs)
      BY <1>0, <1>1, Popped DEF Pop, Queue!Get, TypeOK
    <2>2. UNCHANGED Input
      BY <1>1 DEF Pop, Input
    <2> QED BY <1>0, <1>1, <2>1, <2>2 DEF Pop, Queue!Get, TypeOK
  <1>2. CASE PopFails(w)
    <2>2. UNCHANGED Input
      BY <1>2 DEF PopFails, Input
    <2> QED BY <1>0, <1>2, <2>2 DEF PopFails, Queue!End, TypeOK
  <1>3. CASE Open(w)
    <2>1. at[w] = "open" /\ at[w] # "pop"
      BY <1>3 DEF Open
    <2>2. UNCHANGED Input /\ held[w] # NoJob /\ program # "fibs"
      BY <1>0, <1>3, <2>1 DEF Open, Input, WorkerOK
    <2>3. held[w] \in Files
      BY <2>2, JobIs
    <2> QED BY <1>0, <1>3, <2>2, <2>3, EmptyIs DEF Open, TypeOK
  <1>4. CASE ReadByte(w)
    <2>1. UNCHANGED Input
      BY <1>4 DEF ReadByte, Input
    <2>2. local' \in [Workers -> Bins]
      <3>1. local \in [Workers -> Bins] /\ Updated(local[w], Tree[held[w]][seen[w] + 1]) \in Bins
        BY <1>0, UpdatedIs DEF TypeOK
      <3> QED BY <1>4, <3>1 DEF ReadByte
    <2>3. at' = [at EXCEPT ![w] = "lock"] \/ at' = [at EXCEPT ![w] = "read"]
      BY <1>4 DEF ReadByte
    <2>4. seen' \in [Workers -> Nat]
      BY <1>0, <1>4 DEF ReadByte, TypeOK
    <2>5. UNCHANGED <<program, option, fifo, closed, held, ended, threads, next, mainAt, eof, bin, register,
                      global, owner, screen, printed, unreadable>>
      BY <1>4 DEF ReadByte
    <2> QED BY <1>0, <2>1, <2>2, <2>3, <2>4, <2>5 DEF TypeOK
  <1>5. CASE ReadLine(w)
    <2>1. UNCHANGED Input
      BY <1>5 DEF ReadLine, Input
    <2> QED BY <1>0, <1>5, <2>1, SMTT(30) DEF ReadLine, TypeOK
  <1>6. CASE EndOfFile(w)
    <2>1. UNCHANGED Input
      BY <1>6 DEF EndOfFile, Input
    <2> QED BY <1>0, <1>6, <2>1 DEF EndOfFile, AtEnd, TypeOK
  <1>7. CASE Compute(w)
    <2>1. at[w] = "compute" /\ at[w] # "pop"
      BY <1>7 DEF Compute
    <2>2. UNCHANGED Input /\ held[w] # NoJob /\ program = "fibs"
      BY <1>0, <1>7, <2>1 DEF Compute, Input, WorkerOK, Programs
    <2>3. Fib[Typed[held[w]]] \in Nat
      BY <2>2, JobIs
    <2> QED BY <1>0, <1>7, <2>2, <2>3 DEF Compute, TypeOK
  <1>8. CASE Lock(w)
    <2>1. UNCHANGED Input /\ w \in threads /\ 0 \in 0..NBits
      BY <1>0, <1>8, ProgramsAssumption DEF Lock, Input, WorkerOK, ProgramsAssumption
    <2> QED BY <1>0, <1>8, <2>1 DEF Lock, TypeOK
  <1>9. CASE LoadBin(w)
    <2>1. UNCHANGED Input /\ bin[w] \in Bits
      BY <1>9 DEF LoadBin, Input, IInv, MergeOK
    <2>2. global[bin[w]] \in Nat
      BY <1>0, <2>1 DEF TypeOK, Bins
    <2> QED BY <1>0, <1>9, <2>1, <2>2 DEF LoadBin, TypeOK
  <1>10. CASE StoreBin(w)
    <2>1. UNCHANGED Input /\ bin[w] \in Bits
      BY <1>10 DEF StoreBin, Input, IInv, MergeOK
    <2>2. bin[w] + 1 \in 0..NBits
      BY <2>1, ProgramsAssumption DEF ProgramsAssumption, Bits
    <2>3. register[w] + local[w][bin[w]] \in Nat
      BY <1>0, <2>1 DEF TypeOK, Bins
    <2>4. global' \in Bins
      BY <1>0, <1>10, <2>3 DEF StoreBin, TypeOK, Bins
    <2>5. local[w] \in Bins /\ [local[w] EXCEPT ![bin[w]] = 0] \in Bins
      BY <1>0, <2>1 DEF TypeOK, Bins
    <2>6. local' = [local EXCEPT ![w] = [local[w] EXCEPT ![bin[w]] = 0]]
      BY <1>10 DEF StoreBin, Merged
    <2>7. local' \in [Workers -> Bins]
      BY <1>0, <2>5, <2>6 DEF TypeOK
    <2> QED BY <1>0, <1>10, <2>1, <2>2, <2>4, <2>7 DEF StoreBin, TypeOK
  <1>11. CASE Draw(w)
    <2>1. UNCHANGED Input
      BY <1>11 DEF Draw, Input
    <2> QED BY <1>0, <1>11, <2>1 DEF Draw, TypeOK
  <1>12. CASE PrintLine(w)
    <2>1. UNCHANGED Input /\ held[w] # NoJob
      BY <1>0, <1>12 DEF PrintLine, Input, WorkerOK
    <2>2. held[w] \in Jobs /\ (IF program = "fibs" THEN register[w] ELSE seen[w]) \in Nat
      BY <1>0, <2>1, JobIs DEF TypeOK
    <2>3. printed' \in Seq(Jobs \X Nat)
      BY <1>0, <1>12, <2>2 DEF PrintLine, TypeOK
    <2> QED BY <1>0, <1>12, <2>1, <2>3 DEF PrintLine, TypeOK
  <1>13. CASE Unlock(w)
    <2>1. UNCHANGED Input
      BY <1>13 DEF Unlock, Input
    <2> QED BY <1>0, <1>13, <2>1 DEF Unlock, Released, TypeOK
  <1>14. CASE FreePath(w)
    <2>1. UNCHANGED Input
      BY <1>14 DEF FreePath, Input
    <2> QED BY <1>0, <1>14, <2>1 DEF FreePath, Queue!Finish, TypeOK
  <1> QED BY <1>1, <1>2, <1>3, <1>4, <1>5, <1>6, <1>7, <1>8, <1>9, <1>10, <1>11, <1>12, <1>13, <1>14 DEF Step

LEMMA TypeNext == IInv /\ [Next]_vars => TypeOK'
  <1> SUFFICES ASSUME IInv, [Next]_vars PROVE TypeOK'
    OBVIOUS
  <1>1. CASE UNCHANGED vars
    BY <1>1 DEF vars, IInv, TypeOK, Input
  <1> QED BY <1>1, TypeMain, TypeStep DEF Next

-----------------------------------------------------------------------------
(* The workers and main *)

\* A step of worker w changes what is its own, and the rest it shares.
LEMMA OnlyItsOwn ==
  ASSUME TypeOK, NEW w \in Workers, Step(w)
  PROVE  /\ UNCHANGED <<program, option, threads, next, mainAt, closed>>
         /\ \A v \in Workers \ {w} :
              /\ at'[v] = at[v] /\ held'[v] = held[v] /\ seen'[v] = seen[v] /\ eof'[v] = eof[v]
              /\ local'[v] = local[v] /\ bin'[v] = bin[v] /\ register'[v] = register[v]
              /\ v \in ended' <=> v \in ended
  <1> USE DEF args, queueVars, mainVars, workerVars, sharedVars, Goto, TypeOK,
              Queue!Get, Queue!End, Queue!Finish
  <1>1. CASE Pop(w)
    BY <1>1 DEF Pop
  <1>2. CASE PopFails(w)
    BY <1>2 DEF PopFails
  <1>3. CASE Open(w)
    BY <1>3 DEF Open
  <1>4. CASE ReadByte(w)
    BY <1>4 DEF ReadByte
  <1>5. CASE ReadLine(w)
    BY <1>5 DEF ReadLine
  <1>6. CASE EndOfFile(w)
    BY <1>6 DEF EndOfFile
  <1>7. CASE Compute(w)
    BY <1>7 DEF Compute
  <1>8. CASE Lock(w)
    BY <1>8 DEF Lock
  <1>9. CASE LoadBin(w)
    BY <1>9 DEF LoadBin
  <1>10. CASE StoreBin(w)
    BY <1>10 DEF StoreBin
  <1>11. CASE Draw(w)
    BY <1>11 DEF Draw
  <1>12. CASE PrintLine(w)
    BY <1>12 DEF PrintLine
  <1>13. CASE Unlock(w)
    BY <1>13 DEF Unlock
  <1>14. CASE FreePath(w)
    BY <1>14 DEF FreePath
  <1> QED BY <1>1, <1>2, <1>3, <1>4, <1>5, <1>6, <1>7, <1>8, <1>9, <1>10, <1>11, <1>12, <1>13, <1>14 DEF Step

LEMMA IsJobStays == ASSUME UNCHANGED program, NEW j PROVE IsJob(j)' <=> IsJob(j)
  BY DEF IsJob

\* Who owns the lock is inside; only Lock and Unlock change it.
LEMMA OwnerSteps ==
  ASSUME IInv, NEW w \in Workers, Step(w)
  PROVE  /\ owner' = w <=> at'[w] \in Inside
         /\ \A v \in Workers \ {w} : owner' = v <=> owner = v
  <1> USE DEF Inside, Goto, sharedVars
  <1>0. TypeOK /\ WorkerOK(w) /\ program \in Programs
    BY DEF IInv, TypeOK
  <1>a. at \in [Workers -> Places] /\ None \notin Workers /\ (owner = w <=> at[w] \in Inside)
    BY <1>0, Given DEF TypeOK, WorkerOK, Places
  <1>1. CASE Pop(w)
    BY <1>a, <1>1 DEF Pop
  <1>2. CASE PopFails(w)
    BY <1>a, <1>2 DEF PopFails, workerVars
  <1>3. CASE Open(w)
    BY <1>a, <1>3 DEF Open
  <1>4. CASE ReadByte(w)
    BY <1>a, <1>4 DEF ReadByte
  <1>5. CASE ReadLine(w)
    BY <1>a, <1>5 DEF ReadLine
  <1>6. CASE EndOfFile(w)
    BY <1>a, <1>6 DEF EndOfFile, AtEnd
  <1>7. CASE Compute(w)
    BY <1>a, <1>7 DEF Compute
  <1>8. CASE Lock(w)
    BY <1>a, <1>8 DEF Lock, LockIsFree
  <1>9. CASE LoadBin(w)
    BY <1>a, <1>9 DEF LoadBin
  <1>10. CASE StoreBin(w)
    BY <1>a, <1>10 DEF StoreBin
  <1>11. CASE Draw(w)
    BY <1>a, <1>11 DEF Draw
  <1>12. CASE PrintLine(w)
    BY <1>a, <1>12 DEF PrintLine
  <1>13. CASE Unlock(w)
    BY <1>a, <1>13 DEF Unlock, Released
  <1>14. CASE FreePath(w)
    BY <1>a, <1>14 DEF FreePath
  <1> QED BY <1>1, <1>2, <1>3, <1>4, <1>5, <1>6, <1>7, <1>8, <1>9, <1>10, <1>11, <1>12, <1>13, <1>14 DEF Step

LEMMA WorkersMain == ASSUME IInv, Main, NEW v \in Workers PROVE WorkerOK(v)'
  <1>0. WorkerOK(v) /\ TypeOK /\ MainOK
    BY DEF IInv
  <1>1. UNCHANGED <<program, held, at, owner, ended>>
    BY MainSteps DEF workerVars, sharedVars, args, queueVars
  <1>2. next \in Nat /\ (next' = next \/ next' = next + 1)
    <2>1. next \in Nat
      BY <1>0 DEF TypeOK
    <2> QED BY <2>1, MainSteps
  <1>3. at[v] # "pop" => v \in threads'
    BY <1>0, MainSteps DEF WorkerOK, MainOK
  <1>4. held[v] # NoJob => held[v] \in 1..(next' - 1)
    BY <1>0, <1>2 DEF WorkerOK
  <1>5. held[v] # NoJob => IsJob(held[v])'
    BY <1>0, <1>1, IsJobStays DEF WorkerOK, IsJob
  <1> QED BY <1>0, <1>1, <1>3, <1>4, <1>5 DEF WorkerOK

LEMMA WorkersStep == ASSUME IInv, NEW w \in Workers, Step(w), NEW v \in Workers PROVE WorkerOK(v)'
  <1> USE DEF Goto, sharedVars, workerVars, queueVars
  <1>0. TypeOK /\ WorkerOK(w) /\ WorkerOK(v) /\ program \in Programs /\ NoJob \notin Jobs /\ JobsOK /\ MainOK
    BY Given DEF IInv, TypeOK
  <1>1. UNCHANGED <<program, threads, next>>
    BY <1>0, OnlyItsOwn
  <1>2. CASE v # w
    <2>1. /\ at'[v] = at[v] /\ held'[v] = held[v] /\ (v \in ended' <=> v \in ended)
          /\ owner' = v <=> owner = v
      BY <1>0, <1>2, OnlyItsOwn, OwnerSteps
    <2>2. held[v] # NoJob => (IsJob(held[v])' <=> IsJob(held[v]))
      BY <1>1, <2>1 DEF IsJob
    <2> QED BY <1>0, <1>1, <2>1, <2>2 DEF WorkerOK, IsJob
  <1>3. CASE v = w
    <2>0. owner' = w <=> at'[w] \in Inside
      BY OwnerSteps
    <2>a. /\ at \in [Workers -> Places] /\ held \in [Workers -> Jobs \cup {NoJob}]
          /\ at[w] # "pop" => w \in threads /\ w \notin ended
          /\ at[w] = "pop" <=> held[w] = NoJob
          /\ held[w] # NoJob => held[w] \in 1..(next - 1) /\ IsJob(held[w])
          /\ program = "fibs"       => at[w] \in {"pop", "compute", "lock", "print", "unlock", "free"}
          /\ program = "fauxgrep"   => at[w] \in {"pop", "open", "read", "lock", "print", "unlock", "free"}
          /\ program = "fhistogram" => at[w] \in {"pop", "open", "read", "lock", "load", "store", "draw", "unlock", "free"}
      BY <1>0 DEF WorkerOK, TypeOK, Places
    <2>b. program = "fibs" \/ program = "fauxgrep" \/ program = "fhistogram"
      BY <1>0 DEF Programs
    <2>1. CASE Pop(w)
      <3>1. /\ fifo # << >> /\ held' = [held EXCEPT ![w] = Head(fifo)] /\ w \in threads /\ w \notin ended /\ ended' = ended
            /\ at' = [at EXCEPT ![w] = IF program = "fibs" THEN "compute" ELSE "open"]
        BY <2>1 DEF Pop, Queue!Get
      <3>2. Head(fifo) = fifo[1] /\ 1 \in DOMAIN fifo /\ Head(fifo) \in Jobs
        BY <1>0, <3>1, Popped DEF TypeOK
      <3>3. Head(fifo) \in 1..(next - 1) /\ IsJob(Head(fifo))
        BY <1>0, <3>2 DEF JobsOK
      <3>4. held'[w] = Head(fifo) /\ at'[w] = IF program = "fibs" THEN "compute" ELSE "open"
        BY <2>a, <3>1
      <3>5. IsJob(held[w])'
        BY <1>1, <3>3, <3>4 DEF IsJob
      <3>6. held'[w] # NoJob
        BY <1>0, <3>2, <3>4
      <3> QED BY <1>1, <1>3, <2>0, <2>b, <3>1, <3>3, <3>4, <3>5, <3>6 DEF WorkerOK
    <2>2. CASE PopFails(w)
      BY <1>1, <1>3, <2>0, <2>2, <2>a DEF WorkerOK, PopFails, Queue!End, IsJob
    <2>3. CASE FreePath(w)
      <3>1. held'[w] = NoJob /\ at'[w] = "pop" /\ ended' = ended
        BY <2>3, <2>a DEF FreePath, Queue!Finish
      <3> QED BY <1>1, <1>3, <2>0, <2>b, <3>1 DEF WorkerOK
    <2>4. CASE ~(Pop(w) \/ PopFails(w) \/ FreePath(w))
      <3>1. UNCHANGED <<held, ended>> /\ at[w] # "pop" /\ at'[w] # "pop"
        BY <2>4, <2>a DEF Step, Open, ReadByte, ReadLine, EndOfFile, AtEnd, Compute, Lock, LoadBin, StoreBin,
                          Draw, PrintLine, Unlock
      <3>2. /\ program = "fibs"       => at'[w] \in {"pop", "compute", "lock", "print", "unlock", "free"}
            /\ program = "fauxgrep"   => at'[w] \in {"pop", "open", "read", "lock", "print", "unlock", "free"}
            /\ program = "fhistogram" => at'[w] \in {"pop", "open", "read", "lock", "load", "store", "draw", "unlock", "free"}
        <4> USE <2>a, <2>b
        <4>1. CASE Open(w)
          BY <4>1 DEF Open
        <4>2. CASE ReadByte(w)
          BY <4>2 DEF ReadByte
        <4>3. CASE ReadLine(w)
          BY <4>3 DEF ReadLine
        <4>4. CASE EndOfFile(w)
          BY <4>4 DEF EndOfFile, AtEnd
        <4>5. CASE Compute(w)
          BY <4>5 DEF Compute
        <4>6. CASE Lock(w)
          BY <4>6 DEF Lock
        <4>7. CASE LoadBin(w)
          BY <4>7 DEF LoadBin
        <4>8. CASE StoreBin(w)
          BY <4>8 DEF StoreBin
        <4>9. CASE Draw(w)
          BY <4>9 DEF Draw
        <4>10. CASE PrintLine(w)
          BY <4>10 DEF PrintLine
        <4>11. CASE Unlock(w)
          <5>1. program = "fibs" => eof[w]
            BY <4>11 DEF Unlock, IInv, ReadOK
          <5> QED BY <4>11, <5>1 DEF Unlock
        <4> QED BY <2>4, <4>1, <4>2, <4>3, <4>4, <4>5, <4>6, <4>7, <4>8, <4>9, <4>10, <4>11 DEF Step
      <3>3. held[w] # NoJob => (IsJob(held[w])' <=> IsJob(held[w]))
        BY <1>1, <3>1 DEF IsJob
      <3> QED BY <1>1, <1>3, <2>0, <2>a, <3>1, <3>2, <3>3 DEF WorkerOK
    <2> QED BY <2>1, <2>2, <2>3, <2>4
  <1> QED BY <1>2, <1>3

LEMMA QueueSteps ==
  ASSUME NEW w \in Workers, Step(w)
  PROVE  \/ /\ Pop(w) /\ ~closed /\ fifo # << >> /\ held[w] = NoJob
            /\ held' = [held EXCEPT ![w] = Head(fifo)] /\ fifo' = Tail(fifo)
            /\ UNCHANGED <<ended, unreadable, printed>>
         \/ /\ PopFails(w) /\ closed /\ w \in threads /\ w \notin ended /\ ended' = ended \cup {w}
            /\ UNCHANGED <<fifo, held, unreadable, at, printed>>
         \/ /\ Open(w) /\ at[w] = "open" /\ unreadable' = unreadable \cup {held[w]} /\ Goto(w, "free")
            /\ UNCHANGED <<fifo, held, ended, printed>>
         \/ /\ FreePath(w) /\ at[w] = "free" /\ held' = [held EXCEPT ![w] = NoJob] /\ UNCHANGED <<fifo, ended, unreadable, printed>>
         \/ /\ PrintLine(w) /\ UNCHANGED <<fifo, held, ended, unreadable>>
         \/ /\ ~Pop(w) /\ ~PopFails(w) /\ ~FreePath(w) /\ ~PrintLine(w)
            /\ UNCHANGED <<fifo, held, ended, unreadable, printed>>
  <1> USE DEF queueVars, sharedVars, workerVars, Queue!Get, Queue!End, Queue!Finish
  <1>1. CASE Pop(w)
    BY <1>1 DEF Pop
  <1>2. CASE PopFails(w)
    BY <1>2 DEF PopFails
  <1>3. CASE Open(w)
    BY <1>3 DEF Open, Pop, PopFails, FreePath, PrintLine
  <1>4. CASE ReadByte(w)
    BY <1>4 DEF ReadByte, Pop, PopFails, FreePath, PrintLine
  <1>5. CASE ReadLine(w)
    BY <1>5 DEF ReadLine, Pop, PopFails, FreePath, PrintLine
  <1>6. CASE EndOfFile(w)
    BY <1>6 DEF EndOfFile, Pop, PopFails, FreePath, PrintLine
  <1>7. CASE Compute(w)
    BY <1>7 DEF Compute, Pop, PopFails, FreePath, PrintLine
  <1>8. CASE Lock(w)
    BY <1>8 DEF Lock, Pop, PopFails, FreePath, PrintLine
  <1>9. CASE LoadBin(w)
    BY <1>9 DEF LoadBin, Pop, PopFails, FreePath, PrintLine
  <1>10. CASE StoreBin(w)
    BY <1>10 DEF StoreBin, Pop, PopFails, FreePath, PrintLine
  <1>11. CASE Draw(w)
    BY <1>11 DEF Draw, Pop, PopFails, FreePath, PrintLine
  <1>12. CASE PrintLine(w)
    BY <1>12 DEF PrintLine
  <1>13. CASE Unlock(w)
    BY <1>13 DEF Unlock, Pop, PopFails, FreePath, PrintLine
  <1>14. CASE FreePath(w)
    BY <1>14 DEF FreePath
  <1> QED BY <1>1, <1>2, <1>3, <1>4, <1>5, <1>6, <1>7, <1>8, <1>9, <1>10, <1>11, <1>12, <1>13, <1>14 DEF Step

LEMMA MainNext == IInv /\ [Next]_vars => MainOK'
  <1> SUFFICES ASSUME IInv, [Next]_vars PROVE MainOK'
    OBVIOUS
  <1>0. TypeOK /\ MainOK
    BY DEF IInv
  <1>1. CASE UNCHANGED vars
    BY <1>0, <1>1 DEF vars, MainOK, Input
  <1>2. CASE Main
    <2>1. Input' = Input /\ next \in 1..(Len(Input) + 1) /\ Len(Input) \in Nat /\ ended' = ended
      <3>1. UNCHANGED program /\ ended' = ended
        BY <1>2, MainSteps DEF args, queueVars
      <3> QED BY <1>0, <3>1, Given DEF Input, TypeOK
    <2>2. next > Len(Input) => next = Len(Input) + 1
      BY <2>1
    <2> HIDE DEF Input
    <2> USE DEF queueVars
    <2>3. mainAt' \in {"start", "failed"} => next' = 1 /\ threads' = {}
      BY <1>0, <1>2, MainSteps DEF MainOK
    <2>4. closed' <=> mainAt' \in {"join", "done"}
      <3>1. \/ closed' = closed /\ (mainAt' \in {"join", "done"} <=> mainAt \in {"join", "done"})
            \/ closed' = TRUE /\ mainAt' = "join"
        BY <1>2, MainSteps
      <3>2. closed <=> mainAt \in {"join", "done"}
        BY <1>0 DEF MainOK
      <3> QED BY <3>1, <3>2
    <2>5. closed' => fifo' = << >> /\ next' = Len(Input) + 1
      BY <1>0, <1>2, <2>2, MainSteps DEF MainOK
    <2>6. mainAt' = "done" => ended' = threads'
      BY <1>0, <1>2, MainSteps DEF MainOK
    <2>7. closed' \/ ended' = {}
      BY <1>0, <1>2, <2>1, MainSteps DEF MainOK
    <2> QED BY <2>1, <2>3, <2>4, <2>5, <2>6, <2>7 DEF MainOK
  <1>3. ASSUME NEW w \in Workers, Step(w) PROVE MainOK'
    <2>1. UNCHANGED <<program, threads, next, mainAt, closed>> /\ UNCHANGED Input
      BY <1>0, <1>3, OnlyItsOwn DEF Input
    <2>2. /\ fifo' = fifo \/ ~closed
          /\ ended' = ended \/ (closed /\ ended' = ended \cup {w} /\ w \in threads /\ w \notin ended)
      BY <1>3, QueueSteps
    <2> HIDE DEF Input
    <2> QED BY <1>0, <2>1, <2>2 DEF MainOK
  <1> QED BY <1>1, <1>2, <1>3 DEF Next

LEMMA JobsNext == IInv /\ [Next]_vars => JobsOK'
  <1> SUFFICES ASSUME IInv, [Next]_vars PROVE JobsOK'
    OBVIOUS
  <1>0. /\ TypeOK /\ JobsOK /\ (\A w \in Workers : WorkerOK(w)) /\ program \in Programs /\ NoJob \notin Jobs
        /\ next \in Nat \ {0} /\ fifo \in Seq(Jobs) /\ held \in [Workers -> Jobs \cup {NoJob}]
    <2>1. program \in Programs /\ TypeOK
      BY DEF IInv, TypeOK
    <2>2. next \in 1..(Len(Input) + 1) /\ Len(Input) \in Nat
      BY <2>1, Given DEF TypeOK
    <2> QED BY <2>1, <2>2, Given DEF IInv, TypeOK
  <1>1. CASE UNCHANGED vars
    BY <1>0, <1>1 DEF vars, JobsOK, IsJob
  <1>2. CASE Main
    <2>1. UNCHANGED <<program, held, unreadable>>
      BY <1>2, MainSteps DEF args, queueVars, sharedVars
    <2>2. next' = next \/ next' = next + 1
      BY <1>2, MainSteps
    <2>3. CASE fifo' = fifo
      <3>1. unreadable \subseteq 1..(next' - 1) /\ \A i \in DOMAIN fifo : fifo[i] \in 1..(next' - 1)
        BY <1>0, <2>2 DEF JobsOK
      <3> QED BY <1>0, <2>1, <2>3, <3>1, IsJobStays DEF JobsOK
    <2>4. CASE fifo' # fifo
      <3>1. fifo' = Append(fifo, next) /\ next' = next + 1 /\ IsJob(next)
        BY <1>2, <2>4, MainSteps DEF queueVars
      <3> DEFINE n == Len(fifo)
      <3>2. /\ DOMAIN fifo' = 1..(n + 1) /\ DOMAIN fifo = 1..n /\ n \in Nat
            /\ fifo'[n + 1] = next /\ \A i \in 1..n : fifo'[i] = fifo[i]
        <4>1. next \in Jobs
          BY <1>0, <3>1, Given
        <4> QED BY <1>0, <3>1, <4>1, Pushed
      <3> HIDE DEF n
      <3>3. 1..(next' - 1) = 1..(next - 1) \cup {next} /\ next \notin 1..(next - 1)
        BY <1>0, <3>1
      <3>4. next \notin unreadable /\ \A w \in Workers : held[w] # next
        <4>1. next # NoJob
          BY <1>0, ProgramsAssumption DEF ProgramsAssumption
        <4> QED BY <1>0, <3>3, <4>1 DEF JobsOK, WorkerOK
      <3>5. \A i \in 1..n : fifo[i] \in 1..(next - 1) /\ fifo[i] # next
        BY <1>0, <3>2, <3>3 DEF JobsOK
      <3>6. \A i \in 1..(n + 1) : i = n + 1 \/ i \in 1..n
        BY <3>2
      <3>7. ASSUME NEW i \in DOMAIN fifo'
            PROVE  /\ fifo'[i] \in 1..(next' - 1) /\ IsJob(fifo[i])' /\ fifo'[i] \notin unreadable'
                   /\ \A w \in Workers : held'[w] # fifo'[i]
                   /\ \A k \in DOMAIN fifo' : fifo'[k] = fifo'[i] => k = i
        <4>1. CASE i = n + 1
          <5>1. i \in 1..(n + 1) /\ fifo'[i] = next /\ next \in 1..(next' - 1)
            BY <3>2, <3>3, <4>1
          <5>2. IsJob(fifo[i])'
            BY <2>1, <3>1, <5>1 DEF IsJob
          <5>3. \A k \in DOMAIN fifo' : fifo'[k] = next => k = n + 1
            BY <3>2, <3>5, <3>6
          <5> QED BY <2>1, <3>4, <4>1, <5>1, <5>2, <5>3
        <4>2. CASE i # n + 1
          <5>1. i \in 1..n /\ fifo'[i] = fifo[i] /\ fifo[i] # next /\ fifo[i] \in 1..(next' - 1)
            BY <3>2, <3>3, <3>5, <3>6, <4>2
          <5>2. i \in DOMAIN fifo
            BY <3>2, <5>1
          <5>3. IsJob(fifo[i]) /\ fifo[i] \notin unreadable /\ \A w \in Workers : held[w] # fifo[i]
            BY <1>0, <5>2 DEF JobsOK
          <5>4. IsJob(fifo[i])'
            BY <2>1, <5>1, <5>3 DEF IsJob
          <5>5. \A k \in DOMAIN fifo' : fifo'[k] = fifo[i] => k \in DOMAIN fifo /\ fifo[k] = fifo[i]
            BY <3>2, <3>6, <5>1
          <5>6. \A k \in DOMAIN fifo' : fifo'[k] = fifo[i] => k = i
            BY <1>0, <5>2, <5>5 DEF JobsOK
          <5> QED BY <2>1, <5>1, <5>3, <5>4, <5>6
        <4> QED BY <4>1, <4>2
      <3>8. unreadable' \subseteq 1..(next' - 1) /\ (program' = "fibs" => unreadable' = {})
        BY <1>0, <2>1, <3>3 DEF JobsOK
      <3>9. \A v, w \in Workers : held'[v] = held'[w] /\ held'[v] # NoJob => v = w
        BY <1>0, <2>1 DEF JobsOK
      <3> QED BY <3>7, <3>8, <3>9 DEF JobsOK
    <2> QED BY <2>3, <2>4
  <1>3. ASSUME NEW w \in Workers, Step(w) PROVE JobsOK'
    <2>1. UNCHANGED <<program, next>>
      BY <1>0, <1>3, OnlyItsOwn
    <2>2. CASE Pop(w)
      <3>1. /\ fifo # << >> /\ held[w] = NoJob /\ held' = [held EXCEPT ![w] = Head(fifo)] /\ fifo' = Tail(fifo)
            /\ unreadable' = unreadable
        BY <2>2 DEF Pop, Queue!Get, sharedVars
      <3> DEFINE n == Len(fifo)
      <3>2. /\ Head(fifo) = fifo[1] /\ DOMAIN fifo = 1..n /\ n \in Nat \ {0} /\ DOMAIN fifo' = 1..(n - 1)
            /\ Head(fifo) \in Jobs /\ \A i \in 1..(n - 1) : fifo'[i] = fifo[i + 1]
        BY <1>0, <3>1, Popped
      <3> HIDE DEF n
      <3>3. 1 \in DOMAIN fifo /\ \A i \in DOMAIN fifo' : i + 1 \in DOMAIN fifo /\ fifo'[i] = fifo[i + 1] /\ i + 1 # 1 /\ i \in Int
        BY <3>2
      <3>4. held'[w] = fifo[1] /\ \A v \in Workers \ {w} : held'[v] = held[v]
        BY <1>0, <3>1, <3>2
      <3>5. \A i \in DOMAIN fifo' : fifo'[i] # fifo[1] /\ \A v \in Workers : held'[v] # fifo'[i]
        BY <1>0, <3>3, <3>4 DEF JobsOK
      <3>6. ASSUME NEW i \in DOMAIN fifo', NEW k \in DOMAIN fifo', fifo'[k] = fifo'[i] PROVE k = i
        <4>1. k + 1 = i + 1 /\ i \in Int /\ k \in Int
          BY <1>0, <3>3, <3>6 DEF JobsOK
        <4> QED BY <4>1
      <3>7. ASSUME NEW u \in Workers, NEW v \in Workers, held'[u] = held'[v], held'[u] # NoJob PROVE u = v
        BY <1>0, <3>3, <3>4, <3>7 DEF JobsOK
      <3> QED BY <1>0, <2>1, <3>1, <3>3, <3>5, <3>6, <3>7 DEF JobsOK, IsJob
    <2>3. CASE FreePath(w)
      <3>1. held' = [held EXCEPT ![w] = NoJob] /\ UNCHANGED <<fifo, unreadable>>
        BY <2>3 DEF FreePath, Queue!Finish, sharedVars
      <3>2. held'[w] = NoJob /\ \A v \in Workers \ {w} : held'[v] = held[v]
        BY <1>0, <3>1
      <3>3. \A i \in DOMAIN fifo : fifo[i] # NoJob
        BY <1>0
      <3> QED BY <1>0, <2>1, <3>1, <3>2, <3>3 DEF JobsOK, IsJob
    <2>4. CASE ~Pop(w) /\ ~FreePath(w)
      <3>1. UNCHANGED <<fifo, held>> /\ (unreadable' = unreadable \/ (unreadable' = unreadable \cup {held[w]} /\ at[w] = "open"))
        BY <1>3, <2>4, QueueSteps
      <3>2. at[w] = "open" => held[w] # NoJob /\ held[w] \in 1..(next - 1) /\ program # "fibs"
        BY <1>0 DEF WorkerOK
      <3>3. at[w] = "open" => \A i \in DOMAIN fifo : fifo[i] # held[w]
        BY <1>0 DEF JobsOK
      <3> QED BY <1>0, <2>1, <3>1, <3>2, <3>3 DEF JobsOK, IsJob
    <2> QED BY <2>2, <2>3, <2>4
  <1> QED BY <1>1, <1>2, <1>3 DEF Next

\* Nobody else's file becomes unreadable.
LEMMA ReadingStays ==
  ASSUME IInv, NEW w \in Workers, Step(w), NEW v \in Workers \ {w}
  PROVE  (held[v] \in unreadable' <=> held[v] \in unreadable) /\ (Reading(v)' <=> Reading(v))
  <1>1. TypeOK /\ WorkerOK(w) /\ JobsOK /\ NoJob \notin Nat
    BY ProgramsAssumption DEF IInv, ProgramsAssumption
  <1>2. at'[v] = at[v] /\ held'[v] = held[v]
    BY <1>1, OnlyItsOwn
  <1>3. unreadable' = unreadable \/ (unreadable' = unreadable \cup {held[w]} /\ at[w] = "open")
    BY QueueSteps
  <1>4. at[w] = "open" => held[v] # held[w]
    BY <1>1 DEF WorkerOK, JobsOK
  <1>5. held[v] \in unreadable' <=> held[v] \in unreadable
    BY <1>3, <1>4
  <1> QED BY <1>2, <1>5 DEF Reading

LEMMA ReadMain == ASSUME IInv, Main, NEW v \in Workers PROVE ReadOK(v)' /\ MergeOK(v)' /\ ScreenOK'
  <1>1. UNCHANGED <<program, at, held, seen, eof, local, bin, register, global, screen, unreadable>>
    BY MainSteps DEF workerVars, sharedVars, args, queueVars
  <1> QED BY <1>1 DEF IInv, ReadOK, MergeOK, ScreenOK, Reading

LEMMA ReadStep == ASSUME IInv, NEW w \in Workers, Step(w), NEW v \in Workers PROVE ReadOK(v)'
  <1> USE DEF Goto, sharedVars, workerVars, queueVars, mainVars, args
  <1>0. /\ TypeOK /\ WorkerOK(w) /\ ReadOK(w) /\ ReadOK(v) /\ program \in Programs /\ NoJob \notin Jobs
        /\ program' = program
    BY Given, OnlyItsOwn DEF IInv, TypeOK
  <1>1. CASE v # w
    <2>1. /\ at'[v] = at[v] /\ held'[v] = held[v] /\ seen'[v] = seen[v] /\ eof'[v] = eof[v] /\ register'[v] = register[v]
          /\ held[v] \in unreadable' <=> held[v] \in unreadable
          /\ Reading(v)' <=> Reading(v)
      BY <1>0, <1>1, OnlyItsOwn, ReadingStays
    <2> QED BY <1>0, <2>1 DEF ReadOK
  <1>2. CASE v = w
    <2> SUFFICES ReadOK(w)'
      BY <1>2
    <2>a. /\ at \in [Workers -> Places] /\ held \in [Workers -> Jobs \cup {NoJob}] /\ seen \in [Workers -> Nat]
          /\ eof \in [Workers -> BOOLEAN] /\ register \in [Workers -> Nat]
          /\ program = "fibs"       => at[w] \in {"pop", "compute", "lock", "print", "unlock", "free"}
          /\ program = "fauxgrep"   => at[w] \in {"pop", "open", "read", "lock", "print", "unlock", "free"}
          /\ program = "fhistogram" => at[w] \in {"pop", "open", "read", "lock", "load", "store", "draw", "unlock", "free"}
          /\ program = "fibs" \/ program = "fauxgrep" \/ program = "fhistogram"
          /\ at[w] = "pop" <=> held[w] = NoJob
      BY <1>0 DEF WorkerOK, TypeOK, Places, Programs
    <2>b. program # "fibs" /\ held[w] # NoJob => Len(Tree[held[w]]) \in Nat
      BY JobIs
    <2>1. CASE Pop(w)
      <3>1. fifo # << >> /\ held'[w] = Head(fifo) /\ unreadable' = unreadable
            /\ at'[w] = IF program = "fibs" THEN "compute" ELSE "open"
        BY <2>1, <2>a DEF Pop, Queue!Get
      <3>2. Head(fifo) = fifo[1] /\ 1 \in DOMAIN fifo
        BY <1>0, <3>1, Popped DEF TypeOK
      <3>3. Head(fifo) \notin unreadable
        BY <3>2 DEF IInv, JobsOK
      <3> QED BY <1>0, <3>1, <3>3 DEF ReadOK, Reading
    <2>2. CASE PopFails(w)
      BY <1>0, <2>2 DEF PopFails, Queue!End, ReadOK, Reading
    <2>3. CASE Open(w)
      <3>1. UNCHANGED <<held, register>> /\ at[w] = "open" /\ seen'[w] = 0 /\ eof'[w] = FALSE /\ program # "fibs"
        BY <2>3, <2>a DEF Open
      <3>2. \/ at'[w] = "read" /\ unreadable' = unreadable
            \/ at'[w] = "free" /\ unreadable' = unreadable \cup {held[w]}
        BY <2>3, <2>a DEF Open
      <3>3. held[w] \notin unreadable /\ held[w] # NoJob
        BY <1>0, <2>a, <3>1 DEF ReadOK
      <3> QED BY <1>0, <2>b, <3>1, <3>2, <3>3 DEF ReadOK, Reading
    <2>4. CASE ReadByte(w)
      <3>1. /\ UNCHANGED <<held, register, eof, unreadable>> /\ at[w] = "read" /\ seen'[w] = seen[w] + 1
            /\ seen[w] < Len(Tree[held[w]]) /\ at'[w] \in {"lock", "read"} /\ program = "fhistogram"
        BY <2>4, <2>a DEF ReadByte
      <3>2. held[w] \notin unreadable /\ ~eof[w] /\ held[w] # NoJob
        BY <1>0, <2>a, <3>1 DEF ReadOK
      <3>3. seen'[w] <= Len(Tree[held[w]])
        BY <2>a, <2>b, <3>1, <3>2
      <3> QED BY <1>0, <3>1, <3>2, <3>3 DEF ReadOK, Reading
    <2>5. CASE ReadLine(w)
      <3>1. /\ UNCHANGED <<held, register, eof, unreadable>> /\ at[w] = "read" /\ seen'[w] = seen[w] + 1
            /\ seen[w] < Len(Tree[held[w]]) /\ program = "fauxgrep"
            /\ at'[w] = IF Needle \in Tree[held[w]][seen'[w]] THEN "lock" ELSE "read"
        BY <2>5, <2>a DEF ReadLine
      <3>2. held[w] \notin unreadable /\ ~eof[w] /\ held[w] # NoJob
        BY <1>0, <2>a, <3>1 DEF ReadOK
      <3>3. seen'[w] <= Len(Tree[held[w]]) /\ seen'[w] > 0
        BY <2>a, <2>b, <3>1, <3>2
      <3> QED BY <1>0, <3>1, <3>2, <3>3 DEF ReadOK, Reading
    <2>6. CASE EndOfFile(w)
      <3>1. /\ UNCHANGED <<held, register, seen, unreadable>> /\ at[w] = "read" /\ eof'[w] = TRUE
            /\ seen[w] = Len(Tree[held[w]]) /\ at'[w] = (IF program = "fhistogram" THEN "lock" ELSE "free") /\ program # "fibs"
        BY <2>6, <2>a DEF EndOfFile, AtEnd
      <3>2. held[w] \notin unreadable /\ held[w] # NoJob
        BY <1>0, <2>a, <3>1 DEF ReadOK
      <3> QED BY <1>0, <2>a, <2>b, <3>1, <3>2 DEF ReadOK, Reading
    <2>7. CASE Compute(w)
      <3>1. /\ UNCHANGED <<held, seen, unreadable>> /\ at[w] = "compute" /\ eof'[w] = TRUE /\ at'[w] = "lock"
            /\ register'[w] = Fib[Typed[held[w]]] /\ program = "fibs"
        BY <2>7, <2>a DEF Compute
      <3>2. held[w] \notin unreadable
        BY <1>0, <3>1 DEF ReadOK
      <3> QED BY <1>0, <3>1, <3>2 DEF ReadOK, Reading
    <2>8. CASE Lock(w)
      <3>1. /\ UNCHANGED <<held, seen, eof, register, unreadable>> /\ at[w] = "lock"
            /\ at'[w] = IF program = "fhistogram" THEN "load" ELSE "print"
        BY <2>8, <2>a DEF Lock
      <3> QED BY <1>0, <2>a, <3>1 DEF ReadOK, Reading
    <2>9. CASE LoadBin(w) \/ StoreBin(w)
      <3>1. /\ UNCHANGED <<held, seen, eof, unreadable>> /\ at[w] \in {"load", "store"} /\ at'[w] \in {"load", "store", "draw"}
            /\ program = "fhistogram"
        BY <2>9, <2>a DEF LoadBin, StoreBin
      <3> QED BY <1>0, <2>a, <3>1 DEF ReadOK, Reading
    <2>10. CASE Draw(w)
      <3>1. UNCHANGED <<held, seen, eof, register, unreadable>> /\ at[w] = "draw" /\ at'[w] = "unlock" /\ program = "fhistogram"
        BY <2>10, <2>a DEF Draw
      <3> QED BY <1>0, <2>a, <3>1 DEF ReadOK, Reading
    <2>11. CASE PrintLine(w)
      <3>1. UNCHANGED <<held, seen, eof, register, unreadable>> /\ at[w] = "print" /\ at'[w] = "unlock"
        BY <2>11, <2>a DEF PrintLine
      <3> QED BY <1>0, <2>a, <3>1 DEF ReadOK, Reading
    <2>12. CASE Unlock(w)
      <3>1. /\ UNCHANGED <<held, seen, eof, register, unreadable>> /\ at[w] = "unlock"
            /\ at'[w] = IF eof[w] THEN "free" ELSE "read"
        BY <2>12, <2>a DEF Unlock
      <3> QED BY <1>0, <2>a, <3>1 DEF ReadOK, Reading
    <2>13. CASE FreePath(w)
      <3>1. held'[w] = NoJob /\ at'[w] = "pop" /\ unreadable' = unreadable /\ eof' = eof
        BY <2>13, <2>a DEF FreePath, Queue!Finish
      <3>2. NoJob \notin unreadable
        BY <1>0, Given DEF TypeOK
      <3> QED BY <1>0, <3>1, <3>2 DEF ReadOK, Reading
    <2> QED BY <2>1, <2>2, <2>3, <2>4, <2>5, <2>6, <2>7, <2>8, <2>9, <2>10, <2>11, <2>12, <2>13 DEF Step
  <1> QED BY <1>1, <1>2

LEMMA BinsAre ==
  ASSUME TypeOK, NEW w \in Workers
  PROVE  /\ global \in [Bits -> Nat] /\ screen \in [Bits -> Nat] /\ local[w] \in [Bits -> Nat]
         /\ Bits = 0..(NBits - 1) /\ NBits \in Nat \ {0} /\ Empty \in [Bits -> Nat] /\ \A b \in Bits : Empty[b] = 0
  BY ProgramsAssumption DEF TypeOK, Bins, ProgramsAssumption, Bits, Empty

\* What storing a bin does to the two histograms.
LEMMA Stored ==
  ASSUME IInv, NEW w \in Workers, StoreBin(w)
  PROVE  /\ bin[w] \in Bits /\ bin'[w] = bin[w] + 1 /\ at[w] = "store"
         /\ at'[w] = IF bin[w] + 1 \in Bits THEN "load" ELSE "draw"
         /\ global' \in [Bits -> Nat] /\ global'[bin[w]] = global[bin[w]] + local[w][bin[w]]
         /\ local'[w] \in [Bits -> Nat] /\ local'[w][bin[w]] = 0
         /\ \A b \in Bits \ {bin[w]} : global'[b] = global[b] /\ local'[w][b] = local[w][b]
         /\ UNCHANGED <<program, register, screen>>
  <1> DEFINE i == bin[w]
  <1>1. TypeOK /\ MergeOK(w)
    BY DEF IInv
  <1>2. at[w] = "store" /\ i \in Bits /\ register[w] = global[i]
    BY <1>1 DEF StoreBin, MergeOK
  <1>3. /\ global \in [Bits -> Nat] /\ local[w] \in [Bits -> Nat] /\ local \in [Workers -> Bins]
        /\ bin \in [Workers -> 0..NBits] /\ at \in [Workers -> Places]
    BY <1>1, BinsAre DEF TypeOK, Places
  <1>4. global' = [global EXCEPT ![i] = global[i] + local[w][i]]
    BY <1>2 DEF StoreBin
  <1>5. local' = [local EXCEPT ![w] = [local[w] EXCEPT ![i] = 0]]
    BY DEF StoreBin, Merged
  <1>6. bin'[w] = i + 1 /\ at'[w] = (IF i + 1 \in Bits THEN "load" ELSE "draw") /\ UNCHANGED <<program, register, screen>>
    BY <1>3 DEF StoreBin, Goto, mainVars, args
  <1>7. local'[w] = [local[w] EXCEPT ![i] = 0]
    BY <1>3, <1>5
  <1> HIDE DEF i
  <1>8. /\ global' \in [Bits -> Nat] /\ global'[i] = global[i] + local[w][i]
        /\ \A b \in Bits \ {i} : global'[b] = global[b]
    BY <1>2, <1>3, <1>4
  <1>9. local'[w] \in [Bits -> Nat] /\ local'[w][i] = 0 /\ \A b \in Bits \ {i} : local'[w][b] = local[w][b]
    BY <1>2, <1>3, <1>7
  <1> QED BY <1>2, <1>6, <1>8, <1>9 DEF i

\* No step but StoreBin changes the global histogram, and no step but Draw the screen.
LEMMA SharedStep ==
  ASSUME NEW w \in Workers, Step(w)
  PROVE  (~StoreBin(w) => global' = global) /\ (~Draw(w) => screen' = screen)
  BY DEF Step, sharedVars, Pop, PopFails, Open, ReadByte, ReadLine, EndOfFile, Compute, Lock, LoadBin, StoreBin,
         Draw, PrintLine, Unlock, FreePath

LEMMA MergeStep == ASSUME IInv, NEW w \in Workers, Step(w), NEW v \in Workers PROVE MergeOK(v)'
  <1> USE DEF Goto, sharedVars, workerVars, queueVars, mainVars, args
  <1>0. /\ TypeOK /\ WorkerOK(w) /\ WorkerOK(v) /\ MergeOK(w) /\ MergeOK(v) /\ program \in Programs /\ program' = program
    BY OnlyItsOwn DEF IInv, TypeOK
  <1>1. CASE v # w
    <2>1. at'[v] = at[v] /\ local'[v] = local[v] /\ bin'[v] = bin[v] /\ register'[v] = register[v]
      BY <1>0, <1>1, OnlyItsOwn
    <2>2. StoreBin(w) => at[v] # "store"
      BY <1>0, <1>1 DEF StoreBin, WorkerOK, Inside
    <2>3. at[v] = "store" => global' = global
      BY <2>2, SharedStep
    <2> QED BY <1>0, <2>1, <2>3 DEF MergeOK
  <1>2. CASE v = w
    <2> SUFFICES MergeOK(w)'
      BY <1>2
    <2>a. /\ at \in [Workers -> Places] /\ local \in [Workers -> Bins] /\ bin \in [Workers -> 0..NBits]
          /\ register \in [Workers -> Nat]
          /\ program = "fibs"       => at[w] \in {"pop", "compute", "lock", "print", "unlock", "free"}
          /\ program = "fauxgrep"   => at[w] \in {"pop", "open", "read", "lock", "print", "unlock", "free"}
          /\ program = "fhistogram" => at[w] \in {"pop", "open", "read", "lock", "load", "store", "draw", "unlock", "free"}
          /\ program = "fibs" \/ program = "fauxgrep" \/ program = "fhistogram"
      BY <1>0 DEF WorkerOK, TypeOK, Places, Programs
    <2>b. program # "fhistogram" \/ at[w] \in {"pop", "open", "draw", "unlock", "free"} => local[w] = Empty
      BY <1>0 DEF MergeOK
    <2>1. CASE Pop(w)
      <3>1. at[w] = "pop" /\ at'[w] \in {"open", "compute"} /\ local' = local
        BY <2>1, <2>a DEF Pop
      <3> QED BY <1>0, <2>b, <3>1 DEF MergeOK
    <2>2. CASE PopFails(w)
      BY <1>0, <2>2 DEF PopFails, MergeOK
    <2>3. CASE Open(w)
      <3>1. local'[w] = Empty /\ at'[w] \in {"read", "free"}
        BY <2>3, <2>a DEF Open
      <3> QED BY <3>1 DEF MergeOK
    <2>4. CASE ReadByte(w)
      <3>1. program = "fhistogram" /\ at'[w] \in {"read", "lock"}
        BY <2>4, <2>a DEF ReadByte
      <3> QED BY <1>0, <3>1 DEF MergeOK
    <2>5. CASE ReadLine(w)
      <3>1. program = "fauxgrep" /\ at'[w] \in {"read", "lock"} /\ local' = local
        BY <2>5, <2>a DEF ReadLine
      <3> QED BY <1>0, <2>b, <3>1 DEF MergeOK
    <2>6. CASE EndOfFile(w)
      <3>1. local' = local /\ at'[w] = IF program = "fhistogram" THEN "lock" ELSE "free"
        BY <2>6, <2>a DEF EndOfFile, AtEnd
      <3> QED BY <1>0, <2>b, <3>1 DEF MergeOK
    <2>7. CASE Compute(w)
      <3>1. local' = local /\ at[w] = "compute" /\ at'[w] = "lock"
        BY <2>7, <2>a DEF Compute
      <3> QED BY <1>0, <2>a, <2>b, <3>1 DEF MergeOK
    <2>8. CASE Lock(w)
      <3>1. local' = local /\ bin'[w] = 0 /\ at'[w] = IF program = "fhistogram" THEN "load" ELSE "print"
        BY <2>8, <2>a DEF Lock
      <3>2. 0 \in Bits /\ \A b \in Bits : ~(b < 0)
        BY <1>0, BinsAre
      <3> QED BY <1>0, <2>b, <3>1, <3>2 DEF MergeOK
    <2>9. CASE LoadBin(w)
      <3>1. /\ UNCHANGED <<local, bin, global>> /\ register'[w] = global[bin[w]] /\ at[w] = "load" /\ at'[w] = "store"
        BY <2>9, <2>a DEF LoadBin
      <3> QED BY <1>0, <2>a, <3>1 DEF MergeOK
    <2>10. CASE StoreBin(w)
      <3> DEFINE i == bin[w]
      <3>1. /\ i \in Bits /\ bin'[w] = i + 1 /\ at[w] = "store"
            /\ at'[w] = (IF i + 1 \in Bits THEN "load" ELSE "draw")
            /\ local'[w] \in [Bits -> Nat] /\ local'[w][i] = 0 /\ \A b \in Bits \ {i} : local'[w][b] = local[w][b]
        BY <2>10, Stored
      <3>2. \A b \in Bits : b < i => local[w][b] = 0
        BY <1>0, <3>1 DEF MergeOK
      <3>3. program = "fhistogram"
        BY <2>a, <3>1
      <3> HIDE DEF i
      <3>4. \A b \in Bits : b < i + 1 => b < i \/ b = i
        BY <1>0, <3>1, BinsAre
      <3>5. \A b \in Bits : b < i + 1 => local'[w][b] = 0
        BY <3>1, <3>2, <3>4, <1>0, BinsAre
      <3>6. i + 1 \notin Bits => \A b \in Bits : b < i + 1
        BY <1>0, <3>1, BinsAre
      <3>7. i + 1 \notin Bits => local'[w] = Empty
        BY <1>0, <3>1, <3>5, <3>6, BinsAre
      <3> QED BY <1>0, <3>1, <3>3, <3>5, <3>7 DEF MergeOK
    <2>11. CASE Draw(w)
      <3>1. local' = local /\ at[w] = "draw" /\ at'[w] = "unlock"
        BY <2>11, <2>a DEF Draw
      <3> QED BY <1>0, <2>b, <3>1 DEF MergeOK
    <2>12. CASE PrintLine(w)
      <3>1. local' = local /\ at[w] = "print" /\ at'[w] = "unlock"
        BY <2>12, <2>a DEF PrintLine
      <3> QED BY <1>0, <2>a, <2>b, <3>1 DEF MergeOK
    <2>13. CASE Unlock(w)
      <3>1. local' = local /\ at[w] = "unlock" /\ at'[w] \in {"free", "read"}
        BY <2>13, <2>a DEF Unlock
      <3> QED BY <1>0, <2>b, <3>1 DEF MergeOK
    <2>14. CASE FreePath(w)
      <3>1. local' = local /\ at[w] = "free" /\ at'[w] = "pop"
        BY <2>14, <2>a DEF FreePath
      <3> QED BY <1>0, <2>b, <3>1 DEF MergeOK
    <2> QED BY <2>1, <2>2, <2>3, <2>4, <2>5, <2>6, <2>7, <2>8, <2>9, <2>10, <2>11, <2>12, <2>13, <2>14 DEF Step
  <1> QED BY <1>1, <1>2

\* Between two drawings only merging changes the global histogram, upwards.
LEMMA ScreenStep ==
  ASSUME IInv, NEW w \in Workers, Step(w)
  PROVE  ScreenOK' /\ \A b \in Bits : screen'[b] >= screen[b]
  <1> USE DEF Goto, sharedVars, workerVars, queueVars, mainVars, args
  <1>0. TypeOK /\ WorkerOK(w) /\ ScreenOK /\ MergeOK(w) /\ program \in Programs /\ program' = program /\ at \in [Workers -> Places]
    BY OnlyItsOwn DEF IInv, TypeOK, Places
  <1>a. \A b \in Bits : screen[b] \in Nat /\ global[b] \in Nat /\ screen[b] <= global[b]
    BY <1>0, BinsAre DEF ScreenOK
  <1>1. CASE StoreBin(w)
    <2>1. /\ at'[w] \in {"load", "draw"} /\ program = "fhistogram" /\ screen' = screen
          /\ \A b \in Bits : global'[b] = global[b] \/ global'[b] = global[b] + local[w][b]
      BY <1>0, <1>1, Stored DEF WorkerOK, Programs
    <2>2. \A b \in Bits : local[w][b] \in Nat
      BY <1>0, BinsAre
    <2>3. \A b \in Bits : screen[b] <= global'[b] /\ screen[b] >= screen[b]
      BY <1>a, <2>1, <2>2
    <2> QED BY <1>0, <2>1, <2>3 DEF ScreenOK
  <1>2. CASE Draw(w)
    <2>1. screen' = global /\ global' = global /\ program = "fhistogram"
      BY <1>0, <1>2 DEF Draw, WorkerOK, Programs
    <2>2. \A b \in Bits : global[b] <= global[b] /\ global[b] >= screen[b]
      BY <1>a
    <2> QED BY <1>0, <2>1, <2>2 DEF ScreenOK
  <1>3. CASE ~StoreBin(w) /\ ~Draw(w)
    <2>1. global' = global /\ screen' = screen
      BY <1>3, SharedStep
    <2>2. ASSUME NEW u \in Workers, at[u] \in {"load", "store", "draw"} PROVE at'[u] \in {"load", "store", "draw"}
      <3>1. CASE u # w
        BY <1>0, <2>2, <3>1, OnlyItsOwn
      <3>2. CASE u = w
        BY <1>0, <1>3, <2>2, <3>2 DEF Step, Pop, PopFails, Open, ReadByte, ReadLine, EndOfFile, Compute, Lock, LoadBin,
           PrintLine, Unlock, FreePath
      <3> QED BY <3>1, <3>2
    <2>3. \A b \in Bits : screen[b] >= screen[b]
      BY <1>a
    <2> QED BY <1>0, <2>1, <2>2, <2>3 DEF ScreenOK
  <1> QED BY <1>1, <1>2, <1>3

-----------------------------------------------------------------------------
(* The bits *)

LEMMA FinishedMain == ASSUME IInv, Main PROVE Finished' = Finished
  <1>0. /\ TypeOK /\ JobsOK /\ program \in Programs /\ fifo \in Seq(Jobs) /\ Len(Input) \in Nat
        /\ next \in Nat \ {0}
    <2>1. TypeOK /\ JobsOK /\ program \in Programs /\ fifo \in Seq(Jobs) /\ next \in 1..(Len(Input) + 1)
      BY DEF IInv, TypeOK
    <2> QED BY <2>1, Given
  <1>1. UNCHANGED <<program, held>>
    BY MainSteps DEF args, queueVars
  <1>2. CASE fifo' = fifo /\ next' = next
    BY <1>1, <1>2 DEF Finished
  <1>3. CASE fifo' = Append(fifo, next) /\ next' = next + 1
    <2>1. next \in Jobs /\ IsJob(next)
      <3>1. IsJob(next)
        <4>1. fifo' # fifo
          <5>1. Len(Append(fifo, next)) # Len(fifo)
            BY <1>0
          <5> QED BY <1>3, <5>1
        <4> QED BY <4>1, MainSteps DEF queueVars
      <3> QED BY <1>0, <3>1, Given
    <2> DEFINE n == Len(fifo)
    <2>2. /\ DOMAIN fifo' = 1..(n + 1) /\ DOMAIN fifo = 1..n /\ n \in Nat
          /\ fifo'[n + 1] = next /\ \A i \in 1..n : fifo'[i] = fifo[i]
      BY <1>0, <1>3, <2>1, Pushed
    <2> HIDE DEF n
    <2>3. 1..(next' - 1) = 1..(next - 1) \cup {next} /\ next \notin 1..(next - 1) /\ n + 1 \in 1..(n + 1) /\ 1..n \subseteq 1..(n + 1)
      BY <1>0, <1>3, <2>2
    <2>4. \A i \in 1..(n + 1) : i = n + 1 \/ i \in 1..n
      BY <2>2
    <2>5. ASSUME NEW f \in 1..(next - 1)
          PROVE  (\A i \in DOMAIN fifo' : fifo'[i] # f) <=> (\A i \in DOMAIN fifo : fifo[i] # f)
      BY <2>2, <2>3, <2>4
    <2>6. next \notin Finished'
      BY <2>2, <2>3 DEF Finished
    <2> QED BY <1>1, <2>3, <2>5, <2>6 DEF Finished
  <1>4. CASE fifo' = fifo /\ next' = next + 1 /\ ~IsJob(next)
    <2>1. program # "fibs" /\ next \notin Files
      <3>1. next' # next
        BY <1>0, <1>4
      <3>2. Append(fifo, next) # fifo
        <4>1. Len(Append(fifo, next)) # Len(fifo)
          BY <1>0
        <4> QED BY <4>1
      <3>3. program # "fibs"
        BY <1>4, <3>1, <3>2, MainSteps
      <3> QED BY <1>4, <3>3 DEF IsJob
    <2>2. 1..(next' - 1) = 1..(next - 1) \cup {next}
      BY <1>0, <1>4
    <2> QED BY <1>1, <1>4, <2>1, <2>2 DEF Finished
  <1> QED BY <1>2, <1>3, <1>4, MainSteps DEF queueVars

\* A job is finished when its worker frees its path.
LEMMA FinishedStep ==
  ASSUME IInv, NEW w \in Workers, Step(w)
  PROVE  /\ ~FreePath(w) => Finished' = Finished
         /\ FreePath(w) => Finished' = Finished \cup {held[w]}
         /\ held[w] \notin Finished
  <1>0. /\ TypeOK /\ JobsOK /\ WorkerOK(w) /\ fifo \in Seq(Jobs) /\ held \in [Workers -> Jobs \cup {NoJob}]
        /\ UNCHANGED <<program, next>> /\ program \in Programs
    BY OnlyItsOwn DEF IInv, TypeOK
  <1>1. held[w] \notin Finished
    BY DEF Finished
  <1>2. CASE Pop(w)
    <2>1. /\ fifo # << >> /\ held[w] = NoJob /\ held' = [held EXCEPT ![w] = Head(fifo)] /\ fifo' = Tail(fifo)
          /\ at[w] = "pop"
      BY <1>2 DEF Pop, Queue!Get
    <2> DEFINE n == Len(fifo)
    <2>2. /\ Head(fifo) = fifo[1] /\ DOMAIN fifo = 1..n /\ n \in Nat \ {0} /\ DOMAIN fifo' = 1..(n - 1)
          /\ \A i \in 1..(n - 1) : fifo'[i] = fifo[i + 1]
      BY <1>0, <2>1, Popped
    <2> HIDE DEF n
    <2>3. /\ 1 \in DOMAIN fifo /\ (\A i \in DOMAIN fifo' : i + 1 \in DOMAIN fifo /\ fifo'[i] = fifo[i + 1])
          /\ \A i \in DOMAIN fifo : i = 1 \/ (i - 1 \in DOMAIN fifo' /\ fifo'[i - 1] = fifo[i])
      BY <2>2
    <2>4. held'[w] = fifo[1] /\ \A v \in Workers \ {w} : held'[v] = held[v]
      BY <1>0, <2>1, <2>2
    <2>5. ASSUME NEW f \in 1..(next - 1), f # NoJob
          PROVE  ((\A i \in DOMAIN fifo' : fifo'[i] # f) /\ (\A v \in Workers : held'[v] # f))
                 <=> ((\A i \in DOMAIN fifo : fifo[i] # f) /\ (\A v \in Workers : held[v] # f))
      BY <2>1, <2>3, <2>4, <2>5
    <2>6. \A f \in 1..(next - 1) : f # NoJob
      <3>1. next \in Int
        BY <1>0, Given DEF TypeOK
      <3> QED BY <3>1, ProgramsAssumption DEF ProgramsAssumption
    <2>7. Finished' = Finished
      BY <1>0, <2>5, <2>6 DEF Finished
    <2> QED BY <1>1, <2>1, <2>7 DEF FreePath
  <1>3. CASE FreePath(w)
    <2>1. held' = [held EXCEPT ![w] = NoJob] /\ fifo' = fifo /\ held[w] # NoJob
      BY <1>3 DEF FreePath, Queue!Finish
    <2>2. held'[w] = NoJob /\ \A v \in Workers \ {w} : held'[v] = held[v] /\ held[v] # held[w]
      BY <1>0, <2>1 DEF JobsOK
    <2>3. held[w] \in 1..(next - 1) /\ (program = "fibs" \/ held[w] \in Files) /\ \A i \in DOMAIN fifo : fifo[i] # held[w]
      BY <1>0, <2>1 DEF WorkerOK, IsJob, JobsOK
    <2>4. NoJob \notin 1..(next - 1)
      <3>1. next \in Int
        BY <1>0, Given DEF TypeOK
      <3> QED BY <3>1, ProgramsAssumption DEF ProgramsAssumption
    <2>5. held[w] \in Finished'
      BY <1>0, <2>1, <2>2, <2>3, <2>4 DEF Finished
    <2>6. ASSUME NEW f \in 1..(next - 1), f # held[w]
          PROVE  (\A v \in Workers : held'[v] # f) <=> (\A v \in Workers : held[v] # f)
      BY <2>2, <2>4, <2>6
    <2>7. Finished' = Finished \cup {held[w]}
      BY <1>0, <2>1, <2>3, <2>5, <2>6 DEF Finished
    <2> QED BY <1>1, <1>3, <2>7
  <1>4. CASE ~Pop(w) /\ ~FreePath(w)
    <2>1. UNCHANGED <<fifo, held>>
      BY <1>4, QueueSteps
    <2> QED BY <1>0, <1>1, <1>4, <2>1 DEF Finished
  <1> QED BY <1>2, <1>3, <1>4

\* The summands of BitsAreConserved.
InLocal(b)    == [w \in Workers |-> local[w][b]]
InFinished(b) == [f \in Files |-> IF f \in Finished \ unreadable THEN CountAll(f, b) ELSE 0]
InRead(b)     == [w \in Workers |-> IF Reading(w) THEN Count(held[w], seen[w], b) ELSE 0]
Balanced(b)   == global[b] + SumOver(Workers, InLocal(b)) = SumOver(Files, InFinished(b)) + SumOver(Workers, InRead(b))

LEMMA BalancedIs == BitsAreConserved <=> (program = "fhistogram" => \A b \in Bits : Balanced(b))
  BY DEF BitsAreConserved, Balanced, InLocal, InFinished, InRead

LEMMA CountAllIs == ASSUME NEW f \in Files, NEW b PROVE CountAll(f, b) \in Nat
  <1>1. Tree[f] \in Seq(SUBSET Bits)
    BY ProgramsAssumption DEF Files, ProgramsAssumption
  <1>2. Len(Tree[f]) \in Nat
    BY <1>1
  <1> QED BY <1>2, CountIs DEF CountAll

LEMMA Summands ==
  ASSUME TypeOK, NEW b \in Bits
  PROVE  /\ IntOn(InLocal(b), Workers) /\ IntOn(InFinished(b), Files) /\ IntOn(InRead(b), Workers)
         /\ global[b] \in Nat
         /\ \A w \in Workers : InLocal(b)[w] = local[w][b] /\ local[w][b] \in Nat /\ InRead(b)[w] \in Nat
  <1>1. global[b] \in Nat /\ \A w \in Workers : local[w][b] \in Nat
    BY DEF TypeOK, Bins
  <1>2. \A w \in Workers : Count(held[w], seen[w], b) \in Nat
    BY CountIs DEF TypeOK
  <1>3. \A f \in Files : InFinished(b)[f] \in Nat
    BY CountAllIs DEF InFinished
  <1>4. \A w \in Workers : InRead(b)[w] \in Nat
    BY <1>2 DEF InRead
  <1>5. \A w \in Workers : InLocal(b)[w] = local[w][b]
    BY DEF InLocal
  <1> QED BY <1>1, <1>3, <1>4, <1>5 DEF IntOn

LEMMA BitsMain == ASSUME IInv, Main PROVE BitsAreConserved'
  <1>1. UNCHANGED <<program, at, held, seen, local, global, unreadable>>
    BY MainSteps DEF workerVars, sharedVars, args, queueVars
  <1>2. Finished' = Finished
    BY FinishedMain
  <1>3. ASSUME NEW b \in Bits PROVE Balanced(b)' <=> Balanced(b)
    BY <1>1, <1>2 DEF Balanced, InLocal, InFinished, InRead, Reading
  <1> QED BY <1>1, <1>3, BalancedIs DEF IInv, BitsAreConserved, Balanced, InLocal, InFinished, InRead

\* Reading, merging and giving up move the bits of one worker's file.
LEMMA OneMoves ==
  ASSUME IInv, NEW w \in Workers, Step(w), program = "fhistogram", TypeOK', NEW b \in Bits
  PROVE  /\ ~FreePath(w) => global'[b] + local'[w][b] + InRead(b)[w] = global[b] + local[w][b] + InRead(b)'[w]
         /\ FreePath(w) => /\ global'[b] = global[b] /\ local'[w][b] = local[w][b] /\ InRead(b)'[w] = 0
                           /\ InRead(b)[w] = IF held[w] \in unreadable THEN 0 ELSE CountAll(held[w], b)
  <1> USE DEF Goto, sharedVars, workerVars, queueVars, mainVars, args
  <1>0. /\ TypeOK /\ WorkerOK(w) /\ ReadOK(w) /\ MergeOK(w) /\ program' = program
        /\ at \in [Workers -> Places] /\ seen \in [Workers -> Nat] /\ local \in [Workers -> Bins]
        /\ at[w] \in {"pop", "open", "read", "lock", "load", "store", "draw", "unlock", "free"}
    BY OnlyItsOwn DEF IInv, TypeOK, Places, WorkerOK
  <1>a. /\ InRead(b)[w] = IF Reading(w) THEN Count(held[w], seen[w], b) ELSE 0
        /\ InRead(b)'[w] = IF Reading(w)' THEN Count(held'[w], seen'[w], b) ELSE 0
    BY DEF InRead
  <1>b. /\ global[b] \in Nat /\ local[w][b] \in Nat /\ InRead(b)[w] \in Nat
        /\ local[w] = Empty => local[w][b] = 0
    BY <1>0, Summands, BinsAre
  <1>c. Count(held[w], seen[w], b) \in Nat /\ Count(held[w], 0, b) = 0
    BY <1>0, CountIs
  <1> HIDE DEF InRead
  <1>1. CASE Pop(w)
    <2>1. at[w] = "pop" /\ at'[w] = "open" /\ local' = local /\ global' = global
      BY <1>0, <1>1 DEF Pop
    <2>2. ~Reading(w) /\ ~Reading(w)' /\ ~FreePath(w)
      BY <2>1 DEF Reading, FreePath
    <2> QED BY <1>a, <1>b, <2>1, <2>2
  <1>2. CASE PopFails(w)
    <2>1. at[w] = "pop" /\ at' = at /\ local' = local /\ global' = global
      BY <1>2 DEF PopFails
    <2>2. ~Reading(w) /\ ~Reading(w)' /\ ~FreePath(w)
      BY <2>1 DEF Reading, FreePath
    <2> QED BY <1>a, <1>b, <2>1, <2>2
  <1>3. CASE Open(w)
    <2>1. /\ at[w] = "open" /\ local'[w] = Empty /\ global' = global /\ seen'[w] = 0 /\ held' = held
          /\ at'[w] = "read" \/ (at'[w] = "free" /\ held[w] \in unreadable')
      BY <1>0, <1>3 DEF Open
    <2>2. ~Reading(w) /\ local[w] = Empty /\ ~FreePath(w)
      BY <1>0, <2>1 DEF Reading, MergeOK, FreePath
    <2>3. InRead(b)'[w] = 0 /\ InRead(b)[w] = 0
      BY <1>a, <1>c, <2>1, <2>2 DEF Reading
    <2> QED BY <1>b, <2>1, <2>2, <2>3
  <1>4. CASE ReadByte(w)
    <2> DEFINE n == seen[w]
    <2>1. /\ at[w] = "read" /\ at'[w] \in {"lock", "read"} /\ UNCHANGED <<held, unreadable, global>>
          /\ seen'[w] = n + 1 /\ local'[w] = Updated(local[w], Tree[held[w]][n + 1])
      BY <1>0, <1>4 DEF ReadByte
    <2>2. Reading(w) /\ Reading(w)' /\ ~FreePath(w)
      BY <1>0, <2>1 DEF Reading, ReadOK, FreePath
    <2>3. local'[w][b] = local[w][b] + IF b \in Tree[held[w]][n + 1] THEN 1 ELSE 0
      BY <2>1 DEF Updated
    <2>4. Count(held[w], n + 1, b) = Count(held[w], n, b) + IF b \in Tree[held[w]][n + 1] THEN 1 ELSE 0
      BY <1>0, CountIs
    <2>5. InRead(b)'[w] = Count(held[w], n + 1, b) /\ InRead(b)[w] = Count(held[w], n, b)
      BY <1>a, <2>1, <2>2
    <2> HIDE DEF n
    <2>6. CASE b \in Tree[held[w]][n + 1]
      BY <1>b, <2>1, <2>2, <2>3, <2>4, <2>5, <2>6
    <2>7. CASE b \notin Tree[held[w]][n + 1]
      BY <1>b, <2>1, <2>2, <2>3, <2>4, <2>5, <2>7
    <2> QED BY <2>6, <2>7
  <1>5. CASE StoreBin(w)
    <2>0. global'[b] + local'[w][b] = global[b] + local[w][b]
      <3>1. CASE b = bin[w]
        <4>1. global'[b] = global[b] + local[w][b] /\ local'[w][b] = 0
          BY <1>5, <3>1, Stored
        <4> QED BY <1>b, <4>1
      <3>2. CASE b # bin[w]
        <4>1. global'[b] = global[b] /\ local'[w][b] = local[w][b]
          BY <1>5, <3>2, Stored
        <4> QED BY <4>1
      <3> QED BY <3>1, <3>2
    <2>5. at[w] = "store" /\ at'[w] \in {"load", "draw"}
      BY <1>5, Stored
    <2>1. /\ at[w] = "store" /\ at'[w] \in {"load", "draw"} /\ UNCHANGED <<held, unreadable, seen>>
          /\ global'[b] + local'[w][b] = global[b] + local[w][b]
      BY <1>5, <2>0, <2>5 DEF StoreBin
    <2>2. (Reading(w)' <=> Reading(w)) /\ ~FreePath(w)
      BY <2>1 DEF Reading, FreePath
    <2>3. InRead(b)'[w] = InRead(b)[w]
      BY <1>a, <2>1, <2>2
    <2>4. global'[b] \in Nat /\ local'[w][b] \in Nat
      BY DEF TypeOK, Bins
    <2> QED BY <1>b, <2>1, <2>2, <2>3, <2>4
  <1>6. CASE EndOfFile(w) \/ Lock(w) \/ LoadBin(w) \/ Draw(w) \/ Unlock(w)
    <2>1. /\ at[w] \notin {"pop", "open", "free"} /\ at'[w] \notin {"pop", "open"}
          /\ UNCHANGED <<held, unreadable, seen, local, global>>
      BY <1>0, <1>6 DEF EndOfFile, AtEnd, Lock, LoadBin, Draw, Unlock
    <2>2. (Reading(w)' <=> Reading(w)) /\ ~FreePath(w)
      BY <2>1 DEF Reading, FreePath
    <2>3. InRead(b)'[w] = InRead(b)[w]
      BY <1>a, <2>1, <2>2
    <2> QED BY <1>b, <2>1, <2>2, <2>3
  <1>7. CASE FreePath(w)
    <2>1. at[w] = "free" /\ at'[w] = "pop" /\ UNCHANGED <<local, global>> /\ held[w] # NoJob
      BY <1>0, <1>7 DEF FreePath, Queue!Finish
    <2>2. ~Reading(w)' /\ (Reading(w) <=> held[w] \notin unreadable)
      BY <2>1 DEF Reading
    <2>3. Reading(w) => Count(held[w], seen[w], b) = CountAll(held[w], b)
      BY <1>0, <2>1 DEF ReadOK, CountAll
    <2> QED BY <1>7, <1>a, <2>1, <2>2, <2>3
  <1>8. ~ReadLine(w) /\ ~Compute(w) /\ ~PrintLine(w)
    BY <1>0 DEF ReadLine, Compute, PrintLine
  <1> QED BY <1>1, <1>2, <1>3, <1>4, <1>5, <1>6, <1>7, <1>8 DEF Step

LEMMA BitsStep == ASSUME IInv, NEW w \in Workers, Step(w), TypeOK' PROVE BitsAreConserved'
  <1>0. TypeOK /\ program' = program /\ IsFiniteSet(Workers) /\ IsFiniteSet(Files)
    BY Given, OnlyItsOwn DEF IInv, TypeOK
  <1>1. SUFFICES ASSUME program = "fhistogram", NEW b \in Bits PROVE Balanced(b)'
    BY <1>0 DEF BitsAreConserved, Balanced, InLocal, InFinished, InRead
  <1>2. Balanced(b)
    BY <1>1, BalancedIs DEF IInv
  <1>3. /\ IntOn(InLocal(b), Workers) /\ IntOn(InFinished(b), Files) /\ IntOn(InRead(b), Workers) /\ global[b] \in Nat
        /\ \A v \in Workers : InLocal(b)[v] = local[v][b] /\ InRead(b)[v] \in Nat /\ local[v][b] \in Nat
    BY <1>0, Summands
  <1>4. /\ IntOn(InLocal(b)', Workers) /\ IntOn(InRead(b)', Workers) /\ global'[b] \in Nat
        /\ \A v \in Workers : InLocal(b)'[v] = local'[v][b] /\ InRead(b)'[v] \in Nat /\ local'[v][b] \in Nat
    <2>1. global'[b] \in Nat /\ \A v \in Workers : local'[v][b] \in Nat /\ Count(held'[v], seen'[v], b) \in Nat
      BY CountIs DEF TypeOK, Bins
    <2>2. \A v \in Workers : InLocal(b)'[v] = local'[v][b] /\ InRead(b)'[v] \in Nat
      BY <2>1 DEF InLocal, InRead
    <2> QED BY <2>1, <2>2 DEF IntOn
  <1>5. IntOn(InFinished(b)', Files)
    BY CountAllIs DEF IntOn, InFinished
  <1>6. ASSUME NEW v \in Workers \ {w} PROVE InLocal(b)[v] = InLocal(b)'[v] /\ InRead(b)[v] = InRead(b)'[v]
    <2>1. local'[v] = local[v] /\ held'[v] = held[v] /\ seen'[v] = seen[v] /\ (Reading(v)' <=> Reading(v))
      BY <1>0, OnlyItsOwn, ReadingStays
    <2> QED BY <2>1 DEF InLocal, InRead
  <1> DEFINE L == SumOver(Workers, InLocal(b))
             R == SumOver(Workers, InRead(b))
             F == SumOver(Files, InFinished(b))
  <1>7. L' = L - local[w][b] + local'[w][b] /\ L \in Int /\ L' \in Int
    <2> DEFINE f == InLocal(b)
               g == InLocal(b)'
    <2>1. f[w] = local[w][b] /\ g[w] = local'[w][b]
      BY <1>3, <1>4
    <2>2. IntOn(f, Workers) /\ IntOn(g, Workers) /\ \A v \in Workers \ {w} : f[v] = g[v]
      BY <1>3, <1>4, <1>6
    <2> HIDE DEF f, g
    <2>3. SumOver(Workers, g) = SumOver(Workers, f) - f[w] + g[w] /\ SumOver(Workers, f) \in Int /\ SumOver(Workers, g) \in Int
      BY <1>0, <2>2, SumChanges
    <2> QED BY <2>1, <2>3 DEF f, g
  <1>8. R' = R - InRead(b)[w] + InRead(b)'[w] /\ R \in Int /\ R' \in Int
    <2> DEFINE f == InRead(b)
               g == InRead(b)'
    <2>2. IntOn(f, Workers) /\ IntOn(g, Workers) /\ \A v \in Workers \ {w} : f[v] = g[v]
      BY <1>3, <1>4, <1>6
    <2> HIDE DEF f, g
    <2>3. SumOver(Workers, g) = SumOver(Workers, f) - f[w] + g[w] /\ SumOver(Workers, f) \in Int /\ SumOver(Workers, g) \in Int
      BY <1>0, <2>2, SumChanges
    <2> QED BY <2>3 DEF f, g
  <1>9. CASE ~FreePath(w)
    <2>1. Finished' = Finished /\ held[w] \notin Finished
      BY <1>9, FinishedStep
    <2>2. unreadable' = unreadable \/ unreadable' = unreadable \cup {held[w]}
      BY QueueSteps
    <2>3. Finished' \ unreadable' = Finished \ unreadable
      BY <2>1, <2>2
    <2>4. InFinished(b)' = InFinished(b)
      BY <2>3 DEF InFinished
    <2>5. F' = F /\ F \in Int
      BY <1>0, <1>3, <2>4, SumOfSame
    <2>6. global'[b] + local'[w][b] + InRead(b)[w] = global[b] + local[w][b] + InRead(b)'[w]
      BY <1>1, <1>9, OneMoves
    <2>7. global[b] + L = F + R
      BY <1>2 DEF Balanced
    <2> HIDE DEF L, R, F
    <2>8. global'[b] + L' = F' + R'
      BY <1>3, <1>4, <1>7, <1>8, <2>5, <2>6, <2>7
    <2> QED BY <2>8 DEF Balanced, L, R, F
  <1>10. CASE FreePath(w)
    <2> DEFINE h == held[w]
    <2>1. Finished' = Finished \cup {h} /\ h \notin Finished
      BY <1>10, FinishedStep
    <2>2. unreadable' = unreadable /\ h # NoJob
      BY <1>10 DEF FreePath, sharedVars, Queue!Finish
    <2>3. h \in Files /\ CountAll(h, b) \in Nat
      BY <1>1, <2>2, JobIs, CountAllIs
    <2>4. /\ \A f \in Files \ {h} : InFinished(b)[f] = InFinished(b)'[f]
          /\ InFinished(b)[h] = 0 /\ InFinished(b)'[h] = IF h \in unreadable THEN 0 ELSE CountAll(h, b)
      BY <2>1, <2>2, <2>3 DEF InFinished
    <2>5. F' = F - InFinished(b)[h] + InFinished(b)'[h] /\ F \in Int /\ F' \in Int
      <3> DEFINE f == InFinished(b)
                 g == InFinished(b)'
      <3>1. IntOn(f, Files) /\ IntOn(g, Files) /\ \A x \in Files \ {h} : f[x] = g[x]
        BY <1>3, <1>5, <2>4
      <3> HIDE DEF f, g, h
      <3>2. SumOver(Files, g) = SumOver(Files, f) - f[h] + g[h] /\ SumOver(Files, f) \in Int /\ SumOver(Files, g) \in Int
        BY <1>0, <2>3, <3>1, SumChanges
      <3> QED BY <3>2 DEF f, g
    <2>6. /\ global'[b] = global[b] /\ local'[w][b] = local[w][b] /\ InRead(b)'[w] = 0
          /\ InRead(b)[w] = IF h \in unreadable THEN 0 ELSE CountAll(h, b)
      BY <1>1, <1>10, OneMoves
    <2>7. global[b] + L = F + R
      BY <1>2 DEF Balanced
    <2> HIDE DEF L, R, F, h
    <2>8. InFinished(b)'[h] = InRead(b)[w]
      BY <2>4, <2>6
    <2>9. global'[b] + L' = F' + R'
      BY <1>3, <1>4, <1>7, <1>8, <2>4, <2>5, <2>6, <2>7, <2>8
    <2> QED BY <2>9 DEF Balanced, L, R, F
  <1> QED BY <1>9, <1>10

-----------------------------------------------------------------------------
(* The lines *)

LEMMA SoFarIs ==
  ASSUME NEW w \in Workers
  PROVE  /\ program = "fibs" => SoFar(w) = IF at[w] \in {"unlock", "free"} THEN <<Fib[Typed[held[w]]]>> ELSE << >>
         /\ program = "fauxgrep" =>
              SoFar(w) = IF Reading(w)
                         THEN Matching(held[w])[IF at[w] \in {"lock", "print"} THEN seen[w] - 1 ELSE seen[w]]
                         ELSE << >>
         /\ program = "fhistogram" => SoFar(w) = << >>
  BY DEF SoFar

LEMMA ExpectedIs ==
  ASSUME NEW j
  PROVE  /\ program = "fibs" => Expected(j) = <<Fib[Typed[j]]>>
         /\ program = "fauxgrep" => Expected(j) = IF j \in Files \ unreadable THEN Matching(j)[Len(Tree[j])] ELSE << >>
         /\ program = "fhistogram" => Expected(j) = << >>
  BY DEF Expected

\* Only a worker that prints adds to the output, and only to that of its job.
LEMMA OutputStep ==
  ASSUME IInv, NEW w \in Workers, Step(w), NEW j
  PROVE  /\ ~PrintLine(w) \/ j # held[w] => Output(j)' = Output(j)
         /\ PrintLine(w) =>
              Output(held[w])' = Append(Output(held[w]), IF program = "fibs" THEN register[w] ELSE seen[w])
  <1>0. TypeOK /\ WorkerOK(w)
    BY DEF IInv
  <1>1. CASE ~PrintLine(w)
    <2>1. printed' = printed
      BY <1>1, QueueSteps DEF PopFails, FreePath, Pop
    <2> QED BY <1>1, <2>1 DEF Output
  <1>2. CASE PrintLine(w)
    <2> DEFINE v == IF program = "fibs" THEN register[w] ELSE seen[w]
    <2>1. held' = held /\ at[w] = "print" /\ printed' = Append(printed, <<held[w], v>>)
      BY <1>2 DEF PrintLine, queueVars
    <2>2. held[w] \in Jobs /\ v \in Nat /\ printed \in Seq(Jobs \X Nat)
      <3>1. held[w] # NoJob
        BY <1>0, <2>1 DEF WorkerOK
      <3> QED BY <1>0, <3>1, JobIs DEF TypeOK
    <2> HIDE DEF v
    <2>3. \A i : LinesOf(printed', i) = IF held[w] = i THEN Append(LinesOf(printed, i), v) ELSE LinesOf(printed, i)
      <3> TAKE i
      <3>1. LinesOf(Append(printed, <<held[w], v>>), i) = IF held[w] = i THEN Append(LinesOf(printed, i), v) ELSE LinesOf(printed, i)
        <4> DEFINE h == held[w]
                   list == printed
        <4>1. h \in Jobs /\ v \in Nat /\ list \in Seq(Jobs \X Nat)
          BY <2>2
        <4> HIDE DEF h, list
        <4>2. LinesOf(Append(list, <<h, v>>), i) = IF h = i THEN Append(LinesOf(list, i), v) ELSE LinesOf(list, i)
          <5>1. /\ h = i => LinesOf(WithLine(list, h, v), i) = Append(LinesOf(list, i), v)
                /\ h # i => LinesOf(WithLine(list, h, v), i) = LinesOf(list, i)
            BY <4>1, OneLineMore, ZenonT(60)
          <5> QED BY <5>1 DEF WithLine
        <4> QED BY <4>2 DEF h, list
      <3> QED BY <2>1, <3>1
    <2>4. Output(j)' = LinesOf(printed', j) /\ Output(held[w])' = LinesOf(printed', held[w])
      BY <2>1 DEF Output
    <2>5. LinesOf(printed', held[w]) = Append(LinesOf(printed, held[w]), v)
      BY <2>3
    <2>6. j # held[w] => LinesOf(printed', j) = LinesOf(printed, j)
      BY <2>3
    <2> QED BY <1>2, <2>4, <2>5, <2>6 DEF Output, v
  <1> QED BY <1>1, <1>2

\* What worker w has printed grows as SoFar says.
LEMMA SoFarStep ==
  ASSUME IInv, NEW w \in Workers, Step(w), held'[w] # NoJob
  PROVE  LinesOf(printed', held'[w]) = SoFar(w)'
  <1> USE DEF Goto, sharedVars, workerVars, queueVars, mainVars, args
  <1>0. /\ TypeOK /\ WorkerOK(w) /\ ReadOK(w) /\ JobsOK /\ PrintOK /\ program' = program /\ program \in Programs
        /\ at \in [Workers -> Places] /\ held \in [Workers -> Jobs \cup {NoJob}] /\ seen \in [Workers -> Nat]
        /\ eof \in [Workers -> BOOLEAN] /\ register \in [Workers -> Nat]
        /\ at[w] = "pop" <=> held[w] = NoJob
        /\ program = "fibs"       => at[w] \in {"pop", "compute", "lock", "print", "unlock", "free"}
        /\ program = "fauxgrep"   => at[w] \in {"pop", "open", "read", "lock", "print", "unlock", "free"}
        /\ program = "fhistogram" => at[w] \in {"pop", "open", "read", "lock", "load", "store", "draw", "unlock", "free"}
        /\ program = "fibs" \/ program = "fauxgrep" \/ program = "fhistogram"
    BY OnlyItsOwn DEF IInv, TypeOK, Places, WorkerOK, Programs
  <1>a. held[w] # NoJob => LinesOf(printed, held[w]) = SoFar(w)
    BY <1>0 DEF PrintOK, Output
  <1>b. /\ program = "fibs" => SoFar(w)' = IF at'[w] \in {"unlock", "free"} THEN <<Fib[Typed[held'[w]]]>> ELSE << >>
        /\ program = "fauxgrep" =>
              SoFar(w)' = IF Reading(w)'
                          THEN Matching(held'[w])[IF at'[w] \in {"lock", "print"} THEN seen'[w] - 1 ELSE seen'[w]]
                          ELSE << >>
        /\ program = "fhistogram" => SoFar(w)' = << >>
    BY <1>0 DEF SoFar
  <1>c. program = "fauxgrep" /\ held[w] # NoJob =>
          /\ Matching(held[w])[0] = << >>
          /\ \A n \in 1..Len(Tree[held[w]]) :
               Matching(held[w])[n] = IF Needle \in Tree[held[w]][n] THEN Append(Matching(held[w])[n - 1], n)
                                      ELSE Matching(held[w])[n - 1]
          /\ Len(Tree[held[w]]) \in Nat
    BY ProgramsAssumption, JobIs, MatchingIs
  <1>1. CASE Pop(w)
    <2>1. /\ fifo # << >> /\ held'[w] = Head(fifo) /\ printed' = printed /\ held[w] = NoJob
          /\ at'[w] = IF program = "fibs" THEN "compute" ELSE "open"
      BY <1>0, <1>1 DEF Pop, Queue!Get
    <2>2. Head(fifo) = fifo[1] /\ 1 \in DOMAIN fifo
      BY <1>0, <2>1, Popped DEF TypeOK
    <2>3. Head(fifo) \in DOMAIN Input /\ Head(fifo) \notin Finished /\ \A v \in Workers : held[v] # Head(fifo)
      BY <1>0, <2>2, Given DEF JobsOK, Finished
    <2>4. LinesOf(printed, Head(fifo)) = << >>
      BY <1>0, <2>3 DEF PrintOK, Output
    <2>5. SoFar(w)' = << >>
      BY <1>0, <1>b, <2>1 DEF Reading
    <2> QED BY <2>1, <2>4, <2>5
  <1>2. CASE PopFails(w) \/ FreePath(w)
    BY <1>0, <1>2 DEF PopFails, FreePath, Queue!End, Queue!Finish
  <1>3. CASE Open(w)
    <2>1. /\ at[w] = "open" /\ seen'[w] = 0 /\ UNCHANGED <<held, printed>>
          /\ at'[w] = "read" \/ (at'[w] = "free" /\ held[w] \in unreadable')
      BY <1>0, <1>3 DEF Open
    <2>2. SoFar(w) = << >>
      BY <1>0, <2>1, SoFarIs DEF Reading
    <2>3. SoFar(w)' = << >>
      BY <1>0, <1>b, <1>c, <2>1 DEF Reading
    <2> QED BY <1>0, <1>a, <2>1, <2>2, <2>3
  <1>4. CASE ReadLine(w)
    <2> DEFINE n == seen[w]
    <2>1. /\ at[w] = "read" /\ seen'[w] = n + 1 /\ UNCHANGED <<held, printed, unreadable>> /\ program = "fauxgrep"
          /\ n < Len(Tree[held[w]]) /\ at'[w] = IF Needle \in Tree[held[w]][n + 1] THEN "lock" ELSE "read"
      BY <1>0, <1>4 DEF ReadLine
    <2>2. Reading(w) /\ Reading(w)' /\ held[w] # NoJob
      BY <1>0, <2>1 DEF Reading, ReadOK
    <2>3. n \in Nat /\ n + 1 \in 1..Len(Tree[held[w]]) /\ (n + 1) - 1 = n
      <3>1. n \in Nat /\ Len(Tree[held[w]]) \in Nat /\ n < Len(Tree[held[w]])
        BY <1>0, <1>c, <2>1, <2>2
      <3> HIDE DEF n
      <3> QED BY <3>1
    <2>4. SoFar(w) = Matching(held[w])[n]
      BY <2>1, <2>2, SoFarIs
    <2> HIDE DEF n
    <2>5. SoFar(w)' = Matching(held[w])[IF at'[w] \in {"lock", "print"} THEN (n + 1) - 1 ELSE n + 1]
      BY <1>b, <2>1, <2>2
    <2>6. SoFar(w)' = Matching(held[w])[n]
      <3>1. CASE Needle \in Tree[held[w]][n + 1]
        BY <2>1, <2>3, <2>5, <3>1
      <3>2. CASE Needle \notin Tree[held[w]][n + 1]
        BY <1>c, <2>1, <2>2, <2>3, <2>5, <3>2
      <3> QED BY <3>1, <3>2
    <2> QED BY <1>a, <2>1, <2>2, <2>4, <2>6
  <1>5. CASE PrintLine(w)
    <2>1. /\ at[w] = "print" /\ at'[w] = "unlock" /\ UNCHANGED <<held, seen, unreadable>>
          /\ program # "fhistogram" /\ held[w] # NoJob
      BY <1>0, <1>5 DEF PrintLine
    <2>2. LinesOf(printed', held[w]) = Append(SoFar(w), IF program = "fibs" THEN register[w] ELSE seen[w])
      BY <1>5, <1>a, <2>1, OutputStep DEF Output
    <2>3. CASE program = "fibs"
      <3>1. SoFar(w) = << >> /\ SoFar(w)' = <<Fib[Typed[held[w]]]>> /\ register[w] = Fib[Typed[held[w]]]
        BY <1>0, <1>b, <2>1, <2>3, SoFarIs DEF ReadOK
      <3> QED BY <2>1, <2>2, <2>3, <3>1
    <2>4. CASE program = "fauxgrep"
      <3> DEFINE n == seen[w]
      <3>1. Reading(w) /\ Reading(w)'
        BY <1>0, <2>1 DEF Reading, ReadOK
      <3>2. n \in Nat /\ n > 0 /\ n <= Len(Tree[held[w]]) /\ Needle \in Tree[held[w]][n]
        BY <1>0, <2>1, <2>4, <3>1 DEF ReadOK
      <3>3. SoFar(w) = Matching(held[w])[n - 1] /\ SoFar(w)' = Matching(held[w])[n]
        BY <1>b, <2>1, <2>4, <3>1, SoFarIs
      <3> HIDE DEF n
      <3>4. n \in 1..Len(Tree[held[w]])
        BY <1>c, <2>1, <2>4, <3>2
      <3>5. Matching(held[w])[n] = Append(Matching(held[w])[n - 1], n)
        BY <1>c, <2>1, <2>4, <3>2, <3>4
      <3> QED BY <2>1, <2>2, <2>4, <3>3, <3>5 DEF n
    <2> QED BY <1>0, <2>1, <2>3, <2>4
  <1>6. CASE EndOfFile(w) \/ Lock(w) \/ Unlock(w) \/ Compute(w)
    <2>1. UNCHANGED <<held, printed, seen, unreadable>>
      BY <1>6 DEF EndOfFile, Lock, Unlock, Compute
    <2>2. program = "fauxgrep" => /\ at[w] \notin {"pop", "open"} /\ at'[w] \notin {"pop", "open"}
                                  /\ at[w] \in {"lock", "print"} <=> at'[w] \in {"lock", "print"}
      BY <1>0, <1>6 DEF EndOfFile, Lock, Unlock, Compute, AtEnd
    <2>3. program = "fibs" => (at[w] \in {"unlock", "free"} <=> at'[w] \in {"unlock", "free"})
      BY <1>0, <1>6 DEF EndOfFile, Lock, Unlock, Compute, ReadOK
    <2>4. CASE program = "fibs"
      BY <1>a, <1>b, <2>1, <2>3, <2>4, SoFarIs
    <2>5. CASE program = "fauxgrep"
      <3>1. Reading(w)' <=> Reading(w)
        BY <2>1, <2>2, <2>5 DEF Reading
      <3> QED BY <1>a, <1>b, <2>1, <2>2, <2>5, <3>1, SoFarIs
    <2>6. CASE program = "fhistogram"
      BY <1>a, <1>b, <2>1, <2>6, SoFarIs
    <2> QED BY <1>0, <2>4, <2>5, <2>6
  <1>7. CASE ReadByte(w) \/ LoadBin(w) \/ StoreBin(w) \/ Draw(w)
    <2>1. UNCHANGED <<held, printed>> /\ program = "fhistogram"
      BY <1>0, <1>7 DEF ReadByte, LoadBin, StoreBin, Draw
    <2> QED BY <1>a, <1>b, <2>1, SoFarIs
  <1> QED BY <1>1, <1>2, <1>3, <1>4, <1>5, <1>6, <1>7 DEF Step

LEMMA PrintMain == ASSUME IInv, Main PROVE PrintOK'
  <1>1. UNCHANGED <<program, at, held, seen, printed, unreadable>>
    BY MainSteps DEF workerVars, sharedVars, args, queueVars
  <1>2. Finished' = Finished
    BY FinishedMain
  <1> QED BY <1>1, <1>2 DEF IInv, PrintOK, Output, Expected, SoFar, Reading, Input

LEMMA PrintStep == ASSUME IInv, NEW w \in Workers, Step(w) PROVE PrintOK'
  <1>0. /\ TypeOK /\ PrintOK /\ JobsOK /\ WorkerOK(w) /\ ReadOK(w) /\ program' = program /\ program \in Programs
        /\ program = "fibs" \/ program = "fauxgrep" \/ program = "fhistogram"
    BY OnlyItsOwn DEF IInv, TypeOK, Programs
  <1>1. ASSUME NEW j \in Finished' PROVE LinesOf(printed', j) = Expected(j)'
    <2>1. CASE j \in Finished
      <3>1. j # held[w]
        BY <2>1, FinishedStep
      <3>2. LinesOf(printed', j) = Output(j)
        BY <3>1, OutputStep DEF Output
      <3>3. j \in unreadable' <=> j \in unreadable
        BY <3>1, QueueSteps
      <3>4. Expected(j)' = Expected(j)
        BY <1>0, <3>3 DEF Expected
      <3> QED BY <1>0, <2>1, <3>2, <3>4 DEF PrintOK
    <2>2. CASE j \notin Finished
      <3>1. FreePath(w) /\ j = held[w]
        BY <2>2, FinishedStep
      <3>2. at[w] = "free" /\ printed' = printed /\ unreadable' = unreadable /\ held[w] # NoJob
        BY <3>1 DEF FreePath, sharedVars, Queue!Finish
      <3>3. Output(j) = SoFar(w)
        BY <1>0, <3>1, <3>2 DEF PrintOK
      <3>4. SoFar(w) = Expected(j)
        <4>1. CASE program = "fibs"
          BY <3>1, <3>2, <4>1, SoFarIs, ExpectedIs
        <4>2. CASE program = "fauxgrep"
          <5>1. held[w] \in Files
            BY <3>2, <4>2, JobIs
          <5>2. Reading(w) <=> held[w] \notin unreadable
            BY <3>2 DEF Reading
          <5>3. Reading(w) => seen[w] = Len(Tree[held[w]])
            BY <1>0, <3>2, <4>2 DEF ReadOK
          <5> QED BY <3>1, <3>2, <4>2, <5>1, <5>2, <5>3, SoFarIs, ExpectedIs
        <4>3. CASE program = "fhistogram"
          BY <4>3, SoFarIs, ExpectedIs
        <4> QED BY <1>0, <4>1, <4>2, <4>3
      <3>5. Expected(j)' = Expected(j)
        BY <1>0, <3>2 DEF Expected
      <3> QED BY <3>2, <3>3, <3>4, <3>5 DEF Output
    <2> QED BY <2>1, <2>2
  <1>2. ASSUME NEW v \in Workers, held'[v] # NoJob PROVE LinesOf(printed', held'[v]) = SoFar(v)'
    <2>1. CASE v = w
      BY <1>2, <2>1, SoFarStep
    <2>2. CASE v # w
      <3>1. /\ at'[v] = at[v] /\ held'[v] = held[v] /\ seen'[v] = seen[v] /\ (Reading(v)' <=> Reading(v))
        BY <1>0, <2>2, OnlyItsOwn, ReadingStays
      <3>2. SoFar(v)' = SoFar(v)
        BY <1>0, <3>1 DEF SoFar
      <3>3. held[v] # held[w]
        BY <1>0, <1>2, <2>2, <3>1 DEF JobsOK
      <3>4. LinesOf(printed', held[v]) = Output(held[v])
        <4> DEFINE j == held[v]
        <4>1. \A i : i # held[w] => Output(i)' = Output(i)
          BY OutputStep
        <4>2. \A i : i # held[w] => LinesOf(printed', i) = LinesOf(printed, i)
          BY <4>1 DEF Output
        <4> QED BY <3>3, <4>2 DEF Output
      <3> QED BY <1>0, <1>2, <3>1, <3>2, <3>4 DEF PrintOK
    <2> QED BY <2>1, <2>2
  <1>3. ASSUME NEW j \in DOMAIN Input', j \notin Finished', \A v \in Workers : held'[v] # j
        PROVE  LinesOf(printed', j) = << >>
    <2>1. j \in DOMAIN Input /\ j \notin Finished /\ (FreePath(w) => j # held[w])
      BY <1>0, <1>3, FinishedStep DEF Input
    <2>2. ~FreePath(w) => held[w] = NoJob \/ held'[w] = held[w]
      BY <1>0, QueueSteps
    <2>3. j # NoJob
      BY <1>0, <2>1, Given
    <2>4. j # held[w]
      BY <1>3, <2>1, <2>2, <2>3
    <2>5. \A v \in Workers : held[v] # j
      BY <1>0, <1>3, <2>4, OnlyItsOwn
    <2>6. LinesOf(printed', j) = Output(j)
      BY <2>4, OutputStep DEF Output
    <2> QED BY <1>0, <2>1, <2>5, <2>6 DEF PrintOK
  <1> QED BY <1>1, <1>2, <1>3 DEF PrintOK, Output

-----------------------------------------------------------------------------
(* The theorems *)

LEMMA Initially == Init => IInv
  <1> SUFFICES ASSUME Init PROVE IInv
    OBVIOUS
  <1> USE DEF Init, Queue!Init
  <1>0. /\ program \in Programs /\ NoJob \notin Jobs /\ NoJob \notin Nat /\ None \notin Workers /\ Len(Input) \in Nat
        /\ Empty \in [Bits -> Nat] /\ (\A b \in Bits : Empty[b] = 0) /\ IsFiniteSet(Workers) /\ IsFiniteSet(Files)
        /\ NBits \in Nat \ {0}
    BY Given, ProgramsAssumption DEF ProgramsAssumption, Empty
  <1>1. TypeOK
    <2>1. /\ local \in [Workers -> Bins] /\ global \in Bins /\ screen \in Bins
          /\ bin \in [Workers -> 0..NBits] /\ register \in [Workers -> Nat]
      BY <1>0 DEF Bins
    <2>2. next \in 1..(Len(Input) + 1) /\ mainAt \in {"start", "failed", "walk", "join", "done"}
      BY <1>0
    <2>3. /\ program \in Programs /\ option \in Options
          /\ fifo \in Seq(Jobs) /\ closed \in BOOLEAN /\ ended \subseteq threads /\ threads \subseteq Workers
          /\ held \in [Workers -> Jobs \cup {NoJob}]
      <3>1. closed \in BOOLEAN
        OBVIOUS
      <3>2. fifo \in Seq(Jobs) /\ held \in [Workers -> Jobs \cup {NoJob}]
        OBVIOUS
      <3>3. ended \subseteq threads /\ threads \subseteq Workers
        OBVIOUS
      <3> QED BY <1>0, <3>1, <3>2, <3>3
    <2>4. /\ at \in [Workers -> {"pop", "open", "read", "compute", "lock", "load", "store", "draw", "print",
                                 "unlock", "free"}]
          /\ seen \in [Workers -> Nat] /\ eof \in [Workers -> BOOLEAN]
          /\ owner \in threads \cup {None} /\ unreadable \subseteq Files
          /\ printed \in Seq(Jobs \X Nat)
      OBVIOUS
    <2> QED BY <2>1, <2>2, <2>3, <2>4 DEF TypeOK
  <1>2. ASSUME NEW w \in Workers PROVE WorkerOK(w) /\ ReadOK(w) /\ MergeOK(w)
    BY <1>0 DEF WorkerOK, ReadOK, MergeOK, Reading, Inside, Programs
  <1>3. JobsOK /\ MainOK
    BY <1>0 DEF JobsOK, MainOK
  <1>4. ScreenOK
    BY <1>0 DEF ScreenOK
  <1>5. Finished = {}
    BY <1>0 DEF Finished
  <1>6. BitsAreConserved
    <2>1. ASSUME NEW b \in Bits PROVE Balanced(b)
      <3>1. (\A w \in Workers : InLocal(b)[w] = 0 /\ InRead(b)[w] = 0) /\ \A f \in Files : InFinished(b)[f] = 0
        BY <1>0, <1>5 DEF InLocal, InRead, InFinished, Reading
      <3>2. SumOver(Workers, InLocal(b)) = 0 /\ SumOver(Workers, InRead(b)) = 0 /\ SumOver(Files, InFinished(b)) = 0
        BY <1>0, <3>1, SumOfZeros
      <3>3. global[b] = 0
        BY <1>0
      <3> QED BY <3>2, <3>3 DEF Balanced
    <2> QED BY <2>1, BalancedIs
  <1>7. PrintOK
    <2>1. \A j : Output(j) = << >>
      BY NoLines DEF Output
    <2> QED BY <1>5, <2>1 DEF PrintOK
  <1> QED BY <1>1, <1>2, <1>3, <1>4, <1>6, <1>7 DEF IInv

LEMMA NextKeeps == IInv /\ [Next]_vars => IInv'
  <1> SUFFICES ASSUME IInv, [Next]_vars PROVE IInv'
    OBVIOUS
  <1>1. TypeOK' /\ MainOK' /\ JobsOK'
    BY TypeNext, MainNext, JobsNext
  <1>2. CASE UNCHANGED vars
    <2>1. /\ \A w \in Workers : WorkerOK(w)' /\ ReadOK(w)' /\ MergeOK(w)'
          /\ ScreenOK'
      BY <1>2 DEF IInv, vars, WorkerOK, ReadOK, MergeOK, ScreenOK, Reading, IsJob
    <2>2. BitsAreConserved' /\ PrintOK'
      BY <1>2 DEF IInv, vars, BitsAreConserved, PrintOK, Finished, Reading, Output, Expected, SoFar, Input
    <2> QED BY <1>1, <2>1, <2>2 DEF IInv
  <1>3. CASE Main
    <2>1. \A w \in Workers : WorkerOK(w)' /\ ReadOK(w)' /\ MergeOK(w)'
      BY <1>3, WorkersMain, ReadMain
    <2>2. ScreenOK'
      BY <1>3, MainSteps DEF IInv, ScreenOK, workerVars, sharedVars, args
    <2>3. BitsAreConserved' /\ PrintOK'
      BY <1>3, BitsMain, PrintMain
    <2> QED BY <1>1, <2>1, <2>2, <2>3 DEF IInv
  <1>4. ASSUME NEW w \in Workers, Step(w) PROVE IInv'
    <2>1. \A v \in Workers : WorkerOK(v)' /\ ReadOK(v)' /\ MergeOK(v)'
      BY <1>4, WorkersStep, ReadStep, MergeStep
    <2>2. ScreenOK' /\ BitsAreConserved' /\ PrintOK'
      BY <1>1, <1>4, ScreenStep, BitsStep, PrintStep
    <2> QED BY <1>1, <2>1, <2>2 DEF IInv
  <1> QED BY <1>2, <1>3, <1>4 DEF Next

\* What the theorems below rest on holds throughout every run of the three
\* programs, for any number of threads, any tree of files and any input.
THEOREM Invariant == Spec => []IInv
  BY Initially, NextKeeps, PTL DEF Spec

\* Every variable of the three programs keeps its type: a worker is only ever at
\* a statement of its loop, and only a thread that was created owns the lock.
THEOREM TypeCorrectness == Spec => []TypeOK
  <1>1. IInv => TypeOK
    BY DEF IInv
  <1> QED BY Invariant, <1>1, PTL

\* One worker at a time is between the lock and the unlock (merge_lock of
\* fhistogram-mt, stdout_mutex of fauxgrep-mt and fibs).
OneInside == \A v, w \in Workers : at[v] \in Inside /\ at[w] \in Inside => v = w

\* The mutex of each program does its work, for any number of threads.
THEOREM MutualExclusion == Spec => []OneInside
  <1>1. IInv => OneInside
    BY DEF IInv, WorkerOK, OneInside
  <1> QED BY Invariant, <1>1, PTL

\* For any number of threads, any tree and any chunk, the bits that the workers
\* of fhistogram-mt have read are, each once, in the global histogram or in the
\* local one of their reader: merge_histogram loses none and merges none twice.
THEOREM BitsStay == Spec => []BitsAreConserved
  <1>1. IInv => BitsAreConserved
    BY DEF IInv
  <1> QED BY Invariant, <1>1, PTL

\* When main has joined its threads, the screen and the output are those of the
\* sequential programs, for any tree or lines and whichever files fopen refused.
THEOREM SameAsSequential == Spec => []OutputIsSequential
  <1>1. ASSUME IInv PROVE OutputIsSequential
    <2>0. TypeOK /\ MainOK /\ ScreenOK /\ PrintOK /\ BitsAreConserved /\ program \in Programs /\ \A w \in Workers : WorkerOK(w) /\ MergeOK(w)
      BY <1>1 DEF IInv, TypeOK
    <2>1. SUFFICES ASSUME mainAt = "done"
                   PROVE  /\ \A b \in Bits : screen[b] =
                               IF program # "fhistogram" THEN 0
                               ELSE SumOver(Files, [f \in Files |-> IF f \in unreadable THEN 0 ELSE CountAll(f, b)])
                          /\ \A j \in DOMAIN Input : Output(j) = Expected(j)
      BY DEF OutputIsSequential
    <2>2. closed /\ fifo = << >> /\ next = Len(Input) + 1 /\ ended = threads
      BY <2>0, <2>1 DEF MainOK
    <2>3. \A w \in Workers : at[w] = "pop" /\ held[w] = NoJob /\ local[w] = Empty
      BY <2>0, <2>2 DEF WorkerOK, MergeOK
    <2>4. DOMAIN Input = 1..(next - 1) /\ NoJob \notin DOMAIN Input
      <3>1. Len(Input) \in Nat /\ DOMAIN Input = 1..Len(Input) /\ DOMAIN Input \subseteq Jobs /\ NoJob \notin Jobs
        BY <2>0, Given
      <3> HIDE DEF Input
      <3>2. next - 1 = Len(Input)
        BY <2>2, <3>1
      <3> QED BY <3>1, <3>2
    <2>5. \A j \in DOMAIN Input : j \in Finished <=> program = "fibs" \/ j \in Files
      BY <2>2, <2>3, <2>4 DEF Finished
    <2>6. ASSUME NEW j \in DOMAIN Input PROVE Output(j) = Expected(j)
      <3>1. CASE j \in Finished
        BY <2>0, <3>1 DEF PrintOK
      <3>2. CASE j \notin Finished
        <4>1. program # "fibs" /\ j \notin Files /\ \A w \in Workers : held[w] # j
          BY <2>3, <2>4, <2>5, <2>6, <3>2
        <4>2. Output(j) = << >>
          BY <2>0, <2>6, <3>2, <4>1 DEF PrintOK
        <4>3. Expected(j) = << >>
          BY <2>0, <4>1, ExpectedIs DEF Programs
        <4> QED BY <4>2, <4>3
      <3> QED BY <3>1, <3>2
    <2>7. screen = global
      BY <2>0, <2>3 DEF ScreenOK
    <2>8. ASSUME program # "fhistogram", NEW b \in Bits PROVE screen[b] = 0
      BY <2>0, <2>8 DEF ScreenOK, Empty
    <2>9. ASSUME program = "fhistogram", NEW b \in Bits
          PROVE  screen[b] = SumOver(Files, [f \in Files |-> IF f \in unreadable THEN 0 ELSE CountAll(f, b)])
      <3>1. Balanced(b)
        BY <2>0, <2>9, BalancedIs
      <3>2. (\A w \in Workers : InLocal(b)[w] = 0 /\ InRead(b)[w] = 0) /\ IsFiniteSet(Workers) /\ IsFiniteSet(Files)
        BY <2>0, <2>3, Given DEF InLocal, InRead, Reading, Empty
      <3>3. SumOver(Workers, InLocal(b)) = 0 /\ SumOver(Workers, InRead(b)) = 0
        BY <3>2, SumOfZeros
      <3> DEFINE all == [f \in Files |-> IF f \in unreadable THEN 0 ELSE CountAll(f, b)]
      <3>4. \A f \in Files : f \in Finished
        <4>1. Input = Tree /\ \A f \in Files : f \in DOMAIN Tree
          BY <2>0, <2>9, Given DEF Files
        <4> QED BY <2>5, <4>1
      <3>5. \A f \in Files : InFinished(b)[f] = all[f]
        BY <3>4 DEF InFinished
      <3>6. IntOn(InFinished(b), Files) /\ global[b] \in Nat
        BY <2>0, Summands
      <3> HIDE DEF all
      <3>7. SumOver(Files, InFinished(b)) = SumOver(Files, all) /\ SumOver(Files, InFinished(b)) \in Int
        BY <3>2, <3>5, <3>6, SumOfSame
      <3>8. global[b] = SumOver(Files, all)
        BY <3>1, <3>3, <3>6, <3>7 DEF Balanced
      <3> QED BY <2>7, <3>8 DEF all
    <2> QED BY <2>6, <2>8, <2>9
  <1> QED BY Invariant, <1>1, PTL

\* No step of any thread takes a count on the screen back: print_histogram is
\* called under merge_lock, after the merge of the worker that draws.
THEOREM CountsOnlyGrow == Spec => ScreenNeverGoesBack
  <1>1. ASSUME IInv, [Next]_vars PROVE [\A b \in Bits : screen'[b] >= screen[b]]_vars
    <2>0. \A b \in Bits : screen[b] \in Nat
      BY <1>1 DEF IInv, TypeOK, Bins
    <2>1. CASE UNCHANGED vars
      BY <2>1
    <2>2. CASE Main
      <3>1. screen' = screen
        BY <1>1, <2>2, MainSteps DEF sharedVars
      <3>2. \A b \in Bits : screen[b] >= screen[b]
        BY <2>0
      <3> QED BY <3>1, <3>2
    <2>3. ASSUME NEW w \in Workers, Step(w) PROVE \A b \in Bits : screen'[b] >= screen[b]
      BY <1>1, <2>3, ScreenStep
    <2> QED BY <1>1, <2>1, <2>2, <2>3 DEF Next
  <1> QED BY Invariant, <1>1, PTL DEF Spec, ScreenNeverGoesBack
=============================================================================
