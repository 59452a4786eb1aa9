------------------------- MODULE FileServiceProofs -------------------------
(***************************************************************************)
(* Proofs about FileService: for any number of client processes, users,    *)
(* directories and files, blocks per file, requests and crashes.           *)
(***************************************************************************)
EXTENDS FileService, FiniteSetTheorems, TLAPS

Stages == {"off", "save", "ask", "reply", "told", "again", "prompt", "header", "payload",
           "next", "message", "write", "check", "quit", "failed"}

Signatures == {Password[c] : c \in Clients} \X Clients
SomePaths  == Paths \cup {Missing, None}
Arrays     == UNION {[D -> Nat] : D \in SUBSET Nat}

Threads == [at : {"closed", "accepted", "register", "insert", "request", "send"}, path : SomePaths,
            sig : Signatures \cup {None}, status : Statuses, count : Nat, left : SUBSET Nat]

Processes == [at : Stages, salt : Clients, path : SomePaths, count : Nat, header : Unit,
              array : Arrays, i : Nat]

Types ==
  /\ users \in [Names -> Signatures \cup {None}]
  /\ thread \in [Clients -> Threads]
  /\ wire \in [Clients -> Seq(Unit)] /\ rio \in [Clients -> Seq(Unit)]
  /\ salts \in [Dirs -> Seq(Names \X Clients)]
  /\ client \in [Clients -> Processes]
  /\ gets \in [Clients -> Nat]
  /\ crashes \in 0..MaxCrashes

-----------------------------------------------------------------------------
(* What is under way between the server and a client *)

UnitsFor(c) == {wire[c][k] : k \in DOMAIN wire[c]} \cup {rio[c][k] : k \in DOMAIN rio[c]}

\* Units that have been sent, or are still to be sent.
Outstanding(c) == Len(wire[c]) + Len(rio[c]) + 2 * Cardinality(thread[c].left)

Quiet(c) == wire[c] = << >> /\ rio[c] = << >> /\ thread[c].at \in {"closed", "accepted"}

\* The answer to c's request has status S in K blocks, and c has taken used units.
Answered(c, K, S, used) ==
  /\ \A u \in UnitsFor(c) : /\ u.request = gets[c] /\ u.path = client[c].path
                            /\ u.count = K /\ u.status = S /\ u.num < K
  /\ At(c, "send") => thread[c].count = K /\ thread[c].status = S
  /\ Outstanding(c) + used <= 2 * K
  /\ S # "OK" => K = 1

\* A header that c acts on.
HeaderOK(c) ==
  LET h == client[c].header IN
    h.request = gets[c] /\ h.path = client[c].path /\ h.num < h.count

ThreadOK(c) ==
  /\ thread[c].left \subseteq 0..(thread[c].count - 1)
  /\ At(c, "send") <=> thread[c].left # {}
  /\ thread[c].at \in {"register", "insert", "request", "send"} => thread[c].path = client[c].path
  /\ At(c, "request") => thread[c].path \in Paths \cup {Missing}

\* Where c is, and what it has still to read.
ReadingOK(c) ==
  LET me == client[c] IN
    /\ me.at \in {"off", "save", "ask", "again", "prompt", "write", "check", "quit"} => Quiet(c)
    /\ me.at \in {"reply", "header"} =>
         /\ thread[c].at \in {"register", "insert", "request"} => wire[c] = << >> /\ rio[c] = << >>
         /\ me.at = "reply" => thread[c].at # "request"
         /\ me.at = "header" => thread[c].at \notin {"register", "insert"}
         /\ \E K \in Nat, S \in Statuses : Answered(c, K, S, 0) /\ (me.at = "reply" => K = 1)
    /\ me.at \in {"told", "message", "payload", "next"} =>
         /\ thread[c].at \notin {"register", "insert", "request"}
         /\ HeaderOK(c)
         /\ me.at \in {"told", "message"} =>
              me.header.count = 1 /\ Answered(c, 1, me.header.status, 1)
         /\ me.at = "payload" =>
              me.header.status = "OK" /\ Answered(c, me.count, "OK", 2 * me.i + 1)
         /\ me.at = "next" =>
              me.header.status = "OK" /\ Answered(c, me.count, "OK", 2 * me.i + 2)

LocalsOK(c) ==
  LET me == client[c] IN
    /\ gets[c] <= MaxGets[c]
    /\ me.i <= me.count
    /\ DOMAIN me.array \subseteq 0..(me.count - 1)
    /\ me.at \in {"prompt", "header"} => me.i = 0 /\ me.array = << >>
    /\ me.at \in {"payload", "next"} => me.header.count = me.count /\ me.i < me.count
    /\ me.at \in {"write", "check"} => HeaderOK(c)
    /\ me.at \in {"off", "save", "ask"} => me.path = None

ConnectionOK(c) == ThreadOK(c) /\ ReadingOK(c) /\ LocalsOK(c)

IInv == Types /\ \A c \in Clients : ConnectionOK(c)

-----------------------------------------------------------------------------
(* Lemmas *)

LEMMA Cut ==
  ASSUME NEW S, NEW s \in Seq(S), NEW n \in 1..Len(s)
  PROVE  /\ SubSeq(s, 2, n) \in Seq(S) /\ Len(SubSeq(s, 2, n)) = n - 1
         /\ SubSeq(s, n + 1, Len(s)) \in Seq(S) /\ Len(SubSeq(s, n + 1, Len(s))) = Len(s) - n
         /\ \A k \in 1..(n - 1) : SubSeq(s, 2, n)[k] = s[k + 1]
         /\ \A k \in 1..(Len(s) - n) : SubSeq(s, n + 1, Len(s))[k] = s[k + n]
  <1>1. n \in Nat /\ Len(s) \in Nat /\ 1 <= n /\ n <= Len(s)
    OBVIOUS
  <1>2. SubSeq(s, 2, n) = [k \in 1..(n - 1) |-> s[k + 1]]
    OBVIOUS
  <1>3. SubSeq(s, n + 1, Len(s)) = [k \in 1..(Len(s) - n) |-> s[k + n]]
    OBVIOUS
  <1>4. \A k \in 1..(n - 1) : s[k + 1] \in S
    OBVIOUS
  <1>5. \A k \in 1..(Len(s) - n) : s[k + n] \in S
    OBVIOUS
  <1> QED BY <1>1, <1>2, <1>3, <1>4, <1>5

LEMMA HeadOfBoth ==
  ASSUME NEW S, NEW r \in Seq(S), NEW w \in Seq(S)
  PROVE  /\ r # << >> => Head(r \o w) = r[1] /\ 1 \in DOMAIN r /\ r[1] \in S
         /\ r = << >> /\ w # << >> => Head(r \o w) = w[1] /\ 1 \in DOMAIN w /\ w[1] \in S
  <1>1. r \o w \in Seq(S) /\ Len(r \o w) = Len(r) + Len(w) /\ Len(r) \in Nat /\ Len(w) \in Nat
    OBVIOUS
  <1>2. CASE r # << >>
    <2>1. 1 \in DOMAIN r /\ 1 \in 1..Len(r) /\ r[1] \in S
      BY <1>2
    <2>2. (r \o w)[1] = r[1]
      BY <1>1, <2>1
    <2> QED BY <1>1, <1>2, <2>1, <2>2
  <1>3. CASE r = << >> /\ w # << >>
    <2>1. 1 \in DOMAIN w /\ w[1] \in S /\ Len(r) = 0 /\ 1 \in 1..Len(w)
      BY <1>3
    <2>2. (r \o w)[1] = w[1]
      BY <1>1, <2>1
    <2> QED BY <1>1, <1>3, <2>1, <2>2
  <1> QED BY <1>2, <1>3

\* Reading a unit: it is one of those under way, and the others stay.
LEMMA TakeTakesOne ==
  ASSUME Types, NEW c \in Clients, Take(c)
  PROVE  /\ wire' \in [Clients -> Seq(Unit)] /\ rio' \in [Clients -> Seq(Unit)]
         /\ \A b \in Clients \ {c} : wire'[b] = wire[b] /\ rio'[b] = rio[b]
         /\ Upcoming(c) \in UnitsFor(c) /\ Upcoming(c) \in Unit
         /\ UnitsFor(c)' \subseteq UnitsFor(c)
         /\ Len(wire'[c]) + Len(rio'[c]) = Len(wire[c]) + Len(rio[c]) - 1
  <1>1. wire[c] \in Seq(Unit) /\ rio[c] \in Seq(Unit)
    BY DEF Types
  <1>2. CASE rio[c] # << >> /\ rio' = [rio EXCEPT ![c] = Tail(@)] /\ UNCHANGED wire
    <2>1. rio'[c] = Tail(rio[c]) /\ wire'[c] = wire[c]
      BY <1>2 DEF Types
    <2>2. /\ Tail(rio[c]) \in Seq(Unit) /\ Len(Tail(rio[c])) = Len(rio[c]) - 1
          /\ \A k \in DOMAIN Tail(rio[c]) : k + 1 \in DOMAIN rio[c] /\ Tail(rio[c])[k] = rio[c][k + 1]
      BY <1>1, <1>2
    <2>3. Upcoming(c) = rio[c][1] /\ 1 \in DOMAIN rio[c] /\ rio[c][1] \in Unit
      BY <1>1, <1>2, HeadOfBoth DEF Upcoming
    <2>4. UnitsFor(c)' \subseteq UnitsFor(c)
      BY <2>1, <2>2 DEF UnitsFor
    <2> QED BY <1>1, <1>2, <2>1, <2>2, <2>3, <2>4 DEF Types, UnitsFor
  <1>3. CASE rio[c] = << >> /\ wire[c] # << >>
             /\ \E n \in 1..Len(wire[c]) : /\ rio' = [rio EXCEPT ![c] = SubSeq(wire[c], 2, n)]
                                          /\ wire' = [wire EXCEPT ![c] = SubSeq(@, n + 1, Len(@))]
    <2>1. PICK n \in 1..Len(wire[c]) : /\ rio' = [rio EXCEPT ![c] = SubSeq(wire[c], 2, n)]
                                      /\ wire' = [wire EXCEPT ![c] = SubSeq(@, n + 1, Len(@))]
      BY <1>3
    <2> DEFINE r == SubSeq(wire[c], 2, n)
               w == SubSeq(wire[c], n + 1, Len(wire[c]))
    <2>2. rio'[c] = r /\ wire'[c] = w /\ rio' = [rio EXCEPT ![c] = r] /\ wire' = [wire EXCEPT ![c] = w]
      BY <2>1 DEF Types
    <2>3. /\ r \in Seq(Unit) /\ Len(r) = n - 1 /\ w \in Seq(Unit) /\ Len(w) = Len(wire[c]) - n
          /\ \A k \in 1..(n - 1) : r[k] = wire[c][k + 1]
          /\ \A k \in 1..(Len(wire[c]) - n) : w[k] = wire[c][k + n]
      BY <1>1, Cut
    <2>4. Upcoming(c) = wire[c][1] /\ 1 \in DOMAIN wire[c] /\ wire[c][1] \in Unit
      BY <1>1, <1>3, HeadOfBoth DEF Upcoming
    <2> HIDE DEF r, w
    <2>a. Len(wire[c]) \in Nat /\ DOMAIN wire[c] = 1..Len(wire[c]) /\ n \in Nat /\ 1 <= n /\ n <= Len(wire[c])
      BY <1>1
    <2>b. DOMAIN r = 1..(n - 1) /\ DOMAIN w = 1..(Len(wire[c]) - n) /\ Len(rio[c]) = 0
      BY <1>1, <1>3, <2>3
    <2>5. \A k \in DOMAIN r : k + 1 \in DOMAIN wire[c] /\ r[k] = wire[c][k + 1]
      BY <2>3, <2>a, <2>b
    <2>6. \A k \in DOMAIN w : k + n \in DOMAIN wire[c] /\ w[k] = wire[c][k + n]
      BY <2>3, <2>a, <2>b
    <2>7. UnitsFor(c)' \subseteq UnitsFor(c)
      BY <2>2, <2>5, <2>6 DEF UnitsFor
    <2>8. Len(wire'[c]) + Len(rio'[c]) = Len(wire[c]) + Len(rio[c]) - 1
      BY <2>2, <2>3, <2>a, <2>b
    <2>9. wire' \in [Clients -> Seq(Unit)] /\ rio' \in [Clients -> Seq(Unit)]
      BY <2>2, <2>3 DEF Types
    <2>10. \A b \in Clients \ {c} : wire'[b] = wire[b] /\ rio'[b] = rio[b]
      BY <2>2 DEF Types
    <2> QED BY <2>4, <2>7, <2>8, <2>9, <2>10 DEF UnitsFor
  <1> QED BY <1>2, <1>3 DEF Take

\* A step of one connection leaves the others alone.
Unmoved(b) == /\ thread'[b] = thread[b] /\ wire'[b] = wire[b] /\ rio'[b] = rio[b]
              /\ client'[b] = client[b] /\ gets'[b] = gets[b]

LEMMA UnmovedKeeps ==
  ASSUME NEW b \in Clients, ConnectionOK(b), Unmoved(b)
  PROVE  ConnectionOK(b)'
  <1>1. UnitsFor(b)' = UnitsFor(b) /\ Outstanding(b)' = Outstanding(b)
    BY DEF Unmoved, UnitsFor, Outstanding
  <1>2. \A K, S, used : Answered(b, K, S, used)' <=> Answered(b, K, S, used)
    BY <1>1 DEF Unmoved, Answered, At
  <1>3. ThreadOK(b)' /\ LocalsOK(b)'
    BY DEF ConnectionOK, Unmoved, ThreadOK, LocalsOK, At, HeaderOK
  <1>4. ReadingOK(b)'
    BY <1>2 DEF ConnectionOK, Unmoved, ReadingOK, Quiet, HeaderOK
  <1> QED BY <1>3, <1>4 DEF ConnectionOK

LEMMA CardinalityOfLeft ==
  ASSUME NEW K \in Nat, NEW L \in SUBSET (0..(K - 1))
  PROVE  /\ IsFiniteSet(L) /\ Cardinality(L) \in Nat
         /\ L = {} <=> Cardinality(L) = 0
         /\ Cardinality(0..(K - 1)) = K
         /\ \A b \in L : Cardinality(L \ {b}) = Cardinality(L) - 1
  <1>1. IsFiniteSet(0..(K - 1)) /\ Cardinality(0..(K - 1)) = K
    BY FS_Interval
  <1>2. IsFiniteSet(L)
    BY <1>1, FS_Subset
  <1> QED BY <1>1, <1>2, FS_CardinalityType, FS_EmptySet, FS_RemoveElement

LEMMA Counted ==
  ASSUME IInv, NEW c \in Clients
  PROVE  /\ Len(wire[c]) \in Nat /\ Len(rio[c]) \in Nat /\ Cardinality(thread[c].left) \in Nat
         /\ thread[c].left = {} <=> Cardinality(thread[c].left) = 0
         /\ Outstanding(c) \in Nat
         /\ \A b \in thread[c].left : Cardinality(thread[c].left \ {b}) = Cardinality(thread[c].left) - 1
  <1>1. wire[c] \in Seq(Unit) /\ rio[c] \in Seq(Unit) /\ thread[c].count \in Nat
        /\ thread[c].left \in SUBSET (0..(thread[c].count - 1))
    BY DEF IInv, Types, Threads, ConnectionOK, ThreadOK
  <1>2. Len(wire[c]) \in Nat /\ Len(rio[c]) \in Nat
    BY <1>1
  <1>3. /\ Cardinality(thread[c].left) \in Nat
        /\ thread[c].left = {} <=> Cardinality(thread[c].left) = 0
        /\ \A b \in thread[c].left : Cardinality(thread[c].left \ {b}) = Cardinality(thread[c].left) - 1
    <2> DEFINE K == thread[c].count
               L == thread[c].left
    <2>1. K \in Nat /\ L \in SUBSET (0..(K - 1))
      BY <1>1
    <2> HIDE DEF K, L
    <2>2. Cardinality(L) \in Nat /\ (L = {} <=> Cardinality(L) = 0)
          /\ \A b \in L : Cardinality(L \ {b}) = Cardinality(L) - 1
      BY <2>1, CardinalityOfLeft
    <2> QED BY <2>2 DEF L
  <1>4. Outstanding(c) \in Nat
    <2>1. \A a, b, k \in Nat : a + b + 2 * k \in Nat
      OBVIOUS
    <2> QED BY <1>2, <1>3, <2>1 DEF Outstanding
  <1> QED BY <1>2, <1>3, <1>4

-----------------------------------------------------------------------------
(* The server *)

LEMMA IdleIsThread == Idle \in Threads /\ Idle.left = {} /\ Idle.at = "closed"
  BY DEF Idle, Threads, SomePaths, Statuses

Waiting == {"register", "insert", "request"}

\* The thread has a request and answers it: nothing has been sent before.
LEMMA RespondKeeps ==
  ASSUME IInv, NEW c \in Clients, thread[c].at \in Waiting,
         NEW status \in Statuses, NEW count \in Nat, Respond(c, status, count),
         status # "OK" => count = 1, thread[c].at # "request" => count = 1,
         UNCHANGED <<wire, rio, client, gets>>
  PROVE  /\ thread' \in [Clients -> Threads] /\ ConnectionOK(c)'
         /\ \A b \in Clients \ {c} : thread'[b] = thread[b]
  <1> DEFINE t == IF count = 0 THEN Idle
                  ELSE [thread[c] EXCEPT !.at = "send", !.status = status, !.count = count,
                                         !.left = 0..(count - 1)]
  <1>1. thread' = [thread EXCEPT ![c] = t]
    BY DEF Respond
  <1>2. thread[c] \in Threads /\ client[c] \in Processes
    BY DEF IInv, Types
  <1>3. t \in Threads /\ t.path = (IF count = 0 THEN None ELSE thread[c].path)
        /\ t.left = 0..(count - 1) /\ (t.left # {} <=> count # 0) /\ (t.at = "send" <=> count # 0)
        /\ t.at \in {"closed", "send"}
        /\ (t.at = "send" => t.count = count /\ t.status = status)
        /\ t.left \subseteq 0..(t.count - 1)
    <2>1. CASE count = 0
      <3>1. t = Idle /\ 0..(count - 1) = {} /\ 0..(Idle.count - 1) = {}
        BY <2>1 DEF Idle
      <3> QED BY <2>1, <3>1, IdleIsThread DEF Idle
    <2>2. CASE count # 0
      <3>1. 0 \in 0..(count - 1) /\ 0..(count - 1) \in SUBSET Nat
        BY <2>2
      <3> QED BY <1>2, <2>2, <3>1 DEF Threads
    <2> QED BY <2>1, <2>2
  <1> HIDE DEF t
  <1>4. thread'[c] = t /\ thread' \in [Clients -> Threads] /\ \A b \in Clients \ {c} : thread'[b] = thread[b]
    BY <1>1, <1>3 DEF IInv, Types
  <1>5. ThreadOK(c)'
    <2>1. thread[c].path = client[c].path
      BY DEF IInv, ConnectionOK, ThreadOK, Waiting
    <2> QED BY <1>3, <1>4, <2>1 DEF ThreadOK, At
  <1>6. LocalsOK(c)'
    BY DEF IInv, ConnectionOK, LocalsOK, HeaderOK
  <1>7. client[c].at \in {"reply", "header", "failed"} /\ (client[c].at = "reply" => count = 1)
    BY <1>2 DEF IInv, ConnectionOK, ReadingOK, Quiet, Waiting, Processes, Stages
  <1>8. CASE client[c].at \in {"reply", "header"}
    <2>1. wire[c] = << >> /\ rio[c] = << >>
      BY <1>8 DEF IInv, ConnectionOK, ReadingOK, Waiting
    <2>2. UnitsFor(c)' = {}
      BY <2>1 DEF UnitsFor
    <2>3. Outstanding(c)' = 2 * count
      BY <1>3, <1>4, <2>1, CardinalityOfLeft, SMTT(30) DEF Outstanding
    <2>4. Answered(c, count, status, 0)'
      BY <1>3, <1>4, <2>2, <2>3 DEF Answered, At
    <2>5. client[c].at = "reply" => count = 1
      BY <1>7
    <2>6. thread'[c].at \notin {"register", "insert", "request"}
      BY <1>3, <1>4
    <2>7. ReadingOK(c)'
      BY <1>8, <2>4, <2>5, <2>6 DEF ReadingOK
    <2> QED BY <1>4, <1>5, <1>6, <2>7 DEF ConnectionOK
  <1>9. CASE client[c].at = "failed"
    BY <1>4, <1>5, <1>6, <1>9 DEF ConnectionOK, ReadingOK
  <1> QED BY <1>4, <1>7, <1>8, <1>9

\* A step that keeps the connection of c sound and leaves the others alone.
Kept(c) == Types' /\ ConnectionOK(c)' /\ \A b \in Clients \ {c} : Unmoved(b)

LEMMA KeptIsEnough == ASSUME IInv, NEW c \in Clients, Kept(c) PROVE IInv'
  <1>1. ASSUME NEW b \in Clients \ {c} PROVE ConnectionOK(b)'
    BY UnmovedKeeps DEF Kept, IInv
  <1> QED BY <1>1 DEF Kept, IInv

LEMMA ServerKeeps == ASSUME IInv, NEW c \in Clients, Server(c) PROVE IInv'
  <1>1. /\ UNCHANGED <<rio, salts, disk, client, gets, crashes>>
        /\ thread[c] \in Threads /\ client[c] \in Processes /\ ConnectionOK(c)
    BY DEF Server, CheckName, InsertUser, HandleRequest, SendBlock, ServerOnly, IInv, Types
  <1>2. ASSUME NEW status \in Statuses, NEW count \in Nat, Respond(c, status, count),
               thread[c].at \in Waiting, status # "OK" => count = 1,
               thread[c].at # "request" => count = 1,
               users' \in [Names -> Signatures \cup {None}], UNCHANGED wire
        PROVE  IInv'
    <2>1. /\ thread' \in [Clients -> Threads] /\ ConnectionOK(c)'
          /\ \A b \in Clients \ {c} : thread'[b] = thread[b]
      BY <1>1, <1>2, RespondKeeps
    <2> QED BY <1>1, <1>2, <2>1, KeptIsEnough DEF Kept, Types, IInv, Unmoved
  <1>3. CASE CheckName(c)
    <2>1. At(c, "register") /\ users' \in [Names -> Signatures \cup {None}] /\ UNCHANGED wire
      BY <1>3 DEF CheckName, IInv, Types
    <2>2. CASE Message(c, "USER_EXISTS")
      BY <1>2, <2>1, <2>2 DEF Message, Waiting, At, Statuses
    <2>3. CASE thread' = [thread EXCEPT ![c].at = "insert"]
      <3>1. /\ thread'[c] = [thread[c] EXCEPT !.at = "insert"] /\ thread' \in [Clients -> Threads]
            /\ \A b \in Clients \ {c} : thread'[b] = thread[b]
        BY <1>1, <2>3 DEF IInv, Types, Threads
      <3>2. UnitsFor(c)' = UnitsFor(c) /\ Outstanding(c)' = Outstanding(c)
        BY <1>1, <2>1, <3>1 DEF UnitsFor, Outstanding, Threads
      <3>3. \A K, S, used : Answered(c, K, S, used) => Answered(c, K, S, used)'
        BY <1>1, <3>1, <3>2 DEF Answered, At, Threads
      <3>4. ThreadOK(c)' /\ LocalsOK(c)'
        BY <1>1, <2>1, <3>1 DEF ConnectionOK, ThreadOK, LocalsOK, HeaderOK, At, Threads
      <3>5. ReadingOK(c)'
        BY <1>1, <2>1, <3>1, <3>3 DEF ConnectionOK, ReadingOK, HeaderOK, At, Threads, Quiet
      <3> QED BY <1>1, <2>1, <3>1, <3>4, <3>5, KeptIsEnough DEF Kept, ConnectionOK, Types, IInv, Unmoved
    <2> QED BY <1>3, <2>2, <2>3 DEF CheckName
  <1>4. CASE InsertUser(c)
    <2>1. /\ At(c, "insert") /\ users' \in [Names -> Signatures \cup {None}] /\ UNCHANGED wire
          /\ Message(c, "OK")
      BY <1>1, <1>4 DEF InsertUser, IInv, Types, Threads
    <2> QED BY <1>2, <2>1 DEF Message, Waiting, At, Statuses
  <1>5. CASE HandleRequest(c)
    <2>1. At(c, "request") /\ users' \in [Names -> Signatures \cup {None}] /\ UNCHANGED wire
      BY <1>5 DEF HandleRequest, IInv, Types
    <2>2. \E status \in Statuses, count \in Nat :
             Respond(c, status, count) /\ (status # "OK" => count = 1)
      <3>1. \A p \in Paths : Blocks[p] \in Nat
        BY ServiceAssumption
      <3>2. thread[c].path \in Paths \cup {Missing}
        BY <1>1, <2>1 DEF ConnectionOK, ThreadOK
      <3> QED BY <1>5, <3>1, <3>2 DEF HandleRequest, Message, Statuses
    <2> QED BY <1>2, <2>1, <2>2 DEF Waiting, At
  <1>6. CASE SendBlock(c)
    <2>1. PICK b \in thread[c].left :
             /\ At(c, "send") /\ users' = users
             /\ wire' = [wire EXCEPT ![c] = @ \o <<Block(c, "header", b), Block(c, "payload", b)>>]
             /\ thread' = [thread EXCEPT ![c] = AfterBlock([thread[c] EXCEPT !.left = thread[c].left \ {b}])]
      BY <1>6 DEF SendBlock
    <2> DEFINE h == Block(c, "header", b)
               d == Block(c, "payload", b)
               L == thread[c].left \ {b}
    <2>2. b \in Nat /\ b < thread[c].count /\ L \subseteq 0..(thread[c].count - 1) /\ thread[c].path = client[c].path
      BY <1>1, <2>1 DEF ConnectionOK, ThreadOK, Threads, At
    <2>3. h \in Unit /\ d \in Unit
      BY <1>1, <2>2 DEF Block, Unit, Threads, SomePaths, IInv, Types
    <2>4. thread'[c] = IF L = {} THEN Idle ELSE [thread[c] EXCEPT !.left = L]
      <3>1. [thread[c] EXCEPT !.left = L].left = L
        BY <1>1 DEF Threads
      <3>2. thread'[c] = AfterBlock([thread[c] EXCEPT !.left = L])
        BY <2>1 DEF IInv, Types
      <3> QED BY <3>1, <3>2 DEF AfterBlock
    <2>5. /\ thread'[c] \in Threads /\ thread'[c].left = L /\ thread'[c].at \in {"closed", "send"}
          /\ thread'[c].at = "send" <=> L # {}
          /\ L # {} => thread'[c] = [thread[c] EXCEPT !.left = L]
      <3>1. L \in SUBSET Nat
        BY <1>1 DEF Threads
      <3> HIDE DEF L
      <3>2. CASE L = {}
        BY <2>4, <3>2, IdleIsThread
      <3>3. CASE L # {}
        <4>1. thread'[c] = [thread[c] EXCEPT !.left = L]
          BY <2>4, <3>3
        <4>2. [thread[c] EXCEPT !.left = L] \in Threads
          BY <1>1, <3>1 DEF Threads
        <4>3. [thread[c] EXCEPT !.left = L].left = L /\ [thread[c] EXCEPT !.left = L].at = "send"
          BY <1>1, <2>1 DEF Threads, At
        <4> QED BY <3>3, <4>1, <4>2, <4>3
      <3> QED BY <3>2, <3>3
    <2>6. /\ thread' \in [Clients -> Threads]
          /\ \A a \in Clients \ {c} : thread'[a] = thread[a] /\ wire'[a] = wire[a]
      BY <2>1, <2>5 DEF IInv, Types
    <2>7. wire[c] \in Seq(Unit) /\ wire'[c] = wire[c] \o <<h, d>>
      BY <2>1 DEF IInv, Types
    <2> HIDE DEF h, d
    <2>8. /\ wire'[c] \in Seq(Unit) /\ Len(wire'[c]) = Len(wire[c]) + 2
          /\ \A k \in DOMAIN wire'[c] : \/ k \in DOMAIN wire[c] /\ wire'[c][k] = wire[c][k]
                                        \/ wire'[c][k] \in {h, d}
      BY <2>3, <2>7
    <2>9. wire' \in [Clients -> Seq(Unit)]
      BY <2>1, <2>8 DEF IInv, Types
    <2>10. \A u \in UnitsFor(c)' : u \in UnitsFor(c) \/ u \in {h, d}
      BY <1>1, <2>8 DEF UnitsFor
    <2>11. Outstanding(c)' = Outstanding(c)
      <3>1. Cardinality(L) = Cardinality(thread[c].left) - 1 /\ Cardinality(thread[c].left) \in Nat
            /\ Len(wire[c]) \in Nat /\ Len(rio[c]) \in Nat
        BY <2>1, Counted
      <3> HIDE DEF L
      <3>2. \A w, r, k \in Nat : (w + 2) + r + 2 * (k - 1) = w + r + 2 * k
        OBVIOUS
      <3>3. Outstanding(c)' = (Len(wire[c]) + 2) + Len(rio[c]) + 2 * (Cardinality(thread[c].left) - 1)
        BY <1>1, <2>5, <2>8, <3>1 DEF Outstanding
      <3> QED BY <3>1, <3>2, <3>3 DEF Outstanding
    <2>12. ASSUME NEW K, NEW S, NEW used, Answered(c, K, S, used)
           PROVE  Answered(c, K, S, used)'
      <3>1. thread[c].count = K /\ thread[c].status = S
        BY <2>1, <2>12 DEF Answered
      <3>2. \A u \in {h, d} : /\ u.request = gets[c] /\ u.path = client[c].path
                              /\ u.count = K /\ u.status = S /\ u.num < K
        BY <2>2, <3>1 DEF h, d, Block
      <3>3. At(c, "send")' => thread'[c].count = K /\ thread'[c].status = S
        BY <1>1, <2>5, <3>1 DEF At, Threads
      <3> QED BY <1>1, <2>10, <2>11, <2>12, <3>2, <3>3 DEF Answered
    <2>13. ThreadOK(c)' /\ LocalsOK(c)'
      <3>1. LocalsOK(c)'
        BY <1>1 DEF ConnectionOK, LocalsOK, HeaderOK
      <3>2. L # {} => thread'[c].count = thread[c].count /\ thread'[c].path = thread[c].path
        BY <1>1, <2>5 DEF Threads
      <3>3. ThreadOK(c)'
        <4>1. CASE L = {}
          BY <2>5, <4>1 DEF ThreadOK, At
        <4>2. CASE L # {}
          BY <1>1, <2>2, <2>5, <3>2, <4>2 DEF ThreadOK, At
        <4> QED BY <4>1, <4>2
      <3> QED BY <3>1, <3>3
    <2>14. ReadingOK(c)'
      BY <1>1, <2>1, <2>5, <2>12 DEF ConnectionOK, ReadingOK, HeaderOK, At, Quiet
    <2> QED BY <1>1, <2>1, <2>6, <2>9, <2>13, <2>14, KeptIsEnough DEF Kept, ConnectionOK, Types, IInv, Unmoved
  <1> QED BY <1>3, <1>4, <1>5, <1>6 DEF Server

LEMMA RestartKeeps == ASSUME IInv, Restart PROVE IInv'
  <1>1. /\ UNCHANGED <<rio, salts, disk, client, gets>>
        /\ thread' = [c \in Clients |-> Idle] /\ crashes' \in 0..MaxCrashes
        /\ users' \in [Names -> Signatures \cup {None}]
    BY ServiceAssumption DEF Restart, IInv, Types
  <1>2. thread' \in [Clients -> Threads]
    BY <1>1, IdleIsThread
  <1>3. ASSUME NEW c \in Clients,
               \/ wire'[c] = wire[c]
               \/ \E h \in Unit : /\ wire'[c] = Append(wire[c], h) /\ At(c, "send")
                                  /\ h.request = gets[c] /\ h.path = client[c].path
                                  /\ h.count = thread[c].count /\ h.status = thread[c].status
                                  /\ h.num < h.count
        PROVE  wire'[c] \in Seq(Unit) /\ ConnectionOK(c)'
    <2>1. /\ thread'[c] = Idle /\ wire[c] \in Seq(Unit) /\ rio[c] \in Seq(Unit)
          /\ Idle.left = {} /\ Idle.at = "closed" /\ Cardinality(thread'[c].left) = 0
          /\ thread[c] \in Threads /\ client[c] \in Processes /\ ConnectionOK(c)
      BY <1>1, IdleIsThread, FS_EmptySet DEF IInv, Types
    <2>2. ThreadOK(c)' /\ LocalsOK(c)'
      BY <1>1, <2>1 DEF ConnectionOK, ThreadOK, At, LocalsOK, HeaderOK
    <2>3. CASE wire'[c] = wire[c]
      <3>1. UnitsFor(c)' = UnitsFor(c)
        BY <1>1, <2>3 DEF UnitsFor
      <3>2. Outstanding(c)' <= Outstanding(c) /\ Outstanding(c)' \in Nat /\ Outstanding(c) \in Nat
        <4>1. \A w, r, k \in Nat : w + r + 2 * 0 <= w + r + 2 * k /\ w + r + 2 * 0 \in Nat
          OBVIOUS
        <4> QED BY <1>1, <2>1, <2>3, <4>1, Counted DEF Outstanding
      <3>3. ASSUME NEW K \in Nat, NEW S, NEW used \in Nat, Answered(c, K, S, used)
            PROVE  Answered(c, K, S, used)'
        BY <1>1, <2>1, <3>1, <3>2, <3>3 DEF Answered, At
      <3>4. ReadingOK(c)'
        <4>1. client' = client /\ client[c].count \in Nat /\ client[c].i \in Nat /\ thread'[c].at = "closed"
          BY <1>1, <2>1 DEF Processes
        <4>2. \A n \in Nat : 2 * n + 1 \in Nat /\ 2 * n + 2 \in Nat
          OBVIOUS
        <4>3. Quiet(c) => Quiet(c)'
          BY <1>1, <2>3, <4>1 DEF Quiet
        <4>4. HeaderOK(c)' <=> HeaderOK(c)
          BY <1>1 DEF HeaderOK
        <4> QED BY <2>1, <3>3, <4>1, <4>2, <4>3, <4>4 DEF ConnectionOK, ReadingOK
      <3> QED BY <2>1, <2>2, <2>3, <3>4 DEF ConnectionOK
    <2>4. CASE \E h \in Unit : /\ wire'[c] = Append(wire[c], h) /\ At(c, "send")
                               /\ h.request = gets[c] /\ h.path = client[c].path
                               /\ h.count = thread[c].count /\ h.status = thread[c].status
                               /\ h.num < h.count
      <3>1. PICK h \in Unit : /\ wire'[c] = Append(wire[c], h) /\ At(c, "send")
                              /\ h.request = gets[c] /\ h.path = client[c].path
                              /\ h.count = thread[c].count /\ h.status = thread[c].status
                              /\ h.num < h.count
        BY <2>4
      <3>2. /\ wire'[c] \in Seq(Unit) /\ Len(wire'[c]) = Len(wire[c]) + 1
            /\ \A k \in DOMAIN wire'[c] : \/ k \in DOMAIN wire[c] /\ wire'[c][k] = wire[c][k]
                                          \/ wire'[c][k] = h
        BY <2>1, <3>1
      <3>3. \A u \in UnitsFor(c)' : u \in UnitsFor(c) \/ u = h
        BY <1>1, <3>2 DEF UnitsFor
      <3>4. Cardinality(thread[c].left) > 0
        BY <2>1, <3>1, Counted DEF ConnectionOK, ThreadOK
      <3>5. Outstanding(c)' <= Outstanding(c) /\ Outstanding(c)' \in Nat /\ Outstanding(c) \in Nat
        <4>1. \A w, r, k \in Nat : k > 0 => (w + 1) + r + 2 * 0 <= w + r + 2 * k /\ (w + 1) + r + 2 * 0 \in Nat
          OBVIOUS
        <4> QED BY <1>1, <2>1, <3>2, <3>4, <4>1, Counted DEF Outstanding
      <3>6. ASSUME NEW K \in Nat, NEW S, NEW used \in Nat, Answered(c, K, S, used)
            PROVE  Answered(c, K, S, used)'
        BY <1>1, <2>1, <3>1, <3>3, <3>5, <3>6 DEF Answered, At
      <3>7. ReadingOK(c)'
        BY <1>1, <2>1, <3>1, <3>6, SMTT(30) DEF ConnectionOK, ReadingOK, HeaderOK, Quiet, At, Processes, Unit
      <3> QED BY <2>1, <2>2, <3>2, <3>7 DEF ConnectionOK
    <2> QED BY <1>3, <2>3, <2>4
  <1>4. CASE wire' = wire
    BY <1>1, <1>2, <1>3, <1>4 DEF IInv, Types
  <1>5. CASE \E c \in Clients : At(c, "send") /\ \E b \in thread[c].left :
               wire' = [wire EXCEPT ![c] = Append(@, Block(c, "header", b))]
    <2>0. PICK c \in Clients : At(c, "send") /\ \E b \in thread[c].left :
             wire' = [wire EXCEPT ![c] = Append(@, Block(c, "header", b))]
      BY <1>5
    <2>1. PICK b \in thread[c].left :
             At(c, "send") /\ wire' = [wire EXCEPT ![c] = Append(@, Block(c, "header", b))]
      BY <2>0
    <2> DEFINE h == Block(c, "header", b)
    <2>2. /\ thread[c] \in Threads /\ b \in Nat /\ b < thread[c].count /\ thread[c].path = client[c].path
          /\ gets[c] \in Nat
      BY <2>1 DEF IInv, Types, Threads, ConnectionOK, ThreadOK, At
    <2>3. /\ h \in Unit /\ h.request = gets[c] /\ h.path = client[c].path
          /\ h.count = thread[c].count /\ h.status = thread[c].status /\ h.num < h.count
      BY <2>2 DEF Block, Unit, Threads, SomePaths
    <2> HIDE DEF h
    <2>4. wire'[c] = Append(wire[c], h) /\ \A a \in Clients \ {c} : wire'[a] = wire[a]
      BY <2>1 DEF IInv, Types, h
    <2>5. \A a \in Clients : wire'[a] \in Seq(Unit) /\ ConnectionOK(a)'
      BY <1>3, <2>1, <2>3, <2>4
    <2>6. wire' \in [Clients -> Seq(Unit)]
      BY <2>1, <2>5 DEF IInv, Types
    <2> QED BY <1>1, <1>2, <2>5, <2>6 DEF IInv, Types
  <1> QED BY <1>4, <1>5 DEF Restart

-----------------------------------------------------------------------------
(* The client *)

\* The process goes on as p; nothing of another client changes.
Becomes(c, p) == client' = [client EXCEPT ![c] = p]

LEMMA OfClient ==
  ASSUME IInv, NEW c \in Clients
  PROVE  /\ client[c] \in Processes /\ thread[c] \in Threads
         /\ wire[c] \in Seq(Unit) /\ rio[c] \in Seq(Unit)
         /\ ConnectionOK(c) /\ Signature(c) \in Signatures
  BY DEF IInv, Types, Processes, Signature, Signatures

LEMMA BecomesIs ==
  ASSUME IInv, NEW c \in Clients, NEW p \in Processes, Becomes(c, p)
  PROVE  /\ client'[c] = p /\ client' \in [Clients -> Processes]
         /\ \A b \in Clients \ {c} : client'[b] = client[b]
  BY DEF IInv, Types, Becomes

\* The connection is as it was, and the process goes from one quiet stage to another.
LEMMA QuietStep ==
  ASSUME IInv, NEW c \in Clients, NEW p \in Processes, Becomes(c, p), Quiet(c),
         UNCHANGED <<users, thread, wire, rio, gets, crashes>>, LocalsOK(c)',
         p.at \in {"off", "save", "ask", "again", "prompt", "write", "check", "quit", "failed"},
         p.path = client[c].path,
         salts' \in [Dirs -> Seq(Names \X Clients)]
  PROVE  IInv'
  <1>1. /\ client'[c] = p /\ client' \in [Clients -> Processes]
        /\ \A b \in Clients \ {c} : client'[b] = client[b]
    BY BecomesIs
  <1>2. ConnectionOK(c)
    BY OfClient
  <1>3. Quiet(c)'
    BY DEF Quiet
  <1>4. ThreadOK(c)'
    BY <1>1, <1>2 DEF ConnectionOK, ThreadOK, At
  <1>5. ReadingOK(c)'
    BY <1>1, <1>3 DEF ReadingOK
  <1>6. Types'
    BY <1>1 DEF IInv, Types
  <1> QED BY <1>1, <1>4, <1>5, <1>6, KeptIsEnough DEF Kept, Unmoved, ConnectionOK

LEMMA SaveSaltKeeps == ASSUME IInv, NEW c \in Clients, SaveSalt(c) PROVE IInv'
  <1> DEFINE p == [client[c] EXCEPT !.at = "ask"]
  <1>1. client[c] \in Processes /\ ConnectionOK(c) /\ client[c].at = "save"
    BY OfClient DEF SaveSalt, In
  <1>2. p \in Processes /\ p.at = "ask" /\ Becomes(c, p) /\ p.path = client[c].path
    BY <1>1 DEF SaveSalt, Goto, Becomes, Processes, Stages
  <1>3. client'[c] = p
    BY <1>2, BecomesIs
  <1>4. LocalsOK(c)' /\ Quiet(c)
    BY <1>1, <1>3 DEF SaveSalt, ConnectionOK, LocalsOK, ReadingOK, Processes
  <1>5. salts' \in [Dirs -> Seq(Names \X Clients)]
    <2>1. <<User[c], client[c].salt>> \in Names \X Clients /\ Dir[c] \in Dirs
      BY <1>1 DEF Processes, Names, Dirs
    <2>2. salts \in [Dirs -> Seq(Names \X Clients)]
      BY DEF IInv, Types
    <2>3. Append(salts[Dir[c]], <<User[c], client[c].salt>>) \in Seq(Names \X Clients)
      BY <2>1, <2>2
    <2> QED BY <2>1, <2>2, <2>3 DEF SaveSalt
  <1> HIDE DEF p
  <1> QED BY <1>2, <1>4, <1>5, QuietStep DEF SaveSalt, ClientOnly

LEMMA QuitKeeps == ASSUME IInv, NEW c \in Clients, Quit(c) PROVE IInv'
  <1> DEFINE p == [client[c] EXCEPT !.at = "quit"]
  <1>1. client[c] \in Processes /\ ConnectionOK(c) /\ client[c].at = "prompt"
    BY OfClient DEF Quit, In
  <1>2. p \in Processes /\ p.at = "quit" /\ Becomes(c, p) /\ p.path = client[c].path
    BY <1>1 DEF Quit, Goto, Becomes, Processes, Stages
  <1>3. client'[c] = p
    BY <1>2, BecomesIs
  <1>4. LocalsOK(c)' /\ Quiet(c)
    BY <1>1, <1>3 DEF Quit, ConnectionOK, LocalsOK, ReadingOK, Processes
  <1>5. salts' \in [Dirs -> Seq(Names \X Clients)]
    BY DEF IInv, Types, Quit
  <1> HIDE DEF p
  <1> QED BY <1>2, <1>4, <1>5, QuietStep DEF Quit, ClientOnly

LEMMA FileStepsKeep == ASSUME IInv, NEW c \in Clients, WriteFile(c) \/ CheckFile(c) PROVE IInv'
  <1>1. client[c] \in Processes /\ ConnectionOK(c) /\ client[c].at \in {"write", "check"}
    BY OfClient DEF WriteFile, CheckFile, In
  <1>2. PICK stage \in {"check", "again", "failed"} : Goto(c, stage)
    BY DEF WriteFile, CheckFile
  <1> DEFINE p == [client[c] EXCEPT !.at = stage]
  <1>3. p \in Processes /\ p.at = stage /\ Becomes(c, p) /\ p.path = client[c].path
    BY <1>1, <1>2 DEF Goto, Becomes, Processes, Stages
  <1>4. client'[c] = p
    BY <1>3, BecomesIs
  <1>5. UNCHANGED <<users, thread, wire, rio, gets, crashes, salts>>
    BY DEF WriteFile, CheckFile, ClientOnly
  <1>6. LocalsOK(c)' /\ Quiet(c)
    BY <1>1, <1>4, <1>5 DEF ConnectionOK, LocalsOK, ReadingOK, Processes, HeaderOK
  <1>7. salts' \in [Dirs -> Seq(Names \X Clients)]
    BY <1>5 DEF IInv, Types
  <1> HIDE DEF p
  <1> QED BY <1>3, <1>5, <1>6, <1>7, QuietStep

\* A process that is killed is not asked anything any more.
LEMMA FailKeeps ==
  ASSUME IInv, NEW c \in Clients, Goto(c, "failed"), crashes' \in 0..MaxCrashes,
         UNCHANGED <<users, thread, salts, gets>>,
         wire' \in [Clients -> Seq(Unit)], rio' \in [Clients -> Seq(Unit)],
         \A b \in Clients \ {c} : wire'[b] = wire[b] /\ rio'[b] = rio[b]
  PROVE  IInv'
  <1> DEFINE p == [client[c] EXCEPT !.at = "failed"]
  <1>1. client[c] \in Processes /\ ConnectionOK(c)
    BY OfClient
  <1>2. p \in Processes /\ p.at = "failed" /\ Becomes(c, p) /\ p.path = client[c].path
    BY <1>1 DEF Goto, Becomes, Processes, Stages
  <1>3. /\ client'[c] = p /\ client' \in [Clients -> Processes]
        /\ \A b \in Clients \ {c} : client'[b] = client[b]
    BY <1>2, BecomesIs
  <1>4. LocalsOK(c)'
    BY <1>1, <1>3 DEF ConnectionOK, LocalsOK, Processes
  <1>5. ThreadOK(c)' /\ ReadingOK(c)'
    BY <1>1, <1>2, <1>3 DEF ConnectionOK, ThreadOK, ReadingOK, At
  <1>6. Types'
    BY <1>3 DEF IInv, Types
  <1> QED BY <1>3, <1>4, <1>5, <1>6, KeptIsEnough DEF Kept, Unmoved, ConnectionOK

LEMMA KillKeeps == ASSUME IInv, NEW c \in Clients, Kill(c) PROVE IInv'
  <1>1. crashes' \in 0..MaxCrashes
    BY ServiceAssumption DEF Kill, IInv, Types
  <1>2. wire' \in [Clients -> Seq(Unit)] /\ rio' \in [Clients -> Seq(Unit)]
    BY DEF Kill, IInv, Types
  <1> QED BY <1>1, <1>2, FailKeeps DEF Kill

\* A new connection, with nothing on it and nothing left in the buffer.
LEMMA ConnectKeeps ==
  ASSUME IInv, NEW c \in Clients, NEW p \in Processes, Becomes(c, p), Connect(c), rio[c] = << >>,
         UNCHANGED <<users, gets, crashes, salts>>, LocalsOK(c)',
         p.at \in {"save", "again", "prompt"}, p.path = client[c].path
  PROVE  IInv'
  <1> DEFINE t == [Idle EXCEPT !.at = "accepted"]
  <1>1. /\ client'[c] = p /\ client' \in [Clients -> Processes]
        /\ \A b \in Clients \ {c} : client'[b] = client[b]
    BY BecomesIs
  <1>2. t \in Threads /\ t.left = {} /\ t.at = "accepted"
    BY DEF Idle, Threads, SomePaths, Statuses
  <1>3. /\ thread'[c] = t /\ thread' \in [Clients -> Threads] /\ rio' = rio /\ wire'[c] = << >>
        /\ wire' \in [Clients -> Seq(Unit)]
        /\ \A b \in Clients \ {c} : thread'[b] = thread[b] /\ wire'[b] = wire[b]
    BY <1>2 DEF Connect, IInv, Types
  <1> HIDE DEF t
  <1>4. Quiet(c)'
    BY <1>2, <1>3 DEF Quiet
  <1>5. ThreadOK(c)'
    BY <1>2, <1>3 DEF ThreadOK, At
  <1>6. ReadingOK(c)'
    BY <1>1, <1>4 DEF ReadingOK
  <1>7. Types'
    BY <1>1, <1>3 DEF IInv, Types
  <1> QED BY <1>1, <1>3, <1>5, <1>6, <1>7, KeptIsEnough DEF Kept, Unmoved, ConnectionOK

LEMMA ReopenKeeps == ASSUME IInv, NEW c \in Clients, Reopen(c) PROVE IInv'
  <1> DEFINE p == [client[c] EXCEPT !.at = "prompt", !.header = NoHeader, !.count = 0,
                                    !.array = << >>, !.i = 0]
  <1>1. client[c] \in Processes /\ ConnectionOK(c) /\ client[c].at = "again"
    BY OfClient DEF Reopen, In
  <1>2. NoHeader \in Unit
    BY DEF NoHeader, Unit, Statuses
  <1>3. << >> \in Arrays /\ DOMAIN << >> = {}
    <2>1. << >> \in [{} -> Nat]
      OBVIOUS
    <2> QED BY <2>1 DEF Arrays
  <1>4. p \in Processes
    BY <1>1, <1>2, <1>3 DEF Processes, Stages
  <1>5. p.at = "prompt" /\ p.path = client[c].path /\ p.count = 0 /\ p.i = 0 /\ p.array = << >>
    BY <1>1 DEF Processes
  <1>6. Becomes(c, p)
    BY <1>1 DEF Reopen, Becomes, Processes
  <1> HIDE DEF p
  <1>7. client'[c] = p
    BY <1>4, <1>6, BecomesIs
  <1>8. LocalsOK(c)' /\ rio[c] = << >>
    <2>1. gets' = gets /\ gets[c] <= MaxGets[c] /\ Quiet(c)
      BY <1>1 DEF Reopen, ConnectionOK, LocalsOK, ReadingOK
    <2>2. p.i <= p.count /\ DOMAIN p.array \subseteq 0..(p.count - 1)
      BY <1>3, <1>5
    <2> QED BY <1>5, <1>7, <2>1, <2>2 DEF LocalsOK, Quiet
  <1> QED BY <1>4, <1>5, <1>6, <1>8, ConnectKeeps DEF Reopen, ClientOnly

LEMMA StartKeeps == ASSUME IInv, NEW c \in Clients, Start(c) PROVE IInv'
  <1>1. client[c] \in Processes /\ ConnectionOK(c) /\ client[c].at = "off"
    BY OfClient DEF Start, In
  <1>2. \E stage \in {"save", "again"}, salt \in Clients :
           Becomes(c, [client[c] EXCEPT !.at = stage, !.salt = salt])
    <2>1. CASE Known(c)
      <3>1. PICK i \in DOMAIN salts[Dir[c]] :
               client' = [client EXCEPT ![c].at = "again", ![c].salt = salts[Dir[c]][i][2]]
        BY <2>1 DEF Start
      <3>2. salts[Dir[c]] \in Seq(Names \X Clients)
        BY DEF IInv, Types, Dirs
      <3>3. salts[Dir[c]][i] \in Names \X Clients
        BY <3>1, <3>2
      <3>4. salts[Dir[c]][i][2] \in Clients
        BY <3>3
      <3> QED BY <1>1, <3>1, <3>4 DEF Becomes
    <2>2. CASE ~Known(c)
      <3>1. client' = [client EXCEPT ![c].at = "save"]
        BY <2>2 DEF Start, Goto
      <3>2. [client[c] EXCEPT !.at = "save"] = [client[c] EXCEPT !.at = "save", !.salt = client[c].salt]
        BY <1>1 DEF Processes
      <3> QED BY <1>1, <3>1, <3>2 DEF Becomes, Processes
    <2> QED BY <2>1, <2>2
  <1>3. PICK stage \in {"save", "again"}, salt \in Clients :
           Becomes(c, [client[c] EXCEPT !.at = stage, !.salt = salt])
    BY <1>2
  <1> DEFINE p == [client[c] EXCEPT !.at = stage, !.salt = salt]
  <1>4. p \in Processes
    BY <1>1 DEF Processes, Stages
  <1>5. p.at = stage /\ p.path = client[c].path /\ p.count = client[c].count
        /\ p.i = client[c].i /\ p.array = client[c].array
    BY <1>1 DEF Processes
  <1>6. Becomes(c, p)
    BY <1>3
  <1> HIDE DEF p
  <1>7. client'[c] = p
    BY <1>4, <1>6, BecomesIs
  <1>8. LocalsOK(c)' /\ rio[c] = << >>
    BY <1>1, <1>5, <1>7 DEF Start, ConnectionOK, LocalsOK, ReadingOK, Quiet
  <1> QED BY <1>4, <1>5, <1>6, <1>8, ConnectKeeps DEF Start, ClientOnly

\* A request goes out on a quiet connection.
LEMMA SubmitKeeps ==
  ASSUME IInv, NEW c \in Clients, NEW p \in Processes, Becomes(c, p), NEW stage, NEW path \in SomePaths,
         Submit(c, stage, path), Quiet(c), path = p.path,
         \/ p.at = "reply" /\ stage = "register"
         \/ p.at = "header" /\ stage = "request" /\ path \in Paths \cup {Missing},
         UNCHANGED <<users, crashes, salts>>, LocalsOK(c)', gets' \in [Clients -> Nat],
         \A b \in Clients \ {c} : gets'[b] = gets[b]
  PROVE  IInv'
  <1> DEFINE t == [Idle EXCEPT !.at = stage, !.path = path, !.sig = Signature(c)]
  <1>1. /\ client'[c] = p /\ client' \in [Clients -> Processes]
        /\ \A b \in Clients \ {c} : client'[b] = client[b]
    BY BecomesIs
  <1>2. t \in Threads /\ t.left = {} /\ t.at = stage /\ t.path = path
    BY OfClient DEF Idle, Threads, SomePaths, Statuses
  <1>3. /\ thread[c].at \in {"closed", "accepted"} /\ thread[c].left = {} /\ thread[c] \in Threads
        /\ wire[c] = << >> /\ rio[c] = << >>
    BY OfClient DEF Quiet, ConnectionOK, ThreadOK, At
  <1> HIDE DEF t
  <1>4. /\ thread' \in [Clients -> Threads]
        /\ \A b \in Clients \ {c} : thread'[b] = thread[b]
        /\ \/ thread'[c] = t
           \/ thread'[c] = thread[c] /\ thread[c].at = "closed"
    <2>1. CASE At(c, "accepted")
      <3>1. thread' = [thread EXCEPT ![c] = t]
        BY <2>1 DEF Submit, t
      <3>2. thread \in [Clients -> Threads]
        BY DEF IInv, Types
      <3>3. thread'[c] = t /\ \A b \in Clients \ {c} : thread'[b] = thread[b]
        BY <3>1, <3>2
      <3>4. thread' \in [Clients -> Threads]
        <4>1. t \in Threads
          BY <1>2
        <4> QED BY <4>1, <3>1, <3>2
      <3> QED BY <3>3, <3>4
    <2>2. CASE ~At(c, "accepted")
      <3>1. thread' = thread
        BY <2>2 DEF Submit
      <3> QED BY <1>3, <2>2, <3>1 DEF IInv, Types, At
    <2> QED BY <2>1, <2>2
  <1>5. wire' = wire /\ rio' = rio
    BY DEF Submit
  <1>6. ThreadOK(c)'
    BY <1>1, <1>2, <1>3, <1>4 DEF ThreadOK, At
  <1>7. ReadingOK(c)'
    <2>1. UnitsFor(c)' = {} /\ Outstanding(c)' = 0
      <3>1. wire'[c] = << >> /\ rio'[c] = << >>
        BY <1>3, <1>5
      <3>2. Cardinality(thread'[c].left) = 0
        BY <1>2, <1>3, <1>4, FS_EmptySet
      <3>3. UnitsFor(c)' = {}
        BY <3>1 DEF UnitsFor
      <3> QED BY <3>1, <3>2, <3>3 DEF Outstanding
    <2>2. ~At(c, "send")'
      BY <1>2, <1>3, <1>4 DEF At
    <2>3. Answered(c, 1, "OK", 0)'
      BY <2>1, <2>2 DEF Answered
    <2>4. \E K \in Nat, S \in Statuses : Answered(c, K, S, 0)' /\ (p.at = "reply" => K = 1)
      BY <2>3 DEF Statuses
    <2> QED BY <1>1, <1>2, <1>3, <1>4, <1>5, <2>4 DEF ReadingOK
  <1>8. Types'
    BY <1>1, <1>4, <1>5 DEF IInv, Types
  <1> QED BY <1>1, <1>4, <1>5, <1>6, <1>7, <1>8, KeptIsEnough DEF Kept, Unmoved, ConnectionOK

LEMMA AskToRegisterKeeps == ASSUME IInv, NEW c \in Clients, AskToRegister(c) PROVE IInv'
  <1> DEFINE p == [client[c] EXCEPT !.at = "reply"]
  <1>1. client[c] \in Processes /\ ConnectionOK(c) /\ client[c].at = "ask"
    BY OfClient DEF AskToRegister, In
  <1>2. p \in Processes /\ p.at = "reply" /\ Becomes(c, p) /\ p.path = client[c].path
    BY <1>1 DEF AskToRegister, Goto, Becomes, Processes, Stages
  <1>3. client'[c] = p
    BY <1>2, BecomesIs
  <1>4. LocalsOK(c)' /\ Quiet(c) /\ client[c].path = None
    BY <1>1, <1>3 DEF AskToRegister, ConnectionOK, LocalsOK, ReadingOK, Processes
  <1>5. None \in SomePaths /\ gets' \in [Clients -> Nat] /\ \A b \in Clients \ {c} : gets'[b] = gets[b]
    BY DEF SomePaths, AskToRegister, IInv, Types
  <1> HIDE DEF p
  <1> QED BY <1>2, <1>4, <1>5, SubmitKeeps DEF AskToRegister, ClientOnly

LEMMA GetFileKeeps == ASSUME IInv, NEW c \in Clients, GetFile(c) PROVE IInv'
  <1>1. /\ client[c] \in Processes /\ ConnectionOK(c) /\ client[c].at = "prompt"
        /\ gets[c] < MaxGets[c] /\ gets' = [gets EXCEPT ![c] = @ + 1]
    BY OfClient DEF GetFile, In
  <1>2. PICK path \in Paths \cup {Missing} :
           /\ Submit(c, "request", path)
           /\ client' = [client EXCEPT ![c].at = "header", ![c].path = path]
    BY DEF GetFile
  <1> DEFINE p == [client[c] EXCEPT !.at = "header", !.path = path]
  <1>3. p \in Processes
    BY <1>1 DEF Processes, Stages, SomePaths
  <1>4. p.at = "header" /\ p.path = path /\ p.count = client[c].count /\ p.i = client[c].i
        /\ p.array = client[c].array
    BY <1>1 DEF Processes
  <1>5. Becomes(c, p)
    BY <1>1, <1>2 DEF Becomes
  <1> HIDE DEF p
  <1>6. client'[c] = p
    BY <1>3, <1>5, BecomesIs
  <1>7. /\ gets' \in [Clients -> Nat] /\ gets'[c] = gets[c] + 1 /\ gets[c] \in Nat
        /\ \A b \in Clients \ {c} : gets'[b] = gets[b]
    BY <1>1 DEF IInv, Types
  <1>8. gets'[c] <= MaxGets[c]
    BY <1>1, <1>7, ServiceAssumption
  <1>9. LocalsOK(c)' /\ Quiet(c) /\ path \in SomePaths
    BY <1>1, <1>4, <1>6, <1>8 DEF ConnectionOK, LocalsOK, ReadingOK, SomePaths
  <1> QED BY <1>2, <1>3, <1>4, <1>5, <1>7, <1>9, SubmitKeeps DEF GetFile, ClientOnly

\* One unit more has been used of the answer, and it is what the answer is made of.
LEMMA TakeOfAnswer ==
  ASSUME IInv, NEW c \in Clients, Take(c), NEW K \in Nat, NEW S, NEW used \in Nat,
         Answered(c, K, S, used), thread[c].at \notin Waiting \/ Outstanding(c) > 0,
         UNCHANGED <<thread, gets>>, client'[c].path = client[c].path
  PROVE  /\ Answered(c, K, S, used + 1)'
         /\ LET u == Upcoming(c) IN /\ u.request = gets[c] /\ u.path = client[c].path
                                    /\ u.count = K /\ u.status = S /\ u.num < K
         /\ used + 1 >= 2 * K /\ thread[c].at \notin Waiting => Quiet(c)'
  <1>1. /\ wire' \in [Clients -> Seq(Unit)] /\ rio' \in [Clients -> Seq(Unit)]
        /\ Upcoming(c) \in UnitsFor(c) /\ UnitsFor(c)' \subseteq UnitsFor(c)
        /\ Len(wire'[c]) + Len(rio'[c]) = Len(wire[c]) + Len(rio[c]) - 1
    BY TakeTakesOne DEF IInv
  <1>2. /\ Len(wire[c]) \in Nat /\ Len(rio[c]) \in Nat /\ Cardinality(thread[c].left) \in Nat
        /\ thread[c].left = {} <=> Cardinality(thread[c].left) = 0
    BY Counted
  <1>3. wire'[c] \in Seq(Unit) /\ rio'[c] \in Seq(Unit) /\ Len(wire'[c]) \in Nat /\ Len(rio'[c]) \in Nat
    BY <1>1
  <1>4. Outstanding(c)' = Outstanding(c) - 1 /\ Outstanding(c) \in Nat /\ Outstanding(c)' \in Nat
    <2>1. \A w, r, v, q, k \in Nat :
             v + q = w + r - 1 => /\ v + q + 2 * k = (w + r + 2 * k) - 1
                                  /\ w + r + 2 * k \in Nat /\ v + q + 2 * k \in Nat
      OBVIOUS
    <2> DEFINE k == Cardinality(thread[c].left)
    <2>2. /\ Outstanding(c) = Len(wire[c]) + Len(rio[c]) + 2 * k
          /\ Outstanding(c)' = Len(wire'[c]) + Len(rio'[c]) + 2 * k
      BY DEF Outstanding
    <2> DEFINE w == Len(wire[c])
               r == Len(rio[c])
               v == Len(wire'[c])
               q == Len(rio'[c])
    <2>3. k \in Nat /\ w \in Nat /\ r \in Nat /\ v \in Nat /\ q \in Nat /\ v + q = w + r - 1
      BY <1>1, <1>2, <1>3
    <2>4. Outstanding(c) = w + r + 2 * k /\ Outstanding(c)' = v + q + 2 * k
      BY <2>2
    <2> HIDE DEF k, w, r, v, q
    <2> QED BY <2>1, <2>3, <2>4
  <1>5. Outstanding(c) + used <= 2 * K
    BY DEF Answered
  <1>6. Answered(c, K, S, used + 1)'
    BY <1>1, <1>4, <1>5 DEF Answered, At
  <1>7. ASSUME used + 1 >= 2 * K, thread[c].at \notin Waiting PROVE Quiet(c)'
    <2>1. Outstanding(c)' = 0
      BY <1>4, <1>5, <1>7
    <2>2. \A v, q, k \in Nat : v + q + 2 * k = 0 => v = 0 /\ q = 0 /\ k = 0
      OBVIOUS
    <2>3. Len(wire'[c]) = 0 /\ Len(rio'[c]) = 0 /\ Cardinality(thread[c].left) = 0
      BY <1>2, <1>3, <2>1, <2>2 DEF Outstanding
    <2>4. wire'[c] = << >> /\ rio'[c] = << >> /\ thread[c].left = {}
      BY <1>2, <1>3, <2>3
    <2>5. thread[c].at \in {"closed", "accepted"}
      BY <1>7, <2>4, OfClient DEF ConnectionOK, ThreadOK, At, Threads, Waiting
    <2> QED BY <2>4, <2>5 DEF Quiet
  <1> QED BY <1>1, <1>6, <1>7 DEF Answered

\* A process that has read, or has come to the end: what it needs.
LEMMA ReadStep ==
  ASSUME IInv, NEW c \in Clients, NEW p \in Processes, Becomes(c, p),
         UNCHANGED <<users, thread, salts, gets, crashes>>,
         wire' \in [Clients -> Seq(Unit)], rio' \in [Clients -> Seq(Unit)],
         \A b \in Clients \ {c} : wire'[b] = wire[b] /\ rio'[b] = rio[b],
         p.path = client[c].path, ReadingOK(c)', LocalsOK(c)'
  PROVE  IInv'
  <1>1. /\ client'[c] = p /\ client' \in [Clients -> Processes]
        /\ \A b \in Clients \ {c} : client'[b] = client[b]
    BY BecomesIs
  <1>2. ThreadOK(c)'
    BY <1>1, OfClient DEF ConnectionOK, ThreadOK, At
  <1>3. Types'
    BY <1>1 DEF IInv, Types
  <1> QED BY <1>1, <1>2, <1>3, KeptIsEnough DEF Kept, Unmoved, ConnectionOK

\* The end of the file: nothing is under way any more.
LEMMA EndIsQuiet ==
  ASSUME NEW c \in Clients, EndOfFile(c)
  PROVE  Quiet(c) /\ (UNCHANGED thread => Quiet(c)')
  BY DEF EndOfFile, Quiet, At

LEMMA EndOfFileKeeps ==
  ASSUME IInv, NEW c \in Clients, EndOfFile(c), NEW stage \in {"again", "failed"}, Goto(c, stage),
         UNCHANGED <<users, thread, salts, gets, crashes>>
  PROVE  IInv'
  <1> DEFINE p == [client[c] EXCEPT !.at = stage]
  <1>1. client[c] \in Processes /\ ConnectionOK(c)
    BY OfClient
  <1>2. p \in Processes /\ p.at = stage /\ Becomes(c, p) /\ p.path = client[c].path
    BY <1>1 DEF Goto, Becomes, Processes, Stages
  <1>3. client'[c] = p
    BY <1>2, BecomesIs
  <1>4. LocalsOK(c)' /\ Quiet(c)
    BY <1>1, <1>3, EndIsQuiet DEF ConnectionOK, LocalsOK, Processes
  <1>5. UNCHANGED <<wire, rio>> /\ salts' \in [Dirs -> Seq(Names \X Clients)]
    BY DEF EndOfFile, IInv, Types
  <1> HIDE DEF p
  <1> QED BY <1>2, <1>4, <1>5, QuietStep

LEMMA ReadReplyKeeps == ASSUME IInv, NEW c \in Clients, ReadReply(c) PROVE IInv'
  <1>1. client[c] \in Processes /\ ConnectionOK(c) /\ client[c].at = "reply"
    BY OfClient DEF ReadReply, In
  <1>2. UNCHANGED <<users, thread, salts, gets, crashes>>
    BY DEF ReadReply, ClientOnly
  <1>3. CASE Take(c) /\ client' = [client EXCEPT ![c].at = "told", ![c].header = Upcoming(c)]
    <2> DEFINE u == Upcoming(c)
               p == [client[c] EXCEPT !.at = "told", !.header = u]
    <2>1. /\ wire' \in [Clients -> Seq(Unit)] /\ rio' \in [Clients -> Seq(Unit)]
          /\ \A b \in Clients \ {c} : wire'[b] = wire[b] /\ rio'[b] = rio[b]
          /\ u \in Unit /\ u \in UnitsFor(c)
      BY <1>3, TakeTakesOne DEF IInv
    <2> HIDE DEF u
    <2>2. p \in Processes
      BY <1>1, <2>1 DEF Processes, Stages
    <2>3. p.at = "told" /\ p.header = u /\ p.path = client[c].path /\ p.count = client[c].count
          /\ p.i = client[c].i /\ p.array = client[c].array
      BY <1>1 DEF Processes
    <2>4. Becomes(c, p)
      BY <1>3 DEF Becomes, u
    <2> HIDE DEF p
    <2>5. client'[c] = p
      BY <2>2, <2>4, BecomesIs
    <2>6. PICK S \in Statuses : Answered(c, 1, S, 0)
      BY <1>1 DEF ConnectionOK, ReadingOK
    <2>7. thread[c].at \notin Waiting
      <3>1. wire[c] # << >> \/ rio[c] # << >>
        BY <1>3 DEF Take
      <3> QED BY <1>1, <3>1 DEF ConnectionOK, ReadingOK, Waiting
    <2>8. Answered(c, 1, S, 1)' /\ u.request = gets[c] /\ u.path = client[c].path
          /\ u.count = 1 /\ u.status = S /\ u.num < 1
      <3>1. 0 \in Nat /\ 1 \in Nat /\ 0 + 1 = 1
        OBVIOUS
      <3>2. Answered(c, 1, S, 0 + 1)' /\ u.request = gets[c] /\ u.path = client[c].path
            /\ u.count = 1 /\ u.status = S /\ u.num < 1
        BY <1>2, <1>3, <2>3, <2>5, <2>6, <2>7, <3>1, TakeOfAnswer, ZenonT(60) DEF u
      <3> QED BY <3>1, <3>2
    <2>9. LocalsOK(c)'
      BY <1>1, <1>2, <2>3, <2>5 DEF ConnectionOK, LocalsOK
    <2>10. ReadingOK(c)'
      BY <1>2, <2>3, <2>5, <2>7, <2>8 DEF ReadingOK, HeaderOK, Waiting
    <2> QED BY <1>2, <2>1, <2>2, <2>3, <2>4, <2>9, <2>10, ReadStep
  <1>4. CASE EndOfFile(c) /\ \E stage \in {"again", "failed"} : Goto(c, stage)
    BY <1>2, <1>4, EndOfFileKeeps
  <1> QED BY <1>3, <1>4 DEF ReadReply

LEMMA ReadMessageKeeps == ASSUME IInv, NEW c \in Clients, ReadMessage(c) PROVE IInv'
  <1> DEFINE p == [client[c] EXCEPT !.at = "again"]
  <1>1. client[c] \in Processes /\ ConnectionOK(c) /\ client[c].at \in {"told", "message"}
    BY OfClient DEF ReadMessage
  <1>2. UNCHANGED <<users, thread, salts, gets, crashes>> /\ Goto(c, "again")
    BY DEF ReadMessage, ClientOnly
  <1>3. p \in Processes /\ p.at = "again" /\ Becomes(c, p) /\ p.path = client[c].path
    BY <1>1, <1>2 DEF Goto, Becomes, Processes, Stages
  <1>4. client'[c] = p
    BY <1>3, BecomesIs
  <1>5. LocalsOK(c)'
    BY <1>1, <1>2, <1>4 DEF ConnectionOK, LocalsOK, Processes
  <1>6. CASE Take(c)
    <2>1. /\ wire' \in [Clients -> Seq(Unit)] /\ rio' \in [Clients -> Seq(Unit)]
          /\ \A b \in Clients \ {c} : wire'[b] = wire[b] /\ rio'[b] = rio[b]
      BY <1>6, TakeTakesOne DEF IInv
    <2>2. Answered(c, 1, client[c].header.status, 1) /\ thread[c].at \notin Waiting
      BY <1>1 DEF ConnectionOK, ReadingOK, Waiting
    <2>3. client'[c].path = client[c].path
      BY <1>3, <1>4
    <2> HIDE DEF p
    <2>4. Quiet(c)'
      <3>1. 1 \in Nat /\ 1 + 1 >= 2 * 1
        OBVIOUS
      <3> QED BY <1>2, <1>6, <2>2, <2>3, <3>1, TakeOfAnswer
    <2>5. ReadingOK(c)'
      BY <1>3, <1>4, <2>4 DEF ReadingOK
    <2> QED BY <1>2, <1>3, <1>5, <2>1, <2>5, ReadStep
  <1>7. CASE EndOfFile(c)
    BY <1>2, <1>7, EndOfFileKeeps
  <1> QED BY <1>6, <1>7 DEF ReadMessage

LEMMA ReadHeaderKeeps == ASSUME IInv, NEW c \in Clients, ReadHeader(c) PROVE IInv'
  <1>1. client[c] \in Processes /\ ConnectionOK(c) /\ client[c].at = "header"
    BY OfClient DEF ReadHeader, In
  <1>2. UNCHANGED <<users, thread, salts, gets, crashes>>
    BY DEF ReadHeader, ClientOnly
  <1>3. CASE Take(c) /\ client' = [client EXCEPT ![c] =
               [@ EXCEPT !.header = Upcoming(c), !.count = Upcoming(c).count,
                         !.at = IF Upcoming(c).status = "OK" /\ Upcoming(c).count > 0
                                THEN "payload" ELSE "message"]]
    <2> DEFINE u == Upcoming(c)
               p == [client[c] EXCEPT !.header = u, !.count = u.count,
                                      !.at = IF u.status = "OK" /\ u.count > 0 THEN "payload" ELSE "message"]
    <2>1. /\ wire' \in [Clients -> Seq(Unit)] /\ rio' \in [Clients -> Seq(Unit)]
          /\ \A b \in Clients \ {c} : wire'[b] = wire[b] /\ rio'[b] = rio[b]
          /\ u \in Unit /\ u \in UnitsFor(c)
      BY <1>3, TakeTakesOne DEF IInv
    <2> HIDE DEF u
    <2>2. p \in Processes
      BY <1>1, <2>1 DEF Processes, Stages, Unit
    <2>3. p.at = (IF u.status = "OK" /\ u.count > 0 THEN "payload" ELSE "message")
          /\ p.header = u /\ p.path = client[c].path /\ p.count = u.count
          /\ p.i = client[c].i /\ p.array = client[c].array
      BY <1>1 DEF Processes
    <2>4. Becomes(c, p)
      BY <1>3 DEF Becomes, u
    <2> HIDE DEF p
    <2>5. client'[c] = p
      BY <2>2, <2>4, BecomesIs
    <2>6. PICK K \in Nat, S \in Statuses : Answered(c, K, S, 0)
      BY <1>1 DEF ConnectionOK, ReadingOK
    <2>7. thread[c].at \notin Waiting
      <3>1. wire[c] # << >> \/ rio[c] # << >>
        BY <1>3 DEF Take
      <3> QED BY <1>1, <3>1 DEF ConnectionOK, ReadingOK, Waiting
    <2>8. Answered(c, K, S, 1)' /\ u.request = gets[c] /\ u.path = client[c].path
          /\ u.count = K /\ u.status = S /\ u.num < K
      BY <1>2, <1>3, <2>3, <2>5, <2>6, <2>7, TakeOfAnswer DEF u
    <2>9. client[c].i = 0 /\ client[c].array = << >> /\ DOMAIN << >> = {} /\ gets[c] <= MaxGets[c]
          /\ K > 0 /\ (S # "OK" => K = 1)
      BY <1>1, <2>1, <2>6, <2>8 DEF ConnectionOK, LocalsOK, Answered, Unit
    <2>10. LocalsOK(c)'
      BY <1>2, <2>3, <2>5, <2>8, <2>9 DEF LocalsOK
    <2>11. ReadingOK(c)'
      <3>1. CASE S = "OK"
        <4>1. p.at = "payload" /\ 2 * p.i + 1 = 1
          BY <2>3, <2>8, <2>9, <3>1
        <4> QED BY <1>2, <2>3, <2>5, <2>7, <2>8, <3>1, <4>1 DEF ReadingOK, HeaderOK, Waiting
      <3>2. CASE S # "OK"
        <4>1. p.at = "message" /\ K = 1
          BY <2>3, <2>8, <2>9, <3>2
        <4> QED BY <1>2, <2>3, <2>5, <2>7, <2>8, <4>1 DEF ReadingOK, HeaderOK, Waiting
      <3> QED BY <3>1, <3>2
    <2> QED BY <1>2, <2>1, <2>2, <2>3, <2>4, <2>10, <2>11, ReadStep
  <1>4. CASE EndOfFile(c) /\ \E stage \in {"again", "failed"} : Goto(c, stage)
    BY <1>2, <1>4, EndOfFileKeeps
  <1> QED BY <1>3, <1>4 DEF ReadHeader

\* At the end of the file it does not matter how much has been used.
LEMMA AnswerEnds ==
  ASSUME IInv, NEW c \in Clients, EndOfFile(c), NEW K \in Nat, NEW S, NEW used \in Nat, NEW more \in Nat,
         Answered(c, K, S, used), more <= 2 * K, UNCHANGED <<thread, gets>>,
         client'[c].path = client[c].path
  PROVE  Answered(c, K, S, more)'
  <1>1. wire'[c] = << >> /\ rio'[c] = << >> /\ thread'[c].at = "closed" /\ thread[c].left = {}
    BY OfClient DEF EndOfFile, At, ConnectionOK, ThreadOK
  <1>2. UnitsFor(c)' = {}
    BY <1>1 DEF UnitsFor
  <1>3. Outstanding(c)' = 0
    <2>1. Cardinality(thread'[c].left) = 0
      BY <1>1, FS_EmptySet
    <2> QED BY <1>1, <2>1 DEF Outstanding
  <1> QED BY <1>1, <1>2, <1>3 DEF Answered, At

LEMMA StoredIs ==
  ASSUME NEW a \in Arrays, NEW n \in Nat
  PROVE  Stored(a, n, n) \in Arrays /\ DOMAIN Stored(a, n, n) = DOMAIN a \cup {n}
  <1>1. PICK D \in SUBSET Nat : a \in [D -> Nat]
    BY DEF Arrays
  <1>2. DOMAIN a = D /\ D \cup {n} \in SUBSET Nat
    BY <1>1
  <1>3. Stored(a, n, n) = [k \in D \cup {n} |-> IF k = n THEN n ELSE a[k]]
    BY <1>2 DEF Stored, Entered
  <1>4. Stored(a, n, n) \in [D \cup {n} -> Nat]
    BY <1>1, <1>3
  <1> QED BY <1>2, <1>4 DEF Arrays

LEMMA ReadPayloadKeeps == ASSUME IInv, NEW c \in Clients, ReadPayload(c) PROVE IInv'
  <1> DEFINE me == client[c]
             n == me.header.num
             p == [me EXCEPT !.at = "next", !.array = Stored(me.array, n, n)]
             Keep == client' = [client EXCEPT ![c].at = "next", ![c].array = Stored(@, n, n)]
  <1>1. me \in Processes /\ ConnectionOK(c) /\ me.at = "payload"
    BY OfClient DEF ReadPayload, In
  <1>2. UNCHANGED <<users, thread, salts, gets, crashes>>
    BY DEF ReadPayload, ClientOnly
  <1>3. /\ HeaderOK(c) /\ me.header.status = "OK" /\ me.header.count = me.count /\ me.i < me.count
        /\ Answered(c, me.count, "OK", 2 * me.i + 1) /\ thread[c].at \notin Waiting
        /\ me.count \in Nat /\ me.i \in Nat /\ n \in Nat /\ n < me.count /\ me.array \in Arrays
        /\ DOMAIN me.array \subseteq 0..(me.count - 1) /\ gets[c] <= MaxGets[c]
    BY <1>1 DEF ConnectionOK, ReadingOK, LocalsOK, Waiting, Processes, Unit, HeaderOK
  <1>0. PICK K \in Nat, i \in Nat : K = me.count /\ i = me.i
    BY <1>3
  <1>4. ASSUME Keep, wire' \in [Clients -> Seq(Unit)], rio' \in [Clients -> Seq(Unit)],
               \A b \in Clients \ {c} : wire'[b] = wire[b] /\ rio'[b] = rio[b],
               client'[c].path = me.path => Answered(c, K, "OK", 2 * i + 2)'
        PROVE  IInv'
    <2>1. Stored(me.array, n, n) \in Arrays /\ DOMAIN Stored(me.array, n, n) = DOMAIN me.array \cup {n}
      BY <1>3, StoredIs
    <2>2. p \in Processes
      BY <1>1, <2>1 DEF Processes, Stages
    <2>3. p.at = "next" /\ p.header = me.header /\ p.path = me.path /\ p.count = me.count
          /\ p.i = me.i /\ p.array = Stored(me.array, n, n)
      BY <1>1 DEF Processes
    <2>4. Becomes(c, p)
      BY <1>1, <1>4 DEF Becomes, Processes
    <2> HIDE DEF p
    <2>5. client'[c] = p
      BY <2>2, <2>4, BecomesIs
    <2>6. LocalsOK(c)'
      <3>1. DOMAIN p.array \subseteq 0..(p.count - 1)
        BY <1>3, <2>1, <2>3
      <3> QED BY <1>2, <1>3, <2>3, <2>5, <3>1 DEF LocalsOK
    <2>7. ReadingOK(c)'
      BY <1>0, <1>2, <1>3, <1>4, <2>3, <2>5 DEF ReadingOK, HeaderOK, Waiting
    <2> QED BY <1>2, <1>4, <2>2, <2>3, <2>4, <2>6, <2>7, ReadStep
  <1>5. CASE Take(c)
    <2>1. /\ wire' \in [Clients -> Seq(Unit)] /\ rio' \in [Clients -> Seq(Unit)]
          /\ \A b \in Clients \ {c} : wire'[b] = wire[b] /\ rio'[b] = rio[b]
      BY <1>5, TakeTakesOne DEF IInv
    <2>2. CASE Keep
      <3>1. ASSUME client'[c].path = me.path PROVE Answered(c, K, "OK", 2 * i + 2)'
        <4>1. 2 * i + 1 \in Nat /\ (2 * i + 1) + 1 = 2 * i + 2
          BY <1>0, <1>3
        <4>2. Answered(c, K, "OK", (2 * i + 1) + 1)'
          BY <1>0, <1>2, <1>3, <1>5, <3>1, <4>1, TakeOfAnswer
        <4> QED BY <4>1, <4>2
      <3> QED BY <1>4, <2>1, <2>2, <3>1
    <2>3. CASE Goto(c, "failed")
      BY <1>2, <2>1, <2>3, FailKeeps DEF IInv, Types
    <2> QED BY <1>5, <2>2, <2>3 DEF ReadPayload, EndOfFile, Take
  <1>6. CASE EndOfFile(c)
    <2>1. UNCHANGED <<wire, rio>>
      BY <1>6 DEF EndOfFile
    <2>2. CASE Keep
      <3>1. ASSUME client'[c].path = me.path PROVE Answered(c, K, "OK", 2 * i + 2)'
        <4>1. 2 * i + 1 \in Nat /\ 2 * i + 2 \in Nat /\ 2 * i + 2 <= 2 * K
          BY <1>0, <1>3
        <4> QED BY <1>0, <1>2, <1>3, <1>6, <3>1, <4>1, AnswerEnds
      <3> QED BY <1>4, <2>1, <2>2, <3>1 DEF IInv, Types
    <2>3. CASE Goto(c, "failed")
      BY <1>2, <1>6, <2>3, EndOfFileKeeps
    <2> QED BY <1>6, <2>2, <2>3 DEF ReadPayload
  <1> QED BY <1>5, <1>6 DEF ReadPayload

LEMMA ReadNextKeeps == ASSUME IInv, NEW c \in Clients, ReadNext(c) PROVE IInv'
  <1> DEFINE me == client[c]
             stage == IF me.i + 1 < me.count THEN "payload" ELSE "write"
             p(h) == [me EXCEPT !.header = h, !.i = me.i + 1, !.at = stage]
  <1>1. me \in Processes /\ ConnectionOK(c) /\ me.at = "next"
    BY OfClient DEF ReadNext, In
  <1>2. UNCHANGED <<users, thread, salts, gets, crashes>>
    BY DEF ReadNext, ClientOnly
  <1>3. /\ HeaderOK(c) /\ me.header.status = "OK" /\ me.header.count = me.count /\ me.i < me.count
        /\ Answered(c, me.count, "OK", 2 * me.i + 2) /\ thread[c].at \notin Waiting
        /\ me.count \in Nat /\ me.i \in Nat
        /\ DOMAIN me.array \subseteq 0..(me.count - 1) /\ gets[c] <= MaxGets[c]
    BY <1>1 DEF ConnectionOK, ReadingOK, LocalsOK, Waiting, Processes
  <1>0. PICK K \in Nat, i \in Nat : K = me.count /\ i = me.i
    BY <1>3
  <1>4. ASSUME NEW h \in Unit, Becomes(c, p(h)),
               wire' \in [Clients -> Seq(Unit)], rio' \in [Clients -> Seq(Unit)],
               \A b \in Clients \ {c} : wire'[b] = wire[b] /\ rio'[b] = rio[b],
               h.request = gets[c], h.path = me.path, h.num < h.count, h.count = me.count, h.status = "OK",
               client'[c].path = me.path =>
                 IF stage = "payload" THEN Answered(c, K, "OK", 2 * i + 3)' ELSE Quiet(c)'
        PROVE  IInv'
    <2>1. p(h) \in Processes
      <3>1. stage \in Stages /\ me.i + 1 \in Nat
        BY <1>3 DEF Stages
      <3> HIDE DEF stage
      <3> QED BY <1>1, <3>1 DEF Processes
    <2>2. p(h).at = stage /\ p(h).header = h /\ p(h).path = me.path /\ p(h).count = me.count
          /\ p(h).i = me.i + 1 /\ p(h).array = me.array
      BY <1>1 DEF Processes
    <2> DEFINE q == p(h)
    <2> HIDE DEF p
    <2>3. client'[c] = q
      BY <1>4, <2>1, BecomesIs
    <2>4. stage \in {"payload", "write"} /\ (stage = "payload" <=> me.i + 1 < me.count)
      OBVIOUS
    <2> HIDE DEF stage
    <2>5. LocalsOK(c)'
      BY <1>2, <1>3, <1>4, <2>2, <2>3, <2>4, SMTT(30) DEF LocalsOK, HeaderOK
    <2>6. ReadingOK(c)'
      <3>1. 2 * (i + 1) + 1 = 2 * i + 3
        BY <1>0, <1>3
      <3>2. CASE stage = "payload"
        BY <1>0, <1>2, <1>3, <1>4, <2>2, <2>3, <3>1, <3>2 DEF ReadingOK, HeaderOK, Waiting
      <3>3. CASE stage = "write"
        BY <1>4, <2>2, <2>3, <3>3 DEF ReadingOK
      <3> QED BY <2>4, <3>2, <3>3
    <2> QED BY <1>2, <1>4, <2>1, <2>2, <2>5, <2>6, ReadStep
  <1>5. CASE Take(c) /\ Becomes(c, p(Upcoming(c)))
    <2>1. /\ wire' \in [Clients -> Seq(Unit)] /\ rio' \in [Clients -> Seq(Unit)]
          /\ \A b \in Clients \ {c} : wire'[b] = wire[b] /\ rio'[b] = rio[b]
          /\ Upcoming(c) \in Unit /\ Upcoming(c) \in UnitsFor(c)
      BY <1>5, TakeTakesOne DEF IInv
    <2>2. Outstanding(c) > 0
      <3>1. \A w, r, k \in Nat : w > 0 \/ r > 0 => w + r + 2 * k > 0
        OBVIOUS
      <3>2. Len(wire[c]) > 0 \/ Len(rio[c]) > 0
        BY <1>5, OfClient DEF Take
      <3> QED BY <3>1, <3>2, Counted DEF Outstanding
    <2>3. me.i + 1 < me.count
      BY <1>3, <2>2, Counted, SMTT(30) DEF Answered
    <2>4. LET u == Upcoming(c) IN u.request = gets[c] /\ u.path = me.path /\ u.count = me.count
                                  /\ u.status = "OK" /\ u.num < me.count
      BY <1>3, <2>1 DEF Answered
    <2>5. ASSUME client'[c].path = me.path PROVE Answered(c, K, "OK", 2 * i + 3)'
      <3>1. 2 * i + 2 \in Nat /\ (2 * i + 2) + 1 = 2 * i + 3
        BY <1>0, <1>3
      <3>2. Answered(c, K, "OK", (2 * i + 2) + 1)'
        BY <1>0, <1>2, <1>3, <1>5, <2>5, <3>1, TakeOfAnswer, SMTT(30)
      <3> QED BY <3>1, <3>2
    <2> QED BY <1>4, <1>5, <2>1, <2>3, <2>4, <2>5
  <1>6. CASE EndOfFile(c) /\ Becomes(c, p(me.header))
    <2>1. UNCHANGED <<wire, rio>> /\ Quiet(c)'
      BY <1>2, <1>6, EndIsQuiet DEF EndOfFile
    <2>2. ASSUME client'[c].path = me.path, me.i + 1 < me.count
          PROVE  Answered(c, K, "OK", 2 * i + 3)'
      <3>1. 2 * i + 2 \in Nat /\ 2 * i + 3 \in Nat /\ 2 * i + 3 <= 2 * K
        BY <1>0, <1>3, <2>2
      <3> QED BY <1>0, <1>2, <1>3, <1>6, <2>2, <3>1, AnswerEnds
    <2>3. me.header \in Unit
      BY <1>1 DEF Processes
    <2> QED BY <1>3, <1>4, <1>6, <2>1, <2>2, <2>3 DEF HeaderOK, IInv, Types
  <1> QED BY <1>5, <1>6 DEF ReadNext, Becomes

-----------------------------------------------------------------------------
(* The theorems *)

LEMMA Initially == Init => IInv
  <1> SUFFICES ASSUME Init PROVE IInv
    OBVIOUS
  <1> USE DEF Init
  <1>1. NoHeader \in Unit
    BY DEF NoHeader, Unit, Statuses
  <1>2. << >> \in Arrays /\ DOMAIN << >> = {}
    <2>1. << >> \in [{} -> Nat]
      OBVIOUS
    <2> QED BY <2>1 DEF Arrays
  <1>3. client \in [Clients -> Processes]
    BY <1>1, <1>2 DEF Processes, Stages, SomePaths
  <1>4. Types
    BY <1>3, IdleIsThread, ServiceAssumption DEF Types, Names, Dirs
  <1>5. ASSUME NEW c \in Clients PROVE ConnectionOK(c)
    <2>1. Idle.left = {} /\ Idle.at = "closed" /\ thread[c] = Idle /\ client[c].at = "off"
          /\ client[c].i = 0 /\ client[c].count = 0 /\ client[c].array = << >> /\ client[c].path = None
          /\ wire[c] = << >> /\ rio[c] = << >> /\ gets[c] = 0
      BY IdleIsThread
    <2>2. ThreadOK(c)
      BY <2>1 DEF ThreadOK, At
    <2>3. ReadingOK(c)
      BY <2>1 DEF ReadingOK, Quiet
    <2>4. LocalsOK(c)
      BY <1>2, <2>1, ServiceAssumption DEF LocalsOK
    <2> QED BY <2>2, <2>3, <2>4 DEF ConnectionOK
  <1> QED BY <1>4, <1>5 DEF IInv

LEMMA NextKeeps == IInv /\ [Next]_vars => IInv'
  <1> SUFFICES ASSUME IInv, [Next]_vars PROVE IInv'
    OBVIOUS
  <1>1. ASSUME NEW c \in Clients, Client(c) PROVE IInv'
    BY <1>1, ReopenKeeps, SaveSaltKeeps, AskToRegisterKeeps, ReadReplyKeeps, ReadMessageKeeps,
       ReadHeaderKeeps, ReadPayloadKeeps, ReadNextKeeps, FileStepsKeep DEF Client
  <1>2. ASSUME NEW c \in Clients, Server(c) \/ Start(c) \/ GetFile(c) \/ Quit(c) \/ Kill(c) PROVE IInv'
    BY <1>2, ServerKeeps, StartKeeps, GetFileKeeps, QuitKeeps, KillKeeps
  <1>3. CASE Restart
    BY <1>3, RestartKeeps
  <1>4. CASE UNCHANGED vars
    <2>1. \A c \in Clients : Unmoved(c)
      BY <1>4 DEF vars, Unmoved
    <2>2. Types'
      BY <1>4 DEF vars, IInv, Types
    <2> QED BY <2>1, <2>2, UnmovedKeeps DEF IInv
  <1> QED BY <1>1, <1>2, <1>3, <1>4 DEF Next

LEMMA Invariant == Spec => []IInv
  BY Initially, NextKeeps, PTL DEF Spec

\* Every variable of the server, the connections and the client processes keeps
\* its type, and a client stays within the blocks that it has been told of.
THEOREM TypeCorrectness == Spec => []TypeOK
  <1>1. IInv => TypeOK
    <2> SUFFICES ASSUME IInv PROVE TypeOK
      OBVIOUS
    <2>1. \A n \in Names : users[n] # None => users[n] \in Signatures
      BY DEF IInv, Types
    <2>2. ASSUME NEW c \in Clients
          PROVE  /\ thread[c].at \in {"closed", "accepted", "register", "insert", "request", "send"}
                 /\ thread[c].path \in Paths \cup {Missing, None} /\ thread[c].status \in Statuses
                 /\ thread[c].left \subseteq 0..(thread[c].count - 1)
                 /\ wire[c] \in Seq(Unit) /\ rio[c] \in Seq(Unit)
                 /\ client[c].at \in Stages
                 /\ client[c].salt \in Clients /\ client[c].header \in Unit
                 /\ gets[c] \in 0..MaxGets[c]
                 /\ client[c].i \in 0..client[c].count
                 /\ DOMAIN client[c].array \subseteq 0..(client[c].count - 1)
      <3>1. thread[c] \in Threads /\ client[c] \in Processes /\ gets[c] \in Nat /\ MaxGets[c] \in Nat
        BY ServiceAssumption DEF IInv, Types
      <3>2. ThreadOK(c) /\ LocalsOK(c)
        BY DEF IInv, ConnectionOK
      <3>3. gets[c] \in 0..MaxGets[c] /\ client[c].i \in 0..client[c].count
        BY <3>1, <3>2 DEF LocalsOK, Processes
      <3> QED BY <3>1, <3>2, <3>3 DEF ThreadOK, LocalsOK, Threads, Processes, SomePaths, IInv, Types
    <2> QED BY <2>1, <2>2 DEF TypeOK, Stages, IInv, Types, Signatures
  <1> QED BY <1>1, Invariant, PTL

\* Every header that a client acts on belongs to the request it has just made,
\* and a request begins with an empty read buffer, although the buffer is set up
\* only once for all connections of the process (networking.c 292).
THEOREM AnswersBelong == Spec => []AnswersBelongToTheRequest
  <1>1. IInv => AnswersBelongToTheRequest
    <2> SUFFICES ASSUME IInv, NEW c \in Clients
                 PROVE  /\ Fetching(c) => client[c].header.request = gets[c] /\ client[c].header.path = client[c].path
                        /\ client[c].at \in {"again", "prompt"} => rio[c] = << >>
      BY DEF AnswersBelongToTheRequest
    <2> QED BY DEF IInv, ConnectionOK, ReadingOK, LocalsOK, Fetching, HeaderOK, Quiet
  <1> QED BY <1>1, Invariant, PTL

-----------------------------------------------------------------------------
(* The files *)

DiskOK == disk = [d \in Dirs |-> [p \in Paths |-> disk[d][p]]]

\* Only c moves.
Alone(c) == \A b \in Clients \ {c} : client'[b] = client[b]

LEMMA OneClientMoves ==
  ASSUME IInv, NEW c \in Clients, Client(c) \/ Start(c) \/ GetFile(c) \/ Quit(c) \/ Kill(c)
  PROVE  Alone(c)
  <1>1. client \in [Clients -> Processes]
    BY DEF IInv, Types
  <1> USE <1>1 DEF Alone
  <1>2. CASE ReadReply(c) \/ ReadMessage(c) \/ ReadHeader(c)
    BY <1>2 DEF ReadReply, ReadMessage, ReadHeader, Goto
  <1>3. CASE ReadPayload(c)
    BY <1>3 DEF ReadPayload, Goto
  <1>4. CASE ReadNext(c)
    BY <1>4 DEF ReadNext
  <1>5. CASE Reopen(c) \/ SaveSalt(c) \/ AskToRegister(c) \/ WriteFile(c) \/ CheckFile(c) \/ Quit(c) \/ Kill(c)
    BY <1>5 DEF Reopen, SaveSalt, AskToRegister, WriteFile, CheckFile, Quit, Kill, Goto
  <1>6. CASE Start(c)
    BY <1>6 DEF Start, Goto
  <1>7. CASE GetFile(c)
    BY <1>7 DEF GetFile
  <1> QED BY <1>2, <1>3, <1>4, <1>5, <1>6, <1>7 DEF Client

\* One file of one directory is replaced.
LEMMA WrittenIs ==
  ASSUME DiskOK, NEW c \in Clients, NEW n, Written(c, n)
  PROVE  /\ DiskOK'
         /\ \A d \in Dirs, p \in Paths :
              disk'[d][p] = disk[d][p] \/ (d = Dir[c] /\ p = client[c].path)
  <1>1. PICK x : disk' = [disk EXCEPT ![Dir[c]][client[c].path] = x]
    BY DEF Written
  <1>2. DOMAIN disk = Dirs /\ \A d \in Dirs : DOMAIN disk[d] = Paths
    BY DEF DiskOK
  <1>3. /\ disk' = [disk EXCEPT ![Dir[c]] = [disk[Dir[c]] EXCEPT ![client[c].path] = x]]
        /\ Dir[c] \in Dirs
    BY <1>1 DEF Dirs
  <1>4. ASSUME NEW d \in Dirs
        PROVE  /\ disk'[d] = [p \in Paths |-> disk'[d][p]]
               /\ \A p \in Paths : disk'[d][p] = disk[d][p] \/ (d = Dir[c] /\ p = client[c].path)
    <2>1. disk[d] = [p \in Paths |-> disk[d][p]]
      BY DEF DiskOK
    <2>2. CASE d = Dir[c]
      <3>1. disk'[d] = [disk[d] EXCEPT ![client[c].path] = x]
        BY <1>2, <1>3, <2>2
      <3> QED BY <2>1, <2>2, <3>1
    <2>3. CASE d # Dir[c]
      <3>1. disk'[d] = disk[d]
        BY <1>2, <1>3, <2>3
      <3> QED BY <2>1, <3>1
    <2> QED BY <2>2, <2>3
  <1>5. disk' = [d \in Dirs |-> disk'[d]]
    BY <1>2, <1>3 DEF DiskOK
  <1> QED BY <1>4, <1>5 DEF DiskOK

LEMMA FilesStayTheServers ==
  ASSUME IInv, DiskOK, FilesAreTheServers, [Next]_vars
  PROVE  DiskOK' /\ FilesAreTheServers'
  <1> DEFINE Excused(d, p) == \E c \in Clients : /\ Dir[c] = d /\ client[c].path = p
                                                 /\ client[c].at \in {"check", "failed"}
  <1>1. client \in [Clients -> Processes]
    BY DEF IInv, Types
  <1>2. ASSUME UNCHANGED disk,
               \A b \in Clients : client[b].at \in {"check", "failed"} => client'[b] = client[b]
        PROVE  DiskOK' /\ FilesAreTheServers'
    BY <1>2 DEF DiskOK, FilesAreTheServers
  <1>3. ASSUME NEW c \in Clients, Alone(c), client[c].at \notin {"check", "failed"}, UNCHANGED disk
        PROVE  DiskOK' /\ FilesAreTheServers'
    BY <1>2, <1>3 DEF Alone
  <1>4. ASSUME NEW c \in Clients, Alone(c), client'[c].path = client[c].path,
               client'[c].at \in {"check", "failed"},
               \/ UNCHANGED disk
               \/ \E n : Written(c, n)
        PROVE  DiskOK' /\ FilesAreTheServers'
    <2>1. /\ DiskOK'
          /\ \A d \in Dirs, p \in Paths :
               disk'[d][p] = disk[d][p] \/ (d = Dir[c] /\ p = client[c].path)
      BY <1>4, WrittenIs DEF DiskOK
    <2>2. ASSUME NEW d \in Dirs, NEW p \in Paths, Excused(d, p) PROVE Excused(d, p)'
      BY <1>4, <2>2 DEF Alone
    <2>3. ASSUME NEW d \in Dirs, NEW p \in Paths, d = Dir[c], p = client[c].path PROVE Excused(d, p)'
      BY <1>4, <2>3
    <2> QED BY <2>1, <2>2, <2>3 DEF FilesAreTheServers
  <1>5. ASSUME NEW c \in Clients, WriteFile(c) \/ Kill(c) PROVE DiskOK' /\ FilesAreTheServers'
    <2>1. Alone(c)
      BY <1>5, OneClientMoves DEF Client
    <2>2. \E stage \in {"check", "failed"} : Goto(c, stage)
      BY <1>5 DEF WriteFile, Kill
    <2>3. client'[c].path = client[c].path /\ client'[c].at \in {"check", "failed"}
      BY <1>1, <2>2 DEF Goto, Processes
    <2>4. UNCHANGED disk \/ \E n : Written(c, n)
      BY <1>5 DEF WriteFile, Kill
    <2> QED BY <1>4, <2>1, <2>3, <2>4
  <1>6. ASSUME NEW c \in Clients, CheckFile(c) PROVE DiskOK' /\ FilesAreTheServers'
    <2>1. Alone(c) /\ UNCHANGED disk
      BY <1>6, OneClientMoves DEF Client, CheckFile
    <2>2. CASE ~HashMatches(c)
      <3>1. client'[c].path = client[c].path /\ client'[c].at = "failed"
        BY <1>1, <1>6, <2>2 DEF CheckFile, Goto, Processes
      <3> QED BY <1>4, <2>1, <3>1
    <2>3. CASE HashMatches(c)
      <3>1. client[c].header.path = client[c].path
        BY <1>6 DEF CheckFile, In, IInv, ConnectionOK, LocalsOK, HeaderOK
      <3>2. disk[Dir[c]][client[c].path] = Whole(client[c].path)
        BY <2>3, <3>1 DEF HashMatches
      <3>3. ASSUME NEW d \in Dirs, NEW p \in Paths, ~ (disk[d][p] \in {None, Whole(p)})
            PROVE  Excused(d, p)'
        <4>1. PICK b \in Clients : Dir[b] = d /\ client[b].path = p /\ client[b].at \in {"check", "failed"}
          BY <3>3 DEF FilesAreTheServers
        <4>2. b # c
          BY <3>2, <3>3, <4>1
        <4> QED BY <2>1, <4>1, <4>2 DEF Alone
      <3> QED BY <2>1, <3>3 DEF FilesAreTheServers, DiskOK
    <2> QED BY <2>2, <2>3
  <1>7. ASSUME NEW c \in Clients, Start(c) \/ GetFile(c) \/ Quit(c) \/ Client(c), ~WriteFile(c), ~CheckFile(c)
        PROVE  DiskOK' /\ FilesAreTheServers'
    <2>1. Alone(c)
      BY <1>7, OneClientMoves
    <2>2. UNCHANGED disk /\ client[c].at \notin {"check", "failed"}
      BY <1>7 DEF Start, GetFile, Quit, Client, Reopen, SaveSalt, AskToRegister, ReadReply, ReadMessage,
                  ReadHeader, ReadPayload, ReadNext, In
    <2> QED BY <1>3, <2>1, <2>2
  <1>8. CASE Restart \/ UNCHANGED vars \/ \E c \in Clients : Server(c)
    <2>1. UNCHANGED <<disk, client>>
      BY <1>8 DEF Restart, vars, Server, CheckName, InsertUser, HandleRequest, SendBlock, ServerOnly
    <2> QED BY <1>2, <2>1
  <1> QED BY <1>5, <1>6, <1>7, <1>8 DEF Next

\* However the blocks are shuffled and the reads cut, and wherever a server or a
\* client dies: a file in a client's directory is the server's, or the process
\* that wrote it is still checking it or has given up (networking.c 208-226).
THEOREM FilesAreRight == Spec => []FilesAreTheServers
  <1>1. Init => DiskOK /\ FilesAreTheServers
    BY DEF Init, DiskOK, FilesAreTheServers
  <1> QED BY <1>1, Invariant, FilesStayTheServers, PTL DEF Spec

-----------------------------------------------------------------------------
(* The users *)

Active(c) == client[c].at \notin {"off", "quit", "failed"}

\* The first line of the salts.csv of d with name n has salt s.
FirstSalt(d, n, s) ==
  \E i \in DOMAIN salts[d] : /\ salts[d][i] = <<n, s>>
                             /\ \A j \in 1..(i - 1) : salts[d][j][1] # n

OneActive ==
  \A b, c \in Clients : b # c /\ Dir[b] = Dir[c] /\ Active(b) => ~Active(c)

SaltOK(c) ==
  /\ client[c].at = "save" => \A i \in DOMAIN salts[Dir[c]] : salts[Dir[c]][i][1] # User[c]
  /\ Active(c) /\ client[c].at # "save" => FirstSalt(Dir[c], User[c], client[c].salt)

SigOK(c) == Active(c) /\ thread[c].at \in Waiting => thread[c].sig = Signature(c)

AckedOK ==
  \A a \in acked : \E s \in Clients :
    /\ a[1] \in Dirs /\ a[2] \in Names
    /\ users[a[2]] = <<a[3], s>> /\ FirstSalt(a[1], a[2], s)

Denials == {"USER_MISSING", "INVALID_LOGIN"}

\* An answer that denies c, on its way or read.
Denied(c) ==
  \/ client[c].at = "header" /\ \/ \E u \in UnitsFor(c) : u.status \in Denials
                                \/ At(c, "send") /\ thread[c].status \in Denials
  \/ client[c].at = "message" /\ client[c].header.status \in Denials

UsersInv ==
  /\ OneActive
  /\ \A c \in Clients : SaltOK(c) /\ SigOK(c)
  /\ AckedOK
  /\ \A c \in Clients : Denied(c) => Account(c) \notin acked

LEMMA FirstIsUnique ==
  ASSUME Types, NEW d \in Dirs, NEW n, NEW s, NEW t, FirstSalt(d, n, s), FirstSalt(d, n, t)
  PROVE  s = t
  <1>1. PICK i \in DOMAIN salts[d] : salts[d][i] = <<n, s>> /\ \A j \in 1..(i - 1) : salts[d][j][1] # n
    BY DEF FirstSalt
  <1>2. PICK k \in DOMAIN salts[d] : salts[d][k] = <<n, t>> /\ \A j \in 1..(k - 1) : salts[d][j][1] # n
    BY DEF FirstSalt
  <1>3. i \in Nat /\ k \in Nat /\ i >= 1 /\ k >= 1
    BY DEF Types
  <1>4. i = k
    <2>1. salts[d][i][1] = n /\ salts[d][k][1] = n
      BY <1>1, <1>2
    <2>2. ~(i < k) /\ ~(k < i)
      BY <1>1, <1>2, <1>3, <2>1
    <2> QED BY <1>3, <2>2
  <1> QED BY <1>1, <1>2, <1>4

\* What ReadHeader and ReadNext leave of the process.
LEMMA HeaderRead ==
  ASSUME IInv, NEW c \in Clients, ReadHeader(c)
  PROVE  /\ client'[c].salt = client[c].salt
         /\ client'[c].at \in {"payload", "message", "again", "failed"}
         /\ client'[c].at = "message" => client'[c].header = Upcoming(c) /\ Upcoming(c) \in UnitsFor(c)
  <1>1. client[c] \in Processes /\ client \in [Clients -> Processes]
    BY OfClient DEF IInv, Types
  <1>2. CASE Take(c) /\ client' = [client EXCEPT ![c] =
               [@ EXCEPT !.header = Upcoming(c), !.count = Upcoming(c).count,
                         !.at = IF Upcoming(c).status = "OK" /\ Upcoming(c).count > 0
                                THEN "payload" ELSE "message"]]
    <2> DEFINE u == Upcoming(c)
               stage == IF u.status = "OK" /\ u.count > 0 THEN "payload" ELSE "message"
               p == [client[c] EXCEPT !.header = u, !.count = u.count, !.at = stage]
    <2>1. u \in UnitsFor(c)
      BY <1>2, TakeTakesOne DEF IInv
    <2>2. Becomes(c, p)
      BY <1>2 DEF Becomes
    <2>3. client'[c] = p
      BY <1>1, <2>2 DEF Becomes
    <2>4. stage \in {"payload", "message"}
      OBVIOUS
    <2> HIDE DEF stage, u
    <2>5. p.at = stage /\ p.header = u /\ p.salt = client[c].salt
      BY <1>1 DEF Processes
    <2> QED BY <2>1, <2>3, <2>4, <2>5 DEF u
  <1>3. CASE EndOfFile(c) /\ \E stage \in {"again", "failed"} : Goto(c, stage)
    BY <1>1, <1>3 DEF Goto, Processes
  <1> QED BY <1>2, <1>3 DEF ReadHeader

LEMMA NextRead ==
  ASSUME IInv, NEW c \in Clients, ReadNext(c)
  PROVE  client'[c].salt = client[c].salt /\ client'[c].at \in {"payload", "write"}
  <1>1. client[c] \in Processes /\ client \in [Clients -> Processes]
    BY OfClient DEF IInv, Types
  <1> DEFINE me == client[c]
             stage == IF me.i + 1 < me.count THEN "payload" ELSE "write"
             p(h) == [me EXCEPT !.header = h, !.i = me.i + 1, !.at = stage]
  <1>2. Becomes(c, p(Upcoming(c))) \/ Becomes(c, p(me.header))
    BY DEF ReadNext, Becomes
  <1>3. client'[c] = p(Upcoming(c)) \/ client'[c] = p(me.header)
    BY <1>1, <1>2 DEF Becomes
  <1>4. stage \in {"payload", "write"}
    OBVIOUS
  <1> HIDE DEF stage
  <1>5. \A h : p(h).at = stage /\ p(h).salt = me.salt
    BY <1>1 DEF Processes
  <1> QED BY <1>3, <1>4, <1>5

\* A process that is not started goes on with the salt it has.
LEMMA Moves ==
  ASSUME IInv, [Next]_vars, NEW b \in Clients, ~Start(b)
  PROVE  /\ Active(b)' => Active(b)
         /\ client'[b].salt = client[b].salt
         /\ client'[b].at = "save" => client[b].at = "save"
         /\ client[b].at = "save" /\ client'[b].at # "save" /\ Active(b)' => SaveSalt(b)
  <1>1. client \in [Clients -> Processes] /\ client[b] \in Processes
    BY DEF IInv, Types
  <1>2. CASE client'[b] = client[b]
    BY <1>2 DEF Active
  <1>3. CASE Client(b) \/ GetFile(b) \/ Quit(b) \/ Kill(b)
    <2> USE <1>1 DEF Active, Processes, In
    <2>1. CASE ReadReply(b)
      BY <2>1 DEF ReadReply, Goto
    <2>2. CASE ReadMessage(b)
      BY <2>2 DEF ReadMessage, Goto
    <2>3. CASE ReadHeader(b)
      <3>1. client[b].at = "header"
        BY <2>3 DEF ReadHeader
      <3>2. /\ client'[b].salt = client[b].salt
            /\ client'[b].at \in {"payload", "message", "again", "failed"}
        BY <2>3, HeaderRead
      <3> QED BY <3>1, <3>2
    <2>4. CASE ReadPayload(b)
      BY <2>4 DEF ReadPayload, Goto
    <2>5. CASE ReadNext(b)
      <3>1. client[b].at = "next"
        BY <2>5 DEF ReadNext
      <3>2. client'[b].salt = client[b].salt /\ client'[b].at \in {"payload", "write"}
        BY <2>5, NextRead
      <3> QED BY <3>1, <3>2
    <2>6. CASE Reopen(b)
      BY <2>6 DEF Reopen
    <2>7. CASE SaveSalt(b)
      BY <2>7 DEF SaveSalt, Goto
    <2>8. CASE AskToRegister(b) \/ WriteFile(b) \/ CheckFile(b) \/ Quit(b) \/ Kill(b)
      BY <2>8 DEF AskToRegister, WriteFile, CheckFile, Quit, Kill, Goto
    <2>9. CASE GetFile(b)
      BY <2>9 DEF GetFile
    <2> QED BY <1>3, <2>1, <2>2, <2>3, <2>4, <2>5, <2>6, <2>7, <2>8, <2>9 DEF Client
  <1>4. CASE Restart \/ UNCHANGED vars \/ \E c \in Clients : Server(c)
    <2>1. client' = client
      BY <1>4 DEF Restart, vars, Server, CheckName, InsertUser, HandleRequest, SendBlock, ServerOnly
    <2> QED BY <1>2, <2>1
  <1>5. ASSUME NEW c \in Clients, c # b, Client(c) \/ Start(c) \/ GetFile(c) \/ Quit(c) \/ Kill(c)
        PROVE  client'[b] = client[b]
    BY <1>5, OneClientMoves DEF Alone
  <1> QED BY <1>2, <1>3, <1>4, <1>5 DEF Next

LEMMA OnlyOneStarts ==
  ASSUME IInv, NEW c \in Clients, Start(c), NEW b \in Clients \ {c}
  PROVE  client'[b] = client[b] /\ ~Start(b)
  <1>1. client'[b] = client[b]
    BY OneClientMoves DEF Alone
  <1>2. client[c].at = "off" /\ client'[c].at \in {"again", "save"} /\ client[c] \in Processes
    <2>1. client \in [Clients -> Processes]
      BY DEF IInv, Types
    <2>2. CASE Known(c)
      <3>1. PICK i \in DOMAIN salts[Dir[c]] :
               client' = [client EXCEPT ![c].at = "again", ![c].salt = salts[Dir[c]][i][2]]
        BY <2>2 DEF Start
      <3>2. client'[c] = [client[c] EXCEPT !.at = "again", !.salt = salts[Dir[c]][i][2]]
        BY <2>1, <3>1
      <3>3. client[c] \in Processes /\ client[c].at = "off"
        BY <2>1 DEF Start, In
      <3> QED BY <3>2, <3>3 DEF Processes
    <2>3. CASE ~Known(c)
      BY <2>1, <2>3 DEF Start, Goto, In, Processes
    <2> QED BY <2>2, <2>3
  <1>3. ~Start(b)
    <2> SUFFICES ASSUME Start(b) PROVE FALSE
      OBVIOUS
    <2>1. client'[c] = client[c]
      BY OneClientMoves DEF Alone
    <2> QED BY <1>2, <2>1
  <1> QED BY <1>1, <1>3

LEMMA OneStaysActive ==
  ASSUME OneAtATime, IInv, OneActive, [Next]_vars
  PROVE  OneActive'
  <1>1. CASE \E c \in Clients : Start(c)
    <2>1. PICK c \in Clients : Start(c)
      BY <1>1
    <2>2. \A b \in Clients \ {c} : client'[b] = client[b]
      BY <2>1, OnlyOneStarts
    <2>3. \A b \in Clients \ {c} : Dir[b] = Dir[c] => ~Active(b)
      BY <2>1 DEF Start, Active
    <2> QED BY <2>2, <2>3 DEF OneActive, Active
  <1>2. CASE ~\E c \in Clients : Start(c)
    <2>1. \A b \in Clients : Active(b)' => Active(b)
      BY <1>2, Moves
    <2> QED BY <2>1 DEF OneActive
  <1> QED BY <1>1, <1>2

-----------------------------------------------------------------------------

LEMMA SaltsChange ==
  ASSUME [Next]_vars
  PROVE  salts' = salts \/ \E c \in Clients : SaveSalt(c)
  BY DEF Next, vars, Restart, Server, CheckName, InsertUser, HandleRequest, SendBlock, ServerOnly,
         Client, Start, GetFile, Quit, Kill, Reopen, AskToRegister, ReadReply, ReadMessage, ReadHeader,
         ReadPayload, ReadNext, WriteFile, CheckFile

LEMMA Appended ==
  ASSUME IInv, NEW c \in Clients, SaveSalt(c)
  PROVE  LET s == salts[Dir[c]]
             t == salts'[Dir[c]] IN
           /\ s \in Seq(Names \X Clients) /\ Dir[c] \in Dirs
           /\ Len(s) \in Nat /\ DOMAIN s = 1..Len(s) /\ DOMAIN t = 1..(Len(s) + 1)
           /\ t[Len(s) + 1] = <<User[c], client[c].salt>>
           /\ \A i \in 1..Len(s) : t[i] = s[i]
           /\ \A d \in Dirs \ {Dir[c]} : salts'[d] = salts[d]
  <1>1. salts \in [Dirs -> Seq(Names \X Clients)] /\ Dir[c] \in Dirs
        /\ <<User[c], client[c].salt>> \in Names \X Clients
    BY OfClient DEF IInv, Types, Dirs, Names, Processes
  <1>2. salts' = [salts EXCEPT ![Dir[c]] = Append(@, <<User[c], client[c].salt>>)]
    BY DEF SaveSalt
  <1> DEFINE s == salts[Dir[c]]
             e == <<User[c], client[c].salt>>
  <1>3. s \in Seq(Names \X Clients) /\ salts'[Dir[c]] = Append(s, e) /\ e \in Names \X Clients
    BY <1>1, <1>2
  <1>4. \A d \in Dirs \ {Dir[c]} : salts'[d] = salts[d]
    BY <1>1, <1>2
  <1> HIDE DEF s, e
  <1>5. /\ Len(s) \in Nat /\ DOMAIN s = 1..Len(s) /\ DOMAIN Append(s, e) = 1..(Len(s) + 1)
        /\ Append(s, e)[Len(s) + 1] = e /\ \A i \in 1..Len(s) : Append(s, e)[i] = s[i]
    BY <1>3
  <1> QED BY <1>1, <1>3, <1>4, <1>5 DEF s, e

LEMMA FirstSaltStays ==
  ASSUME IInv, [Next]_vars, NEW d \in Dirs, NEW n, NEW s, FirstSalt(d, n, s)
  PROVE  FirstSalt(d, n, s)'
  <1>1. CASE salts' = salts
    BY <1>1 DEF FirstSalt
  <1>2. ASSUME NEW c \in Clients, SaveSalt(c) PROVE FirstSalt(d, n, s)'
    <2>1. PICK i \in DOMAIN salts[d] : salts[d][i] = <<n, s>> /\ \A j \in 1..(i - 1) : salts[d][j][1] # n
      BY DEF FirstSalt
    <2>2. CASE d # Dir[c]
      <3>1. salts'[d] = salts[d]
        BY <1>2, <2>2, Appended
      <3> QED BY <2>1, <3>1 DEF FirstSalt
    <2>3. CASE d = Dir[c]
      <3>1. /\ Len(salts[d]) \in Nat /\ DOMAIN salts[d] = 1..Len(salts[d])
            /\ DOMAIN salts'[d] = 1..(Len(salts[d]) + 1)
            /\ \A k \in 1..Len(salts[d]) : salts'[d][k] = salts[d][k]
        BY <1>2, <2>3, Appended
      <3>2. i \in 1..Len(salts[d]) /\ i \in 1..(Len(salts[d]) + 1)
        BY <3>1
      <3>3. i \in DOMAIN salts'[d] /\ salts'[d][i] = <<n, s>>
        BY <2>1, <3>1, <3>2
      <3>4. \A j \in 1..(i - 1) : salts'[d][j][1] # n
        <4>1. \A j \in 1..(i - 1) : j \in 1..Len(salts[d])
          BY <3>1, <3>2
        <4> QED BY <2>1, <3>1, <4>1
      <3> QED BY <3>3, <3>4 DEF FirstSalt
    <2> QED BY <2>2, <2>3
  <1> QED BY <1>1, <1>2, SaltsChange

\* A started process has the salt of the first line with its name, or no line.
LEMMA SaltStaysOK ==
  ASSUME IInv, OneActive, [Next]_vars, NEW c \in Clients, SaltOK(c)
  PROVE  SaltOK(c)'
  <1>1. Dir[c] \in Dirs /\ User[c] \in Names /\ client[c] \in Processes /\ client \in [Clients -> Processes]
        /\ salts[Dir[c]] \in Seq(Names \X Clients)
    BY OfClient DEF IInv, Types, Dirs, Names
  <1>2. CASE Start(c)
    <2>1. salts' = salts /\ client[c].at = "off"
      BY <1>2 DEF Start, In
    <2>2. CASE Known(c)
      <3>1. PICK i \in DOMAIN salts[Dir[c]] :
              /\ salts[Dir[c]][i][1] = User[c]
              /\ \A j \in 1..(i - 1) : salts[Dir[c]][j][1] # User[c]
              /\ client' = [client EXCEPT ![c].at = "again", ![c].salt = salts[Dir[c]][i][2]]
        BY <1>2, <2>2 DEF Start
      <3>2. client'[c] = [client[c] EXCEPT !.at = "again", !.salt = salts[Dir[c]][i][2]]
        BY <1>1, <3>1
      <3>3. client'[c].at = "again" /\ client'[c].salt = salts[Dir[c]][i][2]
        BY <1>1, <3>2 DEF Processes
      <3>4. salts[Dir[c]][i] \in Names \X Clients
        BY <1>1, <3>1
      <3>5. salts[Dir[c]][i] = <<User[c], client'[c].salt>>
        BY <3>1, <3>3, <3>4
      <3>6. FirstSalt(Dir[c], User[c], client[c].salt)'
        BY <2>1, <3>1, <3>5 DEF FirstSalt
      <3> QED BY <3>3, <3>6 DEF SaltOK
    <2>3. CASE ~Known(c)
      <3>1. client'[c].at = "save"
        BY <1>1, <1>2, <2>3 DEF Start, Goto, Processes
      <3> QED BY <2>1, <2>3, <3>1 DEF SaltOK, Known
    <2> QED BY <2>2, <2>3
  <1>3. CASE ~Start(c)
    <2>1. /\ Active(c)' => Active(c)
          /\ client'[c].salt = client[c].salt
          /\ client'[c].at = "save" => client[c].at = "save"
          /\ client[c].at = "save" /\ client'[c].at # "save" /\ Active(c)' => SaveSalt(c)
      BY <1>3, Moves
    <2>2. ASSUME client'[c].at = "save"
          PROVE  \A i \in DOMAIN salts'[Dir[c]] : salts'[Dir[c]][i][1] # User[c]
      <3>1. client[c].at = "save" /\ Active(c)
        BY <2>1, <2>2 DEF Active
      <3>2. salts'[Dir[c]] = salts[Dir[c]]
        <4>1. ASSUME NEW b \in Clients, SaveSalt(b) PROVE salts'[Dir[c]] = salts[Dir[c]]
          <5>1. client[b].at = "save" /\ Active(b)
            BY <4>1 DEF SaveSalt, In, Active
          <5>2. b # c
            <6>1. client'[b].at = "ask"
              BY <1>1, <4>1 DEF SaveSalt, Goto, Processes
            <6> QED BY <2>2, <6>1
          <5>3. Dir[b] # Dir[c]
            BY <3>1, <5>1, <5>2 DEF OneActive
          <5> QED BY <1>1, <4>1, <5>3, Appended
        <4> QED BY <4>1, SaltsChange
      <3> QED BY <3>1, <3>2 DEF SaltOK
    <2>3. ASSUME Active(c)', client'[c].at # "save"
          PROVE  FirstSalt(Dir[c], User[c], client[c].salt)'
      <3>1. CASE client[c].at # "save"
        <4>1. FirstSalt(Dir[c], User[c], client[c].salt)
          BY <2>1, <2>3, <3>1 DEF SaltOK
        <4>2. PICK s : s = client[c].salt
          OBVIOUS
        <4>3. FirstSalt(Dir[c], User[c], s)'
          BY <1>1, <4>1, <4>2, FirstSaltStays
        <4> QED BY <2>1, <4>2, <4>3
      <3>2. CASE client[c].at = "save"
        <4>1. SaveSalt(c)
          BY <2>1, <2>3, <3>2
        <4> DEFINE s == salts[Dir[c]]
                   t == salts'[Dir[c]]
        <4>2. /\ Len(s) \in Nat /\ DOMAIN s = 1..Len(s) /\ DOMAIN t = 1..(Len(s) + 1)
              /\ t[Len(s) + 1] = <<User[c], client[c].salt>>
              /\ \A i \in 1..Len(s) : t[i] = s[i]
          BY <4>1, Appended
        <4>3. \A i \in 1..Len(s) : s[i][1] # User[c]
          BY <3>2, <4>2 DEF SaltOK
        <4> HIDE DEF s
        <4>4. Len(s) + 1 \in DOMAIN t /\ \A j \in 1..((Len(s) + 1) - 1) : t[j][1] # User[c]
          BY <4>2, <4>3
        <4>5. t[Len(s) + 1] = <<User[c], client'[c].salt>>
          BY <2>1, <4>2
        <4> QED BY <4>4, <4>5 DEF FirstSalt
      <3> QED BY <3>1, <3>2
    <2> QED BY <2>2, <2>3 DEF SaltOK
  <1> QED BY <1>2, <1>3

LEMMA ResponseIs ==
  ASSUME IInv, NEW c \in Clients, NEW status, NEW count, Respond(c, status, count)
  PROVE  /\ \/ thread'[c].at = "closed"
            \/ thread'[c].at = "send" /\ thread'[c].status = status
         /\ \A b \in Clients \ {c} : thread'[b] = thread[b]
  <1>1. thread[c] \in Threads /\ thread \in [Clients -> Threads]
    BY OfClient DEF IInv, Types
  <1>2. CASE count = 0
    <2>1. thread' = [thread EXCEPT ![c] = Idle]
      BY <1>2 DEF Respond
    <2> QED BY <1>1, <2>1, IdleIsThread
  <1>3. CASE count # 0
    <2>1. thread' = [thread EXCEPT ![c] = [thread[c] EXCEPT !.at = "send", !.status = status, !.count = count,
                                                            !.left = 0..(count - 1)]]
      BY <1>3 DEF Respond
    <2> QED BY <1>1, <2>1 DEF Threads
  <1> QED BY <1>2, <1>3

\* Where the signature of a waiting request and the status of an answer come from.
Sent(c) ==
  /\ thread'[c].at \in Waiting => \/ thread[c].at \in Waiting /\ thread'[c].sig = thread[c].sig
                                  \/ thread'[c].sig = Signature(c)
  /\ thread'[c].at = "send" /\ thread'[c].status \in Denials =>
       \/ thread[c].at = "send" /\ thread'[c].status = thread[c].status
       \/ thread[c].at = "request" /\ (users[User[c]] = None \/ users[User[c]] # thread[c].sig)

LEMMA SentByServer ==
  ASSUME IInv, NEW c \in Clients, Server(c)
  PROVE  Sent(c) /\ \A b \in Clients \ {c} : thread'[b] = thread[b]
  <1>1. thread[c] \in Threads /\ thread \in [Clients -> Threads]
    BY OfClient DEF IInv, Types
  <1> DEFINE Done == Sent(c) /\ \A b \in Clients \ {c} : thread'[b] = thread[b]
  <1>2. ASSUME NEW status, NEW count, Respond(c, status, count), status \notin Denials PROVE Done
    BY <1>2, ResponseIs DEF Sent, Waiting
  <1>3. CASE CheckName(c)
    <2>1. CASE thread' = [thread EXCEPT ![c].at = "insert"] /\ At(c, "register")
      <3>1. thread'[c].at = "insert" /\ thread'[c].sig = thread[c].sig /\ thread[c].at = "register"
            /\ \A b \in Clients \ {c} : thread'[b] = thread[b]
        BY <1>1, <2>1 DEF Threads, At
      <3> QED BY <3>1 DEF Sent, Waiting
    <2> QED BY <1>2, <1>3, <2>1 DEF CheckName, Message, Denials
  <1>4. CASE InsertUser(c)
    BY <1>2, <1>4 DEF InsertUser, Message, Denials
  <1>5. CASE HandleRequest(c)
    <2>1. thread[c].at = "request"
      BY <1>5 DEF HandleRequest, At
    <2>2. CASE \/ users[User[c]] = None /\ Message(c, "USER_MISSING")
               \/ users[User[c]] \notin {None, thread[c].sig} /\ Message(c, "INVALID_LOGIN")
      BY <2>1, <2>2, ResponseIs DEF Sent, Waiting, Message
    <2> QED BY <1>2, <1>5, <2>2 DEF HandleRequest, Message, Denials
  <1>6. CASE SendBlock(c)
    <2>1. PICK b \in thread[c].left : thread' = [thread EXCEPT ![c] =
             AfterBlock([thread[c] EXCEPT !.left = thread[c].left \ {b}])]
      BY <1>6 DEF SendBlock
    <2>2. thread'[c] = AfterBlock([thread[c] EXCEPT !.left = thread[c].left \ {b}])
          /\ \A d \in Clients \ {c} : thread'[d] = thread[d]
      BY <1>1, <2>1
    <2>3. thread'[c] = Idle \/ (thread'[c].at = thread[c].at /\ thread'[c].status = thread[c].status)
      BY <1>1, <2>2 DEF AfterBlock, Threads
    <2>4. thread[c].at = "send"
      BY <1>6 DEF SendBlock, At
    <2> QED BY <2>2, <2>3, <2>4, IdleIsThread DEF Sent, Waiting
  <1> QED BY <1>3, <1>4, <1>5, <1>6 DEF Server

LEMMA SentByClient ==
  ASSUME IInv, NEW c \in Clients, Client(c) \/ Start(c) \/ GetFile(c) \/ Quit(c) \/ Kill(c)
  PROVE  Sent(c) /\ \A b \in Clients \ {c} : thread'[b] = thread[b]
  <1>1. thread[c] \in Threads /\ thread \in [Clients -> Threads]
    BY OfClient DEF IInv, Types
  <1>2. CASE UNCHANGED thread
    BY <1>2 DEF Sent
  <1>3. CASE Connect(c)
    <2>1. thread' = [thread EXCEPT ![c] = [Idle EXCEPT !.at = "accepted"]]
      BY <1>3 DEF Connect
    <2>2. thread'[c].at = "accepted"
      BY <1>1, <2>1 DEF Idle
    <2> QED BY <1>1, <2>1, <2>2 DEF Sent, Waiting
  <1>4. CASE \E stage, path : Submit(c, stage, path) /\ stage # "send"
    <2>1. PICK stage, path : Submit(c, stage, path) /\ stage # "send"
      BY <1>4
    <2>2. CASE At(c, "accepted")
      <3>1. thread' = [thread EXCEPT ![c] = [Idle EXCEPT !.at = stage, !.path = path, !.sig = Signature(c)]]
        BY <2>1, <2>2 DEF Submit
      <3>2. thread'[c].at = stage /\ thread'[c].sig = Signature(c)
            /\ \A b \in Clients \ {c} : thread'[b] = thread[b]
        BY <1>1, <3>1 DEF Idle
      <3> QED BY <2>1, <3>2 DEF Sent
    <2>3. CASE ~At(c, "accepted")
      BY <1>2, <2>1, <2>3 DEF Submit
    <2> QED BY <2>2, <2>3
  <1> QED BY <1>2, <1>3, <1>4, SMTT(30) DEF Client, Start, GetFile, Quit, Kill, Reopen, SaveSalt, AskToRegister, ReadReply,
                                 ReadMessage, ReadHeader, ReadPayload, ReadNext, WriteFile, CheckFile

LEMMA SentByAny == ASSUME IInv, [Next]_vars, NEW c \in Clients PROVE Sent(c)
  <1>1. CASE UNCHANGED vars
    BY <1>1 DEF vars, Sent
  <1>2. CASE Restart
    <2>1. thread'[c].at = "closed"
      BY <1>2 DEF Restart, Idle
    <2> QED BY <2>1 DEF Sent, Waiting
  <1>3. ASSUME NEW b \in Clients, b # c,
               Server(b) \/ Client(b) \/ Start(b) \/ GetFile(b) \/ Quit(b) \/ Kill(b)
        PROVE  thread'[c] = thread[c]
    BY <1>3, SentByServer, SentByClient
  <1>4. thread'[c] = thread[c] => Sent(c)
    BY DEF Sent
  <1> QED BY <1>1, <1>2, <1>3, <1>4, SentByServer, SentByClient DEF Next

LEMMA SigStaysOK ==
  ASSUME IInv, [Next]_vars, NEW c \in Clients, SigOK(c)
  PROVE  SigOK(c)'
  <1> SUFFICES ASSUME Active(c)', thread'[c].at \in Waiting PROVE thread'[c].sig = Signature(c)'
    BY DEF SigOK
  <1>1. ~Start(c)
    <2>1. Start(c) => thread'[c].at = "accepted"
      BY OfClient DEF Start, Connect, Idle, IInv, Types
    <2> QED BY <2>1 DEF Waiting
  <1>2. Active(c) /\ client'[c].salt = client[c].salt
    BY <1>1, Moves
  <1>3. thread'[c].sig = Signature(c)
    BY <1>2, SentByAny DEF SigOK, Sent
  <1> QED BY <1>2, <1>3 DEF Signature

\* c is told that it is registered, and it is.
Told(c) == /\ ReadMessage(c) /\ In(c, "told") /\ users[User[c]] = Signature(c)
           /\ users' = users /\ acked' = acked \cup {Account(c)}

LEMMA AckedChanges ==
  ASSUME [Next]_vars
  PROVE  \/ acked' = {}
         \/ \E c \in Clients : /\ users' = [users EXCEPT ![User[c]] = thread[c].sig]
                               /\ acked' = {a \in acked : a[2] # User[c]}
         \/ users' = users /\ acked' = acked
         \/ \E c \in Clients : Told(c)
  <1>1. ASSUME NEW c \in Clients, Server(c) \/ Client(c) \/ Start(c) \/ GetFile(c) \/ Quit(c) \/ Kill(c)
        PROVE  \/ /\ users' = [users EXCEPT ![User[c]] = thread[c].sig]
                  /\ acked' = {a \in acked : a[2] # User[c]}
               \/ users' = users /\ acked' = acked
               \/ Told(c)
    <2>1. CASE Server(c)
      BY <2>1 DEF Server, CheckName, InsertUser, HandleRequest, SendBlock, ServerOnly
    <2>2. CASE ReadMessage(c)
      BY <2>2 DEF ReadMessage, ClientOnly, Told
    <2>3. CASE ReadReply(c) \/ ReadHeader(c) \/ ReadPayload(c) \/ ReadNext(c)
      BY <2>3 DEF ReadReply, ReadHeader, ReadPayload, ReadNext, ClientOnly
    <2>4. CASE \/ Reopen(c) \/ SaveSalt(c) \/ AskToRegister(c) \/ WriteFile(c) \/ CheckFile(c)
               \/ Start(c) \/ GetFile(c) \/ Quit(c) \/ Kill(c)
      BY <2>4 DEF Reopen, SaveSalt, AskToRegister, WriteFile, CheckFile, Start, GetFile, Quit, Kill, ClientOnly
    <2> QED BY <1>1, <2>1, <2>2, <2>3, <2>4 DEF Client
  <1> QED BY <1>1 DEF Next, Restart, vars

LEMMA AckedStaysOK ==
  ASSUME IInv, UsersInv, [Next]_vars
  PROVE  AckedOK'
  <1> DEFINE Held(a) == \E s \in Clients : /\ a[1] \in Dirs /\ a[2] \in Names
                                           /\ users[a[2]] = <<a[3], s>> /\ FirstSalt(a[1], a[2], s)
  <1>1. ASSUME NEW a \in acked, users'[a[2]] = users[a[2]] PROVE Held(a)'
    <2>1. PICK s \in Clients : /\ a[1] \in Dirs /\ a[2] \in Names
                               /\ users[a[2]] = <<a[3], s>> /\ FirstSalt(a[1], a[2], s)
      BY DEF UsersInv, AckedOK
    <2>2. PICK d, n : d = a[1] /\ n = a[2]
      OBVIOUS
    <2>3. FirstSalt(d, n, s)'
      BY <2>1, <2>2, FirstSaltStays
    <2> QED BY <1>1, <2>1, <2>2, <2>3
  <1>2. ASSUME NEW c \in Clients, Told(c) PROVE Held(Account(c))'
    <2>1. client[c].at = "told" /\ Active(c)
      BY <1>2 DEF Told, In, Active
    <2>2. FirstSalt(Dir[c], User[c], client[c].salt)
      BY <2>1 DEF UsersInv, SaltOK
    <2>3. PICK d \in Dirs, n \in Names, s \in Clients : d = Dir[c] /\ n = User[c] /\ s = client[c].salt
      BY OfClient DEF Dirs, Names, Processes
    <2>4. FirstSalt(d, n, s)'
      BY <2>2, <2>3, FirstSaltStays
    <2>5. Account(c) = <<d, n, Password[c]>> /\ users'[n] = <<Password[c], s>>
      BY <1>2, <2>3 DEF Account, Told, Signature
    <2>6. Account(c)[1] = d /\ Account(c)[2] = n /\ Account(c)[3] = Password[c]
      BY <2>5
    <2> QED BY <2>3, <2>4, <2>5, <2>6 DEF Account
  <1>3. ASSUME NEW c \in Clients, users' = [users EXCEPT ![User[c]] = thread[c].sig],
               acked' = {a \in acked : a[2] # User[c]}
        PROVE  AckedOK'
    <2>1. ASSUME NEW a \in acked' PROVE a \in acked /\ users'[a[2]] = users[a[2]]
      BY <1>3, <2>1 DEF UsersInv, AckedOK, IInv, Types
    <2> QED BY <1>1, <2>1 DEF AckedOK
  <1>4. CASE users' = users /\ acked' = acked
    BY <1>1, <1>4 DEF AckedOK
  <1>5. ASSUME NEW c \in Clients, Told(c) PROVE AckedOK'
    <2>1. users' = users /\ acked' = acked \cup {Account(c)}
      BY <1>5 DEF Told
    <2> QED BY <1>1, <1>2, <1>5, <2>1 DEF AckedOK
  <1>6. CASE acked' = {}
    BY <1>6 DEF AckedOK
  <1> QED BY <1>3, <1>4, <1>5, <1>6, AckedChanges

\* A registered user's request is not denied.
LEMMA RequestIsServed ==
  ASSUME IInv, UsersInv, NEW c \in Clients, Active(c), client[c].at # "save", thread[c].at \in Waiting,
         Account(c) \in acked
  PROVE  users[User[c]] = thread[c].sig /\ users[User[c]] # None
  <1>1. PICK s \in Clients : users[User[c]] = <<Password[c], s>> /\ FirstSalt(Dir[c], User[c], s)
    BY DEF UsersInv, AckedOK, Account
  <1>2. thread[c].sig = <<Password[c], client[c].salt>> /\ FirstSalt(Dir[c], User[c], client[c].salt)
    BY DEF UsersInv, SigOK, SaltOK, Signature
  <1>3. s = client[c].salt
    BY <1>1, <1>2, FirstIsUnique DEF IInv, Dirs
  <1> QED BY <1>1, <1>2, <1>3, ServiceAssumption

\* Only a request makes a process wait for a header, and only a header ends its request.
LEMMA ToHeader ==
  ASSUME IInv, NEW c \in Clients, Client(c) \/ Start(c) \/ GetFile(c) \/ Quit(c) \/ Kill(c)
  PROVE  /\ client'[c].at = "header" => GetFile(c)
         /\ client'[c].at = "message" => ReadHeader(c)
  <1>1. client[c] \in Processes /\ client \in [Clients -> Processes]
    BY OfClient DEF IInv, Types
  <1>2. CASE GetFile(c)
    <2>1. PICK p : client' = [client EXCEPT ![c].at = "header", ![c].path = p]
      BY <1>2 DEF GetFile
    <2>2. client'[c] = [client[c] EXCEPT !.at = "header", !.path = p]
      BY <1>1, <2>1
    <2> QED BY <1>1, <1>2, <2>2 DEF Processes
  <1>3. CASE ReadHeader(c)
    BY <1>3, HeaderRead
  <1>4. CASE ReadNext(c)
    BY <1>4, NextRead
  <1>5. CASE Start(c)
    <2>1. client'[c].at \in {"again", "save"}
      <3>1. CASE Known(c)
        <4>1. PICK i \in DOMAIN salts[Dir[c]] :
                client' = [client EXCEPT ![c].at = "again", ![c].salt = salts[Dir[c]][i][2]]
          BY <1>5, <3>1 DEF Start
        <4>2. client'[c] = [client[c] EXCEPT !.at = "again", !.salt = salts[Dir[c]][i][2]]
          BY <1>1, <4>1
        <4> QED BY <1>1, <4>2 DEF Processes
      <3>2. CASE ~Known(c)
        BY <1>1, <1>5, <3>2 DEF Start, Goto, Processes
      <3> QED BY <3>1, <3>2
    <2> QED BY <2>1
  <1>6. CASE ReadReply(c) \/ ReadMessage(c)
    BY <1>1, <1>6 DEF ReadReply, ReadMessage, Goto, Processes
  <1>7. CASE ReadPayload(c)
    <2>1. client'[c].at \in {"next", "failed"}
      BY <1>1, <1>7 DEF ReadPayload, Goto, Processes
    <2> QED BY <2>1
  <1>8. CASE Reopen(c)
    BY <1>1, <1>8 DEF Reopen, Processes
  <1>9. CASE SaveSalt(c) \/ AskToRegister(c) \/ WriteFile(c) \/ CheckFile(c) \/ Quit(c) \/ Kill(c)
    BY <1>1, <1>9 DEF SaveSalt, AskToRegister, WriteFile, CheckFile, Quit, Kill, Goto, Processes
  <1> QED BY <1>2, <1>3, <1>4, <1>5, <1>6, <1>7, <1>8, <1>9 DEF Client

\* Units for a client come from its thread, and only it reads them.
LEMMA UnitsCome ==
  ASSUME IInv, NEW c \in Clients,
         \/ UNCHANGED vars \/ Restart \/ \E b \in Clients : Server(b)
         \/ \E b \in Clients \ {c} : Client(b) \/ Start(b) \/ GetFile(b) \/ Quit(b) \/ Kill(b)
  PROVE  \A u \in UnitsFor(c)' : u \in UnitsFor(c) \/ (At(c, "send") /\ u.status = thread[c].status)
  <1>1. wire \in [Clients -> Seq(Unit)] /\ rio \in [Clients -> Seq(Unit)] /\ wire[c] \in Seq(Unit)
    BY DEF IInv, Types
  <1>2. CASE wire'[c] = wire[c] /\ rio'[c] = rio[c]
    BY <1>2 DEF UnitsFor
  <1>3. \A kind \in {"header", "payload"}, n \in thread[c].left :
          Block(c, kind, n) \in Unit /\ Block(c, kind, n).status = thread[c].status
    <2>1. gets[c] \in Nat /\ thread[c] \in Threads
      BY DEF IInv, Types
    <2> QED BY <2>1 DEF Block, Unit, Threads, SomePaths
  <1>4. ASSUME NEW h \in Unit, NEW d \in Unit, h.status = thread[c].status, d.status = thread[c].status,
               wire'[c] = Append(wire[c], h) \/ wire'[c] = wire[c] \o <<h, d>>,
               rio' = rio, At(c, "send")
        PROVE  \A u \in UnitsFor(c)' : u \in UnitsFor(c) \/ (At(c, "send") /\ u.status = thread[c].status)
    <2>1. \A k \in DOMAIN wire'[c] : \/ k \in DOMAIN wire[c] /\ wire'[c][k] = wire[c][k]
                                     \/ wire'[c][k] \in {h, d}
      <3>1. CASE wire'[c] = Append(wire[c], h)
        BY <1>1, <3>1
      <3>2. CASE wire'[c] = wire[c] \o <<h, d>>
        <4>1. <<h, d>> \in Seq(Unit) /\ Len(<<h, d>>) = 2 /\ <<h, d>>[1] = h /\ <<h, d>>[2] = d
          BY <1>4
        <4> DEFINE e == <<h, d>>
        <4> HIDE DEF e
        <4>2. \A k \in DOMAIN (wire[c] \o e) : \/ k \in DOMAIN wire[c] /\ (wire[c] \o e)[k] = wire[c][k]
                                              \/ (wire[c] \o e)[k] \in {e[1], e[2]}
          BY <1>1, <4>1 DEF e
        <4> QED BY <3>2, <4>1, <4>2 DEF e
      <3> QED BY <1>4, <3>1, <3>2
    <2>2. \A u \in UnitsFor(c)' : u \in UnitsFor(c) \/ u \in {h, d}
      BY <1>4, <2>1 DEF UnitsFor
    <2> QED BY <1>4, <2>2
  <1>5. ASSUME NEW b \in Clients, SendBlock(b)
        PROVE  \A u \in UnitsFor(c)' : u \in UnitsFor(c) \/ (At(c, "send") /\ u.status = thread[c].status)
    <2>1. PICK n \in thread[b].left :
            wire' = [wire EXCEPT ![b] = wire[b] \o <<Block(b, "header", n), Block(b, "payload", n)>>]
      BY <1>5 DEF SendBlock
    <2>2. rio' = rio /\ At(b, "send")
      BY <1>5 DEF SendBlock, ServerOnly
    <2>3. CASE b = c
      <3>1. wire'[c] = wire[c] \o <<Block(c, "header", n), Block(c, "payload", n)>>
        BY <1>1, <2>1, <2>3
      <3> QED BY <1>3, <1>4, <2>1, <2>2, <2>3, <3>1
    <2> QED BY <1>1, <1>2, <2>1, <2>2, <2>3
  <1>6. CASE Restart
    <2>1. PICK b \in Clients : \/ wire' = wire
                               \/ /\ At(b, "send")
                                  /\ \E n \in thread[b].left : wire' = [wire EXCEPT ![b] = Append(wire[b], Block(b, "header", n))]
      BY <1>6 DEF Restart
    <2>2. rio' = rio
      BY <1>6 DEF Restart
    <2>3. CASE b = c /\ wire' # wire
      <3>1. PICK n \in thread[c].left : wire' = [wire EXCEPT ![c] = Append(wire[c], Block(c, "header", n))]
        BY <2>1, <2>3
      <3>2. wire'[c] = Append(wire[c], Block(c, "header", n))
        BY <1>1, <3>1
      <3>3. At(c, "send")
        BY <2>1, <2>3
      <3>4. PICK h \in Unit : h = Block(c, "header", n) /\ h.status = thread[c].status
        BY <1>3
      <3> QED BY <1>4, <2>2, <3>2, <3>3, <3>4
    <2> QED BY <1>1, <1>2, <2>1, <2>2, <2>3
  <1>7. CASE UNCHANGED vars \/ \E b \in Clients : CheckName(b) \/ InsertUser(b) \/ HandleRequest(b)
    BY <1>2, <1>7 DEF vars, CheckName, InsertUser, HandleRequest, ServerOnly
  <1>8. ASSUME NEW b \in Clients \ {c}, Client(b) \/ Start(b) \/ GetFile(b) \/ Quit(b) \/ Kill(b)
        PROVE  wire'[c] = wire[c] /\ rio'[c] = rio[c]
    <2>1. CASE Take(b) \/ EndOfFile(b)
      BY <2>1, TakeTakesOne DEF EndOfFile, IInv
    <2>2. CASE Connect(b)
      BY <1>1, <2>2 DEF Connect
    <2>3. CASE UNCHANGED <<wire, rio>>
      BY <2>3
    <2>4. CASE Start(b) \/ Reopen(b)
      BY <2>2, <2>4 DEF Start, Reopen
    <2>5. CASE ReadReply(b) \/ ReadMessage(b) \/ ReadHeader(b) \/ ReadPayload(b) \/ ReadNext(b)
      <3>1. Take(b) \/ EndOfFile(b)
        BY <2>5 DEF ReadReply, ReadMessage, ReadHeader, ReadPayload, ReadNext
      <3> QED BY <2>1, <3>1
    <2>6. CASE GetFile(b)
      <3>1. \E p : Submit(b, "request", p)
        BY <2>6 DEF GetFile
      <3> QED BY <2>3, <3>1 DEF Submit
    <2>7. CASE Kill(b) \/ Quit(b)
      BY <2>3, <2>7 DEF Kill, Quit
    <2>8. CASE SaveSalt(b) \/ AskToRegister(b) \/ WriteFile(b) \/ CheckFile(b)
      BY <2>3, <2>8 DEF SaveSalt, AskToRegister, Submit, WriteFile, CheckFile
    <2> QED BY <1>8, <2>4, <2>5, <2>6, <2>7, <2>8 DEF Client
  <1> QED BY <1>2, <1>5, <1>6, <1>7, <1>8 DEF Server

\* A denial that is on its way was so before, or the thread has just found the
\* registration missing or another.
LEMMA DenialsCome ==
  ASSUME IInv, [Next]_vars, NEW c \in Clients, Denied(c)'
  PROVE  /\ Active(c) /\ client[c].at # "save"
         /\ \/ Denied(c)
            \/ /\ thread[c].at = "request"
               /\ users[User[c]] = None \/ users[User[c]] # thread[c].sig
  <1> DEFINE Mine == Client(c) \/ Start(c) \/ GetFile(c) \/ Quit(c) \/ Kill(c)
  <1>1. Sent(c)
    BY SentByAny
  <1>2. CASE ReadHeader(c)
    <2>1. /\ client'[c].at = "message" /\ client'[c].header.status \in Denials
          /\ client'[c].header = Upcoming(c) /\ Upcoming(c) \in UnitsFor(c)
      BY <1>2, HeaderRead DEF Denied
    <2>2. client[c].at = "header"
      BY <1>2 DEF ReadHeader, In
    <2> QED BY <2>1, <2>2 DEF Denied, Active
  <1>3. CASE GetFile(c)
    <2>1. client[c].at = "prompt" /\ Quiet(c)
      BY <1>3, OfClient DEF GetFile, In, ConnectionOK, ReadingOK
    <2>2. client'[c].at = "header" /\ UnitsFor(c)' = {} /\ thread'[c].at # "send"
      <3>1. PICK p : /\ client' = [client EXCEPT ![c].at = "header", ![c].path = p]
                     /\ Submit(c, "request", p)
        BY <1>3 DEF GetFile
      <3>2. client'[c] = [client[c] EXCEPT !.at = "header", !.path = p]
        BY <3>1 DEF IInv, Types
      <3>3. wire'[c] = << >> /\ rio'[c] = << >>
        BY <2>1, <3>1 DEF Submit, Quiet
      <3>4. thread'[c].at # "send"
        <4>1. CASE At(c, "accepted")
          <5>1. thread' = [thread EXCEPT ![c] = [Idle EXCEPT !.at = "request", !.path = p, !.sig = Signature(c)]]
            BY <3>1, <4>1 DEF Submit
          <5>2. thread'[c].at = "request"
            BY <5>1 DEF IInv, Types, Idle
          <5> QED BY <5>2
        <4>2. CASE ~At(c, "accepted")
          BY <2>1, <3>1, <4>2 DEF Submit, Quiet
        <4> QED BY <4>1, <4>2
      <3> QED BY <3>2, <3>3, <3>4, OfClient DEF UnitsFor, Processes
    <2> QED BY <2>2 DEF Denied, At
  <1>4. CASE Mine /\ ~ReadHeader(c) /\ ~GetFile(c)
    BY <1>4, ToHeader DEF Denied
  <1>5. CASE \/ UNCHANGED vars \/ Restart \/ \E b \in Clients : Server(b)
             \/ \E b \in Clients \ {c} : Client(b) \/ Start(b) \/ GetFile(b) \/ Quit(b) \/ Kill(b)
    <2>1. client'[c] = client[c]
      <3>1. ASSUME NEW b \in Clients \ {c}, Client(b) \/ Start(b) \/ GetFile(b) \/ Quit(b) \/ Kill(b)
            PROVE  client'[c] = client[c]
        BY <3>1, OneClientMoves DEF Alone
      <3>2. CASE \/ UNCHANGED vars \/ Restart \/ \E b \in Clients : Server(b)
        BY <3>2 DEF vars, Restart, Server, CheckName, InsertUser, HandleRequest, SendBlock, ServerOnly
      <3> QED BY <1>5, <3>1, <3>2
    <2>2. client[c].at \in {"header", "message"}
      BY <2>1 DEF Denied
    <2>3. CASE client[c].at = "message"
      BY <2>1, <2>3 DEF Denied, Active
    <2>4. CASE client[c].at = "header"
      <3>1. CASE \E u \in UnitsFor(c)' : u.status \in Denials
        <4>1. \A u \in UnitsFor(c)' : u \in UnitsFor(c) \/ (At(c, "send") /\ u.status = thread[c].status)
          BY <1>5, UnitsCome
        <4> QED BY <2>4, <3>1, <4>1 DEF Denied, Active
      <3>2. CASE At(c, "send")' /\ thread'[c].status \in Denials
        BY <1>1, <2>4, <3>2 DEF Denied, Active, Sent, At
      <3> QED BY <2>1, <2>4, <3>1, <3>2 DEF Denied
    <2> QED BY <2>2, <2>3, <2>4
  <1> QED BY <1>2, <1>3, <1>4, <1>5 DEF Next

LEMMA DeniedStaysOK ==
  ASSUME IInv, UsersInv, [Next]_vars, NEW c \in Clients, Denied(c)'
  PROVE  Account(c) \notin acked'
  <1>1. /\ Active(c) /\ client[c].at # "save"
        /\ \/ Denied(c)
           \/ /\ thread[c].at = "request"
              /\ users[User[c]] = None \/ users[User[c]] # thread[c].sig
    BY DenialsCome
  <1>2. Account(c) \notin acked
    BY <1>1, RequestIsServed DEF UsersInv, Waiting
  <1>3. ASSUME NEW b \in Clients, Told(b) PROVE Account(b) # Account(c)
    <2>1. client[b].at = "told" /\ Active(b)
      BY <1>3 DEF Told, In, Active
    <2>2. b # c
      <3>1. client'[b].at = "again"
        BY <1>3, OfClient DEF Told, ReadMessage, Goto, IInv, Types, Processes
      <3> QED BY <3>1 DEF Denied
    <2>3. Dir[b] # Dir[c]
      BY <1>1, <2>1, <2>2 DEF UsersInv, OneActive
    <2> QED BY <2>3 DEF Account
  <1>4. ASSUME NEW b \in Clients, Told(b) PROVE Account(c) \notin acked'
    BY <1>2, <1>3, <1>4 DEF Told
  <1> QED BY <1>2, <1>4, AckedChanges

LEMMA UsersStayServed ==
  ASSUME OneAtATime, IInv, UsersInv, [Next]_vars
  PROVE  UsersInv'
  <1>1. OneActive'
    BY OneStaysActive DEF UsersInv
  <1>2. ASSUME NEW c \in Clients PROVE SaltOK(c)' /\ SigOK(c)'
    BY SaltStaysOK, SigStaysOK DEF UsersInv
  <1>3. ASSUME NEW c \in Clients, Denied(c)' PROVE Account(c)' \notin acked'
    BY <1>3, DeniedStaysOK DEF Account
  <1> QED BY <1>1, <1>2, <1>3, AckedStaysOK DEF UsersInv

\* Where a directory runs one process at a time: whoever has been told that the
\* registration is OK is not denied, with the salt that salts.csv keeps, before
\* the server restarts or the registration is replaced (server.py 99-194,
\* networking.c 113-150 and 310-350).
THEOREM UsersAreServed ==
  ASSUME OneAtATime
  PROVE  Spec => []RegisteredUsersAreServed
  <1>1. Init => UsersInv
    <2> SUFFICES ASSUME Init PROVE UsersInv
      OBVIOUS
    <2>1. \A c \in Clients : client[c].at = "off" /\ thread[c].at = "closed" /\ ~Active(c)
      BY DEF Init, Active, Idle
    <2>2. acked = {}
      BY DEF Init
    <2> QED BY <2>1, <2>2 DEF UsersInv, OneActive, SaltOK, SigOK, AckedOK, Denied
  <1>2. IInv /\ UsersInv /\ [Next]_vars => UsersInv'
    BY UsersStayServed
  <1>3. UsersInv => RegisteredUsersAreServed
    BY DEF UsersInv, RegisteredUsersAreServed, Denied, Denials
  <1> QED BY <1>1, <1>2, <1>3, Invariant, PTL DEF Spec
=============================================================================
