----------------------------- MODULE PeerProofs -----------------------------
(***************************************************************************)
(* Proofs about the peers of A4.  About PeerNetwork: for any peers,        *)
(* configured contacts, number of connections open at a time, minutes,     *)
(* fetches.  About PeerRetrieve and PeerFetch: what is on the    *)
(* disk, what is read from it and what the peer in C makes of the answer,  *)
(* for any number of requests, names, paths, blocks and retrievals.        *)
(***************************************************************************)
EXTENDS PeerNetwork, PeerFetch, InductionLemmas

Phases   == {"off", "starting", "serving"}
Pcs      == {"sent", "register", "refuse", "welcome", "announce", "inform",
             "add", "serve", "apologise", "done"}
Lists    == Seq(Entry)

\* A list of p: p itself, then others, each once, with the time they came.
IsListOf(p, list) ==
  /\ list # << >>
  /\ \A i \in DOMAIN list : /\ i = 1 <=> list[i].addr = p
                            /\ i = 1 <=> list[i].seen = Own
  /\ \A i, j \in DOMAIN list : list[i].addr = list[j].addr => i = j

PeerOK(p) ==
  /\ client[p].pc # "off" => phase[p] # "off"
  /\ client[p].pc = "register" => Contact[p] \in Peers
  /\ client[p].pc = "ask" => client[p].data # << >>
  /\ phase[p] # "off" => IsListOf(p, network[p])

\* A handler that has not returned belongs to a peer that runs.
SlotOK(s) ==
  conn[s] # NoConn => conn[s].idx >= 1 /\ (conn[s].pc # "done" => Serving(conn[s].to))

IInv == TypeOK /\ (\A p \in Peers : PeerOK(p)) /\ (\A s \in Slots : SlotOK(s))

-----------------------------------------------------------------------------
(* Lists *)

LEMMA AddressesArePeers == ASSUME NEW list \in Lists PROVE Addresses(list) \subseteq Peers
  <1>1. \A i \in DOMAIN list : list[i] \in Entry
    BY DEF Lists
  <1>2. \A i \in DOMAIN list : list[i].addr \in Peers
    BY <1>1 DEF Entry
  <1> QED BY <1>2 DEF Addresses

LEMMA SameList ==
  ASSUME NEW k \in Lists, NEW l \in Lists, Len(k) = Len(l), \A i \in 1..Len(l) : k[i] = l[i]
  PROVE  k = l
  BY DEF Lists

LEMMA InAddresses ==
  ASSUME NEW list, NEW i \in DOMAIN list
  PROVE  list[i].addr \in Addresses(list)
  BY DEF Addresses

LEMMA AppendedIs ==
  ASSUME NEW S, NEW list \in Seq(S), NEW e \in S
  PROVE  /\ Append(list, e) \in Seq(S) /\ Len(Append(list, e)) = Len(list) + 1
         /\ DOMAIN Append(list, e) = 1..(Len(list) + 1) /\ DOMAIN list = 1..Len(list) /\ Len(list) \in Nat
         /\ Append(list, e)[Len(list) + 1] = e
         /\ \A i \in 1..Len(list) : Append(list, e)[i] = list[i]
  OBVIOUS

LEMMA AppendedAddresses ==
  ASSUME NEW list \in Lists, NEW e \in Entry
  PROVE  Addresses(Append(list, e)) = Addresses(list) \cup {e.addr}
  <1> DEFINE l == Append(list, e)
             n == Len(list) + 1
  <1>1. /\ DOMAIN l = 1..n /\ DOMAIN list = 1..Len(list) /\ Len(list) \in Nat /\ n \in 1..n /\ l[n] = e
        /\ \A i \in 1..Len(list) : l[i] = list[i]
    BY AppendedIs DEF Lists
  <1>2. \A i \in 1..n : i = n \/ i \in 1..Len(list)
    BY <1>1
  <1>3. \A i \in 1..Len(list) : i \in 1..n
    BY <1>1
  <1> HIDE DEF l, n
  <1>4. {l[i].addr : i \in DOMAIN l} = {list[i].addr : i \in DOMAIN list} \cup {e.addr}
    BY <1>1, <1>2, <1>3
  <1> QED BY <1>4 DEF Addresses, l

LEMMA NowIsTime == TypeOK => now \in Nat /\ now \in Own..MaxNow /\ now # Own
  BY NetworkAssumption DEF TypeOK, Own

\* A new address goes to the end of the list.
LEMMA AppendIfNewKeeps ==
  ASSUME TypeOK, NEW p \in Peers, NEW list \in Lists, NEW a \in Peers
  PROVE  /\ AppendIfNew(list, a) \in Lists
         /\ Addresses(AppendIfNew(list, a)) = Addresses(list) \cup {a}
         /\ IsListOf(p, list) => IsListOf(p, AppendIfNew(list, a))
  <1>1. CASE a \in Addresses(list)
    BY <1>1 DEF AppendIfNew
  <1>2. CASE a \notin Addresses(list)
    <2> DEFINE e == [addr |-> a, seen |-> now]
               l == Append(list, e)
               n == Len(list) + 1
    <2>1. e \in Entry /\ e.addr = a /\ e.seen # Own
      BY NowIsTime DEF Entry
    <2>2. AppendIfNew(list, a) = l
      BY <1>2 DEF AppendIfNew
    <2> HIDE DEF e
    <2>3. /\ l \in Lists /\ DOMAIN l = 1..n /\ DOMAIN list = 1..Len(list) /\ Len(list) \in Nat /\ l[n] = e
          /\ \A i \in 1..Len(list) : l[i] = list[i]
      BY <2>1, AppendedIs DEF Lists
    <2>4. Addresses(l) = Addresses(list) \cup {a}
      BY <2>1, AppendedAddresses
    <2>5. ASSUME IsListOf(p, list) PROVE IsListOf(p, l)
      <3>1. Len(list) >= 1 /\ n # 1 /\ 1 \in DOMAIN list /\ list[1].addr = p
        BY <2>3, <2>5 DEF IsListOf, Lists
      <3>2. a # p /\ \A i \in DOMAIN list : list[i].addr # a
        BY <1>2, <3>1 DEF Addresses
      <3> HIDE DEF l
      <3>3. \A i \in DOMAIN l : i = n \/ (i \in DOMAIN list /\ l[i] = list[i])
        BY <2>3
      <3> HIDE DEF n
      <3>4. \A i \in DOMAIN l : (i = 1 <=> l[i].addr = p) /\ (i = 1 <=> l[i].seen = Own)
        BY <2>1, <2>3, <2>5, <3>1, <3>2, <3>3 DEF IsListOf
      <3>5. \A i, j \in DOMAIN l : l[i].addr = l[j].addr => i = j
        BY <2>1, <2>3, <2>5, <3>1, <3>2, <3>3 DEF IsListOf
      <3>6. l # << >>
        BY <2>3, <3>1 DEF n
      <3> QED BY <3>4, <3>5, <3>6 DEF IsListOf
    <2> QED BY <2>2, <2>3, <2>4, <2>5
  <1> QED BY <1>1, <1>2

\* The loop of to_server over the addresses of the answer.
LEMMA MergedIs ==
  ASSUME TypeOK, NEW p \in Peers, NEW list \in Lists, NEW data \in Seq(Peers)
  PROVE  /\ Merged(list, data) \in Lists
         /\ Addresses(Merged(list, data)) = Addresses(list) \cup {data[i] : i \in DOMAIN data}
         /\ IsListOf(p, list) => IsListOf(p, Merged(list, data))
  <1> DEFINE N == Len(data)
             step == [n \in 1..N |-> [l \in Lists |-> AppendIfNew(l, data[n])]]
  <1>1. N \in Nat /\ DOMAIN data = 1..N /\ \A n \in 1..N : data[n] \in Peers
    OBVIOUS
  <1>2. \A n \in 1..N, l \in Lists : AppendIfNew(l, data[n]) \in Lists
    BY <1>1, AppendIfNewKeeps
  <1> HIDE DEF N
  <1>3. step \in [1..N -> [Lists -> Lists]]
    BY <1>2
  <1>4. \A n \in 1..N, l \in Lists : step[n][l] = AppendIfNew(l, data[n])
    OBVIOUS
  <1> HIDE DEF step
  <1>5. PICK f \in [0..N -> Lists] : f[0] = list /\ \A n \in 1..N : f[n] = step[n][f[n - 1]]
    <2>1. N \in Nat
      BY <1>1
    <2>2. step \in Turns(N, Lists)
      BY <1>3 DEF Turns
    <2>3. \E f \in [0..N -> Lists] : IsRun(f, N, list, step)
      BY <2>1, <2>2, LoopExists
    <2> QED BY <2>3 DEF IsRun
  <1>6. f = [n \in 0..N |-> IF n = 0 THEN list ELSE AppendIfNew(f[n - 1], data[n])]
    <2>1. \A n \in 1..N : f[n - 1] \in Lists
      BY <1>1
    <2>2. \A n \in 0..N : f[n] = IF n = 0 THEN list ELSE AppendIfNew(f[n - 1], data[n])
      BY <1>1, <1>4, <1>5, <2>1
    <2> QED BY <1>5, <2>2
  <1>7. PICK m : /\ Merged(list, data) = m[N]
                 /\ m = [n \in 0..N |-> IF n = 0 THEN list ELSE AppendIfNew(m[n - 1], data[n])]
    BY <1>6 DEF Merged, N
  <1> DEFINE T == {n \in 0..N : /\ m[n] \in Lists
                                /\ Addresses(m[n]) = Addresses(list) \cup {data[i] : i \in 1..n}
                                /\ IsListOf(p, list) => IsListOf(p, m[n])}
  <1>8. 0 \in T
    <2>1. 0 \in 0..N /\ m[0] = list /\ 1..0 = {}
      BY <1>1, <1>7
    <2> QED BY <2>1
  <1>9. ASSUME NEW n \in 0..(N - 1), n \in T PROVE n + 1 \in T
    <2>1. n + 1 \in 0..N /\ n + 1 # 0 /\ (n + 1) - 1 = n /\ n + 1 \in 1..N /\ 1..(n + 1) = 1..n \cup {n + 1}
      BY <1>1
    <2>2. m[n + 1] = AppendIfNew(m[n], data[n + 1])
      BY <1>7, <2>1
    <2>3. /\ m[n] \in Lists
          /\ Addresses(m[n]) = Addresses(list) \cup {data[i] : i \in 1..n}
          /\ IsListOf(p, list) => IsListOf(p, m[n])
      BY <1>9
    <2>6. data[n + 1] \in Peers
      BY <1>1, <2>1
    <2> HIDE DEF T
    <2>4. /\ m[n + 1] \in Lists
          /\ Addresses(m[n + 1]) = Addresses(m[n]) \cup {data[n + 1]}
          /\ IsListOf(p, list) => IsListOf(p, m[n + 1])
      BY <2>2, <2>3, <2>6, AppendIfNewKeeps
    <2>5. {data[i] : i \in 1..(n + 1)} = {data[i] : i \in 1..n} \cup {data[n + 1]}
      BY <2>1
    <2> QED BY <2>1, <2>3, <2>4, <2>5 DEF T
  <1>10. 0..N \subseteq T
    <2> HIDE DEF T
    <2> QED BY <1>1, <1>8, <1>9, InductionUpTo
  <1>11. N \in T
    <2> HIDE DEF T
    <2> QED BY <1>1, <1>10
  <1> QED BY <1>1, <1>7, <1>11

\* The loop that throws old entries out.
LEMMA FreshIs ==
  ASSUME TypeOK, NEW p \in Peers, NEW list \in Lists
  PROVE  /\ Fresh(list) \in Lists
         /\ \A i \in DOMAIN list : IsFresh(list[i]) => list[i].addr \in Addresses(Fresh(list))
         /\ Addresses(Fresh(list)) \subseteq Addresses(list)
         /\ (\A i \in DOMAIN list : IsFresh(list[i])) => Fresh(list) = list
         /\ IsListOf(p, list) => IsListOf(p, Fresh(list))
  <1> DEFINE N == Len(list)
             Turn(l, n) == IF IsFresh(list[n]) THEN Append(l, list[n]) ELSE l
             step == [n \in 1..N |-> [l \in Lists |-> Turn(l, n)]]
  <1>1. N \in Nat /\ DOMAIN list = 1..N /\ \A n \in 1..N : list[n] \in Entry
    BY DEF Lists
  <1>2. \A n \in 1..N, l \in Lists : Turn(l, n) \in Lists
    BY <1>1 DEF Lists
  <1> HIDE DEF N
  <1>3. step \in [1..N -> [Lists -> Lists]]
    BY <1>2
  <1>4. \A n \in 1..N, l \in Lists : step[n][l] = Turn(l, n)
    OBVIOUS
  <1>0. << >> \in Lists
    BY DEF Lists
  <1> HIDE DEF step
  <1>5. PICK f \in [0..N -> Lists] : f[0] = << >> /\ \A n \in 1..N : f[n] = step[n][f[n - 1]]
    <2>1. N \in Nat
      BY <1>1
    <2>2. step \in Turns(N, Lists)
      BY <1>3 DEF Turns
    <2>3. \E f \in [0..N -> Lists] : IsRun(f, N, << >>, step)
      BY <1>0, <2>1, <2>2, LoopExists
    <2> QED BY <2>3 DEF IsRun
  <1>6. f = [n \in 0..N |-> IF n = 0 THEN << >> ELSE Turn(f[n - 1], n)]
    <2>1. \A n \in 1..N : f[n - 1] \in Lists
      BY <1>1
    <2> HIDE DEF Turn
    <2>2. \A n \in 0..N : f[n] = IF n = 0 THEN << >> ELSE Turn(f[n - 1], n)
      BY <1>1, <1>4, <1>5, <2>1
    <2> QED BY <1>5, <2>2
  <1>7. PICK m : /\ Fresh(list) = m[N]
                 /\ m = [n \in 0..N |-> IF n = 0 THEN << >> ELSE Turn(m[n - 1], n)]
    BY <1>6 DEF Fresh, N
  <1> DEFINE From(n) == {list[i] : i \in 1..n}
             T == {n \in 0..N :
                     /\ m[n] \in Lists
                     /\ \A j \in DOMAIN m[n] : m[n][j] \in From(n)
                     /\ \A i \in 1..n : IsFresh(list[i]) => \E j \in DOMAIN m[n] : m[n][j] = list[i]
                     /\ (\A i \in 1..n : IsFresh(list[i])) =>
                          Len(m[n]) = n /\ \A i \in 1..n : m[n][i] = list[i]
                     /\ IsListOf(p, list) /\ n > 0 => /\ m[n] # << >> /\ m[n][1] = list[1]
                                                     /\ \A i, j \in DOMAIN m[n] :
                                                          m[n][i].addr = m[n][j].addr => i = j}
  <1>8. 0 \in T
    <2>1. 0 \in 0..N /\ m[0] = << >> /\ 1..0 = {} /\ DOMAIN << >> = {} /\ Len(<< >>) = 0
      BY <1>1, <1>7
    <2> QED BY <1>0, <2>1
  <1>9. ASSUME NEW n \in 0..(N - 1), n \in T PROVE n + 1 \in T
    <2> DEFINE l == m[n]
               k == m[n + 1]
               e == list[n + 1]
    <2>1. n + 1 \in 0..N /\ n + 1 # 0 /\ (n + 1) - 1 = n /\ n + 1 \in 1..N /\ 1..(n + 1) = 1..n \cup {n + 1}
          /\ n \in Nat /\ n + 1 \notin 1..n
      BY <1>1
    <2>2. k = Turn(l, n + 1)
      BY <1>7, <2>1
    <2>3. /\ l \in Lists
          /\ \A j \in DOMAIN l : l[j] \in From(n)
          /\ \A i \in 1..n : IsFresh(list[i]) => \E j \in DOMAIN l : l[j] = list[i]
          /\ (\A i \in 1..n : IsFresh(list[i])) => Len(l) = n /\ \A i \in 1..n : l[i] = list[i]
          /\ IsListOf(p, list) /\ n > 0 => /\ l # << >> /\ l[1] = list[1]
                                          /\ \A i, j \in DOMAIN l : l[i].addr = l[j].addr => i = j
      BY <1>9
    <2>4. e \in Entry
      BY <1>1, <2>1
    <2>5. From(n + 1) = From(n) \cup {e}
      BY <2>1
    <2> HIDE DEF From, l, k, e, T
    <2>6. ASSUME IsListOf(p, list), n > 0 PROVE \A i \in 1..n : list[i].addr # e.addr
      BY <1>1, <2>1, <2>6 DEF IsListOf, e
    <2>7. ASSUME IsListOf(p, list), n = 0 PROVE IsFresh(e) /\ e = list[1]
      BY <1>1, <2>1, <2>7 DEF IsListOf, IsFresh, e
    <2>8. CASE ~IsFresh(e)
      <3>1. k = l
        BY <2>2, <2>8 DEF e
      <3>2. \A j \in DOMAIN k : k[j] \in From(n + 1)
        BY <2>3, <2>5, <3>1
      <3>3. \A i \in 1..(n + 1) : IsFresh(list[i]) => \E j \in DOMAIN k : k[j] = list[i]
        BY <2>1, <2>3, <2>8, <3>1 DEF e
      <3>4. ~ \A i \in 1..(n + 1) : IsFresh(list[i])
        BY <2>1, <2>8 DEF e
      <3>5. IsListOf(p, list) => n > 0
        BY <2>1, <2>7, <2>8
      <3> QED BY <2>1, <2>3, <3>1, <3>2, <3>3, <3>4, <3>5 DEF T, k, l
    <2>9. CASE IsFresh(e)
      <3> DEFINE z == Len(l) + 1
      <3>1. k = Append(l, e)
        BY <2>2, <2>9 DEF e
      <3>2. /\ k \in Lists /\ DOMAIN k = 1..z /\ DOMAIN l = 1..Len(l) /\ Len(l) \in Nat /\ k[z] = e /\ Len(k) = z
            /\ \A i \in 1..Len(l) : k[i] = l[i]
        BY <2>3, <2>4, <3>1, AppendedIs DEF Lists
      <3>3. /\ \A j \in DOMAIN k : j = z \/ (j \in DOMAIN l /\ k[j] = l[j])
            /\ \A j \in DOMAIN l : j \in DOMAIN k /\ k[j] = l[j]
            /\ z \in DOMAIN k
        BY <3>2
      <3>4. \A j \in DOMAIN k : k[j] \in From(n + 1)
        BY <2>3, <2>5, <3>2, <3>3
      <3>5. \A i \in 1..(n + 1) : IsFresh(list[i]) => \E j \in DOMAIN k : k[j] = list[i]
        <4>1. k[z] = list[n + 1] /\ z \in DOMAIN k
          BY <3>2, <3>3 DEF e
        <4>2. \A i \in 1..n : IsFresh(list[i]) => \E j \in DOMAIN k : k[j] = list[i]
          BY <2>3, <3>3
        <4> QED BY <2>1, <4>1, <4>2
      <3>6. ASSUME \A i \in 1..(n + 1) : IsFresh(list[i])
            PROVE  Len(k) = n + 1 /\ \A i \in 1..(n + 1) : k[i] = list[i]
        <4>1. Len(l) = n /\ \A i \in 1..n : l[i] = list[i]
          BY <2>1, <2>3, <3>6
        <4> QED BY <2>1, <3>2, <4>1 DEF e
      <3>7. ASSUME IsListOf(p, list)
            PROVE  /\ k # << >> /\ k[1] = list[1]
                   /\ \A i, j \in DOMAIN k : k[i].addr = k[j].addr => i = j
        <4>1. k # << >>
          BY <3>3
        <4>2. CASE n = 0
          <5>1. \A i \in 1..n : FALSE
            BY <4>2
          <5>2. \A j \in DOMAIN l : FALSE
            BY <2>3, <5>1 DEF From
          <5>3. Len(l) = 0
            BY <3>2, <5>2
          <5> QED BY <2>7, <3>2, <3>3, <3>7, <4>1, <4>2, <5>2, <5>3
        <4>3. CASE n > 0
          <5>1. \A j \in DOMAIN l : l[j].addr # e.addr
            BY <2>3, <2>6, <3>7, <4>3 DEF From
          <5>2. /\ l # << >> /\ l[1] = list[1]
                /\ \A i, j \in DOMAIN l : l[i].addr = l[j].addr => i = j
            BY <2>3, <3>7, <4>3
          <5>3. 1 \in DOMAIN l
            BY <2>3, <5>2 DEF Lists
          <5>4. \A i, j \in DOMAIN k : k[i].addr = k[j].addr => i = j
            BY <3>2, <3>3, <5>1, <5>2
          <5> QED BY <3>3, <4>1, <5>2, <5>3, <5>4
        <4> QED BY <2>1, <4>2, <4>3
      <3> QED BY <2>1, <3>2, <3>4, <3>5, <3>6, <3>7 DEF T, k
    <2> QED BY <2>8, <2>9
  <1>10. 0..N \subseteq T
    <2> HIDE DEF T
    <2> QED BY <1>1, <1>8, <1>9, InductionUpTo
  <1>11. N \in T
    <2> HIDE DEF T
    <2> QED BY <1>1, <1>10
  <1> DEFINE r == Fresh(list)
  <1>12. /\ r \in Lists
         /\ \A j \in DOMAIN r : r[j] \in From(N)
         /\ \A i \in 1..N : IsFresh(list[i]) => \E j \in DOMAIN r : r[j] = list[i]
         /\ (\A i \in 1..N : IsFresh(list[i])) => Len(r) = N /\ \A i \in 1..N : r[i] = list[i]
         /\ IsListOf(p, list) /\ N > 0 => /\ r # << >> /\ r[1] = list[1]
                                         /\ \A i, j \in DOMAIN r : r[i].addr = r[j].addr => i = j
    <2>1. r = m[N]
      BY <1>7
    <2> HIDE DEF r, From
    <2> QED BY <1>11, <2>1
  <1> HIDE DEF T, r
  <1>13. (\A i \in DOMAIN list : IsFresh(list[i])) => r = list
    <2> SUFFICES ASSUME \A i \in DOMAIN list : IsFresh(list[i]) PROVE r = list
      OBVIOUS
    <2>1. Len(r) = Len(list) /\ \A i \in 1..Len(list) : r[i] = list[i]
      BY <1>1, <1>12 DEF N
    <2> QED BY <1>12, <2>1, SameList
  <1>14. \A i \in DOMAIN list : IsFresh(list[i]) => list[i].addr \in Addresses(r)
    BY <1>1, <1>12 DEF Addresses
  <1>15. Addresses(r) \subseteq Addresses(list)
    BY <1>1, <1>12 DEF Addresses
  <1>16. ASSUME IsListOf(p, list) PROVE IsListOf(p, r)
    <2>1. N > 0 /\ 1 \in 1..N
      BY <1>1, <1>16 DEF IsListOf, Lists, N
    <2>2. /\ r # << >> /\ r[1] = list[1]
          /\ \A i, j \in DOMAIN r : r[i].addr = r[j].addr => i = j
      BY <1>12, <1>16, <2>1
    <2>3. 1 \in DOMAIN r
      BY <1>12, <2>2 DEF Lists
    <2>4. list[1].addr = p /\ list[1].seen = Own
      BY <1>1, <1>16, <2>1 DEF IsListOf
    <2>5. ASSUME NEW j \in DOMAIN r PROVE (j = 1 <=> r[j].addr = p) /\ (j = 1 <=> r[j].seen = Own)
      <3>1. PICK i \in 1..N : r[j] = list[i]
        BY <1>12
      <3>2. r[j].addr = p => j = 1
        BY <2>2, <2>3, <2>4
      <3>3. r[j].seen = Own => r[j].addr = p
        BY <1>1, <1>16, <3>1 DEF IsListOf
      <3> QED BY <2>2, <2>4, <3>2, <3>3
    <2> QED BY <2>2, <2>5 DEF IsListOf
  <1> QED BY <1>12, <1>13, <1>14, <1>15, <1>16 DEF r

-----------------------------------------------------------------------------
(* Connections *)

\* The fields of a connection that never change.
SameConn(c, d) == c.cmd = d.cmd /\ c.from = d.from /\ c.to = d.to /\ c.about = d.about

LEMMA UpdateIs ==
  ASSUME TypeOK, NEW s \in Slots, NEW c \in Conn, Update(s, c)
  PROVE  /\ conn' \in [Slots -> Conn \cup {NoConn}]
         /\ conn'[s] = Kept(c) /\ conn'[s] \in {c, NoConn}
         /\ conn'[s] = NoConn <=> c.pc = "done" /\ c.gone
         /\ \A r \in Slots \ {s} : conn'[r] = conn[r]
  BY SlotAssumption DEF TypeOK, Update, Kept

LEMMA AtIs ==
  ASSUME IInv, NEW s \in Slots, NEW pc, At(s, pc)
  PROVE  /\ conn[s] \in Conn /\ conn[s].pc = pc /\ conn[s].idx >= 1
         /\ pc # "done" => Serving(conn[s].to)
         /\ conn[s].to \in Peers /\ conn[s].from \in Peers /\ conn[s].about \in Peers
  <1>1. conn[s] \in Conn /\ conn[s].pc = pc /\ conn[s] # NoConn
    BY DEF At, IInv, TypeOK
  <1>2. conn[s].idx >= 1 /\ (pc # "done" => Serving(conn[s].to))
    BY <1>1 DEF IInv, SlotOK
  <1> QED BY <1>1, <1>2 DEF Conn

\* The handler of connection s goes on as c.
LEMMA UpdateKeeps ==
  ASSUME IInv, NEW s \in Slots, NEW c \in Conn, Update(s, c), UNCHANGED phase,
         c.idx >= 1, c.pc # "done" => Serving(c.to)
  PROVE  conn' \in [Slots -> Conn \cup {NoConn}] /\ \A r \in Slots : SlotOK(r)'
  <1>1. /\ conn' \in [Slots -> Conn \cup {NoConn}]
        /\ conn'[s] \in {c, NoConn}
        /\ \A r \in Slots \ {s} : conn'[r] = conn[r]
    BY UpdateIs DEF IInv
  <1> QED BY <1>1 DEF SlotOK, Serving, IInv

\* What Goto, Send and SendRaises make of a connection.
Moved(s, next, replies) == [conn[s] EXCEPT !.pc = next, !.replies = replies]

LEMMA MovedIs ==
  ASSUME IInv, NEW s \in Slots, NEW pc, At(s, pc), NEW next \in Pcs,
         NEW replies \in Seq({"OK", "PEER_EXISTS", "OTHER"})
  PROVE  LET c == Moved(s, next, replies) IN
           /\ c \in Conn /\ c.pc = next /\ c.replies = replies /\ SameConn(c, conn[s])
           /\ c.idx = conn[s].idx /\ c.data = conn[s].data /\ c.gone = conn[s].gone
  <1>1. conn[s] \in Conn
    BY AtIs
  <1> QED BY <1>1 DEF Moved, Conn, Pcs, SameConn

LEMMA Answering ==
  ASSUME IInv, NEW s \in Slots, NEW pc, At(s, pc), NEW next \in Pcs
  PROVE  /\ Goto(s, next) => Update(s, Moved(s, next, conn[s].replies))
         /\ \A status : Send(s, status, next) => Update(s, Moved(s, next, Append(conn[s].replies, status)))
         /\ SendRaises(s, next) => conn[s].gone /\ Update(s, Moved(s, next, conn[s].replies))
         /\ conn[s].replies \in Seq({"OK", "PEER_EXISTS", "OTHER"})
         /\ \A status \in {"OK", "PEER_EXISTS", "OTHER"} :
              Append(conn[s].replies, status) \in Seq({"OK", "PEER_EXISTS", "OTHER"})
  <1>1. conn[s] \in Conn
    BY AtIs
  <1>2. conn[s].replies \in Seq({"OK", "PEER_EXISTS", "OTHER"})
    BY <1>1 DEF Conn
  <1>3. [conn[s] EXCEPT !.pc = next] = Moved(s, next, conn[s].replies)
    BY <1>1 DEF Conn, Moved
  <1>4. \A status : [conn[s] EXCEPT !.replies = Append(conn[s].replies, status), !.pc = next]
                    = Moved(s, next, Append(conn[s].replies, status))
    BY <1>1 DEF Conn, Moved
  <1>5. Goto(s, next) => Update(s, Moved(s, next, conn[s].replies))
    BY <1>3 DEF Goto
  <1>6. \A status : Send(s, status, next) => Update(s, Moved(s, next, Append(conn[s].replies, status)))
    BY <1>4 DEF Send
  <1> QED BY <1>2, <1>5, <1>6 DEF SendRaises

\* A handler that takes a step to another place of its code.
LEMMA HandlerMoves ==
  ASSUME IInv, NEW s \in Slots, NEW pc, At(s, pc), pc # "done", NEW next \in Pcs,
         \/ Goto(s, next)
         \/ \E status \in {"OK", "PEER_EXISTS", "OTHER"} : Send(s, status, next)
         \/ SendRaises(s, next)
  PROVE  \E replies \in Seq({"OK", "PEER_EXISTS", "OTHER"}) :
           /\ Update(s, Moved(s, next, replies))
           /\ UNCHANGED phase => conn' \in [Slots -> Conn \cup {NoConn}] /\ \A r \in Slots : SlotOK(r)'
  <1>1. PICK replies \in Seq({"OK", "PEER_EXISTS", "OTHER"}) : Update(s, Moved(s, next, replies))
    BY Answering
  <1>2. LET c == Moved(s, next, replies) IN
          c \in Conn /\ c.pc = next /\ c.idx = conn[s].idx /\ c.to = conn[s].to
    BY MovedIs DEF SameConn
  <1>3. conn[s].idx >= 1 /\ Serving(conn[s].to)
    BY AtIs
  <1>4. UNCHANGED phase => conn' \in [Slots -> Conn \cup {NoConn}] /\ \A r \in Slots : SlotOK(r)'
    BY <1>1, <1>2, <1>3, UpdateKeeps
  <1> QED BY <1>1, <1>4

LEMMA RequestIs ==
  ASSUME NEW p \in Peers, NEW q \in Peers, NEW cmd \in {"REGISTER", "RETREIVE", "INFORM"}, NEW about \in Peers
  PROVE  LET c == Request(p, q, cmd, about) IN
           /\ c \in Conn /\ c.cmd = cmd /\ c.from = p /\ c.to = q /\ c.about = about
           /\ c.pc = "sent" /\ c.idx = 1 /\ c.data = << >> /\ c.replies = << >>
           /\ c.gone <=> cmd = "INFORM"
  <1> DEFINE gone == cmd = "INFORM"
             c == [cmd |-> cmd, from |-> p, to |-> q, about |-> about, pc |-> "sent", idx |-> 1,
                   data |-> << >>, replies |-> << >>, gone |-> gone]
  <1>1. << >> \in Seq(Peers) /\ << >> \in Seq({"OK", "PEER_EXISTS", "OTHER"}) /\ gone \in BOOLEAN
    OBVIOUS
  <1>2. c = Request(p, q, cmd, about)
    BY DEF Request
  <1> HIDE DEF gone
  <1>3. \A d \in Seq(Peers), r \in Seq({"OK", "PEER_EXISTS", "OTHER"}), g \in BOOLEAN :
          [cmd |-> cmd, from |-> p, to |-> q, about |-> about, pc |-> "sent", idx |-> 1,
           data |-> d, replies |-> r, gone |-> g] \in Conn
    BY DEF Conn
  <1>4. c \in Conn
    BY <1>1, <1>3
  <1>5. /\ c.cmd = cmd /\ c.from = p /\ c.to = q /\ c.about = about /\ c.pc = "sent" /\ c.idx = 1
        /\ c.data = << >> /\ c.replies = << >> /\ c.gone = gone
    OBVIOUS
  <1>6. gone <=> cmd = "INFORM"
    BY DEF gone
  <1> HIDE DEF c
  <1> QED BY <1>2, <1>4, <1>5, <1>6

\* A peer connects: a free slot takes the request.
LEMMA ConnectIs ==
  ASSUME IInv, NEW p \in Peers, NEW q \in Peers, NEW cmd \in {"REGISTER", "RETREIVE"}, Connect(p, q, cmd),
         UNCHANGED phase
  PROVE  /\ conn' \in [Slots -> Conn \cup {NoConn}] /\ \A r \in Slots : SlotOK(r)'
         /\ \E pc \in {"waiting", "ended"} : client' = [client EXCEPT ![p].pc = pc]
  <1>1. CASE Serving(q)
    <2> DEFINE c == Request(p, q, cmd, p)
    <2>1. PICK s \in FreeSlots : /\ conn' = [conn EXCEPT ![s] = c]
                                 /\ client' = [client EXCEPT ![p].pc = "waiting"]
      BY <1>1 DEF Connect
    <2>2. c \in Conn /\ c.idx = 1 /\ c.to = q
      BY RequestIs
    <2> HIDE DEF c
    <2>3. conn' \in [Slots -> Conn \cup {NoConn}] /\ conn'[s] = c /\ \A r \in Slots \ {s} : conn'[r] = conn[r]
      BY <2>1, <2>2 DEF FreeSlots, IInv, TypeOK
    <2> QED BY <1>1, <2>1, <2>2, <2>3 DEF SlotOK, Serving, IInv
  <1>2. CASE ~Serving(q)
    BY <1>2 DEF Connect, IInv, TypeOK, SlotOK, Serving
  <1> QED BY <1>1, <1>2

-----------------------------------------------------------------------------
(* Each step keeps the invariant *)

\* A step of the client thread of p, if it is one: towards what the invariant allows.
ClientStep(p) ==
  \/ client'[p] = client[p]
  \/ /\ client[p].pc # "off" /\ client'[p].pc # "register"
     /\ client'[p].pc = "ask" => client'[p].data # << >>

\* A step of a handler or a client that does not touch a list.
LEMMA ListsStay ==
  ASSUME IInv, UNCHANGED <<phase, network>>,
         conn' \in [Slots -> Conn \cup {NoConn}], \A r \in Slots : SlotOK(r)',
         mutex' \in [Peers -> Slots \cup {Nobody}],
         client' \in [Peers -> [pc : ClientAt, data : Seq(Peers)]],
         \A p \in Peers : ClientStep(p),
         now' \in 0..MaxNow, fetches' \in 0..MaxFetches,
         heard' \in [Peers -> [Peers -> Own..MaxNow]], aborted' \in BOOLEAN
  PROVE  IInv'
  <1>1. TypeOK'
    BY DEF IInv, TypeOK
  <1>2. \A p \in Peers : PeerOK(p)'
    BY DEF IInv, PeerOK, ClientStep
  <1> QED BY <1>1, <1>2 DEF IInv

\* A step that replaces the list of a peer that runs by another of its lists.
LEMMA ListChanges ==
  ASSUME IInv, NEW t \in Peers, NEW list \in Lists, network' = [network EXCEPT ![t] = list],
         IsListOf(t, network[t]) => IsListOf(t, list), UNCHANGED <<phase, mutex, now, fetches, aborted>>,
         conn' \in [Slots -> Conn \cup {NoConn}], \A r \in Slots : SlotOK(r)',
         client' \in [Peers -> [pc : ClientAt, data : Seq(Peers)]],
         \A p \in Peers : ClientStep(p),
         heard' \in [Peers -> [Peers -> Own..MaxNow]]
  PROVE  IInv'
  <1>1. /\ network' \in [Peers -> Lists] /\ network'[t] = list
        /\ \A p \in Peers \ {t} : network'[p] = network[p]
    BY DEF IInv, TypeOK, Lists
  <1>2. TypeOK'
    BY <1>1 DEF IInv, TypeOK, Lists
  <1>3. \A p \in Peers : PeerOK(p)'
    BY <1>1 DEF IInv, PeerOK, ClientStep
  <1> QED BY <1>2, <1>3 DEF IInv

LEMMA ProcessKeeps == ASSUME IInv, NEW p \in Peers, Start(p) \/ Serve(p) PROVE IInv'
  <1>1. /\ phase \in [Peers -> Phases] /\ network \in [Peers -> Lists]
        /\ client \in [Peers -> [pc : ClientAt, data : Seq(Peers)]]
    BY DEF IInv, TypeOK, Phases, Lists
  <1>2. CASE Start(p)
    <2> DEFINE e == [addr |-> p, seen |-> Own]
               pc == IF Contact[p] = NoPeer THEN "off" ELSE "register"
    <2>1. e \in Entry /\ e.addr = p /\ e.seen = Own /\ pc \in {"off", "register"}
          /\ (pc = "register" => Contact[p] \in Peers)
      BY NetworkAssumption DEF Entry, Own
    <2>2. /\ phase' = [phase EXCEPT ![p] = "starting"] /\ phase[p] = "off"
          /\ network' = [network EXCEPT ![p] = <<e>>] /\ client' = [client EXCEPT ![p].pc = pc]
          /\ UNCHANGED <<mutex, conn, now, fetches, heard, aborted>>
      BY <1>2 DEF Start
    <2> HIDE DEF e, pc
    <2>3. <<e>> \in Lists /\ Len(<<e>>) = 1 /\ DOMAIN <<e>> = 1..1 /\ <<e>>[1] = e /\ <<e>> # << >>
      BY <2>1 DEF Lists
    <2>4. IsListOf(p, <<e>>)
      BY <2>1, <2>3 DEF IsListOf
    <2>5. TypeOK'
      BY <1>1, <2>1, <2>2, <2>3, ZenonT(60) DEF IInv, TypeOK, Phases, Lists, ClientAt
    <2>6. \A q \in Peers : PeerOK(q)'
      <3>1. client'[p].pc = pc /\ network'[p] = <<e>> /\ phase'[p] = "starting"
        BY <1>1, <2>2
      <3>2. \A q \in Peers \ {p} : client'[q] = client[q] /\ network'[q] = network[q] /\ phase'[q] = phase[q]
        BY <1>1, <2>2
      <3> QED BY <2>1, <2>4, <3>1, <3>2 DEF IInv, PeerOK
    <2>7. \A s \in Slots : SlotOK(s)'
      BY <1>1, <2>2 DEF IInv, TypeOK, SlotOK, Serving, Conn
    <2> QED BY <2>5, <2>6, <2>7 DEF IInv
  <1>3. CASE Serve(p)
    <2>1. /\ phase' = [phase EXCEPT ![p] = "serving"] /\ phase[p] = "starting"
          /\ UNCHANGED <<network, client, mutex, conn, now, fetches, heard, aborted>>
      BY <1>3 DEF Serve
    <2>2. TypeOK'
      BY <1>1, <2>1 DEF IInv, TypeOK, Phases
    <2>3. \A q \in Peers : PeerOK(q)'
      BY <1>1, <2>1 DEF IInv, PeerOK
    <2>4. \A s \in Slots : SlotOK(s)'
      BY <1>1, <2>1 DEF IInv, TypeOK, SlotOK, Serving, Conn
    <2> QED BY <2>2, <2>3, <2>4 DEF IInv
  <1> QED BY <1>2, <1>3

LEMMA MinuteKeeps == ASSUME IInv, Minute PROVE IInv'
  <1>1. now' \in 0..MaxNow /\ UNCHANGED <<phase, network, mutex, client, conn, fetches, heard, aborted>>
    BY NetworkAssumption DEF Minute, IInv, TypeOK
  <1>2. TypeOK'
    BY <1>1 DEF IInv, TypeOK
  <1>3. \A p \in Peers : PeerOK(p)'
    BY <1>1 DEF IInv, PeerOK
  <1>4. \A s \in Slots : SlotOK(s)'
    BY <1>1 DEF IInv, SlotOK, Serving
  <1> QED BY <1>2, <1>3, <1>4 DEF IInv

\* The client threads' part of ListsStay and ListChanges.
LEMMA ClientGoes ==
  ASSUME IInv, NEW p \in Peers, client[p].pc # "off",
         NEW pc \in ClientAt \ {"register"}, NEW data \in Seq(Peers), pc = "ask" => data # << >>,
         \/ pc # "ask" /\ client' = [client EXCEPT ![p].pc = pc]
         \/ client' = [client EXCEPT ![p] = [pc |-> pc, data |-> data]]
  PROVE  /\ client' \in [Peers -> [pc : ClientAt, data : Seq(Peers)]] /\ client'[p].pc = pc
         /\ \A q \in Peers : ClientStep(q)
         /\ \A q \in Peers \ {p} : client'[q] = client[q]
  <1>1. client \in [Peers -> [pc : ClientAt, data : Seq(Peers)]]
    BY DEF IInv, TypeOK
  <1>2. PICK c \in [pc : ClientAt, data : Seq(Peers)] : /\ client' = [client EXCEPT ![p] = c]
                                                              /\ c.pc = pc /\ (pc = "ask" => c.data # << >>)
    <2>1. CASE pc # "ask" /\ client' = [client EXCEPT ![p].pc = pc]
      <3>1. client' = [client EXCEPT ![p] = [client[p] EXCEPT !.pc = pc]]
        BY <2>1
      <3>2. client[p] \in [pc : ClientAt, data : Seq(Peers)]
        BY <1>1
      <3>3. [client[p] EXCEPT !.pc = pc] \in [pc : ClientAt, data : Seq(Peers)]
            /\ [client[p] EXCEPT !.pc = pc].pc = pc
        BY <3>2
      <3> QED BY <2>1, <3>1, <3>3
    <2>2. CASE client' = [client EXCEPT ![p] = [pc |-> pc, data |-> data]]
      <3>1. [pc |-> pc, data |-> data] \in [pc : ClientAt, data : Seq(Peers)]
            /\ [pc |-> pc, data |-> data].pc = pc /\ [pc |-> pc, data |-> data].data = data
        OBVIOUS
      <3> QED BY <2>2, <3>1
    <2> QED BY <2>1, <2>2
  <1>3. client'[p] = c /\ \A q \in Peers \ {p} : client'[q] = client[q]
    BY <1>1, <1>2
  <1>4. client' \in [Peers -> [pc : ClientAt, data : Seq(Peers)]]
    BY <1>1, <1>2
  <1>5. \A q \in Peers : ClientStep(q)
    BY <1>2, <1>3 DEF ClientStep
  <1> QED BY <1>2, <1>3, <1>4, <1>5

LEMMA ConnectKeeps ==
  ASSUME IInv, NEW p \in Peers, NEW q \in Peers, client[p].pc # "off",
         NEW cmd \in {"REGISTER", "RETREIVE"}, Connect(p, q, cmd),
         fetches' \in 0..MaxFetches, UNCHANGED <<phase, network, mutex, now, heard, aborted>>
  PROVE  IInv'
  <1>1. /\ conn' \in [Slots -> Conn \cup {NoConn}] /\ \A r \in Slots : SlotOK(r)'
        /\ \E pc \in {"waiting", "ended"} : client' = [client EXCEPT ![p].pc = pc]
    BY ConnectIs
  <1>2. PICK pc \in {"waiting", "ended"} : client' = [client EXCEPT ![p].pc = pc]
    BY <1>1
  <1>3. << >> \in Seq(Peers) /\ pc \in ClientAt \ {"register"} /\ pc # "ask"
    BY DEF ClientAt
  <1>4. /\ client' \in [Peers -> [pc : ClientAt, data : Seq(Peers)]]
        /\ \A r \in Peers : ClientStep(r)
    BY <1>2, <1>3, ClientGoes
  <1>5. /\ mutex' \in [Peers -> Slots \cup {Nobody}] /\ now' \in 0..MaxNow
        /\ heard' \in [Peers -> [Peers -> Own..MaxNow]] /\ aborted' \in BOOLEAN
    BY DEF IInv, TypeOK
  <1> QED BY <1>1, <1>4, <1>5, ListsStay

LEMMA ClientKeeps == ASSUME IInv, NEW p \in Peers, Client(p) \/ Retrieve(p) PROVE IInv'
  <1>1. /\ client \in [Peers -> [pc : ClientAt, data : Seq(Peers)]]
        /\ mutex \in [Peers -> Slots \cup {Nobody}] /\ now \in 0..MaxNow
        /\ heard \in [Peers -> [Peers -> Own..MaxNow]] /\ aborted \in BOOLEAN /\ fetches \in 0..MaxFetches
        /\ network \in [Peers -> Lists] /\ << >> \in Seq(Peers)
    BY DEF IInv, TypeOK, Lists
  <1>2. CASE Register(p)
    <2>1. client[p].pc = "register" /\ Connect(p, Contact[p], "REGISTER")
          /\ UNCHANGED <<network, fetches, phase, mutex, now, heard, aborted>>
      BY <1>2 DEF Register, Unchanged_Client
    <2>2. Contact[p] \in Peers
      BY <2>1 DEF IInv, PeerOK
    <2> QED BY <1>1, <2>1, <2>2, ConnectKeeps
  <1>3. CASE ReadReply(p)
    <2>1. client[p].pc = "waiting" /\ UNCHANGED <<network, fetches, phase, mutex, now, heard, aborted>>
      BY <1>3 DEF ReadReply, Unchanged_Client
    <2>2. PICK s \in Open :
            /\ Update(s, [conn[s] EXCEPT !.gone = TRUE])
            /\ client' = [client EXCEPT ![p] =
                 IF conn[s].replies = << >> THEN [pc |-> "ended", data |-> << >>]
                 ELSE IF conn[s].cmd = "RETREIVE" THEN [pc |-> "ready", data |-> << >>]
                 ELSE IF Head(conn[s].replies) = "OK" THEN [pc |-> "merge", data |-> conn[s].data]
                 ELSE [pc |-> "look", data |-> << >>]]
      BY <1>3 DEF ReadReply
    <2>3. s \in Slots /\ conn[s] \in Conn /\ conn[s] # NoConn
      BY <2>2 DEF Open, FreeSlots, IInv, TypeOK
    <2>4. [conn[s] EXCEPT !.gone = TRUE] \in Conn /\ conn[s].data \in Seq(Peers)
          /\ [conn[s] EXCEPT !.gone = TRUE].to = conn[s].to /\ [conn[s] EXCEPT !.gone = TRUE].pc = conn[s].pc
          /\ [conn[s] EXCEPT !.gone = TRUE].idx = conn[s].idx
      BY <2>3 DEF Conn
    <2>5. conn[s].idx >= 1 /\ (conn[s].pc # "done" => Serving(conn[s].to))
      BY <2>3 DEF IInv, SlotOK
    <2>6. conn' \in [Slots -> Conn \cup {NoConn}] /\ \A r \in Slots : SlotOK(r)'
      BY <2>1, <2>2, <2>3, <2>4, <2>5, UpdateKeeps
    <2>7. PICK pc \in {"ended", "merge", "look", "ready"}, data \in Seq(Peers) :
            client' = [client EXCEPT ![p] = [pc |-> pc, data |-> data]]
      BY <1>1, <2>2, <2>4
    <2>8. /\ client' \in [Peers -> [pc : ClientAt, data : Seq(Peers)]]
          /\ \A q \in Peers : ClientStep(q)
      <3>1. pc \in ClientAt \ {"register"} /\ pc # "ask"
        BY DEF ClientAt
      <3> QED BY <2>1, <2>7, <3>1, ClientGoes
    <2> QED BY <1>1, <2>1, <2>6, <2>8, ListsStay
  <1>4. CASE MergeNetwork(p)
    <2> DEFINE list == Merged(network[p], client[p].data)
    <2>1. /\ client[p].pc = "merge" /\ network' = [network EXCEPT ![p] = list]
          /\ client' = [client EXCEPT ![p] = [pc |-> "look", data |-> << >>]]
          /\ UNCHANGED <<conn, fetches, phase, mutex, now, heard, aborted>>
      BY <1>4 DEF MergeNetwork, Unchanged_Client
    <2>2. client[p].data \in Seq(Peers) /\ network[p] \in Lists
      BY <1>1
    <2>3. list \in Lists /\ (IsListOf(p, network[p]) => IsListOf(p, list))
      BY <2>2, MergedIs DEF IInv
    <2>4. /\ client' \in [Peers -> [pc : ClientAt, data : Seq(Peers)]]
          /\ \A q \in Peers : ClientStep(q)
      <3>1. "look" \in ClientAt \ {"register"}
        BY DEF ClientAt
      <3> QED BY <1>1, <2>1, <3>1, ClientGoes
    <2>5. conn' \in [Slots -> Conn \cup {NoConn}] /\ \A r \in Slots : SlotOK(r)'
      BY <2>1 DEF IInv, TypeOK, SlotOK, Serving
    <2> HIDE DEF list
    <2> QED BY <1>1, <2>1, <2>3, <2>4, <2>5, ListChanges
  <1>5. CASE Retrieve(p)
    <2>1. /\ client[p].pc = "ready" /\ fetches' = fetches + 1 /\ fetches < MaxFetches
          /\ UNCHANGED <<network, phase, mutex, now, heard, aborted>>
      BY <1>5 DEF Retrieve, Unchanged_Client
    <2>2. fetches' \in 0..MaxFetches
      <3>1. MaxFetches \in Nat
        BY NetworkAssumption
      <3> QED BY <1>1, <2>1, <3>1
    <2>3. \A q \in Addresses(network[p]) : q \in Peers
      <3>1. network[p] \in Lists
        BY <1>1
      <3> QED BY <3>1, AddressesArePeers
    <2>4. PICK pc \in {"ended", "ask"}, data \in Seq(Peers) :
            client' = [client EXCEPT ![p] = [pc |-> pc, data |-> data]] /\ (pc = "ask" => data # << >>)
      <3>1. ASSUME NEW q \in Peers PROVE <<q>> \in Seq(Peers) /\ <<q>> # << >>
        OBVIOUS
      <3>2. CASE client' = [client EXCEPT ![p] = [pc |-> "ended", data |-> << >>]]
        BY <1>1, <3>2
      <3>3. CASE \E q \in Addresses(network[p]) : client' = [client EXCEPT ![p] = [pc |-> "ask", data |-> <<q>>]]
        BY <2>3, <3>1, <3>3
      <3> QED BY <1>5, <3>2, <3>3 DEF Retrieve
    <2>5. /\ client' \in [Peers -> [pc : ClientAt, data : Seq(Peers)]]
          /\ \A q \in Peers : ClientStep(q)
      <3>1. pc \in ClientAt \ {"register"}
        BY DEF ClientAt
      <3> QED BY <2>1, <2>4, <3>1, ClientGoes
    <2>6. conn' \in [Slots -> Conn \cup {NoConn}] /\ \A r \in Slots : SlotOK(r)'
      <3>1. UNCHANGED conn
        BY <1>5 DEF Retrieve
      <3> QED BY <2>1, <3>1 DEF IInv, TypeOK, SlotOK, Serving
    <2> QED BY <1>1, <2>1, <2>2, <2>5, <2>6, ListsStay
  <1>6. CASE Look(p)
    <2>1. /\ client[p].pc = "look" /\ client' = [client EXCEPT ![p].pc = "ready"]
          /\ UNCHANGED <<network, conn, fetches, phase, mutex, now, heard, aborted>>
      BY <1>6 DEF Look, Unchanged_Client
    <2>2. /\ client' \in [Peers -> [pc : ClientAt, data : Seq(Peers)]]
          /\ \A q \in Peers : ClientStep(q)
      <3>1. "ready" \in ClientAt \ {"register"}
        BY DEF ClientAt
      <3> QED BY <1>1, <2>1, <3>1, ClientGoes
    <2>3. conn' \in [Slots -> Conn \cup {NoConn}] /\ \A r \in Slots : SlotOK(r)'
      BY <2>1 DEF IInv, TypeOK, SlotOK, Serving
    <2> QED BY <1>1, <2>1, <2>2, <2>3, ListsStay
  <1>7. CASE Ask(p)
    <2>1. /\ client[p].pc = "ask" /\ Connect(p, Head(client[p].data), "RETREIVE")
          /\ UNCHANGED <<network, fetches, phase, mutex, now, heard, aborted>>
      BY <1>7 DEF Ask, Unchanged_Client
    <2>2. client[p].data \in Seq(Peers) /\ client[p].data # << >>
      BY <1>1, <2>1 DEF IInv, PeerOK
    <2>3. Head(client[p].data) \in Peers
      BY <2>2
    <2> QED BY <1>1, <2>1, <2>3, ConnectKeeps
  <1> QED BY <1>2, <1>3, <1>4, <1>5, <1>6, <1>7 DEF Client

LEMMA RefreshedIs ==
  ASSUME TypeOK, NEW p \in Peers, NEW list \in Lists, NEW from
  PROVE  /\ Refreshed(list, from) \in Lists
         /\ \A i \in DOMAIN list : IsFresh(list[i]) => list[i].addr \in Addresses(Refreshed(list, from))
         /\ IsListOf(p, list) => IsListOf(p, Refreshed(list, from))
         /\ (\A i \in DOMAIN list : IsFresh(list[i])) => Refreshed(list, from) = list
  BY FreshIs, InAddresses DEF Refreshed

LEMMA HandlerKeeps == ASSUME IInv, NEW s \in Slots, Handler(s) PROVE IInv'
  <1> DEFINE t == conn[s].to
  <1>1. /\ client \in [Peers -> [pc : ClientAt, data : Seq(Peers)]]
        /\ mutex \in [Peers -> Slots \cup {Nobody}] /\ now \in 0..MaxNow
        /\ heard \in [Peers -> [Peers -> Own..MaxNow]] /\ aborted \in BOOLEAN /\ fetches \in 0..MaxFetches
        /\ network \in [Peers -> Lists]
    BY DEF IInv, TypeOK, Lists
  <1>2. UNCHANGED <<phase, client, now, fetches>>
    BY DEF Handler, Receive, ServeFile, AddToNetwork, RegisterPeer, Refuse, Welcome, Announce, InformNext,
           InformFails, EndInform, Apologise, Unchanged_Handler
  <1>3. ASSUME NEW pc, At(s, pc), pc # "done", NEW next \in Pcs,
               \/ Goto(s, next)
               \/ \E status \in {"OK", "PEER_EXISTS", "OTHER"} : Send(s, status, next)
               \/ SendRaises(s, next),
               mutex' \in [Peers -> Slots \cup {Nobody}], aborted' \in BOOLEAN, UNCHANGED <<network, heard>>
        PROVE  IInv'
    <2>1. conn' \in [Slots -> Conn \cup {NoConn}] /\ \A r \in Slots : SlotOK(r)'
      BY <1>2, <1>3, HandlerMoves
    <2> QED BY <1>1, <1>2, <1>3, <2>1, ListsStay DEF ClientStep
  <1>4. ASSUME NEW p \in Peers, NEW list \in Lists, network' = [network EXCEPT ![p] = list],
               IsListOf(p, network[p]) => IsListOf(p, list), UNCHANGED <<mutex, aborted>>,
               heard' \in [Peers -> [Peers -> Own..MaxNow]],
               conn' \in [Slots -> Conn \cup {NoConn}], \A r \in Slots : SlotOK(r)'
        PROVE  IInv'
    BY <1>1, <1>2, <1>4, ListChanges DEF ClientStep
  <1>5. CASE Receive(s)
    <2>1. /\ At(s, "sent") /\ network' = [network EXCEPT ![t] = Refreshed(network[t], conn[s].from)]
          /\ heard' = [heard EXCEPT ![t][conn[s].from] = now] /\ UNCHANGED <<mutex, aborted>>
          /\ Goto(s, Dispatch(conn[s].cmd))
      BY <1>5 DEF Receive
    <2>2. conn[s] \in Conn /\ t \in Peers /\ conn[s].from \in Peers
      BY <2>1, AtIs
    <2>3. Dispatch(conn[s].cmd) \in Pcs
      BY DEF Dispatch, Pcs
    <2>4. conn' \in [Slots -> Conn \cup {NoConn}] /\ \A r \in Slots : SlotOK(r)'
      BY <1>2, <2>1, <2>3, HandlerMoves
    <2>5. Refreshed(network[t], conn[s].from) \in Lists
          /\ (IsListOf(t, network[t]) => IsListOf(t, Refreshed(network[t], conn[s].from)))
      BY <1>1, <2>2, RefreshedIs DEF IInv
    <2>6. heard' \in [Peers -> [Peers -> Own..MaxNow]]
      <3>1. now \in Own..MaxNow
        BY NowIsTime DEF IInv
      <3>2. [heard[t] EXCEPT ![conn[s].from] = now] \in [Peers -> Own..MaxNow]
        BY <1>1, <2>2, <3>1
      <3>3. heard' = [heard EXCEPT ![t] = [heard[t] EXCEPT ![conn[s].from] = now]]
        BY <2>1
      <3> QED BY <1>1, <3>2, <3>3
    <2> QED BY <1>4, <2>1, <2>2, <2>4, <2>5, <2>6
  <1>6. CASE ServeFile(s)
    <2>1. At(s, "serve") /\ UNCHANGED <<network, mutex, heard, aborted>>
          /\ (Send(s, "OK", "done") \/ SendRaises(s, "apologise"))
      BY <1>6 DEF ServeFile
    <2>2. "done" \in Pcs /\ "apologise" \in Pcs /\ "serve" # "done"
      BY DEF Pcs
    <2> QED BY <1>1, <1>3, <2>1, <2>2
  <1>7. CASE AddToNetwork(s)
    <2> DEFINE list == AppendIfNew(network[t], conn[s].about)
    <2>1. At(s, "add") /\ network' = [network EXCEPT ![t] = list] /\ Goto(s, "done")
          /\ UNCHANGED <<mutex, heard, aborted>>
      BY <1>7 DEF AddToNetwork
    <2>2. t \in Peers /\ conn[s].about \in Peers /\ "done" \in Pcs
      BY <2>1, AtIs DEF Pcs
    <2>3. conn' \in [Slots -> Conn \cup {NoConn}] /\ \A r \in Slots : SlotOK(r)'
      BY <1>2, <2>1, <2>2, HandlerMoves
    <2>4. list \in Lists /\ (IsListOf(t, network[t]) => IsListOf(t, list))
      BY <1>1, <2>2, AppendIfNewKeeps DEF IInv
    <2> HIDE DEF list
    <2> QED BY <1>1, <1>4, <2>1, <2>2, <2>3, <2>4
  <1>8. CASE RegisterPeer(s)
    <2> DEFINE list == AppendIfNew(network[t], conn[s].from)
    <2>1. At(s, "register") /\ UNCHANGED <<mutex, heard, aborted>>
      BY <1>8 DEF RegisterPeer
    <2>2. t \in Peers /\ conn[s] \in Conn /\ conn[s].from \in Peers /\ conn[s].idx >= 1 /\ Serving(t)
      BY <2>1, AtIs
    <2>3. CASE Goto(s, "refuse") /\ UNCHANGED network
      <3>1. "refuse" \in Pcs
        BY DEF Pcs
      <3> QED BY <1>1, <1>3, <2>1, <2>3, <3>1
    <2>4. CASE /\ network' = [network EXCEPT ![t] = list]
               /\ Update(s, [conn[s] EXCEPT !.pc = "welcome", !.data = [i \in DOMAIN list |-> list[i].addr]])
      <3>1. list \in Lists /\ (IsListOf(t, network[t]) => IsListOf(t, list))
        BY <1>1, <2>2, AppendIfNewKeeps DEF IInv
      <3> DEFINE data == [i \in DOMAIN list |-> list[i].addr]
                 c == [conn[s] EXCEPT !.pc = "welcome", !.data = data]
      <3> HIDE DEF list
      <3>2. data \in Seq(Peers)
        <4>1. DOMAIN list = 1..Len(list) /\ Len(list) \in Nat
          BY <3>1 DEF Lists
        <4>2. \A i \in DOMAIN list : list[i].addr \in Peers
          BY <3>1, AddressesArePeers DEF Addresses
        <4> QED BY <4>1, <4>2
      <3> HIDE DEF data
      <3>3. c \in Conn /\ c.pc = "welcome" /\ c.idx = conn[s].idx /\ c.to = t
        BY <2>2, <3>2 DEF Conn
      <3>4. Update(s, c)
        BY <2>4 DEF data
      <3>5. conn' \in [Slots -> Conn \cup {NoConn}] /\ \A r \in Slots : SlotOK(r)'
        BY <1>2, <2>2, <3>3, <3>4, UpdateKeeps
      <3> QED BY <1>1, <1>4, <2>1, <2>2, <2>4, <3>1, <3>5
    <2> QED BY <1>8, <2>3, <2>4 DEF RegisterPeer
  <1>9. CASE Refuse(s)
    <2>1. At(s, "refuse") /\ UNCHANGED <<network, heard, aborted>>
          /\ (Send(s, "PEER_EXISTS", "done") \/ SendRaises(s, "apologise"))
          /\ (mutex' = mutex \/ mutex' = [mutex EXCEPT ![t] = Nobody])
      BY <1>9 DEF Refuse
    <2>2. "done" \in Pcs /\ "apologise" \in Pcs /\ mutex' \in [Peers -> Slots \cup {Nobody}]
      BY <1>1, <2>1 DEF Pcs
    <2> QED BY <1>1, <1>3, <2>1, <2>2
  <1>10. CASE Welcome(s) \/ Announce(s)
    <2>1. \E pc \in {"welcome", "announce"} : At(s, pc)
      BY <1>10 DEF Welcome, Announce
    <2>2. UNCHANGED <<network, heard, aborted>>
          /\ \/ Send(s, "OK", "announce") \/ SendRaises(s, "apologise")
             \/ Goto(s, "inform")
          /\ (mutex' = mutex \/ mutex' = [mutex EXCEPT ![t] = s])
      BY <1>10 DEF Welcome, Announce
    <2>3. "announce" \in Pcs /\ "apologise" \in Pcs /\ "inform" \in Pcs /\ mutex' \in [Peers -> Slots \cup {Nobody}]
      BY <1>1, <2>2 DEF Pcs
    <2> QED BY <1>1, <1>3, <2>1, <2>2, <2>3
  <1>11. CASE InformNext(s)
    <2>1. Informing(s) /\ UNCHANGED <<network, mutex, heard, aborted>> /\ At(s, "inform")
      BY <1>11 DEF InformNext, Informing
    <2>2. conn[s] \in Conn /\ conn[s].idx >= 1 /\ Serving(t) /\ t \in Peers /\ conn[s].from \in Peers
      BY <2>1, AtIs
    <2> DEFINE c == [conn[s] EXCEPT !.idx = conn[s].idx + 1]
    <2>3. c \in Conn /\ c.idx >= 1 /\ c.to = t
      <3>1. conn[s].idx \in Nat
        BY <2>2 DEF Conn
      <3>2. conn[s].idx + 1 \in Nat /\ conn[s].idx + 1 >= 1
        BY <3>1
      <3>3. \A i \in Nat : [conn[s] EXCEPT !.idx = i] \in Conn /\ [conn[s] EXCEPT !.idx = i].idx = i
                           /\ [conn[s] EXCEPT !.idx = i].to = t
        BY <2>2 DEF Conn
      <3> QED BY <3>2, <3>3
    <2>4. CASE conn' = [conn EXCEPT ![s] = c]
      <3>1. conn' \in [Slots -> Conn \cup {NoConn}] /\ \A r \in Slots : SlotOK(r)'
        BY <1>2, <2>2, <2>3, <2>4 DEF IInv, TypeOK, SlotOK, Serving
      <3> QED BY <1>1, <1>2, <2>1, <3>1, ListsStay DEF ClientStep
    <2>5. CASE Serving(Listed(s)) /\ \E f \in FreeSlots :
                 conn' = [[conn EXCEPT ![s] = c] EXCEPT ![f] = Request(t, Listed(s), "INFORM", conn[s].about)]
      <3>1. PICK f \in FreeSlots :
                 conn' = [[conn EXCEPT ![s] = c] EXCEPT ![f] = Request(t, Listed(s), "INFORM", conn[s].about)]
        BY <2>5
      <3>2. Listed(s) \in Peers
        <4>1. network[t] \in Seq(Entry) /\ conn[s].idx \in Nat /\ conn[s].idx <= Len(network[t])
          BY <1>1, <2>1, <2>2 DEF Lists, Informing, Conn
        <4>2. network[t][conn[s].idx] \in Entry
          BY <2>2, <4>1
        <4> QED BY <4>2 DEF Listed, Entry
      <3> DEFINE q == Request(t, Listed(s), "INFORM", conn[s].about)
      <3>3. q \in Conn /\ q.idx = 1 /\ q.to = Listed(s)
        BY <2>2, <3>2, RequestIs DEF Conn
      <3> HIDE DEF q, c
      <3>4. conn' = [[conn EXCEPT ![s] = c] EXCEPT ![f] = q] /\ f \in Slots
        BY <3>1 DEF q, FreeSlots
      <3>5. conn' \in [Slots -> Conn \cup {NoConn}] /\ \A r \in Slots : conn'[r] \in {conn[r], c, q}
                                                      /\ (r # s /\ r # f => conn'[r] = conn[r])
        BY <2>3, <3>3, <3>4 DEF IInv, TypeOK
      <3>6. \A r \in Slots : SlotOK(r)'
        BY <1>2, <2>2, <2>3, <2>5, <3>3, <3>5 DEF IInv, SlotOK, Serving
      <3> QED BY <1>1, <1>2, <2>1, <3>5, <3>6, ListsStay DEF ClientStep
    <2> QED BY <1>11, <2>4, <2>5 DEF InformNext
  <1>12. CASE InformFails(s) \/ EndInform(s)
    <2>1. At(s, "inform") /\ UNCHANGED <<network, heard>> /\ mutex' = [mutex EXCEPT ![t] = Nobody]
          /\ aborted' \in {TRUE, aborted} /\ \E next \in {"apologise", "done"} : Goto(s, next)
      BY <1>12 DEF InformFails, EndInform, Informing
    <2>2. "done" \in Pcs /\ "apologise" \in Pcs /\ mutex' \in [Peers -> Slots \cup {Nobody}] /\ aborted' \in BOOLEAN
      BY <1>1, <2>1 DEF Pcs
    <2> QED BY <1>1, <1>3, <2>1, <2>2
  <1>13. CASE Apologise(s)
    <2>1. At(s, "apologise") /\ UNCHANGED <<network, mutex, heard, aborted>>
          /\ (Send(s, "OTHER", "done") \/ SendRaises(s, "done"))
      BY <1>13 DEF Apologise
    <2>2. "done" \in Pcs
      BY DEF Pcs
    <2> QED BY <1>1, <1>3, <2>1, <2>2
  <1> QED BY <1>5, <1>6, <1>7, <1>8, <1>9, <1>10, <1>11, <1>12, <1>13 DEF Handler

LEMMA Initially == Init => IInv
  <1> SUFFICES ASSUME Init PROVE IInv
    OBVIOUS
  <1>1. << >> \in Lists /\ << >> \in Seq(Peers) /\ "off" \in ClientAt /\ Own \in Own..MaxNow
        /\ 0 \in 0..MaxNow /\ 0 \in 0..MaxFetches
    BY NetworkAssumption DEF Lists, ClientAt, Own
  <1>2. TypeOK
    <2>1. /\ phase \in [Peers -> Phases] /\ network \in [Peers -> Lists] /\ mutex \in [Peers -> Slots \cup {Nobody}]
          /\ client \in [Peers -> [pc : ClientAt, data : Seq(Peers)]]
      BY <1>1 DEF Init, Phases
    <2>2. conn \in [Slots -> Conn \cup {NoConn}] /\ heard \in [Peers -> [Peers -> Own..MaxNow]]
      BY <1>1 DEF Init
    <2> QED BY <1>1, <2>1, <2>2 DEF Init, TypeOK, Phases, Lists
  <1>3. \A p \in Peers : PeerOK(p)
    BY DEF Init, PeerOK
  <1>4. \A s \in Slots : SlotOK(s)
    BY DEF Init, SlotOK
  <1> QED BY <1>2, <1>3, <1>4 DEF IInv

LEMMA NextKeeps == IInv /\ [Next]_vars => IInv'
  <1> SUFFICES ASSUME IInv, [Next]_vars PROVE IInv'
    OBVIOUS
  <1>1. CASE Next
    BY <1>1, MinuteKeeps, ProcessKeeps, ClientKeeps, HandlerKeeps DEF Next
  <1>2. CASE UNCHANGED vars
    BY <1>2 DEF vars, IInv, TypeOK, PeerOK, SlotOK, Serving
  <1> QED BY <1>1, <1>2

\* What the theorems about the lists and the handlers rest on holds throughout
\* every run, for every network and every contact.
THEOREM Invariant == Spec => []IInv
  BY Initially, NextKeeps, PTL DEF Spec

\* Every variable of a network of peers keeps its type: in particular a list
\* only ever holds known addresses with times that have been, and no handler
\* thread is anywhere but in the code of its request.
THEOREM TypeCorrectness == Spec => []TypeOK
  <1>1. IInv => TypeOK
    BY DEF IInv
  <1> QED BY Invariant, <1>1, PTL

\* The list of a peer that runs starts with the peer itself and names no
\* address twice, whichever registrations, announcements, merges and refreshes
\* its threads interleave (to_server, _register and _add_to_network test before
\* they append, under network_mutex).  Nobody is killed here: after the second
\* release of line 232 the mutex would not keep the sections apart.
THEOREM ListsAreSets == Spec => []ListIsASet
  <1>1. ASSUME NEW p \in Peers, NEW list \in Lists, IsListOf(p, list)
        PROVE  Cardinality(Addresses(list)) = Len(list)
    <2> DEFINE n == Len(list)
               f == [i \in 1..n |-> list[i].addr]
    <2>1. n \in Nat /\ DOMAIN list = 1..n
      BY DEF Lists
    <2>2. Addresses(list) = {list[i].addr : i \in 1..n}
      BY <2>1 DEF Addresses
    <2>3. \A i, j \in 1..n : list[i].addr = list[j].addr => i = j
      BY <1>1, <2>1 DEF IsListOf
    <2> HIDE DEF n
    <2>4. f \in Bijection(1..n, Addresses(list))
      BY <2>2, <2>3 DEF Bijection, Injection, Surjection, IsInjective
    <2>5. ExistsBijection(1..n, Addresses(list))
      BY <2>4 DEF ExistsBijection
    <2>6. IsFiniteSet(1..n) /\ Cardinality(1..n) = n
      BY <2>1, FS_Interval
    <2>7. Cardinality(Addresses(list)) = n
      BY <2>5, <2>6, FS_Bijection
    <2> QED BY <2>7 DEF n
  <1>2. ASSUME IInv PROVE ListIsASet
    <2>1. \A p \in Peers : network[p] \in Lists /\ (phase[p] # "off" => IsListOf(p, network[p]))
      BY <1>2 DEF IInv, TypeOK, PeerOK, Lists
    <2> QED BY <1>1, <2>1 DEF ListIsASet, IsListOf
  <1> QED BY Invariant, <1>2, PTL

-----------------------------------------------------------------------------
(* What a step does to a list *)

\* A peer that goes on running changes its list only while nobody holds its
\* mutex, and only in one of the three ways of the code.
LEMMA ListSteps ==
  ASSUME IInv, [Next]_vars, NEW p \in Peers, phase'[p] = phase[p]
  PROVE  \/ network'[p] = network[p]
         \/ /\ Free(p)
            /\ \/ \E a \in Peers : network'[p] = AppendIfNew(network[p], a)
               \/ \E data \in Seq(Peers) : network'[p] = Merged(network[p], data)
               \/ \E from : network'[p] = Refreshed(network[p], from)
  <1>1. network \in [Peers -> Lists] /\ phase \in [Peers -> Phases]
        /\ client \in [Peers -> [pc : ClientAt, data : Seq(Peers)]]
    BY DEF IInv, TypeOK, Lists, Phases
  <1>2. CASE UNCHANGED network
    BY <1>2
  <1>3. ASSUME NEW q \in Peers, Start(q) \/ Serve(q) PROVE network'[p] = network[p]
    BY <1>1, <1>3 DEF Start, Serve, Phases
  <1>4. ASSUME NEW q \in Peers, MergeNetwork(q)
        PROVE  network'[p] = network[p] \/ (Free(p) /\ \E data \in Seq(Peers) : network'[p] = Merged(network[p], data))
    BY <1>1, <1>4 DEF MergeNetwork
  <1>5. ASSUME NEW s \in Slots, Receive(s)
        PROVE  network'[p] = network[p] \/ (Free(p) /\ \E from : network'[p] = Refreshed(network[p], from))
    BY <1>1, <1>5 DEF Receive
  <1>6. ASSUME NEW s \in Slots, AddToNetwork(s) \/ RegisterPeer(s)
        PROVE  network'[p] = network[p] \/ (Free(p) /\ \E a \in Peers : network'[p] = AppendIfNew(network[p], a))
    <2>1. conn[s].from \in Peers /\ conn[s].about \in Peers
      BY <1>6, AtIs DEF AddToNetwork, RegisterPeer
    <2> QED BY <1>1, <1>6, <2>1 DEF AddToNetwork, RegisterPeer
  <1>7. ASSUME NEW q \in Peers, Client(q) \/ Retrieve(q) PROVE UNCHANGED network \/ MergeNetwork(q)
    BY <1>7 DEF Client, Register, ReadReply, Look, Ask, Retrieve
  <1>8. ASSUME NEW s \in Slots, Handler(s)
        PROVE UNCHANGED network \/ Receive(s) \/ AddToNetwork(s) \/ RegisterPeer(s)
    BY <1>8 DEF Handler, ServeFile, Refuse, Welcome, Announce, InformNext, InformFails, EndInform, Apologise
  <1>9. Minute => UNCHANGED network
    BY DEF Minute
  <1>10. CASE Next
    BY <1>2, <1>3, <1>4, <1>5, <1>6, <1>7, <1>8, <1>9, <1>10 DEF Next
  <1> QED BY <1>2, <1>10 DEF vars

\* No step of a peer drops an entry from its list but the refresh, and that
\* only the entries that are more than a minute old: adding and merging under
\* network_mutex never lose what another thread has just added.
THEOREM OnlyOldEntriesLeave == Spec => OnlyOldEntriesGo
  <1>1. ASSUME IInv, [Next]_vars
        PROVE  [\A p \in Peers : phase[p] = phase'[p] =>
                  \A i \in DOMAIN network[p] : network[p][i].addr \notin Addresses(network'[p])
                                               => network[p][i].seen # Own /\ network[p][i].seen < now]_vars
    <2> SUFFICES ASSUME NEW p \in Peers, phase[p] = phase'[p], NEW i \in DOMAIN network[p],
                        network[p][i].addr \notin Addresses(network'[p])
                 PROVE  network[p][i].seen # Own /\ network[p][i].seen < now
      OBVIOUS
    <2>1. network[p] \in Lists /\ TypeOK
      BY <1>1 DEF IInv, TypeOK, Lists
    <2>2. network[p][i].addr \in Addresses(network[p]) /\ network[p][i] \in Entry
      BY <2>1 DEF Addresses, Lists
    <2>3. network'[p] # network[p]
      BY <2>2
    <2>4. \A a \in Peers : network'[p] # AppendIfNew(network[p], a)
      BY <2>1, <2>2, AppendIfNewKeeps
    <2>5. \A data \in Seq(Peers) : network'[p] # Merged(network[p], data)
      BY <2>1, <2>2, MergedIs
    <2>6. PICK from : network'[p] = Refreshed(network[p], from)
      BY <1>1, <2>3, <2>4, <2>5, ListSteps
    <2>7. ~IsFresh(network[p][i])
      BY <2>1, <2>6, RefreshedIs
    <2>8. now \in Int /\ network[p][i].seen \in Int
      BY <2>1, <2>2, NetworkAssumption DEF TypeOK, Entry, Own
    <2> QED BY <2>7, <2>8 DEF IsFresh
  <1> QED BY Invariant, <1>1, PTL DEF Spec, OnlyOldEntriesGo

-----------------------------------------------------------------------------
(* How far a handler has come *)

\* What a connection carries at each place of its handler.
Fits(c) ==
  /\ c.pc \in {"register", "refuse", "welcome", "announce", "inform"} => c.cmd = "REGISTER"
  /\ c.pc = "add" => c.cmd = "INFORM"
  /\ c.pc \in {"sent", "register", "refuse", "welcome"} => c.replies = << >> /\ c.idx = 1
  /\ c.gone /\ c.cmd # "INFORM" => c.replies # << >>
  /\ c.cmd = "INFORM" => c.gone
  /\ c.cmd = "REGISTER" => c.about = c.from

\* An inform loop that runs has the mutex.
LoopInv ==
  \A s \in Slots : conn[s] # NoConn =>
    /\ Fits(conn[s])
    /\ conn[s].pc = "inform" => mutex[conn[s].to] = s

LEMMA KeptFits == ASSUME NEW c, Kept(c) # NoConn PROVE Kept(c) = c
  BY DEF Kept

\* A handler that goes on to c, and leaves the mutex to the others that inform.
LEMMA LoopMoves ==
  ASSUME IInv, LoopInv, NEW s \in Slots, NEW c \in Conn, Update(s, c), Fits(c), c.to = conn[s].to,
         c.pc = "inform" => mutex'[c.to] = s,
         \A r \in Slots \ {s} : At(r, "inform") => mutex'[conn[r].to] = r
  PROVE  LoopInv'
  <1>1. conn'[s] \in {c, NoConn} /\ \A r \in Slots \ {s} : conn'[r] = conn[r]
    BY UpdateIs DEF IInv
  <1>2. ASSUME NEW r \in Slots, conn'[r] # NoConn
        PROVE  Fits(conn'[r]) /\ (conn'[r].pc = "inform" => mutex'[conn'[r].to] = r)
    BY <1>1, <1>2 DEF LoopInv, At
  <1> QED BY <1>2 DEF LoopInv, Fits

\* The same for the moves that only change pc and replies and not the mutex.
LEMMA LoopReplies ==
  ASSUME IInv, LoopInv, NEW s \in Slots, NEW pc, At(s, pc), pc # "done",
         NEW next \in Pcs \ {"register", "refuse", "welcome", "sent", "add", "inform"},
         next = "announce" => pc = "welcome",
         \/ Goto(s, next)
         \/ \E status \in {"OK", "PEER_EXISTS", "OTHER"} : Send(s, status, next)
         \/ SendRaises(s, next),
         \A r \in Slots \ {s} : At(r, "inform") => mutex'[conn[r].to] = r
  PROVE  LoopInv'
  <1>1. PICK replies \in Seq({"OK", "PEER_EXISTS", "OTHER"}) :
          Update(s, Moved(s, next, replies)) /\ (conn[s].replies # << >> => replies # << >>)
    <2>1. conn[s].replies \in Seq({"OK", "PEER_EXISTS", "OTHER"})
      BY Answering
    <2>2. \A status \in {"OK", "PEER_EXISTS", "OTHER"} :
            /\ Append(conn[s].replies, status) # << >>
            /\ Append(conn[s].replies, status) \in Seq({"OK", "PEER_EXISTS", "OTHER"})
      BY <2>1
    <2> QED BY <2>1, <2>2, Answering
  <1> DEFINE c == Moved(s, next, replies)
  <1>2. /\ c \in Conn /\ c.pc = next /\ c.replies = replies /\ SameConn(c, conn[s])
        /\ c.idx = conn[s].idx /\ c.gone = conn[s].gone
    BY MovedIs
  <1>3. Update(s, c)
    BY <1>1
  <1> HIDE DEF c
  <1>4. Fits(conn[s]) /\ conn[s].pc = pc /\ conn[s] # NoConn
    BY DEF LoopInv, At
  <1>5. Fits(c)
    BY <1>1, <1>2, <1>4 DEF Fits, SameConn
  <1> QED BY <1>2, <1>3, <1>5, LoopMoves DEF SameConn

LEMMA LoopHandler == ASSUME IInv, LoopInv, NEW s \in Slots, Handler(s) PROVE LoopInv'
  <1> DEFINE t == conn[s].to
  <1>1. mutex \in [Peers -> Slots \cup {Nobody}]
    BY DEF IInv, TypeOK
  <1>2. ASSUME UNCHANGED mutex, NEW r \in Slots, At(r, "inform") PROVE mutex'[conn[r].to] = r
    BY <1>2 DEF LoopInv, At
  <1>3. ASSUME NEW pc, At(s, pc) PROVE conn[s] \in Conn /\ t \in Peers /\ conn[s].pc = pc /\ conn[s] # NoConn /\ Fits(conn[s])
    BY <1>3, AtIs DEF LoopInv, At
  <1>4. CASE Receive(s)
    <2>1. At(s, "sent") /\ UNCHANGED mutex /\ Goto(s, Dispatch(conn[s].cmd))
      BY <1>4 DEF Receive
    <2> DEFINE next == Dispatch(conn[s].cmd)
               c == Moved(s, next, conn[s].replies)
    <2>2. next \in Pcs /\ next \in {"register", "add", "serve"} /\ (next = "register" => conn[s].cmd = "REGISTER")
          /\ (next = "add" => conn[s].cmd = "INFORM")
      BY DEF Dispatch, Pcs
    <2>3. Update(s, c) /\ conn[s].replies \in Seq({"OK", "PEER_EXISTS", "OTHER"})
      BY <2>1, <2>2, Answering
    <2> HIDE DEF next
    <2>4. /\ c \in Conn /\ c.pc = next /\ c.replies = conn[s].replies /\ SameConn(c, conn[s])
          /\ c.idx = conn[s].idx /\ c.gone = conn[s].gone
      BY <2>1, <2>2, <2>3, MovedIs
    <2> HIDE DEF c
    <2>5. Fits(c)
      BY <1>3, <2>1, <2>2, <2>4 DEF Fits, SameConn
    <2> QED BY <1>2, <2>1, <2>2, <2>3, <2>4, <2>5, LoopMoves DEF SameConn
  <1>5. CASE RegisterPeer(s)
    <2> DEFINE list == AppendIfNew(network[t], conn[s].from)
    <2>1. At(s, "register") /\ UNCHANGED mutex
      BY <1>5 DEF RegisterPeer
    <2>2. CASE Goto(s, "refuse")
      <3> DEFINE c == Moved(s, "refuse", conn[s].replies)
      <3>1. Update(s, c) /\ conn[s].replies \in Seq({"OK", "PEER_EXISTS", "OTHER"}) /\ "refuse" \in Pcs
        BY <2>1, <2>2, Answering DEF Pcs
      <3>2. /\ c \in Conn /\ c.pc = "refuse" /\ c.replies = conn[s].replies /\ SameConn(c, conn[s])
            /\ c.idx = conn[s].idx /\ c.gone = conn[s].gone
        BY <2>1, <3>1, MovedIs
      <3> HIDE DEF c
      <3>3. Fits(c)
        BY <1>3, <2>1, <3>2 DEF Fits, SameConn
      <3> QED BY <1>2, <2>1, <3>1, <3>2, <3>3, LoopMoves DEF SameConn
    <2>3. CASE Update(s, [conn[s] EXCEPT !.pc = "welcome", !.data = [i \in DOMAIN list |-> list[i].addr]])
      <3>1. conn[s].from \in Peers /\ network[t] \in Lists
        BY <1>3, <2>1, AtIs DEF IInv, TypeOK, Lists
      <3>2. list \in Lists
        BY <3>1, AppendIfNewKeeps DEF IInv
      <3> DEFINE data == [i \in DOMAIN list |-> list[i].addr]
                 c == [conn[s] EXCEPT !.pc = "welcome", !.data = data]
      <3> HIDE DEF list
      <3>3. data \in Seq(Peers)
        <4>1. DOMAIN list = 1..Len(list) /\ Len(list) \in Nat
          BY <3>2 DEF Lists
        <4>2. \A i \in DOMAIN list : list[i].addr \in Peers
          BY <3>2, AddressesArePeers DEF Addresses
        <4> QED BY <4>1, <4>2
      <3>4. Update(s, c)
        BY <2>3
      <3> HIDE DEF data
      <3>5. /\ c \in Conn /\ c.pc = "welcome" /\ SameConn(c, conn[s]) /\ c.idx = conn[s].idx
            /\ c.replies = conn[s].replies /\ c.gone = conn[s].gone
        BY <1>3, <2>1, <3>3 DEF Conn, SameConn
      <3> HIDE DEF c
      <3>6. Fits(c)
        BY <1>3, <2>1, <3>5 DEF Fits, SameConn
      <3> QED BY <1>2, <2>1, <3>4, <3>5, <3>6, LoopMoves DEF SameConn
    <2> QED BY <1>5, <2>2, <2>3 DEF RegisterPeer
  <1>6. CASE ServeFile(s) \/ AddToNetwork(s) \/ Apologise(s)
    <2>1. UNCHANGED mutex /\ \E pc \in {"serve", "add", "apologise"} : At(s, pc)
      BY <1>6 DEF ServeFile, AddToNetwork, Apologise
    <2>2. \E next \in {"done", "apologise"} :
            \/ Goto(s, next)
            \/ \E status \in {"OK", "PEER_EXISTS", "OTHER"} : Send(s, status, next)
            \/ SendRaises(s, next)
      BY <1>6 DEF ServeFile, AddToNetwork, Apologise
    <2>3. {"done", "apologise"} \subseteq Pcs \ {"register", "refuse", "welcome", "sent", "add", "inform", "announce"}
      BY DEF Pcs
    <2> QED BY <1>2, <2>1, <2>2, <2>3, LoopReplies
  <1>7. CASE Refuse(s) \/ Welcome(s)
    <2>1. PICK pc \in {"refuse", "welcome"} : At(s, pc)
      BY <1>7 DEF Refuse, Welcome
    <2>2. ~conn[s].gone
      BY <1>3, <2>1 DEF Fits
    <2>3. UNCHANGED mutex /\ \/ Send(s, "PEER_EXISTS", "done")
                             \/ Send(s, "OK", "announce") /\ At(s, "welcome")
      BY <1>7, <2>2 DEF Refuse, Welcome, SendRaises
    <2>4. {"done", "announce"} \subseteq Pcs \ {"register", "refuse", "welcome", "sent", "add", "inform"}
      BY DEF Pcs
    <2> QED BY <1>2, <2>1, <2>3, <2>4, LoopReplies
  <1>8. CASE Announce(s)
    <2>1. At(s, "announce") /\ Free(t) /\ mutex' = [mutex EXCEPT ![t] = s] /\ Goto(s, "inform")
      BY <1>8 DEF Announce
    <2> DEFINE c == Moved(s, "inform", conn[s].replies)
    <2>2. Update(s, c) /\ conn[s].replies \in Seq({"OK", "PEER_EXISTS", "OTHER"}) /\ "inform" \in Pcs
      BY <2>1, Answering DEF Pcs
    <2>3. /\ c \in Conn /\ c.pc = "inform" /\ c.replies = conn[s].replies /\ SameConn(c, conn[s])
          /\ c.idx = conn[s].idx /\ c.gone = conn[s].gone
      BY <2>1, <2>2, MovedIs
    <2> HIDE DEF c
    <2>4. Fits(c)
      BY <1>3, <2>1, <2>3 DEF Fits, SameConn
    <2>5. ASSUME NEW r \in Slots \ {s}, At(r, "inform") PROVE mutex'[conn[r].to] = r
      <3>1. mutex[conn[r].to] = r /\ r # Nobody /\ conn[r].to \in Peers
        BY <2>5, AtIs, NetworkAssumption DEF LoopInv, At
      <3>2. conn[r].to # t
        BY <2>1, <3>1 DEF Free
      <3> QED BY <1>1, <2>1, <3>1, <3>2
    <2>6. mutex'[t] = s
      BY <1>1, <1>3, <2>1
    <2> QED BY <2>2, <2>3, <2>4, <2>5, <2>6, LoopMoves DEF SameConn
  <1>9. CASE InformFails(s) \/ EndInform(s)
    <2>1. At(s, "inform") /\ mutex' = [mutex EXCEPT ![t] = Nobody] /\ \E next \in {"done", "apologise"} : Goto(s, next)
      BY <1>9 DEF InformFails, EndInform, Informing
    <2>2. ASSUME NEW r \in Slots \ {s}, At(r, "inform") PROVE mutex'[conn[r].to] = r
      <3>1. mutex[conn[r].to] = r /\ conn[r].to \in Peers /\ mutex[t] = s
        BY <2>1, <2>2, AtIs DEF LoopInv, At
      <3> QED BY <1>1, <2>1, <3>1
    <2>3. {"done", "apologise"} \subseteq Pcs \ {"register", "refuse", "welcome", "sent", "add", "inform", "announce"}
      BY DEF Pcs
    <2> QED BY <2>1, <2>2, <2>3, LoopReplies
  <1>10. CASE InformNext(s)
    <2>1. At(s, "inform") /\ UNCHANGED mutex /\ conn[s] \in Conn /\ conn[s].idx \in Nat /\ t \in Peers
          /\ conn[s].from \in Peers
      BY <1>10, AtIs DEF InformNext, Informing, Conn
    <2> DEFINE c == [conn[s] EXCEPT !.idx = conn[s].idx + 1]
    <2>2. c.pc = conn[s].pc /\ SameConn(c, conn[s]) /\ c.replies = conn[s].replies /\ c.gone = conn[s].gone
          /\ conn[s].pc = "inform"
      BY <1>3, <2>1 DEF Conn, SameConn
    <2> HIDE DEF c
    <2>3. Fits(c)
      BY <1>3, <2>1, <2>2 DEF Fits, SameConn
    <2>4. \A r \in Slots : \/ conn'[r] = conn[r]
                           \/ r = s /\ conn'[r] = c
                           \/ Fits(conn'[r]) /\ conn'[r].pc = "sent"
      <3>1. CASE conn' = [conn EXCEPT ![s] = c]
        <4>1. \A r \in Slots : conn'[r] = IF r = s THEN c ELSE conn[r]
          BY <3>1 DEF IInv, TypeOK
        <4> QED BY <4>1
      <3>2. CASE \E f \in FreeSlots : conn' = [[conn EXCEPT ![s] = c] EXCEPT ![f] = Request(t, Listed(s), "INFORM", conn[s].about)]
        <4>1. PICK f \in FreeSlots :
                conn' = [[conn EXCEPT ![s] = c] EXCEPT ![f] = Request(t, Listed(s), "INFORM", conn[s].about)]
          BY <3>2
        <4> DEFINE q == Request(t, Listed(s), "INFORM", conn[s].about)
        <4>2. Fits(q) /\ q.pc = "sent"
          BY DEF Fits, Request
        <4> HIDE DEF q
        <4>3. \A r \in Slots : conn'[r] = IF r = f THEN q ELSE IF r = s THEN c ELSE conn[r]
          BY <4>1 DEF q, FreeSlots, IInv, TypeOK
        <4> QED BY <4>2, <4>3
      <3> QED BY <1>10, <3>1, <3>2 DEF InformNext, c
    <2>5. ASSUME NEW r \in Slots, conn'[r] # NoConn
          PROVE  Fits(conn'[r]) /\ (conn'[r].pc = "inform" => mutex'[conn'[r].to] = r)
      BY <1>2, <2>1, <2>2, <2>3, <2>4, <2>5 DEF LoopInv, At, SameConn
    <2> QED BY <2>5 DEF LoopInv, Fits
  <1> QED BY <1>4, <1>5, <1>6, <1>7, <1>8, <1>9, <1>10 DEF Handler

LEMMA LoopOthers ==
  ASSUME IInv, LoopInv, \/ Minute \/ UNCHANGED vars
                        \/ \E p \in Peers : Start(p) \/ Serve(p) \/ Client(p) \/ Retrieve(p)
  PROVE  LoopInv'
  <1>1. CASE UNCHANGED <<conn, mutex>>
    BY <1>1 DEF LoopInv, Fits
  <1>3. ASSUME NEW p \in Peers, NEW q, NEW cmd \in {"REGISTER", "RETREIVE"}, Connect(p, q, cmd),
               UNCHANGED mutex
        PROVE  LoopInv'
    <2>1. Fits(Request(p, q, cmd, p)) /\ Request(p, q, cmd, p).pc = "sent"
      BY DEF Fits, Request
    <2>2. \A r \in Slots : conn'[r] \in {conn[r], Request(p, q, cmd, p)}
      <3> DEFINE c == Request(p, q, cmd, p)
      <3>1. UNCHANGED conn \/ \E s \in FreeSlots : conn' = [conn EXCEPT ![s] = c]
        BY <1>3 DEF Connect
      <3> HIDE DEF c
      <3>2. \A r \in Slots : conn'[r] \in {conn[r], c}
        BY <3>1 DEF FreeSlots, IInv, TypeOK
      <3> QED BY <3>2 DEF c
    <2>4. ASSUME NEW r \in Slots, conn'[r] # NoConn
          PROVE  Fits(conn'[r]) /\ (conn'[r].pc = "inform" => mutex'[conn'[r].to] = r)
      BY <1>3, <2>1, <2>2, <2>4 DEF LoopInv
    <2> QED BY <2>4 DEF LoopInv, Fits
  <1>4. ASSUME NEW p \in Peers, ReadReply(p) PROVE LoopInv'
    <2>1. UNCHANGED mutex
      BY <1>4 DEF ReadReply, Unchanged_Client
    <2>2. PICK s \in Open : /\ Update(s, [conn[s] EXCEPT !.gone = TRUE])
                            /\ conn[s].replies # << >> \/ conn[s].pc = "done"
      BY <1>4 DEF ReadReply
    <2> DEFINE c == [conn[s] EXCEPT !.gone = TRUE]
    <2>3. s \in Slots /\ conn[s] \in Conn /\ conn[s] # NoConn
      BY <2>2 DEF Open, FreeSlots, IInv, TypeOK
    <2>4. /\ c \in Conn /\ c.pc = conn[s].pc /\ SameConn(c, conn[s]) /\ c.replies = conn[s].replies
          /\ c.idx = conn[s].idx /\ c.gone = TRUE
      BY <2>3 DEF Conn, SameConn
    <2>5. conn'[s] = Kept(c) /\ \A r \in Slots \ {s} : conn'[r] = conn[r]
      BY <2>2, <2>3, <2>4, UpdateIs DEF IInv
    <2> HIDE DEF c
    <2>6. conn'[s] = NoConn \/ (conn'[s] = c /\ Fits(c))
      BY <2>1, <2>2, <2>3, <2>4, <2>5 DEF LoopInv, Fits, SameConn, Kept
    <2>7. ASSUME NEW r \in Slots, conn'[r] # NoConn
          PROVE  Fits(conn'[r]) /\ (conn'[r].pc = "inform" => mutex'[conn'[r].to] = r)
      BY <2>1, <2>3, <2>4, <2>5, <2>6, <2>7 DEF LoopInv, SameConn
    <2> QED BY <2>1, <2>7 DEF LoopInv, Fits
  <1>5. ASSUME NEW p \in Peers, Register(p) \/ Ask(p) PROVE LoopInv'
    BY <1>3, <1>5 DEF Register, Ask, Unchanged_Client
  <1>6. ASSUME NEW p \in Peers, Start(p) \/ Serve(p) \/ MergeNetwork(p) \/ Look(p) \/ Retrieve(p)
        PROVE  UNCHANGED <<conn, mutex>>
    BY <1>6 DEF Start, Serve, MergeNetwork, Look, Retrieve, Unchanged_Client
  <1>7. Minute \/ UNCHANGED vars => UNCHANGED <<conn, mutex>>
    BY DEF Minute, vars
  <1> QED BY <1>1, <1>4, <1>5, <1>6, <1>7 DEF Client

LEMMA LoopNext == IInv /\ LoopInv /\ [Next]_vars => LoopInv'
  BY LoopHandler, LoopOthers DEF Next

LEMMA LoopInvariant == Spec => [](IInv /\ LoopInv)
  <1>1. Init => LoopInv
    BY DEF Init, LoopInv
  <1> QED BY Initially, NextKeeps, LoopNext, <1>1, PTL DEF Spec

\* The inform loop of handle_register holds network_mutex from its first to its
\* last entry, also while it connects to others: the list it counts through
\* stays the one it began with.  As nobody is killed no client is gone before
\* its reply, so the second release of the except branch never frees a mutex
\* that an inform loop holds.
THEOREM LoopsSeeOneList == Spec => InformLoopSeesOneList
  <1>1. ASSUME IInv, LoopInv, [Next]_vars
        PROVE  [\A s \in Slots : At(s, "inform") /\ At(s, "inform")' =>
                   network'[conn[s].to] = network[conn[s].to]]_vars
    <2> SUFFICES ASSUME NEW s \in Slots, At(s, "inform"), At(s, "inform")'
                 PROVE  network'[conn[s].to] = network[conn[s].to]
      OBVIOUS
    <2>1. PICK t \in Peers : conn[s].to = t /\ Serving(t)
      BY <1>1, AtIs
    <2>3. mutex[t] = s /\ s # Nobody
      BY <2>1, <1>1, NetworkAssumption DEF LoopInv, At
    <2>5. ASSUME NEW p \in Peers, Start(p) \/ Serve(p) PROVE phase'[t] = phase[t]
      BY <1>1, <2>1, <2>5 DEF Start, Serve, Serving, IInv, TypeOK
    <2>6. ASSUME NEW p \in Peers, Client(p) \/ Retrieve(p) PROVE UNCHANGED phase
      BY <2>6 DEF Client, Register, ReadReply, MergeNetwork, Look, Ask, Retrieve, Unchanged_Client
    <2>7. ASSUME NEW r \in Slots, Handler(r) PROVE UNCHANGED phase
      BY <2>7 DEF Handler, Receive, ServeFile, AddToNetwork, RegisterPeer, Refuse, Welcome, Announce, InformNext,
             InformFails, EndInform, Apologise, Unchanged_Handler
    <2>8. phase'[t] = phase[t]
      BY <1>1, <2>5, <2>6, <2>7 DEF Next, Minute, vars
    <2>9. network'[t] = network[t]
      BY <1>1, <2>3, <2>8, ListSteps DEF Free
    <2> QED BY <2>1, <2>9
  <1> QED BY LoopInvariant, <1>1, PTL DEF Spec, InformLoopSeesOneList

-----------------------------------------------------------------------------
(* Nobody is missed *)

\* The network of the first peer: it has no contact, and is everyone's.
IsFirst(f) == f \in Peers /\ Contact[f] = NoPeer /\ \A p \in Peers \ {f} : Contact[p] = f
First      == CHOOSE f \in Peers : IsFirst(f)
OneFirst   == \E f \in Peers : IsFirst(f)

Good == now = 0 /\ ~aborted
Running(p) == phase[p] # "off"
Told(c)    == {c.data[i] : i \in DOMAIN c.data}

\* The connections through which p will hear of q: the answer to its own
\* registration, an inform loop about q that has not come to p in the list yet,
\* and a message to p about q.
ReplyTells(c, p, q) ==
  /\ c.cmd = "REGISTER" /\ c.from = p /\ ~c.gone /\ q \in Told(c)
  /\ \/ c.pc = "welcome" /\ c.replies = << >>
     \/ c.pc \in {"announce", "inform", "apologise", "done"} /\ c.replies # << >> /\ Head(c.replies) = "OK"
LoopTells(c, list, p, q) ==
  /\ c.cmd = "REGISTER" /\ c.from = q /\ c.to = First /\ c.pc \in {"welcome", "announce", "inform"}
  /\ \E i \in DOMAIN list : c.idx <= i /\ list[i].addr = p
InformTells(c, p, q) == c.cmd = "INFORM" /\ c.to = p /\ c.about = q /\ c.pc \in {"sent", "add"}

Tells(c, list, p, q) == ReplyTells(c, p, q) \/ LoopTells(c, list, p, q) \/ InformTells(c, p, q)

Knows(p, q) == \/ q \in Addresses(network[p]) \/ client[p].pc = "ended"
               \/ client[p].pc = "merge" /\ q \in Told(client[p])
Learns(p, q) == Knows(p, q) \/ \E s \in Slots : conn[s] # NoConn /\ Tells(conn[s], network[First], p, q)

Registering(c, p) == c.cmd = "REGISTER" /\ c.from = p /\ ~c.gone /\ c.pc \in {"sent", "register"}
Registered(p) == \/ client[p].pc \in {"register", "ended"} \/ p \in Addresses(network[First])
                 \/ \E s \in Slots : conn[s] # NoConn /\ Registering(conn[s], p)

ConnOK(c) ==
  /\ Running(c.from)
  /\ c.cmd = "REGISTER" => c.to = First
  /\ c.cmd = "INFORM" => c.to # First
  /\ ~c.gone => client[c.from].pc = "waiting"

\* A client reads one answer at a time.
Awaited(s) == conn[s] # NoConn /\ ~conn[s].gone
OneEach == \A s, r \in Slots : Awaited(s) /\ Awaited(r) /\ conn[s].from = conn[r].from => s = r

QuietInv ==
  Good =>
    /\ client[First].pc = "off" /\ (~Running(First) => network[First] = << >>)
    /\ \A s \in Slots : conn[s] # NoConn => ConnOK(conn[s])
    /\ OneEach
    /\ \A p \in Peers \ {First} : Running(p) => Registered(p)
    /\ \A p \in Addresses(network[First]) : Running(p)
    /\ \A p, q \in Addresses(network[First]) : p # First /\ q # p => Learns(p, q)

LEMMA FirstIs == OneFirst => IsFirst(First)
  BY DEF OneFirst, First

LEMMA LearnsPrime ==
  ASSUME NEW p, NEW q
  PROVE  Learns(p, q)' <=> \/ Knows(p, q)'
                           \/ \E s \in Slots : conn'[s] # NoConn /\ Tells(conn'[s], network'[First], p, q)
  BY DEF Learns, Tells, ReplyTells, LoopTells, InformTells, Told

LEMMA RegisteredPrime ==
  ASSUME NEW p
  PROVE  Registered(p)' <=> \/ client'[p].pc \in {"register", "ended"} \/ p \in Addresses(network'[First])
                            \/ \E s \in Slots : conn'[s] # NoConn /\ Registering(conn'[s], p)
  BY DEF Registered, Registering, Addresses

\* QuietInv of the next state, with the primes where the provers want them.
LEMMA QuietPrime ==
  ASSUME /\ client'[First].pc = "off" /\ (phase'[First] = "off" => network'[First] = << >>),
         \A s \in Slots : conn'[s] # NoConn =>
            /\ phase'[conn'[s].from] # "off"
            /\ conn'[s].cmd = "REGISTER" => conn'[s].to = First
            /\ conn'[s].cmd = "INFORM" => conn'[s].to # First
            /\ ~conn'[s].gone => client'[conn'[s].from].pc = "waiting",
         \A s, r \in Slots : Awaited(s)' /\ Awaited(r)' /\ conn'[s].from = conn'[r].from => s = r,
         \A p \in Peers \ {First} : phase'[p] # "off" => Registered(p)',
         \A p \in Addresses(network'[First]) : phase'[p] # "off",
         \A p, q \in Addresses(network'[First]) : p # First /\ q # p => Learns(p, q)'
  PROVE  QuietInv'
  <1>1. OneEach'
    BY DEF OneEach
  <1>2. \A s \in Slots : (conn[s] # NoConn => ConnOK(conn[s]))'
    BY DEF ConnOK, Running
  <1>3. \A p \in Addresses(network[First])' : Running(p)'
    BY DEF Addresses, Running
  <1>4. \A p \in Peers \ {First} : Running(p)' => Registered(p)'
    BY DEF Running
  <1>5. (\A p, q \in Addresses(network[First]) : p # First /\ q # p => Learns(p, q))'
    <2>1. Addresses(network[First])' = Addresses(network'[First])
      BY DEF Addresses
    <2> QED BY <2>1
  <1> QED BY <1>1, <1>2, <1>3, <1>4, <1>5 DEF QuietInv, Running

\* A step of the handler of s, which may also have sent messages, keeps the
\* invariant if what s was to tell is known, or somebody else still tells it.
LEMMA HandlerQuiet ==
  ASSUME OneFirst, IInv, QuietInv, Good, NEW s \in Slots, conn[s] # NoConn, UNCHANGED <<phase, client>>,
         network'[First] = network[First],
         \A p \in Peers : Addresses(network[p]) \subseteq Addresses(network'[p]),
         conn'[s] # NoConn => SameConn(conn'[s], conn[s]) /\ conn'[s].gone = conn[s].gone,
         \A r \in Slots \ {s} :
            \/ conn'[r] = conn[r]
            \/ /\ conn[r] = NoConn /\ conn'[r].cmd = "INFORM" /\ conn'[r].to # First /\ conn'[r].gone
               /\ phase[conn'[r].from] # "off",
         \A p \in Peers \ {First} : \A q \in Peers \ {p} : Tells(conn[s], network[First], p, q) => Learns(p, q)',
         \A p \in Peers \ {First} : Registering(conn[s], p) => Registered(p)'
  PROVE  QuietInv'
  <1>1. First \in Peers /\ Addresses(network[First]) \subseteq Peers
    <2>1. First \in Peers
      BY FirstIs DEF IsFirst
    <2>2. network[First] \in Lists
      BY <2>1 DEF IInv, TypeOK, Lists
    <2> QED BY <2>1, <2>2, AddressesArePeers
  <1>2. client'[First].pc = "off" /\ (phase'[First] = "off" => network'[First] = << >>)
    BY DEF QuietInv, Running
  <1>3. ASSUME NEW r \in Slots, conn'[r] # NoConn
        PROVE  /\ phase'[conn'[r].from] # "off"
               /\ conn'[r].cmd = "REGISTER" => conn'[r].to = First
               /\ conn'[r].cmd = "INFORM" => conn'[r].to # First
               /\ ~conn'[r].gone => client'[conn'[r].from].pc = "waiting"
    <2>1. CASE r = s
      BY <1>3, <2>1 DEF QuietInv, ConnOK, Running, SameConn
    <2>2. CASE r # s /\ conn'[r] = conn[r]
      BY <1>3, <2>2 DEF QuietInv, ConnOK, Running
    <2>3. CASE r # s /\ conn'[r] # conn[r]
      BY <1>3, <2>3
    <2> QED BY <2>1, <2>2, <2>3
  <1>4. ASSUME NEW r \in Slots, NEW q \in Slots, Awaited(r)', Awaited(q)', conn'[r].from = conn'[q].from
        PROVE  r = q
    <2>1. Awaited(r) /\ conn[r].from = conn'[r].from /\ Awaited(q) /\ conn[q].from = conn'[q].from
      BY <1>4 DEF SameConn, Awaited
    <2> QED BY <1>4, <2>1 DEF QuietInv, OneEach
  <1>5. ASSUME NEW p \in Peers \ {First}, phase'[p] # "off" PROVE Registered(p)'
    <2>1. Registered(p)
      BY <1>5 DEF QuietInv, Running
    <2>2. CASE \E r \in Slots \ {s} : conn[r] # NoConn /\ Registering(conn[r], p)
      <3>1. PICK r \in Slots \ {s} : conn[r] # NoConn /\ Registering(conn[r], p)
        BY <2>2
      <3>2. conn'[r] = conn[r]
        BY <3>1
      <3> QED BY <3>1, <3>2, RegisteredPrime
    <2>3. CASE client[p].pc \in {"register", "ended"} \/ p \in Addresses(network[First])
      BY <2>3, RegisteredPrime
    <2> QED BY <2>1, <2>2, <2>3 DEF Registered
  <1>6. ASSUME NEW p \in Addresses(network'[First]) PROVE phase'[p] # "off"
    BY <1>6 DEF QuietInv, Running
  <1>7. ASSUME NEW p \in Addresses(network'[First]), NEW q \in Addresses(network'[First]), p # First, q # p
        PROVE  Learns(p, q)'
    <2>1. Learns(p, q) /\ p \in Peers \ {First} /\ q \in Peers \ {p}
      BY <1>1, <1>7 DEF QuietInv
    <2>2. CASE Knows(p, q)
      <3>1. Knows(p, q)'
        BY <2>1, <2>2 DEF Knows, Told, Addresses
      <3> QED BY <3>1, LearnsPrime
    <2>3. CASE \E r \in Slots \ {s} : conn[r] # NoConn /\ Tells(conn[r], network[First], p, q)
      <3>1. PICK r \in Slots \ {s} : conn[r] # NoConn /\ Tells(conn[r], network[First], p, q)
        BY <2>3
      <3>2. conn'[r] = conn[r]
        BY <3>1
      <3> QED BY <3>1, <3>2, LearnsPrime
    <2> QED BY <2>1, <2>2, <2>3 DEF Learns
  <1>8. \A r \in Slots : conn'[r] # NoConn =>
          /\ phase'[conn'[r].from] # "off"
          /\ conn'[r].cmd = "REGISTER" => conn'[r].to = First
          /\ conn'[r].cmd = "INFORM" => conn'[r].to # First
          /\ ~conn'[r].gone => client'[conn'[r].from].pc = "waiting"
    BY <1>3
  <1>9. \A r, q \in Slots : Awaited(r)' /\ Awaited(q)' /\ conn'[r].from = conn'[q].from => r = q
    BY <1>4
  <1>10. \A p \in Peers \ {First} : phase'[p] # "off" => Registered(p)'
    BY <1>5
  <1>11. \A p, q \in Addresses(network'[First]) : p # First /\ q # p => Learns(p, q)'
    BY <1>7
  <1>12. \A p \in Addresses(network'[First]) : phase'[p] # "off"
    BY <1>6
  <1> QED BY <1>2, <1>8, <1>9, <1>10, <1>11, <1>12, QuietPrime

\* The same for a step that only moves the handler of s on to c.
LEMMA MoveQuiet ==
  ASSUME OneFirst, IInv, QuietInv, Good, NEW s \in Slots, conn[s] # NoConn, UNCHANGED <<phase, client>>,
         network'[First] = network[First],
         \A p \in Peers : Addresses(network[p]) \subseteq Addresses(network'[p]),
         NEW c \in Conn, Update(s, c), SameConn(c, conn[s]), c.gone = conn[s].gone,
         \A p \in Peers \ {First} : \A q \in Peers \ {p} :
            Tells(conn[s], network[First], p, q) =>
               \/ q \in Addresses(network'[p])
               \/ Tells(c, network[First], p, q) /\ ~(c.pc = "done" /\ c.gone),
         \A p \in Peers \ {First} :
            Registering(conn[s], p) => p \in Addresses(network[First]) \/ Registering(c, p)
  PROVE  QuietInv'
  <1>1. conn'[s] \in {c, NoConn} /\ (conn'[s] = NoConn <=> c.pc = "done" /\ c.gone)
        /\ \A r \in Slots \ {s} : conn'[r] = conn[r]
    BY UpdateIs DEF IInv
  <1>2. ASSUME NEW p \in Peers \ {First}, NEW q \in Peers \ {p}, Tells(conn[s], network[First], p, q)
        PROVE  Learns(p, q)'
    <2>1. CASE q \in Addresses(network'[p])
      <3>1. Knows(p, q)'
        BY <2>1 DEF Knows, Addresses
      <3> QED BY <3>1, LearnsPrime
    <2>2. CASE Tells(c, network[First], p, q) /\ ~(c.pc = "done" /\ c.gone)
      <3>1. conn'[s] # NoConn /\ Tells(conn'[s], network'[First], p, q)
        BY <1>1, <2>2
      <3> QED BY <3>1, LearnsPrime
    <2> QED BY <1>2, <2>1, <2>2
  <1>3. ASSUME NEW p \in Peers \ {First}, Registering(conn[s], p) PROVE Registered(p)'
    <2>1. CASE p \in Addresses(network[First])
      BY <2>1, RegisteredPrime
    <2>2. CASE Registering(c, p)
      <3>1. conn'[s] = c /\ conn'[s] # NoConn
        BY <1>1, <2>2 DEF Registering
      <3> QED BY <2>2, <3>1, RegisteredPrime
    <2> QED BY <1>3, <2>1, <2>2
  <1> QED BY <1>1, <1>2, <1>3, HandlerQuiet

\* The moves that change neither the list nor the data of the connection.
LEMMA AnswerQuiet ==
  ASSUME OneFirst, IInv, LoopInv, QuietInv, Good, NEW s \in Slots, NEW pc, At(s, pc), pc # "done",
         UNCHANGED <<phase, client>>, network'[First] = network[First],
         \A p \in Peers : Addresses(network[p]) \subseteq Addresses(network'[p]),
         NEW next \in Pcs, NEW replies \in Seq({"OK", "PEER_EXISTS", "OTHER"}),
         Update(s, Moved(s, next, replies)),
         pc \in {"announce", "inform", "apologise"} =>
           /\ next \in {"announce", "inform", "apologise", "done"}
           /\ conn[s].replies # << >> => replies # << >> /\ Head(replies) = Head(conn[s].replies),
         pc = "welcome" => next = "announce" /\ replies # << >> /\ Head(replies) = "OK",
         pc \in {"welcome", "announce", "inform"} =>
           \/ next \in {"announce", "inform"}
           \/ \A i \in DOMAIN network[First] : conn[s].to = First => ~(conn[s].idx <= i),
         pc \in {"sent", "add"} =>
           \/ next = "add"
           \/ conn[s].cmd # "INFORM" \/ conn[s].about \in Addresses(network'[conn[s].to]),
         pc \in {"sent", "register"} =>
           next = "register" \/ conn[s].cmd # "REGISTER" \/ conn[s].from \in Addresses(network[First])
  PROVE  QuietInv'
  <1> DEFINE c == Moved(s, next, replies)
  <1>1. /\ c \in Conn /\ c.pc = next /\ c.replies = replies /\ SameConn(c, conn[s])
        /\ c.idx = conn[s].idx /\ c.data = conn[s].data /\ c.gone = conn[s].gone
    BY MovedIs
  <1>2. conn[s].pc = pc /\ conn[s] # NoConn /\ conn[s] \in Conn
    BY AtIs DEF At
  <1>3. Update(s, c)
    OBVIOUS
  <1> HIDE DEF c
  <1>4. Fits(conn[s])
    BY <1>2 DEF LoopInv, Good
  <1>5. ASSUME NEW p \in Peers \ {First}, NEW q \in Peers \ {p}, Tells(conn[s], network[First], p, q)
        PROVE  \/ q \in Addresses(network'[p])
               \/ Tells(c, network[First], p, q) /\ ~(c.pc = "done" /\ c.gone)
    <2>1. CASE ReplyTells(conn[s], p, q)
      <3>1. /\ c.cmd = "REGISTER" /\ c.from = p /\ ~c.gone /\ q \in Told(c)
        BY <1>1, <2>1 DEF ReplyTells, SameConn, Told
      <3>2. c.pc \in {"announce", "inform", "apologise", "done"} /\ c.replies # << >> /\ Head(c.replies) = "OK"
        <4>1. CASE pc = "welcome"
          BY <1>1, <4>1
        <4>2. CASE pc # "welcome"
          BY <1>1, <1>2, <2>1, <4>2 DEF ReplyTells
        <4> QED BY <4>1, <4>2
      <3> QED BY <3>1, <3>2 DEF ReplyTells, Tells
    <2>2. CASE LoopTells(conn[s], network[First], p, q)
      <3>1. PICK i \in DOMAIN network[First] : conn[s].idx <= i /\ network[First][i].addr = p
        BY <2>2 DEF LoopTells
      <3>2. c.pc \in {"announce", "inform"}
        BY <1>1, <1>2, <2>2, <3>1 DEF LoopTells
      <3> QED BY <1>1, <2>2, <3>1, <3>2 DEF LoopTells, Tells, SameConn
    <2>3. CASE InformTells(conn[s], p, q)
      BY <1>1, <1>2, <2>3 DEF InformTells, Tells, SameConn
    <2> QED BY <1>5, <2>1, <2>2, <2>3 DEF Tells
  <1>6. ASSUME NEW p \in Peers \ {First}, Registering(conn[s], p)
        PROVE  p \in Addresses(network[First]) \/ Registering(c, p)
    BY <1>1, <1>2, <1>6 DEF Registering, SameConn
  <1> QED BY <1>1, <1>2, <1>3, <1>5, <1>6, MoveQuiet

LEMMA AllFresh == TypeOK /\ now = 0 => \A e \in Entry : IsFresh(e)
  <1> SUFFICES ASSUME TypeOK, now = 0, NEW e \in Entry PROVE IsFresh(e)
    OBVIOUS
  <1>1. e.seen \in -1..MaxNow /\ MaxNow \in Nat
    BY NetworkAssumption DEF Entry, Own
  <1>2. e.seen = -1 \/ 0 <= e.seen
    BY <1>1
  <1> QED BY <1>2 DEF IsFresh, Own

Replies == Seq({"OK", "PEER_EXISTS", "OTHER"})

LEMMA AppendedReplies ==
  ASSUME NEW replies \in Replies, NEW status \in {"OK", "PEER_EXISTS", "OTHER"}
  PROVE  /\ Append(replies, status) \in Replies /\ Append(replies, status) # << >>
         /\ replies # << >> => Head(Append(replies, status)) = Head(replies)
         /\ replies = << >> => Head(Append(replies, status)) = status
  <1> DEFINE r == Append(replies, status)
  <1>1. replies \in Seq({"OK", "PEER_EXISTS", "OTHER"})
    BY DEF Replies
  <1>2. /\ r \in Seq({"OK", "PEER_EXISTS", "OTHER"}) /\ Len(r) = Len(replies) + 1 /\ Len(replies) \in Nat
        /\ r[Len(replies) + 1] = status /\ \A i \in 1..Len(replies) : r[i] = replies[i]
    BY <1>1, AppendedIs
  <1> HIDE DEF r
  <1>3. r # << >> /\ Head(r) = r[1]
    BY <1>2
  <1>4. replies # << >> => Head(replies) = replies[1] /\ 1 \in 1..Len(replies)
    BY <1>1
  <1>5. replies = << >> => Len(replies) + 1 = 1
    BY <1>2
  <1> QED BY <1>2, <1>3, <1>4, <1>5 DEF Replies, r

LEMMA QuietReceive ==
  ASSUME OneFirst, IInv, LoopInv, QuietInv, Good, NEW s \in Slots, Receive(s)
  PROVE  QuietInv'
  <1>1. /\ At(s, "sent") /\ network' = [network EXCEPT ![conn[s].to] = Refreshed(network[conn[s].to], conn[s].from)]
        /\ Goto(s, Dispatch(conn[s].cmd)) /\ UNCHANGED <<phase, client>>
    BY DEF Receive, Unchanged_Handler
  <1> DEFINE next == Dispatch(conn[s].cmd)
  <1>2. next \in Pcs /\ (conn[s].cmd = "REGISTER" => next = "register") /\ (conn[s].cmd = "INFORM" => next = "add")
    BY DEF Dispatch, Pcs
  <1>3. Update(s, Moved(s, next, conn[s].replies)) /\ conn[s].replies \in Seq({"OK", "PEER_EXISTS", "OTHER"})
    BY <1>1, <1>2, Answering
  <1> HIDE DEF next
  <1>4. network' = network
    <2>1. conn[s].to \in Peers /\ network \in [Peers -> Lists]
      BY <1>1, AtIs DEF IInv, TypeOK, Lists
    <2>2. \A i \in DOMAIN network[conn[s].to] : IsFresh(network[conn[s].to][i])
      <3>1. network[conn[s].to] \in Lists
        BY <2>1
      <3>2. \A i \in DOMAIN network[conn[s].to] : network[conn[s].to][i] \in Entry
        BY <3>1 DEF Lists
      <3> QED BY <3>2, AllFresh DEF IInv, Good
    <2>3. Refreshed(network[conn[s].to], conn[s].from) = network[conn[s].to]
      BY <2>1, <2>2, RefreshedIs DEF IInv
    <2> QED BY <1>1, <2>1, <2>3
  <1> QED BY <1>1, <1>2, <1>3, <1>4, AnswerQuiet

LEMMA QuietAdd ==
  ASSUME OneFirst, IInv, LoopInv, QuietInv, Good, NEW s \in Slots, AddToNetwork(s)
  PROVE  QuietInv'
  <1>1. /\ At(s, "add") /\ network' = [network EXCEPT ![conn[s].to] = AppendIfNew(network[conn[s].to], conn[s].about)]
        /\ Goto(s, "done") /\ UNCHANGED <<phase, client>>
    BY DEF AddToNetwork, Unchanged_Handler
  <1>2. Update(s, Moved(s, "done", conn[s].replies)) /\ conn[s].replies \in Seq({"OK", "PEER_EXISTS", "OTHER"})
        /\ "done" \in Pcs
    BY <1>1, Answering DEF Pcs
  <1>3. PICK t \in Peers, a \in Peers : t = conn[s].to /\ a = conn[s].about
    BY <1>1, AtIs
  <1>4. network \in [Peers -> Lists]
    BY DEF IInv, TypeOK, Lists
  <1>5. Addresses(AppendIfNew(network[t], a)) = Addresses(network[t]) \cup {a}
    BY <1>3, <1>4, AppendIfNewKeeps DEF IInv
  <1>6. t # First
    BY <1>1, <1>3 DEF LoopInv, Good, At, Fits, QuietInv, ConnOK
  <1>7. First \in Peers
    BY FirstIs DEF IsFirst
  <1>8. network'[First] = network[First] /\ network'[t] = AppendIfNew(network[t], a)
        /\ \A p \in Peers \ {t} : network'[p] = network[p]
    BY <1>1, <1>3, <1>4, <1>6, <1>7
  <1>9. \A p \in Peers : Addresses(network[p]) \subseteq Addresses(network'[p])
    BY <1>5, <1>8
  <1>10. a \in Addresses(network'[t])
    BY <1>5, <1>8
  <1> QED BY <1>1, <1>2, <1>3, <1>8, <1>9, <1>10, AnswerQuiet

LEMMA QuietAnswers ==
  ASSUME OneFirst, IInv, LoopInv, QuietInv, Good, NEW s \in Slots,
         ServeFile(s) \/ Refuse(s) \/ Welcome(s) \/ Announce(s) \/ EndInform(s) \/ Apologise(s)
  PROVE  QuietInv'
  <1>1. UNCHANGED <<phase, client, network>>
    BY DEF ServeFile, Refuse, Welcome, Announce, EndInform, Apologise, Unchanged_Handler
  <1>2. Pcs = {"sent", "register", "refuse", "welcome", "announce", "inform", "add", "serve", "apologise", "done"}
    BY DEF Pcs
  <1>3. ASSUME NEW pc, At(s, pc) PROVE Fits(conn[s]) /\ conn[s].pc = pc /\ conn[s] # NoConn /\ conn[s] \in Conn
    BY <1>3, AtIs DEF LoopInv, Good, At
  <1>4. CASE ServeFile(s) \/ Refuse(s)
    <2>1. PICK pc \in {"serve", "refuse"}, next \in {"done", "apologise"} :
            At(s, pc) /\ \/ \E status \in {"OK", "PEER_EXISTS", "OTHER"} : Send(s, status, next)
                         \/ SendRaises(s, next)
      BY <1>4 DEF ServeFile, Refuse
    <2>2. PICK replies \in Replies : Update(s, Moved(s, next, replies))
      BY <1>2, <2>1, Answering DEF Replies
    <2> QED BY <1>1, <1>2, <2>1, <2>2, AnswerQuiet DEF Replies
  <1>5. CASE Welcome(s)
    <2>1. At(s, "welcome") /\ (Send(s, "OK", "announce") \/ SendRaises(s, "apologise"))
      BY <1>5 DEF Welcome
    <2>2. conn[s].replies = << >> /\ ~conn[s].gone
      BY <1>3, <2>1 DEF Fits
    <2> DEFINE replies == Append(conn[s].replies, "OK")
    <2>3. Update(s, Moved(s, "announce", replies)) /\ conn[s].replies \in Replies
      BY <1>2, <2>1, <2>2, Answering DEF SendRaises, Replies
    <2>4. replies \in Replies /\ replies # << >> /\ Head(replies) = "OK"
      BY <2>2, <2>3, AppendedReplies
    <2> HIDE DEF replies
    <2> QED BY <1>1, <1>2, <2>1, <2>3, <2>4, AnswerQuiet DEF Replies
  <1>6. CASE Announce(s)
    <2>1. At(s, "announce") /\ Goto(s, "inform")
      BY <1>6 DEF Announce
    <2>2. Update(s, Moved(s, "inform", conn[s].replies)) /\ conn[s].replies \in Replies
      BY <1>2, <2>1, Answering DEF Replies
    <2> QED BY <1>1, <1>2, <2>1, <2>2, AnswerQuiet DEF Replies
  <1>7. CASE EndInform(s)
    <2>1. PICK next \in {"apologise", "done"} : At(s, "inform") /\ Goto(s, next) /\ ~Informing(s)
      BY <1>7 DEF EndInform
    <2>2. Update(s, Moved(s, next, conn[s].replies)) /\ conn[s].replies \in Replies
      BY <1>2, <2>1, Answering DEF Replies
    <2>3. \A i \in DOMAIN network[First] : conn[s].to = First => ~(conn[s].idx <= i)
      <3>1. First \in Peers
        BY FirstIs DEF IsFirst
      <3>2. network[First] \in Lists
        BY <3>1 DEF IInv, TypeOK, Lists
      <3>3. conn[s].idx \in Nat
        BY <1>3, <2>1 DEF Conn
      <3>4. conn[s].to = First => ~(conn[s].idx <= Len(network[First]))
        BY <2>1 DEF Informing
      <3>5. DOMAIN network[First] = 1..Len(network[First]) /\ Len(network[First]) \in Nat
        BY <3>2 DEF Lists
      <3> QED BY <3>3, <3>4, <3>5
    <2> QED BY <1>1, <1>2, <2>1, <2>2, <2>3, AnswerQuiet DEF Replies
  <1>8. CASE Apologise(s)
    <2>1. At(s, "apologise") /\ (Send(s, "OTHER", "done") \/ SendRaises(s, "done"))
      BY <1>8 DEF Apologise
    <2>2. PICK replies \in Replies : /\ Update(s, Moved(s, "done", replies))
                                     /\ conn[s].replies # << >> => replies # << >> /\ Head(replies) = Head(conn[s].replies)
      <3>1. conn[s].replies \in Replies
        BY <1>2, <2>1, Answering DEF Replies
      <3>2. /\ Append(conn[s].replies, "OTHER") \in Replies /\ Append(conn[s].replies, "OTHER") # << >>
            /\ conn[s].replies # << >> => Head(Append(conn[s].replies, "OTHER")) = Head(conn[s].replies)
        BY <3>1, AppendedReplies
      <3> QED BY <1>2, <2>1, <3>1, <3>2, Answering
    <2> QED BY <1>1, <1>2, <2>1, <2>2, AnswerQuiet DEF Replies
  <1> QED BY <1>4, <1>5, <1>6, <1>7, <1>8

LEMMA QuietRegister ==
  ASSUME OneFirst, IInv, LoopInv, QuietInv, Good, NEW s \in Slots, RegisterPeer(s)
  PROVE  QuietInv'
  <1>1. At(s, "register") /\ UNCHANGED <<phase, client, mutex>>
    BY DEF RegisterPeer, Unchanged_Handler
  <1>2. conn[s] \in Conn /\ conn[s].pc = "register" /\ conn[s] # NoConn /\ Fits(conn[s]) /\ ConnOK(conn[s])
    BY <1>1, AtIs DEF LoopInv, Good, At, QuietInv
  <1>3. PICK p0 \in Peers : p0 = conn[s].from
    BY <1>1, AtIs
  <1>4. /\ conn[s].cmd = "REGISTER" /\ conn[s].to = First /\ ~conn[s].gone /\ client[p0].pc = "waiting"
        /\ conn[s].replies = << >> /\ conn[s].idx = 1 /\ Running(p0)
    BY <1>2, <1>3 DEF Fits, ConnOK
  <1>5. First \in Peers /\ p0 # First /\ Running(First)
    <2>1. First \in Peers
      BY FirstIs DEF IsFirst
    <2>2. Serving(First)
      BY <1>1, <1>4, AtIs
    <2> QED BY <1>4, <2>1, <2>2 DEF QuietInv, Running, Serving
  <1>6. network \in [Peers -> Lists] /\ network[First] \in Lists
    BY <1>5 DEF IInv, TypeOK, Lists
  <1> DEFINE list == AppendIfNew(network[First], p0)
             data == [i \in DOMAIN list |-> list[i].addr]
             c == [conn[s] EXCEPT !.pc = "welcome", !.data = data]
  <1>7. CASE p0 \in Addresses(network[First])
    <2>1. Goto(s, "refuse") /\ UNCHANGED network /\ "refuse" \in Pcs
      BY <1>3, <1>4, <1>7 DEF RegisterPeer, Pcs
    <2>2. Update(s, Moved(s, "refuse", conn[s].replies)) /\ conn[s].replies \in Seq({"OK", "PEER_EXISTS", "OTHER"})
      BY <1>1, <2>1, Answering
    <2> QED BY <1>1, <1>3, <1>7, <2>1, <2>2, AnswerQuiet
  <1>8. CASE p0 \notin Addresses(network[First])
    <2>1. network' = [network EXCEPT ![First] = list] /\ Update(s, c)
      BY <1>3, <1>4, <1>8 DEF RegisterPeer
    <2>2. list \in Lists /\ Addresses(list) = Addresses(network[First]) \cup {p0}
      BY <1>6, AppendIfNewKeeps DEF IInv
    <2>3. \A i \in DOMAIN network[First] : i \in DOMAIN list /\ list[i] = network[First][i]
      <3> DEFINE e == [addr |-> p0, seen |-> now]
      <3>1. e \in Entry
        BY NowIsTime DEF IInv, Entry
      <3>2. list = Append(network[First], e)
        BY <1>8 DEF AppendIfNew
      <3> HIDE DEF e
      <3>3. \A i \in 1..Len(network[First]) : i \in 1..(Len(network[First]) + 1)
        BY <1>6 DEF Lists
      <3> QED BY <1>6, <3>1, <3>2, <3>3, AppendedIs DEF Lists
    <2> HIDE DEF list
    <2>4. data \in Seq(Peers) /\ {data[i] : i \in DOMAIN data} = Addresses(list)
      <3>1. DOMAIN list = 1..Len(list) /\ Len(list) \in Nat
        BY <2>2 DEF Lists
      <3>2. \A i \in DOMAIN list : list[i].addr \in Peers
        BY <2>2, AddressesArePeers DEF Addresses
      <3> QED BY <3>1, <3>2 DEF Addresses
    <2> HIDE DEF data
    <2>5. /\ c \in Conn /\ c.pc = "welcome" /\ SameConn(c, conn[s]) /\ c.idx = 1 /\ c.data = data
          /\ c.replies = << >> /\ c.gone = FALSE
      <3>1. c \in Conn
        BY <1>2, <2>4 DEF Conn
      <3>2. c.gone = conn[s].gone /\ conn[s].gone \in BOOLEAN
        BY <1>2 DEF Conn
      <3>3. c.pc = "welcome" /\ SameConn(c, conn[s]) /\ c.idx = 1 /\ c.data = data /\ c.replies = << >>
        BY <1>2, <1>4 DEF Conn, SameConn
      <3> QED BY <1>4, <3>1, <3>2, <3>3
    <2> HIDE DEF c
    <2>6. conn'[s] = c /\ c # NoConn /\ \A r \in Slots \ {s} : conn'[r] = conn[r]
      BY <2>1, <2>5, UpdateIs, SlotAssumption DEF IInv
    <2>7. network'[First] = list /\ \A p \in Peers \ {First} : network'[p] = network[p]
      BY <1>5, <1>6, <2>1
    <2>8. Told(c) = Addresses(list)
      BY <2>4, <2>5 DEF Told
    <2>9. \A r \in Slots : conn'[r] # NoConn =>
            /\ phase'[conn'[r].from] # "off"
            /\ conn'[r].cmd = "REGISTER" => conn'[r].to = First
            /\ conn'[r].cmd = "INFORM" => conn'[r].to # First
            /\ ~conn'[r].gone => client'[conn'[r].from].pc = "waiting"
      <3>1. phase[c.from] # "off" /\ c.to = First /\ c.cmd = "REGISTER" /\ client[c.from].pc = "waiting"
        BY <1>3, <1>4, <2>5 DEF Running, SameConn
      <3>2. ASSUME NEW r \in Slots \ {s}, conn[r] # NoConn
            PROVE  /\ phase[conn[r].from] # "off"
                   /\ conn[r].cmd = "REGISTER" => conn[r].to = First
                   /\ conn[r].cmd = "INFORM" => conn[r].to # First
                   /\ ~conn[r].gone => client[conn[r].from].pc = "waiting"
        BY <3>2 DEF QuietInv, ConnOK, Running
      <3> QED BY <1>1, <2>6, <3>1, <3>2
    <2>10. \A r, q \in Slots : Awaited(r)' /\ Awaited(q)' /\ conn'[r].from = conn'[q].from => r = q
      <3>1. \A r \in Slots : Awaited(r)' => Awaited(r) /\ conn'[r].from = conn[r].from
        BY <1>2, <1>4, <2>5, <2>6 DEF Awaited, SameConn
      <3> QED BY <3>1 DEF QuietInv, OneEach
    <2>11. ASSUME NEW p \in Peers \ {First}, phase'[p] # "off" PROVE Registered(p)'
      <3>1. Registered(p)
        BY <1>1, <2>11 DEF QuietInv, Running
      <3>2. CASE client[p].pc \in {"register", "ended"} \/ p \in Addresses(network[First])
        BY <1>1, <2>2, <2>7, <3>2, RegisteredPrime
      <3>3. CASE \E r \in Slots : conn[r] # NoConn /\ Registering(conn[r], p)
        <4>1. PICK r \in Slots : conn[r] # NoConn /\ Registering(conn[r], p)
          BY <3>3
        <4>2. CASE r = s
          BY <1>3, <2>2, <2>7, <4>1, <4>2, RegisteredPrime DEF Registering
        <4>3. CASE r # s
          BY <2>6, <4>1, <4>3, RegisteredPrime
        <4> QED BY <4>2, <4>3
      <3> QED BY <3>1, <3>2, <3>3 DEF Registered
    <2>12. \A p \in Addresses(network'[First]) : phase'[p] # "off"
      BY <1>1, <1>4, <2>2, <2>7 DEF QuietInv, Running
    <2>13. ASSUME NEW p \in Addresses(network'[First]), NEW q \in Addresses(network'[First]), p # First, q # p
           PROVE  Learns(p, q)'
      <3>1. CASE p = p0
        <4>1. ReplyTells(c, p, q)
          BY <1>3, <1>4, <2>5, <2>7, <2>8, <2>13, <3>1 DEF ReplyTells, SameConn
        <4> QED BY <2>6, <4>1, LearnsPrime DEF Tells
      <3>2. CASE p # p0 /\ q = p0
        <4>1. PICK i \in DOMAIN network[First] : network[First][i].addr = p
          BY <2>2, <2>7, <2>13, <3>2 DEF Addresses
        <4>2. 1 <= i /\ i \in DOMAIN list /\ list[i].addr = p
          BY <1>6, <2>3, <4>1 DEF Lists
        <4>3. LoopTells(c, list, p, q)
          BY <1>3, <1>4, <2>5, <3>2, <4>2 DEF LoopTells, SameConn
        <4> QED BY <2>6, <2>7, <4>3, LearnsPrime DEF Tells
      <3>3. CASE p # p0 /\ q # p0
        <4>1. Learns(p, q) /\ p \in Peers
          <5>1. Addresses(list) \subseteq Peers
            BY <2>2, AddressesArePeers
          <5> QED BY <2>2, <2>7, <2>13, <3>3, <5>1 DEF QuietInv
        <4>2. CASE Knows(p, q)
          <5>1. Knows(p, q)'
            BY <1>1, <2>7, <2>13, <4>1, <4>2 DEF Knows, Told, Addresses
          <5> QED BY <5>1, LearnsPrime
        <4>3. CASE \E r \in Slots : conn[r] # NoConn /\ Tells(conn[r], network[First], p, q)
          <5>1. PICK r \in Slots : conn[r] # NoConn /\ Tells(conn[r], network[First], p, q)
            BY <4>3
          <5>2. r # s
            BY <1>2, <5>1 DEF Tells, ReplyTells, LoopTells, InformTells
          <5>3. Tells(conn[r], list, p, q)
            BY <2>3, <5>1 DEF Tells, LoopTells
          <5> QED BY <2>6, <2>7, <5>1, <5>2, <5>3, LearnsPrime
        <4> QED BY <4>1, <4>2, <4>3 DEF Learns
      <3> QED BY <3>1, <3>2, <3>3
    <2>14. client'[First].pc = "off" /\ (phase'[First] = "off" => network'[First] = << >>)
      BY <1>1, <1>5 DEF QuietInv, Running
    <2>15. \A p \in Peers \ {First} : phase'[p] # "off" => Registered(p)'
      BY <2>11
    <2>16. \A p, q \in Addresses(network'[First]) : p # First /\ q # p => Learns(p, q)'
      BY <2>13
    <2> QED BY <2>9, <2>10, <2>12, <2>14, <2>15, <2>16, QuietPrime
  <1> QED BY <1>7, <1>8

LEMMA QuietInform ==
  ASSUME OneFirst, IInv, LoopInv, QuietInv, Good, NEW s \in Slots, InformNext(s)
  PROVE  QuietInv'
  <1>1. At(s, "inform") /\ UNCHANGED <<phase, client, network>> /\ conn[s].idx <= Len(network[conn[s].to])
    BY DEF InformNext, Informing, Unchanged_Handler
  <1>2. conn[s] \in Conn /\ conn[s].pc = "inform" /\ conn[s] # NoConn /\ Fits(conn[s]) /\ ConnOK(conn[s])
    BY <1>1, AtIs DEF LoopInv, Good, At, QuietInv
  <1>3. PICK p0 \in Peers : p0 = conn[s].from
    BY <1>1, AtIs
  <1>4. conn[s].cmd = "REGISTER" /\ conn[s].about = p0 /\ conn[s].to = First /\ Serving(First) /\ Running(p0)
    BY <1>1, <1>2, <1>3, AtIs DEF Fits, ConnOK
  <1>5. First \in Peers /\ network[First] \in Lists /\ conn[s].idx \in Nat /\ conn[s].idx >= 1
    <2>1. First \in Peers
      BY FirstIs DEF IsFirst
    <2> QED BY <1>1, <1>2, <2>1, AtIs DEF IInv, TypeOK, Lists, Conn
  <1>6. PICK q0 \in Peers : q0 = Listed(s)
    <2>1. network[First][conn[s].idx] \in Entry
      BY <1>1, <1>4, <1>5 DEF Lists
    <2> QED BY <1>4, <2>1 DEF Listed, Entry
  <1> DEFINE c == [conn[s] EXCEPT !.idx = conn[s].idx + 1]
             m == Request(First, q0, "INFORM", p0)
  <1>7. c.pc = "inform" /\ SameConn(c, conn[s]) /\ c.idx = conn[s].idx + 1 /\ c.gone = conn[s].gone
        /\ c.replies = conn[s].replies /\ c.data = conn[s].data
    BY <1>2 DEF Conn, SameConn
  <1>8. m.cmd = "INFORM" /\ m.to = q0 /\ m.about = p0 /\ m.gone /\ m.from = First /\ m.pc = "sent" /\ m # NoConn
    <2>1. m \in Conn
      BY <1>3, <1>5, <1>6, RequestIs
    <2> QED BY <2>1, SlotAssumption DEF Request
  <1>9. \/ q0 \in {First, p0} /\ conn' = [conn EXCEPT ![s] = c]
        \/ q0 \notin {First, p0} /\ \E f \in FreeSlots : conn' = [[conn EXCEPT ![s] = c] EXCEPT ![f] = m]
    BY <1>3, <1>4, <1>6 DEF InformNext, Skipped
  <1>10. c # NoConn
    <2>1. c \in Conn
      <3>1. conn[s].idx + 1 \in Nat
        BY <1>5
      <3>2. \A i \in Nat : [conn[s] EXCEPT !.idx = i] \in Conn
        BY <1>2 DEF Conn
      <3> QED BY <3>1, <3>2
    <2> HIDE DEF c
    <2> QED BY <2>1, SlotAssumption
  <1> HIDE DEF c, m
  <1>11. /\ conn'[s] = c
         /\ \A r \in Slots \ {s} : conn'[r] = conn[r] \/ (conn[r] = NoConn /\ conn'[r] = m /\ q0 \notin {First, p0})
         /\ q0 \notin {First, p0} => \E f \in Slots : conn'[f] = m
    <2>1. CASE q0 \in {First, p0}
      BY <1>9, <2>1 DEF IInv, TypeOK
    <2>2. CASE q0 \notin {First, p0}
      <3>1. PICK f \in FreeSlots : conn' = [[conn EXCEPT ![s] = c] EXCEPT ![f] = m]
        BY <1>9, <2>2
      <3>2. f \in Slots /\ conn[f] = NoConn /\ f # s
        BY <1>2 DEF FreeSlots
      <3>3. conn'[s] = c /\ conn'[f] = m /\ \A r \in Slots \ {s, f} : conn'[r] = conn[r]
        BY <3>1, <3>2 DEF IInv, TypeOK
      <3> QED BY <2>2, <3>2, <3>3
    <2> QED BY <2>1, <2>2
  <1>12. ASSUME NEW p \in Peers \ {First}, NEW q \in Peers \ {p}, Tells(conn[s], network[First], p, q)
         PROVE  Learns(p, q)'
    <2>1. CASE ReplyTells(conn[s], p, q)
      <3>1. ReplyTells(c, p, q)
        BY <1>2, <1>7, <2>1 DEF ReplyTells, SameConn, Told
      <3> QED BY <1>10, <1>11, <3>1, LearnsPrime DEF Tells
    <2>2. CASE LoopTells(conn[s], network[First], p, q)
      <3>1. PICK i \in DOMAIN network[First] : conn[s].idx <= i /\ network[First][i].addr = p
        BY <2>2 DEF LoopTells
      <3>2. i \in Nat /\ q = p0
        BY <1>3, <1>5, <2>2 DEF Lists, LoopTells
      <3>3. CASE conn[s].idx + 1 <= i
        <4>1. LoopTells(c, network'[First], p, q)
          BY <1>1, <1>7, <2>2, <3>1, <3>3 DEF LoopTells, SameConn
        <4> QED BY <1>10, <1>11, <4>1, LearnsPrime DEF Tells
      <3>4. CASE ~(conn[s].idx + 1 <= i)
        <4>1. i = conn[s].idx
          BY <1>5, <3>1, <3>2, <3>4
        <4>2. p = q0
          BY <1>4, <1>6, <3>1, <4>1 DEF Listed
        <4>3. q0 \notin {First, p0}
          BY <1>12, <3>2, <4>2
        <4>4. InformTells(m, p, q)
          BY <1>8, <3>2, <4>2 DEF InformTells
        <4>5. \E f \in Slots : conn'[f] # NoConn /\ Tells(conn'[f], network'[First], p, q)
          BY <1>8, <1>11, <4>3, <4>4 DEF Tells
        <4> QED BY <4>5, LearnsPrime
      <3> QED BY <3>3, <3>4
    <2>3. CASE InformTells(conn[s], p, q)
      BY <1>2, <2>3 DEF InformTells
    <2> QED BY <1>12, <2>1, <2>2, <2>3 DEF Tells
  <1>13. ASSUME NEW p \in Peers \ {First}, Registering(conn[s], p) PROVE Registered(p)'
    BY <1>2, <1>13 DEF Registering
  <1>14. \A r \in Slots \ {s} :
            \/ conn'[r] = conn[r]
            \/ /\ conn[r] = NoConn /\ conn'[r].cmd = "INFORM" /\ conn'[r].to # First /\ conn'[r].gone
               /\ phase[conn'[r].from] # "off"
    BY <1>4, <1>8, <1>11 DEF Serving
  <1> QED BY <1>1, <1>2, <1>7, <1>11, <1>12, <1>13, <1>14, HandlerQuiet

\* The handlers' part.
LEMMA QuietHandler ==
  ASSUME OneFirst, IInv, LoopInv, QuietInv, NEW s \in Slots, Handler(s)
  PROVE  QuietInv'
  <1> SUFFICES ASSUME Good' PROVE QuietInv'
    BY DEF QuietInv
  <1>1. UNCHANGED now /\ (aborted' = aborted \/ aborted' = TRUE)
    BY DEF Handler, Receive, ServeFile, AddToNetwork, RegisterPeer, Refuse, Welcome, Announce, InformNext,
           InformFails, EndInform, Apologise, Unchanged_Handler
  <1>2. Good
    BY <1>1 DEF Good
  <1>3. ~InformFails(s)
    BY DEF InformFails, Good
  <1> QED BY <1>2, <1>3, QuietReceive, QuietAdd, QuietAnswers, QuietRegister, QuietInform DEF Handler

\* A client that is to register, or that asks for a file, connects.
LEMMA QuietConnect ==
  ASSUME OneFirst, IInv, QuietInv, Good, NEW p0 \in Peers, NEW q0 \in Peers, NEW cmd \in {"REGISTER", "RETREIVE"},
         Connect(p0, q0, cmd), UNCHANGED <<phase, network>>,
         client[p0].pc \in {"register", "ask"}, cmd = "REGISTER" => q0 = First,
         cmd = "RETREIVE" => client[p0].pc = "ask"
  PROVE  QuietInv'
  <1>1. First \in Peers /\ p0 # First /\ Running(p0)
    <2>1. First \in Peers
      BY FirstIs DEF IsFirst
    <2> QED BY <2>1 DEF QuietInv, IInv, PeerOK, Running
  <1> DEFINE m == Request(p0, q0, cmd, p0)
  <1>2. m.cmd = cmd /\ m.to = q0 /\ m.from = p0 /\ ~m.gone /\ m.pc = "sent" /\ m # NoConn
    <2>1. m \in Conn
      BY RequestIs
    <2> QED BY <2>1, SlotAssumption DEF Request
  <1> HIDE DEF m
  <1>3. PICK pc \in {"waiting", "ended"} :
          /\ client' = [client EXCEPT ![p0].pc = pc]
          /\ pc = "ended" => UNCHANGED conn
          /\ pc = "waiting" => \E f \in FreeSlots : conn' = [conn EXCEPT ![f] = m]
    BY DEF Connect, m
  <1>4. client'[p0].pc = pc /\ \A p \in Peers \ {p0} : client'[p] = client[p]
    BY <1>3 DEF IInv, TypeOK
  <1>5. \A r \in Slots : conn'[r] = conn[r] \/ (conn[r] = NoConn /\ conn'[r] = m /\ pc = "waiting")
    BY <1>3 DEF FreeSlots, IInv, TypeOK
  <1>6. \A r, q \in Slots : conn[r] = NoConn /\ conn[q] = NoConn /\ conn'[r] = m /\ conn'[q] = m => r = q
    <2>1. CASE pc = "ended"
      BY <1>2, <1>3, <2>1
    <2>2. CASE pc = "waiting"
      <3>1. PICK f \in FreeSlots : conn' = [conn EXCEPT ![f] = m]
        BY <1>3, <2>2
      <3>2. \A r \in Slots \ {f} : conn'[r] = conn[r]
        BY <3>1 DEF IInv, TypeOK
      <3> QED BY <1>2, <3>2
    <2> QED BY <2>1, <2>2
  <1>7. \A r \in Slots : Awaited(r) => conn[r].from # p0
    BY DEF QuietInv, ConnOK, Awaited
  <1>8. \A r \in Slots : conn[r] # NoConn => conn[r].from \in Peers
    BY DEF IInv, TypeOK, Conn
  <1>9. \A r \in Slots : conn'[r] # NoConn =>
          /\ phase'[conn'[r].from] # "off"
          /\ conn'[r].cmd = "REGISTER" => conn'[r].to = First
          /\ conn'[r].cmd = "INFORM" => conn'[r].to # First
          /\ ~conn'[r].gone => client'[conn'[r].from].pc = "waiting"
    <2>1. ASSUME NEW r \in Slots, conn[r] # NoConn
          PROVE  /\ phase[conn[r].from] # "off"
                 /\ conn[r].cmd = "REGISTER" => conn[r].to = First
                 /\ conn[r].cmd = "INFORM" => conn[r].to # First
                 /\ ~conn[r].gone => client'[conn[r].from].pc = "waiting"
      <3>1. ConnOK(conn[r]) /\ (~conn[r].gone => conn[r].from # p0)
        BY <1>7, <2>1 DEF QuietInv, Awaited
      <3> QED BY <1>4, <1>8, <2>1, <3>1 DEF ConnOK, Running
    <2>2. ASSUME pc = "waiting"
          PROVE  /\ phase[m.from] # "off"
                 /\ m.cmd = "REGISTER" => m.to = First
                 /\ m.cmd # "INFORM"
                 /\ client'[m.from].pc = "waiting"
      BY <1>1, <1>2, <1>4, <2>2 DEF Running
    <2> QED BY <1>5, <2>1, <2>2
  <1>10. \A r, q \in Slots : Awaited(r)' /\ Awaited(q)' /\ conn'[r].from = conn'[q].from => r = q
    <2>1. \A r \in Slots : Awaited(r)' => (Awaited(r) /\ conn'[r] = conn[r]) \/ (conn[r] = NoConn /\ conn'[r] = m)
      BY <1>5 DEF Awaited
    <2> QED BY <1>2, <1>6, <1>7, <2>1 DEF QuietInv, OneEach
  <1>11. ASSUME NEW p \in Peers \ {First}, phase'[p] # "off" PROVE Registered(p)'
    <2>1. Registered(p)
      BY <1>11 DEF QuietInv, Running
    <2>2. CASE \E r \in Slots : conn[r] # NoConn /\ Registering(conn[r], p)
      <3>1. PICK r \in Slots : conn[r] # NoConn /\ Registering(conn[r], p)
        BY <2>2
      <3> QED BY <1>5, <3>1, RegisteredPrime
    <2>3. CASE p \in Addresses(network[First])
      BY <2>3, RegisteredPrime
    <2>4. CASE p # p0 /\ client[p].pc \in {"register", "ended"}
      BY <1>4, <2>4, RegisteredPrime
    <2>5. CASE p = p0 /\ client[p].pc = "register"
      <3>1. CASE pc = "ended"
        BY <1>4, <2>5, <3>1, RegisteredPrime
      <3>2. CASE pc = "waiting"
        <4>1. \E f \in Slots : conn'[f] = m
          <5>1. PICK f \in FreeSlots : conn' = [conn EXCEPT ![f] = m]
            BY <1>3, <3>2
          <5> QED BY <5>1 DEF FreeSlots, IInv, TypeOK
        <4>2. Registering(m, p)
          BY <1>2, <2>5 DEF Registering
        <4> QED BY <1>2, <4>1, <4>2, RegisteredPrime
      <3> QED BY <3>1, <3>2
    <2> QED BY <2>1, <2>2, <2>3, <2>4, <2>5 DEF Registered
  <1>12. \A p \in Addresses(network'[First]) : phase'[p] # "off"
    BY DEF QuietInv, Running
  <1>13. ASSUME NEW p \in Addresses(network'[First]), NEW q \in Addresses(network'[First]), p # First, q # p
         PROVE  Learns(p, q)'
    <2>1. Learns(p, q) /\ p \in Peers
      <3>1. network[First] \in Lists
        BY <1>1 DEF IInv, TypeOK, Lists
      <3> QED BY <1>13, <3>1, AddressesArePeers DEF QuietInv
    <2>2. CASE Knows(p, q)
      <3>1. Knows(p, q)'
        BY <1>4, <2>1, <2>2 DEF Knows, Told, Addresses
      <3> QED BY <3>1, LearnsPrime
    <2>3. CASE \E r \in Slots : conn[r] # NoConn /\ Tells(conn[r], network[First], p, q)
      <3>1. PICK r \in Slots : conn[r] # NoConn /\ Tells(conn[r], network[First], p, q)
        BY <2>3
      <3>2. conn'[r] = conn[r]
        BY <1>5, <3>1
      <3> QED BY <3>1, <3>2, LearnsPrime
    <2> QED BY <2>1, <2>2, <2>3 DEF Learns
  <1>14. client'[First].pc = "off" /\ (phase'[First] = "off" => network'[First] = << >>)
    BY <1>1, <1>4 DEF QuietInv, Running
  <1>15. \A p \in Peers \ {First} : phase'[p] # "off" => Registered(p)'
    BY <1>11
  <1>16. \A p, q \in Addresses(network'[First]) : p # First /\ q # p => Learns(p, q)'
    BY <1>13
  <1> QED BY <1>9, <1>10, <1>12, <1>14, <1>15, <1>16, QuietPrime

\* A client reads its answer.
LEMMA QuietReply ==
  ASSUME OneFirst, IInv, LoopInv, QuietInv, Good, NEW p0 \in Peers, ReadReply(p0)
  PROVE  QuietInv'
  <1>1. client[p0].pc = "waiting" /\ UNCHANGED <<phase, network>>
    BY DEF ReadReply, Unchanged_Client
  <1>2. PICK s \in Open :
          /\ conn[s].from = p0 /\ ~conn[s].gone
          /\ conn[s].replies # << >> \/ conn[s].pc = "done"
          /\ Update(s, [conn[s] EXCEPT !.gone = TRUE])
          /\ client' = [client EXCEPT ![p0] =
               IF conn[s].replies = << >> THEN [pc |-> "ended", data |-> << >>]
               ELSE IF conn[s].cmd = "RETREIVE" THEN [pc |-> "ready", data |-> << >>]
               ELSE IF Head(conn[s].replies) = "OK" THEN [pc |-> "merge", data |-> conn[s].data]
               ELSE [pc |-> "look", data |-> << >>]]
    BY DEF ReadReply
  <1>3. s \in Slots /\ conn[s] \in Conn /\ conn[s] # NoConn
    BY <1>2 DEF Open, FreeSlots, IInv, TypeOK
  <1>4. Fits(conn[s]) /\ ConnOK(conn[s])
    BY <1>3 DEF LoopInv, QuietInv, Good
  <1>5. First \in Peers /\ p0 # First
    <2>1. First \in Peers
      BY FirstIs DEF IsFirst
    <2> QED BY <1>1, <2>1 DEF QuietInv
  <1> DEFINE c == [conn[s] EXCEPT !.gone = TRUE]
  <1>6. /\ c \in Conn /\ c.pc = conn[s].pc /\ SameConn(c, conn[s]) /\ c.replies = conn[s].replies
        /\ c.idx = conn[s].idx /\ c.gone = TRUE
    BY <1>3 DEF Conn, SameConn
  <1>7. Update(s, c)
    BY <1>2
  <1> HIDE DEF c
  <1>8. conn'[s] \in {c, NoConn} /\ (conn'[s] = NoConn <=> c.pc = "done" /\ c.gone)
        /\ \A r \in Slots \ {s} : conn'[r] = conn[r]
    BY <1>3, <1>6, <1>7, UpdateIs DEF IInv
  <1>9. /\ client'[p0].pc \in {"ended", "merge", "look", "ready"}
        /\ conn[s].replies # << >> /\ conn[s].cmd = "REGISTER" /\ Head(conn[s].replies) = "OK" =>
             client'[p0].pc = "merge" /\ client'[p0].data = conn[s].data
        /\ \A p \in Peers \ {p0} : client'[p] = client[p]
    BY <1>2 DEF IInv, TypeOK
  <1>10. \A r \in Slots : Awaited(r) /\ conn[r].from = p0 => r = s
    BY <1>2, <1>3 DEF QuietInv, OneEach, Awaited
  <1>11. \A r \in Slots : conn[r] # NoConn => conn[r].from \in Peers
    BY DEF IInv, TypeOK, Conn
  <1>12. \A r \in Slots : conn'[r] # NoConn =>
          /\ phase'[conn'[r].from] # "off"
          /\ conn'[r].cmd = "REGISTER" => conn'[r].to = First
          /\ conn'[r].cmd = "INFORM" => conn'[r].to # First
          /\ ~conn'[r].gone => client'[conn'[r].from].pc = "waiting"
    <2>1. ASSUME NEW r \in Slots \ {s}, conn[r] # NoConn
          PROVE  /\ phase[conn[r].from] # "off"
                 /\ conn[r].cmd = "REGISTER" => conn[r].to = First
                 /\ conn[r].cmd = "INFORM" => conn[r].to # First
                 /\ ~conn[r].gone => client'[conn[r].from].pc = "waiting"
      <3>1. ConnOK(conn[r]) /\ (~conn[r].gone => conn[r].from # p0)
        BY <1>10, <2>1 DEF QuietInv, Awaited
      <3> QED BY <1>9, <1>11, <2>1, <3>1 DEF ConnOK, Running
    <2>2. phase[c.from] # "off" /\ (c.cmd = "REGISTER" => c.to = First) /\ (c.cmd = "INFORM" => c.to # First)
          /\ c.gone
      BY <1>4, <1>6 DEF ConnOK, Running, SameConn
    <2> QED BY <1>1, <1>8, <2>1, <2>2
  <1>13. \A r, q \in Slots : Awaited(r)' /\ Awaited(q)' /\ conn'[r].from = conn'[q].from => r = q
    <2>1. \A r \in Slots : Awaited(r)' => Awaited(r) /\ conn'[r] = conn[r]
      BY <1>6, <1>8 DEF Awaited
    <2> QED BY <2>1 DEF QuietInv, OneEach
  <1>14. ASSUME NEW p \in Peers \ {First}, phase'[p] # "off" PROVE Registered(p)'
    <2>1. Registered(p)
      BY <1>1, <1>14 DEF QuietInv, Running
    <2>2. CASE \E r \in Slots : conn[r] # NoConn /\ Registering(conn[r], p)
      <3>1. PICK r \in Slots : conn[r] # NoConn /\ Registering(conn[r], p)
        BY <2>2
      <3>2. r # s
        BY <1>2, <1>4, <3>1 DEF Registering, Fits
      <3> QED BY <1>8, <3>1, <3>2, RegisteredPrime
    <2>3. CASE p \in Addresses(network[First])
      BY <1>1, <2>3, RegisteredPrime
    <2>4. CASE client[p].pc \in {"register", "ended"}
      BY <1>1, <1>9, <2>4, RegisteredPrime
    <2> QED BY <2>1, <2>2, <2>3, <2>4 DEF Registered
  <1>15. \A p \in Addresses(network'[First]) : phase'[p] # "off"
    BY <1>1 DEF QuietInv, Running
  <1>16. ASSUME NEW p \in Addresses(network'[First]), NEW q \in Addresses(network'[First]), p # First, q # p
         PROVE  Learns(p, q)'
    <2>1. Learns(p, q) /\ p \in Peers
      <3>1. network[First] \in Lists
        BY <1>5 DEF IInv, TypeOK, Lists
      <3> QED BY <1>1, <1>16, <3>1, AddressesArePeers DEF QuietInv
    <2>2. CASE Knows(p, q)
      <3>1. CASE q \in Addresses(network[p])
        <4>1. Knows(p, q)'
          BY <1>1, <3>1 DEF Knows, Addresses
        <4> QED BY <4>1, LearnsPrime
      <3>2. CASE client[p].pc \in {"ended", "merge"}
        <4>1. p # p0
          BY <1>1, <3>2
        <4>2. Knows(p, q)'
          BY <1>1, <1>9, <2>1, <2>2, <4>1 DEF Knows, Told, Addresses
        <4> QED BY <4>2, LearnsPrime
      <3> QED BY <2>2, <3>1, <3>2 DEF Knows
    <2>3. CASE \E r \in Slots \ {s} : conn[r] # NoConn /\ Tells(conn[r], network[First], p, q)
      <3>1. PICK r \in Slots \ {s} : conn[r] # NoConn /\ Tells(conn[r], network[First], p, q)
        BY <2>3
      <3>2. conn'[r] = conn[r]
        BY <1>8, <3>1
      <3> QED BY <1>1, <3>1, <3>2, LearnsPrime
    <2>4. CASE Tells(conn[s], network[First], p, q)
      <3>1. CASE ReplyTells(conn[s], p, q)
        <4>1. p = p0 /\ conn[s].cmd = "REGISTER" /\ q \in Told(conn[s])
              /\ conn[s].replies # << >> /\ Head(conn[s].replies) = "OK"
          BY <1>2, <3>1 DEF ReplyTells
        <4>2. client'[p].pc = "merge" /\ client'[p].data = conn[s].data
          BY <1>9, <4>1
        <4>3. Knows(p, q)'
          BY <4>1, <4>2 DEF Knows, Told
        <4> QED BY <4>3, LearnsPrime
      <3>2. CASE LoopTells(conn[s], network[First], p, q)
        <4>1. LoopTells(c, network[First], p, q)
          BY <1>6, <3>2 DEF LoopTells, SameConn
        <4>2. conn'[s] = c /\ conn'[s] # NoConn
          BY <1>6, <1>8, <4>1 DEF LoopTells
        <4> QED BY <1>1, <1>3, <4>1, <4>2, LearnsPrime DEF Tells
      <3>3. CASE InformTells(conn[s], p, q)
        BY <1>2, <1>4, <3>3 DEF InformTells, Fits
      <3> QED BY <2>4, <3>1, <3>2, <3>3 DEF Tells
    <2> QED BY <2>1, <2>2, <2>3, <2>4 DEF Learns
  <1>17. client'[First].pc = "off" /\ (phase'[First] = "off" => network'[First] = << >>)
    BY <1>1, <1>5, <1>9 DEF QuietInv, Running
  <1>18. \A p \in Peers \ {First} : phase'[p] # "off" => Registered(p)'
    BY <1>14
  <1>19. \A p, q \in Addresses(network'[First]) : p # First /\ q # p => Learns(p, q)'
    BY <1>16
  <1> QED BY <1>12, <1>13, <1>15, <1>17, <1>18, <1>19, QuietPrime

\* ... and merges it, or only starts to run or to serve.
LEMMA QuietProcess ==
  ASSUME OneFirst, IInv, QuietInv, Good, NEW p0 \in Peers, MergeNetwork(p0) \/ Start(p0) \/ Serve(p0)
  PROVE  QuietInv'
  <1>1. UNCHANGED conn
    BY DEF MergeNetwork, Start, Serve
  <1>2. phase \in [Peers -> Phases] /\ network \in [Peers -> Lists]
        /\ client \in [Peers -> [pc : ClientAt, data : Seq(Peers)]]
    BY DEF IInv, TypeOK, Phases, Lists
  <1>3. /\ \A p \in Peers \ {p0} : phase'[p] = phase[p] /\ network'[p] = network[p] /\ client'[p] = client[p]
        /\ phase'[p0] # "off"
    <2>1. CASE MergeNetwork(p0)
      <3>1. phase[p0] # "off"
        BY <2>1 DEF MergeNetwork, IInv, PeerOK
      <3> QED BY <1>2, <2>1, <3>1 DEF MergeNetwork, Unchanged_Client
    <2>2. CASE Start(p0) \/ Serve(p0)
      BY <1>2, <2>2 DEF Start, Serve
    <2> QED BY <2>1, <2>2
  <1>4. First \in Peers /\ network[First] \in Lists
    <2>1. First \in Peers
      BY FirstIs DEF IsFirst
    <2> QED BY <1>2, <2>1
  <1>5. \A r \in Slots : conn[r] # NoConn => conn[r].from \in Peers
    BY DEF IInv, TypeOK, Conn
  <1>6. CASE Start(p0)
    <2>1. /\ phase[p0] = "off" /\ network'[p0] = <<[addr |-> p0, seen |-> Own]>>
          /\ client'[p0].pc = IF Contact[p0] = NoPeer THEN "off" ELSE "register"
      BY <1>2, <1>6 DEF Start
    <2>2. IF p0 = First THEN client'[p0].pc = "off" ELSE client'[p0].pc = "register"
      BY <1>4, <2>1, FirstIs, NetworkAssumption DEF IsFirst
    <2>3. p0 # First => network'[First] = network[First]
      BY <1>3, <1>4
    <2>4. p0 = First => Addresses(network[First]) = {} /\ Addresses(network'[First]) = {First}
      <3>1. p0 = First => network[First] = << >>
        BY <2>1 DEF QuietInv, Running
      <3>2. DOMAIN <<[addr |-> p0, seen |-> Own]>> = {1} /\ DOMAIN << >> = {}
        OBVIOUS
      <3> QED BY <2>1, <3>1, <3>2 DEF Addresses
    <2>5. \A r \in Slots : conn'[r] # NoConn =>
            /\ phase'[conn'[r].from] # "off"
            /\ conn'[r].cmd = "REGISTER" => conn'[r].to = First
            /\ conn'[r].cmd = "INFORM" => conn'[r].to # First
            /\ ~conn'[r].gone => client'[conn'[r].from].pc = "waiting"
      BY <1>1, <1>3, <1>5, <2>1 DEF QuietInv, ConnOK, Running
    <2>6. \A r, q \in Slots : Awaited(r)' /\ Awaited(q)' /\ conn'[r].from = conn'[q].from => r = q
      BY <1>1 DEF QuietInv, OneEach, Awaited
    <2>7. ASSUME NEW p \in Peers \ {First}, phase'[p] # "off" PROVE Registered(p)'
      <3>1. CASE p = p0
        BY <2>2, <3>1, RegisteredPrime
      <3>2. CASE p # p0
        <4>1. Registered(p)
          BY <1>3, <2>7, <3>2 DEF QuietInv, Running
        <4>2. p \in Addresses(network[First]) => p \in Addresses(network'[First])
          BY <2>3, <2>4
        <4> QED BY <1>1, <1>3, <3>2, <4>1, <4>2, RegisteredPrime DEF Registered
      <3> QED BY <3>1, <3>2
    <2>8. \A p \in Addresses(network'[First]) : phase'[p] # "off"
      <3>1. \A p \in Addresses(network[First]) : p \in Peers /\ phase[p] # "off"
        BY <1>4, AddressesArePeers DEF QuietInv, Running
      <3> QED BY <1>3, <2>3, <2>4, <3>1
    <2>9. ASSUME NEW p \in Addresses(network'[First]), NEW q \in Addresses(network'[First]), p # First, q # p
          PROVE  Learns(p, q)'
      <3>1. p0 # First /\ network'[First] = network[First]
        BY <2>3, <2>4, <2>9
      <3>2. Learns(p, q) /\ p \in Peers /\ p # p0
        BY <1>4, <2>1, <2>9, <3>1, AddressesArePeers DEF QuietInv, Running
      <3>3. CASE Knows(p, q)
        <4>1. Knows(p, q)'
          BY <1>3, <3>2, <3>3 DEF Knows, Told, Addresses
        <4> QED BY <4>1, LearnsPrime
      <3>4. CASE ~Knows(p, q)
        BY <1>1, <3>1, <3>2, <3>4, LearnsPrime DEF Learns
      <3> QED BY <3>3, <3>4
    <2>10. client'[First].pc = "off" /\ (phase'[First] = "off" => network'[First] = << >>)
      BY <1>3, <1>4, <2>2 DEF QuietInv, Running
    <2>11. \A p \in Peers \ {First} : phase'[p] # "off" => Registered(p)'
      BY <2>7
    <2>12. \A p, q \in Addresses(network'[First]) : p # First /\ q # p => Learns(p, q)'
      BY <2>9
    <2> QED BY <2>5, <2>6, <2>8, <2>10, <2>11, <2>12, QuietPrime
  <1>7. CASE MergeNetwork(p0) \/ Serve(p0)
    <2>1. p0 # First \/ Serve(p0)
      BY <1>7 DEF MergeNetwork, QuietInv
    <2>2. network'[First] = network[First] /\ client'[First] = client[First]
      BY <1>3, <1>4, <1>7, <2>1 DEF Serve
    <2>3. \A p \in Peers : (phase'[p] # "off" <=> phase[p] # "off")
      BY <1>2, <1>3, <1>7 DEF Serve, MergeNetwork, Unchanged_Client
    <2>4. \A p \in Peers : client'[p] = client[p] \/ (client[p].pc = "merge" /\ client'[p].pc = "look")
      <3>1. CASE MergeNetwork(p0)
        BY <1>2, <3>1 DEF MergeNetwork
      <3>2. CASE Serve(p0)
        BY <3>2 DEF Serve
      <3> QED BY <1>7, <3>1, <3>2
    <2>5. \A p \in Peers : Addresses(network[p]) \subseteq Addresses(network'[p])
                           /\ (client'[p] # client[p] => Told(client[p]) \subseteq Addresses(network'[p]))
      <3>1. CASE MergeNetwork(p0)
        <4>1. client[p0].data \in Seq(Peers) /\ network[p0] \in Lists
          BY <1>2
        <4>2. network'[p0] = Merged(network[p0], client[p0].data)
          BY <1>2, <3>1 DEF MergeNetwork
        <4>3. Addresses(network'[p0]) = Addresses(network[p0]) \cup Told(client[p0])
          BY <4>1, <4>2, MergedIs DEF IInv, Told
        <4> QED BY <1>3, <4>3
      <3>2. CASE Serve(p0)
        BY <3>2 DEF Serve
      <3> QED BY <1>7, <3>1, <3>2
    <2>6. \A r \in Slots : conn'[r] # NoConn =>
            /\ phase'[conn'[r].from] # "off"
            /\ conn'[r].cmd = "REGISTER" => conn'[r].to = First
            /\ conn'[r].cmd = "INFORM" => conn'[r].to # First
            /\ ~conn'[r].gone => client'[conn'[r].from].pc = "waiting"
      BY <1>1, <1>5, <2>3, <2>4 DEF QuietInv, ConnOK, Running
    <2>7. \A r, q \in Slots : Awaited(r)' /\ Awaited(q)' /\ conn'[r].from = conn'[q].from => r = q
      BY <1>1 DEF QuietInv, OneEach, Awaited
    <2>8. ASSUME NEW p \in Peers \ {First}, phase'[p] # "off" PROVE Registered(p)'
      <3>1. Registered(p)
        BY <2>3, <2>8 DEF QuietInv, Running
      <3> QED BY <1>1, <2>2, <2>4, <3>1, RegisteredPrime DEF Registered
    <2>9. \A p \in Addresses(network'[First]) : phase'[p] # "off"
      BY <1>4, <2>2, <2>3, AddressesArePeers DEF QuietInv, Running
    <2>10. ASSUME NEW p \in Addresses(network'[First]), NEW q \in Addresses(network'[First]), p # First, q # p
          PROVE  Learns(p, q)'
      <3>1. Learns(p, q) /\ p \in Peers
        BY <1>4, <2>2, <2>10, AddressesArePeers DEF QuietInv
      <3>2. CASE Knows(p, q)
        <4>1. q \in Addresses(network'[p]) \/ client'[p].pc = "ended"
              \/ (client'[p].pc = "merge" /\ client'[p] = client[p] /\ q \in Told(client[p]))
          BY <2>4, <2>5, <3>1, <3>2 DEF Knows
        <4>2. Knows(p, q)'
          BY <4>1 DEF Knows, Told, Addresses
        <4> QED BY <4>2, LearnsPrime
      <3>3. CASE ~Knows(p, q)
        BY <1>1, <2>2, <3>1, <3>3, LearnsPrime DEF Learns
      <3> QED BY <3>2, <3>3
    <2>11. client'[First].pc = "off" /\ (phase'[First] = "off" => network'[First] = << >>)
      BY <1>4, <2>2, <2>3 DEF QuietInv, Running
    <2>12. \A p \in Peers \ {First} : phase'[p] # "off" => Registered(p)'
      BY <2>8
    <2>13. \A p, q \in Addresses(network'[First]) : p # First /\ q # p => Learns(p, q)'
      BY <2>10
    <2> QED BY <2>6, <2>7, <2>9, <2>11, <2>12, <2>13, QuietPrime
  <1> QED BY <1>6, <1>7

\* A client that looks, chooses a peer or finds nobody to ask.
LEMMA QuietClient ==
  ASSUME OneFirst, IInv, QuietInv, Good, NEW p0 \in Peers, client[p0].pc \in {"look", "ready"},
         NEW c, client' = [client EXCEPT ![p0] = c], UNCHANGED <<phase, network, conn>>
  PROVE  QuietInv'
  <1>1. First \in Peers /\ p0 # First
    <2>1. First \in Peers
      BY FirstIs DEF IsFirst
    <2> QED BY <2>1 DEF QuietInv
  <1>2. \A p \in Peers \ {p0} : client'[p] = client[p]
    BY DEF IInv, TypeOK
  <1>3. \A r \in Slots : conn[r] # NoConn => conn[r].from \in Peers
    BY DEF IInv, TypeOK, Conn
  <1>4. \A r \in Slots : conn'[r] # NoConn =>
          /\ phase'[conn'[r].from] # "off"
          /\ conn'[r].cmd = "REGISTER" => conn'[r].to = First
          /\ conn'[r].cmd = "INFORM" => conn'[r].to # First
          /\ ~conn'[r].gone => client'[conn'[r].from].pc = "waiting"
    BY <1>2, <1>3 DEF QuietInv, ConnOK, Running
  <1>5. \A r, q \in Slots : Awaited(r)' /\ Awaited(q)' /\ conn'[r].from = conn'[q].from => r = q
    BY DEF QuietInv, OneEach, Awaited
  <1>6. \A p \in Peers \ {First} : phase'[p] # "off" => Registered(p)'
    <2>1. \A p \in Peers : client[p].pc \in {"register", "ended"} => client'[p].pc \in {"register", "ended"}
      BY <1>2
    <2> QED BY <2>1, RegisteredPrime DEF QuietInv, Registered, Running
  <1>7. \A p, q \in Addresses(network'[First]) : p # First /\ q # p => Learns(p, q)'
    <2>1. ASSUME NEW p \in Addresses(network[First]), NEW q \in Addresses(network[First]), p # First, q # p
          PROVE  Learns(p, q)'
      <3>1. Learns(p, q) /\ p \in Peers
        <4>1. network[First] \in Lists
          BY <1>1 DEF IInv, TypeOK, Lists
        <4> QED BY <2>1, <4>1, AddressesArePeers DEF QuietInv
      <3>2. Knows(p, q) => Knows(p, q)'
        <4>1. client[p].pc \in {"look", "ready"} \/ client'[p] = client[p]
          BY <1>2, <3>1
        <4> QED BY <4>1 DEF Knows, Told, Addresses
      <3> QED BY <3>1, <3>2, LearnsPrime DEF Learns
    <2> QED BY <2>1
  <1>8. client'[First].pc = "off" /\ (phase'[First] = "off" => network'[First] = << >>)
    BY <1>1, <1>2 DEF QuietInv, Running
  <1>9. \A p \in Addresses(network'[First]) : phase'[p] # "off"
    BY DEF QuietInv, Running
  <1> QED BY <1>4, <1>5, <1>6, <1>7, <1>8, <1>9, QuietPrime

LEMMA QuietNext ==
  ASSUME OneFirst
  PROVE  IInv /\ LoopInv /\ QuietInv /\ [Next]_vars => QuietInv'
  <1> SUFFICES ASSUME IInv, LoopInv, QuietInv, [Next]_vars, Good' PROVE QuietInv'
    BY DEF QuietInv
  <1>1. now \in Nat /\ aborted \in BOOLEAN
    BY NetworkAssumption DEF IInv, TypeOK
  <1>2. ASSUME NEW s \in Slots, Handler(s) PROVE QuietInv'
    BY <1>2, QuietHandler
  <1>4. ~Minute
    <2> SUFFICES ASSUME Minute PROVE FALSE
      OBVIOUS
    <2>1. now' = now + 1 /\ now' = 0
      BY DEF Minute, Good
    <2> QED BY <1>1, <2>1
  <1>5. CASE UNCHANGED vars
    <2>1. QuietInv' = QuietInv
      BY <1>5 DEF vars, QuietInv, Good, Running, ConnOK, OneEach, Awaited, Registered, Registering, Learns, Knows,
                  Tells, ReplyTells, LoopTells, InformTells, Told, Addresses
    <2> QED BY <2>1
  <1>6. ASSUME NEW p \in Peers, Start(p) \/ Serve(p) \/ Client(p) \/ Retrieve(p) PROVE QuietInv'
    <2>1. Good
      BY <1>6 DEF Good, Start, Serve, Client, Register, ReadReply, MergeNetwork, Look, Ask, Retrieve, Unchanged_Client
    <2>2. CASE Start(p) \/ Serve(p) \/ MergeNetwork(p)
      BY <2>1, <2>2, QuietProcess
    <2>3. CASE ReadReply(p)
      BY <2>1, <2>3, QuietReply
    <2>4. CASE Register(p)
      <3>1. client[p].pc = "register" /\ Connect(p, Contact[p], "REGISTER") /\ UNCHANGED <<phase, network>>
        BY <2>4 DEF Register, Unchanged_Client
      <3>2. First \in Peers /\ p # First /\ Contact[p] = First
        BY <2>1, <3>1, FirstIs DEF IsFirst, QuietInv
      <3> QED BY <2>1, <3>1, <3>2, QuietConnect
    <2>5. CASE Look(p) \/ Retrieve(p)
      <3>1. client[p].pc \in {"look", "ready"} /\ UNCHANGED <<phase, network, conn>>
        BY <2>5 DEF Look, Retrieve, Unchanged_Client
      <3>2. \E c : client' = [client EXCEPT ![p] = c]
        <4>1. Look(p) => client' = [client EXCEPT ![p] = [client[p] EXCEPT !.pc = "ready"]]
          BY DEF Look
        <4> QED BY <2>5, <4>1 DEF Retrieve
      <3> QED BY <2>1, <3>1, <3>2, QuietClient
    <2>6. CASE Ask(p)
      <3>1. client[p].pc = "ask" /\ Connect(p, Head(client[p].data), "RETREIVE") /\ UNCHANGED <<phase, network>>
        BY <2>6 DEF Ask, Unchanged_Client
      <3>2. client[p].data \in Seq(Peers) /\ client[p].data # << >>
        BY <3>1 DEF IInv, TypeOK, PeerOK
      <3>3. Head(client[p].data) \in Peers
        BY <3>2
      <3> QED BY <2>1, <3>1, <3>3, QuietConnect
    <2> QED BY <1>6, <2>2, <2>3, <2>4, <2>5, <2>6 DEF Client
  <1> QED BY <1>2, <1>4, <1>5, <1>6 DEF Next

\* When all is quiet, whoever is to learn of a peer has.
LEMMA QuietMeansKnown ==
  ASSUME OneFirst, IInv, QuietInv
  PROVE  QuietPeersKnowEachOther
  <1> SUFFICES ASSUME Quiet, Good, NEW p \in Peers, NEW q \in Peers, Running(p), Running(q)
               PROVE  q \in Addresses(network[p])
    BY DEF QuietPeersKnowEachOther, Good, Running
  <1>1. First \in Peers /\ (\A r \in Slots : conn[r] = NoConn)
        /\ \A r \in Peers : Running(r) => client[r].pc \in {"off", "ready"}
    BY FirstIs DEF IsFirst, Quiet, Open, FreeSlots, Running
  <1>2. \A r \in Peers : Running(r) => r \in Addresses(network[r])
    <2>1. ASSUME NEW r \in Peers, Running(r) PROVE r \in Addresses(network[r])
      <3>1. network[r] \in Lists /\ IsListOf(r, network[r])
        BY <2>1 DEF IInv, TypeOK, Lists, PeerOK, Running
      <3>2. 1 \in DOMAIN network[r] /\ network[r][1].addr = r
        BY <3>1 DEF IsListOf, Lists
      <3> QED BY <3>2 DEF Addresses
    <2> QED BY <2>1
  <1>3. \A r \in Peers \ {First} : Running(r) => r \in Addresses(network[First])
    BY <1>1 DEF QuietInv, Registered
  <1>4. \A r \in Addresses(network[First]) : Running(First)
    BY DEF QuietInv, Addresses
  <1>5. CASE p = q
    BY <1>2, <1>5
  <1>6. CASE p = First /\ q # p
    BY <1>3, <1>6
  <1>7. CASE p # First /\ q # p
    <2>1. p \in Addresses(network[First]) /\ q \in Addresses(network[First])
      BY <1>1, <1>2, <1>3, <1>4, <1>7
    <2>2. Learns(p, q)
      BY <1>7, <2>1 DEF QuietInv
    <2>3. Knows(p, q) /\ client[p].pc \in {"off", "ready"}
      BY <1>1, <2>2 DEF Learns
    <2> QED BY <2>3 DEF Knows
  <1> QED BY <1>5, <1>6, <1>7

\* Nobody is missed: in a network around one first peer, two peers may register
\* at the same time, one of them while the other is being announced or while it
\* still merges its answer; once all is quiet each knows the other, unless an
\* announcement was given up or a minute passed.
THEOREM NobodyIsMissed ==
  ASSUME OneFirst
  PROVE  Spec => []QuietPeersKnowEachOther
  <1>1. Init => QuietInv
    <2> SUFFICES ASSUME Init PROVE QuietInv
      OBVIOUS
    <2>1. First \in Peers
      BY FirstIs DEF IsFirst
    <2>2. /\ client[First].pc = "off" /\ network[First] = << >> /\ (\A s \in Slots : conn[s] = NoConn)
          /\ \A p \in Peers : phase[p] = "off"
      BY <2>1 DEF Init
    <2>3. Addresses(network[First]) = {}
      BY <2>2 DEF Addresses
    <2> QED BY <2>2, <2>3 DEF QuietInv, OneEach, Awaited, Running
  <1>2. IInv /\ LoopInv /\ QuietInv /\ [Next]_vars => QuietInv'
    BY QuietNext
  <1>3. IInv /\ QuietInv => QuietPeersKnowEachOther
    BY QuietMeansKnown
  <1> QED BY LoopInvariant, <1>1, <1>2, <1>3, PTL DEF Spec

-----------------------------------------------------------------------------
(* PeerRetrieve and PeerFetch                                              *)

\* The first k blocks of version v.
Part(v, k) == [i \in 1..k |-> <<v, i>>]

BlockType == (0..MaxVersion) \X (1..Blocks)

WritingTo(p) == to_server.pc = "write" /\ p = PathOf[to_server.name]

ClientOK ==
  /\ to_server \in [pc : {"input", "exchange", "receive", "unmark", "unmark_error", "open", "write", "ended"},
                 name : Names]
  /\ version \in 0..MaxVersion
  /\ to_server.pc = "receive" =>
       /\ DOMAIN all_blocks = 1..Blocks
       /\ \A i \in 1..Blocks : all_blocks[i] \in {None, <<version, i>>}
  /\ to_server.pc \in {"unmark", "open", "write"} => all_blocks = Part(version, Blocks)

\* What is at path p belongs to version v: it is whole, or the client writes it.
HoldsPart(p, v) ==
  \E k \in 0..Blocks :
    /\ file[p] = Part(v, k)
    /\ WritingTo(p) => v = version /\ k < Blocks
    /\ ~WritingTo(p) => k = Blocks

FilesOK ==
  /\ DOMAIN file = Paths
  /\ \A p \in Paths : \/ file[p] = Absent /\ ~WritingTo(p)
                      \/ \E v \in 0..version : HoldsPart(p, v)

\* A sequence of blocks as one reads them from a file that may change.
Ordered(d) ==
  /\ d \in Seq(BlockType)
  /\ Len(d) <= Blocks
  /\ \A i \in 1..Len(d) : d[i][2] = i
  /\ \A i, j \in 1..Len(d) : i < j => d[i][1] <= d[j][1]

\* No block has been read that is newer than what is on the disk.
ReadsOK(h) ==
  /\ Ordered(handler[h].data)
  /\ handler[h].pc \in {"exists", "check", "refuse", "open"} => handler[h].data = << >>
  /\ handler[h].pc \in {"check", "open", "read"} =>
       \E v \in 0..version :
         /\ HoldsPart(PathOf[handler[h].name], v)
         /\ \A i \in 1..Len(handler[h].data) : handler[h].data[i][1] <= v

HandlerType == [pc : {"exists", "check", "refuse", "open", "read", "reply", "apologise", "done"},
                name : Names, data : Seq(BlockType)]

HandlersOK ==
  /\ handler \in [Handlers -> HandlerType]
  /\ \A h \in Handlers : ReadsOK(h)

Reply_ == [status : {"OK", "BAD_REQUEST", "OTHER"}, data : Seq(BlockType)]
RepliesOK == reply \in [Handlers -> Seq(Reply_)]

FilesInv == ClientOK /\ FilesOK /\ HandlersOK /\ RepliesOK

-----------------------------------------------------------------------------
(* Facts about blocks *)

LEMMA PathsOfNames == \A n \in Names : PathOf[n] \in Paths
  BY DEF Paths

LEMMA PartIsSeq ==
  ASSUME NEW v \in 0..MaxVersion, NEW k \in 0..Blocks
  PROVE  /\ Part(v, k) \in Seq(BlockType)
         /\ Len(Part(v, k)) = k
         /\ DOMAIN Part(v, k) = 1..k
  BY RetrieveAssumption DEF Part, BlockType

LEMMA NextBlock ==
  ASSUME NEW v \in 0..MaxVersion, NEW k \in 0..(Blocks - 1)
  PROVE  Append(Part(v, k), Part(v, Blocks)[k + 1]) = Part(v, k + 1)
  <1>1. k \in 0..Blocks /\ k + 1 \in 1..Blocks
    BY RetrieveAssumption
  <1>2. Part(v, Blocks)[k + 1] = <<v, k + 1>>
    BY <1>1 DEF Part
  <1>3. Part(v, k) \in Seq(BlockType) /\ Len(Part(v, k)) = k
    BY <1>1, PartIsSeq
  <1>4. <<v, k + 1>> \in BlockType
    BY <1>1 DEF BlockType
  <1>5. Append(Part(v, k), <<v, k + 1>>) = Part(v, k + 1)
    BY <1>1, <1>3, <1>4 DEF Part
  <1>6. QED
    BY <1>2, <1>5

\* A file that is whole, or not there, or being written.
LEMMA WholeIsPart == \A v : Whole(v) = Part(v, Blocks)
  BY DEF Whole, Part

-----------------------------------------------------------------------------
(* The invariant holds at first, and the client keeps it. *)

LEMMA FilesInitially == FilesInit /\ Handlers # {} => FilesInv
  <1> SUFFICES ASSUME FilesInit, Handlers # {} PROVE FilesInv
    OBVIOUS
  <1> USE RetrieveAssumption DEF FilesInit
  <1>1. ClientOK
    <2>1. PICK h \in Handlers : handler[h].name \in Names
      OBVIOUS
    <2>2. (CHOOSE n \in Names : TRUE) \in Names
      BY <2>1
    <2> QED BY <2>2 DEF ClientOK
  <1>2. ASSUME NEW p \in Paths, file[p] # Absent PROVE HoldsPart(p, 0)
    <2>1. file[p] = Part(0, Blocks)
      BY <1>2, WholeIsPart
    <2> QED BY <2>1 DEF HoldsPart, WritingTo
  <1>3. FilesOK
    BY <1>2 DEF FilesOK, WritingTo
  <1>4. HandlersOK
    <2>1. << >> \in Seq(BlockType) /\ Len(<< >>) = 0
      OBVIOUS
    <2>2. ASSUME NEW h \in Handlers PROVE ReadsOK(h)
      <3>1. handler[h].data = << >> /\ handler[h].pc = "exists"
        OBVIOUS
      <3> QED BY <2>1, <3>1 DEF ReadsOK, Ordered
    <2>3. ASSUME NEW h \in Handlers PROVE handler[h] \in HandlerType
      <3>1. handler[h] \in [pc : {"exists"}, name : Names, data : {<< >>}]
        OBVIOUS
      <3> QED BY <2>1, <3>1 DEF HandlerType
    <2> QED BY <2>2, <2>3 DEF HandlersOK
  <1>5. RepliesOK
    BY DEF RepliesOK
  <1> QED BY <1>1, <1>3, <1>4, <1>5 DEF FilesInv

\* What is at a path is only replaced by what is as new.
NothingGetsOlder ==
  \A p \in Paths, v \in 0..version :
    HoldsPart(p, v) => \E w \in 0..version' : v <= w /\ HoldsPart(p, w)'

\* Files that are not there appear only as the client writes them.
AbsentStay ==
  \A p \in Paths : file[p] = Absent /\ ~WritingTo(p) =>
    \/ file'[p] = Absent /\ ~WritingTo(p)'
    \/ \E v \in 0..version' : HoldsPart(p, v)'

LEMMA ToServerKeeps ==
  ASSUME FilesInv, ClientOK', DOMAIN file' = Paths, NothingGetsOlder, AbsentStay,
         UNCHANGED <<handler, reply>>
  PROVE  FilesInv'
  <1>1. FilesOK'
    <2> SUFFICES ASSUME NEW p \in Paths
                 PROVE \/ file'[p] = Absent /\ ~WritingTo(p)'
                       \/ \E v \in 0..version' : HoldsPart(p, v)'
      BY DEF FilesOK
    <2>1. \/ file[p] = Absent /\ ~WritingTo(p)
          \/ \E v \in 0..version : HoldsPart(p, v)
      BY DEF FilesInv, FilesOK
    <2> QED BY <2>1 DEF NothingGetsOlder, AbsentStay
  <1>2. HandlersOK'
    <2>1. ASSUME NEW h \in Handlers PROVE ReadsOK(h)'
      <3>1. ReadsOK(h) /\ handler[h].name \in Names
        BY DEF FilesInv, HandlersOK, HandlerType
      <3>2. Ordered(handler[h].data)' /\ Ordered(handler[h].data)
        BY <3>1 DEF ReadsOK, Ordered
      <3>3. CASE handler[h].pc \in {"check", "open", "read"}
        <4>1. PICK v \in 0..version :
                 /\ HoldsPart(PathOf[handler[h].name], v)
                 /\ \A i \in 1..Len(handler[h].data) : handler[h].data[i][1] <= v
          BY <3>1, <3>3 DEF ReadsOK
        <4>2. PICK w \in 0..version' : v <= w /\ HoldsPart(PathOf[handler[h].name], w)'
          BY <3>1, <4>1, PathsOfNames DEF NothingGetsOlder
        <4>3. \A i \in 1..Len(handler[h].data) : handler[h].data[i][1] <= w
          <5>1. ASSUME NEW i \in 1..Len(handler[h].data) PROVE handler[h].data[i][1] \in Int
            <6>1. handler[h].data[i] \in BlockType
              BY <3>2 DEF Ordered
            <6> QED BY <6>1 DEF BlockType
          <5>2. v \in Int /\ w \in Int
            OBVIOUS
          <5> QED BY <4>1, <4>2, <5>1, <5>2
        <4> QED BY <3>1, <3>2, <4>2, <4>3 DEF ReadsOK
      <3> QED BY <3>1, <3>2, <3>3 DEF ReadsOK
    <2> QED BY <2>1 DEF FilesInv, HandlersOK
  <1> QED BY <1>1, <1>2 DEF FilesInv, RepliesOK

\* Steps of the client that leave the files alone and neither begin nor end writing.
LEMMA QuietKeeps ==
  ASSUME FilesInv, ClientOK', UNCHANGED <<file, handler, reply>>,
         to_server.pc # "write", to_server'.pc # "write", version' >= version
  PROVE  FilesInv'
  <1>1. version \in Nat /\ version' \in Nat
    BY DEF FilesInv, ClientOK
  <1>2. \A p : ~WritingTo(p) /\ ~WritingTo(p)'
    BY DEF WritingTo
  <1>3. \A p, v : HoldsPart(p, v) => HoldsPart(p, v)'
    BY <1>2 DEF HoldsPart
  <1>4. NothingGetsOlder
    BY <1>1, <1>3 DEF NothingGetsOlder
  <1>5. AbsentStay
    BY <1>2 DEF AbsentStay
  <1> QED BY <1>4, <1>5, ToServerKeeps DEF FilesInv, FilesOK

LEMMA MarkKeeps == ASSUME FilesInv, Mark PROVE FilesInv'
  <1>1. ClientOK' /\ version' >= version /\ to_server.pc # "write" /\ to_server'.pc # "write"
    BY RetrieveAssumption DEF FilesInv, ClientOK, Mark
  <1> QED BY <1>1, QuietKeeps DEF Mark, UnchangedByClient

LEMMA SendRequestKeeps == ASSUME FilesInv, SendRequest PROVE FilesInv'
  <1>1. ClientOK' /\ version' >= version /\ to_server.pc # "write" /\ to_server'.pc # "write"
    <2>1. to_server.pc = "exchange" /\ version' = version
      BY DEF SendRequest, ToServerGoes
    <2>2. \/ to_server' = [to_server EXCEPT !.pc = "receive"] /\ all_blocks' = [i \in 1..Blocks |-> None]
          \/ to_server' = [to_server EXCEPT !.pc = "ended"]
      BY DEF SendRequest, ToServerGoes
    <2>3. CASE to_server' = [to_server EXCEPT !.pc = "receive"] /\ all_blocks' = [i \in 1..Blocks |-> None]
      <3>1. DOMAIN all_blocks' = 1..Blocks /\ \A i \in 1..Blocks : all_blocks'[i] = None
        BY <2>3
      <3> QED BY <2>1, <2>3, <3>1 DEF FilesInv, ClientOK
    <2>4. CASE to_server' = [to_server EXCEPT !.pc = "ended"]
      BY <2>1, <2>4 DEF FilesInv, ClientOK
    <2> QED BY <2>2, <2>3, <2>4
  <1> QED BY <1>1, QuietKeeps DEF SendRequest, UnchangedByClient

LEMMA ReceiveBlockKeeps == ASSUME FilesInv, ReceiveBlock PROVE FilesInv'
  <1>1. PICK i \in 1..Blocks : all_blocks' = [all_blocks EXCEPT ![i] = <<version, i>>]
    BY DEF FilesInv, ClientOK, ReceiveBlock, Placed
  <1>2. to_server.pc = "receive" /\ version' = version /\ DOMAIN all_blocks = 1..Blocks
    BY DEF FilesInv, ClientOK, ReceiveBlock
  <1>3. DOMAIN all_blocks' = 1..Blocks /\ \A k \in 1..Blocks : all_blocks'[k] \in {None, <<version, k>>}
    BY <1>1, <1>2 DEF FilesInv, ClientOK
  <1>4. to_server' = [to_server EXCEPT !.pc = "unmark"] => all_blocks' = Part(version, Blocks)
    <2>1. CASE \A k \in 1..Blocks : all_blocks'[k] # None
      BY <1>1, <1>3, <2>1 DEF Part
    <2>2. CASE ~ \A k \in 1..Blocks : all_blocks'[k] # None
      BY <1>2, <2>2 DEF ReceiveBlock, FilesInv, ClientOK
    <2> QED BY <2>1, <2>2
  <1>5. ClientOK' /\ version' >= version /\ to_server.pc # "write" /\ to_server'.pc # "write"
    BY <1>2, <1>3, <1>4 DEF FilesInv, ClientOK, ReceiveBlock
  <1> QED BY <1>5, QuietKeeps DEF ReceiveBlock, UnchangedByClient

LEMMA OtherQuietStepsKeep == ASSUME FilesInv, ReceiveFails \/ Unmark PROVE FilesInv'
  <1>1. ClientOK' /\ version' >= version /\ to_server.pc # "write" /\ to_server'.pc # "write"
    BY DEF FilesInv, ClientOK, ReceiveFails, Unmark, ToServerGoes
  <1> QED BY <1>1, QuietKeeps DEF ReceiveFails, Unmark, UnchangedByClient

\* A file that the client truncates or writes counts as one of its newest version.
LEMMA OpenForWritingKeeps == ASSUME FilesInv, OpenForWriting PROVE FilesInv'
  <1> DEFINE q == PathOf[to_server.name]
  <1>1. /\ to_server.pc = "open" /\ to_server'.pc = "write" /\ to_server'.name = to_server.name
        /\ version' = version /\ version \in 0..MaxVersion /\ version \in 0..version
        /\ file' = [file EXCEPT ![q] = << >>] /\ q \in Paths /\ DOMAIN file = Paths
    BY PathsOfNames DEF FilesInv, ClientOK, FilesOK, OpenForWriting, ToServerGoes
  <1>2. ClientOK'
    BY DEF FilesInv, ClientOK, OpenForWriting, ToServerGoes
  <1>3. HoldsPart(q, version)'
    <2>1. file'[q] = Part(version, 0) /\ 0 \in 0..Blocks /\ 0 < Blocks
      BY <1>1, RetrieveAssumption DEF Part
    <2> QED BY <1>1, <2>1 DEF HoldsPart, WritingTo
  <1>4. ASSUME NEW p \in Paths, p # q
        PROVE ~WritingTo(p) /\ ~WritingTo(p)' /\ file'[p] = file[p]
    BY <1>1, <1>4 DEF WritingTo
  <1>5. NothingGetsOlder
    <2> SUFFICES ASSUME NEW p \in Paths, NEW v \in 0..version, HoldsPart(p, v)
                 PROVE \E w \in 0..version' : v <= w /\ HoldsPart(p, w)'
      BY DEF NothingGetsOlder
    <2>1. CASE p = q
      BY <1>1, <1>3, <2>1
    <2>2. CASE p # q
      BY <1>1, <1>4, <2>2 DEF HoldsPart
    <2> QED BY <2>1, <2>2
  <1>6. AbsentStay
    BY <1>1, <1>3, <1>4 DEF AbsentStay
  <1> QED BY <1>1, <1>2, <1>5, <1>6, ToServerKeeps DEF OpenForWriting, UnchangedByClient

LEMMA WriteBlockKeeps == ASSUME FilesInv, WriteBlock PROVE FilesInv'
  <1> DEFINE q == PathOf[to_server.name]
  <1>1. /\ to_server.pc = "write" /\ to_server'.name = to_server.name
        /\ version' = version /\ version \in 0..MaxVersion /\ version \in 0..version
        /\ all_blocks = Part(version, Blocks) /\ q \in Paths /\ DOMAIN file = Paths
    BY PathsOfNames DEF FilesInv, ClientOK, FilesOK, WriteBlock
  <1>2. WritingTo(q)
    BY <1>1 DEF WritingTo
  <1>3. PICK k \in 0..(Blocks - 1) : file[q] = Part(version, k)
    BY <1>1, <1>2, RetrieveAssumption DEF FilesInv, FilesOK, HoldsPart
  <1>4. Len(file[q]) = k
    <2>1. version \in 0..MaxVersion /\ k \in 0..Blocks
      BY <1>1, <1>3, RetrieveAssumption
    <2>2. Len(Part(version, k)) = k
      BY <2>1, PartIsSeq, Zenon
    <2> QED BY <1>3, <2>2, Zenon
  <1>5. file' = [file EXCEPT ![q] = Part(version, k + 1)]
    <2>1. file' = [file EXCEPT ![q] = Append(@, all_blocks[Len(@) + 1])]
      BY DEF WriteBlock
    <2>2. Append(file[q], all_blocks[Len(file[q]) + 1]) = Part(version, k + 1)
      BY <1>1, <1>3, <1>4, NextBlock
    <2> QED BY <2>1, <2>2
  <1>6. k + 1 \in 0..Blocks /\ Len(file'[q]) = k + 1
    BY <1>1, <1>5, PartIsSeq, RetrieveAssumption
  <1>7. to_server'.pc = IF k + 1 = Blocks THEN "input" ELSE "write"
    BY <1>1, <1>6 DEF WriteBlock, FilesInv, ClientOK
  <1>8. ClientOK'
    BY <1>1 DEF FilesInv, ClientOK, WriteBlock
  <1>9. HoldsPart(q, version)'
    <2>1. q' = q /\ file'[q] = Part(version, k + 1) /\ (k + 1 # Blocks => k + 1 < Blocks)
      BY <1>1, <1>5, RetrieveAssumption
    <2>2. WritingTo(q)' <=> k + 1 # Blocks
      BY <1>1, <1>7, <2>1 DEF WritingTo
    <2> QED BY <1>1, <1>6, <2>1, <2>2 DEF HoldsPart
  <1>10. ASSUME NEW p \in Paths, p # q
         PROVE ~WritingTo(p) /\ ~WritingTo(p)' /\ file'[p] = file[p]
    BY <1>1, <1>5, <1>10 DEF WritingTo
  <1>11. NothingGetsOlder
    <2> SUFFICES ASSUME NEW p \in Paths, NEW v \in 0..version, HoldsPart(p, v)
                 PROVE \E w \in 0..version' : v <= w /\ HoldsPart(p, w)'
      BY DEF NothingGetsOlder
    <2>1. CASE p = q
      BY <1>1, <1>9, <2>1
    <2>2. CASE p # q
      BY <1>1, <1>10, <2>2 DEF HoldsPart
    <2> QED BY <2>1, <2>2
  <1>12. AbsentStay
    BY <1>2, <1>10 DEF AbsentStay
  <1> QED BY <1>1, <1>5, <1>8, <1>11, <1>12, ToServerKeeps DEF WriteBlock, UnchangedByClient
-----------------------------------------------------------------------------
(* The handlers keep it. *)

\* A handler may do as it likes with the mutex and its replies; what it has read
\* is what matters.
HandlerStep(h) ==
  /\ handler' = [handler EXCEPT ![h] = handler'[h]] /\ handler'[h] \in HandlerType
  /\ ReadsOK(h)' /\ RepliesOK'
  /\ UNCHANGED <<file, to_server, all_blocks, version>>

LEMMA HandleRequestKeeps ==
  ASSUME FilesInv, NEW h \in Handlers, HandlerStep(h)
  PROVE  FilesInv'
  <1> USE DEF HandlerStep
  <1>1. ClientOK'
    BY DEF FilesInv, ClientOK
  <1>2. \A p \in Paths, v \in 0..version : HoldsPart(p, v)' <=> HoldsPart(p, v)
    BY DEF HoldsPart, WritingTo
  <1>3. FilesOK'
    BY <1>2 DEF FilesInv, FilesOK, WritingTo
  <1>5. handler' \in [Handlers -> HandlerType]
    BY DEF FilesInv, HandlersOK
  <1>6. ASSUME NEW g \in Handlers, g # h PROVE ReadsOK(g)'
    <2>1. handler'[g] = handler[g] /\ ReadsOK(g) /\ handler[g].name \in Names
      BY <1>6 DEF FilesInv, HandlersOK, HandlerType
    <2> QED BY <1>2, <2>1, PathsOfNames DEF ReadsOK, Ordered
  <1>7. HandlersOK'
    BY <1>5, <1>6 DEF HandlersOK
  <1> QED BY <1>1, <1>3, <1>7 DEF FilesInv

\* Sending a reply with data that is well typed.
LEMMA SendLemma ==
  ASSUME FilesInv, NEW h \in Handlers, NEW next, NEW status \in {"OK", "BAD_REQUEST", "OTHER"},
         NEW data \in Seq(BlockType),
         SendReply(h, status, data, next) \/ SendReplyRaises(h, next)
  PROVE  RepliesOK' /\ HandlerGoes(h, next)
  <1>1. CASE SendReply(h, status, data, next)
    <2>1. [status |-> status, data |-> data] \in Reply_
      BY DEF Reply_
    <2> QED BY <1>1, <2>1 DEF SendReply, FilesInv, RepliesOK
  <1>2. CASE SendReplyRaises(h, next)
    BY <1>2 DEF SendReplyRaises, FilesInv, RepliesOK
  <1> QED BY <1>1, <1>2

\* A handler that goes on without reading, to where what it has read matters no
\* more than before.
LEMMA GotoKeeps ==
  ASSUME FilesInv, NEW h \in Handlers, NEW next,
         next \in {"exists", "check", "refuse", "open", "read", "reply", "apologise", "done"},
         HandlerGoes(h, next), RepliesOK', UNCHANGED <<file, to_server, all_blocks, version>>,
         next \in {"exists", "check", "refuse", "open"} => handler[h].data = << >>,
         next \in {"check", "open", "read"} =>
           \E v \in 0..version :
             /\ HoldsPart(PathOf[handler[h].name], v)
             /\ \A i \in 1..Len(handler[h].data) : handler[h].data[i][1] <= v
  PROVE  FilesInv'
  <1>1. handler[h] \in HandlerType /\ ReadsOK(h)
    BY DEF FilesInv, HandlersOK
  <1>2. handler' = [handler EXCEPT ![h] = [pc |-> next, name |-> handler[h].name, data |-> handler[h].data]]
    <2>1. [handler[h] EXCEPT !.pc = next] = [pc |-> next, name |-> handler[h].name, data |-> handler[h].data]
      BY <1>1 DEF HandlerType
    <2>2. handler' = [handler EXCEPT ![h] = [handler[h] EXCEPT !.pc = next]]
      BY DEF HandlerGoes
    <2> QED BY <2>1, <2>2
  <1>3. handler'[h] = [pc |-> next, name |-> handler[h].name, data |-> handler[h].data]
    BY <1>2 DEF FilesInv, HandlersOK
  <1>4. \A p \in Paths, v \in 0..version : HoldsPart(p, v)' <=> HoldsPart(p, v)
    BY DEF HoldsPart, WritingTo
  <1>5. ReadsOK(h)'
    BY <1>1, <1>3, <1>4, PathsOfNames DEF ReadsOK, Ordered, HandlerType
  <1>6. handler'[h] \in HandlerType /\ handler' = [handler EXCEPT ![h] = handler'[h]]
    <2>1. handler' = [handler EXCEPT ![h] = handler'[h]]
      BY <1>2, <1>3
    <2>2. handler'[h] \in HandlerType
      BY <1>1, <1>3 DEF HandlerType
    <2> QED BY <2>1, <2>2
  <1>7. HandlerStep(h)
    BY <1>5, <1>6 DEF HandlerStep
  <1> QED BY <1>7, HandleRequestKeeps

LEMMA CheckExistsKeeps == ASSUME FilesInv, NEW h \in Handlers, CheckExists(h) PROVE FilesInv'
  <1> DEFINE q == PathOf[handler[h].name]
  <1>1. /\ handler[h].pc = "exists" /\ handler[h].data = << >> /\ q \in Paths
        /\ UNCHANGED <<file, to_server, all_blocks, version>>
    BY PathsOfNames DEF FilesInv, HandlersOK, HandlerType, ReadsOK, CheckExists, In, UnchangedByHandler
  <1>2. CASE file[q] = Absent
    <2>1. << >> \in Seq(BlockType)
      OBVIOUS
    <2>2. PICK next \in {"done", "apologise"} :
             SendReply(h, "BAD_REQUEST", << >>, next) \/ SendReplyRaises(h, next)
      BY <1>2 DEF CheckExists
    <2>3. RepliesOK' /\ HandlerGoes(h, next)
      BY <2>1, <2>2, SendLemma
    <2> QED BY <1>1, <2>3, GotoKeeps
  <1>3. CASE file[q] # Absent
    <2>1. \E v \in 0..version : HoldsPart(q, v)
      BY <1>1, <1>3 DEF FilesInv, FilesOK
    <2>2. HandlerGoes(h, "check") /\ RepliesOK'
      BY <1>3 DEF CheckExists, FilesInv, RepliesOK
    <2>3. Len(handler[h].data) = 0
      BY <1>1
    <2> QED BY <1>1, <2>1, <2>2, <2>3, GotoKeeps
  <1> QED BY <1>2, <1>3

LEMMA CheckNotRetrievingKeeps == ASSUME FilesInv, NEW h \in Handlers, CheckNotRetrieving(h) PROVE FilesInv'
  <1>1. /\ handler[h].pc = "check" /\ handler[h].data = << >> /\ ReadsOK(h) /\ RepliesOK'
        /\ UNCHANGED <<file, to_server, all_blocks, version>>
        /\ \E next \in {"refuse", "open"} : HandlerGoes(h, next)
    BY DEF FilesInv, HandlersOK, ReadsOK, CheckNotRetrieving, In, UnchangedByHandler, RepliesOK
  <1> QED BY <1>1, GotoKeeps DEF ReadsOK

LEMMA OpenForReadingKeeps == ASSUME FilesInv, NEW h \in Handlers, OpenForReading(h) PROVE FilesInv'
  <1>1. /\ handler[h].pc = "open" /\ ReadsOK(h) /\ RepliesOK'
        /\ UNCHANGED <<file, to_server, all_blocks, version>>
        /\ HandlerGoes(h, "read")
    BY DEF FilesInv, HandlersOK, ReadsOK, OpenForReading, In, UnchangedByHandler, RepliesOK
  <1> QED BY <1>1, GotoKeeps DEF ReadsOK

LEMMA AnswersKeep ==
  ASSUME FilesInv, NEW h \in Handlers, RefuseFile(h) \/ Reply(h) \/ ApologiseForError(h)
  PROVE  FilesInv'
  <1>1. UNCHANGED <<file, to_server, all_blocks, version>>
    BY DEF RefuseFile, Reply, ApologiseForError, UnchangedByHandler
  <1>2. << >> \in Seq(BlockType) /\ handler[h].data \in Seq(BlockType)
    BY DEF FilesInv, HandlersOK, HandlerType
  <1>3. \E next \in {"done", "apologise"}, status \in {"OK", "BAD_REQUEST", "OTHER"},
           data \in {<< >>, handler[h].data} :
             SendReply(h, status, data, next) \/ SendReplyRaises(h, next)
    BY DEF RefuseFile, Reply, ApologiseForError
  <1>4. \E next \in {"done", "apologise"} : RepliesOK' /\ HandlerGoes(h, next)
    BY <1>2, <1>3, SendLemma
  <1> QED BY <1>1, <1>4, GotoKeeps

\* The next block is in its place, and no older than those before it.
LEMMA ReadBlockKeeps == ASSUME FilesInv, NEW h \in Handlers, ReadBlock(h) PROVE FilesInv'
  <1> DEFINE d == handler[h].data
             q == PathOf[handler[h].name]
             at == Len(d) + 1
  <1>1. /\ handler[h].pc = "read" /\ ReadsOK(h) /\ RepliesOK' /\ q \in Paths
        /\ UNCHANGED <<file, to_server, all_blocks, version>>
        /\ handler[h] = [pc |-> "read", name |-> handler[h].name, data |-> d]
    BY PathsOfNames DEF FilesInv, HandlersOK, HandlerType, ReadBlock, In, UnchangedByHandler, RepliesOK
  <1>2. Ordered(d) /\ Len(d) \in Nat
    BY <1>1 DEF ReadsOK, Ordered
  <1>3. PICK v \in 0..version : HoldsPart(q, v) /\ \A i \in 1..Len(d) : d[i][1] <= v
    BY <1>1 DEF ReadsOK
  <1>4. CASE at \in DOMAIN file[q]
    <2>1. PICK k \in 0..Blocks : file[q] = Part(v, k)
      BY <1>3 DEF HoldsPart
    <2>2. v \in 0..MaxVersion /\ v \in Int
      BY RetrieveAssumption DEF FilesInv, ClientOK
    <2>3. at \in 1..k /\ file[q][at] = <<v, at>> /\ at <= Blocks
      BY <1>2, <1>4, <2>1, <2>2, PartIsSeq, RetrieveAssumption DEF Part
    <2> DEFINE e == Append(d, file[q][at])
    <2>4. <<v, at>> \in BlockType
      BY <1>2, <2>2, <2>3 DEF BlockType
    <2>5. /\ e \in Seq(BlockType) /\ Len(e) = Len(d) + 1 /\ e[at] = <<v, at>>
          /\ \A i \in 1..Len(d) : e[i] = d[i]
      BY <1>2, <2>3, <2>4, SMTT(30) DEF Ordered
    <2> HIDE DEF e
    <2>6. \A i \in 1..Len(e) : e[i][2] = i /\ e[i][1] <= v
      <3>1. \A i \in 1..Len(e) : i = at \/ i \in 1..Len(d)
        BY <1>2, <2>5
      <3>2. v <= v /\ e[at] = <<v, at>>
        BY <2>2, <2>5
      <3>3. \A i \in 1..Len(d) : e[i][2] = i /\ e[i][1] <= v
        BY <1>2, <1>3, <2>5 DEF Ordered
      <3> QED BY <3>1, <3>2, <3>3
    <2>7. \A i, j \in 1..Len(e) : i < j => e[i][1] <= e[j][1]
      <3>1. \A i, j \in 1..Len(e) : i < j => i \in 1..Len(d) /\ (j = at \/ j \in 1..Len(d))
        BY <1>2, <2>5
      <3>2. \A i \in 1..Len(d) : e[i][1] <= v
        BY <1>3, <2>5
      <3>3. \A i, j \in 1..Len(d) : i < j => e[i][1] <= e[j][1]
        BY <1>2, <2>5 DEF Ordered
      <3>4. e[at][1] = v
        BY <2>5
      <3> QED BY <3>1, <3>2, <3>3, <3>4
    <2>8. Ordered(e)
      BY <2>3, <2>5, <2>6, <2>7 DEF Ordered
    <2>9. handler' = [handler EXCEPT ![h] = [pc |-> "read", name |-> handler[h].name, data |-> e]]
      <3>1. handler' = [handler EXCEPT ![h] = [handler[h] EXCEPT !.data = e]]
        BY <1>1, <1>4 DEF ReadBlock, e
      <3>2. [handler[h] EXCEPT !.data = e] = [pc |-> "read", name |-> handler[h].name, data |-> e]
        BY <1>1
      <3> QED BY <3>1, <3>2
    <2>10. handler'[h] = [pc |-> "read", name |-> handler[h].name, data |-> e]
      BY <2>9 DEF FilesInv, HandlersOK
    <2>11. HoldsPart(q, v)'
      BY <1>1, <1>3, <2>10 DEF HoldsPart, WritingTo
    <2>12. ReadsOK(h)'
      BY <1>1, <2>6, <2>8, <2>10, <2>11, SMTT(30) DEF ReadsOK, Ordered
    <2>13. handler'[h] \in HandlerType /\ handler' = [handler EXCEPT ![h] = handler'[h]]
      BY <2>5, <2>9, <2>10 DEF FilesInv, HandlersOK, HandlerType
    <2>14. HandlerStep(h)
      BY <1>1, <2>12, <2>13 DEF HandlerStep
    <2> QED BY <2>14, HandleRequestKeeps
  <1>5. CASE at \notin DOMAIN file[q]
    <2>1. HandlerGoes(h, "reply")
      BY <1>5 DEF ReadBlock, HandlerGoes
    <2> QED BY <1>1, <2>1, GotoKeeps
  <1> QED BY <1>4, <1>5

LEMMA VanishKeeps == ASSUME FilesInv, NEW h \in Handlers, Vanish(h) PROVE FilesInv'
  <1>1. UNCHANGED <<file, to_server, all_blocks, version, handler, reply>>
    BY DEF Vanish, UnchangedByHandler
  <1>2. \A p \in Paths, v \in 0..version : HoldsPart(p, v)' <=> HoldsPart(p, v)
    BY <1>1 DEF HoldsPart, WritingTo
  <1>3. ClientOK' /\ FilesOK' /\ RepliesOK'
    BY <1>1, <1>2 DEF FilesInv, ClientOK, FilesOK, RepliesOK, WritingTo
  <1>4. HandlersOK'
    BY <1>1, <1>2, PathsOfNames DEF FilesInv, HandlersOK, HandlerType, ReadsOK, Ordered
  <1> QED BY <1>3, <1>4 DEF FilesInv

LEMMA FilesNextKeeps == FilesInv /\ [FilesNext]_filesVars => FilesInv'
  <1> SUFFICES ASSUME FilesInv, [FilesNext]_filesVars PROVE FilesInv'
    OBVIOUS
  <1>1. CASE Mark
    BY <1>1, MarkKeeps
  <1>2. CASE ToServer
    BY <1>2, SendRequestKeeps, ReceiveBlockKeeps, OtherQuietStepsKeep, OpenForWritingKeeps, WriteBlockKeeps
    DEF ToServer
  <1>3. ASSUME NEW h \in Handlers, HandleRequest(h) PROVE FilesInv'
    BY <1>3, CheckExistsKeeps, CheckNotRetrievingKeeps, AnswersKeep, OpenForReadingKeeps, ReadBlockKeeps
    DEF HandleRequest
  <1>4. ASSUME NEW h \in Handlers, Vanish(h) PROVE FilesInv'
    BY <1>4, VanishKeeps
  <1>5. CASE UNCHANGED filesVars
    <2>1. \A p \in Paths, v \in 0..version : HoldsPart(p, v)' <=> HoldsPart(p, v)
      BY <1>5 DEF HoldsPart, WritingTo, filesVars
    <2>2. ClientOK' /\ FilesOK' /\ RepliesOK'
      BY <1>5, <2>1 DEF FilesInv, ClientOK, FilesOK, RepliesOK, WritingTo, filesVars
    <2>3. HandlersOK'
      BY <1>5, <2>1, PathsOfNames DEF FilesInv, HandlersOK, HandlerType, ReadsOK, Ordered, filesVars
    <2> QED BY <2>2, <2>3 DEF FilesInv
  <1> QED BY <1>1, <1>2, <1>3, <1>4, <1>5 DEF FilesNext

-----------------------------------------------------------------------------
(* The peer in C *)

LEMMA MaxOfTwo ==
  ASSUME NEW a \in Int, NEW b \in Int
  PROVE  Max({a, b}) = IF a >= b THEN a ELSE b
  BY DEF Max

\* Answers are added, never taken back.
AnswerStays == reply[Asked] # << >> => reply'[Asked] # << >> /\ Answer' = Answer

LEMMA FirstStays ==
  ASSUME NEW S, NEW s \in Seq(S), NEW e \in S
  PROVE  Append(s, e) # << >> /\ (s # << >> => Append(s, e)[1] = s[1])
  <1>1. Len(Append(s, e)) = Len(s) + 1 /\ Len(s) \in Nat
    OBVIOUS
  <1>2. s # << >> => Append(s, e)[1] = s[1]
    OBVIOUS
  <1> QED BY <1>1, <1>2

LEMMA AnswersStay == ASSUME FilesInv, [FilesNext]_filesVars PROVE AnswerStays
  <1>1. CASE reply' = reply
    BY <1>1 DEF AnswerStays, Answer
  <1>2. ASSUME NEW h \in Handlers, NEW status \in {"OK", "BAD_REQUEST", "OTHER"},
               NEW data \in Seq(BlockType), NEW next, SendReply(h, status, data, next)
        PROVE  AnswerStays
    <2>1. reply[Asked] \in Seq(Reply_) /\ reply[h] \in Seq(Reply_) /\ [status |-> status, data |-> data] \in Reply_
      BY FetchAssumption DEF FilesInv, RepliesOK, Reply_
    <2>2. reply' = [reply EXCEPT ![h] = Append(@, [status |-> status, data |-> data])]
      BY <1>2 DEF SendReply
    <2>3. CASE h = Asked
      <3>1. reply'[Asked] = Append(reply[Asked], [status |-> status, data |-> data])
        BY <2>2, <2>3, FetchAssumption DEF FilesInv, RepliesOK
      <3> QED BY <2>1, <3>1, FirstStays DEF AnswerStays, Answer
    <2>4. CASE h # Asked
      BY <2>2, <2>4 DEF AnswerStays, Answer, FilesInv, RepliesOK
    <2> QED BY <2>3, <2>4
  <1>3. ASSUME NEW h \in Handlers, HandleRequest(h) PROVE AnswerStays
    <2>1. << >> \in Seq(BlockType) /\ handler[h].data \in Seq(BlockType)
      BY DEF FilesInv, HandlersOK, HandlerType
    <2>2. \/ reply' = reply
          \/ \E status \in {"OK", "BAD_REQUEST", "OTHER"}, next \in {"done", "apologise"},
                data \in {<< >>, handler[h].data} : SendReply(h, status, data, next)
      BY <1>3 DEF HandleRequest, CheckExists, CheckNotRetrieving, RefuseFile, OpenForReading, ReadBlock, Reply,
                  ApologiseForError, SendReplyRaises
    <2> QED BY <1>1, <1>2, <2>1, <2>2
  <1>4. ASSUME Mark \/ ToServer \/ (\E h \in Handlers : Vanish(h)) \/ UNCHANGED filesVars PROVE reply' = reply
    BY <1>4 DEF Mark, ToServer, SendRequest, ReceiveBlock, ReceiveFails, Unmark, OpenForWriting, WriteBlock,
                Vanish, UnchangedByClient, filesVars
  <1> QED BY <1>1, <1>3, <1>4 DEF FilesNext

Pairs == Int \X Int

\* Every block that has come is in its place, and the copy is no longer than it
\* was or the answer is.
Received ==
  LET d == Answer.data IN
    /\ reply[Asked] # << >>
    /\ left \subseteq 1..Max({1, Len(d)})
    /\ fetch.at # "block" => left = {}
    /\ \A i \in (1..Len(d)) \ left : i \in DOMAIN copy /\ copy[i] = d[i]
    /\ Len(copy) <= Max({fetch.old, Len(d)})

FetchInv ==
  /\ fetch \in [at : {"reply", "block", "check", "fetched", "mismatch", "given up"}, old : Nat]
  /\ copy \in Seq(Pairs)
  /\ fetch.at = "reply" => Len(copy) = fetch.old /\ left = {}
  /\ fetch.at \in {"block", "check", "fetched", "mismatch"} => Received
  /\ OnlyLongerCopiesMismatch

LEMMA AnswerIsTyped ==
  ASSUME FilesInv, reply[Asked] # << >>
  PROVE  Answer.data \in Seq(Pairs) /\ Len(Answer.data) \in Nat
  <1>1. reply[Asked] \in Seq(Reply_) /\ Answer \in Reply_
    BY FetchAssumption DEF FilesInv, RepliesOK, Answer
  <1>2. BlockType \subseteq Pairs
    BY RetrieveAssumption DEF BlockType, Pairs
  <1> QED BY <1>1, <1>2 DEF Reply_

LEMMA FetchBegins == FetchInit => FetchInv
  <1> SUFFICES ASSUME FetchInit PROVE FetchInv
    OBVIOUS
  <1>1. PICK n \in OldLengths : fetch = [at |-> "reply", old |-> n] /\ copy = [i \in 1..n |-> <<0, i>>]
    BY DEF FetchInit
  <1>2. n \in Nat
    BY FetchAssumption
  <1>3. copy \in Seq(Pairs) /\ Len(copy) = n
    BY <1>1, <1>2 DEF Pairs
  <1> QED BY <1>1, <1>2, <1>3 DEF FetchInv, FetchInit, OnlyLongerCopiesMismatch

LEMMA FetchSurvivesOthers ==
  ASSUME FilesInv, FetchInv, [FilesNext]_filesVars, UNCHANGED fetchVars
  PROVE  FetchInv'
  <1>1. AnswerStays
    BY AnswersStay
  <1>2. fetch' = fetch /\ left' = left /\ copy' = copy
    BY DEF fetchVars
  <1>3. CASE fetch.at \in {"block", "check", "fetched", "mismatch"}
    <2>1. Received /\ reply'[Asked] # << >> /\ Answer' = Answer
      BY <1>1, <1>3 DEF FetchInv, AnswerStays, Received
    <2>2. Received'
      BY <1>2, <2>1 DEF Received
    <2> QED BY <1>2, <1>3, <2>1, <2>2 DEF FetchInv, OnlyLongerCopiesMismatch
  <1>4. CASE fetch.at \notin {"block", "check", "fetched", "mismatch"}
    BY <1>2, <1>4 DEF FetchInv, OnlyLongerCopiesMismatch
  <1> QED BY <1>3, <1>4

\* A block written in its place leaves the others alone.
LEMMA InPlaceIs ==
  ASSUME NEW c \in Seq(Pairs), NEW i \in Nat \ {0}, NEW b \in Pairs
  PROVE  /\ InPlace(c, i, b) \in Seq(Pairs)
         /\ Len(InPlace(c, i, b)) = IF i >= Len(c) THEN i ELSE Len(c)
         /\ InPlace(c, i, b)[i] = b
         /\ \A k \in DOMAIN c : k # i => k \in DOMAIN InPlace(c, i, b) /\ InPlace(c, i, b)[k] = c[k]
         /\ i \in DOMAIN InPlace(c, i, b)
  <1> DEFINE m == Max({i, Len(c)})
             e == [k \in 1..m |-> IF k = i THEN b ELSE IF k \in DOMAIN c THEN c[k] ELSE Hole]
  <1>1. m = IF i >= Len(c) THEN i ELSE Len(c)
    <2>1. Len(c) \in Int /\ i \in Int
      OBVIOUS
    <2> QED BY <2>1, MaxOfTwo
  <1>2. m \in Nat /\ i \in 1..m /\ DOMAIN c = 1..Len(c) /\ 1..Len(c) \subseteq 1..m
    <2> HIDE DEF m
    <2>1. Len(c) \in Nat /\ DOMAIN c = 1..Len(c)
      OBVIOUS
    <2>2. CASE i >= Len(c)
      <3>1. m = i
        BY <1>1, <2>2
      <3> QED BY <2>1, <2>2, <3>1
    <2>3. CASE ~(i >= Len(c))
      <3>1. m = Len(c) /\ i < Len(c)
        BY <1>1, <2>1, <2>3
      <3> QED BY <2>1, <3>1
    <2> QED BY <2>2, <2>3
  <1>3. InPlace(c, i, b) = e
    BY DEF InPlace
  <1>4. \A k \in 1..m : e[k] \in Pairs
    BY <1>2 DEF Hole, Pairs
  <1>5. e[i] = b /\ \A k \in 1..Len(c) : k # i => e[k] = c[k]
    BY <1>2
  <1>6. DOMAIN e = 1..m
    OBVIOUS
  <1>7. e \in [1..m -> Pairs]
    BY <1>4
  <1> HIDE DEF m, e
  <1>8. e \in Seq(Pairs) /\ Len(e) = m
    BY <1>2, <1>6, <1>7
  <1> QED BY <1>1, <1>2, <1>3, <1>5, <1>6, <1>8

LEMMA FetchSteps ==
  ASSUME FilesInv, FetchInv, FetchNext, UNCHANGED filesVars
  PROVE  FetchInv'
  <1> DEFINE d == Answer.data
  <1>1. reply' = reply /\ Answer' = Answer
    BY DEF filesVars, Answer
  <1>2. CASE ReadFirstHeader
    <2>1. /\ reply[Asked] # << >> /\ fetch.at = "reply" /\ copy' = copy
          /\ fetch.old \in Nat /\ Len(copy) = fetch.old /\ d \in Seq(Pairs) /\ Len(d) \in Nat
      BY <1>2, AnswerIsTyped DEF ReadFirstHeader, FetchGoes, FetchInv
    <2>2. CASE FetchGoes("reply", "block") /\ left' = 1..Max({1, Len(d)})
      <3>1. fetch' = [fetch EXCEPT !.at = "block"] /\ fetch'.at = "block" /\ fetch'.old = fetch.old
        BY <2>2 DEF FetchGoes, FetchInv
      <3>2. Max({1, Len(d)}) >= Len(d) /\ Max({fetch.old, Len(d)}) >= fetch.old
        BY <2>1, MaxOfTwo
      <3>3. Max({1, Len(d)}) \in Int
        BY <2>1, MaxOfTwo
      <3>4. (1..Len(d)) \ left' = {}
        BY <2>1, <2>2, <3>2, <3>3
      <3>5. Received'
        BY <1>1, <2>1, <2>2, <3>1, <3>2, <3>4 DEF Received
      <3> QED BY <2>1, <3>1, <3>5 DEF FetchInv, OnlyLongerCopiesMismatch
    <2>3. CASE FetchGoes("reply", "given up")
      BY <2>1, <2>3 DEF FetchGoes, FetchInv, OnlyLongerCopiesMismatch
    <2> QED BY <1>2, <2>2, <2>3 DEF ReadFirstHeader
  <1>3. CASE ReadBlockOfAnswer
    <2>1. /\ fetch.at = "block" /\ Received /\ reply[Asked] # << >> /\ copy \in Seq(Pairs)
          /\ fetch.old \in Nat /\ d \in Seq(Pairs) /\ Len(d) \in Nat
      BY <1>3, AnswerIsTyped DEF ReadBlockOfAnswer, FetchInv, Received
    <2>2. PICK i \in left : /\ left' = left \ {i}
                            /\ copy' = IF i \in DOMAIN d THEN InPlace(copy, i, d[i]) ELSE copy
      BY <1>3 DEF ReadBlockOfAnswer
    <2>3. /\ fetch'.old = fetch.old /\ fetch'.at \in {"block", "check"}
          /\ fetch'.at = "check" => left' = {}
          /\ fetch' \in [at : {"reply", "block", "check", "fetched", "mismatch", "given up"}, old : Nat]
      BY <1>3 DEF ReadBlockOfAnswer, FetchInv
    <2>4. Max({1, Len(d)}) \in Int /\ Max({fetch.old, Len(d)}) \in Int /\ Max({fetch.old, Len(d)}) >= Len(d)
      BY <2>1, MaxOfTwo
    <2>5. i \in Nat \ {0} /\ DOMAIN d = 1..Len(d) /\ DOMAIN copy = 1..Len(copy)
      BY <2>1, <2>4 DEF Received
    <2>6. CASE i \in DOMAIN d
      <3> DEFINE b == d[i]
      <3>1. copy' = InPlace(copy, i, b) /\ b \in Pairs
        BY <2>1, <2>2, <2>6
      <3>2. /\ copy' \in Seq(Pairs) /\ copy'[i] = d[i] /\ i \in DOMAIN copy'
            /\ Len(copy') = IF i >= Len(copy) THEN i ELSE Len(copy)
            /\ \A k \in DOMAIN copy : k # i => k \in DOMAIN copy' /\ copy'[k] = copy[k]
        <4> HIDE DEF d, b
        <4>1. /\ InPlace(copy, i, b) \in Seq(Pairs) /\ InPlace(copy, i, b)[i] = b
              /\ i \in DOMAIN InPlace(copy, i, b)
              /\ Len(InPlace(copy, i, b)) = IF i >= Len(copy) THEN i ELSE Len(copy)
              /\ \A k \in DOMAIN copy : k # i => /\ k \in DOMAIN InPlace(copy, i, b)
                                               /\ InPlace(copy, i, b)[k] = copy[k]
          <5>1. copy \in Seq(Pairs) /\ i \in Nat \ {0} /\ b \in Pairs
            BY <2>1, <2>5, <3>1
          <5>2. /\ InPlace(copy, i, b) \in Seq(Pairs)
                /\ Len(InPlace(copy, i, b)) = IF i >= Len(copy) THEN i ELSE Len(copy)
                /\ InPlace(copy, i, b)[i] = b
                /\ \A k \in DOMAIN copy : k # i => /\ k \in DOMAIN InPlace(copy, i, b)
                                                 /\ InPlace(copy, i, b)[k] = copy[k]
                /\ i \in DOMAIN InPlace(copy, i, b)
            BY <5>1, InPlaceIs, ZenonT(60)
          <5> QED BY <5>2
        <4> QED BY <3>1, <4>1 DEF b
      <3>3. \A k \in (1..Len(d)) \ left' : k \in DOMAIN copy' /\ copy'[k] = d[k]
        BY <2>1, <2>2, <3>2 DEF Received
      <3>4. Len(copy') <= Max({fetch.old, Len(d)})
        BY <2>1, <2>4, <2>5, <2>6, <3>2 DEF Received
      <3>5. Received'
        BY <1>1, <2>1, <2>2, <2>3, <3>3, <3>4 DEF Received
      <3> QED BY <2>3, <3>2, <3>5 DEF FetchInv, OnlyLongerCopiesMismatch
    <2>7. CASE i \notin DOMAIN d
      <3>1. copy' = copy /\ \A k \in (1..Len(d)) \ left' : k \in (1..Len(d)) \ left
        BY <2>2, <2>5, <2>7
      <3>2. Received'
        BY <1>1, <2>1, <2>2, <2>3, <3>1 DEF Received
      <3> QED BY <2>1, <2>3, <3>1, <3>2 DEF FetchInv, OnlyLongerCopiesMismatch
    <2> QED BY <2>6, <2>7
  <1>4. CASE ConnectionLost
    BY <1>4 DEF ConnectionLost, FetchGoes, FetchInv, OnlyLongerCopiesMismatch
  <1>5. CASE CheckCopy
    <2>1. /\ fetch.at = "check" /\ Received /\ reply[Asked] # << >> /\ copy \in Seq(Pairs)
          /\ fetch.old \in Nat /\ d \in Seq(Pairs) /\ Len(d) \in Nat /\ left' = left /\ copy' = copy
      BY <1>5, AnswerIsTyped DEF CheckCopy, FetchGoes, FetchInv, Received
    <2>2. /\ fetch'.old = fetch.old /\ fetch'.at = IF copy = d THEN "fetched" ELSE "mismatch"
          /\ fetch' \in [at : {"reply", "block", "check", "fetched", "mismatch", "given up"}, old : Nat]
      BY <1>5 DEF CheckCopy, FetchGoes, FetchInv
    <2>3. left = {}
      BY <2>1 DEF Received
    <2>4. fetch.old <= Len(d) => copy = d
      <3>1. \A k \in 1..Len(d) : k \in DOMAIN copy /\ copy[k] = d[k]
        BY <2>1, <2>3 DEF Received
      <3>2. Len(copy) >= Len(d)
        <4>1. Len(d) \in 1..Len(d) => Len(d) \in DOMAIN copy
          BY <3>1
        <4> QED BY <2>1, <4>1
      <3>3. fetch.old <= Len(d) => Len(copy) <= Len(d)
        BY <2>1, MaxOfTwo DEF Received
      <3> QED BY <2>1, <3>1, <3>2, <3>3
    <2>5. Received'
      <3>1. fetch'.at \in {"fetched", "mismatch"}
        BY <2>2
      <3>2. left' = {}
        BY <2>1, <2>3
      <3> QED BY <1>1, <2>1, <2>2, <3>1, <3>2 DEF Received
    <2>6. OnlyLongerCopiesMismatch'
      <3>1. fetch'.at = "mismatch" => copy # d
        BY <2>2
      <3>2. fetch'.at = "mismatch" => fetch.old > Len(d)
        BY <2>1, <2>4, <3>1
      <3> QED BY <1>1, <2>2, <3>2 DEF OnlyLongerCopiesMismatch
    <2> QED BY <2>1, <2>2, <2>5, <2>6 DEF FetchInv
  <1> QED BY <1>2, <1>3, <1>4, <1>5 DEF FetchNext

-----------------------------------------------------------------------------
(* The theorems *)

LEMMA InvariantOfPeers == PeersSpec => [](FilesInv /\ FetchInv)
  <1>1. PeersInit => FilesInv /\ FetchInv
    BY FilesInitially, FetchBegins, FetchAssumption DEF PeersInit
  <1>2. FilesInv /\ FetchInv /\ [PeersNext]_<<filesVars, fetchVars>> => (FilesInv /\ FetchInv)'
    <2> SUFFICES ASSUME FilesInv, FetchInv, [PeersNext]_<<filesVars, fetchVars>> PROVE (FilesInv /\ FetchInv)'
      OBVIOUS
    <2>1. CASE [FilesNext]_filesVars /\ UNCHANGED fetchVars
      BY <2>1, FilesNextKeeps, FetchSurvivesOthers
    <2>2. CASE FetchNext /\ UNCHANGED filesVars
      BY <2>2, FilesNextKeeps, FetchSteps
    <2> QED BY <2>1, <2>2 DEF PeersNext
  <1> QED BY <1>1, <1>2, PTL DEF PeersSpec

\* A file is broken only while the client writes it: whatever the order in which
\* its blocks come, and wherever a retrieval ends (to_server, handle_retrieve).
THEOREM FilesAreWholeOfPeers == PeersSpec => []FilesAreWhole
  <1>1. FilesInv => FilesAreWhole
    <2> SUFFICES ASSUME FilesInv, NEW p \in Paths, file[p] # Absent, ~WritingTo(p)
                 PROVE \E v \in Versions : file[p] = Whole(v)
      BY DEF FilesAreWhole, WritingTo
    <2>1. PICK v \in 0..version : HoldsPart(p, v)
      BY DEF FilesInv, FilesOK
    <2>2. file[p] = Part(v, Blocks) /\ v \in 0..MaxVersion
      BY <2>1, RetrieveAssumption DEF HoldsPart, FilesInv, ClientOK
    <2> QED BY <2>2, WholeIsPart DEF Versions
  <1> QED BY <1>1, InvariantOfPeers, PTL

\* What a handler has read of a file has every block in its place, and never an
\* older block after a newer one, although the client may write the file at the
\* same time.
THEOREM RepliesNeverGoBackOfPeers == PeersSpec => []RepliesNeverGoBack
  <1>1. FilesInv => RepliesNeverGoBack
    <2> SUFFICES ASSUME FilesInv, NEW h \in Handlers
                 PROVE LET d == handler[h].data IN
                         /\ Len(d) <= Blocks
                         /\ \A i \in DOMAIN d : d[i][2] = i
                         /\ \A i, j \in DOMAIN d : i < j => d[i][1] <= d[j][1]
      BY DEF RepliesNeverGoBack
    <2>1. Ordered(handler[h].data)
      BY DEF FilesInv, HandlersOK, ReadsOK
    <2>2. DOMAIN handler[h].data = 1..Len(handler[h].data)
      BY <2>1 DEF Ordered
    <2> QED BY <2>1, <2>2 DEF Ordered
  <1> QED BY <1>1, InvariantOfPeers, PTL

\* In whatever order the blocks come: when every block was received and the hash
\* does not match, the copy was longer than the answer before it was fetched
\* (send_message of peer.c never cuts it off).
THEOREM OnlyLongerCopiesMismatchOfPeers == PeersSpec => []OnlyLongerCopiesMismatch
  <1>1. FetchInv => OnlyLongerCopiesMismatch
    BY DEF FetchInv
  <1> QED BY <1>1, InvariantOfPeers, PTL
=============================================================================
