--------------------------- MODULE PriorityQueue ----------------------------
(***************************************************************************)
(* What A6/opgave.md asks of the program: a number V >= 0 is added to a    *)
(* queue, and -N takes N times the lowest number out of it and writes it;  *)
(* what cannot be taken because the queue is empty is forgotten.           *)
(***************************************************************************)
EXTENDS Integers, Sequences

CONSTANTS Numbers, Counts   \* the numbers added, and the N of the takes

VARIABLES
  bag,  \* how often every number is in the queue
  due,  \* numbers that are still to be taken
  out   \* the numbers written

pqVars == <<bag, due, out>>

Init ==
  /\ bag = [n \in Numbers |-> 0]
  /\ due = 0
  /\ out = << >>

Add(n) ==
  /\ due = 0
  /\ bag' = [bag EXCEPT ![n] = @ + 1]
  /\ UNCHANGED <<due, out>>

Request(k) ==
  /\ due = 0
  /\ due' = k
  /\ UNCHANGED <<bag, out>>

Take(n) ==
  /\ due > 0
  /\ bag[n] > 0
  /\ \A m \in Numbers : m < n => bag[m] = 0
  /\ bag' = [bag EXCEPT ![n] = @ - 1]
  /\ due' = due - 1
  /\ out' = Append(out, n)

Forget ==
  /\ due > 0
  /\ \A n \in Numbers : bag[n] = 0
  /\ due' = 0
  /\ UNCHANGED <<bag, out>>

Next ==
  \/ \E n \in Numbers : Add(n) \/ Take(n)
  \/ \E k \in Counts : Request(k)
  \/ Forget

Spec == Init /\ [][Next]_pqVars
=============================================================================
