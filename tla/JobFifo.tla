------------------------------ MODULE JobFifo -------------------------------
(***************************************************************************)
(* What job_queue.h promises of the queue when one thread fills it and     *)
(* then destroys it: a bounded first-in-first-out queue that is closed     *)
(* only once it is empty, and whose workers end only once it is closed.    *)
(* Each operation is one atomic step.  JobQueue implements this module;    *)
(* the programs that use the queue are modelled on top of it.              *)
(***************************************************************************)
EXTENDS Naturals, Sequences

CONSTANTS Workers, Capacity, Jobs, NoJob

VARIABLES
  fifo,    \* the jobs waiting, oldest first
  closed,  \* job_queue_destroy has marked the queue
  held,    \* held[w]: the job that worker w is processing, or NoJob
  ended    \* the workers whose job_queue_pop has returned -1

fifoVars == <<fifo, closed, held, ended>>

Init ==
  /\ fifo = <<>>
  /\ closed = FALSE
  /\ held = [w \in Workers |-> NoJob]
  /\ ended = {}

\* job_queue_push
Put(job) ==
  /\ ~closed
  /\ Len(fifo) < Capacity
  /\ fifo' = Append(fifo, job)
  /\ UNCHANGED <<closed, held, ended>>

\* job_queue_pop of a queue that has a job
Get(w) ==
  /\ ~closed /\ w \notin ended
  /\ held[w] = NoJob
  /\ fifo # <<>>
  /\ held' = [held EXCEPT ![w] = Head(fifo)]
  /\ fifo' = Tail(fifo)
  /\ UNCHANGED <<closed, ended>>

\* the worker is done with its job
Finish(w) ==
  /\ held[w] # NoJob
  /\ held' = [held EXCEPT ![w] = NoJob]
  /\ UNCHANGED <<fifo, closed, ended>>

\* job_queue_destroy
Close ==
  /\ fifo = <<>>
  /\ closed' = TRUE
  /\ UNCHANGED <<fifo, held, ended>>

\* job_queue_pop of a destroyed queue
End(w) ==
  /\ closed /\ w \notin ended
  /\ held[w] = NoJob
  /\ ended' = ended \cup {w}
  /\ UNCHANGED <<fifo, closed, held>>

Next ==
  \/ \E job \in Jobs : Put(job)
  \/ \E w \in Workers : Get(w) \/ Finish(w) \/ End(w)
  \/ Close

Spec == Init /\ [][Next]_fifoVars
=============================================================================
