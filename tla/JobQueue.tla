------------------------------ MODULE JobQueue ------------------------------
(***************************************************************************)
(* The bounded job queue of A2 (src/A2/src/job_queue.c) together with the  *)
(* threads that call it: workers that pop jobs until job_queue_pop fails   *)
(* (fibs.c, fauxgrep-mt.c, fhistogram-mt.c all have this worker), the main *)
(* thread that pushes jobs, destroys the queue and joins the workers, and, *)
(* for the queue used as the library its header describes, helper threads  *)
(* that push as well.                                                      *)
(*                                                                         *)
(* A step is what one thread does between two points where another thread  *)
(* can interfere: taking the mutex, testing a loop condition, the body of  *)
(* a critical section, releasing the mutex, each call of the tear-down     *)
(* that job_queue_destroy makes after it has released the mutex.           *)
(*                                                                         *)
(* The pthread library is external.  Its mutex is not fair, its condition  *)
(* variables may wake a sleeper for no reason, and a mutex that has been   *)
(* destroyed behaves as in glibc: the calls on it return EINVAL, which     *)
(* this code ignores, while a thread that already queues for it still      *)
(* queues.                                                                 *)
(***************************************************************************)
EXTENDS Integers, Sequences, FiniteSets

CONSTANTS
  Workers,      \* threads that run worker()
  Helpers,      \* threads other than Main that push; {} in the three programs
  Main,         \* the thread that runs main()
  JoinsHelpers, \* whether main joins the helpers before it destroys the queue
  Capacity,     \* the second argument of job_queue_init
  MaxJobs,      \* bound: how many jobs are ever made
  MaxSpurious,  \* bound: how many times a sleeper wakes for no reason
  NoThread,     \* no thread owns the mutex
  NoJob         \* an empty slot of the buffer, an empty hand

ASSUME ThreadAssumption ==
  /\ Workers # {}
  /\ Main \notin Workers
  /\ Helpers \cap Workers = {}
  /\ Main \notin Helpers
  /\ NoThread \notin Workers \cup Helpers \cup {Main}
  /\ JoinsHelpers \in BOOLEAN

ASSUME BoundAssumption ==
  /\ Capacity \in Nat \ {0}
  /\ MaxJobs \in Nat
  /\ MaxSpurious \in Nat
  /\ NoJob \notin Nat

Pushers == Helpers \cup {Main}
Threads == Workers \cup Pushers
Jobs    == 1..MaxJobs
Slots   == 0..(Capacity - 1)

VARIABLES
  num, top, rear, buffer, destroyed,  \* struct job_queue
  freed,       \* free(job_queue->buffer) has been called
  owner,       \* the thread that owns job_queue->lock, or NoThread
  mutexAlive,  \* FALSE once pthread_mutex_destroy has invalidated the lock
  asleep,      \* asleep[op]: the threads asleep on cond_<op>
  pc, call,    \* where each thread is, and in which operation of the queue
  hand,        \* the job a pusher brings or a worker has been given
  made,        \* how many jobs have been made
  spurious,    \* how many spurious wake-ups have happened
  pushed,      \* history: the jobs stored, in order
  popped       \* history: the jobs handed out, in order

queue   == <<num, top, rear, buffer, destroyed>>
history == <<pushed, popped>>
vars == <<num, top, rear, buffer, destroyed, freed, owner, mutexAlive, asleep,
          pc, call, hand, made, spurious, pushed, popped>>

Ops == {"pop", "push", "destroy"}

\* The places of a thread: outside the queue ("idle" for a pusher, "work" for
\* a worker with a job), the stages of a call, main's tear-down and join.
Places == {"idle", "work", "enter", "acquire", "test", "wait", "leave", "fail",
           "broadcast", "mutex_destroy", "cond_destroy_destroy",
           "cond_destroy_pop", "cond_destroy_push", "free", "join", "done"}

Init ==
  /\ num = 0 /\ top = 0 /\ rear = 0
  /\ buffer = [s \in Slots |-> NoJob]
  /\ destroyed = FALSE
  /\ freed = FALSE
  /\ owner = NoThread
  /\ mutexAlive = TRUE
  /\ asleep = [op \in Ops |-> {}]
  /\ pc = [t \in Threads |-> IF t \in Workers THEN "enter" ELSE "idle"]
  /\ call = [t \in Threads |-> IF t \in Workers THEN "pop" ELSE "push"]
  /\ hand = [t \in Threads |-> NoJob]
  /\ made = 0
  /\ spurious = 0
  /\ pushed = <<>>
  /\ popped = <<>>

-----------------------------------------------------------------------------
(* The pthread library.                                                    *)

Goto(t, place) == pc' = [pc EXCEPT ![t] = place]

\* pthread_mutex_lock looks at the kind of the mutex first: a destroyed one is
\* refused, and the caller goes on without it.
Locks(t) == mutexAlive

Enter(t) ==
  /\ pc[t] = "enter"
  /\ Goto(t, IF Locks(t) THEN "acquire" ELSE "test")
  /\ UNCHANGED <<queue, freed, owner, mutexAlive, asleep, call, hand, made, spurious, history>>

\* The thread that queues for the mutex gets it once nobody owns it.
Acquire(t) ==
  /\ pc[t] = "acquire"
  /\ owner = NoThread
  /\ owner' = t
  /\ Goto(t, "test")
  /\ UNCHANGED <<queue, freed, mutexAlive, asleep, call, hand, made, spurious, history>>

\* pthread_mutex_unlock refuses a destroyed mutex, which then stays taken.
Unlock(t) == owner' = IF mutexAlive /\ owner = t THEN NoThread ELSE owner

\* A sleeper that has been woken takes the mutex again and tests its condition.
Reacquire(t) ==
  /\ pc[t] = "wait"
  /\ t \notin asleep[call[t]]
  /\ owner = NoThread
  /\ owner' = t
  /\ Goto(t, "test")
  /\ UNCHANGED <<queue, freed, mutexAlive, asleep, call, hand, made, spurious, history>>

\* POSIX lets pthread_cond_wait return without a signal.
SpuriousWakeup(t) ==
  /\ spurious < MaxSpurious
  /\ t \in asleep[call[t]]
  /\ asleep' = [asleep EXCEPT ![call[t]] = @ \ {t}]
  /\ spurious' = spurious + 1
  /\ UNCHANGED <<queue, freed, owner, mutexAlive, pc, call, hand, made, history>>

\* The sets of sleepers that pthread_cond_signal may leave behind.
AfterSignal(op) ==
  IF asleep[op] = {} THEN {{}} ELSE {asleep[op] \ {t} : t \in asleep[op]}

\* The pthread_cond_signal of job_queue_push.
SignalPop == \E left \in AfterSignal("pop") : asleep' = [asleep EXCEPT !["pop"] = left]

\* The two of job_queue_pop.
SignalPushAndDestroy_OnlyPush ==
  \E pushers \in AfterSignal("push") : asleep' = [asleep EXCEPT !["push"] = pushers]
SignalPushAndDestroy_OnlyDestroy ==
  \E mains \in AfterSignal("destroy") : asleep' = [asleep EXCEPT !["destroy"] = mains]
SignalPushAndDestroy ==
  \E pushers \in AfterSignal("push"), mains \in AfterSignal("destroy") :
    asleep' = [asleep EXCEPT !["push"] = pushers, !["destroy"] = mains]

\* pthread_mutex_destroy fails with EBUSY, which this code ignores, while a
\* thread owns the mutex or is inside pthread_cond_wait with it.
MutexInUse == owner # NoThread \/ \E t \in Threads : pc[t] = "wait"

-----------------------------------------------------------------------------
(* The loop conditions of job_queue_pop, _push and _destroy.               *)
MustWait_FullByOneMore(op) ==
  \/ op = "pop"     /\ num = 0 /\ ~destroyed
  \/ op = "push"    /\ num > Capacity /\ ~destroyed
  \/ op = "destroy" /\ num > 0
MustWait_EmptyButOne(op) ==
  \/ op = "pop"     /\ num = 0 /\ ~destroyed
  \/ op = "push"    /\ num = Capacity /\ ~destroyed
  \/ op = "destroy" /\ num > 1
MustWait(op) ==
  \/ op = "pop"     /\ num = 0 /\ ~destroyed
  \/ op = "push"    /\ num = Capacity /\ ~destroyed
  \/ op = "destroy" /\ num > 0

\* pthread_cond_wait in any of the three loops.
Sleep(t) ==
  /\ pc[t] = "test"
  /\ MustWait(call[t])
  /\ asleep' = [asleep EXCEPT ![call[t]] = @ \cup {t}]
  /\ Unlock(t)
  /\ Goto(t, "wait")
  /\ UNCHANGED <<queue, freed, mutexAlive, call, hand, made, spurious, history>>

\* The slot after s, round the ring.
NextSlot_NoWrap(s) == s + 1
NextSlot(s) == (s + 1) % Capacity

\* job_queue_push past its loop: store the job, wake a popper.
Store(t) ==
  /\ pc[t] = "test" /\ call[t] = "push"
  /\ ~MustWait("push")
  /\ buffer' = [buffer EXCEPT ![rear] = hand[t]]
  /\ rear' = NextSlot(rear)
  /\ num' = num + 1
  /\ SignalPop
  /\ pushed' = Append(pushed, hand[t])
  /\ hand' = [hand EXCEPT ![t] = NoJob]
  /\ Goto(t, "leave")
  /\ UNCHANGED <<top, destroyed, freed, owner, mutexAlive, call, made, spurious, popped>>

\* job_queue_pop past its loop: a destroyed queue has nothing to give.
PopFails_WhenEmpty == num = 0
PopFails == destroyed

Refuse(t) ==
  /\ pc[t] = "test" /\ call[t] = "pop"
  /\ PopFails
  /\ Goto(t, "fail")
  /\ UNCHANGED <<queue, freed, owner, mutexAlive, asleep, call, hand, made, spurious, history>>

\* Otherwise it has a job.
PopTakes_Always == ~MustWait("pop")
PopTakes == ~MustWait("pop") /\ ~destroyed

\* job_queue_pop past its loop: take the oldest job, wake a pusher and main.
Take(t) ==
  /\ pc[t] = "test" /\ call[t] = "pop"
  /\ PopTakes
  /\ hand' = [hand EXCEPT ![t] = buffer[top]]
  /\ popped' = Append(popped, buffer[top])
  /\ buffer' = [buffer EXCEPT ![top] = NoJob]
  /\ top' = NextSlot(top)
  /\ num' = num - 1
  /\ SignalPushAndDestroy
  /\ Goto(t, "leave")
  /\ UNCHANGED <<rear, destroyed, freed, owner, mutexAlive, call, made, spurious, pushed>>

\* job_queue_destroy past its loop: the queue is empty, mark it destroyed.
MarkDestroyed(t) ==
  /\ pc[t] = "test" /\ call[t] = "destroy"
  /\ ~MustWait("destroy")
  /\ destroyed' = TRUE
  /\ Goto(t, "leave")
  /\ UNCHANGED <<num, top, rear, buffer, freed, owner, mutexAlive, asleep, call, hand,
                 made, spurious, history>>

\* The unlock that ends each operation, and where its caller goes from there:
\* a pusher to its next job, a worker to its job or out of its loop, main on
\* to the tear-down.
Leave(t) ==
  /\ pc[t] \in {"leave", "fail"}
  /\ Unlock(t)
  /\ Goto(t, IF pc[t] = "fail" THEN "done"
             ELSE IF call[t] = "pop" THEN "work"
             ELSE IF call[t] = "push" THEN "idle" ELSE "broadcast")
  /\ UNCHANGED <<queue, freed, mutexAlive, asleep, call, hand, made, spurious, history>>

-----------------------------------------------------------------------------
(* The tear-down that ends job_queue_destroy, outside the mutex.           *)

WakeAllPoppers_OnlyOne == SignalPop
WakeAllPoppers_None == UNCHANGED asleep
WakeAllPoppers == asleep' = [asleep EXCEPT !["pop"] = {}]

Broadcast(t) ==
  /\ pc[t] = "broadcast"
  /\ WakeAllPoppers
  /\ Goto(t, "mutex_destroy")
  /\ UNCHANGED <<queue, freed, owner, mutexAlive, call, hand, made, spurious, history>>

\* A mutex nobody uses is invalidated by glibc; another libc may leave it be.
MutexDestroy(t) ==
  /\ pc[t] = "mutex_destroy"
  /\ mutexAlive' \in IF MutexInUse THEN {mutexAlive} ELSE BOOLEAN
  /\ Goto(t, "cond_destroy_destroy")
  /\ UNCHANGED <<queue, freed, owner, asleep, call, hand, made, spurious, history>>

\* pthread_cond_destroy waits until nobody is asleep on its condition.
CondDestroy(t) ==
  /\ \/ /\ pc[t] = "cond_destroy_destroy" /\ asleep["destroy"] = {}
        /\ Goto(t, "cond_destroy_pop")
     \/ /\ pc[t] = "cond_destroy_pop" /\ asleep["pop"] = {}
        /\ Goto(t, "cond_destroy_push")
     \/ /\ pc[t] = "cond_destroy_push" /\ asleep["push"] = {}
        /\ Goto(t, "free")
  /\ UNCHANGED <<queue, freed, owner, mutexAlive, asleep, call, hand, made, spurious, history>>

Free(t) ==
  /\ pc[t] = "free"
  /\ freed' = TRUE
  /\ Goto(t, "join")
  /\ UNCHANGED <<queue, owner, mutexAlive, asleep, call, hand, made, spurious, history>>

-----------------------------------------------------------------------------
(* The callers.                                                            *)

\* main (or a helper) has found the next line or file and pushes it.
MakeJob(t) ==
  /\ pc[t] = "idle"
  /\ made < MaxJobs
  /\ made' = made + 1
  /\ hand' = [hand EXCEPT ![t] = made + 1]
  /\ Goto(t, "enter")
  /\ UNCHANGED <<queue, freed, owner, mutexAlive, asleep, call, spurious, history>>

\* main has reached the end of its input and destroys the queue.
EndOfInput ==
  /\ pc[Main] = "idle"
  /\ JoinsHelpers => \A h \in Helpers : pc[h] = "done"
  /\ call' = [call EXCEPT ![Main] = "destroy"]
  /\ Goto(Main, "enter")
  /\ UNCHANGED <<queue, freed, owner, mutexAlive, asleep, hand, made, spurious, history>>

\* A helper stops pushing whenever it likes.
HelperStops(t) ==
  /\ pc[t] = "idle" /\ t \in Helpers
  /\ Goto(t, "done")
  /\ UNCHANGED <<queue, freed, owner, mutexAlive, asleep, call, hand, made, spurious, history>>

\* A worker has processed its job and pops the next one.
FinishJob(t) ==
  /\ pc[t] = "work"
  /\ hand' = [hand EXCEPT ![t] = NoJob]
  /\ Goto(t, "enter")
  /\ UNCHANGED <<queue, freed, owner, mutexAlive, asleep, call, made, spurious, history>>

\* main returns when every worker has ended.
Join ==
  /\ pc[Main] = "join"
  /\ \A w \in Workers : pc[w] = "done"
  /\ Goto(Main, "done")
  /\ UNCHANGED <<queue, freed, owner, mutexAlive, asleep, call, hand, made, spurious, history>>

\* The steps the thread's own code takes once it is scheduled.
Step(t) ==
  \/ Enter(t) \/ Acquire(t) \/ Reacquire(t)
  \/ Sleep(t) \/ Store(t) \/ Refuse(t) \/ Take(t) \/ MarkDestroyed(t) \/ Leave(t)
  \/ Broadcast(t) \/ MutexDestroy(t) \/ CondDestroy(t) \/ Free(t)
  \/ FinishJob(t) \/ HelperStops(t)

Next ==
  \/ \E t \in Threads : Step(t) \/ SpuriousWakeup(t)
  \/ \E t \in Pushers : MakeJob(t)
  \/ EndOfInput
  \/ Join

Spec == Init /\ [][Next]_vars

(***************************************************************************)
(* The scheduler lets every thread run.  That is all: nothing is assumed   *)
(* of the order in which the mutex is handed out (weak fairness, and the   *)
(* jobs and spurious wake-ups are finitely many), nor that input ends      *)
(* before its bound.                                                       *)
(***************************************************************************)
FairSpec ==
  /\ Spec
  /\ \A t \in Threads : WF_vars(Step(t))
  /\ WF_vars(EndOfInput)
  /\ WF_vars(Join)

-----------------------------------------------------------------------------
(* What the queue promises.                                                *)

\* Every variable has its type.
TypeOK ==
  /\ num \in Nat /\ top \in Slots /\ rear \in Slots
  /\ buffer \in [Slots -> Jobs \cup {NoJob}]
  /\ destroyed \in BOOLEAN /\ freed \in BOOLEAN /\ mutexAlive \in BOOLEAN
  /\ owner \in Threads \cup {NoThread}
  /\ asleep \in [Ops -> SUBSET Threads]
  /\ pc \in [Threads -> Places]
  /\ call \in [Threads -> Ops]
  /\ hand \in [Threads -> Jobs \cup {NoJob}]
  /\ made \in 0..MaxJobs /\ spurious \in 0..MaxSpurious
  /\ pushed \in Seq(Jobs) /\ popped \in Seq(Jobs)

\* Where a thread is between taking and releasing the mutex.
Critical(t) == pc[t] \in {"test", "leave", "fail"}

\* Until the queue is destroyed, whoever is between the lock and the unlock of
\* an operation owns the mutex, so at most one thread is (job_queue.c 49-61,
\* 66-85, 30-37).  Afterwards job_queue_pop runs without it.
MutualExclusion ==
  ~destroyed => \A t \in Threads : Critical(t) => owner = t

\* Nobody pushes once main destroys the queue: main is the only pusher, as in
\* the three programs, or it has joined the others.
NoLatePush == Helpers = {} \/ JoinsHelpers

\* The slot i places after top, counting round the ring.
Wrap(s) == IF s < Capacity THEN s ELSE s - Capacity
At(i)   == Wrap(top + i)

\* Until the queue is destroyed, the ring buffer holds exactly the jobs pushed
\* and not yet popped, oldest at top, and jobs leave in the order they came,
\* none lost, none twice, none overwritten (job_queue.c 55-57, 77-80).
RingHoldsTheBacklog ==
  ~destroyed =>
    /\ num <= Capacity
    /\ Len(pushed) = Len(popped) + num
    /\ \A i \in 1..Len(popped) : popped[i] = pushed[i]
    /\ \A i \in 0..(num - 1) : buffer[At(i)] = pushed[Len(popped) + i + 1]
    /\ num < Capacity => rear = At(num)
    /\ num = Capacity => rear = top

\* If nobody pushes late, a destroyed queue has handed every job to a worker,
\* and stays empty (job_queue.h 24-26).
DestroyedMeansDrained ==
  (NoLatePush /\ destroyed) => num = 0 /\ popped = pushed

\* If nobody pushes late, no operation reads or writes the buffer once
\* job_queue_destroy has freed it, though workers still call job_queue_pop.
NoUseAfterFree ==
  [][NoLatePush /\ freed => buffer' = buffer /\ popped' = popped]_vars

\* No wake-up is lost: everybody asleep on a condition means that the
\* condition really is false (a full queue is not a pusher's alone to empty:
\* only with a single pusher must each pop wake it).
NoLostWakeup ==
  /\ Workers \subseteq asleep["pop"] => num = 0
  /\ Pushers \subseteq asleep["push"] => num = Capacity
  /\ Main \in asleep["destroy"] => num > 0

\* job_queue_destroy returns once the input has ended, whatever the workers
\* are doing: it does not hang in its loop or in pthread_cond_destroy.
DestroyReturns == call[Main] = "destroy" ~> freed

\* The program ends: every worker gets -1 from job_queue_pop and main joins
\* them all (fibs.c 107-116).
ProgramEnds == <>(pc[Main] = "done")

\* ... which the code ensures as long as no two threads are still queued for
\* the mutex once it is invalidated (job_queue.c 39); a lone worker never is.
ProgramEndsUnlessTwoQueue ==
  [](~mutexAlive => Cardinality({t \in Threads : pc[t] = "acquire"}) < 2) => ProgramEnds

-----------------------------------------------------------------------------
(* The queue as its callers see it.                                        *)

\* The jobs in the ring buffer, oldest first.
Backlog == [i \in 1..num |-> buffer[At(i - 1)]]

Fifo == INSTANCE JobFifo WITH
  fifo   <- Backlog,
  closed <- destroyed,
  held   <- [w \in Workers |-> hand[w]],
  ended  <- {w \in Workers : pc[w] = "done"}

\* If nobody pushes late, the ring buffer, the lock and the condition variables
\* together implement a first-in-first-out queue with atomic
\* operations (job_queue.h 20-38).
ImplementsFifo == Fifo!Spec
=============================================================================
