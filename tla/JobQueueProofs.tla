--------------------------- MODULE JobQueueProofs ---------------------------
(***************************************************************************)
(* Proofs about JobQueue, for every number of workers, helpers, slots and  *)
(* jobs.                                                                   *)
(***************************************************************************)
EXTENDS JobQueue, TLAPS

-----------------------------------------------------------------------------
(* Arithmetic of the ring.                                                 *)

\* job_queue.c 56 and 79 step to the next slot with (s + 1) % max.
LEMMA NextSlotLemma ==
  ASSUME NEW s \in Slots
  PROVE  NextSlot(s) = Wrap(s + 1) /\ Wrap(s + 1) \in Slots
<1>1. Capacity \in Nat \ {0} /\ s \in 0..(Capacity - 1)
  BY BoundAssumption DEF Slots
<1>2. CASE s + 1 = Capacity
  <2>1. Capacity % Capacity = 0
    BY <1>1
  <2> QED BY <1>1, <1>2, <2>1 DEF Slots, Wrap, NextSlot
<1>3. CASE s + 1 # Capacity
  <2>1. (s + 1) % Capacity = s + 1
    BY <1>1, <1>3
  <2> QED BY <1>1, <1>3, <2>1 DEF Slots, Wrap, NextSlot
<1> QED BY <1>2, <1>3

\* The Capacity places counted from slot s are the slots, each once.
LEMMA RingPlaces ==
  ASSUME NEW s \in Slots
  PROVE  /\ Wrap(s + 0) = s
         /\ \A i \in 0..(Capacity - 1) : Wrap(s + i) \in Slots
         /\ \A i, j \in 0..(Capacity - 1) : Wrap(s + i) = Wrap(s + j) => i = j
BY BoundAssumption DEF Wrap, Slots

\* Counting from the next slot, or stepping on from a place, is one place on;
\* after Capacity places the count is back where it began.
LEMMA RingMoves ==
  ASSUME NEW s \in Slots, NEW i \in 0..(Capacity - 1)
  PROVE  /\ i + 1 < Capacity => Wrap(Wrap(s + 1) + i) = Wrap(s + (i + 1))
         /\ i + 1 < Capacity => Wrap(Wrap(s + i) + 1) = Wrap(s + (i + 1))
         /\ i + 1 = Capacity => Wrap(Wrap(s + 1) + i) = s
         /\ i + 1 = Capacity => Wrap(Wrap(s + i) + 1) = s
BY BoundAssumption DEF Wrap, Slots

-----------------------------------------------------------------------------
(* The inductive invariant.                                                *)

\* Until the queue is destroyed the mutex works and protects every critical
\* section; main is past its critical section only if the queue is destroyed,
\* and a pop fails only then.
LockInv ==
  /\ ~destroyed => mutexAlive
  /\ MutualExclusion
  /\ \A t \in Threads :
       /\ pc[t] \in {"broadcast", "mutex_destroy", "cond_destroy_destroy",
                     "cond_destroy_pop", "cond_destroy_push", "free", "join", "fail"}
            => destroyed
       /\ pc[t] = "leave" /\ call[t] = "destroy" => destroyed
  /\ freed => destroyed

\* Who calls what.
CallInv ==
  /\ \A w \in Workers : call[w] = "pop"
  /\ \A h \in Helpers : call[h] = "push"
  /\ call[Main] \in {"push", "destroy"}
  /\ destroyed => call[Main] = "destroy"

\* Helpers that main has joined have ended.
JoinInv ==
  JoinsHelpers /\ call[Main] = "destroy" => \A h \in Helpers : pc[h] = "done"

\* A sleeper is in pthread_cond_wait of its own operation.
SleepInv ==
  \A op \in Ops, t \in Threads : t \in asleep[op] => pc[t] = "wait" /\ call[t] = op

\* A pusher in job_queue_push brings a job; a worker has one exactly from the
\* moment it takes it until it has processed it.
HandOK(t) ==
  /\ call[t] = "push" /\ pc[t] \in {"enter", "acquire", "test", "wait"} => hand[t] \in Jobs
  /\ t \in Pushers => pc[t] # "work"
  /\ t \in Workers =>
       /\ pc[t] \in {"enter", "acquire", "test", "wait", "leave", "fail", "work", "done"}
       /\ hand[t] \in Jobs <=> pc[t] \in {"leave", "work"}

HandInv == \A t \in Threads : HandOK(t)

IInv ==
  /\ TypeOK
  /\ LockInv
  /\ CallInv
  /\ JoinInv
  /\ SleepInv
  /\ HandInv
  /\ RingHoldsTheBacklog
  /\ DestroyedMeansDrained
  /\ NoLostWakeup

-----------------------------------------------------------------------------
(* The inductive invariant holds initially and after every step.           *)

\* pthread_cond_signal removes one sleeper, if there is one.
LEMMA SignalLemma ==
  ASSUME NEW op \in Ops, NEW left \in AfterSignal(op)
  PROVE  /\ left \subseteq asleep[op]
         /\ asleep[op] # {} => \E t \in asleep[op] : left = asleep[op] \ {t}
BY DEF AfterSignal

LEMMA Initially == Init => IInv
<1> SUFFICES ASSUME Init PROVE IInv
  OBVIOUS
<1> USE ThreadAssumption, BoundAssumption DEF Init, Threads, Pushers
<1>1. TypeOK
  <2>1. 0 \in Slots
    BY DEF Slots
  <2>2. <<>> \in Seq(Jobs)
    OBVIOUS
  <2>3. /\ num \in Nat /\ top \in Slots /\ rear \in Slots
        /\ made \in 0..MaxJobs /\ spurious \in 0..MaxSpurious
    BY <2>1
  <2>4. /\ buffer \in [Slots -> Jobs \cup {NoJob}]
        /\ hand \in [Threads -> Jobs \cup {NoJob}]
        /\ asleep \in [Ops -> SUBSET Threads]
    OBVIOUS
  <2>5. pc \in [Threads -> Places] /\ call \in [Threads -> Ops]
    BY DEF Places, Ops
  <2> QED BY <2>2, <2>3, <2>4, <2>5 DEF TypeOK
<1>2. LockInv
  BY DEF LockInv, MutualExclusion, Critical
<1>3. CallInv /\ JoinInv /\ SleepInv /\ HandInv
  BY DEF CallInv, JoinInv, SleepInv, HandInv, HandOK, Ops, Jobs
<1>4. RingHoldsTheBacklog /\ DestroyedMeansDrained /\ NoLostWakeup
  BY DEF RingHoldsTheBacklog, DestroyedMeansDrained, NoLostWakeup, At, Wrap, Ops
<1> QED BY <1>1, <1>2, <1>3, <1>4 DEF IInv

LEMMA TypeStep == ASSUME IInv, Next PROVE TypeOK'
<1> USE DEF IInv, TypeOK, queue, history, Goto
<1>1. ASSUME NEW t \in Threads, Enter(t) PROVE TypeOK'
  BY <1>1 DEF Enter, Places
<1>2. ASSUME NEW t \in Threads, Acquire(t) PROVE TypeOK'
  BY <1>2 DEF Acquire, Places
<1>3. ASSUME NEW t \in Threads, Reacquire(t) PROVE TypeOK'
  BY <1>3 DEF Reacquire, Places
<1>4. ASSUME NEW t \in Threads, Sleep(t) PROVE TypeOK'
  BY <1>4 DEF Sleep, Unlock, Places
<1>5. ASSUME NEW t \in Threads, Store(t) PROVE TypeOK'
  BY <1>5, NextSlotLemma DEF Store, SignalPop, AfterSignal, Places, HandInv, HandOK, Ops
<1>6. ASSUME NEW t \in Threads, Refuse(t) PROVE TypeOK'
  BY <1>6 DEF Refuse, Places
<1>7. ASSUME NEW t \in Threads, Take(t) PROVE TypeOK'
  <2>1. buffer[top] \in Jobs
    <3>1. ~destroyed /\ num \in Nat /\ num # 0
      BY <1>7 DEF Take, PopTakes, MustWait
    <3>2. /\ Len(pushed) = Len(popped) + num
          /\ \A i \in 0..(num - 1) : buffer[At(i)] = pushed[Len(popped) + i + 1]
      BY <3>1 DEF RingHoldsTheBacklog
    <3>3. 0 \in 0..(num - 1) /\ Len(popped) + 0 + 1 \in 1..Len(pushed)
      BY <3>1, <3>2
    <3>4. buffer[At(0)] \in Jobs
      BY <3>2, <3>3
    <3>5. At(0) = top
      BY RingPlaces DEF At
    <3> QED BY <3>4, <3>5
  <2>2. num' \in Nat /\ top' \in Slots
    BY <1>7, NextSlotLemma DEF Take, PopTakes, MustWait
  <2>3. /\ buffer' \in [Slots -> Jobs \cup {NoJob}]
        /\ hand' \in [Threads -> Jobs \cup {NoJob}]
        /\ popped' \in Seq(Jobs)
    BY <1>7, <2>1 DEF Take
  <2>4. asleep' \in [Ops -> SUBSET Threads]
    <3>1. PICK pushers \in AfterSignal("push"), mains \in AfterSignal("destroy") :
            asleep' = [asleep EXCEPT !["push"] = pushers, !["destroy"] = mains]
      BY <1>7 DEF Take, SignalPushAndDestroy
    <3>2. pushers \subseteq asleep["push"] /\ mains \subseteq asleep["destroy"]
      BY SignalLemma DEF Ops
    <3> QED BY <3>1, <3>2 DEF Ops
  <2> QED BY <1>7, <2>2, <2>3, <2>4 DEF Take, Places
<1>8. ASSUME NEW t \in Threads, MarkDestroyed(t) PROVE TypeOK'
  BY <1>8 DEF MarkDestroyed, Places
<1>9. ASSUME NEW t \in Threads, Leave(t) PROVE TypeOK'
  BY <1>9 DEF Leave, Unlock, Places, Ops
<1>10. ASSUME NEW t \in Threads,
              Broadcast(t) \/ MutexDestroy(t) \/ CondDestroy(t) \/ Free(t)
       PROVE  TypeOK'
  BY <1>10 DEF Broadcast, WakeAllPoppers, MutexDestroy, CondDestroy, Free, Places
<1>11. ASSUME NEW t \in Threads, FinishJob(t) \/ HelperStops(t) \/ SpuriousWakeup(t)
       PROVE  TypeOK'
  BY <1>11, BoundAssumption, SMTT(30) DEF FinishJob, HelperStops, SpuriousWakeup, Places
<1>12. ASSUME NEW t \in Pushers, MakeJob(t) PROVE TypeOK'
  BY <1>12, BoundAssumption DEF MakeJob, Places, Jobs, Threads
<1>13. CASE EndOfInput \/ Join
  BY <1>13 DEF EndOfInput, Join, Places, Ops, Threads, Pushers
<1> QED
  BY <1>1, <1>2, <1>3, <1>4, <1>5, <1>6, <1>7, <1>8, <1>9, <1>10, <1>11, <1>12, <1>13
     DEF Next, Step

LEMMA LockStep == ASSUME IInv, Next PROVE LockInv'
<1> USE ThreadAssumption DEF IInv, TypeOK, LockInv, MutualExclusion, Critical, queue, Goto
<1>1. ASSUME NEW t \in Threads, Enter(t) PROVE LockInv'
  BY <1>1 DEF Enter, Locks
<1>2. ASSUME NEW t \in Threads, Acquire(t) \/ Reacquire(t) PROVE LockInv'
  <2>1. owner = NoThread /\ NoThread \notin Threads
    BY <1>2 DEF Acquire, Reacquire, Threads, Pushers
  <2>2. \A u \in Threads : ~destroyed => ~Critical(u)
    BY <2>1
  <2> QED BY <1>2, <2>2 DEF Acquire, Reacquire
<1>3. ASSUME NEW t \in Threads, Sleep(t) PROVE LockInv'
  BY <1>3 DEF Sleep, Unlock
<1>4. ASSUME NEW t \in Threads, Store(t) \/ Refuse(t) \/ Take(t) PROVE LockInv'
  BY <1>4 DEF Store, Refuse, PopFails, Take
<1>5. ASSUME NEW t \in Threads, MarkDestroyed(t) PROVE LockInv'
  BY <1>5 DEF MarkDestroyed
<1>6. ASSUME NEW t \in Threads, Leave(t) PROVE LockInv'
  <2>1. call[t] = "destroy" => destroyed
    BY <1>6 DEF Leave
  <2>2. \A u \in Threads : ~destroyed /\ Critical(u) => u = t
    BY <1>6 DEF Leave
  <2> QED BY <1>6, <2>1, <2>2 DEF Leave, Unlock, Ops
<1>7. ASSUME NEW t \in Threads,
             Broadcast(t) \/ MutexDestroy(t) \/ CondDestroy(t) \/ Free(t)
      PROVE  LockInv'
  <2>1. destroyed /\ destroyed'
    BY <1>7 DEF Broadcast, MutexDestroy, CondDestroy, Free
  <2> QED BY <2>1
<1>8. ASSUME NEW t \in Threads, FinishJob(t) \/ HelperStops(t) \/ SpuriousWakeup(t)
      PROVE  LockInv'
  BY <1>8 DEF FinishJob, HelperStops, SpuriousWakeup
<1>9. ASSUME NEW t \in Pushers, MakeJob(t) PROVE LockInv'
  BY <1>9 DEF MakeJob, Threads
<1>10. CASE EndOfInput \/ Join
  BY <1>10 DEF EndOfInput, Join, Threads, Pushers
<1> QED
  BY <1>1, <1>2, <1>3, <1>4, <1>5, <1>6, <1>7, <1>8, <1>9, <1>10 DEF Next, Step

LEMMA CallStep == ASSUME IInv, Next PROVE CallInv'
<1> USE ThreadAssumption DEF IInv, TypeOK, CallInv, queue, Threads, Pushers
<1>1. ASSUME NEW t \in Threads, MarkDestroyed(t) PROVE CallInv'
  BY <1>1 DEF MarkDestroyed
<1>2. CASE EndOfInput
  BY <1>2 DEF EndOfInput, Ops
<1>3. ASSUME UNCHANGED <<call, destroyed>> PROVE CallInv'
  BY <1>3
<1> QED
  BY <1>1, <1>2, <1>3
     DEF Next, Step, Enter, Acquire, Reacquire, Sleep, Store, Refuse, Take, Leave,
         Broadcast, MutexDestroy, CondDestroy, Free, FinishJob, HelperStops,
         SpuriousWakeup, MakeJob, Join

LEMMA JoinStep == ASSUME IInv, Next PROVE JoinInv'
<1> USE ThreadAssumption DEF IInv, TypeOK, JoinInv, CallInv, Goto, Threads, Pushers
<1>1. CASE EndOfInput
  BY <1>1 DEF EndOfInput
<1>2. ASSUME ~EndOfInput PROVE call'[Main] = "destroy" => call[Main] = "destroy"
  BY <1>2
     DEF Next, Step, Enter, Acquire, Reacquire, Sleep, Store, Refuse, Take, MarkDestroyed,
         Leave, Broadcast, MutexDestroy, CondDestroy, Free, FinishJob, HelperStops,
         SpuriousWakeup, MakeJob, Join
<1>3. ASSUME NEW h \in Helpers, pc[h] = "done" PROVE pc'[h] = "done"
  BY <1>3
     DEF Next, Step, Enter, Acquire, Reacquire, Sleep, Store, Refuse, Take, MarkDestroyed,
         Leave, Broadcast, MutexDestroy, CondDestroy, Free, FinishJob, HelperStops,
         SpuriousWakeup, MakeJob, EndOfInput, Join
<1> QED BY <1>1, <1>2, <1>3

\* If nobody pushes late, no job is stored in a destroyed queue.
LEMMA NoLateStore ==
  ASSUME IInv, NoLatePush, destroyed
  PROVE  \A t \in Threads : ~Store(t)
BY ThreadAssumption DEF Store, IInv, CallInv, JoinInv, NoLatePush, Threads, Pushers

LEMMA SleepStep == ASSUME IInv, Next PROVE SleepInv'
<1> USE DEF IInv, TypeOK, SleepInv, Goto
<1>1. ASSUME NEW t \in Threads, Sleep(t) PROVE SleepInv'
  BY <1>1 DEF Sleep
<1>2. ASSUME NEW t \in Threads, Store(t) PROVE SleepInv'
  <2>1. PICK left \in AfterSignal("pop") : asleep' = [asleep EXCEPT !["pop"] = left]
    BY <1>2 DEF Store, SignalPop
  <2>2. left \subseteq asleep["pop"]
    BY SignalLemma DEF Ops
  <2> QED BY <1>2, <2>1, <2>2 DEF Store, Ops
<1>3. ASSUME NEW t \in Threads, Take(t) PROVE SleepInv'
  <2>1. PICK pushers \in AfterSignal("push"), mains \in AfterSignal("destroy") :
          asleep' = [asleep EXCEPT !["push"] = pushers, !["destroy"] = mains]
    BY <1>3 DEF Take, SignalPushAndDestroy
  <2>2. pushers \subseteq asleep["push"] /\ mains \subseteq asleep["destroy"]
    BY SignalLemma DEF Ops
  <2> QED BY <1>3, <2>1, <2>2 DEF Take, Ops
<1>4. ASSUME NEW t \in Threads, Reacquire(t) PROVE SleepInv'
  BY <1>4 DEF Reacquire
<1>5. ASSUME NEW t \in Threads, Broadcast(t) \/ SpuriousWakeup(t) PROVE SleepInv'
  BY <1>5 DEF Broadcast, WakeAllPoppers, SpuriousWakeup, Ops
<1>6. ASSUME NEW t \in Threads, pc[t] # "wait", UNCHANGED <<asleep, call>>,
             pc' = [pc EXCEPT ![t] = pc'[t]]
      PROVE  SleepInv'
  BY <1>6
<1>7. CASE EndOfInput
  BY <1>7 DEF EndOfInput, Threads, Pushers
<1>8. ASSUME NEW t \in Threads,
             \/ Enter(t) \/ Acquire(t) \/ Refuse(t) \/ MarkDestroyed(t) \/ Leave(t)
             \/ MutexDestroy(t) \/ CondDestroy(t) \/ Free(t) \/ FinishJob(t)
             \/ HelperStops(t)
      PROVE  SleepInv'
  BY <1>6, <1>8
     DEF Enter, Acquire, Refuse, MarkDestroyed, Leave, MutexDestroy, CondDestroy, Free,
         FinishJob, HelperStops
<1>9. ASSUME NEW t \in Pushers, MakeJob(t) PROVE SleepInv'
  BY <1>6, <1>9 DEF MakeJob, Threads
<1>10. CASE Join
  BY <1>6, <1>10 DEF Join, Threads, Pushers
<1> QED
  BY <1>1, <1>2, <1>3, <1>4, <1>5, <1>7, <1>8, <1>9, <1>10 DEF Next, Step

\* A thread is where it was, with the job it had, after the steps of others.
LEMMA HandFrame ==
  ASSUME IInv, NEW t \in Threads,
         pc' = [pc EXCEPT ![t] = pc'[t]],
         hand' = [hand EXCEPT ![t] = hand'[t]],
         call' = [call EXCEPT ![t] = call'[t]],
         HandOK(t)'
  PROVE  HandInv'
BY DEF IInv, TypeOK, HandInv, HandOK

LEMMA HandStep == ASSUME IInv, Next PROVE HandInv'
<1> USE DEF Goto
<1>w. /\ \A t \in Threads : HandOK(t)
      /\ pc \in [Threads -> Places] /\ call \in [Threads -> Ops]
      /\ hand \in [Threads -> Jobs \cup {NoJob}]
      /\ NoJob \notin Jobs
  BY BoundAssumption DEF IInv, HandInv, TypeOK, Jobs
<1>c. /\ \A t \in Workers : call[t] = "pop" /\ t \in Threads /\ t \notin Pushers
      /\ \A t \in Pushers : call[t] \in {"push", "destroy"} /\ t \in Threads
      /\ \A t \in Threads : t \in Workers \/ t \in Pushers
      /\ Main \in Pushers
  BY ThreadAssumption DEF IInv, CallInv, Threads, Pushers
<1>1. ASSUME NEW t \in Threads, Enter(t) \/ Acquire(t) \/ Reacquire(t) \/ Sleep(t)
      PROVE  HandInv'
  BY <1>1, <1>w, <1>c, HandFrame DEF Enter, Acquire, Reacquire, Sleep, HandOK
<1>2. ASSUME NEW t \in Threads, Store(t) PROVE HandInv'
  BY <1>2, <1>w, <1>c, HandFrame DEF Store, HandOK
<1>3. ASSUME NEW t \in Threads, Take(t) PROVE HandInv'
  <2>1. buffer[top] \in Jobs
    <3>1. popped' \in Seq(Jobs) /\ popped' = Append(popped, buffer[top])
      BY <1>3, TypeStep DEF Take, TypeOK
    <3>2. Len(popped') = Len(popped) + 1 /\ popped'[Len(popped) + 1] = buffer[top]
      BY <3>1 DEF IInv, TypeOK
    <3> QED BY <3>1, <3>2 DEF IInv, TypeOK
  <2>2. t \in Workers /\ pc'[t] = "leave" /\ hand'[t] = buffer[top]
    BY <1>3, <1>w, <1>c DEF Take
  <2>3. /\ pc' = [pc EXCEPT ![t] = pc'[t]] /\ hand' = [hand EXCEPT ![t] = hand'[t]]
        /\ call' = [call EXCEPT ![t] = call'[t]] /\ call' = call
    BY <1>3, <1>w DEF Take
  <2>4. HandOK(t)'
    BY <1>c, <2>1, <2>2, <2>3 DEF HandOK
  <2> QED BY <2>3, <2>4, HandFrame
<1>4. ASSUME NEW t \in Threads, Refuse(t) \/ MarkDestroyed(t) PROVE HandInv'
  BY <1>4, <1>w, <1>c, HandFrame DEF Refuse, MarkDestroyed, HandOK
<1>5. ASSUME NEW t \in Threads, Leave(t) PROVE HandInv'
  <2>1. /\ pc[t] = "fail" => pc'[t] = "done"
        /\ pc[t] # "fail" /\ t \in Workers => pc'[t] = "work"
        /\ pc[t] # "fail" /\ t \in Pushers => pc'[t] \in {"idle", "broadcast"}
    BY <1>5, <1>w, <1>c DEF Leave
  <2>2. pc[t] \in {"leave", "fail"} /\ pc' = [pc EXCEPT ![t] = pc'[t]] /\ UNCHANGED <<hand, call>>
    BY <1>5, <1>w DEF Leave
  <2> QED BY <1>w, <1>c, <2>1, <2>2, HandFrame DEF HandOK
<1>6. ASSUME NEW t \in Threads,
             Broadcast(t) \/ MutexDestroy(t) \/ CondDestroy(t) \/ Free(t)
      PROVE  HandInv'
  <2>1. /\ t \notin Workers
        /\ pc'[t] \in Places \ {"enter", "acquire", "test", "wait", "work"}
        /\ pc' = [pc EXCEPT ![t] = pc'[t]] /\ UNCHANGED <<hand, call>>
    BY <1>6, <1>w, <1>c
       DEF Broadcast, MutexDestroy, CondDestroy, Free, HandOK, Places
  <2> QED BY <1>w, <1>c, <2>1, HandFrame DEF HandOK
<1>7. ASSUME NEW t \in Threads, FinishJob(t) PROVE HandInv'
  BY <1>7, <1>w, <1>c, HandFrame DEF FinishJob, HandOK
<1>8. ASSUME NEW t \in Threads, HelperStops(t) PROVE HandInv'
  BY <1>8, <1>w, <1>c, HandFrame DEF HelperStops, HandOK
<1>9. ASSUME NEW t \in Threads, SpuriousWakeup(t) PROVE HandInv'
  BY <1>9, <1>w, HandFrame DEF SpuriousWakeup, HandOK
<1>10. ASSUME NEW t \in Pushers, MakeJob(t) PROVE HandInv'
  <2>1. made + 1 \in Jobs
    BY <1>10, BoundAssumption DEF MakeJob, IInv, TypeOK, Jobs
  <2> QED BY <1>10, <1>w, <1>c, <2>1, HandFrame DEF MakeJob, HandOK
<1>11. CASE EndOfInput
  BY <1>11, <1>w, <1>c, HandFrame DEF EndOfInput, HandOK
<1>12. CASE Join
  BY <1>12, <1>w, <1>c, HandFrame DEF Join, HandOK
<1> QED
  BY <1>1, <1>2, <1>3, <1>4, <1>5, <1>6, <1>7, <1>8, <1>9, <1>10, <1>11, <1>12
     DEF Next, Step

LEMMA NoLostWakeupStep == ASSUME IInv, Next PROVE NoLostWakeup'
<1> USE ThreadAssumption DEF IInv, TypeOK, SleepInv, CallInv, NoLostWakeup, Goto
<1>1. ASSUME NEW t \in Threads, Sleep(t) PROVE NoLostWakeup'
  <2>1. num' = num /\ asleep' = [asleep EXCEPT ![call[t]] = @ \cup {t}]
    BY <1>1 DEF Sleep, queue
  <2>2. CASE call[t] = "pop"
    <3>1. num = 0
      BY <1>1, <2>2 DEF Sleep, MustWait
    <3> QED BY <2>1, <2>2, <3>1 DEF Ops
  <2>3. CASE call[t] = "push"
    <3>1. num = Capacity
      BY <1>1, <2>3 DEF Sleep, MustWait
    <3> QED BY <2>1, <2>3, <3>1 DEF Ops
  <2>4. CASE call[t] = "destroy"
    <3>1. num > 0
      BY <1>1, <2>4 DEF Sleep, MustWait
    <3> QED BY <2>1, <2>4, <3>1 DEF Ops
  <2> QED BY <2>2, <2>3, <2>4 DEF Ops
<1>2. ASSUME NEW t \in Threads, Store(t) PROVE NoLostWakeup'
  <2>1. PICK left \in AfterSignal("pop") : asleep' = [asleep EXCEPT !["pop"] = left]
    BY <1>2 DEF Store, SignalPop
  <2>2. \E w \in Workers : w \notin left
    <3>1. \A u \in asleep["pop"] : u \in Workers
      BY DEF Ops, Threads, Pushers
    <3> QED BY <3>1, SignalLemma DEF Ops
  <2>3. t \in Pushers /\ t \notin asleep["push"]
    BY <1>2 DEF Store, Threads, Ops
  <2> QED BY <1>2, <2>1, <2>2, <2>3 DEF Store, Ops
<1>3. ASSUME NEW t \in Threads, Take(t) PROVE NoLostWakeup'
  <2>1. PICK pushers \in AfterSignal("push"), mains \in AfterSignal("destroy") :
          asleep' = [asleep EXCEPT !["push"] = pushers, !["destroy"] = mains]
    BY <1>3 DEF Take, SignalPushAndDestroy
  <2>2. t \in Workers /\ t \notin asleep["pop"]
    BY <1>3 DEF Take, Threads, Pushers, Ops
  <2>3. \E p \in Pushers : p \notin pushers
    <3>1. \A u \in asleep["push"] : u \in Pushers
      BY DEF Ops, Threads
    <3>2. Main \in Pushers
      BY DEF Pushers
    <3>3. /\ pushers \subseteq asleep["push"]
          /\ asleep["push"] # {} => \E u \in asleep["push"] : pushers = asleep["push"] \ {u}
      BY SignalLemma DEF Ops
    <3> QED BY <3>1, <3>2, <3>3
  <2>4. Main \notin mains
    <3>1. \A u \in asleep["destroy"] : u = Main
      BY DEF Ops, Threads, Pushers
    <3> QED BY <3>1, SignalLemma DEF Ops
  <2> QED BY <1>3, <2>1, <2>2, <2>3, <2>4 DEF Take, Ops
<1>4. ASSUME NEW t \in Threads, Broadcast(t) \/ SpuriousWakeup(t) PROVE NoLostWakeup'
  BY <1>4 DEF Broadcast, WakeAllPoppers, SpuriousWakeup, queue, Ops
<1>5. ASSUME UNCHANGED <<num, asleep>> PROVE NoLostWakeup'
  BY <1>5
<1> QED
  BY <1>1, <1>2, <1>3, <1>4, <1>5
     DEF Next, Step, Enter, Acquire, Reacquire, Refuse, MarkDestroyed, Leave,
         MutexDestroy, CondDestroy, Free, FinishJob, HelperStops, MakeJob, EndOfInput,
         Join, queue

\* Steps that touch neither the ring nor the histories.
LEMMA QuietSteps ==
  ASSUME Next,
         \A t \in Threads : ~Store(t) /\ ~Take(t)
  PROVE  UNCHANGED <<num, top, rear, buffer, pushed, popped>>
BY DEF Next, Step, Enter, Acquire, Reacquire, Sleep, Refuse, MarkDestroyed, Leave,
       Broadcast, MutexDestroy, CondDestroy, Free, FinishJob, HelperStops,
       SpuriousWakeup, MakeJob, EndOfInput, Join, queue, history

LEMMA DestroyedIsStable == ASSUME IInv, Next PROVE destroyed => destroyed'
BY DEF Next, Step, Enter, Acquire, Reacquire, Sleep, Store, Refuse, Take, MarkDestroyed,
       Leave, Broadcast, MutexDestroy, CondDestroy, Free, FinishJob, HelperStops,
       SpuriousWakeup, MakeJob, EndOfInput, Join, queue

LEMMA RingStep == ASSUME IInv, Next PROVE RingHoldsTheBacklog'
<1> SUFFICES ASSUME ~destroyed' PROVE RingHoldsTheBacklog'
  BY DEF RingHoldsTheBacklog
<1>a. ~destroyed
  BY DestroyedIsStable
<1>b. /\ Capacity \in Nat \ {0} /\ num \in 0..Capacity
      /\ top \in Slots /\ rear \in Slots
      /\ buffer \in [Slots -> Jobs \cup {NoJob}]
      /\ pushed \in Seq(Jobs) /\ popped \in Seq(Jobs)
  BY <1>a, BoundAssumption DEF IInv, TypeOK, RingHoldsTheBacklog
<1>c. Len(pushed) = Len(popped) + num /\ Len(pushed) \in Nat /\ Len(popped) \in Nat
  BY <1>a DEF IInv, TypeOK, RingHoldsTheBacklog
<1>d. \A i \in 1..Len(popped) : popped[i] = pushed[i]
  BY <1>a DEF IInv, RingHoldsTheBacklog
<1>e. \A i \in 0..(num - 1) : buffer[Wrap(top + i)] = pushed[Len(popped) + i + 1]
  BY <1>a DEF IInv, RingHoldsTheBacklog, At
<1>f. (num < Capacity => rear = Wrap(top + num)) /\ (num = Capacity => rear = top)
  BY <1>a DEF IInv, RingHoldsTheBacklog, At
<1>1. ASSUME NEW t \in Threads, Store(t) PROVE RingHoldsTheBacklog'
  <2>1. num \in 0..(Capacity - 1) /\ num' = num + 1 /\ top' = top /\ popped' = popped
    BY <1>1, <1>a, <1>b DEF Store, MustWait
  <2>2. /\ pushed' = Append(pushed, hand[t])
        /\ buffer' = [buffer EXCEPT ![Wrap(top + num)] = hand[t]]
    <3>1. rear = Wrap(top + num)
      BY <1>b, <1>f, <2>1
    <3> QED BY <1>1, <3>1 DEF Store
  <2>3. hand[t] \in Jobs
    BY <1>1 DEF Store, IInv, HandInv, HandOK
  <2>4. /\ Len(pushed') = Len(pushed) + 1
        /\ \A i \in 1..Len(pushed) : pushed'[i] = pushed[i]
        /\ pushed'[Len(pushed) + 1] = hand[t]
    BY <1>b, <2>2, <2>3
  <2>5. ASSUME NEW i \in 0..num
        PROVE  buffer'[Wrap(top + i)] = pushed'[Len(popped) + i + 1]
    <3>1. /\ Wrap(top + i) \in Slots /\ Wrap(top + num) \in Slots
          /\ Wrap(top + i) = Wrap(top + num) => i = num
      BY <1>b, <2>1, RingPlaces
    <3>2. CASE i = num
      BY <1>b, <1>c, <2>2, <2>4, <3>1, <3>2
    <3>3. CASE i # num
      <4>1. buffer'[Wrap(top + i)] = buffer[Wrap(top + i)]
        BY <1>b, <2>2, <3>1, <3>3
      <4>2. i \in 0..(num - 1) /\ Len(popped) + i + 1 \in 1..Len(pushed)
        BY <1>b, <1>c, <2>1, <3>3
      <4> QED BY <1>e, <2>4, <4>1, <4>2
    <3> QED BY <3>2, <3>3
  <2>6. rear' = Wrap(Wrap(top + num) + 1)
    BY <1>1, <1>b, <1>f, <2>1, NextSlotLemma DEF Store
  <2>7. /\ num' < Capacity => rear' = Wrap(top + num')
        /\ num' = Capacity => rear' = top
    BY <1>b, <2>1, <2>6, RingMoves
  <2>8. \A i \in 1..Len(popped) : popped[i] = pushed'[i]
    BY <1>b, <1>c, <1>d, <2>4
  <2>9. num' <= Capacity /\ Len(pushed') = Len(popped) + num' /\ num' - 1 = num
    BY <1>b, <1>c, <2>1, <2>4
  <2> QED BY <2>1, <2>5, <2>7, <2>8, <2>9 DEF RingHoldsTheBacklog, At
<1>2. ASSUME NEW t \in Threads, Take(t) PROVE RingHoldsTheBacklog'
  <2>1. num \in 1..Capacity /\ num' = num - 1 /\ rear' = rear /\ pushed' = pushed
    BY <1>2, <1>a, <1>b DEF Take, PopTakes, MustWait
  <2>2. /\ popped' = Append(popped, buffer[top])
        /\ buffer' = [buffer EXCEPT ![top] = NoJob]
    BY <1>2 DEF Take
  <2>3. top' = Wrap(top + 1)
    BY <1>2, <1>b, NextSlotLemma DEF Take
  <2>4. buffer[top] = pushed[Len(popped) + 1] /\ buffer[top] \in Jobs
    <3>1. 0 \in 0..(num - 1) /\ Len(popped) + 1 \in 1..Len(pushed)
      BY <1>c, <2>1
    <3>2. buffer[Wrap(top + 0)] = pushed[Len(popped) + 0 + 1]
      BY <1>e, <3>1
    <3> QED BY <1>b, <1>c, <3>1, <3>2, RingPlaces
  <2>5. /\ Len(popped') = Len(popped) + 1
        /\ \A i \in 1..Len(popped) : popped'[i] = popped[i]
        /\ popped'[Len(popped) + 1] = pushed[Len(popped) + 1]
    BY <1>b, <2>2, <2>4
  <2>6. \A i \in 1..Len(popped') : popped'[i] = pushed[i]
    BY <1>c, <1>d, <2>5
  <2>7. ASSUME NEW i \in 0..(num' - 1)
        PROVE  buffer'[Wrap(top' + i)] = pushed[Len(popped') + i + 1]
    <3>1. /\ i \in 0..(Capacity - 1) /\ i + 1 \in 0..(Capacity - 1) /\ i + 1 < Capacity
          /\ i + 1 \in 0..(num - 1) /\ 0 \in 0..(Capacity - 1) /\ i + 1 # 0
      BY <1>b, <2>1
    <3>2. Wrap(top' + i) = Wrap(top + (i + 1))
      BY <1>b, <2>3, <3>1, RingMoves
    <3>3. Wrap(top + (i + 1)) \in Slots /\ Wrap(top + (i + 1)) # top
      BY <1>b, <3>1, RingPlaces
    <3>4. buffer[Wrap(top + (i + 1))] = pushed[Len(popped) + (i + 1) + 1]
      BY <1>e, <3>1
    <3>5. Len(popped') + i + 1 = Len(popped) + (i + 1) + 1
      BY <1>c, <2>5, <3>1
    <3> QED BY <1>b, <2>2, <3>2, <3>3, <3>4, <3>5
  <2>8. num' < Capacity => rear = Wrap(top' + num')
    <3>1. num' \in 0..(Capacity - 1) /\ num' + 1 = num
      BY <1>b, <2>1
    <3>2. CASE num = Capacity
      <4>1. Wrap(Wrap(top + 1) + num') = top
        BY <1>b, <3>1, <3>2, RingMoves
      <4> QED BY <1>f, <2>3, <3>2, <4>1
    <3>3. CASE num < Capacity
      <4>1. Wrap(Wrap(top + 1) + num') = Wrap(top + (num' + 1))
        BY <1>b, <3>1, <3>3, RingMoves
      <4> QED BY <1>f, <2>3, <3>1, <3>3, <4>1
    <3> QED BY <1>b, <3>2, <3>3
  <2>9. num' < Capacity /\ Len(pushed) = Len(popped') + num' /\ num' \in Nat
    BY <1>b, <1>c, <2>1, <2>5
  <2> QED BY <1>b, <2>1, <2>6, <2>7, <2>8, <2>9 DEF RingHoldsTheBacklog, At
<1>3. ASSUME UNCHANGED <<num, top, rear, buffer, pushed, popped>>
      PROVE  RingHoldsTheBacklog'
  BY <1>3, <1>a DEF IInv, RingHoldsTheBacklog, At
<1> QED BY <1>1, <1>2, <1>3, QuietSteps

LEMMA DrainedStep == ASSUME IInv, Next PROVE DestroyedMeansDrained'
<1> SUFFICES ASSUME NoLatePush, destroyed' PROVE num' = 0 /\ popped' = pushed'
  BY DEF DestroyedMeansDrained
<1>1. CASE destroyed
  <2>1. num = 0 /\ popped = pushed
    BY <1>1 DEF IInv, DestroyedMeansDrained
  <2>2. \A t \in Threads : ~Take(t)
    BY <1>1 DEF Take, PopTakes
  <2>3. \A t \in Threads : ~Store(t)
    BY <1>1, NoLateStore
  <2> QED BY <2>1, <2>2, <2>3, QuietSteps
<1>2. CASE ~destroyed
  <2>1. PICK t \in Threads : MarkDestroyed(t)
    BY <1>2
       DEF Next, Step, Enter, Acquire, Reacquire, Sleep, Store, Refuse, Take, Leave,
           Broadcast, MutexDestroy, CondDestroy, Free, FinishJob, HelperStops,
           SpuriousWakeup, MakeJob, EndOfInput, Join, queue, IInv, TypeOK
  <2>2. num = 0 /\ UNCHANGED <<num, popped, pushed>>
    BY <2>1 DEF MarkDestroyed, MustWait, IInv, TypeOK, history
  <2>3. Len(popped) = Len(pushed) /\ \A i \in 1..Len(popped) : popped[i] = pushed[i]
    BY <1>2, <2>2 DEF IInv, TypeOK, RingHoldsTheBacklog
  <2>4. popped = pushed
    BY <2>3 DEF IInv, TypeOK
  <2> QED BY <2>2, <2>4
<1> QED BY <1>1, <1>2

LEMMA Stutter == ASSUME IInv, UNCHANGED vars PROVE IInv'
BY DEF IInv, TypeOK, LockInv, MutualExclusion, Critical, CallInv, SleepInv, HandInv,
       HandOK, JoinInv, RingHoldsTheBacklog, At, DestroyedMeansDrained, NoLostWakeup, vars

LEMMA Invariance == Spec => []IInv
<1>1. IInv /\ [Next]_vars => IInv'
  <2>1. ASSUME IInv, Next PROVE IInv'
    BY <2>1, TypeStep, LockStep, CallStep, JoinStep, SleepStep, HandStep, RingStep, DrainedStep,
       NoLostWakeupStep DEF IInv
  <2> QED BY <2>1, Stutter
<1> QED BY <1>1, Initially, PTL DEF Spec

-----------------------------------------------------------------------------
(* What the queue guarantees, for any number of threads, slots and jobs.   *)

\* Every variable of the queue keeps its type in every run.
THEOREM TypeCorrect == Spec => []TypeOK
<1>1. IInv => TypeOK
  BY DEF IInv
<1> QED BY <1>1, Invariance, PTL

\* Whatever threads push, pop and destroy, no two are inside the queue's
\* critical sections (job_queue.c 30-37, 49-61, 66-85) before it is destroyed.
THEOREM CriticalSectionsExclude == Spec => []MutualExclusion
<1>1. IInv => MutualExclusion
  BY DEF IInv, LockInv
<1> QED BY <1>1, Invariance, PTL

\* The ring buffer is a first-in-first-out queue of the jobs pushed and not
\* yet popped, for every capacity, any number of pushers and any number of
\* workers: no job is lost, duplicated, reordered or overwritten.
THEOREM RingIsCorrect == Spec => []RingHoldsTheBacklog
<1>1. IInv => RingHoldsTheBacklog
  BY DEF IInv
<1> QED BY <1>1, Invariance, PTL

\* If nobody pushes late, job_queue_destroy marks the queue only when
\* every job has been handed to a worker.
THEOREM DestroyDrains == Spec => []DestroyedMeansDrained
<1>1. IInv => DestroyedMeansDrained
  BY DEF IInv
<1> QED BY <1>1, Invariance, PTL

\* The three condition variables lose no wake-up: all the workers asleep means
\* an empty queue, all the pushers asleep a full one, main asleep in
\* job_queue_destroy one that still holds a job.
THEOREM WakeupsAreNotLost == Spec => []NoLostWakeup
<1>1. IInv => NoLostWakeup
  BY DEF IInv
<1> QED BY <1>1, Invariance, PTL

\* If nobody pushes late, no operation touches the buffer once
\* job_queue_destroy has freed it.
THEOREM FreedBufferIsLeftAlone == Spec => NoUseAfterFree
<1>1. ASSUME IInv, [Next]_vars, NoLatePush, freed
      PROVE  buffer' = buffer /\ popped' = popped
  <2>1. destroyed
    BY <1>1 DEF IInv, LockInv
  <2>2. \A t \in Threads : ~Take(t)
    BY <2>1 DEF Take, PopTakes
  <2>3. \A t \in Threads : ~Store(t)
    BY <1>1, <2>1, NoLateStore
  <2> QED BY <1>1, <2>2, <2>3, QuietSteps DEF vars
<1>2. IInv /\ [Next]_vars => [NoLatePush /\ freed => buffer' = buffer /\ popped' = popped]_vars
  BY <1>1
<1> QED BY <1>2, Invariance, PTL DEF Spec, NoUseAfterFree

-----------------------------------------------------------------------------
(* Refinement: the queue implements JobFifo.                               *)

\* The backlog as a sequence.
LEMMA BacklogIsASequence ==
  IInv /\ ~destroyed =>
    /\ Backlog \in Seq(Jobs)
    /\ Len(Backlog) = num
    /\ \A i \in 1..num : Backlog[i] = pushed[Len(popped) + i]
<1> SUFFICES ASSUME IInv, ~destroyed
             PROVE  /\ Backlog \in Seq(Jobs)
                    /\ Len(Backlog) = num
                    /\ \A i \in 1..num : Backlog[i] = pushed[Len(popped) + i]
  OBVIOUS
<1>1. num \in Nat /\ Len(pushed) = Len(popped) + num /\ Len(popped) \in Nat /\ pushed \in Seq(Jobs)
  BY DEF IInv, TypeOK, RingHoldsTheBacklog
<1>2. ASSUME NEW i \in 1..num
      PROVE  buffer[At(i - 1)] = pushed[Len(popped) + i] /\ pushed[Len(popped) + i] \in Jobs
  <2>1. i - 1 \in 0..(num - 1) /\ Len(popped) + (i - 1) + 1 = Len(popped) + i
    BY <1>1
  <2>2. buffer[At(i - 1)] = pushed[Len(popped) + (i - 1) + 1]
    BY <2>1 DEF IInv, RingHoldsTheBacklog
  <2>3. Len(popped) + i \in 1..Len(pushed)
    BY <1>1
  <2> QED BY <1>1, <2>1, <2>2, <2>3
<1>3. Backlog \in [1..num -> Jobs]
  BY <1>2 DEF Backlog
<1> QED BY <1>1, <1>2, <1>3 DEF Backlog

\* The same of the backlog after a step.
LEMMA NextBacklogIsASequence ==
  (IInv /\ ~destroyed)' =>
    /\ Backlog' \in Seq(Jobs)
    /\ Len(Backlog') = num'
    /\ \A i \in 1..num' : Backlog'[i] = pushed'[Len(popped') + i]
<1>1. (IInv /\ ~destroyed =>
         /\ Backlog \in Seq(Jobs)
         /\ Len(Backlog) = num
         /\ \A i \in 1..num : Backlog[i] = pushed[Len(popped) + i])'
  BY BacklogIsASequence, PTL
<1> QED BY <1>1

LEMMA InitImplements == Init => Fifo!Init
<1> SUFFICES ASSUME Init PROVE Fifo!Init
  OBVIOUS
<1>1. Backlog = <<>>
  BY DEF Init, Backlog
<1>2. [w \in Workers |-> hand[w]] = [w \in Workers |-> NoJob]
  BY DEF Init, Threads
<1>3. {w \in Workers : pc[w] = "done"} = {}
  BY DEF Init, Threads
<1> QED BY <1>1, <1>2, <1>3 DEF Init, Fifo!Init

LEMMA StoreImplementsPut ==
  ASSUME IInv, IInv', NoLatePush, NEW t \in Threads, Store(t)
  PROVE  Fifo!Put(hand[t]) /\ hand[t] \in Jobs
<1>1. ~destroyed /\ ~destroyed' /\ t \notin Workers
  BY NoLateStore, ThreadAssumption DEF Store, IInv, CallInv, queue, Threads, Pushers
<1>2. hand[t] \in Jobs
  BY DEF Store, IInv, HandInv, HandOK
<1>3. Len(Backlog) < Capacity
  BY <1>1, BacklogIsASequence, BoundAssumption
     DEF Store, MustWait, IInv, TypeOK, RingHoldsTheBacklog
<1>4. Backlog' = Append(Backlog, hand[t])
  <2>1. /\ Backlog \in Seq(Jobs) /\ Len(Backlog) = num
        /\ \A i \in 1..num : Backlog[i] = pushed[Len(popped) + i]
    BY <1>1, BacklogIsASequence
  <2>2. /\ Backlog' \in Seq(Jobs) /\ Len(Backlog') = num + 1
        /\ \A i \in 1..(num + 1) : Backlog'[i] = pushed'[Len(popped) + i]
    <3>1. /\ Backlog' \in Seq(Jobs) /\ Len(Backlog') = num'
          /\ \A i \in 1..num' : Backlog'[i] = pushed'[Len(popped') + i]
      BY <1>1, NextBacklogIsASequence
    <3> QED BY <3>1 DEF Store
  <2>3. /\ \A i \in 1..num : pushed'[Len(popped) + i] = pushed[Len(popped) + i]
        /\ pushed'[Len(popped) + num + 1] = hand[t]
    <3>1. /\ pushed' = Append(pushed, hand[t]) /\ Len(pushed) = Len(popped) + num
          /\ pushed \in Seq(Jobs) /\ Len(popped) \in Nat /\ num \in Nat
      BY <1>1 DEF Store, IInv, TypeOK, RingHoldsTheBacklog
    <3>2. \A k \in 1..Len(pushed) : pushed'[k] = pushed[k]
      BY <1>2, <3>1
    <3>3. pushed'[Len(pushed) + 1] = hand[t]
      BY <1>2, <3>1
    <3> QED BY <3>1, <3>2, <3>3
  <2>4. num \in Nat
    BY DEF IInv, TypeOK
  <2>5. Append(Backlog, hand[t]) \in Seq(Jobs) /\ Len(Append(Backlog, hand[t])) = num + 1
    BY <1>2, <2>1
  <2>6. ASSUME NEW i \in 1..(num + 1) PROVE Backlog'[i] = Append(Backlog, hand[t])[i]
    <3>1. CASE i = num + 1
      BY <1>2, <2>1, <2>2, <2>3, <2>4, <3>1
    <3>2. CASE i # num + 1
      <4>1. i \in 1..num
        BY <2>4, <3>2
      <4>2. Append(Backlog, hand[t])[i] = Backlog[i]
        BY <1>2, <2>1, <4>1
      <4> QED BY <2>1, <2>2, <2>3, <4>1, <4>2
    <3> QED BY <3>1, <3>2
  <2> QED BY <2>2, <2>4, <2>5, <2>6
<1>5. [w \in Workers |-> hand[w]]' = [w \in Workers |-> hand[w]]
  BY <1>1 DEF Store, IInv, TypeOK
<1>6. {w \in Workers : pc[w] = "done"}' = {w \in Workers : pc[w] = "done"}
  BY <1>1 DEF Store, Goto, IInv, TypeOK
<1> QED BY <1>1, <1>2, <1>3, <1>4, <1>5, <1>6 DEF Fifo!Put, Store

LEMMA TakeImplementsGet ==
  ASSUME IInv, IInv', NEW t \in Threads, Take(t)
  PROVE  Fifo!Get(t) /\ t \in Workers
<1>1. ~destroyed /\ ~destroyed' /\ t \in Workers /\ num \in Nat /\ num # 0 /\ num' = num - 1
  BY DEF Take, PopTakes, MustWait, IInv, TypeOK, CallInv, Threads, Pushers
<1>2. /\ Backlog \in Seq(Jobs) /\ Len(Backlog) = num
      /\ \A i \in 1..num : Backlog[i] = pushed[Len(popped) + i]
  BY <1>1, BacklogIsASequence
<1>3. /\ Backlog' \in Seq(Jobs) /\ Len(Backlog') = num - 1
      /\ \A i \in 1..(num - 1) : Backlog'[i] = pushed'[Len(popped') + i]
  BY <1>1, NextBacklogIsASequence
<1>4. Backlog' = Tail(Backlog)
  <2>1. pushed' = pushed /\ popped' = Append(popped, buffer[top]) /\ popped \in Seq(Jobs)
    BY DEF Take, IInv, TypeOK
  <2>2. Len(popped') = Len(popped) + 1 /\ Len(popped) \in Nat
    BY <2>1
  <2>3. ASSUME NEW i \in 1..(num - 1) PROVE Backlog'[i] = Tail(Backlog)[i]
    <3>1. i + 1 \in 1..num /\ Len(popped') + i = Len(popped) + (i + 1)
      BY <1>1, <2>2
    <3>2. Tail(Backlog)[i] = Backlog[i + 1]
      BY <1>1, <1>2
    <3> QED BY <1>2, <1>3, <2>1, <3>1, <3>2
  <2>4. Tail(Backlog) \in Seq(Jobs) /\ Len(Tail(Backlog)) = num - 1
    BY <1>1, <1>2
  <2> QED BY <1>3, <2>3, <2>4
<1>5. Head(Backlog) = buffer[top]
  <2>1. Backlog[1] = buffer[At(1 - 1)]
    BY <1>1 DEF Backlog
  <2>2. At(1 - 1) = top
    BY RingPlaces DEF At, IInv, TypeOK
  <2> QED BY <1>1, <1>2, <2>1, <2>2
<1>6. Backlog # <<>>
  BY <1>1, <1>2
<1>7. hand[t] = NoJob
  BY <1>1 DEF Take, IInv, TypeOK, HandInv, HandOK
<1>8. [w \in Workers |-> hand[w]]' =
        [[w \in Workers |-> hand[w]] EXCEPT ![t] = Head(Backlog)]
  BY <1>1, <1>5 DEF Take, IInv, TypeOK, Threads
<1>9. {w \in Workers : pc[w] = "done"}' = {w \in Workers : pc[w] = "done"}
  BY <1>1 DEF Take, Goto, IInv, TypeOK, Threads
<1>10. t \notin {w \in Workers : pc[w] = "done"}
  BY DEF Take
<1>11. [w \in Workers |-> hand[w]][t] = NoJob
  BY <1>1, <1>7
<1> QED BY <1>1, <1>4, <1>6, <1>8, <1>9, <1>10, <1>11 DEF Fifo!Get, Take

\* Steps that change nothing a caller can see.
LEMMA InvisibleSteps ==
  ASSUME IInv, UNCHANGED <<num, top, buffer, destroyed, hand>>,
         \A w \in Workers : pc'[w] = "done" <=> pc[w] = "done"
  PROVE  UNCHANGED Fifo!fifoVars
<1>1. Backlog' = Backlog
  BY DEF Backlog, At
<1>2. [w \in Workers |-> hand[w]]' = [w \in Workers |-> hand[w]]
  OBVIOUS
<1>3. {w \in Workers : pc[w] = "done"}' = {w \in Workers : pc[w] = "done"}
  OBVIOUS
<1> QED BY <1>1, <1>2, <1>3 DEF Fifo!fifoVars

LEMMA StepImplements ==
  ASSUME IInv, IInv', NoLatePush, Next
  PROVE  [Fifo!Next]_Fifo!fifoVars
<1> USE DEF Goto
<1>w. /\ pc \in [Threads -> Places] /\ hand \in [Threads -> Jobs \cup {NoJob}]
      /\ \A w \in Workers : w \in Threads
      /\ Main \notin Workers /\ Helpers \cap Workers = {}
      /\ NoJob \notin Jobs
  BY ThreadAssumption, BoundAssumption DEF IInv, TypeOK, Threads, Pushers, Jobs
<1>1. ASSUME NEW t \in Threads, Store(t) PROVE Fifo!Next
  BY <1>1, StoreImplementsPut DEF Fifo!Next
<1>2. ASSUME NEW t \in Threads, Take(t) PROVE Fifo!Next
  BY <1>2, TakeImplementsGet DEF Fifo!Next
<1>3. ASSUME NEW t \in Threads, MarkDestroyed(t) PROVE Fifo!Next
  <2>1. num = 0 /\ UNCHANGED <<num, top, buffer, hand>>
    BY <1>3 DEF MarkDestroyed, MustWait, IInv, TypeOK
  <2>2. Backlog = <<>> /\ Backlog' = <<>>
    BY <2>1 DEF Backlog
  <2>3. [w \in Workers |-> hand[w]]' = [w \in Workers |-> hand[w]]
    BY <2>1
  <2>4. {w \in Workers : pc[w] = "done"}' = {w \in Workers : pc[w] = "done"}
    BY <1>3, <1>w DEF MarkDestroyed
  <2> QED BY <1>3, <2>2, <2>3, <2>4 DEF MarkDestroyed, Fifo!Next, Fifo!Close
<1>4. ASSUME NEW t \in Workers, FinishJob(t) PROVE Fifo!Next
  <2>1. Backlog' = Backlog /\ destroyed' = destroyed
    BY <1>4 DEF FinishJob, queue, Backlog, At
  <2>2. [w \in Workers |-> hand[w]]' = [[w \in Workers |-> hand[w]] EXCEPT ![t] = NoJob]
    BY <1>4, <1>w DEF FinishJob
  <2>3. {w \in Workers : pc[w] = "done"}' = {w \in Workers : pc[w] = "done"}
    BY <1>4, <1>w DEF FinishJob
  <2>4. hand[t] # NoJob
    BY <1>4, <1>w DEF FinishJob, IInv, HandInv, HandOK
  <2> QED BY <1>4, <2>1, <2>2, <2>3, <2>4 DEF Fifo!Next, Fifo!Finish
<1>5. ASSUME NEW t \in Workers, pc[t] = "fail", Leave(t) PROVE Fifo!Next
  <2>1. Backlog' = Backlog /\ UNCHANGED <<destroyed, hand>>
    BY <1>5 DEF Leave, queue, Backlog, At
  <2>2. [w \in Workers |-> hand[w]]' = [w \in Workers |-> hand[w]]
    BY <2>1
  <2>3. {w \in Workers : pc[w] = "done"}' = {w \in Workers : pc[w] = "done"} \cup {t}
    BY <1>5, <1>w DEF Leave
  <2>4. destroyed /\ hand[t] = NoJob
    BY <1>5, <1>w DEF IInv, LockInv, HandInv, HandOK
  <2>5. t \notin {w \in Workers : pc[w] = "done"}
    BY <1>5
  <2> QED BY <1>5, <1>w, <2>1, <2>2, <2>3, <2>4, <2>5 DEF Fifo!Next, Fifo!End
<1>6. ASSUME NEW t \in Threads, Leave(t), t \notin Workers \/ pc[t] # "fail"
      PROVE  UNCHANGED Fifo!fifoVars
  <2>1. UNCHANGED <<num, top, buffer, destroyed, hand>>
    BY <1>6 DEF Leave, queue
  <2>2. t \in Workers => pc'[t] = "work" /\ pc[t] = "leave"
    BY <1>6, <1>w DEF Leave, IInv, CallInv
  <2>3. \A w \in Workers : w # t => pc'[w] = pc[w]
    BY <1>6, <1>w DEF Leave
  <2> QED BY <2>1, <2>2, <2>3, InvisibleSteps
<1>7. ASSUME NEW t \in Threads,
             \/ Enter(t) \/ Acquire(t) \/ Reacquire(t) \/ Sleep(t) \/ Refuse(t)
             \/ SpuriousWakeup(t)
      PROVE  UNCHANGED Fifo!fifoVars
  <2>1. UNCHANGED <<num, top, buffer, destroyed, hand>>
    BY <1>7 DEF Enter, Acquire, Reacquire, Sleep, Refuse, SpuriousWakeup, queue
  <2>2. \A w \in Workers : pc'[w] = "done" <=> pc[w] = "done"
    BY <1>7, <1>w DEF Enter, Acquire, Reacquire, Sleep, Refuse, SpuriousWakeup
  <2> QED BY <2>1, <2>2, InvisibleSteps
<1>8. ASSUME NEW t \in Threads,
             \/ Broadcast(t) \/ MutexDestroy(t) \/ CondDestroy(t) \/ Free(t)
             \/ HelperStops(t)
      PROVE  UNCHANGED Fifo!fifoVars
  <2>1. UNCHANGED <<num, top, buffer, destroyed, hand>>
    BY <1>8 DEF Broadcast, MutexDestroy, CondDestroy, Free, HelperStops, queue
  <2>2. pc[t] \in {"broadcast", "mutex_destroy", "cond_destroy_destroy",
                   "cond_destroy_pop", "cond_destroy_push", "free", "idle"}
    BY <1>8 DEF Broadcast, MutexDestroy, CondDestroy, Free, HelperStops
  <2>3. t \notin Workers
    BY <2>2 DEF IInv, HandInv, HandOK
  <2>4. \A w \in Workers : pc'[w] = pc[w]
    BY <1>8, <1>w, <2>3 DEF Broadcast, MutexDestroy, CondDestroy, Free, HelperStops
  <2> QED BY <2>1, <2>4, InvisibleSteps
<1>9. ASSUME NEW t \in Pushers, MakeJob(t) PROVE UNCHANGED Fifo!fifoVars
  <2>1. Backlog' = Backlog /\ destroyed' = destroyed
    BY <1>9 DEF MakeJob, queue, Backlog, At
  <2>2. [w \in Workers |-> hand[w]]' = [w \in Workers |-> hand[w]]
    BY <1>9, <1>w DEF MakeJob, Pushers
  <2>3. {w \in Workers : pc[w] = "done"}' = {w \in Workers : pc[w] = "done"}
    BY <1>9, <1>w DEF MakeJob, Pushers
  <2> QED BY <2>1, <2>2, <2>3 DEF Fifo!fifoVars
<1>10. CASE EndOfInput \/ Join
  <2>1. UNCHANGED <<num, top, buffer, destroyed, hand>>
    BY <1>10 DEF EndOfInput, Join, queue
  <2>2. \A w \in Workers : pc'[w] = pc[w]
    BY <1>10, <1>w DEF EndOfInput, Join
  <2> QED BY <2>1, <2>2, InvisibleSteps
<1>11. ASSUME NEW t \in Threads, FinishJob(t) PROVE t \in Workers
  BY <1>11 DEF FinishJob, IInv, HandInv, HandOK, Threads
<1> QED
  BY <1>1, <1>2, <1>3, <1>4, <1>5, <1>6, <1>7, <1>8, <1>9, <1>10, <1>11 DEF Next, Step

\* If nobody pushes late, the queue of job_queue.c implements the
\* atomic first-in-first-out queue its header describes.
THEOREM QueueImplementsFifo == ASSUME NoLatePush PROVE Spec => ImplementsFifo
<1>1. IInv /\ IInv' /\ [Next]_vars => [Fifo!Next]_Fifo!fifoVars
  <2>1. ASSUME IInv, UNCHANGED vars PROVE UNCHANGED Fifo!fifoVars
    BY <2>1, InvisibleSteps DEF vars
  <2> QED BY <2>1, StepImplements
<1> QED BY <1>1, InitImplements, Invariance, PTL DEF Spec, ImplementsFifo, Fifo!Spec
=============================================================================
