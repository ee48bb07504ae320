-------------------------- MODULE ThreadPoolProofs --------------------------
(***************************************************************************)
(* Proofs about ThreadPool, for any number of workers and callers, any set *)
(* of tasks and any weights. IInv is the inductive invariant: TypeOK with  *)
(* what each program counter says of the lock, the stop flag and the task  *)
(* of its thread.                                                          *)
(***************************************************************************)
EXTENDS ThreadPool, FiniteSetTheorems, TLAPS

\* The thread inside a critical section, and nobody else, holds the mutex.
LockInv ==
    \A th \in Thread : lock = th <=> pc[th] \in {"check", "push", "stop"}

\* Only the owner runs the destructor, and stop tells how far it is.
DtorInv ==
    /\ \A c \in Caller \ {Owner} :
           pc[c] \in {"idle", "push", "notify", "get"}
    /\ stop <=> pc[Owner] \in {"notifyAll", "join", "destroyed"}

\* A worker leaves only a stopped and drained pool, and the join waits for
\* every one of them.
ExitInv ==
    /\ \A w \in Worker : pc[w] = "exit" => stop /\ queue = {}
    /\ pc[Owner] = "destroyed" => \A w \in Worker : pc[w] = "exit"

\* A worker has a task exactly while it runs it, and a task is in one place.
HeldInv ==
    /\ \A w \in Worker : held[w] # None <=> pc[w] = "run"
    /\ \A w \in Worker : held[w] \notin queue \union finished
    /\ queue \intersect finished = {}
    /\ \A v, w \in Worker : held[v] = held[w] /\ held[v] # None => v = w

\* A caller has a task from the lock to the return of get, it is nobody
\* else's, and it is new until it is pushed and accepted afterwards.
JobInv ==
    /\ \A c \in Caller : job[c] # None <=> pc[c] \in {"push", "notify", "get"}
    /\ \A c, d \in Caller : job[c] = job[d] /\ job[c] # None => c = d
    /\ \A c \in Caller : pc[c] = "push" =>
           job[c] \notin queue \union Holding \union finished \union rejected
    /\ \A c \in Caller : Waiting(c) =>
           job[c] \in queue \union Holding \union finished

\* What is queued or running belongs to a caller that is blocked.
BlockedInv ==
    \A t \in queue \union Holding : \E c \in Caller : Waiting(c) /\ job[c] = t

IInv ==
    /\ TypeOK
    /\ LockInv
    /\ DtorInv
    /\ ExitInv
    /\ HeldInv
    /\ JobInv
    /\ BlockedInv
    /\ NoLostWakeup

-----------------------------------------------------------------------------

USE WorkerAssumption, OwnerAssumption, NamesAssumption

\* The labels of workers and callers differ, so a thread is one or the other.
LEMMA InitIInv == Init => IInv
<1> SUFFICES ASSUME Init PROVE IInv
  OBVIOUS
<1> USE DEF Init, Thread
<1>1. TypeOK
  BY DEF TypeOK, WorkerLabel, CallerLabel
<1>2. LockInv
  BY DEF LockInv
<1>3. DtorInv /\ ExitInv
  BY DEF DtorInv, ExitInv
<1>4. HeldInv
  BY DEF HeldInv
<1>5. JobInv
  BY DEF JobInv, Waiting
<1>6. BlockedInv /\ NoLostWakeup
  BY DEF BlockedInv, NoLostWakeup, Holding
<1>7. QED
  BY <1>1, <1>2, <1>3, <1>4, <1>5, <1>6 DEF IInv

\* Every step keeps IInv: one step per action, one leaf per conjunct.
LEMMA NextIInv == IInv /\ [Next]_vars => IInv'
<1> SUFFICES ASSUME IInv, [Next]_vars PROVE IInv'
  OBVIOUS
<1> USE DEF IInv, TypeOK, WorkerLabel, CallerLabel, Thread, Holding, Waiting,
            Goto, Acquire, Release
<1>1. ASSUME NEW w \in Worker, WorkerLock(w) PROVE IInv'
  <2> USE <1>1 DEF WorkerLock
  <2>1. TypeOK'
    BY DEF HeldInv, JobInv
  <2>2. LockInv'
    BY DEF LockInv
  <2>3. DtorInv'
    BY DEF LockInv, DtorInv
  <2>4. ExitInv'
    BY DEF LockInv, DtorInv, ExitInv
  <2>5. HeldInv'
    BY DEF HeldInv, JobInv
  <2>6. JobInv'
    BY DEF JobInv, HeldInv, DtorInv
  <2>7. BlockedInv'
    BY DEF BlockedInv, JobInv, HeldInv, DtorInv
  <2>8. NoLostWakeup'
    BY DEF NoLostWakeup, ExitInv, DtorInv
  <2>9. QED
    BY <2>1, <2>2, <2>3, <2>4, <2>5, <2>6, <2>7, <2>8
<1>2. ASSUME NEW w \in Worker, WorkerSleep(w) PROVE IInv'
  <2> USE <1>2 DEF WorkerSleep
  <2>1. TypeOK'
    BY DEF HeldInv, JobInv
  <2>2. LockInv'
    BY DEF LockInv
  <2>3. DtorInv'
    BY DEF LockInv, DtorInv
  <2>4. ExitInv'
    BY DEF LockInv, DtorInv, ExitInv
  <2>5. HeldInv'
    BY DEF HeldInv, JobInv
  <2>6. JobInv'
    BY DEF JobInv, HeldInv, DtorInv
  <2>7. BlockedInv'
    BY DEF BlockedInv, JobInv, HeldInv, DtorInv
  <2>8. NoLostWakeup'
    BY DEF NoLostWakeup, ExitInv, DtorInv
  <2>9. QED
    BY <2>1, <2>2, <2>3, <2>4, <2>5, <2>6, <2>7, <2>8
<1>3. ASSUME NEW w \in Worker, WorkerExit(w) PROVE IInv'
  <2> USE <1>3 DEF WorkerExit
  <2>1. TypeOK'
    BY DEF HeldInv, JobInv
  <2>2. LockInv'
    BY DEF LockInv
  <2>3. DtorInv'
    BY DEF LockInv, DtorInv
  <2>4. ExitInv'
    BY DEF LockInv, DtorInv, ExitInv
  <2>5. HeldInv'
    BY DEF HeldInv, JobInv
  <2>6. JobInv'
    BY DEF JobInv, HeldInv, DtorInv
  <2>7. BlockedInv'
    BY DEF BlockedInv, JobInv, HeldInv, DtorInv
  <2>8. NoLostWakeup'
    BY DEF NoLostWakeup, ExitInv, DtorInv
  <2>9. QED
    BY <2>1, <2>2, <2>3, <2>4, <2>5, <2>6, <2>7, <2>8
<1>4. ASSUME NEW w \in Worker, WorkerTake(w) PROVE IInv'
  <2> USE <1>4 DEF WorkerTake, Heaviest
  <2>1. TypeOK'
    BY DEF HeldInv, JobInv
  <2>2. LockInv'
    BY DEF LockInv
  <2>3. DtorInv'
    BY DEF LockInv, DtorInv
  <2>4. ExitInv'
    BY DEF LockInv, DtorInv, ExitInv
  <2>5. HeldInv'
    BY DEF HeldInv, JobInv
  <2>6. JobInv'
    BY DEF JobInv, HeldInv, DtorInv
  <2>7. BlockedInv'
    BY DEF BlockedInv, JobInv, HeldInv, DtorInv
  <2>8. NoLostWakeup'
    BY DEF NoLostWakeup, ExitInv, DtorInv
  <2>9. QED
    BY <2>1, <2>2, <2>3, <2>4, <2>5, <2>6, <2>7, <2>8
<1>5. ASSUME NEW w \in Worker, WorkerRun(w) PROVE IInv'
  <2> USE <1>5 DEF WorkerRun
  <2>1. TypeOK'
    BY DEF HeldInv, JobInv
  <2>2. LockInv'
    BY DEF LockInv
  <2>3. DtorInv'
    BY DEF LockInv, DtorInv
  <2>4. ExitInv'
    BY DEF LockInv, DtorInv, ExitInv
  <2>5. HeldInv'
    BY DEF HeldInv, JobInv
  <2>6. JobInv'
    BY DEF JobInv, HeldInv, DtorInv
  <2>7. BlockedInv'
    BY DEF BlockedInv, JobInv, HeldInv, DtorInv
  <2>8. NoLostWakeup'
    BY DEF NoLostWakeup, ExitInv, DtorInv
  <2>9. QED
    BY <2>1, <2>2, <2>3, <2>4, <2>5, <2>6, <2>7, <2>8
<1>6. ASSUME NEW w \in Worker, SpuriousWake(w) PROVE IInv'
  <2> USE <1>6 DEF SpuriousWake
  <2>1. TypeOK'
    BY DEF HeldInv, JobInv
  <2>2. LockInv'
    BY DEF LockInv
  <2>3. DtorInv'
    BY DEF LockInv, DtorInv
  <2>4. ExitInv'
    BY DEF LockInv, DtorInv, ExitInv
  <2>5. HeldInv'
    BY DEF HeldInv, JobInv
  <2>6. JobInv'
    BY DEF JobInv, HeldInv, DtorInv
  <2>7. BlockedInv'
    BY DEF BlockedInv, JobInv, HeldInv, DtorInv
  <2>8. NoLostWakeup'
    BY DEF NoLostWakeup, ExitInv, DtorInv
  <2>9. QED
    BY <2>1, <2>2, <2>3, <2>4, <2>5, <2>6, <2>7, <2>8
<1>7. ASSUME NEW c \in Caller, NEW t \in Task, EnqueueLock(c, t) PROVE IInv'
  <2> USE <1>7 DEF EnqueueLock, Used
  <2>1. TypeOK'
    BY DEF HeldInv, JobInv
  <2>2. LockInv'
    BY DEF LockInv
  <2>3. DtorInv'
    BY DEF LockInv, DtorInv
  <2>4. ExitInv'
    BY DEF LockInv, DtorInv, ExitInv
  <2>5. HeldInv'
    BY DEF HeldInv, JobInv
  <2>6. JobInv'
    BY DEF JobInv, HeldInv, DtorInv
  <2>7. BlockedInv'
    BY DEF BlockedInv, JobInv, HeldInv, DtorInv
  <2>8. NoLostWakeup'
    BY DEF NoLostWakeup, ExitInv, DtorInv
  <2>9. QED
    BY <2>1, <2>2, <2>3, <2>4, <2>5, <2>6, <2>7, <2>8
<1>8. ASSUME NEW c \in Caller, EnqueuePush(c) PROVE IInv'
  <2> USE <1>8 DEF EnqueuePush
  <2>1. TypeOK'
    BY DEF HeldInv, JobInv
  <2>2. LockInv'
    BY DEF LockInv
  <2>3. DtorInv'
    BY DEF LockInv, DtorInv
  <2>4. ExitInv'
    BY DEF LockInv, DtorInv, ExitInv
  <2>5. HeldInv'
    BY DEF HeldInv, JobInv
  <2>6. JobInv'
    BY DEF JobInv, HeldInv, DtorInv
  <2>7. BlockedInv'
    BY DEF BlockedInv, JobInv, HeldInv, DtorInv
  <2>8. NoLostWakeup'
    BY DEF NoLostWakeup, ExitInv, DtorInv
  <2>9. QED
    BY <2>1, <2>2, <2>3, <2>4, <2>5, <2>6, <2>7, <2>8
<1>9. ASSUME NEW c \in Caller, EnqueueThrow(c) PROVE IInv'
  <2> USE <1>9 DEF EnqueueThrow
  <2>1. TypeOK'
    BY DEF HeldInv, JobInv
  <2>2. LockInv'
    BY DEF LockInv
  <2>3. DtorInv'
    BY DEF LockInv, DtorInv
  <2>4. ExitInv'
    BY DEF LockInv, DtorInv, ExitInv
  <2>5. HeldInv'
    BY DEF HeldInv, JobInv
  <2>6. JobInv'
    BY DEF JobInv, HeldInv, DtorInv
  <2>7. BlockedInv'
    BY DEF BlockedInv, JobInv, HeldInv, DtorInv
  <2>8. NoLostWakeup'
    BY DEF NoLostWakeup, ExitInv, DtorInv
  <2>9. QED
    BY <2>1, <2>2, <2>3, <2>4, <2>5, <2>6, <2>7, <2>8
<1>10. ASSUME NEW c \in Caller, NotifyOne(c) PROVE IInv'
  <2> USE <1>10 DEF NotifyOne, Asleep
  <2>1. TypeOK'
    BY DEF HeldInv, JobInv
  <2>2. LockInv'
    BY DEF LockInv
  <2>3. DtorInv'
    BY DEF LockInv, DtorInv
  <2>4. ExitInv'
    BY DEF LockInv, DtorInv, ExitInv
  <2>5. HeldInv'
    BY DEF HeldInv, JobInv
  <2>6. JobInv'
    BY DEF JobInv, HeldInv, DtorInv
  <2>7. BlockedInv'
    BY DEF BlockedInv, JobInv, HeldInv, DtorInv
  <2>8. NoLostWakeup'
    BY DEF NoLostWakeup, ExitInv, DtorInv
  <2>9. QED
    BY <2>1, <2>2, <2>3, <2>4, <2>5, <2>6, <2>7, <2>8
<1>11. ASSUME NEW c \in Caller, FutureGet(c) PROVE IInv'
  <2> USE <1>11 DEF FutureGet
  <2>1. TypeOK'
    BY DEF HeldInv, JobInv
  <2>2. LockInv'
    BY DEF LockInv
  <2>3. DtorInv'
    BY DEF LockInv, DtorInv
  <2>4. ExitInv'
    BY DEF LockInv, DtorInv, ExitInv
  <2>5. HeldInv'
    BY DEF HeldInv, JobInv
  <2>6. JobInv'
    BY DEF JobInv, HeldInv, DtorInv
  <2>7. BlockedInv'
    BY DEF BlockedInv, JobInv, HeldInv, DtorInv
  <2>8. NoLostWakeup'
    BY DEF NoLostWakeup, ExitInv, DtorInv
  <2>9. QED
    BY <2>1, <2>2, <2>3, <2>4, <2>5, <2>6, <2>7, <2>8
<1>12. CASE DtorLock
  <2> USE <1>12 DEF DtorLock
  <2>1. TypeOK'
    BY DEF HeldInv, JobInv
  <2>2. LockInv'
    BY DEF LockInv
  <2>3. DtorInv'
    BY DEF LockInv, DtorInv
  <2>4. ExitInv'
    BY DEF LockInv, DtorInv, ExitInv
  <2>5. HeldInv'
    BY DEF HeldInv, JobInv
  <2>6. JobInv'
    BY DEF JobInv, HeldInv, DtorInv
  <2>7. BlockedInv'
    BY DEF BlockedInv, JobInv, HeldInv, DtorInv
  <2>8. NoLostWakeup'
    BY DEF NoLostWakeup, ExitInv, DtorInv
  <2>9. QED
    BY <2>1, <2>2, <2>3, <2>4, <2>5, <2>6, <2>7, <2>8
<1>13. CASE DtorStop
  <2> USE <1>13 DEF DtorStop
  <2>1. TypeOK'
    BY DEF HeldInv, JobInv
  <2>2. LockInv'
    BY DEF LockInv
  <2>3. DtorInv'
    BY DEF LockInv, DtorInv
  <2>4. ExitInv'
    BY DEF LockInv, DtorInv, ExitInv
  <2>5. HeldInv'
    BY DEF HeldInv, JobInv
  <2>6. JobInv'
    BY DEF JobInv, HeldInv, DtorInv
  <2>7. BlockedInv'
    BY DEF BlockedInv, JobInv, HeldInv, DtorInv
  <2>8. NoLostWakeup'
    BY DEF NoLostWakeup, ExitInv, DtorInv
  <2>9. QED
    BY <2>1, <2>2, <2>3, <2>4, <2>5, <2>6, <2>7, <2>8
<1>14. CASE DtorNotifyAll
  <2> USE <1>14 DEF DtorNotifyAll, Asleep
  <2>1. TypeOK'
    BY DEF HeldInv, JobInv
  <2>2. LockInv'
    BY DEF LockInv
  <2>3. DtorInv'
    BY DEF LockInv, DtorInv
  <2>4. ExitInv'
    BY DEF LockInv, DtorInv, ExitInv
  <2>5. HeldInv'
    BY DEF HeldInv, JobInv
  <2>6. JobInv'
    BY DEF JobInv, HeldInv, DtorInv
  <2>7. BlockedInv'
    BY DEF BlockedInv, JobInv, HeldInv, DtorInv
  <2>8. NoLostWakeup'
    BY DEF NoLostWakeup, ExitInv, DtorInv
  <2>9. QED
    BY <2>1, <2>2, <2>3, <2>4, <2>5, <2>6, <2>7, <2>8
<1>15. CASE DtorJoin
  <2> USE <1>15 DEF DtorJoin
  <2>1. TypeOK'
    BY DEF HeldInv, JobInv
  <2>2. LockInv'
    BY DEF LockInv
  <2>3. DtorInv'
    BY DEF LockInv, DtorInv
  <2>4. ExitInv'
    BY DEF LockInv, DtorInv, ExitInv
  <2>5. HeldInv'
    BY DEF HeldInv, JobInv
  <2>6. JobInv'
    BY DEF JobInv, HeldInv, DtorInv
  <2>7. BlockedInv'
    BY DEF BlockedInv, JobInv, HeldInv, DtorInv
  <2>8. NoLostWakeup'
    BY DEF NoLostWakeup, ExitInv, DtorInv
  <2>9. QED
    BY <2>1, <2>2, <2>3, <2>4, <2>5, <2>6, <2>7, <2>8
<1>16. CASE UNCHANGED vars
  BY <1>16 DEF vars, LockInv, DtorInv, ExitInv, HeldInv, JobInv, BlockedInv,
               NoLostWakeup
<1>17. QED
  BY <1>1, <1>2, <1>3, <1>4, <1>5, <1>6, <1>7, <1>8, <1>9, <1>10, <1>11, <1>12, <1>13, <1>14, <1>15, <1>16
     DEF Next, WorkerStep, CallStep, DtorStep, Terminated

\* IInv holds in every reachable state of the pool.
THEOREM Invariance == Spec => []IInv
<1>1. QED
  BY InitIInv, NextIInv, PTL DEF Spec

-----------------------------------------------------------------------------

\* Every variable of the pool keeps its type.
THEOREM TypeCorrect == Spec => []TypeOK
<1>1. IInv => TypeOK
  BY DEF IInv
<1>2. QED
  BY <1>1, Invariance, PTL

\* A queued or running write belongs to a caller blocked in sendData, and no
\* two workers run the same one, so SSL_write never runs beside the event loop.
THEOREM WritersAreBlocked == Spec => []WriterIsBlocked
<1>1. IInv => WriterIsBlocked
  BY DEF IInv, BlockedInv, HeldInv, WriterIsBlocked
<1>2. QED
  BY <1>1, Invariance, PTL

\* A non-empty queue always has an awake worker or a pending notify_one.
THEOREM WakeupsAreKept == Spec => []NoLostWakeup
<1>1. IInv => NoLostWakeup
  BY DEF IInv
<1>2. QED
  BY <1>1, Invariance, PTL

\* The destructor returns only when every accepted task has run.
THEOREM DestructorDrains == Spec => []ShutdownDrains
<1>1. ASSUME IInv, pc[Owner] = "destroyed"
      PROVE  /\ queue = {}
             /\ Holding = {}
             /\ \A c \in Caller : pc[c] = "get" => job[c] \in finished
  <2>1. \A w \in Worker : pc[w] = "exit"
    BY <1>1 DEF IInv, ExitInv
  <2>2. queue = {}
    BY <1>1, <2>1 DEF IInv, ExitInv
  <2>3. Holding = {}
    BY <1>1, <2>1 DEF IInv, HeldInv, Holding
  <2>4. QED
    BY <1>1, <2>2, <2>3 DEF IInv, JobInv, Waiting
<1>2. IInv => ShutdownDrains
  BY <1>1 DEF ShutdownDrains
<1>3. QED
  BY <1>2, Invariance, PTL

-----------------------------------------------------------------------------
(* Counting. WorkConserving is inductive by itself when IInv is known.      *)

\* A queued task has a caller of its own, so the queue is finite as they are.
LEMMA QueueFinite == IInv => IsFiniteSet(queue)
<1> SUFFICES ASSUME IInv PROVE IsFiniteSet(queue)
  OBVIOUS
<1> DEFINE jobs == {job[c] : c \in Caller}
<1>1. job \in Surjection(Caller, jobs)
  <2>1. job = [c \in Caller |-> job[c]]
    BY DEF IInv, TypeOK
  <2>2. job \in [Caller -> jobs]
    BY <2>1
  <2>3. QED
    BY <2>2 DEF Surjection
<1>2. IsFiniteSet(jobs)
  BY <1>1, FS_Surjection
<1>3. queue \in SUBSET jobs
  BY DEF IInv, BlockedInv
<1>4. QED
  BY <1>2, <1>3, FS_Subset

\* The three numbers of WorkConserving.
LEMMA Counted ==
    ASSUME IInv
    PROVE  /\ IsFiniteSet(queue) /\ Cardinality(queue) \in Nat
           /\ IsFiniteSet(Coming) /\ Cardinality(Coming) \in Nat
           /\ IsFiniteSet(Notifying) /\ Cardinality(Notifying) \in Nat
<1>1. Coming \in SUBSET Worker /\ Notifying \in SUBSET Caller
  BY DEF Coming, Notifying
<1>2. IsFiniteSet(queue) /\ IsFiniteSet(Coming) /\ IsFiniteSet(Notifying)
  BY <1>1, QueueFinite, FS_Subset
<1>3. QED
  BY <1>2, FS_CardinalityType

\* A task comes with its notify and goes with its worker; a notify goes when it
\* has woken a worker or there is none to wake.
LEMMA NextWorkConserving ==
    IInv /\ WorkConserving /\ [Next]_vars => WorkConserving'
<1> SUFFICES ASSUME IInv, WorkConserving, [Next]_vars PROVE WorkConserving'
  OBVIOUS
<1> USE Counted
<1> DEFINE Same == /\ queue' = queue /\ Coming' = Coming
                   /\ Notifying' = Notifying /\ Asleep' \subseteq Asleep
<1>a. ASSUME Same PROVE WorkConserving'
  BY <1>a DEF WorkConserving
<1>b. IInv'
  BY NextIInv
<1>c. /\ Cardinality(Coming)' \in Nat
      /\ Cardinality(Notifying)' \in Nat
  <2>1. Coming' \in SUBSET Worker /\ Notifying' \in SUBSET Caller
    BY DEF Coming, Notifying
  <2>2. QED
    BY <2>1, FS_Subset, FS_CardinalityType
<1>d. ASSUME queue' = {} PROVE WorkConserving'
  BY <1>c, <1>d, FS_EmptySet DEF WorkConserving
<1>e. ASSUME NEW w \in Worker, Coming' = Coming \union {w}, queue' = queue,
             Notifying' = Notifying, Asleep' \subseteq Asleep
      PROVE  WorkConserving'
  <2>1. Cardinality(Coming') \in {Cardinality(Coming), Cardinality(Coming) + 1}
    BY <1>e, FS_AddElement
  <2>2. QED
    BY <1>c, <1>e, <2>1 DEF WorkConserving
<1> USE DEF IInv, TypeOK, WorkerLabel, CallerLabel, Thread, Goto, Release,
            Acquire, Asleep, Coming, Notifying
<1>1. ASSUME NEW w \in Worker, WorkerLock(w) PROVE WorkConserving'
  <2>1. Same
    BY <1>1 DEF WorkerLock
  <2>2. QED
    BY <2>1, <1>a
<1>2. ASSUME NEW w \in Worker, WorkerSleep(w) \/ WorkerExit(w)
      PROVE  WorkConserving'
  <2>1. queue' = {}
    BY <1>2 DEF WorkerSleep, WorkerExit
  <2>2. QED
    BY <2>1, <1>d
<1>3. ASSUME NEW w \in Worker, WorkerTake(w) PROVE WorkConserving'
  <2>1. PICK t \in queue : queue' = queue \ {t}
    BY <1>3 DEF WorkerTake, Heaviest
  <2>2. /\ w \in Coming /\ Coming' = Coming \ {w}
        /\ Notifying' = Notifying /\ Asleep' = Asleep
    BY <1>3 DEF WorkerTake
  <2> HIDE DEF Coming, Notifying, Asleep
  <2>3. Cardinality(queue') = Cardinality(queue) - 1
    BY <2>1, FS_RemoveElement
  <2>4. Cardinality(Coming') = Cardinality(Coming) - 1
    BY <2>2, FS_RemoveElement
  <2>5. QED
    BY <2>2, <2>3, <2>4 DEF WorkConserving
<1>4. ASSUME NEW w \in Worker, WorkerRun(w) \/ SpuriousWake(w)
      PROVE  WorkConserving'
  <2>1. /\ Coming' = Coming \union {w} /\ queue' = queue
        /\ Notifying' = Notifying /\ Asleep' \subseteq Asleep
    BY <1>4 DEF WorkerRun, SpuriousWake
  <2>2. QED
    BY <2>1, <1>e
<1>5. ASSUME NEW c \in Caller, NEW t \in Task, EnqueueLock(c, t)
      PROVE  WorkConserving'
  <2>1. Same
    BY <1>5 DEF EnqueueLock
  <2>2. QED
    BY <2>1, <1>a
<1>6. ASSUME NEW c \in Caller, EnqueuePush(c) PROVE WorkConserving'
  <2>1. queue' = queue \union {job[c]} /\ job[c] \notin queue
    BY <1>6 DEF EnqueuePush, JobInv
  <2>2. /\ c \notin Notifying /\ Notifying' = Notifying \union {c}
        /\ Coming' = Coming /\ Asleep' = Asleep
    BY <1>6 DEF EnqueuePush
  <2> HIDE DEF Coming, Notifying, Asleep
  <2>3. Cardinality(queue') = Cardinality(queue) + 1
    BY <2>1, FS_AddElement
  <2>4. Cardinality(Notifying') = Cardinality(Notifying) + 1
    BY <2>2, FS_AddElement
  <2>5. QED
    BY <2>2, <2>3, <2>4 DEF WorkConserving
<1>7. ASSUME NEW c \in Caller, EnqueueThrow(c) \/ FutureGet(c)
      PROVE  WorkConserving'
  <2>1. Same
    BY <1>7 DEF EnqueueThrow, FutureGet
  <2>2. QED
    BY <2>1, <1>a
<1>8. ASSUME NEW c \in Caller, NotifyOne(c) PROVE WorkConserving'
  <2>1. CASE Asleep = {} /\ Goto(c, "get")
    BY <2>1 DEF WorkConserving
  <2>2. ASSUME NEW w \in Asleep, pc' = [pc EXCEPT ![c] = "get", ![w] = "lock"]
        PROVE  WorkConserving'
    <3>1. /\ w \notin Coming /\ Coming' = Coming \union {w}
          /\ c \in Notifying /\ Notifying' = Notifying \ {c}
          /\ Asleep # {} /\ queue' = queue
      BY <1>8, <2>2 DEF NotifyOne
    <3> HIDE DEF Coming, Notifying, Asleep
    <3>2. Cardinality(Coming') = Cardinality(Coming) + 1
      BY <3>1, FS_AddElement
    <3>3. Cardinality(Notifying') = Cardinality(Notifying) - 1
      BY <3>1, FS_RemoveElement
    <3>4. QED
      BY <3>1, <3>2, <3>3 DEF WorkConserving
  <2>3. QED
    BY <1>8, <2>1, <2>2 DEF NotifyOne
<1>9. CASE DtorLock \/ DtorStop \/ DtorJoin
  <2>1. Same
    BY <1>9 DEF DtorLock, DtorStop, DtorJoin
  <2>2. QED
    BY <2>1, <1>a
<1>10. CASE DtorNotifyAll
  <2>1. Asleep' = {}
    BY <1>10 DEF DtorNotifyAll
  <2>2. QED
    BY <2>1 DEF WorkConserving
<1>11. CASE UNCHANGED vars
  <2>1. Same
    BY <1>11 DEF vars
  <2>2. QED
    BY <2>1, <1>a
<1>12. QED
  BY <1>1, <1>2, <1>3, <1>4, <1>5, <1>6, <1>7, <1>8, <1>9, <1>10, <1>11
     DEF Next, WorkerStep, CallStep, DtorStep, Terminated

\* While a worker sleeps, every queued task has an awake worker or a pending
\* notify_one of its own.
THEOREM NoWorkWaits == Spec => []WorkConserving
<1>1. Init => WorkConserving
  BY FS_EmptySet DEF Init, WorkConserving, Asleep, Thread
<1>2. QED
  BY <1>1, NextWorkConserving, Invariance, PTL DEF Spec

-----------------------------------------------------------------------------
(* The pool implements AbstractPool: each critical section that changes the *)
(* queue, each task and each return of get is one abstract step; taking the *)
(* mutex, sleeping, waking and notifying are stutters.                      *)

\* A new pool is a new abstract pool.
LEMMA InitImplements == Init => Abstract!Init
  BY DEF Init, Abstract!Init, Thread, Waiting

\* Every step of the pool is an abstract step or a stutter.
LEMMA NextImplements ==
    IInv /\ [Next]_vars => [Abstract!Next]_(Abstract!vars)
<1> SUFFICES ASSUME IInv, [Next]_vars
             PROVE  Abstract!Next \/ UNCHANGED Abstract!vars
  OBVIOUS
<1> USE DEF IInv, TypeOK, WorkerLabel, CallerLabel, Thread, Goto, Waiting,
            Acquire, Release
<1>1. ASSUME NEW w \in Worker,
             WorkerLock(w) \/ WorkerSleep(w) \/ WorkerExit(w) \/ SpuriousWake(w)
      PROVE  UNCHANGED Abstract!vars
  BY <1>1 DEF WorkerLock, WorkerSleep, WorkerExit, SpuriousWake, Abstract!vars
<1>2. ASSUME NEW w \in Worker, WorkerTake(w)
      PROVE  Abstract!Next
  <2>1. PICK t \in Heaviest : /\ queue' = queue \ {t}
                              /\ held' = [held EXCEPT ![w] = t]
    BY <1>2 DEF WorkerTake
  <2>2. t \in Task /\ t \in queue /\ \A u \in queue : Weight[u] <= Weight[t]
    BY <2>1 DEF Heaviest
  <2>3. Abstract!Start(w, t)
    BY <1>2, <2>1, <2>2 DEF WorkerTake, HeldInv, Abstract!Start
  <2>4. QED
    BY <2>2, <2>3 DEF Abstract!Next
<1>3. ASSUME NEW w \in Worker, WorkerRun(w)
      PROVE  Abstract!Next
  BY <1>3 DEF WorkerRun, HeldInv, Abstract!Next, Abstract!Complete
<1>4. ASSUME NEW c \in Caller, NEW t \in Task, EnqueueLock(c, t)
      PROVE  UNCHANGED Abstract!vars
  BY <1>4 DEF EnqueueLock, Abstract!vars
<1>5. ASSUME NEW c \in Caller, EnqueuePush(c)
      PROVE  Abstract!Next
  <2>1. pc[c] = "push" /\ ~stop /\ c \in DOMAIN pc
    BY <1>5 DEF EnqueuePush
  <2>2. PICK t \in Task : t = job[c] /\ ~Waiting(c)
    BY <2>1 DEF JobInv
  <2>3. t \notin Abstract!Known
    BY <2>1, <2>2 DEF JobInv, Holding, Abstract!Known, Abstract!Running
  <2>4. /\ queue' = queue \union {t}
        /\ pc' = [pc EXCEPT ![c] = "notify"]
        /\ UNCHANGED <<stop, held, job, finished, rejected>>
    BY <1>5, <2>2 DEF EnqueuePush
  <2>5. \A d \in Caller : Waiting(d)' <=> (d = c \/ Waiting(d))
    BY <2>1, <2>4
  <2>6. UNCHANGED (pc[Owner] = "destroyed")
    BY <2>1, <2>4
  <2>7. [d \in Caller |-> IF Waiting(d)' THEN job'[d] ELSE None]
          = [[d \in Caller |-> IF Waiting(d) THEN job[d] ELSE None]
               EXCEPT ![c] = t]
    <3> HIDE DEF Waiting, IInv, TypeOK
    <3>1. QED
      BY <2>2, <2>4, <2>5, Zenon
  <2>8. Abstract!Submit(c, t)
    BY <2>1, <2>2, <2>3, <2>4, <2>6, <2>7 DEF Abstract!Submit
  <2>9. QED
    BY <2>8 DEF Abstract!Next
<1>6. ASSUME NEW c \in Caller, EnqueueThrow(c)
      PROVE  Abstract!Next
  <2>1. pc[c] = "push" /\ stop /\ c \in DOMAIN pc
    BY <1>6 DEF EnqueueThrow
  <2>2. PICK t \in Task : t = job[c] /\ ~Waiting(c)
    BY <2>1 DEF JobInv
  <2>3. t \notin Abstract!Known
    BY <2>1, <2>2 DEF JobInv, Holding, Abstract!Known, Abstract!Running
  <2>4. /\ rejected' = rejected \union {t}
        /\ pc' = [pc EXCEPT ![c] = "idle"]
        /\ job' = [job EXCEPT ![c] = None]
        /\ UNCHANGED <<stop, queue, held, finished>>
    BY <1>6, <2>2 DEF EnqueueThrow
  <2>5. \A d \in Caller : /\ Waiting(d)' <=> Waiting(d)
                          /\ Waiting(d) => job'[d] = job[d]
    BY <2>1, <2>2, <2>4
  <2>6. UNCHANGED (pc[Owner] = "destroyed")
    BY <2>1, <2>4
  <2>7. Abstract!Refuse(t)
    BY <2>1, <2>2, <2>3, <2>4, <2>5, <2>6 DEF Abstract!Refuse
  <2>8. QED
    BY <2>7 DEF Abstract!Next
<1>7. ASSUME NEW c \in Caller, NotifyOne(c)
      PROVE  UNCHANGED Abstract!vars
  BY <1>7 DEF NotifyOne, Asleep, Abstract!vars
<1>8. ASSUME NEW c \in Caller, FutureGet(c)
      PROVE  Abstract!Next
  BY <1>8 DEF FutureGet, Abstract!Next, Abstract!Return
<1>9. CASE DtorLock
  BY <1>9 DEF DtorLock, Abstract!vars
<1>10. CASE DtorStop
  BY <1>10 DEF DtorStop, DtorInv, Abstract!Next, Abstract!Shutdown
<1>11. CASE DtorNotifyAll
  BY <1>11 DEF DtorNotifyAll, Asleep, Abstract!vars
<1>12. CASE DtorJoin
  BY <1>12 DEF DtorJoin, DtorInv, ExitInv, HeldInv, Abstract!Next,
               Abstract!Retire, Abstract!Running
<1>13. CASE UNCHANGED vars
  BY <1>13 DEF vars, Abstract!vars
<1>14. QED
  BY <1>1, <1>2, <1>3, <1>4, <1>5, <1>6, <1>7, <1>8, <1>9, <1>10, <1>11,
     <1>12, <1>13
     DEF Next, WorkerStep, CallStep, DtorStep, Terminated

\* The pool does only what AbstractPool allows.
THEOREM PoolImplements == Spec => ImplementsPool
<1>1. QED
  BY InitImplements, NextImplements, Invariance, PTL
     DEF Spec, ImplementsPool, Abstract!Spec
=============================================================================
