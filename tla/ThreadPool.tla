----------------------------- MODULE ThreadPool -----------------------------
(***************************************************************************)
(* The worker pool of Multithreading/threadPool.{h,cpp}, its mutex and     *)
(* condition variable, with the threads that call it the way               *)
(* Client::sendData does: enqueue one write and block on its future.       *)
(*                                                                         *)
(* A step of a thread is the code between two points where another thread  *)
(* can be observed: taking queue_mutex, the critical section up to its     *)
(* release, notify, the task itself, future.get.                           *)
(***************************************************************************)
EXTENDS Integers, FiniteSets

CONSTANTS Worker,   \* the threads started by the constructor
          Caller,   \* the threads that call enqueue
          Owner,    \* the caller that runs the destructor
          Task,     \* packaged tasks; each is enqueued at most once
          Weight,   \* Weight[t]: the priority given to enqueue
          None

ASSUME WorkerAssumption == Worker # {} /\ IsFiniteSet(Worker)
ASSUME OwnerAssumption  == Owner \in Caller /\ IsFiniteSet(Caller)
ASSUME WeightAssumption == Weight \in [Task -> Int]
ASSUME NamesAssumption  ==
    /\ Worker \intersect Caller = {}
    /\ None \notin Worker \union Caller \union Task

VARIABLES lock,      \* holder of queue_mutex, or None
          stop,      \* the stop flag
          queue,     \* the priority queue: equal weights come out in any order
          pc,        \* where each thread is
          held,      \* the task each worker moved out of the queue, or None
          job,       \* the task each caller is enqueueing or waiting for
          finished,  \* tasks that ran: their futures are ready
          rejected   \* tasks enqueue threw on

vars == <<lock, stop, queue, pc, held, job, finished, rejected>>

Thread == Worker \union Caller

Asleep == {w \in Worker : pc[w] = "asleep"}

Holding == {held[w] : w \in Worker} \ {None}

Used == queue \union Holding \union finished \union rejected
             \union {job[c] : c \in Caller}

Goto(th, label) == pc' = [pc EXCEPT ![th] = label]

Acquire(th) ==
    /\ lock = None
    /\ lock' = th

Release(th) ==
    /\ lock = th
    /\ lock' = None

Init ==
    /\ lock = None
    /\ stop = FALSE
    /\ queue = {}
    /\ pc = [th \in Thread |-> IF th \in Worker THEN "lock" ELSE "idle"]
    /\ held = [w \in Worker |-> None]
    /\ job = [c \in Caller |-> None]
    /\ finished = {}
    /\ rejected = {}

-----------------------------------------------------------------------------
(* The worker loop. *)

\* Taking queue_mutex, at the top of the loop or when wait wakes up.
WorkerLock(w) ==
    /\ pc[w] = "lock"
    /\ Acquire(w)
    /\ Goto(w, "check")
    /\ UNCHANGED <<stop, queue, held, job, finished, rejected>>

\* Mutant: wait without a predicate sleeps although a task is queued.
WorkerSleepUnchecked(w) ==
    /\ pc[w] = "check"
    /\ ~stop
    /\ Release(w)
    /\ Goto(w, "asleep")
    /\ UNCHANGED <<stop, queue, held, job, finished, rejected>>

\* The predicate is false: release the mutex and sleep, atomically.
WorkerSleep(w) ==
    /\ pc[w] = "check"
    /\ ~stop
    /\ queue = {}
    /\ Release(w)
    /\ Goto(w, "asleep")
    /\ UNCHANGED <<stop, queue, held, job, finished, rejected>>

\* Mutant: the worker returns on stop alone and leaves the queue behind.
WorkerExitOnStop(w) ==
    /\ pc[w] = "check"
    /\ stop
    /\ Release(w)
    /\ Goto(w, "exit")
    /\ UNCHANGED <<stop, queue, held, job, finished, rejected>>

WorkerExit(w) ==
    /\ pc[w] = "check"
    /\ stop
    /\ queue = {}
    /\ Release(w)
    /\ Goto(w, "exit")
    /\ UNCHANGED <<stop, queue, held, job, finished, rejected>>

Heaviest == {t \in queue : \A u \in queue : Weight[u] <= Weight[t]}

\* Mutant: top() of a queue that is empty when the worker wakes.
WorkerTakeNothing(w) ==
    /\ pc[w] = "check"
    /\ queue = {}
    /\ Release(w)
    /\ Goto(w, "run")
    /\ UNCHANGED <<stop, queue, held, job, finished, rejected>>

WorkerTake(w) ==
    /\ pc[w] = "check"
    /\ \E t \in Heaviest :
           /\ queue' = queue \ {t}
           /\ held' = [held EXCEPT ![w] = t]
    /\ Release(w)
    /\ Goto(w, "run")
    /\ UNCHANGED <<stop, job, finished, rejected>>

\* task(): the packaged task stores its result, the future becomes ready.
WorkerRun(w) ==
    /\ pc[w] = "run"
    /\ finished' = finished \union {held[w]}
    /\ held' = [held EXCEPT ![w] = None]
    /\ Goto(w, "lock")
    /\ UNCHANGED <<lock, stop, queue, job, rejected>>

\* A condition variable may wake a thread nobody notified.
SpuriousWake(w) ==
    /\ pc[w] = "asleep"
    /\ Goto(w, "lock")
    /\ UNCHANGED <<lock, stop, queue, held, job, finished, rejected>>

-----------------------------------------------------------------------------
(* enqueue, and the wait on its future in Client::sendData. *)

\* Nobody may call a pool that no longer exists.
EnqueueLock(c, t) ==
    /\ pc[c] = "idle"
    /\ pc[Owner] # "destroyed"
    /\ t \notin Used
    /\ Acquire(c)
    /\ job' = [job EXCEPT ![c] = t]
    /\ Goto(c, "push")
    /\ UNCHANGED <<stop, queue, held, finished, rejected>>

\* Mutant: notify only when the queue was empty before the push.
EnqueuePushQuiet(c) ==
    /\ pc[c] = "push"
    /\ ~stop
    /\ queue' = queue \union {job[c]}
    /\ Release(c)
    /\ Goto(c, IF queue = {} THEN "notify" ELSE "get")
    /\ UNCHANGED <<stop, held, job, finished, rejected>>

\* Mutant: no look at stop before the push.
EnqueuePushLate(c) ==
    /\ pc[c] = "push"
    /\ queue' = queue \union {job[c]}
    /\ Release(c)
    /\ Goto(c, "notify")
    /\ UNCHANGED <<stop, held, job, finished, rejected>>

EnqueuePush(c) ==
    /\ pc[c] = "push"
    /\ ~stop
    /\ queue' = queue \union {job[c]}
    /\ Release(c)
    /\ Goto(c, "notify")
    /\ UNCHANGED <<stop, held, job, finished, rejected>>

\* runtime_error("enqueue on stopped ThreadPool") leaves sendData.
EnqueueThrow(c) ==
    /\ pc[c] = "push"
    /\ stop
    /\ rejected' = rejected \union {job[c]}
    /\ job' = [job EXCEPT ![c] = None]
    /\ Release(c)
    /\ Goto(c, "idle")
    /\ UNCHANGED <<stop, queue, held, finished>>

\* Mutant: no notify_one after the push.
NotifyNobody(c) ==
    /\ pc[c] = "notify"
    /\ Goto(c, "get")
    /\ UNCHANGED <<lock, stop, queue, held, job, finished, rejected>>

\* notify_one: some sleeper, if there is one, goes back for the mutex.
NotifyOne(c) ==
    /\ pc[c] = "notify"
    /\ \/ \E w \in Asleep : pc' = [pc EXCEPT ![c] = "get", ![w] = "lock"]
       \/ Asleep = {} /\ Goto(c, "get")
    /\ UNCHANGED <<lock, stop, queue, held, job, finished, rejected>>

\* Mutant: sendData returns without waiting for its future.
FutureDropped(c) ==
    /\ pc[c] = "get"
    /\ job' = [job EXCEPT ![c] = None]
    /\ Goto(c, "idle")
    /\ UNCHANGED <<lock, stop, queue, held, finished, rejected>>

\* future.get() returns.
FutureGet(c) ==
    /\ pc[c] = "get"
    /\ job[c] \in finished
    /\ job' = [job EXCEPT ![c] = None]
    /\ Goto(c, "idle")
    /\ UNCHANGED <<lock, stop, queue, held, finished, rejected>>

-----------------------------------------------------------------------------
(* ~ThreadPool, run by the owner. *)

DtorLock ==
    /\ pc[Owner] = "idle"
    /\ Acquire(Owner)
    /\ Goto(Owner, "stop")
    /\ UNCHANGED <<stop, queue, held, job, finished, rejected>>

DtorStop ==
    /\ pc[Owner] = "stop"
    /\ stop' = TRUE
    /\ Release(Owner)
    /\ Goto(Owner, "notifyAll")
    /\ UNCHANGED <<queue, held, job, finished, rejected>>

\* Mutant: the destructor wakes one worker instead of all.
DtorNotifyOne ==
    /\ pc[Owner] = "notifyAll"
    /\ \/ \E w \in Asleep : pc' = [pc EXCEPT ![Owner] = "join", ![w] = "lock"]
       \/ Asleep = {} /\ Goto(Owner, "join")
    /\ UNCHANGED <<lock, stop, queue, held, job, finished, rejected>>

DtorNotifyAll ==
    /\ pc[Owner] = "notifyAll"
    /\ pc' = [th \in Thread |-> CASE th = Owner      -> "join"
                                  [] th \in Asleep   -> "lock"
                                  [] OTHER           -> pc[th]]
    /\ UNCHANGED <<lock, stop, queue, held, job, finished, rejected>>

DtorJoin ==
    /\ pc[Owner] = "join"
    /\ \A w \in Worker : pc[w] = "exit"
    /\ Goto(Owner, "destroyed")
    /\ UNCHANGED <<lock, stop, queue, held, job, finished, rejected>>

-----------------------------------------------------------------------------

WorkerStep(w) ==
    \/ WorkerLock(w)
    \/ WorkerSleep(w)
    \/ WorkerExit(w)
    \/ WorkerTake(w)
    \/ WorkerRun(w)

CallStep(c) ==
    \/ EnqueuePush(c)
    \/ EnqueueThrow(c)
    \/ NotifyOne(c)
    \/ FutureGet(c)

DtorStep ==
    \/ DtorStop
    \/ DtorNotifyAll
    \/ DtorJoin

\* The only state in which every thread may stay where it is for good.
Terminated ==
    /\ pc[Owner] = "destroyed"
    /\ \A c \in Caller \ {Owner} : pc[c] = "idle"
    /\ UNCHANGED vars

Next ==
    \/ \E w \in Worker : WorkerStep(w) \/ SpuriousWake(w)
    \/ \E c \in Caller : CallStep(c)
    \/ \E c \in Caller, t \in Task : EnqueueLock(c, t)
    \/ DtorLock
    \/ DtorStep
    \/ Terminated

Spec == Init /\ [][Next]_vars

\* A thread that can go on does. Nobody is obliged to call enqueue or to
\* destroy the pool, and nothing obliges a condition variable to wake a
\* sleeper that is not notified.
Fairness ==
    /\ \A w \in Worker : WF_vars(WorkerStep(w))
    /\ \A c \in Caller : WF_vars(CallStep(c))
    /\ WF_vars(DtorStep)

FairSpec == Spec /\ Fairness

-----------------------------------------------------------------------------
(* Properties. *)

WorkerLabel == {"lock", "check", "asleep", "run", "exit"}
CallerLabel == {"idle", "push", "notify", "get",
                "stop", "notifyAll", "join", "destroyed"}

\* Every variable has its type; only the owner is ever in the destructor.
TypeOK ==
    /\ lock \in Thread \union {None}
    /\ stop \in BOOLEAN
    /\ queue \subseteq Task
    /\ pc \in [Thread -> WorkerLabel \union CallerLabel]
    /\ \A w \in Worker : pc[w] \in WorkerLabel
    /\ \A c \in Caller : pc[c] \in CallerLabel
    /\ held \in [Worker -> Task \union {None}]
    /\ job \in [Caller -> Task \union {None}]
    /\ finished \subseteq Task
    /\ rejected \subseteq Task

Waiting(c) == pc[c] \in {"notify", "get"}

\* A write that is queued or running belongs to a caller that is blocked in
\* sendData: the task has a copy of the data, but uses the SSL object of the
\* client, and SSL_read or SSL_free of the event loop must not run beside it.
\* No two workers ever share a task.
WriterIsBlocked ==
    /\ \A t \in queue \union Holding :
           \E c \in Caller : Waiting(c) /\ job[c] = t
    /\ \A v, w \in Worker : held[v] = held[w] /\ held[v] # None => v = w

\* Work in the queue is never left to sleeping workers: some worker is awake
\* and on its way to the queue, or the notify that will wake one is pending.
NoLostWakeup ==
    queue # {} =>
        \/ \E w \in Worker : pc[w] \in {"lock", "check", "run"}
        \/ \E c \in Caller : pc[c] = "notify"

Coming == {w \in Worker : pc[w] \in {"lock", "check"}}

Notifying == {c \in Caller : pc[c] = "notify"}

\* A worker sleeps only while the others suffice: when anybody is asleep,
\* each queued task has a worker or a notify of its own on the way.
WorkConserving ==
    Asleep # {} =>
        Cardinality(queue) <= Cardinality(Coming) + Cardinality(Notifying)

\* When the destructor has joined the workers no accepted task is left, and
\* no caller is waiting for a future that will never be ready.
ShutdownDrains ==
    pc[Owner] = "destroyed" =>
        /\ queue = {}
        /\ Holding = {}
        /\ \A c \in Caller : pc[c] = "get" => job[c] \in finished

\* A write handed to the pool is eventually done and sendData returns.
SendReturns == \A c \in Caller : pc[c] = "notify" ~> pc[c] = "idle"

\* A destructor that has set stop eventually returns: no worker sleeps
\* through notify_all and none is joined for ever.
DtorReturns == stop ~> pc[Owner] = "destroyed"

\* The pool implements AbstractPool: a task counts as outstanding from the
\* push to the return of future.get.
Abstract == INSTANCE AbstractPool WITH
    pending     <- queue,
    slot        <- held,
    done        <- finished,
    refused     <- rejected,
    outstanding <- [c \in Caller |-> IF Waiting(c) THEN job[c] ELSE None],
    closed      <- stop,
    gone        <- pc[Owner] = "destroyed"

ImplementsPool == Abstract!Spec
=============================================================================
