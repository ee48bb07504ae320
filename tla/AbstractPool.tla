---------------------------- MODULE AbstractPool ----------------------------
(***************************************************************************)
(* What ThreadPool promises to the threads that call enqueue: a task is    *)
(* taken at most once, the heaviest first, by a free slot; a caller that   *)
(* waits for its future resumes only when its own task has run; once the   *)
(* pool is closed it accepts nothing, and it goes away only when every     *)
(* task it accepted has run.                                               *)
(* No mutex, no condition variable, no program counters.                   *)
(***************************************************************************)
EXTENDS Integers

CONSTANTS Worker, Caller, Task, Weight, None

VARIABLES pending,      \* accepted, not yet started
          slot,         \* the task each worker is running, or None
          done,         \* tasks that ran to their end
          refused,      \* tasks enqueue threw on
          outstanding,  \* the task each caller is waiting for, or None
          closed,       \* the destructor has set the stop flag
          gone          \* the destructor has returned

vars == <<pending, slot, done, refused, outstanding, closed, gone>>

Running == {slot[w] : w \in Worker} \ {None}

Known == pending \union Running \union done \union refused

Init ==
    /\ pending = {}
    /\ slot = [w \in Worker |-> None]
    /\ done = {}
    /\ refused = {}
    /\ outstanding = [c \in Caller |-> None]
    /\ closed = FALSE
    /\ gone = FALSE

Submit(c, t) ==
    /\ ~closed
    /\ outstanding[c] = None
    /\ t \notin Known
    /\ pending' = pending \union {t}
    /\ outstanding' = [outstanding EXCEPT ![c] = t]
    /\ UNCHANGED <<slot, done, refused, closed, gone>>

Refuse(t) ==
    /\ closed
    /\ t \notin Known
    /\ refused' = refused \union {t}
    /\ UNCHANGED <<pending, slot, done, outstanding, closed, gone>>

Start(w, t) ==
    /\ slot[w] = None
    /\ t \in pending
    /\ \A u \in pending : Weight[u] <= Weight[t]
    /\ pending' = pending \ {t}
    /\ slot' = [slot EXCEPT ![w] = t]
    /\ UNCHANGED <<done, refused, outstanding, closed, gone>>

Complete(w) ==
    /\ slot[w] # None
    /\ done' = done \union {slot[w]}
    /\ slot' = [slot EXCEPT ![w] = None]
    /\ UNCHANGED <<pending, refused, outstanding, closed, gone>>

Return(c) ==
    /\ outstanding[c] \in done
    /\ outstanding' = [outstanding EXCEPT ![c] = None]
    /\ UNCHANGED <<pending, slot, done, refused, closed, gone>>

Shutdown ==
    /\ ~closed
    /\ closed' = TRUE
    /\ UNCHANGED <<pending, slot, done, refused, outstanding, gone>>

Retire ==
    /\ closed
    /\ pending = {}
    /\ Running = {}
    /\ gone' = TRUE
    /\ UNCHANGED <<pending, slot, done, refused, outstanding, closed>>

Next ==
    \/ \E c \in Caller, t \in Task : Submit(c, t)
    \/ \E t \in Task : Refuse(t)
    \/ \E w \in Worker, t \in Task : Start(w, t)
    \/ \E w \in Worker : Complete(w)
    \/ \E c \in Caller : Return(c)
    \/ Shutdown
    \/ Retire

Spec == Init /\ [][Next]_vars
=============================================================================
