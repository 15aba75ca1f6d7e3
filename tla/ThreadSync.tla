----------------------------- MODULE ThreadSync -----------------------------
(***************************************************************************)
(* Mutex and Condition of std/thread/thread.sd together: one mutex, and    *)
(* one condition that is waited on while the mutex is held.                *)
(***************************************************************************)
EXTENDS Condition

CONSTANTS Threads,   \* the threads that share the mutex
          NoThread   \* nobody: the mutex is free

ASSUME ThreadsAssumption == NoThread \notin Threads

VARIABLE mutex       \* the thread that holds the lock, or NoThread

SyncTypeOK == /\ mutex \in Threads \cup {NoThread}
              /\ waiting \subseteq Threads

SyncInit == /\ mutex = NoThread
            /\ waiting = {}

\* pthread_mutex_lock / AcquireSRWLockExclusive returns to t
lock(t) == /\ mutex = NoThread
           /\ mutex' = t

unlock(t) == /\ mutex = t
             /\ mutex' = NoThread

\* Lets go of the mutex and blocks, in one step
wait(t) == /\ mutex = t
           /\ mutex' = NoThread
           /\ waiting' = waiting \cup {t}

\* A woken thread holds the mutex again before wait() returns
relock(t) == /\ t \notin waiting
             /\ lock(t)
=============================================================================
