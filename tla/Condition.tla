----------------------------- MODULE Condition ------------------------------
(***************************************************************************)
(* A Condition of std/thread/thread.sd, waited on while a mutex is held.   *)
(* The pthread_cond_t / CONDITION_VARIABLE below it is external.           *)
(***************************************************************************)
VARIABLE waiting     \* the threads blocked in Condition.wait, not woken yet

\* Wakes one thread that waits, any of them; nothing when none does
signal == IF waiting = {} THEN UNCHANGED waiting
                          ELSE \E t \in waiting : waiting' = waiting \ {t}

\* Wakes every thread that waits
broadcast == waiting' = {}

\* "It can wake without a reason, so check what it waits for in a loop"
wakeWithoutReason(t) == /\ t \in waiting
                        /\ waiting' = waiting \ {t}
=============================================================================
