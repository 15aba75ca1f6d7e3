-------------------------------- MODULE Pool --------------------------------
(***************************************************************************)
(* dbms.Pool (std/dbms/pool.sd): connections shared by the threads that    *)
(* answer requests. A thread takes one with get() and gives it back with   *)
(* put(); close() may come at any time, also while another thread is       *)
(* inside get() or connects outside the lock.                              *)
(***************************************************************************)
EXTENDS ThreadSync, Integers, Sequences, FiniteSets

CONSTANTS Conns,     \* addresses a Connection can have; a freed one is used again
          NoConn,    \* null
          size       \* Pool.size: the most connections that are open at a time

ASSUME PoolAssumption == /\ IsFiniteSet(Threads)
                         /\ NoConn \notin Conns
                         /\ size \in Nat \ {0}

VARIABLES idle,      \* Pool.idle, a stack of connections
          open,      \* Pool.open
          closed,    \* Pool.closed
          alive,     \* connections that are connected to the database
          pc,        \* where each thread is
          conn       \* the connection each thread got, or is giving back

poolVars == <<idle, open, closed, alive>>
vars == <<mutex, waiting, idle, open, closed, alive, pc, conn>>

\* out: not in a method of the pool.  X.in: holds the mutex in X.
\* get.wait: in available.wait().  get.connect: connecting, without the lock.
\* undo: connecting failed, before it locks again.
\* put.free: closes the connection it was given, after unlock.
Places == {"out", "get.in", "get.wait", "get.connect", "undo", "undo.in",
           "put.in", "put.free", "close.in"}

InLock == {"get.in", "undo.in", "put.in", "close.in"}

at(t, place) == pc[t] = place
go(t, place) == pc' = [pc EXCEPT ![t] = place]

idleSet == {idle[i] : i \in 1..Len(idle)}

TypeOK == /\ SyncTypeOK
          /\ idle \in Seq(Conns)
          /\ open \in Int
          /\ closed \in BOOLEAN
          /\ alive \subseteq Conns
          /\ pc \in [Threads -> Places]
          /\ conn \in [Threads -> Conns \cup {NoConn}]

newPool == /\ SyncInit
           /\ idle = <<>>
           /\ open = 0
           /\ closed = FALSE
           /\ alive = {}
           /\ pc = [t \in Threads |-> "out"]
           /\ conn = [t \in Threads |-> NoConn]

-----------------------------------------------------------------------------
(* get() *)

getLock(t) == /\ at(t, "out") /\ conn[t] = NoConn
              /\ lock(t)
              /\ go(t, "get.in")
              /\ UNCHANGED <<waiting, poolVars, conn>>

\* The top of the loop finds the pool closed
getClosed(t) == /\ at(t, "get.in") /\ closed
                /\ unlock(t)
                /\ go(t, "out")
                /\ UNCHANGED <<waiting, poolVars, conn>>

popIdleKept == UNCHANGED idle
popIdle == idle' = SubSeq(idle, 1, Len(idle) - 1)

\* Takes the connection that was given back last
getIdle(t) == /\ at(t, "get.in") /\ ~closed /\ Len(idle) > 0
              /\ conn' = [conn EXCEPT ![t] = idle[Len(idle)]]
              /\ popIdle
              /\ unlock(t)
              /\ go(t, "out")
              /\ UNCHANGED <<waiting, open, closed, alive>>

hasRoom == open < size

\* Reserves a place for a new connection, and connects without the lock
getOpen(t) == /\ at(t, "get.in") /\ ~closed /\ Len(idle) = 0 /\ hasRoom
              /\ open' = open + 1
              /\ unlock(t)
              /\ go(t, "get.connect")
              /\ UNCHANGED <<waiting, idle, closed, alive, conn>>

getWait(t) == /\ at(t, "get.in") /\ ~closed /\ Len(idle) = 0 /\ ~hasRoom
              /\ wait(t)
              /\ go(t, "get.wait")
              /\ UNCHANGED <<poolVars, conn>>

getSpurious(t) == /\ wakeWithoutReason(t)
                  /\ UNCHANGED <<mutex, poolVars, pc, conn>>

getWoken(t) == /\ at(t, "get.wait")
               /\ relock(t)
               /\ go(t, "get.in")
               /\ UNCHANGED <<waiting, poolVars, conn>>

\* pool.connect gave a connection: it gets memory of its own
connected(t) == /\ at(t, "get.connect")
                /\ \E c \in Conns \ alive :
                      /\ alive' = alive \cup {c}
                      /\ conn' = [conn EXCEPT ![t] = c]
                /\ go(t, "out")
                /\ UNCHANGED <<mutex, waiting, idle, open, closed>>

connectFailed(t) == /\ at(t, "get.connect")
                    /\ go(t, "undo")
                    /\ UNCHANGED <<mutex, waiting, poolVars, conn>>

undoLock(t) == /\ at(t, "undo")
               /\ lock(t)
               /\ go(t, "undo.in")
               /\ UNCHANGED <<waiting, poolVars, conn>>

undoOpenSilent(t) == /\ at(t, "undo.in")
                     /\ open' = open - 1
                     /\ unlock(t)
                     /\ go(t, "out")
                     /\ UNCHANGED <<waiting, idle, closed, alive, conn>>

\* Gives the reserved place back, and wakes a thread that can use it
undoOpen(t) == /\ at(t, "undo.in")
               /\ open' = open - 1
               /\ signal
               /\ unlock(t)
               /\ go(t, "out")
               /\ UNCHANGED <<idle, closed, alive, conn>>

-----------------------------------------------------------------------------
(* put() of a connection. put(null) returns at once and changes nothing. *)

putLock(t) == /\ at(t, "out") /\ conn[t] # NoConn
              /\ lock(t)
              /\ go(t, "put.in")
              /\ UNCHANGED <<waiting, poolVars, conn>>

putIdleTooLate(t) == /\ at(t, "put.in") /\ ~closed
                     /\ conn' = [conn EXCEPT ![t] = NoConn]
                     /\ idle' = Append(idle, conn'[t])
                     /\ signal
                     /\ unlock(t)
                     /\ go(t, "out")
                     /\ UNCHANGED <<open, closed, alive>>

putIdle(t) == /\ at(t, "put.in") /\ ~closed
              /\ idle' = Append(idle, conn[t])
              /\ conn' = [conn EXCEPT ![t] = NoConn]
              /\ signal
              /\ unlock(t)
              /\ go(t, "out")
              /\ UNCHANGED <<open, closed, alive>>

putClosedUncounted(t) == /\ at(t, "put.in") /\ closed
                         /\ unlock(t)
                         /\ go(t, "put.free")
                         /\ UNCHANGED <<waiting, poolVars, conn>>

putClosedToIdle(t) == /\ at(t, "put.in") /\ closed
                      /\ idle' = Append(idle, conn[t])
                      /\ conn' = [conn EXCEPT ![t] = NoConn]
                      /\ unlock(t)
                      /\ go(t, "out")
                      /\ UNCHANGED <<waiting, open, closed, alive>>

putClosed(t) == /\ at(t, "put.in") /\ closed
                /\ open' = open - 1
                /\ unlock(t)
                /\ go(t, "put.free")
                /\ UNCHANGED <<waiting, idle, closed, alive, conn>>

putFree(t) == /\ at(t, "put.free")
              /\ alive' = alive \ {conn[t]}
              /\ conn' = [conn EXCEPT ![t] = NoConn]
              /\ go(t, "out")
              /\ UNCHANGED <<mutex, waiting, idle, open, closed>>

-----------------------------------------------------------------------------
(* close() *)

closeLock(t) == /\ at(t, "out")
                /\ lock(t)
                /\ go(t, "close.in")
                /\ UNCHANGED <<waiting, poolVars, conn>>

\* Every idle connection is closed and freed, and all that wait are woken
close(t) == /\ at(t, "close.in")
            /\ closed' = TRUE
            /\ alive' = alive \ idleSet
            /\ open' = open - Len(idle)
            /\ idle' = <<>>
            /\ broadcast
            /\ unlock(t)
            /\ go(t, "out")
            /\ UNCHANGED conn
-----------------------------------------------------------------------------
Get(t) == \/ getClosed(t) \/ getIdle(t) \/ getOpen(t) \/ getWait(t)
          \/ connected(t) \/ connectFailed(t) \/ undoOpen(t)
Put(t) == putIdle(t) \/ putClosed(t) \/ putFree(t)

Next == \E t \in Threads :
           \/ getLock(t) \/ Get(t) \/ getSpurious(t) \/ getWoken(t) \/ undoLock(t)
           \/ putLock(t) \/ Put(t)
           \/ closeLock(t) \/ close(t)

\* A thread that holds the lock, connects or frees goes on; a thread that
\* wants the lock gets it in the end; and what get() gave is given back.
Fairness == \A t \in Threads :
               /\ WF_vars(Get(t) \/ Put(t) \/ close(t))
               /\ SF_vars(getWoken(t)) /\ SF_vars(undoLock(t))
               /\ SF_vars(putLock(t))

Spec == newPool /\ [][Next]_vars
FairSpec == Spec /\ Fairness
-----------------------------------------------------------------------------
(* Properties *)

holders == {t \in Threads : conn[t] # NoConn}
\* Threads whose connection or reserved place is counted in open
counted == {t \in Threads : \/ conn[t] # NoConn /\ pc[t] # "put.free"
                            \/ pc[t] \in {"get.connect", "undo", "undo.in"}}

\* "A connection is used by one thread at a time" (pool.sd): a connection that
\* get() gave is in no other thread's hands and not idle, and nobody is left
\* with a connection that was closed and freed under it.
ExclusiveUse ==
    /\ \A t, u \in holders : t # u => conn[t] # conn[u]
    /\ \A t \in holders : conn[t] \in alive /\ conn[t] \notin idleSet
    /\ \A i, j \in 1..Len(idle) : i # j => idle[i] # idle[j]
    /\ idleSet \subseteq alive

\* openCount() is right whoever asks: open counts the idle connections, the
\* ones in use and the ones being connected, also when connecting failed, and
\* when close() came between get() and put().
\* And as size is "the most connections that are open at a time", the database
\* never sees more of the pool, though they are made outside the lock.
OpenIsCounted == /\ open = Len(idle) + Cardinality(counted)
                 /\ open <= size /\ Cardinality(alive) <= size

\* No thread sleeps in get() over a connection or a place it could have: while
\* some thread waits, there are at most as many as threads already on their
\* way to take them, and nobody is left waiting in a closed pool.
onTheirWay == {t \in Threads : pc[t] = "get.in" \/ (pc[t] = "get.wait" /\ t \notin waiting)}
NoLostWakeup == waiting # {} => /\ ~closed
                                /\ Len(idle) + (size - open) <= Cardinality(onTheirWay)

\* "Closes the idle connections. The ones in use are closed when they are given
\* back": after close() every connection is closed in the end, open is 0, and
\* no thread waits in get(), also when close() raced with a connect.
ClosedDrains == closed ~> [](alive = {} /\ open = 0 /\ waiting = {})
=============================================================================
