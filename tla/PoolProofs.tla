----------------------------- MODULE PoolProofs -----------------------------
(***************************************************************************)
(* Proofs about Pool, for any number of threads, addresses and places.     *)
(***************************************************************************)
EXTENDS Pool, TLAPS, FiniteSetTheorems, SequenceTheorems

\* Where a thread that holds a connection can be, and where it must hold one
Holding == /\ \A t \in Threads : conn[t] # NoConn
                 => pc[t] \in {"out", "put.in", "put.free", "close.in"}
           /\ \A t \in Threads : pc[t] \in {"put.in", "put.free"} => conn[t] # NoConn

-----------------------------------------------------------------------------
\* idle.removeAt(idle.count - 1): the stack loses its last element only.
LEMMA PopLast ==
  ASSUME NEW S, NEW s \in Seq(S), Len(s) > 0
  PROVE  /\ s[Len(s)] \in S
         /\ SubSeq(s, 1, Len(s) - 1) \in Seq(S)
         /\ Len(SubSeq(s, 1, Len(s) - 1)) = Len(s) - 1
         /\ \A i \in 1..(Len(s) - 1) : SubSeq(s, 1, Len(s) - 1)[i] = s[i]
<1>1. Len(s) \in Nat /\ \A i \in 1..Len(s) : s[i] \in S
  OBVIOUS
<1>2. \A i \in 1..(Len(s) - 1) : s[i] \in S
  BY <1>1
<1> DEFINE n == Len(s) - 1
<1>3. n \in Int /\ 1 \in Int /\ n >= 0
  BY <1>1
<1>4. /\ SubSeq(s, 1, n) \in Seq(S)
      /\ Len(SubSeq(s, 1, n)) = IF 1 <= n THEN n - 1 + 1 ELSE 0
      /\ \A i \in 1 .. n - 1 + 1 : SubSeq(s, 1, n)[i] = s[1 + i - 1]
  <2> HIDE DEF n
  <2> QED BY <1>2, <1>3, SubSeqProperties DEF n
<1>5. \A i \in 1 .. n : SubSeq(s, 1, n)[i] = s[i]
  BY <1>3, <1>4
<1>6. Len(SubSeq(s, 1, n)) = n
  <2>1. (IF 1 <= n THEN n - 1 + 1 ELSE 0) = n
    BY <1>3
  <2> HIDE DEF n
  <2> QED BY <2>1, <1>4
<1>7. s[Len(s)] \in S
  BY <1>1
<1> QED BY <1>4, <1>5, <1>6, <1>7, Zenon

\* A thread at a place of put() has the connection it gives back, and a thread
\* inside get() has none, so no method overwrites or loses a connection.
LEMMA TypeAndHolding == Spec => [](TypeOK /\ Holding)
<1>1. newPool => TypeOK /\ Holding
  <2> SUFFICES ASSUME newPool PROVE TypeOK /\ Holding
    OBVIOUS
  <2>1. closed \in BOOLEAN
    BY Zenon DEF newPool
  <2>2. pc \in [Threads -> Places] /\ conn \in [Threads -> Conns \cup {NoConn}]
    BY DEF newPool, Places
  <2> QED BY <2>1, <2>2 DEF newPool, TypeOK, SyncInit, SyncTypeOK, Holding
<1>2. TypeOK /\ Holding /\ [Next]_vars => TypeOK' /\ Holding'
  <2> SUFFICES ASSUME TypeOK, Holding, [Next]_vars PROVE TypeOK' /\ Holding'
    OBVIOUS
  <2> USE DEF TypeOK, SyncTypeOK, Holding, Places, at, go, poolVars
  <2>1. CASE UNCHANGED vars
    BY <2>1 DEF vars
  <2>2. ASSUME NEW t \in Threads,
               \/ getLock(t) \/ getSpurious(t) \/ getWoken(t) \/ undoLock(t)
               \/ putLock(t) \/ closeLock(t)
        PROVE TypeOK' /\ Holding'
    BY <2>2 DEF getLock, getSpurious, getWoken, undoLock, putLock, closeLock,
                lock, relock, wakeWithoutReason
  <2>3. ASSUME NEW t \in Threads, getClosed(t) \/ getOpen(t) \/ getWait(t)
        PROVE TypeOK' /\ Holding'
    BY <2>3 DEF getClosed, getOpen, getWait, unlock, wait
  <2>4. ASSUME NEW t \in Threads, getIdle(t)
        PROVE TypeOK' /\ Holding'
    <3>1. idle[Len(idle)] \in Conns /\ SubSeq(idle, 1, Len(idle) - 1) \in Seq(Conns)
      BY <2>4 DEF getIdle
    <3> QED BY <3>1, <2>4 DEF getIdle, popIdle, unlock
  <2>5. ASSUME NEW t \in Threads, connected(t) \/ connectFailed(t)
        PROVE TypeOK' /\ Holding'
    BY <2>5 DEF connected, connectFailed
  <2>6. ASSUME NEW t \in Threads, undoOpen(t)
        PROVE TypeOK' /\ Holding'
    BY <2>6 DEF undoOpen, signal, unlock
  <2>7. ASSUME NEW t \in Threads, putIdle(t)
        PROVE TypeOK' /\ Holding'
    <3>1. conn[t] \in Conns /\ Append(idle, conn[t]) \in Seq(Conns)
      BY <2>7 DEF putIdle
    <3> QED BY <3>1, <2>7 DEF putIdle, signal, unlock
  <2>8. ASSUME NEW t \in Threads, putClosed(t) \/ putFree(t)
        PROVE TypeOK' /\ Holding'
    BY <2>8 DEF putClosed, putFree, unlock
  <2>9. ASSUME NEW t \in Threads, close(t)
        PROVE TypeOK' /\ Holding'
    <3>1. closed' \in BOOLEAN
      BY <2>9, Zenon DEF close
    <3> QED BY <3>1, <2>9 DEF close, broadcast, unlock
  <2> QED BY <2>1, <2>2, <2>3, <2>4, <2>5, <2>6, <2>7, <2>8, <2>9
          DEF Next, Get, Put
<1> QED BY <1>1, <1>2, PTL DEF Spec

\* Every variable of the pool keeps its type: in particular the stack of idle
\* connections holds connections only, whatever the order of the methods.
THEOREM TypeCorrect == Spec => []TypeOK
  BY TypeAndHolding, PTL
-----------------------------------------------------------------------------
\* One step keeps the connections apart: the step that could mix them up is
\* getIdle (the stack must shrink with what is taken), connected (the memory
\* must be new) and close / putFree (what is freed must be nobody's).
LEMMA ExclusiveStep ==
  ASSUME TypeOK, Holding, ExclusiveUse, [Next]_vars
  PROVE  ExclusiveUse'
<1> USE DEF TypeOK, SyncTypeOK, Holding, ExclusiveUse, holders, idleSet, at, go, poolVars
<1>1. CASE UNCHANGED vars
  BY <1>1 DEF vars
<1>2. ASSUME NEW t \in Threads, UNCHANGED <<idle, alive, conn>>
      PROVE ExclusiveUse'
  BY <1>2
<1>3. ASSUME NEW t \in Threads, getIdle(t)
      PROVE ExclusiveUse'
  <2> DEFINE n == Len(idle)
  <2>0. idle \in Seq(Conns) /\ n \in Nat /\ n > 0 /\ idle' = SubSeq(idle, 1, n - 1)
    BY <1>3 DEF getIdle, popIdle
  <2>1. /\ n \in Nat /\ n > 0 /\ idle[n] \in Conns
        /\ Len(idle') = n - 1
        /\ \A i \in 1..(n-1) : idle'[i] = idle[i]
    BY <2>0, PopLast
  <2>2. /\ alive' = alive /\ conn[t] = NoConn
        /\ conn'[t] = idle[n]
        /\ \A u \in Threads : u # t => conn'[u] = conn[u]
    BY <1>3 DEF getIdle
  <2>3. \A i \in 1..Len(idle') : idle'[i] = idle[i] /\ i \in 1..n /\ i # n
    BY <2>1
  <2>4. \A u \in holders' : u # t => u \in holders /\ conn'[u] = conn[u]
    BY <2>2
  <2>5. \A u \in holders : conn[u] # idle[n]
    BY <2>1
  <2>6. idle[n] \in alive /\ idle[n] \notin idleSet'
    BY <2>1, <2>3
  <2>7. idleSet' \subseteq idleSet
    BY <2>1, <2>3
  <2>8. \A u, v \in holders' : u # v => conn'[u] # conn'[v]
    BY <2>2, <2>4, <2>5
  <2>9. \A u \in holders' : conn'[u] \in alive' /\ conn'[u] \notin idleSet'
    BY <2>2, <2>4, <2>6, <2>7
  <2>10. \A i, j \in 1..Len(idle') : i # j => idle'[i] # idle'[j]
    BY <2>3
  <2> QED BY <2>2, <2>7, <2>8, <2>9, <2>10
<1>4. ASSUME NEW t \in Threads, connected(t)
      PROVE ExclusiveUse'
  <2>1. PICK c \in Conns \ alive : /\ alive' = alive \cup {c}
                                   /\ conn' = [conn EXCEPT ![t] = c]
    BY <1>4 DEF connected
  <2> QED BY <1>4, <2>1 DEF connected
<1>5. ASSUME NEW t \in Threads, putIdle(t)
      PROVE ExclusiveUse'
  <2> DEFINE n == Len(idle)
  <2>1. /\ n \in Nat /\ conn[t] \in Conns /\ t \in holders
        /\ idle' \in Seq(Conns) /\ Len(idle') = n + 1
        /\ \A i \in 1..n : idle'[i] = idle[i]
        /\ idle'[n + 1] = conn[t]
    BY <1>5 DEF putIdle
  <2>2. /\ alive' = alive /\ conn'[t] = NoConn
        /\ \A u \in Threads : u # t => conn'[u] = conn[u]
    BY <1>5 DEF putIdle
  <2>3. \A i \in 1..Len(idle') : i \in 1..n \/ i = n + 1
    BY <2>1
  <2>4. idleSet' = idleSet \cup {conn[t]}
    BY <2>1, <2>3
  <2> QED BY <2>1, <2>2, <2>3, <2>4
<1>6. ASSUME NEW t \in Threads, putFree(t)
      PROVE ExclusiveUse'
  BY <1>6 DEF putFree
<1>7. ASSUME NEW t \in Threads, close(t)
      PROVE ExclusiveUse'
  <2>1. idle' = <<>> /\ alive' = alive \ idleSet /\ conn' = conn
    BY <1>7 DEF close
  <2> QED BY <2>1
<1> QED
  BY <1>1, <1>2, <1>3, <1>4, <1>5, <1>6, <1>7
  DEF Next, Get, Put, getLock, getSpurious, getWoken, undoLock, putLock,
      closeLock, getClosed, getOpen, getWait, connectFailed, undoOpen, putClosed

\* A connection is used by one thread at a time, and never after it was freed,
\* for any number of threads and any interleaving with close().
THEOREM Exclusive == Spec => []ExclusiveUse
<1>1. newPool => ExclusiveUse
  BY DEF newPool, ExclusiveUse, holders, idleSet
<1> QED BY <1>1, TypeAndHolding, ExclusiveStep, PTL DEF Spec
-----------------------------------------------------------------------------
(* openCount() is right, and the pool keeps to its size *)

\* Threads that close, outside the lock, a connection that open no longer counts
freeing == {t \in Threads : pc[t] = "put.free"}

\* Why the database never sees more than size connections though putClosed
\* lowers open before the connection is closed: a place it gave up is given to
\* nobody, as the pool is closed by then. And a live connection is idle or in
\* somebody's hands, so close() frees all it must.
CountInv == /\ open = Len(idle) + Cardinality(counted)
            /\ open + Cardinality(freeing) <= size
            /\ freeing # {} => closed
            /\ alive \subseteq idleSet \cup {conn[t] : t \in holders}

\* The sets that are counted are finite, as they are sets of threads.
LEMMA ThreadsCounted ==
  ASSUME NEW S, S \subseteq Threads
  PROVE  /\ IsFiniteSet(S) /\ Cardinality(S) \in Nat
         /\ \A t : t \notin S => Cardinality(S \cup {t}) = Cardinality(S) + 1
         /\ \A t \in S : Cardinality(S \ {t}) = Cardinality(S) - 1
<1>1. IsFiniteSet(S)
  BY PoolAssumption, FS_Subset
<1> QED
  BY <1>1, FS_CardinalityType, FS_AddElement, FS_RemoveElement

\* The elements of the stack are at most as many as its places.
LEMMA IdleFinite ==
  ASSUME NEW S, NEW s \in Seq(S)
  PROVE  LET T == {s[i] : i \in 1..Len(s)}
         IN  IsFiniteSet(T) /\ Cardinality(T) <= Len(s)
<1> DEFINE T == {s[i] : i \in 1..Len(s)}
           f == [i \in 1..Len(s) |-> s[i]]
<1>1. Len(s) \in Nat
  OBVIOUS
<1>2. f \in Surjection(1..Len(s), T)
  BY DEF Surjection
<1>3. IsFiniteSet(1..Len(s)) /\ Cardinality(1..Len(s)) = Len(s)
  BY <1>1, FS_Interval
<1> QED
  BY <1>1, <1>2, <1>3, FS_Surjection, FS_CardinalityType

\* What is alive is counted by open or about to be freed.
LEMMA AliveCounted ==
  ASSUME TypeOK, CountInv
  PROVE  OpenIsCounted
<1> DEFINE hands == {conn[t] : t \in holders}
           f == [t \in holders |-> conn[t]]
<1>1. /\ idle \in Seq(Conns) /\ Len(idle) \in Nat /\ open \in Int /\ size \in Nat
      /\ holders \subseteq Threads /\ counted \subseteq Threads /\ freeing \subseteq Threads
  BY PoolAssumption DEF TypeOK, holders, counted, freeing
<1>2. IsFiniteSet(idleSet) /\ Cardinality(idleSet) <= Len(idle) /\ Cardinality(idleSet) \in Nat
  BY <1>1, IdleFinite, FS_CardinalityType DEF idleSet
<1>3. /\ IsFiniteSet(holders) /\ Cardinality(holders) \in Nat
      /\ IsFiniteSet(counted) /\ Cardinality(counted) \in Nat
      /\ IsFiniteSet(freeing) /\ Cardinality(freeing) \in Nat
  BY <1>1, ThreadsCounted
<1>4. f \in Surjection(holders, hands)
  BY DEF Surjection
<1>5. IsFiniteSet(hands) /\ Cardinality(hands) <= Cardinality(holders) /\ Cardinality(hands) \in Nat
  BY <1>3, <1>4, FS_Surjection, FS_CardinalityType
<1>6. Cardinality(holders) <= Cardinality(counted) + Cardinality(freeing)
  <2>1. holders \subseteq counted \cup freeing
    BY DEF holders, counted, freeing
  <2>2. /\ IsFiniteSet(counted \cup freeing)
        /\ Cardinality(counted \cup freeing)
             = Cardinality(counted) + Cardinality(freeing) - Cardinality(counted \cap freeing)
    BY <1>3, FS_Union
  <2>3. Cardinality(holders) <= Cardinality(counted \cup freeing)
    BY <2>1, <2>2, FS_Subset
  <2>4. Cardinality(counted \cap freeing) \in Nat
    BY <1>1, ThreadsCounted
  <2> QED
    BY <1>3, <2>2, <2>3, <2>4
<1>7. /\ Cardinality(alive) \in Int
      /\ Cardinality(alive) <= Cardinality(idleSet) + Cardinality(hands)
  <2>1. /\ IsFiniteSet(idleSet \cup hands)
        /\ Cardinality(idleSet \cup hands)
             = Cardinality(idleSet) + Cardinality(hands) - Cardinality(idleSet \cap hands)
    BY <1>2, <1>5, FS_Union
  <2>2. IsFiniteSet(alive) /\ Cardinality(alive) <= Cardinality(idleSet \cup hands)
    BY <2>1, FS_Subset DEF CountInv
  <2>3. IsFiniteSet(idleSet \cap hands) /\ Cardinality(idleSet \cap hands) \in Nat
    BY <1>2, FS_Subset, FS_CardinalityType
  <2>4. Cardinality(alive) \in Nat
    BY <2>2, FS_CardinalityType
  <2> QED
    BY <1>2, <1>5, <2>1, <2>2, <2>3, <2>4
<1>8. open = Len(idle) + Cardinality(counted) /\ open + Cardinality(freeing) <= size
  BY DEF CountInv
<1> HIDE DEF hands
<1> QED
  BY <1>1, <1>2, <1>3, <1>5, <1>6, <1>7, <1>8 DEF OpenIsCounted

\* One step keeps open right: undoOpen and putClosed, which lower it, are taken
\* by threads it counts, and getOpen, which raises it, only below size and when
\* no connection is left to close.
LEMMA CountStep ==
  ASSUME TypeOK, Holding, CountInv, [Next]_vars
  PROVE  CountInv'
<1> DEFINE C == Cardinality(counted)
           F == Cardinality(freeing)
<1>0. /\ idle \in Seq(Conns) /\ Len(idle) \in Nat /\ open \in Int /\ size \in Nat
      /\ counted \subseteq Threads /\ freeing \subseteq Threads
      /\ C \in Nat /\ F \in Nat
      /\ (freeing = {} => F = 0)
  BY PoolAssumption, ThreadsCounted, FS_EmptySet DEF TypeOK, counted, freeing
<1>c. /\ open = Len(idle) + C
      /\ open + F <= size
      /\ freeing # {} => closed
      /\ alive \subseteq idleSet \cup {conn[t] : t \in holders}
  BY DEF CountInv
<1> USE DEF at, go, poolVars, Places
<1> HIDE DEF C, F
<1>1. CASE UNCHANGED vars
  BY <1>1, <1>c DEF vars, CountInv, counted, freeing, idleSet, holders, C, F
<1>2. ASSUME UNCHANGED <<idle, open, closed, alive, conn>>,
             counted' = counted, freeing' = freeing
      PROVE  CountInv'
  BY <1>2, <1>c DEF CountInv, idleSet, holders, C, F
<1>3. ASSUME NEW t \in Threads,
             \/ getLock(t) \/ getSpurious(t) \/ getWoken(t) \/ undoLock(t)
             \/ putLock(t) \/ closeLock(t) \/ getClosed(t) \/ getWait(t)
             \/ connectFailed(t)
      PROVE  CountInv'
  <2>1. UNCHANGED <<idle, open, closed, alive, conn>>
    BY <1>3 DEF getLock, getSpurious, getWoken, undoLock, putLock, closeLock,
                getClosed, getWait, connectFailed
  <2>2. counted' = counted /\ freeing' = freeing
    BY <1>3 DEF getLock, getSpurious, getWoken, undoLock, putLock, closeLock,
                getClosed, getWait, connectFailed, TypeOK, Holding, counted, freeing
  <2> QED BY <2>1, <2>2, <1>2
<1>4. ASSUME NEW t \in Threads, getIdle(t)
      PROVE  CountInv'
  <2>1. /\ Len(idle') = Len(idle) - 1 /\ open' = open /\ closed' = closed /\ alive' = alive
        /\ \A i \in 1..(Len(idle) - 1) : idle'[i] = idle[i]
        /\ conn'[t] = idle[Len(idle)] /\ idle[Len(idle)] \in Conns
        /\ \A u \in Threads : u # t => conn'[u] = conn[u]
    BY <1>4, <1>0, PopLast DEF getIdle, popIdle, TypeOK
  <2>2. t \notin counted /\ counted' = counted \cup {t} /\ freeing' = freeing
    BY <1>4, <2>1, PoolAssumption DEF getIdle, TypeOK, Holding, counted, freeing
  <2>3. alive' \subseteq idleSet' \cup {conn'[u] : u \in holders'}
    <3>1. \A i \in 1..Len(idle) : i \in 1..Len(idle') \/ i = Len(idle)
      BY <1>0, <2>1
    <3>2. t \in holders' /\ holders \subseteq holders' /\ t \notin holders
      BY <1>4, <2>1, PoolAssumption DEF getIdle, TypeOK, Holding, holders
    <3> QED BY <1>c, <2>1, <3>1, <3>2 DEF idleSet, holders
  <2>4. Cardinality(counted') = C + 1
    BY <1>0, <2>2, ThreadsCounted DEF C
  <2> QED BY <1>0, <1>c, <2>1, <2>2, <2>3, <2>4 DEF CountInv, F
<1>5. ASSUME NEW t \in Threads, getOpen(t)
      PROVE  CountInv'
  <2>1. UNCHANGED <<idle, closed, alive, conn>> /\ open' = open + 1 /\ open < size /\ ~closed
    BY <1>5 DEF getOpen, hasRoom
  <2>2. t \notin counted /\ counted' = counted \cup {t} /\ freeing' = freeing
    BY <1>5 DEF getOpen, TypeOK, Holding, counted, freeing
  <2>3. Cardinality(counted') = C + 1 /\ F = 0
    BY <1>0, <1>c, <2>1, <2>2, ThreadsCounted DEF C
  <2> QED BY <1>0, <1>c, <2>1, <2>2, <2>3 DEF CountInv, F, idleSet, holders
<1>6. ASSUME NEW t \in Threads, connected(t)
      PROVE  CountInv'
  <2>1. PICK c \in Conns \ alive : /\ alive' = alive \cup {c}
                                   /\ conn' = [conn EXCEPT ![t] = c]
    BY <1>6 DEF connected
  <2>2. UNCHANGED <<idle, open, closed>>
    BY <1>6 DEF connected
  <2>3. counted' = counted /\ freeing' = freeing
    BY <1>6, <2>1, PoolAssumption DEF connected, TypeOK, Holding, counted, freeing
  <2>4. alive' \subseteq idleSet' \cup {conn'[u] : u \in holders'}
    <3>1. t \in holders' /\ conn'[t] = c /\ t \notin holders
      BY <1>6, <2>1, PoolAssumption DEF connected, TypeOK, Holding, holders
    <3>2. \A u \in holders : u \in holders' /\ conn'[u] = conn[u]
      BY <2>1, <3>1 DEF TypeOK, holders
    <3> QED BY <1>c, <2>1, <2>2, <3>1, <3>2 DEF idleSet
  <2> QED BY <1>c, <2>2, <2>3, <2>4 DEF CountInv, C, F
<1>7. ASSUME NEW t \in Threads, undoOpen(t)
      PROVE  CountInv'
  <2>1. UNCHANGED <<idle, closed, alive, conn>> /\ open' = open - 1
    BY <1>7 DEF undoOpen
  <2>2. t \in counted /\ counted' = counted \ {t} /\ freeing' = freeing
    BY <1>7 DEF undoOpen, TypeOK, Holding, counted, freeing
  <2>3. Cardinality(counted') = C - 1
    BY <1>0, <2>2, ThreadsCounted DEF C
  <2> QED BY <1>0, <1>c, <2>1, <2>2, <2>3 DEF CountInv, F, idleSet, holders
<1>8. ASSUME NEW t \in Threads, putIdle(t)
      PROVE  CountInv'
  <2>1. /\ conn[t] \in Conns /\ t \in holders
        /\ open' = open /\ closed' = closed /\ alive' = alive
        /\ Len(idle') = Len(idle) + 1
        /\ \A i \in 1..Len(idle) : idle'[i] = idle[i]
        /\ idle'[Len(idle) + 1] = conn[t]
        /\ conn'[t] = NoConn /\ \A u \in Threads : u # t => conn'[u] = conn[u]
    BY <1>8, <1>0 DEF putIdle, TypeOK, Holding, holders
  <2>2. t \in counted /\ counted' = counted \ {t} /\ freeing' = freeing
    BY <1>8, <2>1, PoolAssumption DEF putIdle, TypeOK, Holding, counted, freeing
  <2>3. alive' \subseteq idleSet' \cup {conn'[u] : u \in holders'}
    <3>1. \A u \in holders : u # t => u \in holders' /\ conn'[u] = conn[u]
      BY <2>1 DEF holders
    <3>2. idleSet \subseteq idleSet' /\ conn[t] \in idleSet'
      BY <1>0, <2>1 DEF idleSet
    <3> QED BY <1>c, <2>1, <3>1, <3>2
  <2>4. Cardinality(counted') = C - 1
    BY <1>0, <2>2, ThreadsCounted DEF C
  <2> QED BY <1>0, <1>c, <2>1, <2>2, <2>3, <2>4 DEF CountInv, F
<1>9. ASSUME NEW t \in Threads, putClosed(t)
      PROVE  CountInv'
  <2>1. UNCHANGED <<idle, closed, alive, conn>> /\ open' = open - 1 /\ closed
    BY <1>9 DEF putClosed
  <2>2. /\ t \in counted /\ counted' = counted \ {t}
        /\ t \notin freeing /\ freeing' = freeing \cup {t}
    BY <1>9 DEF putClosed, TypeOK, Holding, counted, freeing
  <2>3. Cardinality(counted') = C - 1 /\ Cardinality(freeing') = F + 1
    BY <1>0, <2>2, ThreadsCounted DEF C, F
  <2> QED BY <1>0, <1>c, <2>1, <2>2, <2>3 DEF CountInv, idleSet, holders
<1>10. ASSUME NEW t \in Threads, putFree(t)
       PROVE  CountInv'
  <2>1. /\ UNCHANGED <<idle, open, closed>> /\ alive' = alive \ {conn[t]}
        /\ conn'[t] = NoConn /\ \A u \in Threads : u # t => conn'[u] = conn[u]
    BY <1>10 DEF putFree, TypeOK
  <2>2. counted' = counted /\ t \in freeing /\ freeing' = freeing \ {t}
    BY <1>10, <2>1 DEF putFree, TypeOK, Holding, counted, freeing
  <2>3. alive' \subseteq idleSet' \cup {conn'[u] : u \in holders'}
    <3>1. \A u \in holders : u # t => u \in holders' /\ conn'[u] = conn[u]
      BY <2>1 DEF holders
    <3> QED BY <1>c, <2>1, <3>1 DEF idleSet
  <2>4. Cardinality(freeing') = F - 1
    BY <1>0, <2>2, ThreadsCounted DEF F
  <2> QED BY <1>0, <1>c, <2>1, <2>2, <2>3, <2>4 DEF CountInv, C
<1>11. ASSUME NEW t \in Threads, close(t)
       PROVE  CountInv'
  <2>1. /\ idle' = <<>> /\ Len(idle') = 0 /\ open' = open - Len(idle) /\ closed'
        /\ alive' = alive \ idleSet /\ conn' = conn
    BY <1>11 DEF close
  <2>2. counted' = counted /\ freeing' = freeing
    BY <1>11, <2>1 DEF close, TypeOK, counted, freeing
  <2>3. alive' \subseteq idleSet' \cup {conn'[u] : u \in holders'}
    BY <1>c, <2>1 DEF holders
  <2> QED BY <1>0, <1>c, <2>1, <2>2, <2>3 DEF CountInv, C, F
<1> QED
  BY <1>1, <1>3, <1>4, <1>5, <1>6, <1>7, <1>8, <1>9, <1>10, <1>11 DEF Next, Get, Put

\* open counts the idle connections, those in use and those being connected,
\* and the pool never has more than size connections alive: for any number of
\* threads, any size and any order of connect errors and close().
THEOREM Counted == Spec => []OpenIsCounted
<1>1. newPool => CountInv
  <2> SUFFICES ASSUME newPool PROVE CountInv
    OBVIOUS
  <2>1. counted = {} /\ freeing = {}
    BY DEF newPool, counted, freeing
  <2>2. Cardinality({}) = 0
    BY FS_EmptySet
  <2> QED BY <2>1, <2>2, PoolAssumption DEF newPool, CountInv
<1> QED
  BY <1>1, TypeAndHolding, CountStep, AliveCounted, PTL DEF Spec
-----------------------------------------------------------------------------
(* No thread sleeps in get() over what it could take *)

\* Who is in the condition's queue is inside available.wait()
WaitInv == /\ \A t \in waiting : pc[t] = "get.wait"
           /\ NoLostWakeup

\* One step loses no wake-up: what putIdle, undoOpen or close adds to take is
\* added together with a thread on its way, and what a thread on its way takes
\* is gone with it; getWait begins to wait only when there is nothing.
LEMMA WakeupStep ==
  ASSUME TypeOK, Holding, WaitInv, [Next]_vars
  PROVE  WaitInv'
<1> DEFINE W == Cardinality(onTheirWay)
           toTake == Len(idle) + (size - open)
<1>0. /\ idle \in Seq(Conns) /\ Len(idle) \in Nat /\ open \in Int /\ size \in Nat
      /\ toTake \in Int /\ W \in Nat
      /\ onTheirWay \subseteq Threads /\ waiting \subseteq Threads
  BY PoolAssumption, ThreadsCounted DEF TypeOK, SyncTypeOK, onTheirWay
<1>w. /\ \A t \in waiting : pc[t] = "get.wait"
      /\ waiting # {} => ~closed /\ toTake <= W
  BY DEF WaitInv, NoLostWakeup
<1> USE DEF at, go, poolVars, Places
<1>1. CASE UNCHANGED vars
  BY <1>1 DEF vars, WaitInv, NoLostWakeup, onTheirWay
<1>2. ASSUME \A t \in waiting' : pc'[t] = "get.wait",
             waiting' # {} => /\ waiting # {} /\ closed' = closed
                              /\ \/ toTake' <= toTake /\ Cardinality(onTheirWay') = W
                                 \/ toTake' <= toTake + 1 /\ Cardinality(onTheirWay') = W + 1
                                 \/ toTake' = toTake - 1 /\ Cardinality(onTheirWay') = W - 1,
             toTake' \in Int
      PROVE  WaitInv'
  <2> HIDE DEF W
  <2> QED BY <1>0, <1>w, <1>2 DEF WaitInv, NoLostWakeup
<1>3. ASSUME NEW t \in Threads,
             \/ undoLock(t) \/ putLock(t) \/ closeLock(t) \/ connectFailed(t)
             \/ connected(t) \/ getWoken(t) \/ putFree(t)
      PROVE  WaitInv'
  <2>1. UNCHANGED <<idle, open, closed, waiting>>
    BY <1>3 DEF undoLock, putLock, closeLock, connectFailed, connected, getWoken, putFree
  <2>2. onTheirWay' = onTheirWay
    BY <1>3, <1>w DEF undoLock, putLock, closeLock, connectFailed, connected, getWoken, putFree,
                      relock, onTheirWay, TypeOK
  <2>3. t \notin waiting /\ \E place \in Places : pc' = [pc EXCEPT ![t] = place]
    BY <1>3, <1>w DEF undoLock, putLock, closeLock, connectFailed, connected, getWoken, putFree,
                      relock
  <2>4. \A u \in waiting : pc'[u] = "get.wait"
    BY <1>0, <1>w, <2>3 DEF TypeOK
  <2> QED BY <1>0, <1>2, <2>1, <2>2, <2>4
<1>4. ASSUME NEW t \in Threads, getLock(t) \/ getSpurious(t)
      PROVE  WaitInv'
  <2>1. UNCHANGED <<idle, open, closed>> /\ waiting' \subseteq waiting
    BY <1>4 DEF getLock, getSpurious, wakeWithoutReason
  <2>2. t \notin onTheirWay /\ onTheirWay' = onTheirWay \cup {t}
    BY <1>4, <1>w DEF getLock, getSpurious, wakeWithoutReason, onTheirWay, TypeOK
  <2>3. \A u \in waiting' : pc'[u] = "get.wait"
    <3>1. CASE getLock(t)
      BY <3>1, <1>0, <1>w DEF getLock, TypeOK
    <3>2. CASE getSpurious(t)
      BY <3>2, <1>w DEF getSpurious, wakeWithoutReason
    <3> QED BY <1>4, <3>1, <3>2
  <2>4. Cardinality(onTheirWay') = W + 1
    BY <1>0, <2>2, ThreadsCounted
  <2> QED BY <1>0, <1>2, <2>1, <2>3, <2>4
<1>5. ASSUME NEW t \in Threads, getIdle(t) \/ getOpen(t)
      PROVE  WaitInv'
  <2>1. /\ waiting' = waiting /\ closed' = closed /\ toTake' = toTake - 1
    <3>1. CASE getIdle(t)
      <4>1. Len(idle') = Len(idle) - 1
        BY <3>1, <1>0, PopLast DEF getIdle, popIdle
      <4> QED BY <3>1, <4>1, <1>0 DEF getIdle
    <3>2. CASE getOpen(t)
      BY <3>2, <1>0 DEF getOpen
    <3> QED BY <1>5, <3>1, <3>2
  <2>2. t \in onTheirWay /\ onTheirWay' = onTheirWay \ {t}
    BY <1>5, <1>w DEF getIdle, getOpen, onTheirWay, TypeOK
  <2>3. t \notin waiting /\ pc' = [pc EXCEPT ![t] = pc'[t]]
    BY <1>5, <1>w DEF getIdle, getOpen, TypeOK
  <2>4. Cardinality(onTheirWay') = W - 1
    BY <1>0, <2>2, ThreadsCounted
  <2>5. \A u \in waiting : pc'[u] = "get.wait"
    BY <1>0, <1>w, <2>3 DEF TypeOK
  <2> QED BY <1>0, <1>2, <2>1, <2>4, <2>5
<1>6. ASSUME NEW t \in Threads, getWait(t)
      PROVE  WaitInv'
  <2>1. /\ UNCHANGED <<idle, open, closed>> /\ ~closed
        /\ Len(idle) = 0 /\ ~(open < size) /\ waiting' = waiting \cup {t}
    BY <1>6 DEF getWait, hasRoom, wait
  <2>2. \A u \in waiting' : pc'[u] = "get.wait"
    BY <1>6, <1>w, <2>1 DEF getWait, TypeOK
  <2>3. Cardinality(onTheirWay') \in Nat
    BY ThreadsCounted DEF onTheirWay
  <2> QED BY <1>0, <2>1, <2>2, <2>3 DEF WaitInv, NoLostWakeup
<1>7. ASSUME NEW t \in Threads, undoOpen(t) \/ putIdle(t)
      PROVE  WaitInv'
  <2>1. closed' = closed /\ toTake' = toTake + 1 /\ toTake' \in Int
    <3>1. CASE undoOpen(t)
      BY <3>1, <1>0 DEF undoOpen
    <3>2. CASE putIdle(t)
      <4>1. conn[t] \in Conns
        BY <3>2 DEF putIdle, TypeOK, Holding
      <4>2. Len(idle') = Len(idle) + 1 /\ open' = open /\ closed' = closed
        BY <3>2, <4>1, <1>0 DEF putIdle
      <4> QED BY <4>2, <1>0
    <3> QED BY <1>7, <3>1, <3>2
  <2>2. signal /\ t \notin waiting /\ t \notin onTheirWay /\ pc' = [pc EXCEPT ![t] = "out"]
    BY <1>7, <1>w DEF undoOpen, putIdle, onTheirWay, TypeOK
  <2>3. CASE waiting = {}
    BY <2>2, <2>3, <2>1, <1>2 DEF signal
  <2>4. CASE waiting # {}
    <3>1. PICK u \in waiting : waiting' = waiting \ {u}
      BY <2>2, <2>4 DEF signal
    <3>2. u \notin onTheirWay /\ onTheirWay' = onTheirWay \cup {u}
      BY <1>0, <1>w, <2>2, <3>1 DEF onTheirWay, TypeOK
    <3>3. Cardinality(onTheirWay') = W + 1
      BY <1>0, <3>2, ThreadsCounted
    <3>4. \A v \in waiting' : pc'[v] = "get.wait"
      BY <1>w, <2>2, <3>1, <1>0 DEF TypeOK
    <3> QED BY <1>0, <1>2, <2>1, <2>4, <3>3, <3>4
  <2> QED BY <2>3, <2>4
<1>8. ASSUME NEW t \in Threads, getClosed(t) \/ putClosed(t) \/ close(t)
      PROVE  WaitInv'
  <2>1. waiting' = {}
    BY <1>8, <1>w DEF getClosed, putClosed, close, broadcast
  <2> QED BY <2>1 DEF WaitInv, NoLostWakeup
<1> QED
  BY <1>1, <1>3, <1>4, <1>5, <1>6, <1>7, <1>8 DEF Next, Get, Put

\* While a thread waits in get(), every idle connection and every free place
\* has a thread that is on its way to take it, and the pool is not closed:
\* signal() once per connection or place given back is enough, for any number
\* of threads, with spurious wake-ups and with threads that come in between.
THEOREM WakeupNotLost == Spec => []NoLostWakeup
<1>1. newPool => WaitInv
  BY DEF newPool, SyncInit, WaitInv, NoLostWakeup
<1>2. WaitInv => NoLostWakeup
  BY DEF WaitInv
<1> QED
  BY <1>1, <1>2, TypeAndHolding, WakeupStep, PTL DEF Spec
=============================================================================
